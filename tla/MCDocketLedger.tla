--------------------------- MODULE MCDocketLedger ---------------------------
(***************************************************************************)
(* DocketLedger on small instances for TLC.                                *)
(***************************************************************************)
EXTENDS DocketLedger, TLC

MCItems == {"L1", "L2"}

Priced(a, b, total) == [items |-> ("L1" :> a) @@ ("L2" :> b), amount |-> total]

\* An itemised docket whose total differs from its lines (L1, L2 and ADJ),
\* and one with a total only (TOTAL): an edit from one to the other retires
\* every line of the first.
TwoContents == {Priced(1, 2, 4), Priced(0, 0, 2)}
OneContent == {Priced(1, 0, 2)}

RequestSymmetry == Permutations(Requests)
=============================================================================
