--------------------------- MODULE MCOfflineQueue ---------------------------
(***************************************************************************)
(* Two items of one person, or one item each of two.                       *)
(***************************************************************************)
EXTENDS OfflineQueue
CONSTANTS t1, t2, u1, u2
OneOwner == [i \in Items |-> u1]
EachTheirOwn == [i \in Items |-> IF i = 1 THEN u1 ELSE u2]
=============================================================================
