------------------------------ MODULE MCClaims ------------------------------
(***************************************************************************)
(* Claims on small instances: a contract and one deduction or addition.    *)
(***************************************************************************)
EXTENDS Claims

MCValue == [s \in Sources |-> IF s = "contract" THEN 6 ELSE 2]

Ask(lines, release) == [lines |-> lines, release |-> release]
On(s, amount) == [source |-> s, amount |-> amount]

\* No request names a source twice.
SingleLines ==
  {Ask(<<On("contract", 2)>>, 0), Ask(<<On("contract", 4), On("variation", 2)>>, 0),
   Ask(<<On("contract", -2), On("other", 4)>>, 0), Ask(<<>>, 1), Ask(<<>>, 2)}

\* One request with two lines on the same source.
DoubleLines == SingleLines \cup {Ask(<<On("contract", 4), On("contract", 4)>>, 0)}
=============================================================================
