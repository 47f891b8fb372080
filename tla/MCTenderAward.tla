--------------------------- MODULE MCTenderAward ---------------------------
EXTENDS TenderAward, TLC

\* Users and contents are interchangeable.
Symmetric == Permutations(Users) \cup Permutations(Contents)
=============================================================================
