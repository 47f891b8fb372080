\* Two work orders of one plant item and two mechanics.
SPECIFICATION WorkshopSpec
CONSTANTS
  Orders = {o1, o2}
  Mechanics = {m1, m2}
  Nobody = Nobody
INVARIANTS
  CriticalDefectHolds
\* Nobody is obliged to do anything.
CHECK_DEADLOCK FALSE
