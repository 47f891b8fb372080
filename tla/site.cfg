\* Two work orders and two mechanics; meters, days and histories up to 3; two shifts and two planners, one across midnight; three revisions and two workers.
SPECIFICATION SiteSpec
CONSTANTS
  Orders = {o1, o2}
  Mechanics = {m1, m2}
  Nobody = Nobody
  MaxMeter = 2
  MaxDay = 2
  MaxEntries = 3
  ShiftIds = {s1, s2}
  Planners = {p1, p2}
  Resources = {truck}
  Bookings = {{truck}}
  Windows <- MCWindows
  DayLength = 4
  NoShift = NoShift
  Authors = {a1}
  Crew = {w1, w2}
  Drafts = {d1, d2, gap}
  Complete = {d1, d2}
  MaxSwmsRevisions = 3
SYMMETRY SiteSymmetry
INVARIANTS
  HoldIsCriticalDefects
  ClosedIndependently
  EvidenceInOrder
  BookedTwiceOnlyInRace
  OneInForceAsApproved
  AcknowledgedWhatWasRead
PROPERTIES
  OverdueNeedsWork
\* Nobody is obliged to do anything.
CHECK_DEADLOCK FALSE
