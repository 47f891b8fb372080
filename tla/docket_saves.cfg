\* Two requests race on one docket of two projects; the entitlement and the projects change under them.
CONSTANTS
  Dockets = {d1}
  Projects = {1, 2}
  Claims = {}
  Requests = {r1, r2}
  Items <- MCItems
  Contents <- OneContent
  Uploads = {"review", "approved", "included_claim", "invoiced"}
  Entitlements = {TRUE, FALSE}
  MaxSeq = 1
  None = None
SPECIFICATION Spec
SYMMETRY RequestSymmetry
INVARIANTS
  ActualRowsMatchAllocation
  NoLockCycle
PROPERTIES
  StaleFormCannotMove
  ClosedProjectKeepsItsCost
\* A deployment may stop at any point: nothing obliges anyone to send a request.
CHECK_DEADLOCK FALSE
