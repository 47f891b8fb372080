\* A delete or an archive races an approval.
CONSTANTS
  Dockets = {d1}
  Projects = {1}
  Claims = {}
  Requests = {r1, r2}
  Items <- MCItems
  Contents <- OneContent
  Uploads = {"review", "approved", "included_claim", "invoiced"}
  Entitlements = {TRUE}
  MaxSeq = 0
  None = None
SPECIFICATION Spec
SYMMETRY RequestSymmetry
PROPERTIES
  ApprovedNotRemoved
\* A deployment may stop at any point: nothing obliges anyone to send a request.
CHECK_DEADLOCK FALSE
