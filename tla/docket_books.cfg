\* One docket edited between an itemised and a total-only content, moved A, B, A, claimed and closed.
CONSTANTS
  Dockets = {d1}
  Projects = {1, 2}
  Claims = {c1}
  Requests = {r1}
  Items <- MCItems
  Contents <- TwoContents
  Uploads = {"review", "approved", "included_claim", "invoiced"}
  Entitlements = {TRUE}
  MaxSeq = 2
  None = None
SPECIFICATION Spec
INVARIANTS
  PostedTotal
  ClaimHoldsItsDockets
PROPERTIES
  PostedHistoryKept
  KeepsBook
\* A deployment may stop at any point: nothing obliges anyone to send a request.
CHECK_DEADLOCK FALSE
