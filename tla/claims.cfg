\* Three claims on a contract and a variation, with releases, any certification, billing, payments and closure.
CONSTANTS
  Sources = {"contract", "variation"}
  Other = "other"
  Value <- MCValue
  Inputs <- SingleLines
  Certifications = {0, 2, 6}
  Payments = {1, 2, 3}
  Pct = 50
  Cap = 3
  MaxClaims = 3
SPECIFICATION Spec
INVARIANTS
  ClaimedWithinValue
  RetentionSoundInOrder
  SubmittedCanBeCertified
  InvoiceAgreesWithClaim
  ClosedProjectHasNoOpenClaim
\* The office may stop at any point, and numbers are bounded.
CHECK_DEADLOCK FALSE
