\* One request names the contract twice.
CONSTANTS
  Sources = {"contract", "variation"}
  Other = "other"
  Value <- MCValue
  Inputs <- DoubleLines
  Certifications = {4}
  Payments = {1}
  Pct = 50
  Cap = 3
  MaxClaims = 2
SPECIFICATION Spec
INVARIANTS
  ClaimedWithinValue
\* The office may stop at any point, and numbers are bounded.
CHECK_DEADLOCK FALSE
