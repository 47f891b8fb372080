\* One tender and its estimate, two requests in flight, two revisions.
SPECIFICATION Spec
CONSTANTS
  Users = {ann, bob}
  Contents = {c1, c2}
  MaxRevisions = 2
  MaxTime = 2
SYMMETRY Symmetric
INVARIANTS
  AtMostOneApproved
  BaselineIsApprovedRevision
  AwardIsOne
PROPERTIES
  OutcomeIsFinal
