\* Every race of four deliveries of one request id, under weak fairness of each delivery.
CONSTANTS
  d1 = d1
  d2 = d2
  d3 = d3
  d4 = d4
  i1 = i1
  None = None
  Ids = {i1}
  Deliveries <- MCDeliveries
  IdOf <- MCIdOf
  PrintOf <- MCPrintOf
  MaxAttempts = 3
SPECIFICATION FairSpec
PROPERTIES
  Implements
  AllAnswered
\* Every delivery is answered in the end.
CHECK_DEADLOCK FALSE
