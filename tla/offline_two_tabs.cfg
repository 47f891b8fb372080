\* One item, two tabs of one browser, the session may end.
CONSTANTS
  t1 = t1
  t2 = t2
  u1 = u1
  u2 = u2
  None = None
  Items = {1}
  Tabs = {t1, t2}
  Users = {u1}
  OwnerOf <- OneOwner
  Reachable = {}
  MaxOpens = 3
  MaxSignIns = 1
  MaxRetries = 1
SPECIFICATION Spec
INVARIANTS
  NotDroppedSilently
\* The queue may be empty and the bounds spent.
CHECK_DEADLOCK FALSE
