\* Two items, one tab; the server never answers the older item.
CONSTANTS
  t1 = t1
  t2 = t2
  u1 = u1
  u2 = u2
  None = None
  Items = {1, 2}
  Tabs = {t1}
  Users = {u1}
  OwnerOf <- OneOwner
  Reachable = {2}
  MaxOpens = 2
  MaxSignIns = 0
  MaxRetries = 0
SPECIFICATION FairSpec
PROPERTIES
  Settles
  ConflictWaitsForUser
\* The queue may be empty and the bounds spent.
CHECK_DEADLOCK FALSE
