\* Two corrective actions and two users; three people and two invitations; five events of two subscriptions, two deliveries and two days; five steps in two files and two processes; three uploads; three versions and two submissions; one variation, two checklist items and two requests; two clients, two contacts and a record; four activities; one activity, three revisions and two editors.
SPECIFICATION OfficeSpec
CONSTANTS
  Actions = {a1, a2}
  Staff = {u1, u2}
  Noone = Noone
  People = {p1, p2, p3}
  Nowhere = Nowhere
  MaxInvitations = 2
  Features <- MCFeatures
  Subscriptions = {"b1", "b2"}
  Events <- MCEvents
  LastDay = 1
  Deliveries = {w1, w2}
  Unset = Unset
  Scripts <- MCScripts
  Processes = {n1, n2}
  NoProcess = NoProcess
  Uploads = {f1, f2, f3}
  Schemas = {s1, s2, gap}
  Valid = {s1, s2}
  Submissions = {x1, x2}
  MaxFormVersions = 3
  MaxCorrections = 1
  Variations = {v1}
  Readiness = {r1}
  Closeout = {c1}
  Defaults = {c1}
  Writers = {q1, q2}
  Clients = {k1, k2}
  Contacts = {m1, m2}
  Files = {o1}
  Nobody = Nobody
  MaxActivities = 4
  Durations = {1}
  Unknown = Unknown
  Editors = {e1, e2}
  Ids = {i1}
  FirstIds = {}
  Texts = {t1, t2}
  FirstText = t1
  MaxRevision = 3
INVARIANTS
  ClosedOnEvidence
  AlwaysAnAdmin
  AccessFollowsSubscription
  AppliedOnceInOrder
  RevisionsReadable
  EvidenceReadsAsGiven
  ClosedProjectIsFinished
  RecordsNameLiveClients
  OnePrimaryContact
  TimelineIsLongestChain
  SavesReplaceWhatWasRead
\* Nobody is obliged to do anything.
CHECK_DEADLOCK FALSE
