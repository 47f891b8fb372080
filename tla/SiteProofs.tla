----------------------------- MODULE SiteProofs -----------------------------
(***************************************************************************)
(* What is proved of the workshop and of the sites, for every set of       *)
(* orders, plans, resources, shifts and workers: the safety hold and the   *)
(* independence of verifications, the order of service evidence, that only *)
(* a race books anything twice, and the one SWMS in force with what its    *)
(* crew has acknowledged.                                                  *)
(***************************************************************************)
EXTENDS Workshop, ServicePlan, Shifts, Swms, SequenceTheorems, TLAPS

-----------------------------------------------------------------------------
(* The workshop: the safety hold and the independence of verifications     *)

\* An order waits for verification with the mechanic who repaired it.
RepairsAreKnown ==
  \A o \in Orders: orders[o].status = "awaiting_verification" => orders[o].repairer \in Mechanics

\* The inductive invariant: the properties, and what a verification relies on.
WorkshopInv ==
  /\ WorkshopTypeOK
  /\ RepairsAreKnown
  /\ HoldIsCriticalDefects
  /\ ClosedIndependently

USE NobodyAssumption

\* The values the rows start from have their types.
LEMMA EmptyRows == NoOrder \in OrderRows /\ NoVerification \in Verifications
BY DEF NoOrder, OrderRows, NoVerification, Verifications, OrderStatuses

\* Invalidating the forms on an order keeps the verifications' type.
LEMMA TouchType ==
  ASSUME WorkshopTypeOK, NEW o
  PROVE  Touch(o) \in [Mechanics -> Verifications]
<1>1. \A m \in Mechanics: verifying[m] \in Verifications
  BY DEF WorkshopTypeOK
<1>2. \A v \in Verifications: [v EXCEPT !.current = FALSE] \in Verifications
  BY DEF Verifications
<1>. QED BY <1>1, <1>2 DEF Touch

\* Ending a verification keeps the verifications' type.
LEMMA EndType ==
  ASSUME WorkshopTypeOK, NEW m \in Mechanics, EndVerify(m)
  PROVE  verifying' \in [Mechanics -> Verifications]
BY TouchType, EmptyRows DEF EndVerify

\* Holding and releasing a plant item keep its type.
LEMMA PlantType ==
  ASSUME NEW p \in [status: PlantStatuses, hold: BOOLEAN]
  PROVE  /\ Held(p) \in [status: PlantStatuses, hold: BOOLEAN] /\ Held(p).hold = TRUE
         /\ Released(p) \in [status: PlantStatuses, hold: BOOLEAN] /\ Released(p).hold = FALSE
BY DEF Held, Released, PlantStatuses

\* One order becomes another row: the rest of the orders stay as they are.
LEMMA OrderChange ==
  ASSUME WorkshopTypeOK, NEW o \in Orders, NEW row \in OrderRows,
         orders' = [orders EXCEPT ![o] = row]
  PROVE  /\ orders' \in [Orders -> OrderRows]
         /\ orders'[o] = row
         /\ \A x \in Orders \ {o}: orders'[x] = orders[x]
BY DEF WorkshopTypeOK

\* An order stays in, or out of, the critical open ones: the set stays.
LEMMA CriticalKept ==
  ASSUME WorkshopTypeOK, NEW o \in Orders, NEW row \in OrderRows,
         orders' = [orders EXCEPT ![o] = row],
         (row.critical /\ row.status \notin {"none", "closed"}) <=> o \in CriticalOpen
  PROVE  CriticalOpen' = CriticalOpen
BY OrderChange DEF CriticalOpen

\* The edits of the plant row leave the hold alone.
LEMMA SaveKeeps ==
  ASSUME WorkshopInv, SavePlant \/ SaveLegacyPlant
  PROVE  WorkshopInv'
<1>1. /\ plant' \in [status: PlantStatuses, hold: BOOLEAN] /\ plant'.hold = plant.hold
      /\ UNCHANGED <<orders, verifying, overtaken>>
  BY DEF SavePlant, SaveLegacyPlant, WorkshopInv, WorkshopTypeOK
<1>. QED
  BY <1>1 DEF WorkshopInv, WorkshopTypeOK, RepairsAreKnown, HoldIsCriticalDefects,
              ClosedIndependently, CriticalOpen

\* A critical defect takes the hold with it.
LEMMA RaiseKeeps ==
  ASSUME WorkshopInv, RaiseDefect
  PROVE  WorkshopInv'
<1>1. PICK o \in Orders, critical \in BOOLEAN:
        /\ orders[o].status = "none"
        /\ orders' = [orders EXCEPT ![o] = [NoOrder EXCEPT !.status = "open", !.critical = critical]]
        /\ plant' = IF critical THEN Held(plant) ELSE plant
        /\ UNCHANGED <<verifying, overtaken>>
  BY DEF RaiseDefect
<1> DEFINE row == [NoOrder EXCEPT !.status = "open", !.critical = critical]
<1>2. row \in OrderRows /\ row.status = "open" /\ row.critical = critical
  BY DEF NoOrder, OrderRows, OrderStatuses
<1>3. orders' = [orders EXCEPT ![o] = row]
  BY <1>1
<1>4. WorkshopTypeOK
  BY DEF WorkshopInv
<1>5. /\ orders' \in [Orders -> OrderRows] /\ orders'[o] = row
      /\ \A x \in Orders \ {o}: orders'[x] = orders[x]
  <2> HIDE DEF row
  <2>. QED BY <1>2, <1>3, <1>4, OrderChange
<1> HIDE DEF row
<1>6. WorkshopTypeOK'
  BY <1>1, <1>4, <1>5, PlantType DEF WorkshopTypeOK
<1>7. o \notin CriticalOpen
  BY <1>1 DEF CriticalOpen
<1>8. HoldIsCriticalDefects'
  <2>1. CASE critical
    <3>1. o \in CriticalOpen'
      BY <1>2, <1>5, <2>1 DEF CriticalOpen
    <3>2. plant'.hold = TRUE
      BY <1>1, <1>4, <2>1, PlantType DEF WorkshopTypeOK
    <3>. QED BY <3>1, <3>2 DEF HoldIsCriticalDefects
  <2>2. CASE ~critical
    <3>1. CriticalOpen' = CriticalOpen
      BY <1>2, <1>5, <1>7, <2>2 DEF CriticalOpen
    <3>. QED BY <1>1, <2>2, <3>1 DEF HoldIsCriticalDefects, WorkshopInv
  <2>. QED BY <2>1, <2>2
<1>9. RepairsAreKnown' /\ ClosedIndependently'
  BY <1>2, <1>5 DEF WorkshopInv, RepairsAreKnown, ClosedIndependently
<1>. QED BY <1>6, <1>8, <1>9 DEF WorkshopInv

\* A repair changes nothing the hold depends on.
LEMMA RepairKeeps ==
  ASSUME WorkshopInv, Repair
  PROVE  WorkshopInv'
<1>1. PICK o \in Orders, m \in Mechanics:
        /\ orders[o].status \in {"open", "rework"}
        /\ orders' = [orders EXCEPT ![o] = [@ EXCEPT !.status = "awaiting_verification", !.repairer = m]]
        /\ verifying' = Touch(o)
        /\ UNCHANGED <<plant, overtaken>>
  BY DEF Repair
<1> DEFINE row == [orders[o] EXCEPT !.status = "awaiting_verification", !.repairer = m]
<1>2. WorkshopTypeOK
  BY DEF WorkshopInv
<1>3. /\ row \in OrderRows /\ row.status = "awaiting_verification"
      /\ row.critical = orders[o].critical /\ row.repairer = m
  BY <1>2 DEF WorkshopTypeOK, OrderRows, OrderStatuses
<1>4. orders' = [orders EXCEPT ![o] = row]
  BY <1>1
<1> HIDE DEF row
<1>5. /\ orders' \in [Orders -> OrderRows] /\ orders'[o] = row
      /\ \A x \in Orders \ {o}: orders'[x] = orders[x]
  BY <1>2, <1>3, <1>4, OrderChange
<1>6. CriticalOpen' = CriticalOpen
  BY <1>1, <1>2, <1>3, <1>4, CriticalKept DEF CriticalOpen
<1>7. WorkshopTypeOK'
  BY <1>1, <1>2, <1>5, TouchType DEF WorkshopTypeOK
<1>8. RepairsAreKnown' /\ ClosedIndependently'
  BY <1>3, <1>5 DEF WorkshopInv, RepairsAreKnown, ClosedIndependently
<1>. QED BY <1>1, <1>6, <1>7, <1>8 DEF WorkshopInv, HoldIsCriticalDefects

\* What a decision finds and what it leaves of the order.
LEMMA DecidedRow ==
  ASSUME WorkshopInv, NEW m \in Mechanics, Verifiable(m),
         NEW status \in {"rework", "closed"}, orders' = Decided(m, status)
  PROVE  LET o == verifying[m].order IN
         /\ o \in Orders
         /\ orders[o].status = "awaiting_verification"
         /\ orders[o].repairer \in Mechanics \ {m}
         /\ orders' \in [Orders -> OrderRows]
         /\ orders'[o].status = status /\ orders'[o].verifier = m
         /\ orders'[o].critical = orders[o].critical
         /\ orders'[o].repairer = orders[o].repairer
         /\ \A x \in Orders \ {o}: orders'[x] = orders[x]
<1> DEFINE o == verifying[m].order
           row == [orders[o] EXCEPT !.status = status, !.verifier = m]
<1>1. WorkshopTypeOK
  BY DEF WorkshopInv
<1>2. o \in Orders
  BY <1>1 DEF WorkshopTypeOK, Verifications, Verifiable
<1>3. /\ row \in OrderRows /\ row.status = status /\ row.verifier = m
      /\ row.critical = orders[o].critical /\ row.repairer = orders[o].repairer
  <2>1. orders[o] \in OrderRows
    BY <1>1, <1>2 DEF WorkshopTypeOK
  <2>2. status \in OrderStatuses
    BY DEF OrderStatuses
  <2> HIDE DEF o
  <2>. QED BY <2>1, <2>2 DEF OrderRows
<1>4. orders' = [orders EXCEPT ![o] = row]
  BY DEF Decided
<1>5. orders[o].status = "awaiting_verification" /\ orders[o].repairer \in Mechanics \ {m}
  BY <1>2 DEF Verifiable, WorkshopInv, RepairsAreKnown
<1> HIDE DEF o, row
<1>6. /\ orders' \in [Orders -> OrderRows] /\ orders'[o] = row
      /\ \A x \in Orders \ {o}: orders'[x] = orders[x]
  BY <1>1, <1>2, <1>3, <1>4, OrderChange
<1>7. /\ o \in Orders
      /\ orders[o].status = "awaiting_verification"
      /\ orders[o].repairer \in Mechanics \ {m}
      /\ orders' \in [Orders -> OrderRows]
      /\ orders'[o].status = status /\ orders'[o].verifier = m
      /\ orders'[o].critical = orders[o].critical
      /\ orders'[o].repairer = orders[o].repairer
      /\ \A x \in Orders \ {o}: orders'[x] = orders[x]
  BY <1>2, <1>3, <1>5, <1>6
<1>. QED BY <1>7 DEF o

\* A rejected repair leaves its order open.
LEMMA RejectKeeps ==
  ASSUME WorkshopInv, NEW m \in Mechanics, RejectRepair(m)
  PROVE  WorkshopInv'
<1> DEFINE o == verifying[m].order
<1>1. /\ o \in Orders
      /\ orders[o].status = "awaiting_verification"
      /\ orders' \in [Orders -> OrderRows]
      /\ orders'[o].status = "rework" /\ orders'[o].critical = orders[o].critical
      /\ \A x \in Orders \ {o}: orders'[x] = orders[x]
  BY DecidedRow DEF RejectRepair
<1> HIDE DEF o
<1>2. UNCHANGED <<plant, overtaken>>
  BY DEF RejectRepair
<1>3. verifying' \in [Mechanics -> Verifications]
  BY EndType DEF RejectRepair, WorkshopInv
<1>4. CriticalOpen' = CriticalOpen
  BY <1>1 DEF CriticalOpen
<1>5. WorkshopTypeOK'
  BY <1>1, <1>2, <1>3 DEF WorkshopTypeOK, WorkshopInv
<1>6. RepairsAreKnown' /\ ClosedIndependently'
  BY <1>1 DEF WorkshopInv, RepairsAreKnown, ClosedIndependently
<1>. QED BY <1>2, <1>4, <1>5, <1>6 DEF WorkshopInv, HoldIsCriticalDefects

\* An accepted repair closes its order and, when the snapshot shows no other
\* critical one and was not overtaken, nothing is left to hold the plant item for.
LEMMA AcceptKeeps ==
  ASSUME WorkshopInv, NEW m \in Mechanics, AcceptRepair(m)
  PROVE  WorkshopInv'
<1> DEFINE o == verifying[m].order
           clears == orders[o].critical /\ verifying[m].seen \subseteq {o}
<1>1. /\ o \in Orders
      /\ orders[o].status = "awaiting_verification"
      /\ orders[o].repairer \in Mechanics \ {m}
      /\ orders' \in [Orders -> OrderRows]
      /\ orders'[o].status = "closed" /\ orders'[o].verifier = m
      /\ orders'[o].repairer = orders[o].repairer
      /\ \A x \in Orders \ {o}: orders'[x] = orders[x]
  BY DecidedRow DEF AcceptRepair
<1>2. /\ plant' = IF clears THEN Released(plant) ELSE plant
      /\ overtaken' = (overtaken \/ verifying[m].seen # CriticalOpen)
  BY DEF AcceptRepair
<1>3. verifying' \in [Mechanics -> Verifications]
  BY EndType DEF AcceptRepair, WorkshopInv
<1>4. plant \in [status: PlantStatuses, hold: BOOLEAN] /\ overtaken \in BOOLEAN
  BY DEF WorkshopInv, WorkshopTypeOK
<1>5. orders[o].critical => o \in CriticalOpen
  BY <1>1 DEF CriticalOpen
<1>6. orders[o].critical = FALSE => o \notin CriticalOpen
  BY DEF CriticalOpen
<1>7. orders[o].critical \in BOOLEAN
  BY <1>1 DEF WorkshopInv, WorkshopTypeOK, OrderRows
<1>8. clears => verifying[m].seen \subseteq {o} /\ orders[o].critical
  OBVIOUS
<1>9. ~clears /\ orders[o].critical => ~(verifying[m].seen \subseteq {o})
  OBVIOUS
<1> HIDE DEF o, clears
<1>10. CriticalOpen' = CriticalOpen \ {o}
  BY <1>1 DEF CriticalOpen
<1>11. WorkshopTypeOK'
  BY <1>1, <1>2, <1>3, <1>4, PlantType DEF WorkshopTypeOK
<1>12. RepairsAreKnown' /\ ClosedIndependently'
  BY <1>1 DEF WorkshopInv, RepairsAreKnown, ClosedIndependently
<1>13. ASSUME overtaken' = FALSE
       PROVE  plant'.hold <=> CriticalOpen' # {}
  <2>1. overtaken = FALSE /\ verifying[m].seen = CriticalOpen
    BY <1>2, <1>4, <1>13
  <2>2. plant.hold <=> CriticalOpen # {}
    BY <2>1 DEF WorkshopInv, HoldIsCriticalDefects
  <2>3. CASE clears
    BY <1>2, <1>4, <1>8, <1>10, <2>1, <2>3, PlantType
  <2>4. CASE ~clears
    <3>1. CriticalOpen' # {} <=> CriticalOpen # {}
      BY <1>5, <1>6, <1>7, <1>9, <1>10, <2>1, <2>4
    <3>. QED BY <1>2, <2>2, <2>4, <3>1
  <2>. QED BY <2>3, <2>4
<1>14. HoldIsCriticalDefects'
  BY <1>11, <1>13 DEF HoldIsCriticalDefects, WorkshopTypeOK
<1>. QED BY <1>11, <1>12, <1>14 DEF WorkshopInv

\* Beginning and abandoning a verification change no row.
LEMMA VerificationKeeps ==
  ASSUME WorkshopInv, NEW m \in Mechanics, BeginVerify(m) \/ AbandonVerify(m)
  PROVE  WorkshopInv'
<1>1. UNCHANGED <<plant, orders, overtaken>>
  BY DEF BeginVerify, AbandonVerify
<1>2. verifying' \in [Mechanics -> Verifications]
  <2>1. verifying \in [Mechanics -> Verifications]
    BY DEF WorkshopInv, WorkshopTypeOK
  <2>2. CASE AbandonVerify(m)
    BY <2>1, <2>2, EmptyRows DEF AbandonVerify
  <2>3. CASE BeginVerify(m)
    <3>1. PICK o \in Orders: verifying' = [verifying EXCEPT ![m] =
            [order |-> o, seen |-> CriticalOpen,
             current |-> orders[o].status = "awaiting_verification"]]
      BY <2>3 DEF BeginVerify
    <3>2. CriticalOpen \subseteq Orders
      BY DEF CriticalOpen
    <3>3. (orders[o].status = "awaiting_verification") \in BOOLEAN
      OBVIOUS
    <3>4. [order |-> o, seen |-> CriticalOpen,
           current |-> orders[o].status = "awaiting_verification"] \in Verifications
      BY <3>2, <3>3 DEF Verifications
    <3>. QED BY <2>1, <3>1, <3>4
  <2>. QED BY <2>2, <2>3
<1>. QED
  BY <1>1, <1>2 DEF WorkshopInv, WorkshopTypeOK, RepairsAreKnown, HoldIsCriticalDefects,
                    ClosedIndependently, CriticalOpen

\* The invariant holds in every state.
LEMMA WorkshopInvariant == WorkshopSpec => []WorkshopInv
<1>1. WorkshopInit => WorkshopInv
  <2> SUFFICES ASSUME WorkshopInit
               PROVE  WorkshopInv
    OBVIOUS
  <2>1. WorkshopTypeOK
    BY EmptyRows DEF WorkshopInit, WorkshopTypeOK, PlantStatuses
  <2>2. \A o \in Orders: orders[o].status = "none"
    BY DEF WorkshopInit, NoOrder
  <2>3. plant.hold = FALSE
    BY DEF WorkshopInit
  <2>. QED
    BY <2>1, <2>2, <2>3 DEF WorkshopInv, RepairsAreKnown, HoldIsCriticalDefects,
                            ClosedIndependently, CriticalOpen
<1>2. WorkshopInv /\ [WorkshopNext]_workshopVars => WorkshopInv'
  <2> SUFFICES ASSUME WorkshopInv, [WorkshopNext]_workshopVars
               PROVE  WorkshopInv'
    OBVIOUS
  <2>1. CASE UNCHANGED workshopVars
    BY <2>1 DEF workshopVars, WorkshopInv, WorkshopTypeOK, RepairsAreKnown,
                HoldIsCriticalDefects, ClosedIndependently, CriticalOpen
  <2>. QED
    BY <2>1, SaveKeeps, RaiseKeeps, RepairKeeps, RejectKeeps, AcceptKeeps, VerificationKeeps
       DEF WorkshopNext
<1>. QED BY <1>1, <1>2, PTL DEF WorkshopSpec

\* Every state of the workshop has the declared types.
THEOREM WorkshopTypeCorrect == WorkshopSpec => []WorkshopTypeOK
<1>1. WorkshopInv => WorkshopTypeOK
  BY DEF WorkshopInv
<1>. QED BY <1>1, WorkshopInvariant, PTL

\* As long as no verification decided on a stale snapshot, a plant item is on
\* hold exactly while a critical defect of it is open.
THEOREM HoldMatchesDefects == WorkshopSpec => []HoldIsCriticalDefects
<1>1. WorkshopInv => HoldIsCriticalDefects
  BY DEF WorkshopInv
<1>. QED BY <1>1, WorkshopInvariant, PTL

\* No repair is ever closed without the verification of another mechanic.
THEOREM RepairsVerifiedByOthers == WorkshopSpec => []ClosedIndependently
<1>1. WorkshopInv => ClosedIndependently
  BY DEF WorkshopInv
<1>. QED BY <1>1, WorkshopInvariant, PTL

-----------------------------------------------------------------------------
(* Service plans: evidence that never runs back                            *)

\* Nothing is dated in the future.
EvidenceIsPast == \A i \in 1..Len(evidence): evidence[i].on <= today

\* The inductive invariant.
ServicePlanInv ==
  /\ ServicePlanTypeOK
  /\ EvidenceIsPast
  /\ EvidenceInOrder

\* Evidence has a date, and a meter or none.
LEMMA EvidenceTypes ==
  ASSUME ServicePlanTypeOK
  PROVE  /\ today \in Int /\ meter \in Int /\ meter >= None /\ None = -1
         /\ \A i \in 1..Len(evidence):
              evidence[i] \in Evidence /\ evidence[i].on \in Int /\ evidence[i].meter \in Int
<1>1. /\ today \in Int /\ meter \in Int /\ meter >= None /\ None = -1
  BY PlanBoundAssumption DEF ServicePlanTypeOK, Days, Meters, None
<1>2. \A i \in 1..Len(evidence): evidence[i] \in Evidence
  BY ElementOfSeq DEF ServicePlanTypeOK
<1>3. \A e \in Evidence: e.on \in Int /\ e.meter \in Int
  BY PlanBoundAssumption DEF Evidence, Days, Meters, None
<1>. QED BY <1>1, <1>2, <1>3

\* An entry that is no older than the evidence there is, and of no lower meter
\* unless it has none, continues it.
LEMMA OneMore ==
  ASSUME ServicePlanTypeOK, NEW s \in Seq(Evidence), NEW e \in Evidence,
         NEW m \in Meters \cup {None}, NEW day \in Days,
         \A i, j \in 1..Len(s): i < j =>
           s[i].on <= s[j].on /\ (s[j].meter # None => s[i].meter <= s[j].meter),
         \A i \in 1..Len(s): s[i].on <= day /\ s[i].meter <= m,
         \A i \in 1..Len(s): s[i].on <= e.on,
         e.on <= day, e.meter = m
  PROVE  /\ s \o <<e>> \in Seq(Evidence)
         /\ \A i, j \in 1..Len(s \o <<e>>): i < j =>
              /\ (s \o <<e>>)[i].on <= (s \o <<e>>)[j].on
              /\ (s \o <<e>>)[j].meter # None => (s \o <<e>>)[i].meter <= (s \o <<e>>)[j].meter
         /\ \A i \in 1..Len(s \o <<e>>): (s \o <<e>>)[i].on <= day /\ (s \o <<e>>)[i].meter <= m
<1> DEFINE t == s \o <<e>>
<1>1. /\ t \in Seq(Evidence) /\ Len(t) = Len(s) + 1 /\ Len(s) \in Nat
      /\ \A i \in 1..Len(s): t[i] = s[i]
      /\ t[Len(s) + 1] = e
  <2>1. <<e>> \in Seq(Evidence) /\ Len(<<e>>) = 1 /\ <<e>>[1] = e
    OBVIOUS
  <2>2. Len(s) \in Nat
    BY LenProperties
  <2>. QED BY <2>1, <2>2, ConcatProperties
<1> HIDE DEF t
<1>2. e.on \in Int /\ m \in Int /\ day \in Int
  BY PlanBoundAssumption DEF Evidence, Days, Meters, None
<1>3. \A i \in 1..(Len(s) + 1): i \in 1..Len(s) \/ i = Len(s) + 1
  BY <1>1
<1>4. \A i, j \in 1..Len(t): i < j =>
        t[i].on <= t[j].on /\ (t[j].meter # None => t[i].meter <= t[j].meter)
  BY <1>1, <1>2, <1>3
<1>5. \A i \in 1..Len(t): t[i].on <= day /\ t[i].meter <= m
  BY <1>1, <1>2, <1>3
<1>. QED BY <1>1, <1>4, <1>5 DEF t

\* A reading continues the evidence.
LEMMA ReadingKeeps ==
  ASSUME ServicePlanInv, RecordReading
  PROVE  ServicePlanInv'
<1>1. PICK told \in Meters:
        /\ told >= meter
        /\ evidence' = evidence \o <<Entry("reading", today, told)>>
        /\ meter' = told
        /\ UNCHANGED <<today, plan>>
  BY DEF RecordReading, Record
<1> DEFINE e == Entry("reading", today, told)
<1>2. e \in Evidence /\ e.on = today /\ e.meter = told
  BY DEF ServicePlanInv, ServicePlanTypeOK, Entry, Evidence
<1>3. /\ ServicePlanTypeOK /\ evidence \in Seq(Evidence) /\ today \in Days
      /\ today \in Int /\ meter \in Int /\ told \in Int
  BY EvidenceTypes, PlanBoundAssumption DEF ServicePlanInv, ServicePlanTypeOK, Meters
<1>4. \A i \in 1..Len(evidence): evidence[i].on <= today /\ evidence[i].meter <= told
  BY <1>1, <1>3, EvidenceTypes DEF ServicePlanInv, EvidenceIsPast, EvidenceInOrder
<1> HIDE DEF e
<1>5. /\ evidence \o <<e>> \in Seq(Evidence)
      /\ \A i, j \in 1..Len(evidence \o <<e>>): i < j =>
           /\ (evidence \o <<e>>)[i].on <= (evidence \o <<e>>)[j].on
           /\ (evidence \o <<e>>)[j].meter # None =>
                (evidence \o <<e>>)[i].meter <= (evidence \o <<e>>)[j].meter
      /\ \A i \in 1..Len(evidence \o <<e>>):
           (evidence \o <<e>>)[i].on <= today /\ (evidence \o <<e>>)[i].meter <= told
  BY <1>2, <1>3, <1>4, OneMore, EvidenceTypes DEF ServicePlanInv, EvidenceInOrder
<1>6. evidence' = evidence \o <<e>>
  BY <1>1 DEF e
<1>. QED
  BY <1>1, <1>3, <1>5, <1>6
     DEF ServicePlanInv, ServicePlanTypeOK, EvidenceIsPast, EvidenceInOrder

\* A service continues the evidence, and so does its reading.
LEMMA ServiceKeeps ==
  ASSUME ServicePlanInv, RecordService
  PROVE  ServicePlanInv'
<1>1. PICK on \in Days, told \in Meters \cup {None}, next \in Plans:
        /\ ServiceAllowed(on, told, next)
        /\ evidence' = evidence \o (<<Entry("service", on, told)>>
                         \o IF told = None THEN <<>> ELSE <<Entry("reading", today, told)>>)
        /\ meter' = IF told = None THEN meter ELSE told
        /\ plan' = next /\ today' = today
  BY DEF RecordService, Record
<1> DEFINE e == Entry("service", on, told)
           f == Entry("reading", today, told)
<1>2. /\ e \in Evidence /\ e.on = on /\ e.meter = told
      /\ f \in Evidence /\ f.on = today /\ f.meter = told
  BY DEF ServicePlanInv, ServicePlanTypeOK, Entry, Evidence
<1>3. /\ ServicePlanTypeOK /\ evidence \in Seq(Evidence) /\ today \in Days
      /\ today \in Int /\ meter \in Int /\ told \in Int /\ on \in Int
  BY EvidenceTypes, PlanBoundAssumption DEF ServicePlanInv, ServicePlanTypeOK, Meters, Days, None
<1>4. /\ on <= today
      /\ told = None => meter = None
      /\ told # None => told >= meter
      /\ \A i \in 1..Len(evidence): evidence[i].on <= on
  BY <1>1 DEF ServiceAllowed, Newest
<1>5. meter' = told
  BY <1>1, <1>4
<1>6. \A i \in 1..Len(evidence): /\ evidence[i].on <= today /\ evidence[i].on <= on
                                 /\ evidence[i].meter <= told
  BY <1>3, <1>4, EvidenceTypes DEF ServicePlanInv, EvidenceIsPast, EvidenceInOrder, None
<1>7. evidence' = evidence \o <<e>> \/ evidence' = (evidence \o <<e>>) \o <<f>>
  <2>1. CASE told = None
    BY <1>1, <1>2, <2>1
  <2>2. CASE told # None
    <3>1. evidence' = evidence \o (<<e>> \o <<f>>)
      BY <1>1, <2>2
    <3>2. <<e>> \in Seq(Evidence) /\ <<f>> \in Seq(Evidence)
      BY <1>2
    <3>. QED BY <1>3, <3>1, <3>2, ConcatAssociative
  <2>. QED BY <2>1, <2>2
<1> HIDE DEF e, f
<1> DEFINE s == evidence \o <<e>>
<1>8. /\ s \in Seq(Evidence)
      /\ \A i, j \in 1..Len(s): i < j =>
           s[i].on <= s[j].on /\ (s[j].meter # None => s[i].meter <= s[j].meter)
      /\ \A i \in 1..Len(s): s[i].on <= today /\ s[i].meter <= told
  BY <1>2, <1>3, <1>4, <1>6, OneMore, EvidenceTypes DEF ServicePlanInv, EvidenceInOrder
<1> HIDE DEF s
<1> DEFINE t == s \o <<f>>
<1>9. /\ t \in Seq(Evidence)
      /\ \A i, j \in 1..Len(t): i < j =>
           t[i].on <= t[j].on /\ (t[j].meter # None => t[i].meter <= t[j].meter)
      /\ \A i \in 1..Len(t): t[i].on <= today /\ t[i].meter <= told
  <2>1. \A i \in 1..Len(s): s[i].on <= f.on
    BY <1>2, <1>8
  <2>2. f.on <= today
    BY <1>2, <1>3
  <2>. QED BY <1>2, <1>3, <1>8, <2>1, <2>2, OneMore
<1> HIDE DEF t
<1>10. evidence' = s \/ evidence' = t
  BY <1>7 DEF s, t
<1>11. EvidenceIsPast' /\ EvidenceInOrder' /\ evidence' \in Seq(Evidence)
  BY <1>1, <1>5, <1>8, <1>9, <1>10 DEF EvidenceIsPast, EvidenceInOrder
<1>. QED
  BY <1>1, <1>3, <1>5, <1>11 DEF ServicePlanInv, ServicePlanTypeOK

\* The invariant holds in every state.
LEMMA ServicePlanInvariant == ServicePlanSpec => []ServicePlanInv
<1>1. ServicePlanInit => ServicePlanInv
  <2>1. 0 \in Days /\ None \in Meters \cup {None} /\ NoPlan \in Plans
    BY PlanBoundAssumption DEF Days, NoPlan, Plans
  <2>2. <<>> \in Seq(Evidence) /\ Len(<<>>) = 0
    BY EmptySeq
  <2>. QED
    BY <2>1, <2>2
       DEF ServicePlanInit, ServicePlanInv, ServicePlanTypeOK, EvidenceIsPast, EvidenceInOrder
<1>2. ServicePlanInv /\ [ServicePlanNext]_planVars => ServicePlanInv'
  <2> SUFFICES ASSUME ServicePlanInv, [ServicePlanNext]_planVars
               PROVE  ServicePlanInv'
    OBVIOUS
  <2>1. CASE SetPlan \/ CorrectPlan \/ UNCHANGED planVars
    <3>1. /\ UNCHANGED <<today, meter, evidence>>
          /\ plan' \in Plans
      BY <2>1 DEF SetPlan, CorrectPlan, planVars, ServicePlanInv, ServicePlanTypeOK
    <3>. QED
      BY <3>1 DEF ServicePlanInv, ServicePlanTypeOK, EvidenceIsPast, EvidenceInOrder
  <2>2. CASE NextDay
    <3>1. UNCHANGED <<meter, plan, evidence>> /\ today' \in Days /\ today' > today
      BY <2>2, PlanBoundAssumption DEF NextDay, Days, ServicePlanInv, ServicePlanTypeOK
    <3>2. EvidenceIsPast'
      BY <3>1, EvidenceTypes, PlanBoundAssumption DEF ServicePlanInv, EvidenceIsPast, Days
    <3>. QED
      BY <3>1, <3>2 DEF ServicePlanInv, ServicePlanTypeOK, EvidenceInOrder
  <2>. QED BY <2>1, <2>2, ReadingKeeps, ServiceKeeps DEF ServicePlanNext
<1>. QED BY <1>1, <1>2, PTL DEF ServicePlanSpec

\* Every state of the service plan has the declared types.
THEOREM ServicePlanTypeCorrect == ServicePlanSpec => []ServicePlanTypeOK
<1>1. ServicePlanInv => ServicePlanTypeOK
  BY DEF ServicePlanInv
<1>. QED BY <1>1, ServicePlanInvariant, PTL

\* Dates and meters of the evidence never run back, whenever a service is
\* recorded, and the meter is the last one recorded.
THEOREM EvidenceNeverRunsBack == ServicePlanSpec => []EvidenceInOrder
<1>1. ServicePlanInv => EvidenceInOrder
  BY DEF ServicePlanInv
<1>. QED BY <1>1, ServicePlanInvariant, PTL

\* One step of OverdueNeedsWork.
WorkClearsOverdue ==
  /\ Overdue(today) /\ ~Overdue(today)' => RecordService \/ CorrectPlan
  /\ plan.meter # None /\ plan'.meter = None => CorrectPlan
  /\ plan.date # None /\ plan'.date = None => CorrectPlan

\* Only work and corrections make an overdue item serviceable; readings do not,
\* and neither does the first plan nor another day.
LEMMA StepClearsOverdue ==
  ASSUME ServicePlanTypeOK, ServicePlanNext
  PROVE  WorkClearsOverdue
<1>1. today \in Int /\ meter \in Int /\ plan \in Plans /\ None = -1
  BY EvidenceTypes DEF ServicePlanTypeOK
<1>2. plan.meter \in Int /\ plan.date \in Int
  BY <1>1, PlanBoundAssumption DEF Plans, Meters, Days
<1>3. CASE RecordReading
  <2>1. /\ UNCHANGED <<today, plan>>
        /\ meter' \in Int /\ meter' >= meter /\ meter' # None
    BY <1>1, <1>3, PlanBoundAssumption DEF RecordReading, Meters
  <2>. QED
    BY <1>1, <1>2, <2>1 DEF WorkClearsOverdue, Overdue, MeterReached, DatePassed
<1>4. CASE SetPlan
  BY <1>4 DEF SetPlan, NoPlan, WorkClearsOverdue, Overdue, MeterReached, DatePassed
<1>5. CASE CorrectPlan
  BY <1>5 DEF WorkClearsOverdue
<1>6. CASE RecordService
  <2>1. /\ plan.meter # None => plan'.meter # None
        /\ plan.date # None => plan'.date # None
    BY <1>6 DEF RecordService, ServiceAllowed
  <2>. QED BY <1>6, <2>1 DEF WorkClearsOverdue
<1>7. CASE NextDay
  <2>1. UNCHANGED <<meter, plan, evidence>> /\ today' = today + 1
    BY <1>7 DEF NextDay
  <2>. QED
    BY <1>1, <1>2, <2>1 DEF WorkClearsOverdue, Overdue, MeterReached, DatePassed
<1>. QED BY <1>3, <1>4, <1>5, <1>6, <1>7 DEF ServicePlanNext

\* A reading never clears an overdue service, and only a correction drops one of
\* the plan's thresholds.
THEOREM OnlyWorkClearsOverdue == ServicePlanSpec => OverdueNeedsWork
<1>1. ServicePlanInv /\ [ServicePlanNext]_planVars => [WorkClearsOverdue]_planVars
  BY StepClearsOverdue DEF ServicePlanInv
<1>. QED
  BY <1>1, ServicePlanInvariant, PTL DEF ServicePlanSpec, OverdueNeedsWork, WorkClearsOverdue

-----------------------------------------------------------------------------
(* Shifts: every double booking is a race                                  *)

\* What a save decided stays right for every shift nobody has written since: a
\* shift that books the same resource at the same time has changed meanwhile.
SaveIsSafe(p) ==
  LET s == saving[p].shift
      row == saving[p].row
  IN  s # NoShift =>
        \A t \in ShiftIds \ {s}:
          /\ shifts[t].status \in Enforced
          /\ Overlap(row.window, shifts[t].window)
          /\ row.uses \cap shifts[t].uses # {}
          => t \in saving[p].changed

\* The inductive invariant.
ShiftsInv ==
  /\ ShiftsTypeOK
  /\ \A p \in Planners: SaveIsSafe(p)
  /\ BookedTwiceOnlyInRace

\* The rows everything starts from.
LEMMA EmptyShifts == AnyRow \in ShiftRows /\ NoSave \in Saves /\ NoSave.shift = NoShift
<1>1. AnyRow \in ShiftRows
  BY WindowAssumption, BookingAssumption DEF AnyRow, ShiftRows, ShiftStatuses, Ignored
<1>. QED BY <1>1 DEF NoSave, Saves

\* Two products by a positive number compare as their first factors.
LEMMA LessDays ==
  ASSUME NEW a \in Int, NEW b \in Int, NEW n \in Nat, n > 0, a * n < b * n
  PROVE  a < b
<1>1. SUFFICES ASSUME b <= a PROVE FALSE
  OBVIOUS
<1>2. (a - b) \in Nat
  BY <1>1
<1>3. \A k, m \in Nat: k * m \in Nat
  OBVIOUS
<1>4. (a - b) * n \in Nat
  BY <1>2, <1>3
<1>5. a * n = b * n + (a - b) * n
  OBVIOUS
<1>. QED BY <1>4, <1>5

\* A day ends less than two days after it began, so shifts that overlap are on
\* the same day or on neighbouring ones: looking at those misses none.
LEMMA OverlapIsNearby ==
  ASSUME NEW v \in Windows, NEW w \in Windows, Overlap(v, w)
  PROVE  w.day - v.day \in -1..1
<1>1. /\ DayLength \in Nat /\ DayLength > 0
      /\ v.day \in Nat /\ v.start \in 0..(DayLength - 1) /\ v.finish \in 0..(DayLength - 1)
      /\ w.day \in Nat /\ w.start \in 0..(DayLength - 1) /\ w.finish \in 0..(DayLength - 1)
  BY WindowAssumption
<1>2. \A a, n \in Nat: a * n \in Int /\ (a + 2) * n = a * n + 2 * n
  OBVIOUS
<1>3. /\ v.day * DayLength \in Int /\ w.day * DayLength \in Int
      /\ (v.day + 2) * DayLength = v.day * DayLength + 2 * DayLength
      /\ (w.day + 2) * DayLength = w.day * DayLength + 2 * DayLength
  BY <1>1, <1>2
<1>4. /\ Finish(w) < (w.day + 2) * DayLength /\ v.day * DayLength <= Start(v)
      /\ Finish(v) < (v.day + 2) * DayLength /\ w.day * DayLength <= Start(w)
      /\ Start(v) \in Int /\ Start(w) \in Int /\ Finish(v) \in Int /\ Finish(w) \in Int
  BY <1>1, <1>3 DEF Start, Finish
<1> DEFINE beginV == v.day * DayLength
           beginW == w.day * DayLength
           endV == (v.day + 2) * DayLength
           endW == (w.day + 2) * DayLength
<1>41. beginV \in Int /\ beginW \in Int /\ endV \in Int /\ endW \in Int
  BY <1>1, <1>3
<1>42. /\ beginV <= Start(v) /\ Finish(w) < endW /\ beginW <= Start(w) /\ Finish(v) < endV
      /\ Start(v) < Finish(w) /\ Start(w) < Finish(v)
  BY <1>4 DEF Overlap
<1> HIDE DEF beginV, beginW, endV, endW
<1>43. beginV < endW /\ beginW < endV
  BY <1>4, <1>41, <1>42
<1>5. v.day * DayLength < (w.day + 2) * DayLength
  BY <1>43 DEF beginV, endW
<1>6. w.day * DayLength < (v.day + 2) * DayLength
  BY <1>43 DEF beginW, endV
<1>7. v.day < w.day + 2 /\ w.day < v.day + 2
  BY <1>1, <1>5, <1>6, LessDays
<1>. QED BY <1>1, <1>7

\* A shift that is written joins what the saves under way have not seen.
LEMMA WrittenKeeps ==
  ASSUME ShiftsTypeOK, NEW s \in ShiftIds, NEW row \in ShiftRows,
         NEW request \in [Planners -> Saves], Written(s, row, request),
         \A p \in Planners: request[p] = saving[p] \/ request[p].shift = NoShift,
         \A p \in Planners: SaveIsSafe(p)
  PROVE  /\ shifts' \in [ShiftIds -> ShiftRows] /\ saving' \in [Planners -> Saves]
         /\ shifts'[s] = row /\ \A t \in ShiftIds \ {s}: shifts'[t] = shifts[t]
         /\ \A p \in Planners: SaveIsSafe(p)'
<1>1. /\ shifts' \in [ShiftIds -> ShiftRows]
      /\ shifts'[s] = row /\ \A t \in ShiftIds \ {s}: shifts'[t] = shifts[t]
  BY DEF Written, ShiftsTypeOK
<1>2. \A p \in Planners:
        saving'[p] = IF request[p].shift = NoShift THEN request[p]
                     ELSE [request[p] EXCEPT !.changed = @ \cup {s}]
  BY DEF Written
<1>3. \A r \in Saves: /\ [r EXCEPT !.changed = @ \cup {s}] \in Saves
                      /\ [r EXCEPT !.changed = @ \cup {s}].shift = r.shift
                      /\ [r EXCEPT !.changed = @ \cup {s}].row = r.row
                      /\ [r EXCEPT !.changed = @ \cup {s}].changed = r.changed \cup {s}
  BY DEF Saves
<1>4. saving' \in [Planners -> Saves]
  BY <1>2, <1>3 DEF Written
<1>5. ASSUME NEW p \in Planners PROVE SaveIsSafe(p)'
  <2>1. CASE request[p].shift = NoShift
    BY <1>2, <2>1 DEF SaveIsSafe
  <2>2. CASE request[p].shift # NoShift
    <3>1. /\ request[p] = saving[p] /\ request[p] \in Saves
          /\ saving'[p].shift = saving[p].shift
          /\ saving'[p].row = saving[p].row
          /\ saving'[p].changed = saving[p].changed \cup {s}
      BY <1>2, <1>3, <2>2
    <3>. QED BY <1>1, <2>2, <3>1 DEF SaveIsSafe
  <2>. QED BY <2>1, <2>2
<1>. QED BY <1>1, <1>4, <1>5

\* A save that books nothing.
LEMMA UnenforcedKeeps ==
  ASSUME ShiftsInv, SaveUnenforced
  PROVE  ShiftsInv'
<1>1. PICK s \in ShiftIds, row \in ShiftRows:
        /\ row.status \notin Enforced
        /\ Written(s, row, saving)
        /\ UNCHANGED <<unavailable, raced>>
  BY DEF SaveUnenforced
<1>2. /\ shifts' \in [ShiftIds -> ShiftRows] /\ saving' \in [Planners -> Saves]
      /\ shifts'[s] = row /\ \A t \in ShiftIds \ {s}: shifts'[t] = shifts[t]
      /\ \A p \in Planners: SaveIsSafe(p)'
  BY <1>1, WrittenKeeps DEF ShiftsInv, ShiftsTypeOK
<1>3. BookedTwiceOnlyInRace'
  BY <1>1, <1>2 DEF ShiftsInv, BookedTwiceOnlyInRace, BookedTogether
<1>. QED BY <1>1, <1>2, <1>3 DEF ShiftsInv, ShiftsTypeOK

\* The checks: no shift of these days books the same resource at the same time.
LEMMA CheckKeeps ==
  ASSUME ShiftsInv, NEW p \in Planners, CheckSave(p)
  PROVE  ShiftsInv'
<1>1. PICK s \in ShiftIds, row \in ShiftRows:
        /\ row.status \in Enforced
        /\ Allowed(s, row)
        /\ saving' = [saving EXCEPT ![p] = [shift |-> s, row |-> row, changed |-> {}]]
        /\ UNCHANGED <<shifts, unavailable, raced>>
  BY DEF CheckSave
<1>2. /\ saving'[p] = [shift |-> s, row |-> row, changed |-> {}]
      /\ \A q \in Planners \ {p}: saving'[q] = saving[q]
      /\ saving' \in [Planners -> Saves]
  BY <1>1 DEF ShiftsInv, ShiftsTypeOK, Saves
<1>3. ASSUME NEW t \in ShiftIds \ {s},
             shifts[t].status \in Enforced,
             Overlap(row.window, shifts[t].window),
             row.uses \cap shifts[t].uses # {}
      PROVE  FALSE
  <2>1. shifts[t] \in ShiftRows /\ row.window \in Windows /\ shifts[t].window \in Windows
    BY DEF ShiftsInv, ShiftsTypeOK, ShiftRows
  <2>2. shifts[t].window.day - row.window.day \in -1..1
    BY <1>3, <2>1, OverlapIsNearby
  <2>3. t \in Clashes(s, row)
    BY <1>3, <2>2 DEF Clashes, Nearby, Ignored, Enforced
  <2>. QED BY <1>1, <1>3, <2>3 DEF Allowed, Enforced
<1>4. \A q \in Planners: SaveIsSafe(q)'
  BY <1>1, <1>2, <1>3 DEF ShiftsInv, SaveIsSafe
<1>. QED
  BY <1>1, <1>2, <1>4 DEF ShiftsInv, ShiftsTypeOK, BookedTwiceOnlyInRace, BookedTogether

\* The batch: what now overlaps is what changed while the save was deciding.
LEMMA CommitKeeps ==
  ASSUME ShiftsInv, NEW p \in Planners, CommitShift(p)
  PROVE  ShiftsInv'
<1> DEFINE s == saving[p].shift
           row == saving[p].row
           request == [saving EXCEPT ![p] = NoSave]
<1>1. /\ s # NoShift
      /\ Written(s, row, request)
      /\ raced' = {pair \in raced: s \notin pair} \cup {{s, t}: t \in saving[p].changed \ {s}}
      /\ unavailable' = unavailable
  BY DEF CommitShift
<1>2. saving[p] \in Saves /\ s \in ShiftIds /\ row \in ShiftRows
  BY <1>1 DEF ShiftsInv, ShiftsTypeOK, Saves
<1>3. /\ request \in [Planners -> Saves]
      /\ \A q \in Planners: request[q] = saving[q] \/ request[q].shift = NoShift
  BY EmptyShifts DEF ShiftsInv, ShiftsTypeOK
<1>4. \A t \in ShiftIds \ {s}:
        /\ shifts[t].status \in Enforced
        /\ Overlap(row.window, shifts[t].window)
        /\ row.uses \cap shifts[t].uses # {}
        => t \in saving[p].changed
  BY <1>1 DEF ShiftsInv, SaveIsSafe
<1> HIDE DEF s, row, request
<1>5. /\ shifts' \in [ShiftIds -> ShiftRows] /\ saving' \in [Planners -> Saves]
      /\ shifts'[s] = row /\ \A t \in ShiftIds \ {s}: shifts'[t] = shifts[t]
      /\ \A q \in Planners: SaveIsSafe(q)'
  BY <1>1, <1>2, <1>3, WrittenKeeps DEF ShiftsInv
<1>6. raced' \subseteq Pairs
  BY <1>1, <1>2 DEF ShiftsInv, ShiftsTypeOK, Saves, Pairs
<1>7. ASSUME NEW a \in ShiftIds, NEW b \in ShiftIds, a # b, BookedTogether(a, b)'
      PROVE  {a, b} \in raced'
  <2>1. CASE a = s
    <3>1. b \in saving[p].changed
      BY <1>4, <1>5, <1>7, <2>1 DEF BookedTogether
    <3>. QED BY <1>1, <1>7, <2>1, <3>1
  <2>2. CASE b = s
    <3>1. Overlap(row.window, shifts[a].window)
      BY <1>5, <1>7, <2>2 DEF BookedTogether, Overlap
    <3>2. a \in saving[p].changed
      BY <1>4, <1>5, <1>7, <2>2, <3>1 DEF BookedTogether
    <3>3. {a, b} = {s, a}
      BY <2>2
    <3>. QED BY <1>1, <1>7, <2>2, <3>2, <3>3
  <2>3. CASE a # s /\ b # s
    <3>1. BookedTogether(a, b)
      BY <1>5, <1>7, <2>3 DEF BookedTogether
    <3>2. {a, b} \in raced
      BY <1>7, <3>1 DEF ShiftsInv, BookedTwiceOnlyInRace
    <3>. QED BY <1>1, <2>3, <3>2
  <2>. QED BY <2>1, <2>2, <2>3
<1>8. BookedTwiceOnlyInRace'
  BY <1>7 DEF BookedTwiceOnlyInRace
<1>. QED BY <1>1, <1>5, <1>6, <1>8 DEF ShiftsInv, ShiftsTypeOK

\* The invariant holds in every state.
LEMMA ShiftsInvariant == ShiftsSpec => []ShiftsInv
<1>1. ShiftsInit => ShiftsInv
  <2> SUFFICES ASSUME ShiftsInit PROVE ShiftsInv
    OBVIOUS
  <2>1. ShiftsTypeOK
    BY EmptyShifts DEF ShiftsInit, ShiftsTypeOK
  <2>2. \A t \in ShiftIds: shifts[t].status = "none"
    BY DEF ShiftsInit, AnyRow
  <2>3. \A p \in Planners: SaveIsSafe(p)
    BY EmptyShifts DEF ShiftsInit, SaveIsSafe
  <2>4. BookedTwiceOnlyInRace
    BY <2>2 DEF BookedTwiceOnlyInRace, BookedTogether, Enforced
  <2>. QED BY <2>1, <2>3, <2>4 DEF ShiftsInv
<1>2. ShiftsInv /\ [ShiftsNext]_shiftVars => ShiftsInv'
  <2> SUFFICES ASSUME ShiftsInv, [ShiftsNext]_shiftVars
               PROVE  ShiftsInv'
    OBVIOUS
  <2>1. CASE ChangeAvailability \/ UNCHANGED shiftVars
    <3>1. UNCHANGED <<shifts, saving, raced>> /\ unavailable' \subseteq Resources
      BY <2>1 DEF ChangeAvailability, shiftVars, ShiftsInv, ShiftsTypeOK
    <3>. QED
      BY <3>1 DEF ShiftsInv, ShiftsTypeOK, SaveIsSafe, BookedTwiceOnlyInRace, BookedTogether
  <2>2. ASSUME NEW p \in Planners, AbandonShift(p) PROVE ShiftsInv'
    <3>1. /\ UNCHANGED <<shifts, unavailable, raced>>
          /\ saving' \in [Planners -> Saves]
          /\ saving'[p].shift = NoShift /\ \A q \in Planners \ {p}: saving'[q] = saving[q]
      BY <2>2, EmptyShifts DEF AbandonShift, ShiftsInv, ShiftsTypeOK
    <3>. QED
      BY <3>1 DEF ShiftsInv, ShiftsTypeOK, SaveIsSafe, BookedTwiceOnlyInRace, BookedTogether
  <2>. QED BY <2>1, <2>2, UnenforcedKeeps, CheckKeeps, CommitKeeps DEF ShiftsNext
<1>. QED BY <1>1, <1>2, PTL DEF ShiftsSpec

\* Every state of the shifts has the declared types.
THEOREM ShiftsTypeCorrect == ShiftsSpec => []ShiftsTypeOK
<1>1. ShiftsInv => ShiftsTypeOK
  BY DEF ShiftsInv
<1>. QED BY <1>1, ShiftsInvariant, PTL

\* A resource is on two shifts at once only when one was saved while the other's
\* save was deciding: the conflict engine itself lets nothing through.
THEOREM DoubleBookingIsARace == ShiftsSpec => []BookedTwiceOnlyInRace
<1>1. ShiftsInv => BookedTwiceOnlyInRace
  BY DEF ShiftsInv
<1>. QED BY <1>1, ShiftsInvariant, PTL

-----------------------------------------------------------------------------
(* SWMS: the one revision in force and what is acknowledged                *)

\* The newest revision has not been replaced, and once approved it says what was
\* approved.
NewestIsLive ==
  /\ swms[Current].status # "superseded"
  /\ swms[Current].status = "approved" =>
       /\ swms[Current].approved = {swms[Current].content}
       /\ swms[Current].content \in Complete

\* A revision that was ever in force is or was replaced.
WasIssued(i) == i \in 1..Current /\ swms[i].status \in {"issued", "superseded"}

\* Workers have on the screen, and acknowledge, what was in force when it was shown.
CrewReadsIssued ==
  /\ \A row \in shown: WasIssued(row[1])
  /\ \A w \in Crew: reading[w] # 0 => <<reading[w], w>> \in shown
  /\ \A w \in Crew: acking[w] # 0 => <<acking[w], w>> \in shown
  /\ acks \subseteq shown

\* The inductive invariant.
SwmsInv ==
  /\ SwmsTypeOK
  /\ NewestIsLive
  /\ OneInForceAsApproved
  /\ CrewReadsIssued

\* The rows of an actual revision.
LEMMA RevisionTypes ==
  ASSUME SwmsTypeOK
  PROVE  /\ Current \in 1..Current /\ Current \in Nat /\ MaxSwmsRevisions \in Nat
         /\ \A i \in 1..Current: swms[i] \in SwmsRevisions
BY ElementOfSeq, LenProperties, SwmsBoundAssumption DEF SwmsTypeOK, Current

\* One revision becomes another row: the others stay, and so does their number.
LEMMA RevisionChange ==
  ASSUME SwmsTypeOK, NEW row \in SwmsRevisions, swms' = [swms EXCEPT ![Current] = row]
  PROVE  /\ swms' \in Seq(SwmsRevisions) /\ Current' = Current
         /\ swms'[Current] = row
         /\ \A i \in 1..Current: i # Current => swms'[i] = swms[i]
<1>1. Current \in 1..Len(swms)
  BY RevisionTypes DEF Current
<1>. QED BY <1>1, ExceptSeq DEF SwmsTypeOK, Current

\* Steps on the newest revision while it is not in force: nothing a worker has
\* seen changes, and neither does what is in force.
LEMMA WorkingChange ==
  ASSUME SwmsInv, NEW row \in SwmsRevisions,
         swms[Current].status \in {"draft", "review"},
         swms' = [swms EXCEPT ![Current] = row],
         row.status \in {"draft", "review", "approved"},
         row.status = "approved" => row.approved = {row.content} /\ row.content \in Complete,
         UNCHANGED <<issued, crewVars, siteClosed>>, editing' = {}
  PROVE  SwmsInv'
<1>1. /\ swms' \in Seq(SwmsRevisions) /\ Current' = Current
      /\ swms'[Current] = row
      /\ \A i \in 1..Current: i # Current => swms'[i] = swms[i]
  BY RevisionChange DEF SwmsInv
<1>2. Current \in 1..Current /\ Current \in Nat /\ issued \in 0..Current /\ issued # Current
  BY RevisionTypes DEF SwmsInv, SwmsTypeOK, OneInForceAsApproved
<1>3. SwmsTypeOK'
  BY <1>1 DEF SwmsInv, SwmsTypeOK, crewVars
<1>4. NewestIsLive'
  BY <1>1 DEF NewestIsLive
<1>5. OneInForceAsApproved'
  BY <1>1, <1>2 DEF SwmsInv, OneInForceAsApproved
<1>6. CrewReadsIssued'
  BY <1>1, <1>2 DEF SwmsInv, CrewReadsIssued, crewVars, WasIssued
<1>. QED BY <1>3, <1>4, <1>5, <1>6 DEF SwmsInv

\* Drafting, review and approval.
LEMMA DraftingKeeps ==
  ASSUME SwmsInv,
         (\E u \in Authors: SaveDraft(u)) \/ SubmitSwms \/ ReturnSwms \/ ApproveSwms
  PROVE  SwmsInv'
<1>1. swms[Current] \in SwmsRevisions
  BY RevisionTypes DEF SwmsInv
<1>2. CASE \E u \in Authors: SaveDraft(u)
  <2>1. PICK content \in Drafts:
          swms' = [swms EXCEPT ![Current] = [swms[Current] EXCEPT !.content = content]]
    BY <1>2 DEF SaveDraft
  <2>2. [swms[Current] EXCEPT !.content = content] \in SwmsRevisions
    BY <1>1 DEF SwmsRevisions
  <2>3. [swms[Current] EXCEPT !.content = content].status = "draft"
    BY <1>1, <1>2 DEF SaveDraft, SwmsRevisions
  <2>. QED BY <1>2, <2>1, <2>2, <2>3, WorkingChange DEF SaveDraft
<1>3. CASE SubmitSwms \/ ReturnSwms
  <2>1. PICK status \in {"draft", "review"}:
          swms' = [swms EXCEPT ![Current] = [swms[Current] EXCEPT !.status = status]]
    BY <1>3 DEF SubmitSwms, ReturnSwms, With
  <2>2. /\ [swms[Current] EXCEPT !.status = status] \in SwmsRevisions
        /\ [swms[Current] EXCEPT !.status = status].status = status
    BY <1>1 DEF SwmsRevisions, SwmsStatuses
  <2>. QED BY <1>3, <2>1, <2>2, WorkingChange DEF SubmitSwms, ReturnSwms
<1>4. CASE ApproveSwms
  <2> DEFINE row == [swms[Current] EXCEPT !.status = "approved", !.approved = {swms[Current].content}]
  <2>1. swms' = [swms EXCEPT ![Current] = row]
    BY <1>4 DEF ApproveSwms
  <2>2. /\ row \in SwmsRevisions /\ row.status = "approved"
        /\ row.approved = {row.content} /\ row.content = swms[Current].content
    BY <1>1 DEF SwmsRevisions, SwmsStatuses
  <2> HIDE DEF row
  <2>. QED BY <1>4, <2>1, <2>2, WorkingChange DEF ApproveSwms
<1>. QED BY <1>2, <1>3, <1>4

\* Issuing replaces the one in force.
LEMMA IssueKeeps ==
  ASSUME SwmsInv, IssueSwms
  PROVE  SwmsInv'
<1> DEFINE row(i) ==
      IF i = Current THEN [swms[i] EXCEPT !.status = "issued"]
      ELSE IF i = issued THEN [swms[i] EXCEPT !.status = "superseded"] ELSE swms[i]
<1>1. /\ swms' = [i \in 1..Current |-> row(i)]
      /\ issued' = Current /\ editing' = {} /\ UNCHANGED <<crewVars, siteClosed>>
      /\ swms[Current].status = "approved"
  BY DEF IssueSwms
<1>2. /\ Current \in 1..Current /\ Current \in Nat /\ issued \in 0..Current /\ issued # Current
      /\ \A i \in 1..Current: swms[i] \in SwmsRevisions
  BY <1>1, RevisionTypes DEF SwmsInv, SwmsTypeOK, OneInForceAsApproved
<1>3. \A i \in 1..Current: row(i) \in SwmsRevisions
  BY <1>2 DEF SwmsRevisions, SwmsStatuses
<1>4. swms' \in Seq(SwmsRevisions) /\ Current' = Current
  <2>1. [i \in 1..Current |-> row(i)] \in [1..Current -> SwmsRevisions]
    BY <1>3
  <2> HIDE DEF row
  <2>. QED BY <1>1, <1>2, <2>1 DEF Current
<1>5. /\ swms'[Current] = [swms[Current] EXCEPT !.status = "issued"]
      /\ \A i \in 1..Current: i # Current /\ i # issued => swms'[i] = swms[i]
      /\ issued # 0 => swms'[issued] = [swms[issued] EXCEPT !.status = "superseded"]
  BY <1>1, <1>2
<1> HIDE DEF row
<1>6. /\ swms'[Current].status = "issued"
      /\ swms'[Current].approved = {swms'[Current].content}
      /\ swms'[Current].content \in Complete
  BY <1>1, <1>2, <1>5 DEF SwmsInv, NewestIsLive, SwmsRevisions
<1>7. issued # 0 => swms'[issued].status = "superseded"
  BY <1>2, <1>5 DEF SwmsRevisions
<1>8. \A i \in 1..Current: i # Current => swms'[i].status = "superseded"
  BY <1>2, <1>5, <1>7 DEF SwmsInv, OneInForceAsApproved
<1>9. SwmsTypeOK'
  BY <1>1, <1>2, <1>4 DEF SwmsInv, SwmsTypeOK, crewVars
<1>10. NewestIsLive' /\ OneInForceAsApproved'
  BY <1>1, <1>2, <1>4, <1>6, <1>8 DEF NewestIsLive, OneInForceAsApproved
<1>11. CrewReadsIssued'
  BY <1>1, <1>4, <1>6, <1>8 DEF SwmsInv, CrewReadsIssued, crewVars, WasIssued
<1>. QED BY <1>9, <1>10, <1>11 DEF SwmsInv

\* A revision is appended; an approved one that was never in force is replaced.
LEMMA ReviseKeeps ==
  ASSUME SwmsInv, ReviseSwms
  PROVE  SwmsInv'
<1> DEFINE before == IF swms[Current].status = "approved" THEN With(Current, "superseded") ELSE swms
           draft == [status |-> "draft", content |-> swms[Current].content, approved |-> {}]
<1>1. /\ swms' = Append(before, draft)
      /\ UNCHANGED <<issued, crewVars, siteClosed>> /\ editing' = {}
      /\ swms[Current].status \in {"approved", "issued"}
      /\ Current < MaxSwmsRevisions
  BY DEF ReviseSwms
<1>2. /\ Current \in 1..Current /\ Current \in Nat /\ issued \in 0..Current
      /\ \A i \in 1..Current: swms[i] \in SwmsRevisions
      /\ MaxSwmsRevisions \in Nat
  BY RevisionTypes DEF SwmsInv, SwmsTypeOK
<1>3. draft \in SwmsRevisions /\ draft.status = "draft"
  BY <1>2 DEF SwmsRevisions, SwmsStatuses
<1>4. /\ before \in Seq(SwmsRevisions) /\ Len(before) = Current
      /\ \A i \in 1..Current: i # Current => before[i] = swms[i]
      /\ swms[Current].status = "issued" => before[Current] = swms[Current]
      /\ swms[Current].status = "approved" => before[Current].status = "superseded"
  <2>1. CASE swms[Current].status = "approved"
    <3>1. before = [swms EXCEPT ![Current] = [swms[Current] EXCEPT !.status = "superseded"]]
      BY <2>1 DEF With
    <3>2. /\ [swms[Current] EXCEPT !.status = "superseded"] \in SwmsRevisions
          /\ [swms[Current] EXCEPT !.status = "superseded"].status = "superseded"
      BY <1>2 DEF SwmsRevisions, SwmsStatuses
    <3> HIDE DEF before
    <3>. QED BY <1>2, <2>1, <3>1, <3>2, ExceptSeq DEF SwmsInv, SwmsTypeOK, Current
  <2>2. CASE swms[Current].status = "issued"
    BY <2>2 DEF SwmsInv, SwmsTypeOK, Current
  <2>. QED BY <1>1, <2>1, <2>2
<1> HIDE DEF before, draft
<1>5. /\ swms' \in Seq(SwmsRevisions) /\ Current' = Current + 1
      /\ swms'[Current + 1] = draft
      /\ \A i \in 1..Current: swms'[i] = before[i]
  BY <1>1, <1>2, <1>3, <1>4 DEF Current
<1>6. SwmsTypeOK'
  BY <1>1, <1>2, <1>5 DEF SwmsInv, SwmsTypeOK, crewVars
<1>7. NewestIsLive'
  BY <1>3, <1>5 DEF NewestIsLive
<1>8. \A i \in 1..Current: /\ swms'[i].status = "issued" <=> i = issued
                           /\ i # issued => swms'[i].status = "superseded"
  BY <1>1, <1>2, <1>4, <1>5 DEF SwmsInv, OneInForceAsApproved
<1>9. issued # 0 => swms'[issued] = swms[issued]
  BY <1>1, <1>2, <1>4, <1>5 DEF SwmsInv, OneInForceAsApproved
<1>10. OneInForceAsApproved'
  BY <1>1, <1>2, <1>3, <1>5, <1>8, <1>9 DEF SwmsInv, OneInForceAsApproved
<1>11. \A i \in 1..Current: WasIssued(i) => WasIssued(i)'
  BY <1>2, <1>4, <1>5, <1>8 DEF WasIssued
<1>12. CrewReadsIssued'
  BY <1>1, <1>11 DEF SwmsInv, CrewReadsIssued, crewVars, WasIssued
<1>. QED BY <1>6, <1>7, <1>10, <1>12 DEF SwmsInv

\* What the crew does, opening a draft and moving the project's stage.
LEMMA CrewKeeps ==
  ASSUME SwmsInv,
         \/ \E u \in Authors: OpenDraft(u)
         \/ MoveSite
         \/ \E w \in Crew: ReadSwms(w) \/ BeginAck(w) \/ CommitAck(w)
         \/ UNCHANGED swmsVars
  PROVE  SwmsInv'
<1>1. UNCHANGED <<swms, issued>>
  BY DEF OpenDraft, MoveSite, ReadSwms, BeginAck, CommitAck, swmsVars
<1>2. NewestIsLive' /\ OneInForceAsApproved'
  BY <1>1 DEF SwmsInv, NewestIsLive, OneInForceAsApproved, Current
<1>3. \A i: WasIssued(i)' <=> WasIssued(i)
  BY <1>1 DEF WasIssued, Current
<1>4. SwmsTypeOK' /\ CrewReadsIssued'
  <2>1. CASE UNCHANGED crewVars
    <3>1. editing' \subseteq Authors /\ siteClosed' \in BOOLEAN
      BY <2>1 DEF OpenDraft, MoveSite, ReadSwms, BeginAck, CommitAck, swmsVars, SwmsInv, SwmsTypeOK, crewVars
    <3>. QED BY <1>1, <1>3, <2>1, <3>1 DEF SwmsInv, SwmsTypeOK, CrewReadsIssued, crewVars, Current
  <2>2. ASSUME NEW w \in Crew, ReadSwms(w) PROVE SwmsTypeOK' /\ CrewReadsIssued'
    <3>1. issued \in 1..Current /\ issued \in Numbers /\ <<issued, w>> \in AckRows /\ WasIssued(issued)
      BY <2>2, RevisionTypes
         DEF ReadSwms, SwmsInv, SwmsTypeOK, OneInForceAsApproved, WasIssued, Numbers, AckRows
    <3>2. SwmsTypeOK'
      BY <1>1, <2>2, <3>1 DEF ReadSwms, SwmsInv, SwmsTypeOK, Current
    <3>3. CrewReadsIssued'
      BY <1>3, <2>2, <3>1 DEF ReadSwms, SwmsInv, SwmsTypeOK, CrewReadsIssued
    <3>. QED BY <3>2, <3>3
  <2>3. ASSUME NEW w \in Crew, BeginAck(w) PROVE SwmsTypeOK' /\ CrewReadsIssued'
    <3>1. 0 \in Numbers
      BY RevisionTypes DEF Numbers, SwmsInv
    <3>2. SwmsTypeOK'
      BY <1>1, <2>3, <3>1 DEF BeginAck, SwmsInv, SwmsTypeOK, Current
    <3>3. CrewReadsIssued'
      BY <1>3, <2>3, <3>1 DEF BeginAck, SwmsInv, SwmsTypeOK, CrewReadsIssued
    <3>. QED BY <3>2, <3>3
  <2>4. ASSUME NEW w \in Crew, CommitAck(w) PROVE SwmsTypeOK' /\ CrewReadsIssued'
    <3>1. 0 \in Numbers
      BY RevisionTypes DEF Numbers, SwmsInv
    <3>2. <<acking[w], w>> \in shown
      BY <2>4 DEF CommitAck, SwmsInv, CrewReadsIssued
    <3>3. SwmsTypeOK'
      BY <1>1, <2>4, <3>1, <3>2 DEF CommitAck, SwmsInv, SwmsTypeOK, Current
    <3>4. CrewReadsIssued'
      BY <1>3, <2>4, <3>1, <3>2 DEF CommitAck, SwmsInv, SwmsTypeOK, CrewReadsIssued
    <3>. QED BY <3>3, <3>4
  <2>. QED BY <2>1, <2>2, <2>3, <2>4 DEF OpenDraft, MoveSite, swmsVars, crewVars
<1>. QED BY <1>2, <1>4 DEF SwmsInv

\* The invariant holds in every state.
LEMMA SwmsInvariant == SwmsSpec => []SwmsInv
<1>1. SwmsInit => SwmsInv
  <2> SUFFICES ASSUME SwmsInit PROVE SwmsInv
    OBVIOUS
  <2>1. PICK content \in Drafts: swms = <<[status |-> "draft", content |-> content, approved |-> {}]>>
    BY DEF SwmsInit
  <2>2. /\ swms \in Seq(SwmsRevisions) /\ Current = 1 /\ swms[1].status = "draft"
    BY <2>1 DEF Current, SwmsRevisions, SwmsStatuses
  <2>3. 0 \in Numbers /\ 1 \in 1..MaxSwmsRevisions
    BY SwmsBoundAssumption DEF Numbers
  <2>4. SwmsTypeOK
    <3>1. issued = 0 /\ editing = {} /\ acks = {} /\ shown = {} /\ siteClosed = FALSE
      BY DEF SwmsInit
    <3>2. reading \in [Crew -> Numbers] /\ acking \in [Crew -> Numbers]
      BY <2>3 DEF SwmsInit
    <3>3. /\ Current \in 1..MaxSwmsRevisions /\ issued \in 0..Current
          /\ editing \subseteq Authors /\ acks \subseteq AckRows /\ shown \subseteq AckRows
      BY <2>2, <2>3, <3>1
    <3>4. siteClosed \in BOOLEAN
      BY <3>1
    <3>. QED BY <2>2, <3>2, <3>3, <3>4 DEF SwmsTypeOK
  <2>5. NewestIsLive /\ OneInForceAsApproved /\ CrewReadsIssued
    BY <2>2 DEF SwmsInit, NewestIsLive, OneInForceAsApproved, CrewReadsIssued
  <2>. QED BY <2>4, <2>5 DEF SwmsInv
<1>2. SwmsInv /\ [SwmsNext]_swmsVars => SwmsInv'
  BY DraftingKeeps, IssueKeeps, ReviseKeeps, CrewKeeps DEF SwmsNext
<1>. QED BY <1>1, <1>2, PTL DEF SwmsSpec

\* Every state of the method statement has the declared types.
THEOREM SwmsTypeCorrect == SwmsSpec => []SwmsTypeOK
<1>1. SwmsInv => SwmsTypeOK
  BY DEF SwmsInv
<1>. QED BY <1>1, SwmsInvariant, PTL

\* Once a revision was issued exactly one is in force, as it was approved,
\* whatever is drafted, approved and replaced behind it.
THEOREM OneSwmsInForce == SwmsSpec => []OneInForceAsApproved
<1>1. SwmsInv => OneInForceAsApproved
  BY DEF SwmsInv
<1>. QED BY <1>1, SwmsInvariant, PTL

\* An acknowledgement is of a revision its worker has read and that was issued,
\* however long it waited.
THEOREM AcknowledgementsAreRead == SwmsSpec => []AcknowledgedWhatWasRead
<1>1. SwmsInv => AcknowledgedWhatWasRead
  BY DEF SwmsInv, CrewReadsIssued, WasIssued, AcknowledgedWhatWasRead
<1>. QED BY <1>1, SwmsInvariant, PTL

=============================================================================
