------------------------------ MODULE Workshop ------------------------------
(***************************************************************************)
(* Defects, repairs and the safety hold of one plant item:                 *)
(* lib/modules/workshop/workshop.ts, lib/seams/form-defects.ts, and the    *)
(* two places that edit a plant item, lib/modules/operations/resources.ts  *)
(* and the legacy app/api/os/records.  Every workshop write locks the      *)
(* plant row first, but a verification has by then taken the snapshot it   *)
(* looks for other critical defects in.                                    *)
(***************************************************************************)

CONSTANTS
  Orders,     \* workshop_orders rows this plant item may get
  Mechanics,  \* users
  Nobody      \* no user, no order

ASSUME NobodyAssumption == Nobody \notin Mechanics \cup Orders

VARIABLES
  plant,      \* status and safety_hold of the plant row
  orders,     \* the work orders
  verifying,  \* per mechanic, a verification between its snapshot and the lock
  overtaken   \* history: a verification committed on a snapshot that was stale

workshopVars == <<plant, orders, verifying, overtaken>>

PlantStatuses == {"Available", "Maintenance", "Archived", "Out of service"}
OrderStatuses == {"none", "open", "awaiting_verification", "rework", "closed"}
OrderRows == [status: OrderStatuses, critical: BOOLEAN,
              repairer: Mechanics \cup {Nobody}, verifier: Mechanics \cup {Nobody}]
NoOrder == [status |-> "none", critical |-> FALSE, repairer |-> Nobody, verifier |-> Nobody]

\* order: what is being verified.  seen: the critical orders not closed in the
\* snapshot.  current: the order still has the revision the form showed.
Verifications == [order: Orders \cup {Nobody}, seen: SUBSET Orders, current: BOOLEAN]
NoVerification == [order |-> Nobody, seen |-> {}, current |-> FALSE]

\* hasSafetyHold, as a set.
CriticalOpen ==
  {o \in Orders: orders[o].critical /\ orders[o].status \notin {"none", "closed"}}

\* Everything is what it should be.
WorkshopTypeOK ==
  /\ plant \in [status: PlantStatuses, hold: BOOLEAN]
  /\ orders \in [Orders -> OrderRows]
  /\ verifying \in [Mechanics -> Verifications]
  /\ overtaken \in BOOLEAN

WorkshopInit ==
  /\ plant = [status |-> "Available", hold |-> FALSE]
  /\ orders = [o \in Orders |-> NoOrder]
  /\ verifying = [m \in Mechanics |-> NoVerification]
  /\ overtaken = FALSE

-----------------------------------------------------------------------------
(* The plant row                                                            *)

\* insertDefect's and the verification's updates of the plant row.
Held(p) == [p EXCEPT !.status = "Out of service", !.hold = TRUE]
Released(p) ==
  [p EXCEPT !.status = IF @ = "Out of service" THEN "Available" ELSE @, !.hold = FALSE]

\* savePlant: a held item keeps its status.
SavePlant ==
  /\ \E status \in PlantStatuses:
       /\ plant.hold => status = "Out of service"
       /\ plant' = [plant EXCEPT !.status = status]
  /\ UNCHANGED <<orders, verifying, overtaken>>

\* The legacy PUT and DELETE write any status and do not look at the hold.
SaveLegacyPlant ==
  /\ \E status \in PlantStatuses: plant' = [plant EXCEPT !.status = status]
  /\ UNCHANGED <<orders, verifying, overtaken>>

-----------------------------------------------------------------------------
(* Work orders                                                              *)

\* A change of an order's revision: a form opened before it is refused.
Touch(o) ==
  [m \in Mechanics |->
     IF verifying[m].order = o THEN [verifying[m] EXCEPT !.current = FALSE]
     ELSE verifying[m]]

\* mutate 'defect' and raiseSourcedDefect.
RaiseDefect ==
  \E o \in Orders, critical \in BOOLEAN:
    /\ orders[o].status = "none"
    /\ orders' = [orders EXCEPT ![o] = [NoOrder EXCEPT !.status = "open", !.critical = critical]]
    /\ plant' = IF critical THEN Held(plant) ELSE plant
    /\ UNCHANGED <<verifying, overtaken>>

\* mutate 'repair'.
Repair ==
  \E o \in Orders, m \in Mechanics:
    /\ orders[o].status \in {"open", "rework"}
    /\ orders' = [orders EXCEPT ![o] = [@ EXCEPT !.status = "awaiting_verification", !.repairer = m]]
    /\ verifying' = Touch(o)
    /\ UNCHANGED <<plant, overtaken>>

\* mutate 'verify', its first statement: which plant item is the order of? From
\* here on the transaction's plain reads see the database as it is now.
BeginVerify(m) ==
  /\ verifying[m].order = Nobody
  /\ \E o \in Orders:
       /\ orders[o].status # "none"
       /\ verifying' = [verifying EXCEPT ![m] =
            [order |-> o, seen |-> CriticalOpen,
             current |-> orders[o].status = "awaiting_verification"]]
  /\ UNCHANGED <<plant, orders, overtaken>>

\* Mutant: a mechanic may verify a repair of his own.
VerifiableByAnyone(m) ==
  /\ verifying[m].order # Nobody
  /\ verifying[m].current
  /\ orders[verifying[m].order].status = "awaiting_verification"

\* The transaction has the plant row and the order: it reads both as they are,
\* and the other orders as they were.
Verifiable(m) ==
  /\ verifying[m].order # Nobody
  /\ verifying[m].current
  /\ orders[verifying[m].order].status = "awaiting_verification"
  /\ orders[verifying[m].order].repairer # m

Decided(m, status) ==
  [orders EXCEPT ![verifying[m].order] = [@ EXCEPT !.status = status, !.verifier = m]]

EndVerify(m) ==
  LET o == verifying[m].order IN
  verifying' = [Touch(o) EXCEPT ![m] = NoVerification]

RejectRepair(m) ==
  /\ Verifiable(m)
  /\ orders' = Decided(m, "rework")
  /\ EndVerify(m)
  /\ UNCHANGED <<plant, overtaken>>

\* Mutant: a resolved defect clears the hold, whatever else is open.
AcceptRepairAlone(m) ==
  /\ Verifiable(m)
  /\ orders' = Decided(m, "closed")
  /\ plant' = IF orders[verifying[m].order].critical THEN Released(plant) ELSE plant
  /\ overtaken' = (overtaken \/ verifying[m].seen # CriticalOpen)
  /\ EndVerify(m)

AcceptRepair(m) ==
  LET o == verifying[m].order IN
  /\ Verifiable(m)
  /\ orders' = Decided(m, "closed")
  /\ plant' = IF orders[o].critical /\ verifying[m].seen \subseteq {o}
              THEN Released(plant) ELSE plant
  /\ overtaken' = (overtaken \/ verifying[m].seen # CriticalOpen)
  /\ EndVerify(m)

\* Refused (stale, not awaiting, own repair) or rolled back.
AbandonVerify(m) ==
  /\ verifying[m].order # Nobody
  /\ verifying' = [verifying EXCEPT ![m] = NoVerification]
  /\ UNCHANGED <<plant, orders, overtaken>>

WorkshopNext ==
  \/ SavePlant \/ SaveLegacyPlant
  \/ RaiseDefect \/ Repair
  \/ \E m \in Mechanics: BeginVerify(m) \/ RejectRepair(m) \/ AcceptRepair(m) \/ AbandonVerify(m)

WorkshopSpec == WorkshopInit /\ [][WorkshopNext]_workshopVars

-----------------------------------------------------------------------------
(* Properties                                                               *)

\* "A resolved defect never clears another outstanding critical defect"
\* (workshop.ts:129): while a critical defect is not closed the plant item is
\* on hold, whatever mechanics do at the same time.
CriticalDefectHolds == CriticalOpen # {} => plant.hold

\* As long as no verification decided on a snapshot that missed a defect or a
\* closure, the hold is exactly the critical defects that are not closed:
\* it is never lifted early, and never stays on with nothing left to repair.
HoldIsCriticalDefects == ~overtaken => (plant.hold <=> CriticalOpen # {})

\* A repair was verified, and by somebody who did not make it, for every order
\* that is closed: also when it was rejected and repaired again by another.
ClosedIndependently ==
  \A o \in Orders: orders[o].status = "closed" =>
    orders[o].verifier # Nobody /\ orders[o].repairer \notin {Nobody, orders[o].verifier}
=============================================================================
