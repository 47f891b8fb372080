---------------------------- MODULE ServicePlan ----------------------------
(***************************************************************************)
(* Meter readings and the service plan of one plant item: the 'meter',     *)
(* 'plan', 'service' and 'correct' actions of lib/modules/workshop/        *)
(* workshop.ts, and lib/v1/service-plan.ts.  Each is one transaction under *)
(* the lock of the plant row; all but a reading carry the revision the     *)
(* form was opened with, and so act on the row as it is or not at all.     *)
(***************************************************************************)
EXTENDS Integers, Sequences

CONSTANTS
  MaxMeter,   \* bound: meter readings and thresholds
  MaxDay,     \* bound: days
  MaxEntries  \* bound: readings and services

ASSUME PlanBoundAssumption == MaxMeter \in Nat /\ MaxDay \in Nat /\ MaxEntries \in Nat

VARIABLES
  today,      \* the organisation's local date
  meter,      \* current_meter; None: no reading yet, so no meter_type either
  plan,       \* next_service_meter and next_service_date
  evidence    \* asset_meter_readings and completed asset_service_events, oldest first

planVars == <<today, meter, plan, evidence>>

None == -1
Meters == 0..MaxMeter
Days == 0..MaxDay
Plans == [meter: Meters \cup {None}, date: Days \cup {None}]
NoPlan == [meter |-> None, date |-> None]
Evidence == [kind: {"reading", "service"}, on: Days, meter: Meters \cup {None}]

ServicePlanTypeOK ==
  /\ today \in Days
  /\ meter \in Meters \cup {None}
  /\ plan \in Plans
  /\ evidence \in Seq(Evidence)

ServicePlanInit ==
  /\ today = 0 /\ meter = None /\ plan = NoPlan /\ evidence = <<>>

-----------------------------------------------------------------------------
(* Operations                                                               *)

\* serviceStatus on a day: the meter has reached its threshold, or the day is
\* past the date.
MeterReached == plan.meter # None /\ meter # None /\ meter >= plan.meter
DatePassed(day) == plan.date # None /\ day > plan.date
Overdue(day) == MeterReached \/ DatePassed(day)

Entry(kind, on, reading) == [kind |-> kind, on |-> on, meter |-> reading]

Record(entries) ==
  /\ Len(evidence) < MaxEntries
  /\ evidence' = evidence \o entries

\* The dates of the evidence so far: readings by the day they were recorded,
\* services by the day they were performed.
Newest == {evidence[i].on: i \in 1..Len(evidence)}

\* Mutant: a reading carries the next service on, as it once did.
RecordReadingRolling ==
  \E reading \in Meters:
    /\ reading >= meter
    /\ Record(<<Entry("reading", today, reading)>>)
    /\ meter' = reading
    /\ plan' = [plan EXCEPT !.meter = IF MeterReached THEN None ELSE @]
    /\ UNCHANGED today

\* mutate 'meter'
RecordReading ==
  \E reading \in Meters:
    /\ reading >= meter
    /\ Record(<<Entry("reading", today, reading)>>)
    /\ meter' = reading
    /\ UNCHANGED <<today, plan>>

\* mutate 'plan': the first plan of an item that has none.
SetPlan ==
  /\ plan = NoPlan
  /\ \E next \in Plans \ {NoPlan}:
       /\ next.meter # None => meter # None /\ next.meter > 0
       /\ plan' = next
  /\ UNCHANGED <<today, meter, evidence>>

\* mutate 'correct': an administrator writes any other plan, or none.
CorrectPlan ==
  /\ \E next \in Plans \ {plan}:
       /\ next.meter # None => meter # None /\ (next.meter > 0 \/ next.meter = plan.meter)
       /\ plan' = next
  /\ UNCHANGED <<today, meter, evidence>>

\* Mutant: a service may be dated before newer evidence.
ServiceAllowedBackdated(on, reading, next) ==
  /\ on <= today
  /\ reading = None => meter = None
  /\ reading # None => reading >= meter
  /\ plan.meter # None => next.meter # None
  /\ plan.date # None => next.date # None
  /\ next.meter # None => reading # None /\ next.meter > reading
  /\ next.date # None => next.date > on

\* What a completed service must say of itself.
ServiceAllowed(on, reading, next) ==
  /\ on <= today
  /\ reading = None => meter = None
  /\ reading # None => reading >= meter
  /\ \A newest \in Newest: on >= newest
  /\ plan.meter # None => next.meter # None
  /\ plan.date # None => next.date # None
  /\ next.meter # None => reading # None /\ next.meter > reading
  /\ next.date # None => next.date > on

\* recordService: the event, and when it has a meter a reading recorded today.
RecordService ==
  /\ \E on \in Days, reading \in Meters \cup {None}, next \in Plans:
       /\ ServiceAllowed(on, reading, next)
       /\ Record(<<Entry("service", on, reading)>>
                   \o IF reading = None THEN <<>> ELSE <<Entry("reading", today, reading)>>)
       /\ meter' = IF reading = None THEN meter ELSE reading
       /\ plan' = next
  /\ UNCHANGED today

NextDay ==
  /\ today < MaxDay /\ today' = today + 1
  /\ UNCHANGED <<meter, plan, evidence>>

ServicePlanNext ==
  \/ RecordReading \/ SetPlan \/ CorrectPlan \/ RecordService \/ NextDay

ServicePlanSpec == ServicePlanInit /\ [][ServicePlanNext]_planVars

-----------------------------------------------------------------------------
(* Properties                                                               *)

\* The history can be read as one line: dates and meters never run back, also
\* when services are recorded late, and the meter is the last one recorded.
EvidenceInOrder ==
  /\ \A i, j \in 1..Len(evidence): i < j =>
       /\ evidence[i].on <= evidence[j].on
       /\ evidence[j].meter # None => evidence[i].meter <= evidence[j].meter
  /\ \A i \in 1..Len(evidence): evidence[i].meter <= meter

\* "A reading can never clear an overdue service" (workshop.ts:75): an overdue
\* item stays overdue until a service is recorded or an administrator corrects
\* the plan, and only a correction drops one of its two thresholds.
OverdueNeedsWork ==
  [][/\ Overdue(today) /\ ~Overdue(today)' => RecordService \/ CorrectPlan
     /\ plan.meter # None /\ plan'.meter = None => CorrectPlan
     /\ plan.date # None /\ plan'.date = None => CorrectPlan]_planVars
=============================================================================
