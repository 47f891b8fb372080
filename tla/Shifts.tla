------------------------------- MODULE Shifts -------------------------------
(***************************************************************************)
(* Shifts and the resources they book: the shift half of                   *)
(* app/api/delivery/route.ts over the conflict engine,                     *)
(* lib/modules/operations/conflicts.ts.  A save reads the other shifts and *)
(* the resources without a transaction, decides, and then writes its own   *)
(* shift in one batch: nothing keeps another save from deciding meanwhile. *)
(***************************************************************************)
EXTENDS Integers

CONSTANTS
  ShiftIds,    \* shifts rows
  Planners,    \* requests in flight
  Resources,   \* workers and plant
  Bookings,    \* the sets of resources a planner may enter
  Windows,     \* [day, start, finish] a planner may enter
  DayLength,   \* units of time in a day
  NoShift      \* no shift

ASSUME ShiftAssumption == NoShift \notin ShiftIds
ASSUME BookingAssumption == Bookings \subseteq SUBSET Resources /\ Bookings # {}
ASSUME WindowAssumption ==
  /\ Windows # {}
  /\ DayLength \in Nat
  /\ Windows \subseteq [day: Nat, start: 0..(DayLength - 1), finish: 0..(DayLength - 1)]

VARIABLES
  shifts,      \* the rows
  unavailable, \* resources that are inactive, on leave, in maintenance or on a safety hold
  saving,      \* per planner, a save between its checks and its batch
  raced        \* history: pairs of shifts of which one was saved while the other's save was deciding

shiftVars == <<shifts, unavailable, saving, raced>>

\* "Ready" stands for In Progress too, "Cancelled" for Stand-down and Archived.
Enforced == {"Planned", "Ready"}
Ignored == {"none", "Cancelled"}
ShiftStatuses == Enforced \cup Ignored \cup {"Draft", "Completed"}
ShiftRows == [status: ShiftStatuses, window: Windows, uses: Bookings]
Pairs == {{s, t}: s, t \in ShiftIds}

\* changed: the shifts written since this save read them.
Saves == [shift: ShiftIds \cup {NoShift}, row: ShiftRows, changed: SUBSET ShiftIds]
AnyRow == [status |-> "none", window |-> CHOOSE w \in Windows: TRUE, uses |-> CHOOSE b \in Bookings: TRUE]
NoSave == [shift |-> NoShift, row |-> AnyRow, changed |-> {}]

\* Everything is what it should be.
ShiftsTypeOK ==
  /\ shifts \in [ShiftIds -> ShiftRows]
  /\ unavailable \subseteq Resources
  /\ saving \in [Planners -> Saves]
  /\ raced \subseteq Pairs

ShiftsInit ==
  /\ shifts = [s \in ShiftIds |-> AnyRow]
  /\ unavailable = {}
  /\ saving = [p \in Planners |-> NoSave]
  /\ raced = {}

-----------------------------------------------------------------------------
(* The conflict engine                                                      *)

\* window: a finish at or before the start is on the next day.
Start(w) == w.day * DayLength + w.start
Finish(w) ==
  w.day * DayLength + w.finish + IF w.finish <= w.start THEN DayLength ELSE 0

Overlap(v, w) == Start(v) < Finish(w) /\ Start(w) < Finish(v)

\* Mutant: only the shifts of the same day are looked at.
NearbySameDay(s, row) ==
  {t \in ShiftIds \ {s}:
     /\ shifts[t].status \notin Ignored
     /\ shifts[t].window.day = row.window.day}

\* loadNearbyShifts: the day itself and its neighbours.
Nearby(s, row) ==
  {t \in ShiftIds \ {s}:
     /\ shifts[t].status \notin Ignored
     /\ shifts[t].window.day - row.window.day \in -1..1}

\* evaluateShift: another shift at that time has one of this one's resources.
Clashes(s, row) ==
  {t \in Nearby(s, row):
     Overlap(row.window, shifts[t].window) /\ row.uses \cap shifts[t].uses # {}}

\* blocking: a clash with a draft only warns, but the warnings of
\* lib/planning.ts keep a shift from becoming ready.
Allowed(s, row) ==
  /\ row.uses \cap unavailable = {}
  /\ \A t \in Clashes(s, row): row.status = "Planned" /\ shifts[t].status = "Draft"

-----------------------------------------------------------------------------
(* Saves                                                                    *)

\* The row is written: saves that are deciding have read something older.
Written(s, row, request) ==
  /\ shifts' = [shifts EXCEPT ![s] = row]
  /\ saving' = [p \in Planners |->
       IF request[p].shift = NoShift THEN request[p]
       ELSE [request[p] EXCEPT !.changed = @ \cup {s}]]

\* A shift that does not book anything yet, or any more: no conflict refuses
\* it, so it does not matter when the request read the others.
SaveUnenforced ==
  \E s \in ShiftIds, row \in ShiftRows:
    /\ row.status \notin Enforced \cup {"none"}
    /\ \A p \in Planners: saving[p].shift # s \/ shifts[s].status # "none"
    /\ Written(s, row, saving)
    /\ UNCHANGED <<unavailable, raced>>

\* The checks of a Planned, Ready or In Progress shift. A new one has an id of its own.
CheckSave(p) ==
  /\ saving[p].shift = NoShift
  /\ \E s \in ShiftIds, row \in ShiftRows:
       /\ row.status \in Enforced
       /\ shifts[s].status = "none" => \A q \in Planners: saving[q].shift # s
       /\ Allowed(s, row)
       /\ saving' = [saving EXCEPT ![p] = [shift |-> s, row |-> row, changed |-> {}]]
  /\ UNCHANGED <<shifts, unavailable, raced>>

\* The batch. It has no condition on what the checks read.
CommitShift(p) ==
  LET s == saving[p].shift IN
  /\ s # NoShift
  /\ Written(s, saving[p].row, [saving EXCEPT ![p] = NoSave])
  /\ raced' = {pair \in raced: s \notin pair} \cup {{s, t}: t \in saving[p].changed \ {s}}
  /\ UNCHANGED unavailable

\* The answer is a refusal for another reason (a closed project, a missing
\* checklist), or the batch fails.
AbandonShift(p) ==
  /\ saving[p].shift # NoShift
  /\ saving' = [saving EXCEPT ![p] = NoSave]
  /\ UNCHANGED <<shifts, unavailable, raced>>

\* A resource goes out of service, on leave or on hold, or comes back: its
\* bookings stay.
ChangeAvailability ==
  /\ \E r \in Resources:
       unavailable' \in {unavailable \cup {r}, unavailable \ {r}}
  /\ UNCHANGED <<shifts, saving, raced>>

ShiftsNext ==
  \/ SaveUnenforced \/ ChangeAvailability
  \/ \E p \in Planners: CheckSave(p) \/ CommitShift(p) \/ AbandonShift(p)

ShiftsSpec == ShiftsInit /\ [][ShiftsNext]_shiftVars

-----------------------------------------------------------------------------
(* Properties                                                               *)

BookedTogether(s, t) ==
  /\ shifts[s].status \in Enforced /\ shifts[t].status \in Enforced
  /\ Overlap(shifts[s].window, shifts[t].window)
  /\ shifts[s].uses \cap shifts[t].uses # {}

\* "Block conflicts stop a shift being saved as Planned, Ready or In Progress"
\* (conflicts.ts:6): a worker or plant item is on two shifts at once only when
\* one was saved while the save of the other was deciding, in whatever order
\* drafts, moves and cancellations came before, and across midnight.
BookedTwiceOnlyInRace ==
  \A s, t \in ShiftIds: s # t /\ BookedTogether(s, t) => {s, t} \in raced
=============================================================================
