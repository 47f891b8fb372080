------------------------------ MODULE CostBook ------------------------------
(***************************************************************************)
(* What lib/seams/docket-to-cost.ts promises, free of how: a docket costs  *)
(* one project at most, each priced line once, and that moves with the     *)
(* docket in one step; never into or out of a project that is closed, and  *)
(* never while the docket is on a claim.  Nothing is said of rows that     *)
(* were reversed, of locks, forms and statuses.                            *)
(***************************************************************************)
CONSTANTS
  Dockets,
  Projects,
  Lines,    \* the lines a docket may be charged by
  Bills,    \* what it may be charged for each of them, 0 for nothing
  Postings  \* what tells one charge of a docket from another

VARIABLES
  cost,   \* the entries each docket is charged by
  closed, \* the projects that are closed
  held,   \* dockets that are claimed or invoiced
  lost    \* dockets deleted or archived with their cost posted

Entries(p, n, bill) ==
  {[project |-> p, posting |-> n, line |-> l, amount |-> bill[l]]:
     l \in {m \in Lines: bill[m] # 0}}

CostsOnly(d, ps) == \A e \in cost[d]: e.project \in ps

Init ==
  /\ cost = [d \in Dockets |-> {}]
  /\ closed = {} /\ held = {} /\ lost = {}

\* An approval replaces what the docket cost, wherever that was.
Charge(d, p) ==
  /\ d \notin held /\ p \notin closed
  /\ d \in lost \/ CostsOnly(d, Projects \ closed)
  /\ \E bill \in Bills, n \in Postings: cost' = [cost EXCEPT ![d] = Entries(p, n, bill)]
  /\ UNCHANGED <<closed, held, lost>>

\* A docket that is no longer approved, or on no project, costs nothing.
Retract(d) ==
  /\ d \notin held
  /\ cost' = [cost EXCEPT ![d] = {}]
  /\ UNCHANGED <<closed, held, lost>>

\* The dockets of a claim or an invoice cost its project, if anything.
Hold(ds, p) ==
  /\ \A d \in ds \ lost: CostsOnly(d, {p})
  /\ held' = held \cup ds
  /\ UNCHANGED <<closed, lost, cost>>

\* A record that costs nothing is entered as claimed already.
HoldUncharged(d) ==
  /\ cost[d] = {}
  /\ held' = held \cup {d}
  /\ UNCHANGED <<closed, lost, cost>>

\* Their claim is withdrawn.
Release(ds) ==
  /\ held' = held \ ds
  /\ UNCHANGED <<closed, lost, cost>>

\* A docket goes and its cost stays.
Lose(d) ==
  /\ held' = held \ {d}
  /\ lost' = lost \cup {d}
  /\ UNCHANGED <<closed, cost>>

CloseOrReopen(p) ==
  /\ closed' \in {closed \cup {p}, closed \ {p}}
  /\ UNCHANGED <<held, lost, cost>>

Next ==
  \/ \E ds \in SUBSET Dockets: Release(ds) \/ \E p \in Projects: Hold(ds, p)
  \/ \E p \in Projects: CloseOrReopen(p)
  \/ \E d \in Dockets: Retract(d) \/ HoldUncharged(d) \/ Lose(d) \/ \E p \in Projects: Charge(d, p)

Spec == Init /\ [][Next]_<<cost, closed, held, lost>>
=============================================================================
