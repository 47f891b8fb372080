-------------------------- MODULE EstimateApproval --------------------------
(***************************************************************************)
(* The approval of one estimate: lib/modules/estimating/approval.ts and    *)
(* the editor's save in app/api/estimates/route.ts.  Every handler reads   *)
(* first, outside any transaction, and then writes one database.batch, so  *)
(* the requests of two users interleave between the reads and the batch.   *)
(***************************************************************************)
EXTENDS Integers, Sequences, FiniteSetsExt

CONSTANTS
  Users,         \* people with a request in flight at a time
  Contents,      \* what an estimate may say: its data and the totals of it
  MaxRevisions,  \* bound: revisions ever submitted
  MaxTime        \* bound: times the clock that stamps rows can show

ASSUME MaxRevisionsAssumption == MaxRevisions \in Nat \ {0}
ASSUME MaxTimeAssumption == MaxTime \in Nat \ {0}

VARIABLES
  estimate,   \* the estimates row
  revisions,  \* estimate_revisions, by revision_number
  request,    \* what each user's request has read and is about to write
  clock       \* the time nowIso() gives

estimateVars == <<estimate, revisions, request, clock>>

RevisionStatuses == {"review", "approved", "rejected", "superseded"}

\* approved_revision_id; 0 is null.
RevisionNumbers == 0..MaxRevisions

\* approved_at; 0 is null.
Times == 0..MaxTime

Revisions == [status: RevisionStatuses, data: Contents, approvedAt: Times]

\* jobId is the link to the project kept in the metadata column.
Estimates ==
  [state: {"draft", "review", "approved"}, status: {"Open", "Awarded"},
   approved: RevisionNumbers, jobId: BOOLEAN, data: Contents]

Idle == [op |-> "idle"]

EstimateRequests ==
  [op: {"submit"}, data: Contents]
    \cup [op: {"decide"}]
    \cup [op: {"approve", "reject"}, revision: 1..MaxRevisions, at: Times]
    \cup [op: {"save"}, status: {"Open", "Awarded"}, jobId: BOOLEAN]

EstimateInit ==
  /\ \E c \in Contents:
       estimate = [state |-> "draft", status |-> "Open", approved |-> 0,
                   jobId |-> FALSE, data |-> c]
  /\ revisions = <<>>
  /\ request = [u \in Users |-> Idle]
  /\ clock = 1

-----------------------------------------------------------------------------
(* Helpers                                                                  *)

WithStatus(status) == {n \in DOMAIN revisions: revisions[n].status = status}

\* ORDER BY revision_number DESC LIMIT 1
LatestWith(status) == Max(WithStatus(status))

Read(u, what) == request[u] = Idle /\ request' = [request EXCEPT ![u] = what]

Answer(u) == request' = [request EXCEPT ![u] = Idle]

Decided(n, status, at) ==
  [revisions[n] EXCEPT !.status = status, !.approvedAt = at]

-----------------------------------------------------------------------------
(* Operations                                                               *)

\* submitForReview up to its batch: the state is checked and the data frozen
\* from what was read here.
ReadForReview(u) ==
  /\ estimate.state # "review"
  /\ Read(u, [op |-> "submit", data |-> estimate.data])
  /\ UNCHANGED <<estimate, revisions, clock>>

\* Its batch.  The number is read again just before; the unique index on it
\* makes reading and inserting one step for the batches that commit.
SubmitForReview(u) ==
  /\ request[u].op = "submit"
  /\ Len(revisions) < MaxRevisions
  /\ revisions' = Append(revisions, [status |-> "review", data |-> request[u].data,
                                     approvedAt |-> 0])
  /\ estimate' = [estimate EXCEPT !.state = "review"]
  /\ Answer(u)
  /\ UNCHANGED clock

\* decide: the estimate is read, which must be in review.
BeginDecision(u) ==
  /\ estimate.state = "review"
  /\ Read(u, [op |-> "decide"])
  /\ UNCHANGED <<estimate, revisions, clock>>

\* Then, in a read of its own, the revision to decide on.
ReadForDecision(u, decision) ==
  /\ request[u].op = "decide"
  /\ WithStatus("review") # {}
  /\ request' = [request EXCEPT ![u] = [op |-> decision, revision |-> LatestWith("review"), at |-> clock]]
  /\ UNCHANGED <<estimate, revisions, clock>>

\* Mutant: the revision approved before stays approved.
ApproveAlongside(u) ==
  LET n == request[u].revision IN
  /\ request[u].op = "approve"
  /\ revisions' =
       [r \in DOMAIN revisions |->
          IF r = n /\ revisions[r].status = "review"
          THEN Decided(r, "approved", request[u].at) ELSE revisions[r]]
  /\ estimate' = [estimate EXCEPT !.state = "approved", !.approved = n]
  /\ Answer(u)
  /\ UNCHANGED clock

\* The batch of a rejection: the revision only if it is still in review, the
\* estimate whatever its state.
Reject(u) ==
  LET n == request[u].revision IN
  /\ request[u].op = "reject"
  /\ revisions' = IF revisions[n].status = "review"
                  THEN [revisions EXCEPT ![n] = [@ EXCEPT !.status = "rejected"]]
                  ELSE revisions
  /\ estimate' = [estimate EXCEPT !.state = "draft"]
  /\ Answer(u)
  /\ UNCHANGED clock

\* The batch of an approval.  Whether the second statement changed a row is
\* looked at after the batch has committed, so a refused approval has already
\* superseded the others and marked the estimate.
Approve(u) ==
  LET n == request[u].revision IN
  /\ request[u].op = "approve"
  /\ revisions' =
       [r \in DOMAIN revisions |->
          CASE revisions[r].status = "approved" -> [revisions[r] EXCEPT !.status = "superseded"]
            [] r = n /\ revisions[r].status = "review" -> Decided(r, "approved", request[u].at)
            [] OTHER -> revisions[r]]
  /\ estimate' = [estimate EXCEPT !.state = "approved", !.approved = n]
  /\ Answer(u)
  /\ UNCHANGED clock

\* The editor's PUT up to its batch: the row is read and assertEditable passed.
ReadForSave(u) ==
  /\ estimate.state # "review"
  /\ Read(u, [op |-> "save", status |-> estimate.status, jobId |-> estimate.jobId])
  /\ UNCHANGED <<estimate, revisions, clock>>

\* Its batch: the whole metadata column is written from what was read, the
\* status is the body's (never a new "Awarded") or the one that was read.
Save(u) ==
  /\ request[u].op = "save"
  /\ \E data \in Contents, status \in {"Open", request[u].status}:
       estimate' = [estimate EXCEPT
                      !.data = data, !.status = status, !.jobId = request[u].jobId,
                      !.state = IF @ = "approved" THEN "draft" ELSE @]
  /\ Answer(u)
  /\ UNCHANGED <<revisions, clock>>

\* A request that does not reach its commit: the process or the connection is
\* lost, or a statement of the batch fails and rolls the others back.
Abandon(u) ==
  /\ request[u] # Idle
  /\ Answer(u)
  /\ UNCHANGED <<estimate, revisions, clock>>

Tick ==
  /\ clock < MaxTime
  /\ clock' = clock + 1
  /\ UNCHANGED <<estimate, revisions, request>>

EstimateStep(u) ==
  \/ ReadForReview(u) \/ SubmitForReview(u)
  \/ BeginDecision(u) \/ \E decision \in {"approve", "reject"}: ReadForDecision(u, decision)
  \/ Reject(u) \/ Approve(u)
  \/ ReadForSave(u) \/ Save(u)
  \/ Abandon(u)

EstimateNext == Tick \/ \E u \in Users: EstimateStep(u)

EstimateSpec == EstimateInit /\ [][EstimateNext]_estimateVars

-----------------------------------------------------------------------------
(* Properties                                                               *)

EstimateTypes ==
  /\ estimate \in Estimates
  /\ revisions \in Seq(Revisions) /\ Len(revisions) <= MaxRevisions
  /\ clock \in 1..MaxTime

\* Whatever requests race, an estimate has at most one approved revision: the
\* one an award takes its baseline from (approvedRevision, approval.ts:26).
AtMostOneApproved ==
  \A m, n \in WithStatus("approved"): m = n

\* A revision is decided once: approved or rejected from review, superseded
\* from approved, and what it says and when it was approved stay as they were
\* frozen ("Approval never mutates the snapshot", approval.ts:3).
DecidedOnce ==
  [][\A n \in DOMAIN revisions:
       /\ n \in DOMAIN revisions'
       /\ revisions'[n].data = revisions[n].data
       /\ revisions'[n].status # revisions[n].status =>
            <<revisions[n].status, revisions'[n].status>> \in
              {<<"review", "approved">>, <<"review", "rejected">>,
               <<"approved", "superseded">>}
       /\ revisions[n].status \in {"approved", "superseded"} =>
            revisions'[n].approvedAt = revisions[n].approvedAt]_revisions

\* An estimate shown as approved has an approved revision: the second of two
\* decisions is refused with "This revision was decided by another request."
\* (approval.ts:76) and should leave the first as it was. It does not hold: the
\* second finds out when its batch has already marked the estimate approved.
ApprovedHasRevision ==
  estimate.state = "approved" => WithStatus("approved") # {}
=============================================================================
