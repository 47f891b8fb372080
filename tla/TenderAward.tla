---------------------------- MODULE TenderAward ----------------------------
(***************************************************************************)
(* One tender with its opportunity, its estimate, its clarifications and   *)
(* the project an award makes of it: lib/modules/pipeline/tenders.ts and   *)
(* the award seam lib/seams/award-to-project.ts, over EstimateApproval.    *)
(* A tender's own operations lock its row.  An award reads everything      *)
(* before its batch and locks nothing.                                     *)
(***************************************************************************)
EXTENDS EstimateApproval

VARIABLES
  tender,         \* the tenders row
  opportunity,    \* the stage of its opportunity
  repriced,       \* the latest updated_at of a clarification with a price impact
  projects,       \* jobs rows with this source_tender_id, with their baseline
  projectsOn      \* is the organisation entitled to the Projects module

tenderVars == <<tender, opportunity, repriced, projects, projectsOn>>
vars == <<estimateVars, tenderVars>>

Stages == {"draft", "reviewing", "pricing", "approval", "submitted",
           "clarification", "awarded", "lost"}
Closed == {"awarded", "lost"}
Awardable == {"submitted", "clarification"}

\* revision is approved_estimate_revision_id, project is project_id (an index
\* of projects); 0 is null.
Tenders ==
  [stage: Stages, recommended: BOOLEAN,
   approval: {"not_requested", "requested", "approved", "rejected"},
   override: BOOLEAN, revision: RevisionNumbers, project: {0, 1}]

Projects == [revision: 1..MaxRevisions, data: Contents]

TenderRequests ==
  [op: {"record"}, revision: RevisionNumbers, ok: BOOLEAN]
    \cup [op: {"award"}, revision: 1..MaxRevisions, data: Contents, current: Contents]

Init ==
  /\ EstimateInit
  /\ tender = [stage |-> "draft", recommended |-> FALSE, approval |-> "not_requested",
               override |-> FALSE, revision |-> 0, project |-> 0]
  /\ opportunity = "converted"
  /\ repriced = 0
  /\ projects = <<>>
  /\ projectsOn \in BOOLEAN

-----------------------------------------------------------------------------
(* The tender's own operations                                              *)

\* FOR UPDATE waits while a submission holds the row.
Locked == \E u \in Users: request[u].op = "record"

\* setStage: the machine's edges, by the operation that may take them.
Move(from, to) ==
  /\ ~Locked
  /\ tender.stage \in from
  /\ tender' = [tender EXCEPT !.stage = to]
  /\ UNCHANGED <<estimateVars, repriced, projects, projectsOn>>

\* saveBidReview
SaveBidReview ==
  /\ ~Locked
  /\ tender.stage \in {"draft", "reviewing"}
  /\ \E recommended \in BOOLEAN:
       tender' = [tender EXCEPT !.stage = "reviewing", !.recommended = recommended]
  /\ UNCHANGED <<estimateVars, opportunity, repriced, projects, projectsOn>>

\* transitionTender: the edges that are not reserved for another operation and
\* whose stage the request may name (lost is not among them).
TransitionTender ==
  /\ \/ Move({"draft"}, "reviewing")
     \/ Move({"reviewing"}, "draft")
     \/ Move({"submitted"}, "clarification")
     \/ Move({"clarification"}, "submitted")
  /\ UNCHANGED opportunity

\* decideBid
DecideBid ==
  /\ tender.recommended
  /\ \/ Move({"reviewing"}, "pricing") /\ UNCHANGED opportunity
     \/ Move({"reviewing"}, "lost") /\ opportunity' = "lost"

\* requestApproval
RequestApproval ==
  /\ ~Locked
  /\ tender.stage = "pricing"
  /\ tender' = [tender EXCEPT !.stage = "approval", !.approval = "requested"]
  /\ UNCHANGED <<estimateVars, opportunity, repriced, projects, projectsOn>>

\* decideApproval
DecideApproval ==
  /\ ~Locked
  /\ tender.stage = "approval" /\ tender.approval = "requested"
  /\ \/ tender' = [tender EXCEPT !.approval = "approved"]
     \/ tender' = [tender EXCEPT !.stage = "pricing", !.approval = "rejected"]
  /\ UNCHANGED <<estimateVars, opportunity, repriced, projects, projectsOn>>

\* recordLoss, from every stage that has an edge to lost.
RecordLoss ==
  /\ Move(Stages \ Closed, "lost")
  /\ opportunity' = "lost"

\* submitTender up to setStage: the row is locked, stats reads the estimate on
\* another connection.  The requirements and returnables may be complete or
\* not; with a failing check an approver's reason is needed.
SubmissionChecks ==
  /\ WithStatus("approved") # {} /\ estimate.state # "review"
  /\ tender.approval = "approved"

ReadForSubmission(u) ==
  /\ ~Locked
  /\ tender.stage = "approval"
  /\ \E complete \in BOOLEAN:
       Read(u, [op |-> "record", ok |-> complete /\ SubmissionChecks,
                revision |-> IF WithStatus("approved") = {} THEN 0
                             ELSE LatestWith("approved")])
  /\ UNCHANGED <<estimate, revisions, clock, tenderVars>>

\* Its end.  A failing check is refused or overridden.
RecordSubmission(u) ==
  /\ request[u].op = "record"
  /\ \/ tender' = [tender EXCEPT !.stage = "submitted", !.override = ~request[u].ok,
                                 !.revision = request[u].revision]
     \/ ~request[u].ok /\ UNCHANGED tender
  /\ Answer(u)
  /\ UNCHANGED <<estimate, revisions, clock, opportunity, repriced, projects, projectsOn>>

\* The clarifications register stays open whatever the stage of the tender.
\* Creating, editing or moving on a priced record stamps it; one that is
\* deleted or loses its price leaves the latest stamp to an earlier one.
Clarify ==
  /\ \E at \in {clock} \cup 0..repriced: repriced' = at
  /\ UNCHANGED <<estimateVars, tender, opportunity, projects, projectsOn>>

-----------------------------------------------------------------------------
(* The award                                                                *)

\* A priced clarification stamped after the approval.
Repriced(n) == repriced > revisions[n].approvedAt

\* Mutant: a baseline of the working copy.
ReadWorkingCopyForAward(u) ==
  /\ ~estimate.jobId /\ WithStatus("approved") # {}
  /\ tender.stage \in Awardable /\ tender.project = 0
  /\ LET n == LatestWith("approved") IN
       /\ ~Repriced(n)
       /\ Read(u, [op |-> "award", revision |-> n, data |-> estimate.data,
                   current |-> estimate.data])
  /\ UNCHANGED <<estimate, revisions, clock, tenderVars>>

\* awardTender and awardEstimate up to the batch.
ReadForAward(u) ==
  /\ ~estimate.jobId /\ WithStatus("approved") # {}
  /\ tender.stage \in Awardable /\ tender.project = 0
  /\ LET n == LatestWith("approved") IN
       /\ ~Repriced(n)
       /\ Read(u, [op |-> "award", revision |-> n, data |-> revisions[n].data,
                   current |-> estimate.data])
  /\ UNCHANGED <<estimate, revisions, clock, tenderVars>>

\* Mutant: the stage read before is trusted.
AwardTenderAnyway(revision, project) ==
  /\ tender' = [tender EXCEPT !.stage = "awarded", !.revision = revision, !.project = project]
  /\ opportunity' = "won"

\* tenderWrites: the tender only while it can be awarded, the opportunity
\* whatever its stage.  The number of rows changed is not looked at.
AwardTender(revision, project) ==
  /\ tender' = IF tender.stage \in Awardable
               THEN [tender EXCEPT !.stage = "awarded", !.revision = revision,
                                   !.project = project]
               ELSE tender
  /\ opportunity' = "won"

\* The batch without Projects.
RecordAward(u) ==
  /\ request[u].op = "award" /\ ~projectsOn /\ ~Locked
  /\ AwardTender(request[u].revision, 0)
  /\ estimate' = [estimate EXCEPT !.status = "Awarded"]
  /\ Answer(u)
  /\ UNCHANGED <<revisions, clock, repriced, projects, projectsOn>>

\* Mutant: no unique index on the tender and the estimate a project comes from.
CreateAnotherProject(u) ==
  LET q == request[u] IN
  /\ q.op = "award" /\ projectsOn /\ ~Locked
  /\ projects' = Append(projects, [revision |-> q.revision, data |-> q.data])
  /\ AwardTender(q.revision, 1)
  /\ estimate' = [estimate EXCEPT !.status = "Awarded", !.jobId = TRUE, !.data = q.current]
  /\ Answer(u)
  /\ UNCHANGED <<revisions, clock, repriced, projectsOn>>

\* The batch with Projects: the unique indexes on source_tender_id and
\* source_estimate_id fail a second one as a whole.  The metadata written to
\* the estimate are those read before.
CreateProject(u) ==
  LET q == request[u] IN
  /\ q.op = "award" /\ projectsOn /\ ~Locked
  /\ projects = <<>>
  /\ projects' = <<[revision |-> q.revision, data |-> q.data]>>
  /\ AwardTender(q.revision, 1)
  /\ estimate' = [estimate EXCEPT !.status = "Awarded", !.jobId = TRUE, !.data = q.current]
  /\ Answer(u)
  /\ UNCHANGED <<revisions, clock, repriced, projectsOn>>

-----------------------------------------------------------------------------

TenderStep ==
  \/ SaveBidReview \/ TransitionTender \/ DecideBid
  \/ RequestApproval \/ DecideApproval \/ RecordLoss
  \/ Clarify

AwardStep(u) ==
  \/ ReadForSubmission(u) \/ RecordSubmission(u)
  \/ ReadForAward(u) \/ RecordAward(u) \/ CreateProject(u)

Next ==
  \/ EstimateNext /\ UNCHANGED tenderVars
  \/ TenderStep
  \/ \E u \in Users: AwardStep(u)

Spec == Init /\ [][Next]_vars

-----------------------------------------------------------------------------
(* Properties                                                               *)

TypeOK ==
  /\ EstimateTypes
  /\ request \in [Users -> {Idle} \cup EstimateRequests \cup TenderRequests]
  /\ tender \in Tenders
  /\ opportunity \in {"converted", "won", "lost"}
  /\ repriced \in Times
  /\ projects \in Seq(Projects)
  /\ projectsOn \in BOOLEAN

\* A project's baseline is a revision that was approved, with what that
\* revision froze: "from the APPROVED estimate revision (never the live
\* working copy)" (award-to-project.ts:2).
BaselineIsApprovedRevision ==
  \A p \in DOMAIN projects:
    /\ projects[p].revision \in DOMAIN revisions
    /\ revisions[projects[p].revision].status \in {"approved", "superseded"}
    /\ projects[p].data = revisions[projects[p].revision].data

\* However many awards race each other and a loss, one project at most comes
\* out, and a tender that ends awarded names that project, the revision its
\* baseline was taken from, and an opportunity that is won.
AwardIsOne ==
  /\ Len(projects) <= 1
  /\ tender.stage = "awarded" =>
       /\ opportunity = "won"
       /\ projectsOn => /\ tender.project = 1 /\ projects # <<>>
                        /\ tender.revision = projects[1].revision

\* A tender that is awarded or lost is read-only: no request that read it
\* before it was closed changes it afterwards.
OutcomeIsFinal == [][tender.stage \in Closed => UNCHANGED tender]_tender

\* Unless an approver overrode the checks, a tender is submitted with its
\* internal approval and on a revision of the estimate that was approved; it
\* is awarded on such a revision in any case.
SubmissionIsApproved ==
  /\ tender.stage \in Awardable /\ ~tender.override =>
       tender.approval = "approved" /\ tender.revision # 0
  /\ tender.stage = "awarded" => tender.revision # 0
  /\ tender.revision # 0 =>
       /\ tender.revision \in DOMAIN revisions
       /\ revisions[tender.revision].status \in {"approved", "superseded"}
=============================================================================
