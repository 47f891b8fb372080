-------------------------------- MODULE Swms --------------------------------
(***************************************************************************)
(* One safe work method statement, its revisions and the workers'          *)
(* acknowledgements: lib/modules/hseq/swms.ts.  The office operations lock *)
(* the statement and its project together, so each is one step, refused in *)
(* a closed project; an acknowledgement reads the statement without a lock *)
(* and inserts what it read.                                               *)
(***************************************************************************)
EXTENDS Integers, Sequences

CONSTANTS
  Authors,       \* people who edit drafts
  Crew,          \* workers who acknowledge
  Drafts,        \* what a revision may say
  Complete,      \* the contents with no approvalGaps
  MaxSwmsRevisions  \* bound: revisions

ASSUME DraftAssumption == Complete \subseteq Drafts
ASSUME SwmsBoundAssumption == MaxSwmsRevisions \in Nat \ {0}

VARIABLES
  swms,     \* swms_revisions, oldest first; the last is current_revision_id
  issued,   \* issued_revision_id, as an index; 0: never issued
  editing,  \* authors whose form shows the draft as it is
  reading,  \* the revision a worker has on the screen, maybe offline; 0: none
  acking,   \* the revision an acknowledgement has found in force; 0: none
  acks,     \* swms_acknowledgements: revision and worker
  shown,    \* history: the revisions each worker has read
  siteClosed \* is the project closed

swmsVars == <<swms, issued, editing, reading, acking, acks, shown, siteClosed>>

SwmsStatuses == {"draft", "review", "approved", "issued", "superseded"}
\* approved: the content at its approval (history), and whether there was one.
SwmsRevisions == [status: SwmsStatuses, content: Drafts, approved: SUBSET Drafts]
Numbers == 0..MaxSwmsRevisions
AckRows == (1..MaxSwmsRevisions) \X Crew

Current == Len(swms)

\* Everything is what it should be.
SwmsTypeOK ==
  /\ swms \in Seq(SwmsRevisions) /\ Current \in 1..MaxSwmsRevisions
  /\ issued \in 0..Current
  /\ editing \subseteq Authors
  /\ reading \in [Crew -> Numbers]
  /\ acking \in [Crew -> Numbers]
  /\ acks \subseteq AckRows
  /\ shown \subseteq AckRows
  /\ siteClosed \in BOOLEAN

\* createSwms: a first draft generated from the questionnaire.
SwmsInit ==
  /\ \E content \in Drafts:
       swms = <<[status |-> "draft", content |-> content, approved |-> {}]>>
  /\ issued = 0
  /\ editing = {}
  /\ reading = [w \in Crew |-> 0]
  /\ acking = [w \in Crew |-> 0]
  /\ acks = {} /\ shown = {}
  /\ siteClosed = FALSE

crewVars == <<reading, acking, acks, shown>>

-----------------------------------------------------------------------------
(* The office                                                               *)

OpenDraft(u) ==
  /\ editing' = editing \cup {u}
  /\ UNCHANGED <<swms, issued, crewVars, siteClosed>>

\* Every change of the revision moves updated_at on.
With(i, status) == [swms EXCEPT ![i] = [@ EXCEPT !.status = status]]

\* Mutant: a revision can be edited until it is issued.
SaveDraftUntilIssued(u) ==
  /\ ~siteClosed
  /\ swms[Current].status # "issued"
  /\ u \in editing
  /\ \E content \in Drafts:
       swms' = [swms EXCEPT ![Current] = [@ EXCEPT !.content = content]]
  /\ editing' = {}
  /\ UNCHANGED <<issued, crewVars, siteClosed>>

\* saveDraft
SaveDraft(u) ==
  /\ ~siteClosed
  /\ swms[Current].status = "draft"
  /\ u \in editing
  /\ \E content \in Drafts:
       swms' = [swms EXCEPT ![Current] = [@ EXCEPT !.content = content]]
  /\ editing' = {}
  /\ UNCHANGED <<issued, crewVars, siteClosed>>

\* transitionSwms: submit, return, approve.
SubmitSwms ==
  /\ ~siteClosed
  /\ swms[Current].status = "draft" /\ swms[Current].content \in Complete
  /\ swms' = With(Current, "review")
  /\ editing' = {}
  /\ UNCHANGED <<issued, crewVars, siteClosed>>

ReturnSwms ==
  /\ ~siteClosed
  /\ swms[Current].status = "review"
  /\ swms' = With(Current, "draft")
  /\ editing' = {}
  /\ UNCHANGED <<issued, crewVars, siteClosed>>

ApproveSwms ==
  /\ ~siteClosed
  /\ swms[Current].status = "review" /\ swms[Current].content \in Complete
  /\ swms' = [swms EXCEPT ![Current] =
                [@ EXCEPT !.status = "approved", !.approved = {swms[Current].content}]]
  /\ editing' = {}
  /\ UNCHANGED <<issued, crewVars, siteClosed>>

\* transitionSwms to issued: the revision in force before is superseded.
IssueSwms ==
  /\ ~siteClosed
  /\ swms[Current].status = "approved"
  /\ swms' = [i \in 1..Current |->
       IF i = Current THEN [swms[i] EXCEPT !.status = "issued"]
       ELSE IF i = issued THEN [swms[i] EXCEPT !.status = "superseded"] ELSE swms[i]]
  /\ issued' = Current
  /\ editing' = {}
  /\ UNCHANGED <<crewVars, siteClosed>>

\* reviseSwms: also in a closed project. An approved revision is superseded by
\* its successor, an issued one stays in force until that is issued.
ReviseSwms ==
  /\ swms[Current].status \in {"approved", "issued"}
  /\ Current < MaxSwmsRevisions
  /\ swms' = Append(IF swms[Current].status = "approved" THEN With(Current, "superseded") ELSE swms,
                    [status |-> "draft", content |-> swms[Current].content, approved |-> {}])
  /\ editing' = {}
  /\ UNCHANGED <<issued, crewVars, siteClosed>>

MoveSite ==
  /\ siteClosed' = ~siteClosed
  /\ UNCHANGED <<swms, issued, editing, crewVars>>

-----------------------------------------------------------------------------
(* The crew                                                                 *)

\* getSwms shows a field user the issued revision only.
ReadSwms(w) ==
  /\ issued # 0
  /\ reading' = [reading EXCEPT ![w] = issued]
  /\ shown' = shown \cup {<<issued, w>>}
  /\ UNCHANGED <<swms, issued, editing, acking, acks, siteClosed>>

\* Mutant: an acknowledgement is taken for whatever is in force.
BeginAckOfIssued(w) ==
  /\ reading[w] # 0 /\ acking[w] = 0
  /\ acking' = [acking EXCEPT ![w] = issued]
  /\ reading' = [reading EXCEPT ![w] = 0]
  /\ UNCHANGED <<swms, issued, editing, acks, shown, siteClosed>>

\* acknowledgeSwms, its reads; the request may have waited in the offline queue.
\* The page always says which revision it showed (components/v1/swms.tsx); the
\* route would take an acknowledgement that does not, for whatever is in force.
BeginAck(w) ==
  /\ reading[w] # 0 /\ acking[w] = 0
  /\ acking' = [acking EXCEPT ![w] = IF reading[w] = issued THEN issued ELSE 0]
  /\ reading' = [reading EXCEPT ![w] = 0]
  /\ UNCHANGED <<swms, issued, editing, acks, shown, siteClosed>>

\* The insert: one row per revision and worker.
CommitAck(w) ==
  /\ acking[w] # 0
  /\ acks' = acks \cup {<<acking[w], w>>}
  /\ acking' = [acking EXCEPT ![w] = 0]
  /\ UNCHANGED <<swms, issued, editing, reading, shown, siteClosed>>

SwmsNext ==
  \/ \E u \in Authors: OpenDraft(u) \/ SaveDraft(u)
  \/ SubmitSwms \/ ReturnSwms \/ ApproveSwms \/ IssueSwms \/ ReviseSwms \/ MoveSite
  \/ \E w \in Crew: ReadSwms(w) \/ BeginAck(w) \/ CommitAck(w)

SwmsSpec == SwmsInit /\ [][SwmsNext]_swmsVars

-----------------------------------------------------------------------------
(* Properties                                                               *)

\* "The issued version stays in force until the new one is issued" and "Approved
\* and issued SWMS are immutable": once a revision was issued there is exactly
\* one in force, the one the statement names, complete and word for word what
\* was approved, however many are drafted, approved and replaced behind it; every
\* other revision but the newest is superseded.
OneInForceAsApproved ==
  /\ \A i \in 1..Current: swms[i].status = "issued" <=> i = issued
  /\ \A i \in 1..(Current - 1): i # issued => swms[i].status = "superseded"
  /\ issued # 0 => /\ swms[issued].approved = {swms[issued].content}
                   /\ swms[issued].content \in Complete

\* A worker has acknowledged only revisions that he has read and that were
\* issued, also when the acknowledgement waited offline while the statement was
\* revised, or a revision was issued between its check and its insert.
AcknowledgedWhatWasRead ==
  \A ack \in acks: ack \in shown /\ swms[ack[1]].status \in {"issued", "superseded"}
=============================================================================
