--------------------------- MODULE ProjectControl ---------------------------
(***************************************************************************)
(* One project from setup to closure, with the variations and the          *)
(* checklist that hold its closure up: transitionProject of                *)
(* lib/modules/projects/projects.ts against the register requests of       *)
(* lib/v1/register-server.ts.  The stage moves under the lock of the       *)
(* project row; a register request locks its own record only and reads the *)
(* stage in a snapshot.  Claims and invoices are in Claims.                *)
(***************************************************************************)
EXTENDS Naturals, FiniteSets

CONSTANTS
  Variations,   \* project_variations rows
  Readiness,    \* project_checklist_items, phase readiness
  Closeout,     \* project_checklist_items, phase closeout
  Defaults,     \* those every closeout starts with
  Writers       \* register requests under way

ASSUME ChecklistAssumption == Defaults \subseteq Closeout /\ Readiness \cap Closeout = {}

VARIABLES
  stage,        \* jobs.stage
  moving,       \* the stage a transition has decided on, "none" without one
  baselines,    \* how many baselines the project has
  variations,   \* per variation, its status
  checklist,    \* per item, status and whether it is mandatory
  writing,      \* per request, the record it has locked and whether the
                \* project was open when it looked
  unseen        \* records written, by a request that found the project open,
                \* after a closure had looked at them

projectVars == <<stage, moving, baselines, variations, checklist, writing, unseen>>

Stages == {"setup", "ready", "active", "practical_completion", "closeout", "closed"}
Items == Readiness \cup Closeout
RegisterRecords == Variations \cup Items
Nothing == "none"
ASSUME NothingAssumption == Nothing \notin RegisterRecords
VariationStatuses == {"none", "draft", "submitted", "approved", "rejected"}
ItemRows == [status: {"none", "open", "complete", "not_applicable"}, mandatory: BOOLEAN]
NoWriting == [record |-> Nothing, open |-> FALSE]

\* Every variable keeps its type.
ProjectTypeOK ==
  /\ stage \in Stages /\ moving \in Stages \cup {"none"}
  /\ baselines \in 0..2
  /\ variations \in [Variations -> VariationStatuses]
  /\ checklist \in [Items -> ItemRows]
  /\ writing \in [Writers -> [record: RegisterRecords \cup {Nothing}, open: BOOLEAN]]
  /\ unseen \subseteq RegisterRecords

\* createProject: a readiness checklist and no baseline; an award brings one.
ProjectInit ==
  /\ stage = "setup" /\ moving = "none"
  /\ baselines \in {0, 1}
  /\ variations = [v \in Variations |-> "none"]
  /\ checklist = [i \in Items |-> [status |-> IF i \in Readiness THEN "open" ELSE "none", mandatory |-> TRUE]]
  /\ writing = [w \in Writers |-> NoWriting]
  /\ unseen = {}

-----------------------------------------------------------------------------
(* The project                                                              *)

\* MACHINES.project.
ProjectEdges == {<<"setup", "ready">>, <<"ready", "active">>, <<"ready", "setup">>,
  <<"active", "practical_completion">>, <<"practical_completion", "closeout">>,
  <<"practical_completion", "active">>, <<"closeout", "closed">>,
  <<"closeout", "active">>, <<"closed", "closeout">>}

Outstanding(items) == {i \in items: checklist[i].mandatory /\ checklist[i].status = "open"}

\* readiness(): the checklist and the baseline. The SWMS, risks, IMS pack and
\* competencies it also asks for are left to chance.
ReadyToMobilise == Outstanding(Readiness) = {} /\ baselines > 0

\* closeoutStatus(), but for the claims and invoices.
Closeable ==
  /\ Outstanding(Closeout) = {}
  /\ \A v \in Variations: variations[v] \notin {"draft", "submitted"}

\* transitionProject up to its UPDATE: the project row is locked, then the
\* blockers are read in one snapshot.
BeginProjectMove ==
  /\ moving = "none"
  /\ \E to \in Stages:
       /\ <<stage, to>> \in ProjectEdges
       /\ <<stage, to>> = <<"setup", "ready">> => ReadyToMobilise
       /\ to = "closed" => Closeable
       /\ moving' = to
  /\ UNCHANGED <<stage, baselines, variations, checklist, writing, unseen>>

\* Its writes: going to closeout puts back the default items that are missing.
EndProjectMove ==
  /\ moving # "none"
  /\ checklist' = [i \in Items |->
       IF moving = "closeout" /\ i \in Defaults /\ checklist[i].status = "none"
       THEN [status |-> "open", mandatory |-> TRUE] ELSE checklist[i]]
  /\ stage' = moving /\ moving' = "none"
  /\ unseen' = IF moving = "closed" THEN unseen ELSE {}
  /\ UNCHANGED <<baselines, variations, writing>>

AbandonProjectMove ==
  /\ moving # "none"
  /\ moving' = "none"
  /\ unseen' = IF stage = "closed" THEN unseen ELSE {}
  /\ UNCHANGED <<stage, baselines, variations, checklist, writing>>

\* recordManualBaseline, under the lock of the project row.
RecordManualBaseline ==
  /\ moving = "none" /\ stage # "closed"
  /\ baselines = 0
  /\ baselines' = 1
  /\ UNCHANGED <<stage, moving, variations, checklist, writing, unseen>>

-----------------------------------------------------------------------------
(* Its registers                                                            *)

\* Mutant: only new records ask whether the project is open.
OpenForNew(r) ==
  \/ stage # "closed"
  \/ r \in Variations /\ variations[r] # "none"
  \/ r \in Items /\ checklist[r].status # "none"

\* resolveParent(..., forWrite), of every register request.
OpenForWrite(r) == stage # "closed"

\* A request locks its record (a new one is nobody else's) and reads the stage.
BeginWrite(w) ==
  /\ writing[w] = NoWriting
  /\ \E r \in RegisterRecords:
       /\ \A other \in Writers: writing[other].record # r
       /\ OpenForWrite(r)
       /\ writing' = [writing EXCEPT ![w] = [record |-> r, open |-> stage # "closed"]]
  /\ UNCHANGED <<stage, moving, baselines, variations, checklist, unseen>>

\* What is written by a request that found the project open, once a closure is
\* being decided or is done, was not seen by it.
Written(w) ==
  /\ writing' = [writing EXCEPT ![w] = NoWriting]
  /\ unseen' = IF writing[w].open /\ "closed" \in {stage, moving}
             THEN unseen \cup {writing[w].record} ELSE unseen

AbandonWrite(w) ==
  /\ writing[w] # NoWriting
  /\ writing' = [writing EXCEPT ![w] = NoWriting]
  /\ UNCHANGED <<stage, moving, baselines, variations, checklist, unseen>>

\* MACHINES.variation; one that has not been submitted may be deleted.
VariationEdges == {<<"none", "draft">>, <<"draft", "none">>, <<"draft", "submitted">>,
  <<"submitted", "approved">>, <<"submitted", "rejected">>, <<"submitted", "draft">>}

\* createRecord, transitionRecord and deleteRecord; updateRecord moves nothing
\* but values and texts.
WriteVariation(w) ==
  /\ writing[w].record \in Variations
  /\ \E to \in VariationStatuses:
       /\ <<variations[writing[w].record], to>> \in VariationEdges
       /\ variations' = [variations EXCEPT ![writing[w].record] = to]
  /\ Written(w)
  /\ UNCHANGED <<stage, moving, baselines, checklist>>

\* MACHINES.checklist.
ItemEdges == {<<"open", "complete">>, <<"open", "not_applicable">>,
  <<"complete", "open">>, <<"not_applicable", "open">>}

\* createRecord, updateRecord (the mandatory flag, at any time), transitionRecord
\* and deleteRecord of a checklist item.
WriteItem(w) ==
  /\ writing[w].record \in Items
  /\ LET i == writing[w].record
         row == checklist[i]
     IN \/ /\ row.status = "none"
           /\ \E m \in BOOLEAN: checklist' = [checklist EXCEPT ![i] = [status |-> "open", mandatory |-> m]]
        \/ /\ row.status # "none"
           /\ checklist' = [checklist EXCEPT ![i] = [@ EXCEPT !.mandatory = ~row.mandatory]]
        \/ \E to \in {"open", "complete", "not_applicable"}:
             /\ <<row.status, to>> \in ItemEdges
             /\ checklist' = [checklist EXCEPT ![i] = [@ EXCEPT !.status = to]]
        \/ /\ row.status = "open"
           /\ checklist' = [checklist EXCEPT ![i] = [@ EXCEPT !.status = "none"]]
  /\ Written(w)
  /\ UNCHANGED <<stage, moving, baselines, variations>>

ProjectNext ==
  \/ BeginProjectMove \/ EndProjectMove \/ AbandonProjectMove \/ RecordManualBaseline
  \/ \E w \in Writers: BeginWrite(w) \/ WriteVariation(w) \/ WriteItem(w) \/ AbandonWrite(w)

ProjectSpec == ProjectInit /\ [][ProjectNext]_projectVars

-----------------------------------------------------------------------------
(* Properties                                                               *)

\* A closed project has every variation decided and every mandatory closeout
\* item done, however often it was reopened, but for what a request that had
\* found it open wrote while the closure was decided or after it. And the
\* project left setup on one baseline, which nobody can record a second time.
ClosedProjectIsFinished ==
  /\ stage = "closed" =>
       /\ \A v \in Variations: variations[v] \in {"draft", "submitted"} => v \in unseen
       /\ Outstanding(Closeout) \subseteq unseen
  /\ stage # "setup" => baselines = 1
=============================================================================
