---------------------------- MODULE PlanScenario ----------------------------
(***************************************************************************)
(* One scenario of an active methodology plan, open in several editors:    *)
(* app/api/planning/route.ts, lib/modules/estimating/planning.ts and       *)
(* components/v1/planning.tsx.  A page is read by queries that share no    *)
(* transaction.  A save is two requests: the content, against the revision *)
(* that was read, then the layout, which has none.  What is on a screen    *)
(* between a page and its save is any change of that page.  Nobody saves   *)
(* while the page is loading, or loads while it saves: what a load meets   *)
(* of a save of its own it meets of somebody else's.                       *)
(***************************************************************************)
EXTENDS Naturals

CONSTANTS
  Editors,      \* people with the scenario open
  Ids,          \* ids of activities
  FirstIds,     \* those the scenario begins with
  Texts,        \* all else of its content: requirements, costs, dependencies
  FirstText,    \* what it begins with
  MaxRevision   \* bound: revisions of the scenario

ASSUME FirstContentAssumption == FirstIds \subseteq Ids /\ FirstText \in Texts
ASSUME RevisionBoundAssumption == MaxRevision \in Nat \ {0}

VARIABLES
  scenario,  \* stored: revision, content, and the activities with a position
  born,      \* the ids ever given to an activity: newId never repeats one
  data,      \* per editor, the revision and content of the page, 0 before there is one
  loading,   \* per editor, what has been read of a page that is on its way
  saving     \* per editor, the save under way

scenarioVars == <<scenario, born, data, loading, saving>>

Contents == [activities: SUBSET Ids, text: Texts]
First == [activities |-> FirstIds, text |-> FirstText]

\* What the server tells of the scenario.
Payloads == [revision: 0..MaxRevision, content: Contents]
NoPage == [revision |-> 0, content |-> First]

Parts == {"revision", "activities", "text"}
Loads == [read: SUBSET Parts, told: Payloads]
NoLoad == [read |-> {}, told |-> NoPage]

\* sent: the content is on its way.  stored: it is stored, or needs no storing.
\* laid: so is the layout.  told: the page to have after it.
Saves == [stage: {"idle", "sent", "stored", "laid"}, told: Payloads,
          positions: SUBSET Ids, businessSaved: BOOLEAN]
NoSave == [stage |-> "idle", told |-> NoPage, positions |-> {}, businessSaved |-> FALSE]

ScenarioTypeOK ==
  /\ scenario \in [revision: 1..MaxRevision, content: Contents, layout: SUBSET Ids]
  /\ born \subseteq Ids
  /\ data \in [Editors -> Payloads]
  /\ loading \in [Editors -> Loads]
  /\ saving \in [Editors -> Saves]

ScenarioInit ==
  /\ scenario = [revision |-> 1, content |-> First, layout |-> {}]
  /\ born = FirstIds
  /\ data = [e \in Editors |-> NoPage]
  /\ loading = [e \in Editors |-> NoLoad]
  /\ saving = [e \in Editors |-> NoSave]

-----------------------------------------------------------------------------
(* The page                                                                 *)

\* Mutant: everything is read at once.
AnyOrder(read) == Parts \ read

\* loadScenario comes first; the queries of loadDocument run side by side.
Readable(read) == IF "revision" \in read THEN Parts \ read ELSE {"revision"}

\* One query of a page; the first of a new page gives up the one before it.
ReadPart(e, read, part) ==
  /\ part \in Readable(read)
  /\ loading' = [loading EXCEPT ![e] =
       [read |-> read \cup {part},
        told |-> CASE part = "revision" -> [@.told EXCEPT !.revision = scenario.revision]
                   [] part = "activities" ->
                        [@.told EXCEPT !.content.activities = scenario.content.activities]
                   [] part = "text" -> [@.told EXCEPT !.content.text = scenario.content.text]]]
  /\ UNCHANGED <<scenario, born, data, saving>>

\* The editor opens, or its changes are discarded.
BeginLoad(e) ==
  /\ saving[e].stage = "idle"
  /\ \E part \in Parts: ReadPart(e, {}, part)

ContinueLoad(e) ==
  /\ loading[e].read # {}
  /\ \E part \in Parts: ReadPart(e, loading[e].read, part)

\* useApi: "server data replaces the local draft whenever a fresh response
\* arrives".
Loaded(e) ==
  /\ loading[e].read = Parts
  /\ data' = [data EXCEPT ![e] = loading[e].told]
  /\ loading' = [loading EXCEPT ![e] = NoLoad]
  /\ UNCHANGED <<scenario, born, saving>>

LoadFails(e) ==
  /\ loading[e].read # {}
  /\ loading' = [loading EXCEPT ![e] = NoLoad]
  /\ UNCHANGED <<scenario, born, data, saving>>

-----------------------------------------------------------------------------
(* A save                                                                   *)

Editing(e) ==
  /\ data[e].revision # 0
  /\ loading[e] = NoLoad
  /\ saving[e].stage = "idle"

\* persist, with changes of the content (add, remove, edit) and perhaps of
\* positions.
PersistContent(e) ==
  /\ Editing(e)
  /\ \E content \in Contents, positions \in SUBSET Ids:
       /\ content.activities \subseteq data[e].content.activities \cup (Ids \ born)
       /\ positions \subseteq content.activities
       /\ saving' = [saving EXCEPT ![e] =
            [stage |-> "sent", told |-> [data[e] EXCEPT !.content = content],
             positions |-> positions, businessSaved |-> FALSE]]
       /\ born' = born \cup content.activities
  /\ UNCHANGED <<scenario, data, loading>>

\* persist, with changes of positions only (a move, or the retry of a layout).
PersistLayout(e) ==
  /\ Editing(e)
  /\ \E positions \in SUBSET data[e].content.activities \ {{}}:
       saving' = [saving EXCEPT ![e] =
         [stage |-> "stored", told |-> data[e], positions |-> positions, businessSaved |-> FALSE]]
  /\ UNCHANGED <<scenario, born, data, loading>>

\* action save: under the row lock of the scenario, on the revision that was
\* read.  writeDocument takes the positions of removed activities with them.
StoreContent(e) ==
  /\ saving[e].stage = "sent"
  /\ saving[e].told.revision = scenario.revision
  /\ scenario.revision < MaxRevision
  /\ scenario' = [revision |-> scenario.revision + 1, content |-> saving[e].told.content,
                  layout |-> scenario.layout \cap saving[e].told.content.activities]
  /\ saving' = [saving EXCEPT ![e] =
       [@ EXCEPT !.stage = "stored", !.told.revision = scenario.revision + 1,
                 !.businessSaved = TRUE]]
  /\ UNCHANGED <<born, data, loading>>

\* "This scenario was changed elsewhere": the changes stay on the screen.
RefuseStale(e) ==
  /\ saving[e].stage = "sent"
  /\ saving[e].told.revision # scenario.revision
  /\ saving' = [saving EXCEPT ![e] = NoSave]
  /\ UNCHANGED <<scenario, born, data, loading>>

\* The request or its answer is lost, and the changes stay on the screen.
LoseContent(e) ==
  /\ \/ saving[e].stage = "sent"
     \/ saving[e].stage = "stored" /\ saving[e].businessSaved
  /\ saving' = [saving EXCEPT ![e] = NoSave]
  /\ UNCHANGED <<scenario, born, data, loading>>

\* writePositions: one that is "not in this scenario" has them all refused.
Known(positions) == positions \subseteq scenario.content.activities

\* action positions: under the same lock, without a revision.
StoreLayout(e) ==
  /\ saving[e].stage = "stored"
  /\ saving[e].positions # {}
  /\ Known(saving[e].positions)
  /\ scenario' = [scenario EXCEPT !.layout = @ \cup saving[e].positions]
  /\ saving' = [saving EXCEPT ![e].stage = "laid"]
  /\ UNCHANGED <<born, data, loading>>

\* "Saved."
FinishSave(e) ==
  /\ \/ saving[e].stage = "laid"
     \/ saving[e].stage = "stored" /\ saving[e].positions = {}
  /\ data' = [data EXCEPT ![e] = saving[e].told]
  /\ saving' = [saving EXCEPT ![e] = NoSave]
  /\ UNCHANGED <<scenario, born, loading>>

\* The layout is refused, or its request or answer is lost: a content that was
\* saved has its revision adopted, "so a retry saves only the layout".
FailLayout(e) ==
  /\ saving[e].stage \in {"stored", "laid"}
  /\ saving[e].positions # {}
  /\ data' = IF saving[e].businessSaved THEN [data EXCEPT ![e] = saving[e].told] ELSE data
  /\ saving' = [saving EXCEPT ![e] = NoSave]
  /\ UNCHANGED <<scenario, born, loading>>

ScenarioNext ==
  \E e \in Editors:
    \/ BeginLoad(e) \/ ContinueLoad(e) \/ Loaded(e) \/ LoadFails(e)
    \/ PersistContent(e) \/ PersistLayout(e)
    \/ StoreContent(e) \/ RefuseStale(e) \/ LoseContent(e)
    \/ StoreLayout(e) \/ FinishSave(e) \/ FailLayout(e)

ScenarioSpec == ScenarioInit /\ [][ScenarioNext]_scenarioVars

-----------------------------------------------------------------------------
(* Properties                                                               *)

\* Nothing is stored over what its editor has not read: whoever has the stored
\* revision, and so would have a save accepted, has the content stored under
\* it, although pages are read piecemeal while others save.  And whichever
\* layouts arrive after whichever removals, a position is that of an activity
\* of the scenario (planning.ts:153, planning.tsx:107).
SavesReplaceWhatWasRead ==
  /\ \A e \in Editors:
       data[e].revision = scenario.revision => data[e].content = scenario.content
  /\ scenario.layout \subseteq scenario.content.activities
=============================================================================
