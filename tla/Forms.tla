------------------------------- MODULE Forms -------------------------------
(***************************************************************************)
(* One form template with its versions, and what is submitted on it:       *)
(* lib/platform/forms.ts.  Whoever edits a template has its row locked; a  *)
(* submission reads template and version in one snapshot, without a lock,  *)
(* and is inserted after that.                                             *)
(***************************************************************************)
EXTENDS Naturals, FiniteSets

CONSTANTS
  Schemas,          \* what a version may ask
  Valid,            \* those that may be published
  Submissions,      \* form_submissions rows
  MaxFormVersions,  \* bound: versions of the template
  MaxCorrections    \* bound: corrections of a submission

ASSUME SchemasAssumption == Valid \subseteq Schemas
ASSUME FormBoundsAssumption == MaxFormVersions \in Nat \ {0} /\ MaxCorrections \in Nat

VARIABLES
  template,    \* archived or not, current version (0: none)
  formVersions,\* per version number, its status and schema
  filling,     \* per submission, how far it is and which version it is about
  evidence     \* per submission, the version stored with it and its corrections

formVars == <<template, formVersions, filling, evidence>>

Numbers == 1..MaxFormVersions
VersionRows == [status: {"none", "draft", "published", "superseded"}, schema: Schemas]

\* opened: the form is on somebody's screen.  sent: the request has its snapshot.
\* asked: the schema on the screen.
Fillings == [stage: {"blank", "opened", "sent", "submitted"}, version: 0..MaxFormVersions,
             asked: Schemas]

\* Everything is what it should be.
FormTypeOK ==
  /\ template \in [archived: BOOLEAN, current: 0..MaxFormVersions]
  /\ formVersions \in [Numbers -> VersionRows]
  /\ filling \in [Submissions -> Fillings]
  /\ evidence \in [Submissions -> [version: 0..MaxFormVersions, corrections: 0..MaxCorrections]]

\* createTemplate: the first version is a draft.
FormInit ==
  /\ template = [archived |-> FALSE, current |-> 0]
  /\ formVersions \in
       {[n \in Numbers |-> [status |-> IF n = 1 THEN "draft" ELSE "none", schema |-> s]]: s \in Schemas}
  /\ filling \in
       {[x \in Submissions |-> [stage |-> "blank", version |-> 0, asked |-> s]]:
          s \in {formVersions[1].schema}}
  /\ evidence = [x \in Submissions |-> [version |-> 0, corrections |-> 0]]

-----------------------------------------------------------------------------
(* The template                                                             *)

\* A published or superseded version is refused.
Editable(n) == formVersions[n].status = "draft"

\* saveDraft.
SaveFormDraft ==
  /\ ~template.archived
  /\ \E n \in Numbers, s \in Schemas:
       /\ Editable(n)
       /\ formVersions' = [formVersions EXCEPT ![n] = [@ EXCEPT !.schema = s]]
  /\ UNCHANGED <<template, filling, evidence>>

\* publishVersion: the version in force until now is superseded.
PublishVersion ==
  /\ ~template.archived
  /\ \E n \in Numbers:
       /\ formVersions[n].status = "draft"
       /\ formVersions[n].schema \in Valid
       /\ formVersions' = [m \in Numbers |->
            IF m = n THEN [formVersions[m] EXCEPT !.status = "published"]
            ELSE IF m = template.current /\ formVersions[m].status = "published"
            THEN [formVersions[m] EXCEPT !.status = "superseded"] ELSE formVersions[m]]
       /\ template' = [template EXCEPT !.current = n]
  /\ UNCHANGED <<filling, evidence>>

\* startRevision: the open draft, or the next one from the version in force.
StartFormRevision ==
  /\ ~template.archived
  /\ \A n \in Numbers: formVersions[n].status # "draft"
  /\ \E n \in Numbers:
       /\ formVersions[n].status = "none" /\ \A m \in 1..(n - 1): formVersions[m].status # "none"
       /\ formVersions' = [formVersions EXCEPT ![n] =
            [status |-> "draft", schema |-> formVersions[template.current].schema]]
  /\ UNCHANGED <<template, filling, evidence>>

\* setTemplateStatus.
SetTemplateStatus ==
  /\ template' = [template EXCEPT !.archived = ~@]
  /\ UNCHANGED <<formVersions, filling, evidence>>

-----------------------------------------------------------------------------
(* Submissions                                                              *)

\* The form is shown: the version in force.
OpenForm(x) ==
  /\ filling[x].stage = "blank"
  /\ ~template.archived /\ template.current # 0
  /\ filling' = [filling EXCEPT ![x] =
       [stage |-> "opened", version |-> template.current,
        asked |-> formVersions[template.current].schema]]
  /\ UNCHANGED <<template, formVersions, evidence>>

\* Mutant: whatever version was on the screen, the one in force is stored.
InForceAny(x) ==
  /\ ~template.archived
  /\ formVersions[template.current].status = "published"

\* What submitForm's snapshot has to show. The version is compared if the request
\* names one, and the page always sends the one it filled (forms.tsx 70).
InForce(x) ==
  /\ ~template.archived
  /\ filling[x].version = template.current
  /\ formVersions[template.current].status = "published"

BeginSubmit(x) ==
  /\ filling[x].stage = "opened"
  /\ InForce(x)
  /\ filling' = [filling EXCEPT ![x] = [@ EXCEPT !.stage = "sent", !.version = template.current]]
  /\ UNCHANGED <<template, formVersions, evidence>>

\* The insert, whatever became of the template meanwhile.
SubmitForm(x) ==
  /\ filling[x].stage = "sent"
  /\ filling' = [filling EXCEPT ![x] = [@ EXCEPT !.stage = "submitted"]]
  /\ evidence' = [evidence EXCEPT ![x] = [@ EXCEPT !.version = filling[x].version]]
  /\ UNCHANGED <<template, formVersions>>

\* "Reload it and submit against the current version", or any other refusal.
RefuseForm(x) ==
  /\ filling[x].stage \in {"opened", "sent"}
  /\ filling' = [filling EXCEPT ![x] = [@ EXCEPT !.stage = "blank"]]
  /\ UNCHANGED <<template, formVersions, evidence>>

\* amendSubmission: appended under the lock on the submission, and checked
\* against the version stored with it. An archived template does not matter.
AmendSubmission(x) ==
  /\ filling[x].stage = "submitted"
  /\ evidence[x].corrections < MaxCorrections
  /\ evidence' = [evidence EXCEPT ![x] = [@ EXCEPT !.corrections = evidence[x].corrections + 1]]
  /\ UNCHANGED <<template, formVersions, filling>>

FormNext ==
  \/ SaveFormDraft \/ PublishVersion \/ StartFormRevision \/ SetTemplateStatus
  \/ \E x \in Submissions:
       OpenForm(x) \/ BeginSubmit(x) \/ SubmitForm(x) \/ RefuseForm(x) \/ AmendSubmission(x)

FormSpec == FormInit /\ [][FormNext]_formVars

-----------------------------------------------------------------------------
(* Properties                                                               *)

\* Submitted evidence reads as it was given: the version stored with it still
\* asks what the form on the screen asked, was published and is not a draft,
\* whatever is edited, published or archived while the request is under way and
\* at any time after. One version at most is in force, the template's current.
EvidenceReadsAsGiven ==
  /\ \A x \in Submissions: filling[x].stage = "submitted" =>
       /\ formVersions[evidence[x].version].status \in {"published", "superseded"}
       /\ formVersions[evidence[x].version].schema = filling[x].asked
       /\ filling[x].asked \in Valid
  /\ \A n \in Numbers: formVersions[n].status = "published" => n = template.current
=============================================================================
