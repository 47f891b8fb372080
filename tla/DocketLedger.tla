---------------------------- MODULE DocketLedger ----------------------------
(***************************************************************************)
(* Dockets, their allocation to projects, and the cost ledger they post    *)
(* to.  Source: app/api/dockets/route.ts (create, save, delete),           *)
(* app/api/dockets/delete/route.ts (archive), lib/seams/docket-to-cost.ts  *)
(* (posting, reversal, allocation history), the docket side of             *)
(* lib/modules/commercial/claims.ts and project closure in                 *)
(* lib/modules/projects/projects.ts.                                       *)
(*                                                                         *)
(* A handler that decides on a read it made outside its transaction is     *)
(* several steps; a handler whose reads and writes are all made under the  *)
(* row locks of one transaction is one step.  Project row locks are kept   *)
(* explicitly because a save takes them one at a time; a docket row lock   *)
(* is never held across two steps.                                         *)
(***************************************************************************)
EXTENDS Integers, FiniteSetsExt

CONSTANTS
  Dockets,      \* docket ids
  Projects,     \* project ids, ordered as the database orders jobs.id
  Claims,       \* progress claim ids
  Requests,     \* HTTP requests being served at the same time
  Items,        \* docket line items, L1, L2, ...
  Contents,     \* the contents a docket may be saved with
  Uploads,      \* statuses a docket may be uploaded with
  Entitlements, \* values the Projects entitlement may take (TRUE: writable)
  MaxSeq,       \* bound on the moves of one docket (links.allocationSeq)
  None          \* no project, claim, docket or lock holder

ASSUME ProjectsAssumption == Projects \subseteq Nat /\ None \notin Projects
ASSUME ClaimsAssumption == None \notin Claims
ASSUME DocketsAssumption == None \notin Dockets
ASSUME RequestsAssumption == None \notin Requests
ASSUME ItemsAssumption == IsFiniteSet(Items) /\ {"TOTAL", "ADJ"} \cap Items = {}
ASSUME ContentsAssumption == Contents \subseteq [items: [Items -> Int], amount: Int]
ASSUME UploadsAssumption == Uploads \subseteq {"review", "approved", "included_claim", "invoiced"}
ASSUME EntitlementsAssumption == Entitlements \subseteq BOOLEAN /\ TRUE \in Entitlements
ASSUME MaxSeqAssumption == MaxSeq \in Nat

VARIABLES
  stage,        \* jobs.stage: "open" stands for every stage but closed
  status,       \* dockets.status
  job,          \* dockets.links.jobId
  seq,          \* dockets.links.allocationSeq
  content,      \* dockets.line_items and dockets.amount
  ledger,       \* cost_transactions of each docket, by (source_line, seq)
  onClaim,      \* the claim whose line holds exclusive_key docket:<id>
  claimStatus,  \* progress_claims.status
  claimProject, \* progress_claims.project_id
  projectsOn,   \* the Projects entitlement is writable
  pc,           \* what each request is doing
  form,         \* what a request has read before its transaction
  lock,         \* the request holding each project row lock
  overtaken,    \* history: a delete or archive hit the docket after it was posted
  uploaded      \* history: the status a docket was created with; "review" once saved

docketVars == <<status, job, seq, content>>
claimVars == <<onClaim, claimStatus, claimProject>>
requestVars == <<pc, form, lock>>
vars == <<stage, docketVars, ledger, claimVars, projectsOn, requestVars, overtaken, uploaded>>

\* "review" stands for every status before approval: the handlers treat
\* uploaded, processing, review, matched, ready, rejected and duplicate alike.
Statuses == {"unborn", "review", "approved", "included_claim", "invoiced", "archived", "deleted"}
Claimed == {"included_claim", "invoiced"}
Posted == {"approved"} \cup Claimed
OpenClaim == {"draft", "internal_approval"}
ClaimStatuses == OpenClaim \cup {"none", "submitted", "certified", "invoiced", "settled"}

Lines == Items \cup {"TOTAL", "ADJ"}
\* docketCostLines: the priced items; the whole amount when nothing is
\* itemised; and the difference when the docket total disagrees with them.
Itemised(c) == SumFunctionOnSet(c.items, Items)

\* Mutant: the difference between the total and the lines is not posted.
CostAmountNoAdjustment(c, l) ==
  CASE l \in Items -> c.items[l]
    [] l = "TOTAL" -> IF \A i \in Items: c.items[i] = 0 THEN c.amount ELSE 0
    [] l = "ADJ"   -> 0

CostAmount(c, l) ==
  CASE l \in Items -> c.items[l]
    [] l = "TOTAL" -> IF \A i \in Items: c.items[i] = 0 THEN c.amount ELSE 0
    [] l = "ADJ"   -> IF (\E i \in Items: c.items[i] # 0) /\ c.amount # 0
                      THEN c.amount - Itemised(c) ELSE 0

Keys == Lines \X (0..MaxSeq)
RowStatuses == {"none", "actual", "reversed"}
Amounts == {0} \cup {CostAmount(c, l): c \in Contents, l \in Lines}
Row == [project: Projects \cup {None}, amount: Amounts, status: RowStatuses]
NoRow == [project |-> None, amount |-> 0, status |-> "none"]

NoContent == [items |-> [i \in Items |-> 0], amount |-> 0]

Form == [docket: Dockets \cup {None}, status: Statuses, job: Projects \cup {None},
         fresh: BOOLEAN, from: Projects \cup {None}, to: Projects \cup {None}, on: BOOLEAN]
NoForm == [docket |-> None, status |-> "unborn", job |-> None, fresh |-> FALSE,
           from |-> None, to |-> None, on |-> FALSE]

TypeOK ==
  /\ stage \in [Projects -> {"open", "closed"}]
  /\ status \in [Dockets -> Statuses]
  /\ job \in [Dockets -> Projects \cup {None}]
  /\ seq \in [Dockets -> 0..MaxSeq]
  /\ content \in [Dockets -> Contents \cup {NoContent}]
  /\ ledger \in [Dockets -> [Keys -> Row]]
  /\ onClaim \in [Dockets -> Claims \cup {None}]
  /\ claimStatus \in [Claims -> ClaimStatuses]
  /\ claimProject \in [Claims -> Projects \cup {None}]
  /\ projectsOn \in BOOLEAN
  /\ pc \in [Requests -> {"idle", "form", "saving", "deleting", "archiving"}]
  /\ form \in [Requests -> Form]
  /\ \A r \in Requests: pc[r] # "idle" => form[r].docket \in Dockets
  /\ lock \in [Projects -> Requests \cup {None}]
  /\ overtaken \in [Dockets -> BOOLEAN]
  /\ uploaded \in [Dockets -> {"review"} \cup Posted]

Init ==
  /\ stage = [p \in Projects |-> "open"]
  /\ status = [d \in Dockets |-> "unborn"]
  /\ job = [d \in Dockets |-> None]
  /\ seq = [d \in Dockets |-> 0]
  /\ content = [d \in Dockets |-> NoContent]
  /\ ledger = [d \in Dockets |-> [k \in Keys |-> NoRow]]
  /\ onClaim = [d \in Dockets |-> None]
  /\ claimStatus = [c \in Claims |-> "none"]
  /\ claimProject = [c \in Claims |-> None]
  /\ projectsOn = TRUE
  /\ pc = [r \in Requests |-> "idle"]
  /\ form = [r \in Requests |-> NoForm]
  /\ lock = [p \in Projects |-> None]
  /\ overtaken = [d \in Dockets |-> FALSE]
  /\ uploaded = [d \in Dockets |-> "review"]

-----------------------------------------------------------------------------
(* The ledger statements                                                   *)

\* reverseAll: nothing is deleted, rows already reversed are left alone.
Reversed(rows) ==
  [k \in Keys |-> IF rows[k].status = "actual"
                  THEN [rows[k] EXCEPT !.status = "reversed"] ELSE rows[k]]

\* The upserts, keyed (docket, lineKey(line, seq)): insert or overwrite.
Upserted(rows, c, p, n) ==
  [k \in Keys |-> IF k[2] = n /\ CostAmount(c, k[1]) # 0
                  THEN [project |-> p, amount |-> CostAmount(c, k[1]), status |-> "actual"]
                  ELSE rows[k]]

\* Mutant: an approving save posts without reversing what was posted before.
ApprovingWithoutReversal(rows, c, p, n, on) ==
  IF p # None /\ on THEN Upserted(rows, c, p, n) ELSE rows

\* docketCostStatements for an approving save (the caller has refused closed projects).
Approving(rows, c, p, n, on) ==
  IF p = None THEN Reversed(rows)
  ELSE IF on THEN Upserted(Reversed(rows), c, p, n)
  ELSE rows

-----------------------------------------------------------------------------
(* Requests                                                                 *)

Exists(d) == status[d] \notin {"unborn", "deleted"}

\* Every write of updated_at makes the forms opened before it stale.
Outdated(f) == [f EXCEPT !.fresh = FALSE]
Stale(ds) == [r \in Requests |-> IF form[r].docket \in ds THEN Outdated(form[r]) ELSE form[r]]

Finish(r) == pc' = [pc EXCEPT ![r] = "idle"]

CreateDocket(d, p, next, c) ==
  /\ status[d] = "unborn"
  /\ status' = [status EXCEPT ![d] = next]
  /\ job' = [job EXCEPT ![d] = p]
  /\ content' = [content EXCEPT ![d] = c]
  /\ uploaded' = [uploaded EXCEPT ![d] = next]
  /\ UNCHANGED <<stage, seq, ledger, claimVars, projectsOn, requestVars, overtaken>>

\* submitFieldDocket: a record for review on the project of the shift, which
\* must not be closed.
SubmitFieldDocket(d, p, c) == stage[p] # "closed" /\ CreateDocket(d, p, "review", c)

\* POST /api/dockets: the record is stored with the status and the project it
\* carries, approved, claimed and invoiced too (cleanStatus; only PUT refuses the
\* last two); neither the seam nor the stage of the project is consulted.
UploadDocket(d, p, next, c) == next \in Uploads /\ CreateDocket(d, p, next, c)

\* GET /api/dockets?id=: the review form holds the record and its updatedAt.
OpenForm(r, d) ==
  /\ pc[r] = "idle" /\ Exists(d) /\ status[d] # "archived"
  /\ pc' = [pc EXCEPT ![r] = "form"]
  /\ form' = [form EXCEPT ![r] = [NoForm EXCEPT !.docket = d, !.status = status[d],
                                                !.job = job[d], !.fresh = TRUE]]
  /\ UNCHANGED <<stage, docketVars, ledger, claimVars, projectsOn, lock, overtaken, uploaded>>

\* PUT /api/dockets: entitlements are read once per request and the first,
\* unlocked read of the docket only says which project rows to lock.
BeginSave(r, to) ==
  LET d == form[r].docket IN
  /\ pc[r] = "form"
  /\ IF Exists(d)
     THEN /\ pc' = [pc EXCEPT ![r] = "saving"]
          /\ form' = [form EXCEPT ![r] = [@ EXCEPT !.from = job[d], !.to = to, !.on = projectsOn]]
     ELSE Finish(r) /\ form' = [form EXCEPT ![r] = NoForm]
  /\ UNCHANGED <<stage, docketVars, ledger, claimVars, projectsOn, lock, overtaken, uploaded>>

ToLock(r) == {form[r].from, form[r].to} \ {None}

\* Mutant: no ORDER BY id.
LockProjectInAnyOrder(r, p) ==
  /\ pc[r] = "saving"
  /\ p \in ToLock(r) /\ lock[p] = None
  /\ lock' = [lock EXCEPT ![p] = r]
  /\ UNCHANGED <<stage, docketVars, ledger, claimVars, projectsOn, pc, form, overtaken, uploaded>>

\* SELECT ... FROM jobs WHERE id IN (?) ORDER BY id FOR UPDATE, row by row.
LockProject(r, p) ==
  /\ pc[r] = "saving"
  /\ p \in ToLock(r) /\ lock[p] = None
  /\ \A q \in ToLock(r): q < p => lock[q] = r
  /\ lock' = [lock EXCEPT ![p] = r]
  /\ UNCHANGED <<stage, docketVars, ledger, claimVars, projectsOn, pc, form, overtaken, uploaded>>

Locked(r) == pc[r] = "saving" /\ \A p \in ToLock(r): lock[p] = r

Unlock(r) == lock' = [p \in Projects |-> IF lock[p] = r THEN None ELSE lock[p]]

Moved(r) == form[r].from # form[r].to

\* Mutant: a move needs no version of the form.
MayMoveUnversioned(r, d, expected, reason) ==
  Moved(r) =>
    /\ form[r].to # None => stage[form[r].to] # "closed"
    /\ (status[d] = "approved" /\ form[r].from # None) => reason /\ form[r].on

\* The refusals that depend on the project rows and the docket row, all read
\* under the locks.  expected: the body carries the version of the form;
\* reason: an allocation reason of at least 10 characters.
MayMove(r, d, expected, reason) ==
  Moved(r) =>
    /\ expected
    /\ form[r].to # None => stage[form[r].to] # "closed"
    /\ (status[d] = "approved" /\ form[r].from # None) => reason /\ form[r].on

\* Mutant: a move keeps the sequence.
NextSeqKept(r, d) == seq[d]

\* nextAllocationLinks: a move starts a new allocation.
NextSeq(r, d) == IF form[r].from # None /\ Moved(r) THEN seq[d] + 1 ELSE seq[d]

\* Mutant: the seam does not look at the stage of the project it posts to.
SeamAllowsAnyTarget(r, d, next) ==
  (status[d] = "approved" /\ Moved(r) /\ form[r].from # None) => stage[form[r].from] # "closed"

\* Mutant: nor at the stage of the project the cost is moved out of.
SeamAllowsAnySource(r, d, next) ==
  (next = "approved" /\ form[r].to # None /\ form[r].on) => stage[form[r].to] # "closed"

\* The refusals and the statements of docketCostStatements.
SeamAllows(r, d, next) ==
  /\ (status[d] = "approved" /\ Moved(r) /\ form[r].from # None) => stage[form[r].from] # "closed"
  /\ (next = "approved" /\ form[r].to # None /\ form[r].on) => stage[form[r].to] # "closed"

SeamLedger(r, d, next, c) ==
  IF next = "approved" THEN Approving(ledger[d], c, form[r].to, NextSeq(r, d), form[r].on)
  ELSE IF status[d] = "approved" THEN Reversed(ledger[d])
  ELSE ledger[d]

\* The rest of PUT: one transaction under the project locks and the docket lock.
CommitSave(r, next, c, expected, reason) ==
  LET d == form[r].docket IN
  /\ Locked(r)
  /\ Exists(d) /\ status[d] \notin Claimed
  /\ job[d] = form[r].from
  /\ expected => form[r].fresh
  /\ MayMove(r, d, expected, reason)
  /\ SeamAllows(r, d, next)
  /\ NextSeq(r, d) <= MaxSeq
  /\ status' = [status EXCEPT ![d] = next]
  /\ job' = [job EXCEPT ![d] = form[r].to]
  /\ seq' = [seq EXCEPT ![d] = NextSeq(r, d)]
  /\ content' = [content EXCEPT ![d] = c]
  /\ ledger' = [ledger EXCEPT ![d] = SeamLedger(r, d, next, c)]
  /\ form' = [Stale({d}) EXCEPT ![r] = NoForm]
  /\ Unlock(r) /\ Finish(r)
  /\ uploaded' = [uploaded EXCEPT ![d] = "review"]
  /\ UNCHANGED <<stage, claimVars, projectsOn, overtaken>>

\* Any refusal or database error rolls the transaction back; a form may also
\* be closed without saving.
AbandonSave(r) ==
  /\ pc[r] = "form" \/ Locked(r)
  /\ Unlock(r) /\ Finish(r)
  /\ form' = [form EXCEPT ![r] = NoForm]
  /\ UNCHANGED <<stage, docketVars, ledger, claimVars, projectsOn, overtaken, uploaded>>

\* DELETE /api/dockets and POST /api/dockets/delete first read the status ...
CheckRemoval(r, d, kind) ==
  /\ pc[r] = "idle" /\ Exists(d)
  /\ status[d] \notin Posted
  /\ pc' = [pc EXCEPT ![r] = kind]
  /\ form' = [form EXCEPT ![r] = [NoForm EXCEPT !.docket = d]]
  /\ UNCHANGED <<stage, docketVars, ledger, claimVars, projectsOn, lock, overtaken, uploaded>>

Removal(r, kind, to) ==
  LET d == form[r].docket IN
  /\ pc[r] = kind
  /\ status' = IF Exists(d) THEN [status EXCEPT ![d] = to] ELSE status
  /\ overtaken' = [overtaken EXCEPT ![d] = @ \/ status[d] \in Posted]
  /\ form' = [form EXCEPT ![r] = NoForm]
  /\ Finish(r)
  /\ UNCHANGED <<stage, job, seq, content, ledger, claimVars, projectsOn, lock, uploaded>>

\* ... and then write without a condition on it; updated_at is not touched.
PerformDelete(r) == Removal(r, "deleting", "deleted")
PerformArchive(r) == Removal(r, "archiving", "archived")

-----------------------------------------------------------------------------
(* Claims, closure and entitlements, as far as dockets see them             *)

OnClaim(c) == {d \in Dockets: onClaim[d] = c}

\* createClaim: project row lock, then dockets that are still approved, on
\* this project and on no claim line.  A claim may also hold no docket.
CreateClaim(c, p, ds) ==
  /\ lock[p] = None /\ stage[p] # "closed"
  /\ claimStatus[c] = "none"
  /\ \A e \in Claims: claimProject[e] = p => claimStatus[e] \notin OpenClaim
  /\ \A d \in ds: status[d] = "approved" /\ job[d] = p /\ onClaim[d] = None
  /\ claimStatus' = [claimStatus EXCEPT ![c] = "draft"]
  /\ claimProject' = [claimProject EXCEPT ![c] = p]
  /\ onClaim' = [d \in Dockets |-> IF d \in ds THEN c ELSE onClaim[d]]
  /\ status' = [d \in Dockets |-> IF d \in ds THEN "included_claim" ELSE status[d]]
  /\ form' = Stale(ds)
  /\ UNCHANGED <<stage, job, seq, content, ledger, projectsOn, pc, lock, overtaken, uploaded>>

\* Mutant: the claim goes and its dockets stay claimed.
DeleteDraftClaimOnly(c) ==
  /\ claimStatus[c] = "draft"
  /\ claimStatus' = [claimStatus EXCEPT ![c] = "none"]
  /\ claimProject' = [claimProject EXCEPT ![c] = None]
  /\ onClaim' = [d \in Dockets |-> IF onClaim[d] = c THEN None ELSE onClaim[d]]
  /\ UNCHANGED <<stage, docketVars, ledger, projectsOn, requestVars, overtaken, uploaded>>

\* deleteDraftClaim: claim row lock only; its dockets are approved again.
DeleteDraftClaim(c) ==
  LET released == {d \in OnClaim(c): status[d] = "included_claim"} IN
  /\ claimStatus[c] = "draft"
  /\ claimStatus' = [claimStatus EXCEPT ![c] = "none"]
  /\ claimProject' = [claimProject EXCEPT ![c] = None]
  /\ onClaim' = [d \in Dockets |-> IF onClaim[d] = c THEN None ELSE onClaim[d]]
  /\ status' = [d \in Dockets |-> IF d \in released THEN "approved" ELSE status[d]]
  /\ form' = Stale(released)
  /\ UNCHANGED <<stage, job, seq, content, ledger, projectsOn, pc, lock, overtaken, uploaded>>

\* transitionClaim (not in a closed project) and certifyClaim.
AdvanceClaim(c, to) ==
  /\ \/ /\ <<claimStatus[c], to>> \in {<<"draft", "internal_approval">>,
             <<"internal_approval", "draft">>, <<"internal_approval", "submitted">>}
        /\ stage[claimProject[c]] # "closed"
     \/ <<claimStatus[c], to>> = <<"submitted", "certified">>
  /\ claimStatus' = [claimStatus EXCEPT ![c] = to]
  /\ UNCHANGED <<stage, docketVars, ledger, onClaim, claimProject, projectsOn, requestVars, overtaken, uploaded>>

\* createInvoice: every docket row on the claim becomes invoiced, whatever its status.
CreateInvoice(c) ==
  LET invoiced == {d \in OnClaim(c): Exists(d)} IN
  /\ claimStatus[c] = "certified"
  /\ claimStatus' = [claimStatus EXCEPT ![c] = "invoiced"]
  /\ status' = [d \in Dockets |-> IF d \in invoiced THEN "invoiced" ELSE status[d]]
  /\ form' = Stale(invoiced)
  /\ UNCHANGED <<stage, job, seq, content, ledger, onClaim, claimProject, projectsOn, pc, lock, overtaken, uploaded>>

\* invoiceAction: the invoice is paid in full or void, and no longer open.
SettleInvoice(c) ==
  /\ claimStatus[c] = "invoiced"
  /\ claimStatus' = [claimStatus EXCEPT ![c] = "settled"]
  /\ UNCHANGED <<stage, docketVars, ledger, onClaim, claimProject, projectsOn, requestVars, overtaken, uploaded>>

\* transitionProject closeout -> closed: refused while a claim is uncertified
\* or an invoice is open (closeoutStatus), under the project row lock.
CloseProject(p) ==
  /\ lock[p] = None /\ stage[p] = "open"
  /\ \A c \in Claims: claimProject[c] = p =>
       claimStatus[c] \notin OpenClaim \cup {"submitted", "invoiced"}
  /\ stage' = [stage EXCEPT ![p] = "closed"]
  /\ UNCHANGED <<docketVars, ledger, claimVars, projectsOn, requestVars, overtaken, uploaded>>

ReopenProject(p) ==
  /\ lock[p] = None /\ stage[p] = "closed"
  /\ stage' = [stage EXCEPT ![p] = "open"]
  /\ UNCHANGED <<docketVars, ledger, claimVars, projectsOn, requestVars, overtaken, uploaded>>

\* setEntitlement for the Projects module.
SetEntitlement(on) ==
  /\ projectsOn' = on
  /\ UNCHANGED <<stage, docketVars, ledger, claimVars, requestVars, overtaken, uploaded>>

-----------------------------------------------------------------------------
CreateNext ==
  \E d \in Dockets, c \in Contents:
    \/ \E p \in Projects: SubmitFieldDocket(d, p, c)
    \/ \E p \in Projects \cup {None}, next \in Uploads: UploadDocket(d, p, next, c)

SaveNext ==
  \E r \in Requests:
    \/ \E d \in Dockets: OpenForm(r, d)
    \/ \E to \in Projects \cup {None}: BeginSave(r, to)
    \/ \E p \in Projects: LockProject(r, p)
    \/ \E next \in {"review", "approved"}, c \in Contents, expected, reason \in BOOLEAN:
         CommitSave(r, next, c, expected, reason)
    \/ AbandonSave(r)

RemovalNext ==
  \E r \in Requests:
    \/ \E d \in Dockets, kind \in {"deleting", "archiving"}: CheckRemoval(r, d, kind)
    \/ PerformDelete(r)
    \/ PerformArchive(r)

ClaimNext ==
  \E c \in Claims:
    \/ \E p \in Projects, ds \in SUBSET Dockets: CreateClaim(c, p, ds)
    \/ DeleteDraftClaim(c)
    \/ \E to \in {"draft", "internal_approval", "submitted", "certified"}: AdvanceClaim(c, to)
    \/ CreateInvoice(c)
    \/ SettleInvoice(c)

ProjectNext ==
  \/ \E p \in Projects: CloseProject(p) \/ ReopenProject(p)
  \/ \E on \in Entitlements: SetEntitlement(on)

Next ==
  \/ CreateNext
  \/ SaveNext
  \/ RemovalNext
  \/ ClaimNext
  \/ ProjectNext

Spec == Init /\ [][Next]_vars

-----------------------------------------------------------------------------
(* Properties                                                               *)

\* A docket no delete or archive overtook: see ApprovedNotRemoved below.
Clean(d) == ~overtaken[d]

\* One current set of cost: whatever interleaving of saves, claims, deletes
\* and closures, an actual row belongs to a docket that is approved or
\* claimed, to its current allocation, and to the project the docket is on
\* (docket-to-cost.ts: reverseAll before posting; route.ts: the same
\* transaction writes docket and ledger).
ActualRowsMatchAllocation ==
  \A d \in Dockets: Clean(d) => \A k \in Keys:
    ledger[d][k].status = "actual" =>
      /\ status[d] \in Posted
      /\ k[2] = seq[d]
      /\ job[d] # None /\ ledger[d][k].project = job[d]

\* The allocation sequence separates projects: no row is ahead of the
\* docket's sequence, the rows at it are on the docket's project, and all
\* rows of one sequence number share a project (nextAllocationLinks).
AllocationHistory ==
  \A d \in Dockets: \A k \in Keys:
    ledger[d][k].status # "none" =>
      /\ k[2] <= seq[d]
      /\ ledger[d][k].project # None
      /\ k[2] = seq[d] => ledger[d][k].project = job[d]
      /\ \A m \in Keys: m[2] = k[2] /\ ledger[d][m].status # "none" =>
           ledger[d][m].project = ledger[d][k].project

SumActual(d) ==
  SumFunction([k \in Keys |-> IF ledger[d][k].status = "actual" THEN ledger[d][k].amount ELSE 0])

\* While Projects stays enabled the posted cost of an approved or claimed
\* docket is its approved amount, or its itemised lines when it has no
\* amount, after any history of edits, moves and round trips
\* (docket-to-cost.ts 1: "SEAM: Approved docket -> actual project cost";
\* route.ts 349: "Approved or claimed dockets carry posted costs").  Exempt is a
\* docket uploaded as approved or claimed and not saved since: the upload posts
\* nothing.
PostedTotal ==
  \A d \in Dockets:
    (Clean(d) /\ status[d] \in Posted /\ uploaded[d] \notin Posted /\ job[d] # None) =>
      SumActual(d) = IF content[d].amount # 0 THEN content[d].amount ELSE Itemised(content[d])

\* A docket on a claim stays in that claim's project and is locked with it;
\* a docket marked claimed is on a claim or was uploaded so, and then it is on no
\* claim and costs nothing: no save, claim or invoice makes another one, and none
\* ever takes it up (createClaim, deleteDraftClaim and createInvoice against the
\* save and upload handlers).
ClaimHoldsItsDockets ==
  \A d \in Dockets: Clean(d) =>
    /\ onClaim[d] # None =>
         /\ job[d] = claimProject[onClaim[d]]
         /\ status[d] = IF claimStatus[onClaim[d]] \in {"invoiced", "settled"}
                        THEN "invoiced" ELSE "included_claim"
    /\ status[d] \in Claimed /\ onClaim[d] = None => uploaded[d] \in Claimed
    /\ uploaded[d] \in Claimed =>
         /\ status[d] = uploaded[d] /\ onClaim[d] = None
         /\ \A k \in Keys: ledger[d][k].status = "none"

\* Closure and claims exclude each other: a closed project has no claim that
\* is still with the office or the client (closeoutStatus, project()).
ClosedProjectHasNoOpenClaim ==
  \A c \in Claims: claimStatus[c] \in OpenClaim \cup {"submitted"} =>
    stage[claimProject[c]] # "closed"

\* The entries of CostBook are the actual rows: a line is posted once in each
\* allocation.
EntriesOf(rows) ==
  {[project |-> rows[k].project, posting |-> k[2], line |-> k[1], amount |-> rows[k].amount]:
     k \in {m \in Keys: rows[m].status = "actual"}}

Costs == [d \in Dockets |-> EntriesOf(ledger[d])]
ClosedProjects == {p \in Projects: stage[p] = "closed"}
Held == {d \in Dockets: status[d] \in Claimed}
Lost == {d \in Dockets: overtaken[d]}

Book == INSTANCE CostBook WITH
  Bills <- {[l \in Lines |-> CostAmount(c, l)]: c \in Contents}, Postings <- 0..MaxSeq,
  cost <- Costs, closed <- ClosedProjects, held <- Held, lost <- Lost

\* Whatever edits, moves, claims and closures interleave, what a docket costs
\* is one charge of its priced lines to one project, replaced in one step with
\* its approval, never with a closed project on either side and never while it
\* is claimed; and a claimed docket costs the project of its claim, or nothing
\* (docket-to-cost.ts 1, with route.ts, claims.ts and projects.ts).
KeepsBook == Book!Spec

\* r waits for a project row that s has locked.
WaitsFor(r, s) ==
  /\ pc[r] = "saving" /\ r # s
  /\ \E p \in ToLock(r): lock[p] = s /\ \A q \in ToLock(r): q < p => lock[q] = r

\* Saves lock project rows in one order, so two of them never wait for each
\* other (route.ts 247: cannot interleave or deadlock).
NoLockCycle == \A r, s \in Requests: ~(WaitsFor(r, s) /\ WaitsFor(s, r))

\* Posted history is kept: a row never disappears and never changes project,
\* and a row of an earlier allocation, once reversed, never changes again
\* (docket-to-cost.ts 26: reversed, never overwritten or deleted).
PostedHistoryKept ==
  [][\A d \in Dockets: \A k \in Keys:
       LET row == ledger[d][k] IN
       row.status # "none" =>
         /\ ledger'[d][k].status # "none"
         /\ ledger'[d][k].project = row.project
         /\ (k[2] < seq[d] /\ row.status = "reversed") => ledger'[d][k] = row]_vars

\* While a project is closed nothing is posted to it, and an approved docket
\* is not moved out of it (docket-to-cost.ts 75 and 84, under the lock that
\* closure takes).
ClosedProjectKeepsItsCost ==
  [][\A p \in Projects: stage[p] = "closed" =>
       \A d \in Dockets:
         /\ \A k \in Keys: (ledger'[d][k].project = p /\ ledger'[d][k].status = "actual") =>
              ledger'[d][k] = ledger[d][k]
         /\ (status[d] = "approved" /\ job[d] = p) => job'[d] = p]_vars

\* A save that moves a docket was made against its current project and, an
\* archive apart, its current status (expectedUpdatedAt, route.ts 265).
\* Archiving leaves updated_at alone, so a form opened before it is not stale.
StaleFormCannotMove ==
  [][\A r \in Requests: LET d == form[r].docket IN
       (pc[r] = "saving" /\ pc'[r] = "idle" /\ d # None /\ job'[d] # job[d]) =>
         /\ form[r].job = job[d]
         /\ status[d] \in {form[r].status, "archived"}]_vars

\* route.ts 349 and delete/route.ts 22: "Approved or claimed dockets carry
\* posted costs and cannot be deleted" (archived).
ApprovedNotRemoved ==
  [][\A d \in Dockets: status[d] \in Posted => status'[d] \notin {"archived", "deleted"}]_vars
=============================================================================
