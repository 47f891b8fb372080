# Verification of the civil pavements operations platform

TLA+ models of the parts of this repository where a mistake costs money or
loses work, with TLC runs on small instances and TLAPS proofs for every value
of the constants. The program is a multi-tenant Next.js application over MySQL:
`app/api/**/route.ts` are the HTTP handlers, `lib/modules/**` the operations
they call, `lib/seams/**` the operations that cross modules,
`lib/platform/**` shared services, `lib/v1/**` logic shared with the browser,
`components/**` the browser. Handlers run concurrently in any number of
processes; they meet only in the database.

## Inventory

| Part | State | Operations | Interacts with | What is hard | What makes it correct |
|---|---|---|---|---|---|
| Dockets and cost ledger (`app/api/dockets`, `lib/seams/docket-to-cost.ts`, `lib/modules/field/today.ts`) | `dockets`, `cost_transactions` | submit, upload, open, save (edit, approve, return, move), delete, archive | projects (row lock, stage), claims (status), entitlements | reads before locks, stale forms, two row locks, long histories of moves | actual rows are the cost of the approved docket on its current project; history is never rewritten |
| Claims, retention, invoices (`lib/modules/commercial/claims.ts`, `lib/platform/finance.ts`) | `progress_claims`, `claim_lines`, `client_invoices` | create, delete, transition, certify, invoice, issue, void, pay | dockets, closure | certification and preparation lock different rows | no line claimed past its value, retention within its cap, claim and invoice agree |
| Projects (`lib/modules/projects`, registers of `lib/v1/register-server.ts`) | `jobs`, `project_variations`, `project_checklist_items`, `project_baselines` | create, award, transition, close, reopen, variations, checklists | everything with a project | registers read the stage without the project's lock | a closed project takes no cost, has no open claim, and nothing left undone or undecided |
| Clients (`lib/platform/clients.ts`) | `clients`, `client_contacts`, `client_id` of opportunities, tenders, jobs | create, edit, contacts, merge, delete, link | everything that names a client | a client is looked up without a lock and may be merged before the save | records name live clients; one primary contact each |
| Idempotent writes (`lib/platform/idempotency.ts`) | `client_requests` | `idempotent(kind, id, run)` | every offline write | races, deadlocks, lost answers, crashes | one record per request id, true answers |
| Offline queue (`lib/v1/offline-sync.ts`, `components/v1/offline.tsx`) | IndexedDB queue, session cookie | capture, sync, retry, discard, recover | idempotent writes | tabs share a queue, whole-item writes from snapshots, lost answers | nothing captured is lost, each item is recorded once for its owner |
| Tenders and award (`lib/modules/pipeline/tenders.ts`, `lib/seams/award-to-project.ts`) | `tenders`, `opportunities`, `estimates` | review, bid decision, approval, submission, clarifications, award, loss | estimates, projects, clients | an award reads without locks while the tender is lost, repriced or awarded | one project at most, from a revision that was approved; an outcome is final |
| Estimates (`lib/modules/estimating`) | `estimates`, `estimate_revisions` | save, submit, approve, reject | tenders | decisions race outside a transaction | one approved revision at most, frozen when submitted |
| Workshop (`lib/modules/workshop`, `lib/seams/form-defects.ts`) | `plant`, `workshop_orders`, meter readings, service events | reading, plan, correction, service, defect, repair, verification | shifts (availability), forms (defects) | a snapshot older than the lock; late evidence | a plant item is on hold while a critical defect is not closed; nothing but work clears an overdue service |
| Planning and resources (`lib/modules/operations`, `app/api/delivery`) | shifts, assignments, resources | save, move, cancel, change availability | dockets, workshop | conflict check and write are apart | nobody is booked twice but in a race of two saves |
| Methodology plans (`lib/v1/planning.ts`, `lib/modules/estimating/planning.ts`, `app/api/planning`, `components/v1/planning.tsx`) | `planning_*` tables, the draft in each editor | add, connect, remove, calculate; load, save, lay out | - | pages are read piecemeal while others save; a save is two requests | the timeline is what the dependencies say; a save replaces what was read |
| SWMS (`lib/modules/hseq/swms.ts`) | `swms`, revisions, acknowledgements | draft, submit, approve, issue, revise, acknowledge | projects, offline queue | acknowledging while a revision is issued | one revision in force, as approved; acknowledged is what was read |
| Corrective actions (`lib/modules/hseq/corrective.ts`, `lib/v1/register-server.ts`) | incidents, NCRs, investigations, actions | investigate, act, review, close, reopen, delete | registers | a source is read without a lock and written later | closed means investigated and independently verified |
| Forms (`lib/platform/forms.ts`) | templates, versions, submissions | draft, publish, revise, archive, submit, amend | workshop, offline queue | a version superseded while it is filled in | submitted evidence reads as it was given |
| Documents (`lib/platform/documents.ts`, `managed-documents.ts`) | documents, revisions, stored objects | create, revise, archive | storage | storage is outside the transaction, a commit may be ambiguous | every revision can be opened, the newest is current |
| Tenancy and invitations (`app/api/team`, `app/api/invitations`, `provision.ts`) | `users`, invitations | sign up, invite, accept, change role, deactivate | everything (permissions) | two administrators act at once | an organisation keeps an administrator |
| Entitlements and billing (`lib/platform/billing.ts`, `entitlements.ts`) | subscriptions, entitlements with their ends, events | webhook, switch, the date | dockets (Projects) | repeated and reordered events, two subscriptions, ends left behind | modules follow the subscription heard of last |
| Migrations (`scripts/migrate.mjs`) | journal, schema | run at every deployment and start | database | death between a statement and its journal entry | steps run once, in order |
| Maintenance fence (`maintenance*.ts`), projects' programme and work areas | as named | - | everything | - | not modelled yet |
| CRM import, reports, home, search, AI drafting, parsers, UI | records, none | single-record edits, reads | - | little across steps | not modelled |

`PROJECT.json` lists the same parts with their sources, and the hazards with
the line where each bites.

## Modules

| Module | Models | Proofs |
|---|---|---|
| `CostBook` | what a docket costs which project, free of rows, locks and forms | - |
| `DocketLedger` (`MCDocketLedger`) | dockets, allocation, posting, the docket side of claims, closure and entitlement | `DocketLedgerProofs` (refinement of `CostBook`) |
| `Claims` (`MCClaims`) | one project's claims, retention and invoices | `ClaimsProofs` |
| `ExactlyOnce` | what an idempotent write promises | - |
| `Idempotency` (`MCIdempotency`) | how it is kept: lookup under a gap lock, run, insert, commit, catch, retry | `IdempotencyProofs` (refinement of `ExactlyOnce`) |
| `OfflineQueue` (`MCOfflineQueue`) | queue, tabs, sync loops, session, network | `OfflineQueueProofs` |
| `EstimateApproval` | one estimate: review, decisions and the editor's save, as reads followed by a batch | in `EstimatingProofs` |
| `TenderAward` (`MCTenderAward`) | the tender, its opportunity and clarifications, submission, award and project, over `EstimateApproval` | `EstimatingProofs` |
| `Workshop` (`MCSite`) | defects, repairs, verification and the safety hold of a plant item | `SiteProofs` |
| `ServicePlan` (`MCSite`) | its meter readings, services and service plan | `SiteProofs` |
| `Shifts` (`MCSite`) | shifts, the conflict engine and the batch that does not look again | `SiteProofs` |
| `Swms` (`MCSite`) | one method statement, its revisions and acknowledgements | `SiteProofs` |
| `CorrectiveChain` (`MCOffice`) | an incident or NCR, its investigation and actions, to its closure | `OfficeProofs` |
| `Membership` (`MCOffice`) | members, roles, invitations under the organisation locks | `OfficeProofs` |
| `Billing` (`MCOffice`) | the events of an organisation's subscriptions, the modules they set and until when | `OfficeProofs` |
| `Migration` (`MCOffice`) | migration processes, journal, lock and crashes | `OfficeProofs` |
| `Documents` (`MCOffice`) | uploads, revisions and supersession, with storage apart | `OfficeProofs` |
| `Forms` (`MCOffice`) | a template's versions and what is submitted on them | `OfficeProofs` |
| `ProjectControl` (`MCOffice`) | one project's stages, its variations and checklists, to its closure | `OfficeProofs` |
| `Clients` (`MCOffice`) | clients, contacts, merges and the records that name them | `OfficeProofs` |
| `PlanNetwork` (`MCOffice`) | the activities and dependencies of a plan, the search for loops, the order and the timeline, against chains | `EstimatingProofs` |
| `PlanScenario` (`MCOffice`) | one scenario of a plan: piecemeal reads, saves against a revision, layouts without one | `OfficeProofs` |
| `SumTheorems` | sums of integers over finite sets: what the community modules' fold does | itself, for `ClaimsProofs`, `DocketLedgerProofs` and `EstimatingProofs` |

`MCSite` and `MCOffice` put modules side by side that share no rows: the
variable `part` says which one a behaviour follows, so that one run checks each
on its own instance. `Workshop` is also checked alone, in `safety_hold`.

How code becomes actions. MySQL runs at REPEATABLE READ. A handler whose reads
and writes are all in one transaction and under the row locks it needs is one
action. A handler that decides on something it read outside its transaction, or
under a lock that does not protect it, is several: `BeginSave`, `LockProject`
(once per project, in id order) and `CommitSave` for a docket PUT;
`CheckRemoval` and `PerformDelete` for a DELETE; `BeginCreate`/`CommitCreate`
and `BeginCertify`/`CommitCertify` for claims, which lock different rows and so
overlap; `ReadFor...` and the batch for estimates and awards, which lock nothing
while they read (`database.batch` is one transaction of writes); `CheckSave`
and `CommitShift` for a shift; `BeginVerify` and `AcceptRepair` for a repair,
which takes its snapshot before its lock; `BeginClose` and `CloseSource`,
`BeginAct` and `CreateActionFromSource`, `BeginAck` and `CommitAck`,
`BeginSubmit` and `SubmitForm`, `BeginWrite` and `WriteVariation` or `WriteItem`,
`BeginPick` and `CommitPick` where a row is read without a lock and a write
follows; `BeginProjectMove` and `EndProjectMove`, `BeginMerge` and `EndMerge` where
a snapshot is read under locks that do not cover all of it; `BeginDelivery` and `ApplyEvent` where modules are read in an early
snapshot; `PutObject` and `CommitRevision` where storage is outside the
transaction; `ReadPart` for each query of a page that has no transaction; `Intend`, `Execute`, `Complete` where each statement commits by
itself; `Lookup`, `Run`, `Insert`, `Commit` for `idempotent`. Any error inside
a transaction is a rollback (`AbandonSave`, `AbortCreate`, `AbortCertify`,
`Crash`). In the browser every IndexedDB transaction is a step, and everything
between two of them may interleave with other tabs.

What is abstracted. "review" stands for every docket status before approval
and "open" for every project stage but closed, which the modelled code never
tells apart. Amounts are small integers in place of cents (the half-cent
tolerances of `claimLine`, `retention` and `invoiceAction` are equality on
integers). Permissions, audit records and texts are left out. Times are order:
a docket's `updated_at` is the flag "this form is still current"; backoff is
"may or may not be due yet". The item a queue holds is its status; its attempt
count and message are never decided on.

Plant statuses, a statement's content, a form's schema and a register's texts
are as few values as the code tells apart (complete or not, valid or not).
"Ready" stands for In Progress, "Cancelled" for every status the conflict
engine ignores. An acknowledgement that names no revision, which the route
would take but the page never sends, is left out of `Swms`.

Variables whose name is not in the code are history variables. `overtaken` in
`DocketLedger` is set when a delete or archive hits an approved docket, `late`
in `Claims` when a claim is certified after a later one was prepared, `overtaken`
in `Workshop` when a verification decided on a stale snapshot, `raced` in
`Shifts` when a save decided before another's write, `late` and `lateFacts` in
`CorrectiveChain` when an action or the investigation came too late for a
closure, `outrun` and `byHand` in `Billing` when modules were read too early or
set by an administrator, `uploaded` in `DocketLedger` the status a docket was uploaded with
until it is saved, `unsure` in `Documents` when a commit was reported as
failed. Each marks exactly one window of the code, so that the invariants that
exempt it say precisely what still holds. `shown` and `approved` in `Swms`
record what was read and what was approved; `heard` in `Billing` is the subscription heard of last; `foreign` in `Migration` is what the
database had before; `unseen` in `ProjectControl` are the records written too late for
a closure; `stray` and `muddled` in `Clients` the records and clients that an
overlapping merge or deletion left so.

## Runs

| Run | Instance | Question |
|---|---|---|
| `docket_saves` | Two requests race on one docket of two projects; the entitlement and the projects change under them. | Two saves, deletes or archives of one docket at once, over two projects that close and reopen and an entitlement that comes and goes: posted rows belong to the current allocation, a closed project keeps its cost, a stale form cannot move a docket, and lock order prevents deadlock. Checks `ActualRowsMatchAllocation`, `NoLockCycle`, `StaleFormCannotMove`, `ClosedProjectKeepsItsCost`. |
| `docket_books` | One docket edited between an itemised and a total-only content, moved A, B, A, claimed and closed. | A docket uploaded in any status, edited between itemised and total-only contents, moved A to B and back, claimed, billed, removed and closed over: its posted cost is its approved amount, its history is kept, claim and docket agree, and the ledger implements the cost book. Checks `PostedTotal`, `ClaimHoldsItsDockets`, `PostedHistoryKept`, `KeepsBook`. |
| `docket_removed` (violation) | A delete or an archive races an approval. | A delete or archive that checked the status before an approval committed removes the approved docket. Checks `ApprovedNotRemoved`. |
| `claims` | Three claims on a contract and a variation, with releases, any certification, billing, payments and closure. | Three claims prepared, deleted, certified at any amount and in any order, billed, voided, part-paid and paid while the project closes and reopens: lines stay within their value, retention and releases hold while claims are certified in order, claim and invoice agree, and a closed project has none open. Checks `ClaimedWithinValue`, `RetentionSoundInOrder`, `SubmittedCanBeCertified`, `InvoiceAgreesWithClaim`, `ClosedProjectHasNoOpenClaim`. |
| `claim_overclaimed` (violation) | One request names the contract twice. | One request with two lines on the contract claims it past its value. Checks `ClaimedWithinValue`. |
| `requests` | Every race of four deliveries of one request id, under weak fairness of each delivery. | Four deliveries of one request id (one of them with other content), racing, deadlocking, crashing and retried: the transaction protocol implements the exactly-once specification, and under weak fairness every delivery ends. Checks `Implements`, `AllAnswered`. |
| `offline_two_tabs` | One item, two tabs of one browser, the session may end. | One item, two tabs, changing users, lost and late answers: a captured item is in the queue, on the server or discarded. Checks `NotDroppedSilently`. |
| `offline_settles` | Two items, one tab; the server never answers the older item. | Two items in one tab under the browser's timer, closed and opened again: an item whose requests are answered leaves the queue or is shown, whatever its neighbours do, and a refused item is not sent again on its own. Checks `Settles`, `ConflictWaitsForUser`. |
| `office` | Two corrective actions and two users; three people and two invitations; five events of two subscriptions, two deliveries and two days; five steps in two files and two processes; three uploads; three versions and two submissions; one variation, two checklist items and two requests; two clients, two contacts and a record; four activities; one activity, three revisions and two editors. | What the office and the system keep, under requests that overlap, repeat and die: a closed incident or NCR rests on independently verified actions; an organisation keeps an administrator; modules follow the subscription heard of last, but for the end of a trial that stays with them; migrations run once and in order; document revisions stay readable; submitted forms read as they were given; a closed project has its variations decided and its closeout done; records name clients that are there, each with one primary contact; a plan is timed by its longest chain, and a save of it replaces what its editor read. Checks `ClosedOnEvidence`, `AlwaysAnAdmin`, `AccessFollowsSubscription`, `AppliedOnceInOrder`, `RevisionsReadable`, `EvidenceReadsAsGiven`, `ClosedProjectIsFinished`, `RecordsNameLiveClients`, `OnePrimaryContact`, `TimelineIsLongestChain`, `SavesReplaceWhatWasRead`. |
| `site` | Two work orders and two mechanics; meters, days and histories up to 3; two shifts and two planners, one across midnight; three revisions and two workers. | What a crew works by, under requests that overlap: a plant item is on hold exactly while a critical defect is not closed and repairs are verified by others; its service plan and evidence keep their order; nobody is booked twice but in a race of two saves; one revision of a method statement is in force, as approved, and is what was acknowledged. Checks `HoldIsCriticalDefects`, `ClosedIndependently`, `EvidenceInOrder`, `BookedTwiceOnlyInRace`, `OneInForceAsApproved`, `AcknowledgedWhatWasRead`, `OverdueNeedsWork`. |
| `safety_hold` (violation) | Two work orders of one plant item and two mechanics. | A verification that took its snapshot before another critical defect was raised clears the hold that defect put on the plant item. Checks `CriticalDefectHolds`. |
| `award` | One tender and its estimate, two requests in flight, two revisions. | A tender from intake to its outcome over an estimate that is edited, reviewed and approved twice, with clarifications, losses and awards racing, with and without Projects: one project at most, from a revision that was approved; an outcome is final. Checks `AtMostOneApproved`, `BaselineIsApprovedRevision`, `AwardIsOne`, `OutcomeIsFinal`. |

Bounds. `MaxSeq = 2` in `docket_books` allows the two moves that take a docket to
another project and back (`docket_saves` allows one): the third allocation can only collide with the first two as the second
does with the first. Two requests are every pair of operations that can
interleave; a third adds no new pair, and the proofs cover any number. Two line
items and a total give every case of `docketCostLines`. Three claims are a
claim with an earlier and a later one; four deliveries of one id, one of them with
other content, are a race, a retry, a reuse and a bystander. One item in two tabs, or two in one, and
two opens, sign-ins and retries are each the smallest that show a loop reading
before and writing after another's step. Two revisions
are one and its successor, two requests every race of two handlers, and two clock
readings a price change before or after an approval; two contents tell the
working copy from what was frozen. Two work orders are the one verified and the other
that must keep the hold; two mechanics a repairer and a verifier who swap. Two
shifts and one truck are a clash, and the windows include one across midnight
and two that only touch; two planners are a race. Three revisions are one in
force, one replaced behind it and its successor. Two actions are one seen by a
closure and one that comes too late. Three people are two administrators and
somebody who moves between organisations. Five billing events, of two subscriptions, are a trial, its
payment, its failure and its cancellation beside another plan's, and two days the one of a trial's end and the next; a third delivery is none but a repeat. Two files of three and two steps
have every kind of step first, last and between; two processes are one that
died and its successor, or two that compete. Three uploads are a revision, the one it
replaces, and one that is stale. Three form versions are one in force, its
predecessor and a draft. A
variation, a readiness and a closeout item are each kind of record that holds a
stage up, and two requests one that a closure sees and one that it does not. Two
clients are the kept and the merged one (three in a chain take the same two steps),
two contacts two primaries. Four activities
have every network with a diamond, a chain of four and a loop through all; an activity
that comes and goes, two texts and three revisions are a page torn between two saves and
a layout that arrives after a removal. `CHECK_DEADLOCK FALSE` is said where
the office may simply stop working or the counters may run out.

Fairness. `requests` assumes weak fairness of each delivery's own
steps: a request that can proceed does, because Node and MySQL run it; no
fairness of deadlocks and crashes. `offline_settles` assumes that the 30 s
timer of `OfflineProvider` fires, that `fetch` settles (it aborts after 20 s),
that a closed page is opened again while opens are left, and strong fairness
of an item's being due or not (backoff is capped at five minutes) and of a
successful answer for items in `Reachable`. It is claimed of `Reachable` items
only: others may fail for ever, which is the point of the property.

## Disagreements found

Each of these is a `violation` run whose counterexample is the shortest there is;
the lines quoted are in `PROJECT.json`.

- `docket_removed` (`ApprovedNotRemoved`, `src/app/api/dockets/route.ts:349`): DELETE reads the status outside any transaction and then deletes without a condition on it (route.ts:351; the archive does the same, delete/route.ts:24), so an approval or a claim committed between the two is removed or archived with its cost posted. The code says, route.ts:349: "Approved or claimed dockets carry posted costs and cannot be deleted", and delete/route.ts:22 says the same of archiving.
- `claim_overclaimed` (`ClaimedWithinValue`, `src/lib/modules/commercial/claims.ts:86`): createClaim checks every line against what was claimed before the request (previousClaimed, read once by claimable), and nothing adds up the lines of one request: two lines on the contract, each within the remaining value, are both inserted (exclusive_key is null for them). claims.ts:3 says "contract and variation lines are claimed progressively and can never exceed their value".
- `safety_hold` (`CriticalDefectHolds`, `src/lib/modules/workshop/workshop.ts:130`): hasSafetyHold is a plain SELECT (workshop.ts:228), and at REPEATABLE READ it reads the snapshot the transaction's first SELECT fixed (workshop.ts:109), before the plant row was locked (workshop.ts:112). A critical defect raised in between is not in it: the verification sets safety_hold=0 and the item Available while that defect is open. workshop.ts:129 says "A resolved defect never clears another outstanding critical defect.", and workshop.ts:111 that locking the asset first "serialises all repairs/defects and resource edits".

Others the models reach without a run of their own:

- `Claims!RetentionWithinCap`: a claim certified up after a later one was
  prepared takes retention past the cap (`claims.ts:144`, against
  `finance.ts:38`). `RetentionSoundInOrder` says what holds.
- `OfflineQueue!RecordedForOwner`: a tab opened by one user sends that user's
  items under the session of another who signed in since (`offline.tsx:56`,
  against `offline-sync.ts:9`).
- `OfflineQueue!ConflictWaitsForUser`: with two tabs, a loop that took its snapshot
  before the other tab's refusal sends the refused item once more, unasked
  (`offline-sync.ts:52`, where the loop lists the queue once, against `offline-sync.ts:6`). With one tab it holds.
- `EstimateApproval!ApprovedHasRevision`: of two decisions on a revision the
  refused one still marks the estimate approved (`approval.ts:76`).
- `Billing`: events carry no order, so an update delivered after the
  cancellation it preceded makes the subscription active again
  (`billing.ts:92`). Every event sets all modules, so the cancellation of one
  subscription makes read-only what another pays for (`billing.ts:95`). A module that
  is active already is not written (`billing.ts:51`): it keeps the end of the trial it
  was written with, and is read-only after it although the subscription is paid
  (`entitlements.ts:33`), and one that was active before a trial began has no end at all.
- `DocketLedger`: a docket may be uploaded in any status (`dockets-db.ts:51`,
  `dockets/route.ts:119`). Uploaded as approved it has no cost posted until it is saved;
  uploaded as claimed it is on no claim and locked for good, although `route.ts:258` says
  that the claims workflow marks dockets claimed (only the PUT refuses it).
- `Documents`: a commit that succeeded and was reported as failed has its object
  deleted (`managed-documents.ts:151`), although `documents.ts:91` says a committed
  one never is. `RevisionsReadable` exempts it by `unsure`.
- `Clients`: `updateContact` leaves an archived contact primary (`clients.ts:323`), which
  a merge does not count (`clients.ts:353`): reactivated, it is a second primary contact,
  although `clients.ts:361` says there is one. An edit that looked its client up before
  a merge commits a record on the merged client.
- `ProjectControl`: a variation raised by a request that read the stage before a
  closure committed stays undecided in the closed project.
- `PlanScenario`: when the answer of a save is lost the editor says "Nothing was saved"
  (`planning.tsx:135`), and its retry, on the old revision, is refused as "changed
  elsewhere" (`planning.tsx:130`) although the change was its own: saves of a plan have no
  request id. A layout names activities another editor has removed, which
  `planning.tsx:107` says are never sent; the server refuses it (`planning.ts:163`).
- `CorrectiveChain`: a reported incident or an open NCR can be deleted with
  actions linked to it, which nobody can then review (`register-server.ts:296`).

## Proofs

TLAPS proves, for every value of the constants under the assumptions named in
each module:

- `DocketLedgerProofs!TypeCorrect`: Every variable keeps its type, for any dockets, projects, claims, requests and contents.
- `DocketLedgerProofs!HistorySeparated`: Sequence numbers separate the allocations of a docket in the ledger.
- `DocketLedgerProofs!HistoryKept` (`PostedHistoryKept`): Posted rows never disappear or change project, and earlier allocations never change once reversed.
- `DocketLedgerProofs!ClosedKeepsCost` (`ClosedProjectKeepsItsCost`): Nothing is posted to a closed project and no approved docket leaves it.
- `DocketLedgerProofs!LedgerMatchesAllocation` (`ActualRowsMatchAllocation`): Actual rows belong to a posted docket, its current allocation and its current project, under any interleaving of requests.
- `DocketLedgerProofs!NoDeadlock` (`NoLockCycle`): Two saves never wait for each other's project rows.
- `DocketLedgerProofs!ClaimedDocketsHeld` (`ClaimHoldsItsDockets`): A docket on a claim stays in the claim's project and has the status the claim gives it; one marked claimed is on a claim, or was uploaded so, and then stays so for ever, on no claim and with nothing posted.
- `DocketLedgerProofs!ClosedMeansSettled`: A closed project has no unsent or uncertified claim.
- `DocketLedgerProofs!StaleFormsRefused` (`StaleFormCannotMove`): A save moves a docket only from the project, and (an archive apart) the status, its form was opened with.
- `DocketLedgerProofs!TotalIsPosted` (`PostedTotal`): With Projects on, the actual rows of a posted docket that was saved since it was uploaded come to its amount, for any items, edits and moves.
- `DocketLedgerProofs!BookIsKept` (`KeepsBook`): The ledger, under all its requests, claims and closures, implements CostBook: a docket costs one project at most, each priced line once, changed in one step, never with a closed project on either side, never while claimed.
- `IdempotencyProofs!TypeCorrect`: Every variable keeps its type, with at most MaxAttempts attempts.
- `IdempotencyProofs!OneRecord`: However often it is delivered, an id has one record, and the kept response is that record's.
- `IdempotencyProofs!SuccessesAreReal`: A reported success names a record made for that id, user and content.
- `IdempotencyProofs!ConflictsAreTrue`: A conflict is reported only while nothing is stored for the id or something else is.
- `IdempotencyProofs!KeepsPromise` (`Implements`): The transaction protocol refines the exactly-once specification.
- `OfflineQueueProofs!TypeCorrect`: Every variable of the queue keeps its type, for any tabs, users and items.
- `OfflineQueueProofs!NothingDropped` (`NotDroppedSilently`): A captured item is in the queue, on the server or discarded, for any number of tabs and users.
- `OfflineQueueProofs!RefusedWaits` (`ConflictWaitsForUser`): With one tab open, an item the server refused is not sent again until its user asks for it.
- `ClaimsProofs!UnsentIsLast`: The claim that has not gone to the client is the only one and the last one, and claim numbers have no holes, for any number of claims.
- `ClaimsProofs!ClosedMeansNoOpenClaim` (`ClosedProjectHasNoOpenClaim`): A closed project has no claim being prepared, unsent or uncertified.
- `ClaimsProofs!HistoryKept`: What a claim said when it went out, and what was certified, is never rewritten, whichever preparations, certifications and deletions overlap.
- `ClaimsProofs!ClaimsTypeCorrect`: Every claim, invoice and transaction under way keeps its type: amounts are integers, and retention and releases are never negative.
- `ClaimsProofs!InvoicesAgree` (`InvoiceAgreesWithClaim`): A claim is billed exactly when it has an invoice, for its certified net, and paid exactly when the invoice is paid in full.
- `ClaimsProofs!WithinValue` (`ClaimedWithinValue`): Unless a request names a source twice, what is claimed of a source never leaves its value, for any number of claims, sources and lines.
- `ClaimsProofs!ToDateAgrees`: Unless a request names a source twice, the claimed-to-date stored on a line is the sum of the claims up to its own.
- `ClaimsProofs!RetentionSound` (`RetentionSoundInOrder`): Until a claim is certified after a later one was prepared, retention held stays within the cap and releases are covered.
- `ClaimsProofs!CanBeCertified` (`SubmittedCanBeCertified`): In that order the release check of a certification strands no submitted claim.
- `OfficeProofs!MembershipTypeCorrect`: Every variable of the memberships keeps its type, for any people and number of invitations.
- `OfficeProofs!AdminRemains` (`AlwaysAnAdmin`): An organisation with people in it has an active administrator, whatever changes and acceptances overlap.
- `OfficeProofs!MigrationTypeCorrect`: Every variable of the migrations keeps its type, for any scripts and processes.
- `OfficeProofs!MigrationsApplyOnce` (`AppliedOnceInOrder`): Whoever starts and dies, a step that may not be repeated runs at most once, in order, and never over a foreign object.
- `OfficeProofs!AccessIsTheSubscriptions` (`AccessFollowsSubscription`): For any subscriptions, events and dates, what an organisation may use is what the subscription heard of last gives it, and less only where the past end of a trial is still with the module, unless that event was outrun or an administrator switched the module.
- `OfficeProofs!ClosureRestsOnEvidence` (`ClosedOnEvidence`): A closed incident or NCR rests on actions each verified by somebody who did not complete it and on a finished investigation, but for what came too late for the closure.
- `OfficeProofs!RevisionsStayReadable` (`RevisionsReadable`): Every committed revision of a document has its object in storage, unless its commit was reported as failed, and the newest is the current one.
- `OfficeProofs!EvidenceStaysReadable` (`EvidenceReadsAsGiven`): A submitted form is kept with the version and the schema it was filled in on, whatever is published, revised or archived around it.
- `OfficeProofs!ClosureIsFinal` (`ClosedProjectIsFinished`): A closed project has nothing left to decide or to finish, but for records written by requests the closure could not see.
- `OfficeProofs!RecordsStayNamed` (`RecordsNameLiveClients`): A record names a client that is there, for any chain of merges, unless it overlapped a merge or a deletion.
- `OfficeProofs!OnePrimaryAtMost` (`OnePrimaryContact`): A client has at most one primary contact, unless a merge met an archived one.
- `OfficeProofs!SavesReplaceTheRead` (`SavesReplaceWhatWasRead`): A save of a plan replaces exactly what its editor had read, whatever other editors saved and laid out in between.
- `EstimatingProofs!NetworkTypeCorrect`: Activities have days that may be entered and dependencies join activities there are, for plans of any size.
- `EstimatingProofs!TimelineHolds` (`TimelineIsLongestChain`): Whatever is edited, in a plan of any size, every activity is in the order and finishes at the end of its longest chain, and a dependency is refused exactly when it would close a loop.
- `EstimatingProofs!FindLoopRight`: On a network of any shape the search reports a loop that is one when there is any, and nothing otherwise.
- `EstimatingProofs!FinishesLongest`: On any network without loops what is calculated for an activity is the length of the longest chain to it, or unknown with anything on one of them.
- `SiteProofs!WorkshopTypeCorrect`: Every variable of the workshop keeps its type, for any orders and mechanics.
- `SiteProofs!HoldMatchesDefects` (`HoldIsCriticalDefects`): Unless a verification decided on a stale snapshot, the plant item is on hold exactly while a critical defect is not closed.
- `SiteProofs!RepairsVerifiedByOthers` (`ClosedIndependently`): A closed order was verified by somebody who did not make its repair.
- `SiteProofs!EvidenceNeverRunsBack` (`EvidenceInOrder`): The evidence of a plant item never runs backwards, in days or in hours, through readings, corrections and services recorded late.
- `SiteProofs!OnlyWorkClearsOverdue` (`OverdueNeedsWork`): An overdue service plan is cleared by a service or by a change of plan, never by a reading or a correction alone.
- `SiteProofs!DoubleBookingIsARace` (`BookedTwiceOnlyInRace`): A resource has two clashing shifts only if one was saved on what it read before the other was written, for any windows, shifts and planners.
- `SiteProofs!OneSwmsInForce` (`OneInForceAsApproved`): At most one revision of a method statement is in force, and it says what its approver approved.
- `SiteProofs!AcknowledgementsAreRead` (`AcknowledgedWhatWasRead`): A worker acknowledged only what was on the screen, whatever was revised or issued meanwhile.
- `EstimatingProofs!TypeCorrect`: Every variable keeps its type, for any users, contents, revisions and clock readings.
- `EstimatingProofs!OneApproved` (`AtMostOneApproved`): Whatever requests race, an estimate has at most one approved revision.
- `EstimatingProofs!DecisionsAreFinal`: A revision is decided once, and what it froze is never rewritten.
- `EstimatingProofs!BaselinesAreApproved` (`BaselineIsApprovedRevision`): A project's baseline is a revision that was approved, with exactly what that revision froze.
- `EstimatingProofs!OneAward` (`AwardIsOne`): At most one project comes out of a tender; an awarded tender names it, its revision, and a won opportunity.
- `EstimatingProofs!SubmissionsAreApproved`: A tender submitted without an override has its internal approval and an approved revision.
- `EstimatingProofs!OutcomesAreFinal` (`OutcomeIsFinal`): A tender that was awarded or lost never changes again.

`DocketLedgerProofs`. `TypeOK` is inductive. The rows of one sequence number
share a project because `NextSeq` moves with the job: `AllocationHistory` is
inductive with `TypeOK` and with the fact that a docket never created has no rows.
So is `ActualRowsMatchAllocation`: a save decides on the project it read before
locking, but commits only if the docket is still there, and then all actual rows are
those it wrote, or it moves nothing (`SavedActual`). `ClaimHoldsItsDockets` needs that a claim that
exists has a project and that a claim's project is open while it is unsent; of a docket
uploaded as claimed it says that nothing ever changes it (`HistoryInvariant`).
`NoLockCycle` follows from the order in which locks are taken and needs only
that a request holds locks it asked for. `StaleFormCannotMove` needs that a
fresh form agrees with the docket, an archive apart.

`PostedTotal` is proved of the design that posts at all: `Steady` says that Projects
is never switched off, which posts nothing by intent. A docket uploaded as approved or
claimed has nothing posted until it is saved (`app/api/dockets/route.ts:147`); the
property leaves it out by `uploaded`, until then.
Its invariant is `Accounted`: the actual rows of a clean posted docket are exactly
the non-zero cost lines of its content, at its current sequence number, whatever
the reversed rows of earlier ones say. `LinesComeToTotal` is the arithmetic of
`docketCostLines`, and a sum over all keys is one over the lines because all other
rows count nothing (`SumOfSome`, `SumOverPairs`).

`BookIsKept` is the refinement of `CostBook`, step by step: the entries of a docket
are its actual rows. Reversing leaves none and the upserts then post the bill of the
content in one project (`ReversedCostsNothing`, `UpsertedCosts`), so a commit is
`Charge`, `Retract` or nothing. That a charge never takes cost out of a closed
project needs the two invariants above: what is charged is charged where the docket
is (`CostsWhereItIs`), and the seam looks at that project. A claim is `Hold` because
it takes dockets of its project only, an invoice because its dockets stayed there. An
upload as claimed is `HoldUncharged`: it costs nothing.
The dockets a removal overtook are `lost` in the abstract state too, which says that
nothing else is exempt. A docket that only stops being approved may take its cost out
of a closed project, by `Retract`, as the seam allows (`docket-to-cost.ts:73` looks
at moves).

`SumTheorems`. The models add up with the fold of `FiniteSetsExt`. The library's
induction theorems take an operator and cannot be used here, but a minimum of a
well-founded relation can (`WFMin`), so induction is said of sets: a set of numbers
with 0 that is closed under successor is `Nat`, and a set of subsets of a finite set
that contains each one all of whose one-smaller subsets it contains has them all
(`NatSetInduction`, `SubsetInduction`). The recursive function the fold is
defined by is shown to exist and be unique; from it: a sum is an integer,
can take any element first, splits over parts, ignores zeros, depends on its
terms only, and, over the claims before one, grows by that one (`SumBelowNext`).

`ClaimsProofs`. The invariant comes in layers, each proved with those below it.
`IInv` says nothing of amounts: `Shape` is the part of `TypeOK` without them, and
`UnsentClaimIsLast` is inductive with it and with `CertifiesSubmitted`: the claim
row a certification holds stays submitted, so a certification can only move a
claim on. A new claim takes the number after the largest (`NextNumberIsNext`), which
is why a preparation that waited behind certifications still overwrites nothing
(`SentHistoryKept`, which no run repeats). `Typed` is `TypeOK` with numbers that are
not claims blank. `Within` says that the claims up to any of them stay in a
source's value and that a preparation's lines were checked against sums that
still hold (no other preparation runs, and certifying touches no line); `ToDate`
adds what each line stored. Both need `NoDoubles`, that no request names a source
twice: without it `claim_overclaimed` shows the value exceeded. `Ordered` is about
retention until `late`: what is held before each claim is within the cap, each claim
fits (`Fits`: its release is covered, what it withholds or was certified to withhold
has room), and whoever prepares or certifies has read sums that still hold. A claim
is prepared, or certified before `late`, with no claim behind it, and then what is
held stays within the cap (`LastRetains`); certified in the other order, which sets
`late`, it is really exceeded (above).

`IdempotencyProofs`. The invariant says what each program counter knows: after
`Insert` a delivery's record is its own and uncommitted, and nobody else of its
id is at that step; from it the refinement is step by step: `Commit` is
`Perform`, telling a stored answer is `Replay` or `Refuse`, and the rest stutter.

`OfflineQueueProofs`. The queue of an item is absent only with a record on the
server or a discard; the invariant adds that whatever a tab still holds of an
item (its snapshot, the item it sends, what it recovers) was captured, and that
an "ok" reply means a record.

`EstimatingProofs`, of the plan network and of the award, which share no rows.
The network: a loop of the program is `Turns`, a recursive function of the number
of turns taken; that it exists, and that what every turn keeps holds after any
number of them (`TurnsExist`, `TurnsKeep`), is proved by induction over that number.
That there is no loop is said of sets: in any set of activities there is one that
waits for none of the set (`Acyclic`). Three invariants of turns follow.
- The search (`SearchOK`): what is behind is closed under what follows it and
  has no loop in it, the path is a chain, and every turn visits or leaves an
  activity, so that twice as many turns as activities are enough. Hence
  `FindLoopRight`: the loop reported is one, and none is reported when there is none.
- The order (`InOrder`): no activity comes before one it waits for; while some are
  missing one of them is not blocked, so every turn adds one (`OrderComplete`).
- The times: the longest chain to an activity is the longest to one it waits for,
  and the activity (`LongestThrough`), so each turn times one right
  (`FinishesLongest`); the plan is as long as the longest of them (`PlanDaysLongest`).

A dependency closes a loop exactly when a chain leads from its end to its start
(`ClosingIsCyclic`, `OpenStaysAcyclic`). So every edit keeps the inductive invariant
`NetworkInv`, a network of the right shape that is `Acyclic`, which `Connect` has only
because the search misses no loop. A chain visits no activity twice, so none is longer
than the plan and the chains of the property are all there are.

The award: every handler decides on what it read, so the invariant is
about the requests in flight: the revision an approval or a rejection is about
to decide exists; the one an award is about to use was approved and still says
what was read (`Sound`, which `Grown` preserves: approved revisions are only ever
superseded); a submission holds the tender's row, alone, in the approval stage.
With it the batches are safe whatever committed since the reads: the guard on
the tender's stage gives `OutcomeIsFinal`, the unique index `AwardIsOne`.

`SiteProofs`, four modules that share no rows. `Workshop`: both properties are
inductive with one fact more, that an order awaiting verification has a repairer
(`RepairsAreKnown`), without which closing it would not be independent. The
work is in the set `CriticalOpen`, of which one order enters or leaves at a
time: a verification whose snapshot is the present either was of the last
critical order, and lifts the hold, or was not, and keeps it; one whose snapshot
is not sets `overtaken`. `ServicePlan`: evidence is in order because no entry is
dated after today (`EvidenceIsPast`), so whatever is recorded late must still
continue the evidence there is. `Shifts`: what a save found free stays free of every
shift not written since (`SaveIsSafe`); a new overlap is therefore in `changed`, which
is what makes a double booking a race. It rests on the arithmetic of windows: shifts
that overlap are a day apart at most, so the neighbouring days the query reads miss
none. `Swms`: the newest revision is live and an approved one says what was approved
(`NewestIsLive`); whatever a worker reads or sends was issued (`CrewReadsIssued`).

`OfficeProofs`, nine modules that share no rows. The pattern is one: who acts on
something read says in the invariant what of it still holds, or which history
variable tells that it does not.
- `CorrectiveChain`: a completed action has its completer, a verified one two different
  people (`ReviewsTell`); what a closure under way found verified stays so
  (`ClosuresTell`), so a closed source rests on it (`SourceTells`).
- `Documents`: an upload is a revision once at most (`RevisedOnce`), since its stage is
  past committing then, and its object goes only if its commit failed (`UploadsTell`).
- `Forms`: what was ever in force has a valid schema that no edit changes
  (`TemplateTells`), so whatever is on a screen asks what its version asks
  (`FillingTells`).
- `ProjectControl`: once a closure is decided on, what would hold it up was written
  unseen by it (`ClosureTells`); a project leaves setup on one baseline (`BaselineTells`).
- `Clients`: records and edits name what is there (`Tells`) until a merge overtakes
  them, a merge has two different live clients (`MergeTells`), and of a client's contacts
  one is marked, archived or not (`OneMarked`): counting the active ones only would not
  be inductive, because archived contacts come back. `Contacts` is finite there.
- `PlanScenario`: whoever has the stored revision, on the screen, in a page that is
  loading or after a save, has its content as far as it was read (`Agrees`, `LoadTells`,
  `SaveTells`); a save gives a revision nobody else has.
- `Membership`: the locks of two requests are disjoint (`LocksDisjoint`), and a change
  touches locked organisations only and leaves each with an active administrator
  or empty (`SafeChange`, `Guarded`), which no other request can undo before it
  commits, because it would need the same lock. `Founded`: organisations exist
  before anybody belongs to them or is invited, so that a new one is nobody's yet.
- `Migration`: only the holder of the lock is under way (`Alone`), what it has come past
  is complete (`PastIsComplete`), a statement about to run is harmless or has not run,
  and one about to be recorded has (`AtWork`), the journal and the database agree
  (`JournalTells`), and a step is begun when all ahead of it are complete
  (`BegunInOrder`). A crash leaves journal and database as they are, and a recovery
  finds in them what `AtWork` needs.
- `Billing`: what an event leaves is what the subscription it makes allows, written or
  there already, unless its snapshot was outrun (`ModulesSet`); and an end stored with
  a module is one an applied event named (`EndsDelivered`), so nothing else makes it less.

Type correctness is a theorem of every model proved about. The hypotheses of
theorems that have any are constant (`NoDoubles`, `Steady`, `OneTab`), and each is
met by a run.

Every invariant and action property of the runs that pass is a theorem. Model-checked
only: liveness (`OfflineQueue` and `Idempotency`), which needs fairness.
What the three runs that expect a violation refute is not proved, except for the value
claimed against a source, which holds when no request names a source twice.

## Plan

Done in this order: `DocketLedger`, `Claims`, `Idempotency` refining
`ExactlyOnce`, `OfflineQueue`, `EstimateApproval` and
`TenderAward`; then the registers a crew works by (`Workshop`, `ServicePlan`,
`Shifts`, `Swms`) and those of the office (`CorrectiveChain`, `Membership`,
`Billing`, `Migration`, `Documents`, `Forms`, `ProjectControl`, `Clients`,
`PlanNetwork`, `PlanScenario`), each
with its invariant proved, and the sums in `SumTheorems`.

Next: the maintenance fence with the requests it waits for, the programme of
a project and its work areas, the CRM import; and for proofs, an abstract
specification of the offline queue (an item is captured, then recorded or given
up) for `OfflineQueue` to refine.

## Not modelled

Split, merge and reprocess of dockets (always answered 422), parsing and AI
drafting, pdf and spreadsheet output, search, reports and the rest of the user
interface (two thirds of the code), which render or transform one record at a
time and leave nothing for interleavings to break; permission tables, and the parts marked `not_modelled` in
`PROJECT.json`.
