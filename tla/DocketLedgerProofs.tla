------------------------- MODULE DocketLedgerProofs -------------------------
(***************************************************************************)
(* What DocketLedger guarantees for every number of dockets, projects,     *)
(* claims and concurrent requests, and every set of docket contents.       *)
(***************************************************************************)
EXTENDS DocketLedger, SumTheorems

-----------------------------------------------------------------------------
(* The ledger statements                                                    *)

\* reverseAll yields a ledger of the same type.
LEMMA ReversedType ==
  ASSUME NEW rows \in [Keys -> Row]
  PROVE  Reversed(rows) \in [Keys -> Row]
  BY DEF Reversed, Row, RowStatuses

\* So do the upserts, for a content the dockets may have.
LEMMA UpsertedType ==
  ASSUME NEW rows \in [Keys -> Row], NEW c \in Contents,
         NEW p \in Projects, NEW n \in Nat
  PROVE  Upserted(rows, c, p, n) \in [Keys -> Row]
<1>1. \A k \in Keys: CostAmount(c, k[1]) \in Amounts
  BY DEF Keys, Amounts
<1>2. \A k \in Keys: rows[k] \in Row
  OBVIOUS
<1>. QED
  BY <1>1, <1>2 DEF Upserted, Row, RowStatuses

\* The ledger after the seam ran is of the same type.
LEMMA SeamLedgerType ==
  ASSUME TypeOK, NEW r \in Requests, NEW next, NEW c \in Contents,
         form[r].docket \in Dockets
  PROVE  SeamLedger(r, form[r].docket, next, c) \in [Keys -> Row]
<1> DEFINE d == form[r].docket
           n == NextSeq(r, d)
<1>1. ledger[d] \in [Keys -> Row] /\ n \in Nat /\ form[r].to \in Projects \cup {None}
  BY MaxSeqAssumption DEF TypeOK, NextSeq, Form
<1>2. Reversed(ledger[d]) \in [Keys -> Row]
  BY <1>1, ReversedType
<1>3. CASE form[r].to \in Projects
  <2>1. Upserted(Reversed(ledger[d]), c, form[r].to, n) \in [Keys -> Row]
    BY <1>1, <1>2, <1>3, UpsertedType
  <2>. QED
    BY <1>1, <1>2, <2>1 DEF SeamLedger, Approving
<1>4. CASE form[r].to = None
  BY <1>1, <1>2, <1>4 DEF SeamLedger, Approving
<1>. QED
  BY <1>1, <1>3, <1>4

-----------------------------------------------------------------------------
(* Type correctness                                                         *)

\* A form stays a form when the docket it was made against changes.
LEMMA OutdatedType ==
  ASSUME NEW f \in Form
  PROVE  Outdated(f) \in Form /\ Outdated(f).docket = f.docket
  BY DEF Outdated, Form

\* Marking forms of saved dockets outdated keeps them forms of the same docket.
LEMMA StaleType ==
  ASSUME TypeOK, NEW ds
  PROVE  /\ Stale(ds) \in [Requests -> Form]
         /\ \A r \in Requests: Stale(ds)[r].docket = form[r].docket
<1>1. \A r \in Requests: form[r] \in Form /\ Outdated(form[r]) \in Form
                        /\ Outdated(form[r]).docket = form[r].docket
  BY OutdatedType DEF TypeOK
<1>. QED
  BY <1>1 DEF Stale

\* A new docket is for review or, uploaded so, approved or claimed.
LEMMA CreatedDocket ==
  ASSUME CreateNext
  PROVE  \E d \in Dockets, p \in Projects \cup {None}, c \in Contents, next \in {"review"} \cup Posted:
           CreateDocket(d, p, next, c)
  BY UploadsAssumption DEF CreateNext, SubmitFieldDocket, UploadDocket, Posted, Claimed

\* The form of a request that has none is a form.
LEMMA NoFormType == NoForm \in Form
  BY DEF NoForm, Form, Statuses

\* Every state has the declared types.
THEOREM TypeCorrect == Spec => []TypeOK
<1>1. Init => TypeOK
  BY MaxSeqAssumption DEF Init, TypeOK, Statuses, ClaimStatuses, OpenClaim, Claimed,
     Row, NoRow, RowStatuses, Amounts, Form, NoForm
<1>2. TypeOK /\ [Next]_vars => TypeOK'
  <2> SUFFICES ASSUME TypeOK, [Next]_vars
               PROVE  TypeOK'
    OBVIOUS
  <2> USE DEF TypeOK, docketVars, claimVars, requestVars
  <2>1. ASSUME NEW d \in Dockets, NEW p \in Projects \cup {None}, NEW c \in Contents,
               NEW next \in {"review"} \cup Posted, CreateDocket(d, p, next, c)
        PROVE  TypeOK'
    BY <2>1 DEF CreateDocket, Statuses, Posted, Claimed
  <2>2. ASSUME NEW r \in Requests, NEW d \in Dockets, OpenForm(r, d)
        PROVE  TypeOK'
    BY <2>2 DEF OpenForm, Form, NoForm, Statuses
  <2>3. ASSUME NEW r \in Requests, NEW to \in Projects \cup {None}, BeginSave(r, to)
        PROVE  TypeOK'
    <3> DEFINE f == form[r]
               g == [f EXCEPT !.from = job[f.docket], !.to = to, !.on = projectsOn]
    <3>1. f \in Form /\ f.docket \in Dockets /\ pc[r] = "form"
      BY <2>3 DEF BeginSave
    <3>2. g \in Form /\ g.docket = f.docket
      BY <3>1 DEF Form
    <3>3. CASE Exists(f.docket)
      BY <2>3, <3>1, <3>2, <3>3 DEF BeginSave
    <3>4. CASE ~Exists(f.docket)
      <4>1. pc' = [pc EXCEPT ![r] = "idle"] /\ form' = [form EXCEPT ![r] = NoForm]
        BY <2>3, <3>4 DEF BeginSave, Finish
      <4>. QED
        BY <2>3, <4>1, NoFormType DEF BeginSave
    <3>. QED
      BY <3>3, <3>4
  <2>4. ASSUME NEW r \in Requests, NEW p \in Projects, LockProject(r, p)
        PROVE  TypeOK'
    BY <2>4 DEF LockProject
  <2>5. ASSUME NEW r \in Requests, NEW next \in {"review", "approved"}, NEW c \in Contents,
               NEW expected \in BOOLEAN, NEW reason \in BOOLEAN,
               CommitSave(r, next, c, expected, reason)
        PROVE  TypeOK'
    <3> DEFINE d == form[r].docket
    <3>1. d \in Dockets
      BY <2>5 DEF CommitSave, Locked
    <3>2. SeamLedger(r, d, next, c) \in [Keys -> Row]
      BY <3>1, SeamLedgerType
    <3>3. NextSeq(r, d) \in 0..MaxSeq /\ form[r].to \in Projects \cup {None}
      BY <2>5, <3>1, MaxSeqAssumption DEF CommitSave, NextSeq, Form
    <3>4. /\ Stale({d}) \in [Requests -> Form] /\ NoForm \in Form
          /\ \A s \in Requests: Stale({d})[s].docket = form[s].docket
      BY StaleType, NoFormType
    <3>5. next \in Statuses
      BY DEF Statuses
    <3>. QED
      BY <2>5, <3>1, <3>2, <3>3, <3>4, <3>5 DEF CommitSave, Unlock, Finish
  <2>6. ASSUME NEW r \in Requests, AbandonSave(r)
        PROVE  TypeOK'
    BY <2>6, NoFormType DEF AbandonSave, Unlock, Finish
  <2>7. ASSUME NEW r \in Requests, NEW d \in Dockets, NEW kind \in {"deleting", "archiving"},
               CheckRemoval(r, d, kind)
        PROVE  TypeOK'
    BY <2>7 DEF CheckRemoval, Form, NoForm, Statuses
  <2>8. ASSUME NEW r \in Requests, PerformDelete(r) \/ PerformArchive(r)
        PROVE  TypeOK'
    <3> DEFINE d == form[r].docket
    <3>1. PICK kind \in {"deleting", "archiving"}, to \in {"deleted", "archived"}:
            Removal(r, kind, to)
      BY <2>8 DEF PerformDelete, PerformArchive
    <3>2. d \in Dockets
      BY <3>1 DEF Removal
    <3>3. status' \in [Dockets -> Statuses]
      BY <3>1, <3>2 DEF Removal, Statuses
    <3>4. overtaken' \in [Dockets -> BOOLEAN]
      BY <3>1, <3>2 DEF Removal
    <3>. QED
      BY <3>1, <3>3, <3>4, NoFormType DEF Removal, Finish
  <2>9. ASSUME NEW c \in Claims, NEW p \in Projects, NEW ds \in SUBSET Dockets,
               CreateClaim(c, p, ds)
        PROVE  TypeOK'
    BY <2>9, StaleType DEF CreateClaim, Statuses, ClaimStatuses, OpenClaim
  <2>10. ASSUME NEW c \in Claims, DeleteDraftClaim(c)
         PROVE  TypeOK'
    <3> DEFINE ds == {d \in OnClaim(c): status[d] = "included_claim"}
    <3>1. /\ Stale(ds) \in [Requests -> Form]
          /\ \A r \in Requests: Stale(ds)[r].docket = form[r].docket
      BY StaleType
    <3>. QED
      BY <2>10, <3>1 DEF DeleteDraftClaim, Statuses, ClaimStatuses, OpenClaim
  <2>11. ASSUME NEW c \in Claims, NEW to \in {"draft", "internal_approval", "submitted", "certified"},
                AdvanceClaim(c, to)
         PROVE  TypeOK'
    BY <2>11 DEF AdvanceClaim, ClaimStatuses, OpenClaim
  <2>12. ASSUME NEW c \in Claims, CreateInvoice(c)
         PROVE  TypeOK'
    <3> DEFINE ds == {d \in OnClaim(c): Exists(d)}
    <3>1. /\ Stale(ds) \in [Requests -> Form]
          /\ \A r \in Requests: Stale(ds)[r].docket = form[r].docket
      BY StaleType
    <3>. QED
      BY <2>12, <3>1 DEF CreateInvoice, Statuses, ClaimStatuses, OpenClaim
  <2>13. ASSUME NEW c \in Claims, SettleInvoice(c)
         PROVE  TypeOK'
    BY <2>13 DEF SettleInvoice, ClaimStatuses
  <2>14. CASE ProjectNext
    BY <2>14, EntitlementsAssumption DEF ProjectNext, CloseProject, ReopenProject, SetEntitlement
  <2>15. CASE UNCHANGED vars
    BY <2>15 DEF vars
  <2> HIDE DEF TypeOK
  <2>16. CASE CreateNext
    BY <2>1, <2>16, CreatedDocket
  <2>. QED
    BY <2>2, <2>3, <2>4, <2>5, <2>6, <2>7, <2>8, <2>9, <2>10, <2>11, <2>12, <2>13,
       <2>14, <2>15, <2>16 DEF Next, SaveNext, RemovalNext, ClaimNext
<1>. QED
  BY <1>1, <1>2, PTL DEF Spec

-----------------------------------------------------------------------------
(* Allocation history                                                       *)

\* What reverseAll leaves of a row.
LEMMA ReversedRow ==
  ASSUME NEW rows \in [Keys -> Row], NEW k \in Keys
  PROVE  /\ rows[k].status # "actual" => Reversed(rows)[k] = rows[k]
         /\ Reversed(rows)[k].status # "actual"
         /\ Reversed(rows)[k].project = rows[k].project
         /\ rows[k].status = "none" <=> Reversed(rows)[k].status = "none"
  BY DEF Reversed, Row, RowStatuses

\* What the upserts leave of a row: a new one at sequence n, or the old one.
LEMMA UpsertedRow ==
  ASSUME NEW rows \in [Keys -> Row], NEW c \in Contents, NEW p, NEW n, NEW k \in Keys
  PROVE  \/ Upserted(rows, c, p, n)[k] = rows[k]
         \/ /\ k[2] = n
            /\ Upserted(rows, c, p, n)[k].project = p
            /\ Upserted(rows, c, p, n)[k].status = "actual"
  BY DEF Upserted

\* What a save does to a row: keeps it, reverses it, or writes it at the
\* sequence number and the project of the save.
LEMMA SavedRow ==
  ASSUME TypeOK, NEW r \in Requests, NEW next, NEW c \in Contents, NEW k \in Keys,
         form[r].docket \in Dockets
  PROVE  LET d == form[r].docket
             old == ledger[d][k]
             new == SeamLedger(r, d, next, c)[k]
         IN \/ new = old
            \/ /\ old.status = "actual" /\ new.status = "reversed"
               /\ new.project = old.project
            \/ /\ k[2] = NextSeq(r, d) /\ form[r].to # None /\ next = "approved" /\ form[r].on
               /\ new.project = form[r].to /\ new.status = "actual"
<1> DEFINE d == form[r].docket
           n == NextSeq(r, d)
           rows == ledger[d]
<1>1. rows \in [Keys -> Row]
  BY DEF TypeOK
<1>2. \/ Reversed(rows)[k] = rows[k]
      \/ /\ rows[k].status = "actual" /\ Reversed(rows)[k].status = "reversed"
         /\ Reversed(rows)[k].project = rows[k].project
  BY <1>1 DEF Reversed, Row, RowStatuses
<1>3. Reversed(rows) \in [Keys -> Row]
  BY <1>1, ReversedType
<1>4. \/ Upserted(Reversed(rows), c, form[r].to, n)[k] = Reversed(rows)[k]
      \/ /\ k[2] = n
         /\ Upserted(Reversed(rows), c, form[r].to, n)[k].project = form[r].to
         /\ Upserted(Reversed(rows), c, form[r].to, n)[k].status = "actual"
  BY <1>3, UpsertedRow
<1>. QED
  BY <1>1, <1>2, <1>4 DEF SeamLedger, Approving

\* A docket that was never created has posted nothing.
UnbornHasNoRows ==
  \A d \in Dockets: status[d] = "unborn" => \A k \in Keys: ledger[d][k].status = "none"

\* Only a created docket's allocation may be written, so the history of every
\* docket starts empty and each save extends it at its own sequence number.
HistoryInv == AllocationHistory /\ UnbornHasNoRows

\* Every operation keeps the rows of one allocation in one project.
LEMMA HistoryStep ==
  ASSUME TypeOK, HistoryInv, [Next]_vars
  PROVE  HistoryInv'
<1> USE DEF docketVars, claimVars, requestVars
<1>1. ASSUME NEW d \in Dockets, NEW p \in Projects \cup {None}, NEW c \in Contents,
             NEW next \in {"review"} \cup Posted, CreateDocket(d, p, next, c)
      PROVE  HistoryInv'
  BY <1>1 DEF CreateDocket, HistoryInv, AllocationHistory, UnbornHasNoRows, TypeOK
<1>2. ASSUME NEW r \in Requests, NEW next \in {"review", "approved"}, NEW c \in Contents,
             NEW expected \in BOOLEAN, NEW reason \in BOOLEAN,
             CommitSave(r, next, c, expected, reason)
      PROVE  HistoryInv'
  <2> DEFINE d == form[r].docket
             n == NextSeq(r, d)
  <2>1. /\ d \in Dockets /\ Exists(d) /\ job[d] = form[r].from
        /\ ledger' = [ledger EXCEPT ![d] = SeamLedger(r, d, next, c)]
        /\ seq' = [seq EXCEPT ![d] = n] /\ job' = [job EXCEPT ![d] = form[r].to]
        /\ status' = [status EXCEPT ![d] = next]
    BY <1>2 DEF CommitSave, Locked, TypeOK
  <2>2. seq[d] \in Nat /\ n \in Nat /\ n >= seq[d]
    BY <2>1, MaxSeqAssumption DEF TypeOK, NextSeq
  <2>3. \A k \in Keys: k[2] \in Nat
    BY MaxSeqAssumption DEF Keys
  <2>4. \A k \in Keys: (k[2] = n /\ ledger[d][k].status # "none") =>
           ledger[d][k].project = form[r].to /\ n = seq[d]
    BY <2>1, <2>2, <2>3 DEF HistoryInv, AllocationHistory, NextSeq, Moved
  <2>5. \A k \in Keys:
          \/ SeamLedger(r, d, next, c)[k] = ledger[d][k]
          \/ /\ ledger[d][k].status = "actual"
             /\ SeamLedger(r, d, next, c)[k].status = "reversed"
             /\ SeamLedger(r, d, next, c)[k].project = ledger[d][k].project
          \/ /\ k[2] = n /\ form[r].to # None
             /\ SeamLedger(r, d, next, c)[k].project = form[r].to
             /\ SeamLedger(r, d, next, c)[k].status = "actual"
    <3>1. ASSUME NEW k \in Keys
          PROVE  LET old == ledger[d][k]
                     new == SeamLedger(r, d, next, c)[k]
                 IN \/ new = old
                    \/ /\ old.status = "actual" /\ new.status = "reversed"
                       /\ new.project = old.project
                    \/ /\ k[2] = n /\ form[r].to # None /\ next = "approved" /\ form[r].on
                       /\ new.project = form[r].to /\ new.status = "actual"
      BY <2>1, SavedRow
    <3>. QED
      BY <3>1
  <2>6. \A k \in Keys: SeamLedger(r, d, next, c)[k].status # "none" =>
          /\ k[2] <= n
          /\ SeamLedger(r, d, next, c)[k].project # None
          /\ k[2] = n => SeamLedger(r, d, next, c)[k].project = form[r].to
          /\ k[2] # n => /\ ledger[d][k].status # "none"
                         /\ SeamLedger(r, d, next, c)[k].project = ledger[d][k].project
    BY <2>1, <2>2, <2>3, <2>4, <2>5 DEF HistoryInv, AllocationHistory
  <2>7. \A k, m \in Keys:
          (k[2] = m[2] /\ SeamLedger(r, d, next, c)[k].status # "none"
                       /\ SeamLedger(r, d, next, c)[m].status # "none") =>
          SeamLedger(r, d, next, c)[m].project = SeamLedger(r, d, next, c)[k].project
    BY <2>1, <2>6 DEF HistoryInv, AllocationHistory
  <2>8. AllocationHistory'
    BY <2>1, <2>6, <2>7 DEF HistoryInv, AllocationHistory, TypeOK
  <2>9. UnbornHasNoRows'
    BY <2>1 DEF HistoryInv, UnbornHasNoRows, TypeOK
  <2>. QED
    BY <2>8, <2>9 DEF HistoryInv
<1>3. ASSUME UNCHANGED <<job, seq, ledger>>,
             \A d \in Dockets: status'[d] = "unborn" => status[d] = "unborn"
      PROVE  HistoryInv'
  BY <1>3 DEF HistoryInv, AllocationHistory, UnbornHasNoRows
<1>4. ASSUME NEW r \in Requests, NEW to \in Projects \cup {None}, BeginSave(r, to)
      PROVE  HistoryInv'
  BY <1>4, <1>3 DEF BeginSave
<1>5. ASSUME NEW r \in Requests, NEW kind, NEW to \in {"deleted", "archived"}, Removal(r, kind, to)
      PROVE  HistoryInv'
  BY <1>5, <1>3 DEF Removal, TypeOK
<1>6. CASE ClaimNext
  BY <1>6, <1>3 DEF ClaimNext, CreateClaim, DeleteDraftClaim, AdvanceClaim, CreateInvoice,
     SettleInvoice
<1>7. CASE ProjectNext
  BY <1>7, <1>3 DEF ProjectNext, CloseProject, ReopenProject, SetEntitlement
<1>8. CASE UNCHANGED vars
  BY <1>8, <1>3 DEF vars
<1>9. CASE SaveNext
  BY <1>9, <1>2, <1>3, <1>4 DEF SaveNext, OpenForm, LockProject, AbandonSave
<1>10. CASE RemovalNext
  BY <1>10, <1>3, <1>5 DEF RemovalNext, CheckRemoval, PerformDelete, PerformArchive
<1>. QED
  BY <1>1, <1>6, <1>7, <1>8, <1>9, <1>10, CreatedDocket DEF Next

\* In every state the rows of one allocation are in one project.
LEMMA HistoryInvariant == Spec => []HistoryInv
<1>1. Init => HistoryInv
  BY DEF Init, HistoryInv, AllocationHistory, UnbornHasNoRows, NoRow
<1>2. TypeOK /\ HistoryInv /\ [Next]_vars => HistoryInv'
  BY HistoryStep
<1>. QED
  BY <1>1, <1>2, TypeCorrect, PTL DEF Spec

\* The allocation sequence separates projects (nextAllocationLinks, lineKey).
THEOREM HistorySeparated == Spec => []AllocationHistory
<1>1. HistoryInv => AllocationHistory
  BY DEF HistoryInv
<1>. QED
  BY <1>1, HistoryInvariant, PTL

\* Some save commits with inputs the handler accepts.
SomeCommit(r) ==
  \E next \in {"review", "approved"}, c \in Contents, expected, reason \in BOOLEAN:
    CommitSave(r, next, c, expected, reason)

\* Only a committing save writes the ledger.
LEMMA LedgerStep ==
  ASSUME [Next]_vars
  PROVE  UNCHANGED ledger \/ \E r \in Requests: SomeCommit(r)
<1> USE DEF docketVars, claimVars, requestVars
<1>1. CASE SaveNext
  BY <1>1 DEF SaveNext, OpenForm, BeginSave, LockProject, AbandonSave, SomeCommit
<1>2. CASE RemovalNext
  BY <1>2 DEF RemovalNext, CheckRemoval, PerformDelete, PerformArchive, Removal
<1>3. CASE ClaimNext
  BY <1>3 DEF ClaimNext, CreateClaim, DeleteDraftClaim, AdvanceClaim, CreateInvoice, SettleInvoice
<1>4. CASE ProjectNext
  BY <1>4 DEF ProjectNext, CloseProject, ReopenProject, SetEntitlement
<1>5. ASSUME NEW d \in Dockets, NEW p \in Projects \cup {None}, NEW c \in Contents,
             NEW next \in {"review"} \cup Posted, CreateDocket(d, p, next, c)
      PROVE  UNCHANGED ledger
  BY <1>5 DEF CreateDocket
<1>. QED
  BY <1>1, <1>2, <1>3, <1>4, <1>5, CreatedDocket DEF Next, vars

\* Posted cost is reversed, never deleted, overwritten from another
\* allocation, or brought back (docket-to-cost.ts 26).
THEOREM HistoryKept == Spec => PostedHistoryKept
<1> DEFINE Kept == \A d \in Dockets: \A k \in Keys:
             LET row == ledger[d][k] IN
             row.status # "none" =>
               /\ ledger'[d][k].status # "none"
               /\ ledger'[d][k].project = row.project
               /\ (k[2] < seq[d] /\ row.status = "reversed") => ledger'[d][k] = row
<1>1. ASSUME TypeOK, AllocationHistory, [Next]_vars
      PROVE  Kept
  <2>1. CASE UNCHANGED ledger
    BY <2>1
  <2>2. ASSUME NEW r \in Requests, NEW next \in {"review", "approved"}, NEW c \in Contents,
               NEW expected \in BOOLEAN, NEW reason \in BOOLEAN,
               CommitSave(r, next, c, expected, reason)
        PROVE  Kept
    <3> DEFINE d == form[r].docket
               n == NextSeq(r, d)
    <3>1. /\ d \in Dockets /\ job[d] = form[r].from
          /\ ledger' = [ledger EXCEPT ![d] = SeamLedger(r, d, next, c)]
      BY <1>1, <2>2 DEF CommitSave, Locked, TypeOK
    <3>2. seq[d] \in Nat /\ n \in Nat /\ n >= seq[d]
      BY <1>1, <3>1, MaxSeqAssumption DEF TypeOK, NextSeq
    <3>3. \A k \in Keys: k[2] \in Nat
      BY MaxSeqAssumption DEF Keys
    <3>4. \A k \in Keys: (k[2] = n /\ ledger[d][k].status # "none") =>
             ledger[d][k].project = form[r].to
      BY <1>1, <3>1, <3>2, <3>3 DEF AllocationHistory, NextSeq, Moved
    <3>5. ASSUME NEW k \in Keys
          PROVE  LET old == ledger[d][k]
                     new == SeamLedger(r, d, next, c)[k]
                 IN \/ new = old
                    \/ /\ old.status = "actual" /\ new.status = "reversed"
                       /\ new.project = old.project
                    \/ /\ k[2] = n /\ form[r].to # None /\ next = "approved" /\ form[r].on
                       /\ new.project = form[r].to /\ new.status = "actual"
      BY <1>1, <3>1, SavedRow
    <3>6. ASSUME NEW k \in Keys, ledger[d][k].status # "none"
          PROVE  /\ SeamLedger(r, d, next, c)[k].status # "none"
                 /\ SeamLedger(r, d, next, c)[k].project = ledger[d][k].project
                 /\ (k[2] < seq[d] /\ ledger[d][k].status = "reversed") =>
                      SeamLedger(r, d, next, c)[k] = ledger[d][k]
      BY <3>2, <3>3, <3>4, <3>5, <3>6
    <3>. QED
      BY <1>1, <3>1, <3>6 DEF TypeOK
  <2>. QED
    BY <1>1, <2>1, <2>2, LedgerStep DEF SomeCommit
<1>2. TypeOK /\ AllocationHistory /\ [Next]_vars => [Kept]_vars
  BY <1>1
<1>. QED
  BY <1>2, TypeCorrect, HistorySeparated, PTL DEF Spec, PostedHistoryKept

\* A closed project's ledger is frozen, and approved cost stays in it
\* (docket-to-cost.ts 75 and 84).
THEOREM ClosedKeepsCost == Spec => ClosedProjectKeepsItsCost
<1> DEFINE Keeps == \A p \in Projects: stage[p] = "closed" =>
             \A d \in Dockets:
               /\ \A k \in Keys: (ledger'[d][k].project = p /\ ledger'[d][k].status = "actual") =>
                    ledger'[d][k] = ledger[d][k]
               /\ (status[d] = "approved" /\ job[d] = p) => job'[d] = p
<1>1. ASSUME TypeOK, [Next]_vars
      PROVE  Keeps
  <2> USE DEF docketVars, claimVars, requestVars
  <2>1. CASE UNCHANGED <<ledger, job>>
    BY <2>1
  <2>2. ASSUME NEW r \in Requests, NEW next \in {"review", "approved"}, NEW c \in Contents,
               NEW expected \in BOOLEAN, NEW reason \in BOOLEAN,
               CommitSave(r, next, c, expected, reason)
        PROVE  Keeps
    <3> DEFINE d == form[r].docket
    <3>1. /\ d \in Dockets /\ job[d] = form[r].from /\ SeamAllows(r, d, next)
          /\ ledger' = [ledger EXCEPT ![d] = SeamLedger(r, d, next, c)]
          /\ job' = [job EXCEPT ![d] = form[r].to]
      BY <1>1, <2>2 DEF CommitSave, Locked, TypeOK
    <3>2. ASSUME NEW k \in Keys
          PROVE  LET old == ledger[d][k]
                     new == SeamLedger(r, d, next, c)[k]
                 IN \/ new = old
                    \/ new.status = "reversed"
                    \/ stage[form[r].to] # "closed" /\ new.project = form[r].to
      <4>1. LET old == ledger[d][k]
                new == SeamLedger(r, d, next, c)[k]
            IN \/ new = old
               \/ /\ old.status = "actual" /\ new.status = "reversed"
                  /\ new.project = old.project
               \/ /\ k[2] = NextSeq(r, d) /\ form[r].to # None /\ next = "approved" /\ form[r].on
                  /\ new.project = form[r].to /\ new.status = "actual"
        BY <1>1, <3>1, SavedRow
      <4>. QED
        BY <3>1, <4>1 DEF SeamAllows
    <3>3. ASSUME NEW p \in Projects, stage[p] = "closed", status[d] = "approved", job[d] = p
          PROVE  job'[d] = p
      BY <1>1, <3>1, <3>3, ProjectsAssumption DEF SeamAllows, Moved, TypeOK
    <3>. QED
      BY <1>1, <3>1, <3>2, <3>3 DEF TypeOK
  <2>3. ASSUME NEW d \in Dockets, NEW p \in Projects \cup {None}, NEW c \in Contents,
               NEW next \in {"review"} \cup Posted, CreateDocket(d, p, next, c)
        PROVE  Keeps
    BY <1>1, <2>3 DEF CreateDocket, TypeOK
  <2>4. CASE SaveNext
    BY <2>1, <2>2, <2>4 DEF SaveNext, OpenForm, BeginSave, LockProject, AbandonSave
  <2>5. CASE RemovalNext
    BY <2>1, <2>5 DEF RemovalNext, CheckRemoval, PerformDelete, PerformArchive, Removal
  <2>6. CASE ClaimNext
    BY <2>1, <2>6 DEF ClaimNext, CreateClaim, DeleteDraftClaim, AdvanceClaim, CreateInvoice,
       SettleInvoice
  <2>7. CASE ProjectNext
    BY <2>1, <2>7 DEF ProjectNext, CloseProject, ReopenProject, SetEntitlement
  <2>8. CASE UNCHANGED vars
    BY <2>1, <2>8 DEF vars
  <2>. QED
    BY <1>1, <2>3, <2>4, <2>5, <2>6, <2>7, <2>8, CreatedDocket DEF Next
<1>2. TypeOK /\ [Next]_vars => [Keeps]_vars
  BY <1>1
<1>. QED
  BY <1>2, TypeCorrect, PTL DEF Spec, ClosedProjectKeepsItsCost

-----------------------------------------------------------------------------
(* One current set of cost                                                  *)

\* What a save leaves as actual rows: the rows it wrote itself, or, when it
\* changes neither sequence nor project, the rows of an approved docket.
LEMMA SavedActual ==
  ASSUME TypeOK, ActualRowsMatchAllocation,
         NEW r \in Requests, NEW next \in {"review", "approved"}, NEW c \in Contents,
         NEW k \in Keys,
         LET d == form[r].docket IN
           /\ d \in Dockets /\ status[d] \notin Claimed /\ job[d] = form[r].from
           /\ Moved(r) => ((status[d] = "approved" /\ form[r].from # None) => form[r].on)
           /\ Clean(d)
           /\ SeamLedger(r, d, next, c)[k].status = "actual"
  PROVE  LET d == form[r].docket IN
           /\ next = "approved" /\ k[2] = NextSeq(r, d) /\ form[r].to # None
           /\ SeamLedger(r, d, next, c)[k].project = form[r].to
<1> DEFINE d == form[r].docket
           n == NextSeq(r, d)
           rows == ledger[d]
<1>1. rows \in [Keys -> Row] /\ Reversed(rows) \in [Keys -> Row]
  BY ReversedType DEF TypeOK
<1>2. Reversed(rows)[k].status # "actual"
  BY <1>1, ReversedRow
<1>3. rows[k].status = "actual" =>
        status[d] = "approved" /\ k[2] = seq[d] /\ job[d] # None /\ rows[k].project = job[d]
  BY DEF ActualRowsMatchAllocation, Posted
<1>4. CASE next = "review"
  BY <1>2, <1>3, <1>4 DEF SeamLedger
<1>5. CASE next = "approved" /\ form[r].to = None
  BY <1>2, <1>5 DEF SeamLedger, Approving
<1>6. CASE next = "approved" /\ form[r].to # None /\ form[r].on
  <2>1. \/ Upserted(Reversed(rows), c, form[r].to, n)[k] = Reversed(rows)[k]
        \/ /\ k[2] = n
           /\ Upserted(Reversed(rows), c, form[r].to, n)[k].project = form[r].to
           /\ Upserted(Reversed(rows), c, form[r].to, n)[k].status = "actual"
    BY <1>1, UpsertedRow
  <2>. QED
    BY <1>2, <1>6, <2>1 DEF SeamLedger, Approving
<1>7. CASE next = "approved" /\ form[r].to # None /\ ~form[r].on
  <2>1. rows[k].status = "actual" /\ SeamLedger(r, d, next, c)[k] = rows[k]
    BY <1>7 DEF SeamLedger, Approving
  <2>2. form[r].from # None
    BY <1>3, <2>1
  <2>3. ~Moved(r)
    BY <1>3, <1>7, <2>1, <2>2
  <2>. QED
    BY <1>3, <1>7, <2>1, <2>3 DEF NextSeq, Moved
<1>. QED
  BY <1>4, <1>5, <1>6, <1>7

\* Every operation keeps the actual rows where the docket is, overtaken dockets apart.
LEMMA ActualStep ==
  ASSUME TypeOK, ActualRowsMatchAllocation, [Next]_vars
  PROVE  ActualRowsMatchAllocation'
<1> USE DEF docketVars, claimVars, requestVars
<1>1. ASSUME UNCHANGED <<job, seq, ledger>>,
             \A d \in Dockets: overtaken[d] => overtaken'[d],
             \A d \in Dockets: (status[d] \in Posted /\ ~overtaken'[d]) => status'[d] \in Posted
      PROVE  ActualRowsMatchAllocation'
  BY <1>1 DEF ActualRowsMatchAllocation, Clean
<1>2. ASSUME NEW r \in Requests, NEW next \in {"review", "approved"}, NEW c \in Contents,
             NEW expected \in BOOLEAN, NEW reason \in BOOLEAN,
             CommitSave(r, next, c, expected, reason)
      PROVE  ActualRowsMatchAllocation'
  <2> DEFINE d == form[r].docket
             n == NextSeq(r, d)
  <2>1. /\ d \in Dockets /\ status[d] \notin Claimed /\ job[d] = form[r].from
        /\ Moved(r) => ((status[d] = "approved" /\ form[r].from # None) => form[r].on)
        /\ ledger' = [ledger EXCEPT ![d] = SeamLedger(r, d, next, c)]
        /\ seq' = [seq EXCEPT ![d] = n] /\ job' = [job EXCEPT ![d] = form[r].to]
        /\ status' = [status EXCEPT ![d] = next] /\ overtaken' = overtaken
    BY <1>2 DEF CommitSave, Locked, MayMove, TypeOK
  <2>2. ASSUME NEW k \in Keys, Clean(d), SeamLedger(r, d, next, c)[k].status = "actual"
        PROVE  /\ next = "approved" /\ k[2] = n /\ form[r].to # None
               /\ SeamLedger(r, d, next, c)[k].project = form[r].to
    BY <2>1, <2>2, SavedActual
  <2>. QED
    BY <2>1, <2>2 DEF ActualRowsMatchAllocation, Clean, Posted, TypeOK
<1>3. ASSUME NEW d \in Dockets, NEW p \in Projects \cup {None}, NEW c \in Contents,
             NEW next \in {"review"} \cup Posted, CreateDocket(d, p, next, c)
      PROVE  ActualRowsMatchAllocation'
  BY <1>3 DEF CreateDocket, ActualRowsMatchAllocation, Clean, Posted, Claimed, TypeOK
<1>4. ASSUME NEW r \in Requests, NEW kind, NEW to \in {"deleted", "archived"}, Removal(r, kind, to),
             kind \in {"deleting", "archiving"}
      PROVE  ActualRowsMatchAllocation'
  <2> DEFINE d == form[r].docket
  <2>1. d \in Dockets /\ (status[d] \in Posted => overtaken'[d])
    BY <1>4 DEF Removal, TypeOK
  <2>2. \A e \in Dockets \ {d}: status'[e] = status[e] /\ overtaken'[e] = overtaken[e]
    BY <1>4, <2>1 DEF Removal, TypeOK
  <2>3. overtaken[d] => overtaken'[d]
    BY <1>4, <2>1 DEF Removal, TypeOK
  <2>. QED
    BY <1>1, <1>4, <2>1, <2>2, <2>3 DEF Removal
<1>5. CASE ClaimNext
  BY <1>1, <1>5 DEF ClaimNext, CreateClaim, DeleteDraftClaim, AdvanceClaim, CreateInvoice,
     SettleInvoice, Posted, Claimed
<1>6. CASE ProjectNext
  BY <1>1, <1>6 DEF ProjectNext, CloseProject, ReopenProject, SetEntitlement
<1>7. CASE UNCHANGED vars
  BY <1>1, <1>7 DEF vars
<1>8. CASE SaveNext
  BY <1>1, <1>2, <1>8 DEF SaveNext, OpenForm, BeginSave, LockProject, AbandonSave
<1>9. CASE RemovalNext
  BY <1>1, <1>4, <1>9 DEF RemovalNext, CheckRemoval, PerformDelete, PerformArchive
<1>. QED
  BY <1>3, <1>5, <1>6, <1>7, <1>8, <1>9, CreatedDocket DEF Next

\* The ledger and the allocation agree whatever interleaves (a docket that a
\* delete or an archive overtook apart).
THEOREM LedgerMatchesAllocation == Spec => []ActualRowsMatchAllocation
<1>1. Init => ActualRowsMatchAllocation
  BY DEF Init, ActualRowsMatchAllocation, NoRow
<1>2. TypeOK /\ ActualRowsMatchAllocation /\ [Next]_vars => ActualRowsMatchAllocation'
  BY ActualStep
<1>. QED
  BY <1>1, <1>2, TypeCorrect, PTL DEF Spec

-----------------------------------------------------------------------------
(* Lock order                                                               *)

\* A project row lock is held by a save that wants it and that already holds
\* every lower row it wants.
LockOrder ==
  \A p \in Projects: \A r \in Requests: lock[p] = r =>
    /\ pc[r] = "saving" /\ p \in ToLock(r)
    /\ \A q \in ToLock(r): q < p => lock[q] = r

\* Project rows are only ever locked in id order, whatever the operation.
LEMMA LockStep ==
  ASSUME TypeOK, LockOrder, [Next]_vars
  PROVE  LockOrder'
<1> USE RequestsAssumption DEF docketVars, claimVars, requestVars
<1>1. ASSUME UNCHANGED <<lock, pc>>,
             \A s \in Requests: form'[s].from = form[s].from /\ form'[s].to = form[s].to
      PROVE  LockOrder'
  BY <1>1 DEF LockOrder, ToLock
<1>2. ASSUME NEW r \in Requests, pc[r] # "saving", UNCHANGED lock,
             \A s \in Requests \ {r}: pc'[s] = pc[s] /\ form'[s] = form[s]
      PROVE  LockOrder'
  BY <1>2 DEF LockOrder, ToLock
<1>3. ASSUME NEW r \in Requests, Unlock(r),
             \A s \in Requests \ {r}: /\ pc'[s] = pc[s] /\ form'[s].from = form[s].from
                                      /\ form'[s].to = form[s].to
      PROVE  LockOrder'
  <2>1. \A s \in Requests: ToLock(s) \subseteq Projects
    BY DEF ToLock, TypeOK, Form
  <2>2. \A s \in Requests \ {r}: ToLock(s) = ToLock(s)'
    BY <1>3 DEF ToLock
  <2>3. ASSUME NEW p \in Projects, NEW s \in Requests, lock'[p] = s
        PROVE  s # r /\ lock[p] = s
    BY <1>3, <2>3 DEF Unlock
  <2>4. ASSUME NEW p \in Projects, NEW s \in Requests, lock[p] = s, s # r
        PROVE  lock'[p] = s
    BY <1>3, <2>4 DEF Unlock
  <2>. QED
    BY <1>3, <2>1, <2>2, <2>3, <2>4 DEF LockOrder
<1>4. ASSUME NEW ds
      PROVE  \A s \in Requests: /\ Stale(ds)[s].from = form[s].from
                                /\ Stale(ds)[s].to = form[s].to
  <2>1. \A s \in Requests: /\ Outdated(form[s]).from = form[s].from
                           /\ Outdated(form[s]).to = form[s].to
    BY DEF Outdated, TypeOK, Form
  <2>. QED
    BY <2>1 DEF Stale
<1>5. ASSUME NEW r \in Requests, NEW p \in Projects, LockProject(r, p)
      PROVE  LockOrder'
  BY <1>5, ProjectsAssumption DEF LockProject, LockOrder, ToLock, TypeOK, Form
<1>6. ASSUME NEW r \in Requests, NEW next \in {"review", "approved"}, NEW c \in Contents,
             NEW expected \in BOOLEAN, NEW reason \in BOOLEAN,
             CommitSave(r, next, c, expected, reason)
      PROVE  LockOrder'
  BY <1>3, <1>4, <1>6 DEF CommitSave, Finish, TypeOK
<1>7. ASSUME NEW r \in Requests, AbandonSave(r)
      PROVE  LockOrder'
  BY <1>3, <1>7 DEF AbandonSave, Finish, TypeOK
<1>8. ASSUME NEW r \in Requests, NEW d \in Dockets, OpenForm(r, d)
      PROVE  LockOrder'
  BY <1>2, <1>8 DEF OpenForm, TypeOK
<1>9. ASSUME NEW r \in Requests, NEW to \in Projects \cup {None}, BeginSave(r, to)
      PROVE  LockOrder'
  BY <1>2, <1>9 DEF BeginSave, Finish, TypeOK
<1>10. ASSUME NEW r \in Requests, NEW d \in Dockets, NEW kind \in {"deleting", "archiving"},
              CheckRemoval(r, d, kind)
       PROVE  LockOrder'
  BY <1>2, <1>10 DEF CheckRemoval, TypeOK
<1>11. ASSUME NEW r \in Requests, PerformDelete(r) \/ PerformArchive(r)
       PROVE  LockOrder'
  BY <1>2, <1>11 DEF PerformDelete, PerformArchive, Removal, Finish, TypeOK
<1>12. CASE ClaimNext
  <2>1. ASSUME NEW c \in Claims, NEW p \in Projects, NEW ds \in SUBSET Dockets,
               CreateClaim(c, p, ds)
        PROVE  LockOrder'
    BY <1>1, <1>4, <2>1 DEF CreateClaim
  <2>2. ASSUME NEW c \in Claims, DeleteDraftClaim(c)
        PROVE  LockOrder'
    BY <1>1, <1>4, <2>2 DEF DeleteDraftClaim
  <2>3. ASSUME NEW c \in Claims, CreateInvoice(c)
        PROVE  LockOrder'
    BY <1>1, <1>4, <2>3 DEF CreateInvoice
  <2>. QED
    BY <1>1, <1>12, <2>1, <2>2, <2>3 DEF ClaimNext, AdvanceClaim, SettleInvoice
<1>13. CASE ProjectNext
  BY <1>1, <1>13 DEF ProjectNext, CloseProject, ReopenProject, SetEntitlement
<1>14. CASE UNCHANGED vars
  BY <1>1, <1>14 DEF vars
<1>15. ASSUME NEW d \in Dockets, NEW p \in Projects \cup {None}, NEW c \in Contents,
              NEW next \in {"review"} \cup Posted, CreateDocket(d, p, next, c)
       PROVE  LockOrder'
  BY <1>1, <1>15 DEF CreateDocket
<1>. QED
  BY <1>5, <1>6, <1>7, <1>8, <1>9, <1>10, <1>11, <1>12, <1>13, <1>14, <1>15, CreatedDocket
  DEF Next, SaveNext, RemovalNext

\* Two saves never wait for each other's project rows (route.ts 247).
THEOREM NoDeadlock == Spec => []NoLockCycle
<1>1. Init => LockOrder
  BY RequestsAssumption DEF Init, LockOrder
<1>2. TypeOK /\ LockOrder /\ [Next]_vars => LockOrder'
  BY LockStep
<1>3. ASSUME TypeOK, LockOrder, NEW r \in Requests, NEW s \in Requests,
             WaitsFor(r, s), WaitsFor(s, r)
      PROVE  FALSE
  <2>1. PICK p \in ToLock(r): lock[p] = s /\ \A q \in ToLock(r): q < p => lock[q] = r
    BY <1>3 DEF WaitsFor
  <2>2. PICK q \in ToLock(s): lock[q] = r /\ \A u \in ToLock(s): u < q => lock[u] = s
    BY <1>3 DEF WaitsFor
  <2>3. p \in Projects /\ q \in Projects /\ r # s
    BY <1>3, <2>1, <2>2 DEF WaitsFor, ToLock, TypeOK, Form
  <2>4. p \in ToLock(s) /\ q \in ToLock(r)
    BY <1>3, <2>1, <2>2, <2>3 DEF LockOrder
  <2>5. ~(q < p) /\ ~(p < q) /\ p # q
    BY <1>3, <2>1, <2>2, <2>3, <2>4 DEF LockOrder
  <2>. QED
    BY <2>3, <2>5, ProjectsAssumption
<1>4. TypeOK /\ LockOrder => NoLockCycle
  BY <1>3 DEF NoLockCycle
<1>. QED
  BY <1>1, <1>2, <1>4, TypeCorrect, PTL DEF Spec

-----------------------------------------------------------------------------
(* Claims and closure                                                       *)

\* Only a live claim has lines, and a live claim is on a project.
LiveClaims ==
  /\ \A d \in Dockets: onClaim[d] # None => claimStatus[onClaim[d]] # "none"
  /\ \A c \in Claims: claimStatus[c] # "none" => claimProject[c] \in Projects

ClaimInv == ClaimHoldsItsDockets /\ LiveClaims /\ ClosedProjectHasNoOpenClaim

\* Every operation keeps the dockets of a claim with it, and closed projects settled.
LEMMA ClaimStep ==
  ASSUME TypeOK, HistoryInv, ClaimInv, [Next]_vars
  PROVE  ClaimInv'
<1> USE ClaimsAssumption
    DEF docketVars, claimVars, requestVars, ClaimInv, LiveClaims, TypeOK
<1>1. ASSUME UNCHANGED <<status, job, ledger, overtaken, uploaded, claimVars, stage>>
      PROVE  ClaimInv'
  BY <1>1 DEF ClaimHoldsItsDockets, ClosedProjectHasNoOpenClaim, Clean
<1>2. ASSUME NEW r \in Requests, NEW next \in {"review", "approved"}, NEW c \in Contents,
             NEW expected \in BOOLEAN, NEW reason \in BOOLEAN,
             CommitSave(r, next, c, expected, reason)
      PROVE  ClaimInv'
  <2> DEFINE d == form[r].docket
  <2>1. /\ d \in Dockets /\ status[d] \notin Claimed
        /\ job' = [job EXCEPT ![d] = form[r].to] /\ status' = [status EXCEPT ![d] = next]
        /\ uploaded' = [uploaded EXCEPT ![d] = "review"]
        /\ \A e \in Dockets \ {d}: ledger'[e] = ledger[e]
        /\ UNCHANGED <<overtaken, claimVars, stage>>
    BY <1>2 DEF CommitSave, Locked
  <2>2. Clean(d) => onClaim[d] = None
    BY <2>1 DEF ClaimHoldsItsDockets, Claimed
  <2>. QED
    BY <2>1, <2>2 DEF ClaimHoldsItsDockets, ClosedProjectHasNoOpenClaim, Clean, Claimed
<1>3. ASSUME NEW d \in Dockets, NEW p \in Projects \cup {None}, NEW c \in Contents,
             NEW next \in {"review"} \cup Posted, CreateDocket(d, p, next, c)
      PROVE  ClaimInv'
  <2>1. Clean(d) => onClaim[d] = None
    BY <1>3 DEF CreateDocket, ClaimHoldsItsDockets
  <2>2. \A k \in Keys: ledger[d][k].status = "none"
    BY <1>3 DEF CreateDocket, HistoryInv, UnbornHasNoRows
  <2>3. /\ \A e \in Dockets \ {d}: status'[e] = status[e] /\ uploaded'[e] = uploaded[e] /\ job'[e] = job[e]
        /\ status'[d] = next /\ uploaded'[d] = next
        /\ UNCHANGED <<ledger, claimVars, stage, overtaken>>
    BY <1>3 DEF CreateDocket
  <2>4. ClaimHoldsItsDockets'
    BY <2>1, <2>2, <2>3 DEF ClaimHoldsItsDockets, Clean
  <2>. QED
    BY <2>3, <2>4 DEF ClosedProjectHasNoOpenClaim
<1>4. ASSUME NEW r \in Requests, NEW kind \in {"deleting", "archiving"},
             NEW to \in {"deleted", "archived"}, Removal(r, kind, to)
      PROVE  ClaimInv'
  <2> DEFINE d == form[r].docket
  <2>1. /\ d \in Dockets /\ UNCHANGED <<job, ledger, uploaded, claimVars, stage>>
        /\ \A e \in Dockets \ {d}: status'[e] = status[e] /\ overtaken'[e] = overtaken[e]
        /\ ~overtaken'[d] => ~overtaken[d] /\ status[d] \notin Posted
        /\ status'[d] \in {status[d], to}
    BY <1>4 DEF Removal
  <2>2. ~overtaken'[d] => onClaim[d] = None
    BY <2>1 DEF ClaimHoldsItsDockets, Clean, Posted, Claimed
  <2>. QED
    BY <2>1, <2>2 DEF ClaimHoldsItsDockets, ClosedProjectHasNoOpenClaim, Clean, Claimed, Posted
<1>5. ASSUME NEW c \in Claims, NEW p \in Projects, NEW ds \in SUBSET Dockets,
             CreateClaim(c, p, ds)
      PROVE  ClaimInv'
  <2>1. ClaimHoldsItsDockets'
    BY <1>5 DEF CreateClaim, ClaimHoldsItsDockets, Clean, Claimed
  <2>2. LiveClaims' /\ ClosedProjectHasNoOpenClaim'
    BY <1>5 DEF CreateClaim, ClosedProjectHasNoOpenClaim, OpenClaim
  <2>. QED
    BY <2>1, <2>2
<1>6. ASSUME NEW c \in Claims, DeleteDraftClaim(c)
      PROVE  ClaimInv'
  <2>1. ClaimHoldsItsDockets'
    BY <1>6 DEF DeleteDraftClaim, ClaimHoldsItsDockets, Clean, Claimed, OnClaim
  <2>2. LiveClaims' /\ ClosedProjectHasNoOpenClaim'
    BY <1>6 DEF DeleteDraftClaim, ClosedProjectHasNoOpenClaim, OpenClaim
  <2>. QED
    BY <2>1, <2>2
<1>7. ASSUME NEW c \in Claims, NEW to \in {"draft", "internal_approval", "submitted", "certified"},
             AdvanceClaim(c, to)
      PROVE  ClaimInv'
  BY <1>7 DEF AdvanceClaim, ClaimHoldsItsDockets, ClosedProjectHasNoOpenClaim, Clean, OpenClaim
<1>8. ASSUME NEW c \in Claims, CreateInvoice(c)
      PROVE  ClaimInv'
  <2>1. ClaimHoldsItsDockets'
    BY <1>8 DEF CreateInvoice, ClaimHoldsItsDockets, Clean, Claimed, OnClaim, Exists
  <2>. QED
    BY <1>8, <2>1 DEF CreateInvoice, ClosedProjectHasNoOpenClaim, OpenClaim
<1>9. ASSUME NEW c \in Claims, SettleInvoice(c)
      PROVE  ClaimInv'
  BY <1>9 DEF SettleInvoice, ClaimHoldsItsDockets, ClosedProjectHasNoOpenClaim, Clean, OpenClaim
<1>10. CASE ProjectNext
  BY <1>10 DEF ProjectNext, CloseProject, ReopenProject, SetEntitlement, ClaimHoldsItsDockets,
     ClosedProjectHasNoOpenClaim, Clean, OpenClaim
<1>11. CASE UNCHANGED vars
  BY <1>1, <1>11 DEF vars
<1>12. CASE SaveNext
  <2>1. \/ UNCHANGED <<status, job, ledger, overtaken, uploaded, claimVars, stage>>
        \/ \E r \in Requests: SomeCommit(r)
    BY <1>12 DEF SaveNext, OpenForm, BeginSave, LockProject, AbandonSave, SomeCommit
  <2>. QED
    BY <1>1, <1>2, <2>1 DEF SomeCommit
<1>13. CASE RemovalNext
  BY <1>1, <1>4, <1>13 DEF RemovalNext, CheckRemoval, PerformDelete, PerformArchive
<1> HIDE DEF ClaimInv, LiveClaims, TypeOK
<1>14. CASE CreateNext
  BY <1>3, <1>14, CreatedDocket
<1>15. CASE ClaimNext
  BY <1>5, <1>6, <1>7, <1>8, <1>9, <1>15 DEF ClaimNext
<1>. QED
  BY <1>10, <1>11, <1>12, <1>13, <1>14, <1>15 DEF Next

\* In every state claims hold their dockets and closed projects are settled.
LEMMA ClaimInvariant == Spec => []ClaimInv
<1>1. Init => ClaimInv
  BY DEF Init, ClaimInv, LiveClaims, ClaimHoldsItsDockets, ClosedProjectHasNoOpenClaim, Claimed,
     OpenClaim
<1>2. TypeOK /\ HistoryInv /\ ClaimInv /\ [Next]_vars => ClaimInv'
  BY ClaimStep
<1>. QED
  BY <1>1, <1>2, TypeCorrect, HistoryInvariant, PTL DEF Spec

\* A docket on a claim is locked with it, in its project; a docket marked claimed
\* on no claim was uploaded so, costs nothing and stays as it is.
THEOREM ClaimedDocketsHeld == Spec => []ClaimHoldsItsDockets
  BY ClaimInvariant, PTL DEF ClaimInv

\* A project does not close over a claim that is not certified, and a closed
\* one gets none.
THEOREM ClosedMeansSettled == Spec => []ClosedProjectHasNoOpenClaim
  BY ClaimInvariant, PTL DEF ClaimInv

-----------------------------------------------------------------------------
(* Stale forms                                                              *)

\* A form whose version is current shows the docket's project and, unless
\* the docket was archived or deleted since, its status.
FreshForms ==
  \A r \in Requests: pc[r] \in {"form", "saving"} =>
    /\ form[r].status # "unborn"
    /\ form[r].fresh => /\ form[r].job = job[form[r].docket]
                        /\ status[form[r].docket] \in {form[r].status, "archived", "deleted"}

\* An outdated form differs from the form it was in nothing but its freshness.
LEMMA StaleForm ==
  ASSUME TypeOK, NEW ds, NEW r \in Requests
  PROVE  /\ Stale(ds)[r].status = form[r].status /\ Stale(ds)[r].job = form[r].job
         /\ Stale(ds)[r].docket = form[r].docket
         /\ Stale(ds)[r].fresh => form[r].fresh /\ form[r].docket \notin ds
<1>1. form[r] \in Form
  BY DEF TypeOK
<1>2. /\ Outdated(form[r]).status = form[r].status /\ Outdated(form[r]).job = form[r].job
      /\ Outdated(form[r]).docket = form[r].docket /\ ~Outdated(form[r]).fresh
  BY <1>1 DEF Outdated, Form
<1>. QED
  BY <1>1, <1>2 DEF Stale

\* Every operation keeps fresh forms in agreement with their dockets.
LEMMA FreshStep ==
  ASSUME TypeOK, FreshForms, [Next]_vars
  PROVE  FreshForms'
<1> USE DEF docketVars, claimVars, requestVars
<1>1. ASSUME NEW ds, UNCHANGED <<pc, job>>, form' = Stale(ds),
             \A d \in Dockets \ ds: status'[d] = status[d]
      PROVE  FreshForms'
  BY <1>1, StaleForm DEF FreshForms, TypeOK
<1>2. ASSUME UNCHANGED <<pc, form, job, status>>
      PROVE  FreshForms'
  BY <1>2 DEF FreshForms
<1>3. ASSUME NEW d \in Dockets, NEW p \in Projects \cup {None}, NEW c \in Contents,
             NEW next \in {"review"} \cup Posted, CreateDocket(d, p, next, c)
      PROVE  FreshForms'
  BY <1>3 DEF CreateDocket, FreshForms, TypeOK
<1>4. ASSUME NEW r \in Requests, NEW d \in Dockets, OpenForm(r, d)
      PROVE  FreshForms'
  <2> DEFINE f == [NoForm EXCEPT !.docket = d, !.status = status[d], !.job = job[d], !.fresh = TRUE]
  <2>1. f.docket = d /\ f.status = status[d] /\ f.job = job[d]
    BY DEF NoForm
  <2>2. /\ UNCHANGED <<job, status>> /\ Exists(d)
        /\ form' = [form EXCEPT ![r] = f] /\ pc' = [pc EXCEPT ![r] = "form"]
    BY <1>4 DEF OpenForm
  <2> HIDE DEF f
  <2>. QED
    BY <2>1, <2>2 DEF FreshForms, TypeOK, Exists
<1>5. ASSUME NEW r \in Requests, NEW to \in Projects \cup {None}, BeginSave(r, to)
      PROVE  FreshForms'
  <2> DEFINE f == form[r]
             d == f.docket
             g == [f EXCEPT !.from = job[d], !.to = to, !.on = projectsOn]
  <2>1. f \in Form /\ pc[r] = "form" /\ UNCHANGED <<job, status>>
    BY <1>5 DEF BeginSave, TypeOK
  <2>2. g.docket = d /\ g.status = f.status /\ g.job = f.job /\ g.fresh = f.fresh
    BY <2>1 DEF Form
  <2>3. \/ pc' = [pc EXCEPT ![r] = "saving"] /\ form' = [form EXCEPT ![r] = g]
        \/ pc' = [pc EXCEPT ![r] = "idle"] /\ form' = [form EXCEPT ![r] = NoForm]
    BY <1>5 DEF BeginSave, Finish
  <2> HIDE DEF g
  <2>. QED
    BY <2>1, <2>2, <2>3 DEF FreshForms, TypeOK
<1>6. ASSUME NEW r \in Requests, NEW next \in {"review", "approved"}, NEW c \in Contents,
             NEW expected \in BOOLEAN, NEW reason \in BOOLEAN,
             CommitSave(r, next, c, expected, reason)
      PROVE  FreshForms'
  <2> DEFINE d == form[r].docket
  <2>1. /\ d \in Dockets /\ pc' = [pc EXCEPT ![r] = "idle"]
        /\ form' = [Stale({d}) EXCEPT ![r] = NoForm]
        /\ \A e \in Dockets \ {d}: job'[e] = job[e] /\ status'[e] = status[e]
    BY <1>6 DEF CommitSave, Locked, Finish, TypeOK
  <2>2. \A s \in Requests \ {r}: pc'[s] = pc[s] /\ form'[s] = Stale({d})[s]
    BY <2>1, StaleType DEF TypeOK
  <2>3. pc'[r] = "idle"
    BY <2>1 DEF TypeOK
  <2>. QED
    BY <2>1, <2>2, <2>3, StaleForm DEF FreshForms, TypeOK
<1>7. ASSUME NEW r \in Requests, UNCHANGED <<job, status>>,
             pc' = [pc EXCEPT ![r] = "idle"] \/ pc' = [pc EXCEPT ![r] = "deleting"]
               \/ pc' = [pc EXCEPT ![r] = "archiving"],
             \A s \in Requests \ {r}: form'[s] = form[s]
      PROVE  FreshForms'
  BY <1>7 DEF FreshForms, TypeOK
<1>8. ASSUME NEW r \in Requests, NEW kind \in {"deleting", "archiving"},
             NEW to \in {"deleted", "archived"}, Removal(r, kind, to)
      PROVE  FreshForms'
  BY <1>8 DEF Removal, Finish, FreshForms, TypeOK
<1>9. CASE ClaimNext
  <2>1. ASSUME NEW c \in Claims, NEW p \in Projects, NEW ds \in SUBSET Dockets,
               CreateClaim(c, p, ds)
        PROVE  FreshForms'
    BY <1>1, <2>1 DEF CreateClaim
  <2>2. ASSUME NEW c \in Claims, DeleteDraftClaim(c)
        PROVE  FreshForms'
    BY <1>1, <2>2 DEF DeleteDraftClaim
  <2>3. ASSUME NEW c \in Claims, CreateInvoice(c)
        PROVE  FreshForms'
    BY <1>1, <2>3 DEF CreateInvoice
  <2>. QED
    BY <1>2, <1>9, <2>1, <2>2, <2>3 DEF ClaimNext, AdvanceClaim, SettleInvoice
<1>10. CASE ProjectNext
  BY <1>2, <1>10 DEF ProjectNext, CloseProject, ReopenProject, SetEntitlement
<1>11. CASE UNCHANGED vars
  BY <1>2, <1>11 DEF vars
<1>12. CASE SaveNext
  <2>1. ASSUME NEW r \in Requests, AbandonSave(r)
        PROVE  FreshForms'
    BY <1>7, <2>1 DEF AbandonSave, Finish, TypeOK
  <2>2. ASSUME NEW r \in Requests, NEW p \in Projects, LockProject(r, p)
        PROVE  FreshForms'
    BY <1>2, <2>2 DEF LockProject
  <2>. QED
    BY <1>4, <1>5, <1>6, <1>12, <2>1, <2>2 DEF SaveNext
<1>13. CASE RemovalNext
  <2>1. ASSUME NEW r \in Requests, NEW d \in Dockets, NEW kind \in {"deleting", "archiving"},
               CheckRemoval(r, d, kind)
        PROVE  FreshForms'
    BY <1>7, <2>1 DEF CheckRemoval, TypeOK
  <2>. QED
    BY <1>8, <1>13, <2>1 DEF RemovalNext, PerformDelete, PerformArchive
<1>. QED
  BY <1>3, <1>9, <1>10, <1>11, <1>12, <1>13, CreatedDocket DEF Next

\* A save that moves a docket was made against its current project and,
\* an archive apart, its current status (expectedUpdatedAt).
THEOREM StaleFormsRefused == Spec => StaleFormCannotMove
<1> DEFINE Refused == \A r \in Requests: LET d == form[r].docket IN
             (pc[r] = "saving" /\ pc'[r] = "idle" /\ d # None /\ job'[d] # job[d]) =>
               /\ form[r].job = job[d]
               /\ status[d] \in {form[r].status, "archived"}
<1>1. Init => FreshForms
  BY DEF Init, FreshForms
<1>2. TypeOK /\ FreshForms /\ [Next]_vars => FreshForms'
  BY FreshStep
<1>3. ASSUME TypeOK, FreshForms, [Next]_vars
      PROVE  Refused
  <2> USE DEF docketVars, claimVars, requestVars
  <2>1. CASE UNCHANGED job
    BY <2>1
  <2>2. CASE UNCHANGED pc
    BY <2>2
  <2>3. ASSUME NEW r \in Requests, NEW next \in {"review", "approved"}, NEW c \in Contents,
               NEW expected \in BOOLEAN, NEW reason \in BOOLEAN,
               CommitSave(r, next, c, expected, reason)
        PROVE  Refused
    <3> DEFINE d == form[r].docket
    <3>1. /\ d \in Dockets /\ \A s \in Requests \ {r}: pc'[s] = pc[s]
          /\ job' = [job EXCEPT ![d] = form[r].to] /\ job[d] = form[r].from
      BY <1>3, <2>3 DEF CommitSave, Locked, Finish, TypeOK
    <3>2. job'[d] # job[d] => form[r].fresh /\ Exists(d) /\ pc[r] = "saving"
      BY <1>3, <2>3, <3>1 DEF CommitSave, MayMove, Moved, Locked, TypeOK
    <3>3. job'[d] # job[d] => form[r].job = job[d] /\ status[d] \in {form[r].status, "archived"}
      BY <1>3, <3>1, <3>2 DEF FreshForms, Exists
    <3>. QED
      BY <3>1, <3>3
  <2>4. CASE SaveNext
    BY <2>1, <2>3, <2>4 DEF SaveNext, OpenForm, BeginSave, LockProject, AbandonSave
  <2>5. CASE RemovalNext
    BY <2>1, <2>5 DEF RemovalNext, CheckRemoval, PerformDelete, PerformArchive, Removal
  <2>6. CASE ClaimNext
    BY <2>1, <2>6 DEF ClaimNext, CreateClaim, DeleteDraftClaim, AdvanceClaim, CreateInvoice,
       SettleInvoice
  <2>7. CASE ProjectNext
    BY <2>1, <2>7 DEF ProjectNext, CloseProject, ReopenProject, SetEntitlement
  <2>8. ASSUME NEW d \in Dockets, NEW p \in Projects \cup {None}, NEW c \in Contents,
               NEW next \in {"review"} \cup Posted, CreateDocket(d, p, next, c)
        PROVE  Refused
    BY <2>2, <2>8 DEF CreateDocket
  <2>. QED
    BY <1>3, <2>1, <2>4, <2>5, <2>6, <2>7, <2>8, CreatedDocket DEF Next, vars
<1>4. TypeOK /\ FreshForms /\ [Next]_vars => [Refused]_vars
  BY <1>3
<1>. QED
  BY <1>1, <1>2, <1>4, TypeCorrect, PTL DEF Spec, StaleFormCannotMove

-----------------------------------------------------------------------------
(* The posted total                                                         *)

\* What the lines of a content come to.
Total(c) == IF c.amount # 0 THEN c.amount ELSE Itemised(c)

LEMMA LinesAreFinite == IsFiniteSet(Lines) /\ IsFiniteSet(Keys)
<1>1. IsFiniteSet(Items)
  BY ItemsAssumption
<1>2. IsFiniteSet({"TOTAL", "ADJ"})
  <2>1. IsFiniteSet({"TOTAL"} \cup {"ADJ"})
    BY FS_Singleton, FS_Union
  <2>2. {"TOTAL"} \cup {"ADJ"} = {"TOTAL", "ADJ"}
    OBVIOUS
  <2>. QED
    BY <2>1, <2>2
<1>3. IsFiniteSet(Lines)
  BY <1>1, <1>2, FS_Union DEF Lines
<1>4. IsFiniteSet(0..MaxSeq)
  BY MaxSeqAssumption, FS_Interval
<1>. QED
  BY <1>3, <1>4, FS_Product DEF Keys

\* docketCostLines: the lines come to the amount, or to the items without one.
LEMMA LinesComeToTotal ==
  ASSUME NEW c, c.items \in [Items -> Int], c.amount \in Int
  PROVE  /\ \A l \in Lines: CostAmount(c, l) \in Int
         /\ SumFunctionOnSet([l \in Lines |-> CostAmount(c, l)], Lines) = Total(c)
<1> DEFINE g == [l \in Lines |-> CostAmount(c, l)]
           Zero == \A i \in Items: c.items[i] = 0
<1>1. IsFiniteSet(Items) /\ "TOTAL" \notin Items /\ "ADJ" \notin Items
  BY ItemsAssumption
<1>2. Itemised(c) \in Int /\ (Zero => Itemised(c) = 0)
  <2>1. \A i \in Items: c.items[i] \in Int
    OBVIOUS
  <2>. QED
    BY <1>1, <2>1, SumIsInt, SumOfZeros DEF Itemised
<1>3. \A i \in Items: CostAmount(c, i) = c.items[i]
  BY <1>1 DEF CostAmount
<1>4. CostAmount(c, "TOTAL") = IF Zero THEN c.amount ELSE 0
  BY <1>1 DEF CostAmount
<1>5. CostAmount(c, "ADJ") = IF ~Zero /\ c.amount # 0 THEN c.amount - Itemised(c) ELSE 0
  BY <1>1 DEF CostAmount
<1>6. \A l \in Lines: CostAmount(c, l) \in Int
  BY <1>2, <1>3, <1>4, <1>5 DEF Lines
<1>7. /\ g["TOTAL"] = CostAmount(c, "TOTAL") /\ g["ADJ"] = CostAmount(c, "ADJ")
      /\ \A i \in Items: g[i] = c.items[i]
      /\ \A l \in Lines: g[l] \in Int
  BY <1>3, <1>6 DEF Lines
<1> HIDE DEF g
<1>8. SumFunctionOnSet(g, Lines) = g["TOTAL"] + SumFunctionOnSet(g, Lines \ {"TOTAL"})
  BY <1>7, LinesAreFinite, SumTakesAny DEF Lines
<1>9. SumFunctionOnSet(g, Lines \ {"TOTAL"}) = g["ADJ"] + SumFunctionOnSet(g, Items)
  <2>1. IsFiniteSet(Lines \ {"TOTAL"})
    BY LinesAreFinite, FS_Subset
  <2>2. "ADJ" \in Lines \ {"TOTAL"} /\ (Lines \ {"TOTAL"}) \ {"ADJ"} = Items
    BY <1>1 DEF Lines
  <2>3. \A l \in Lines \ {"TOTAL"}: g[l] \in Int
    BY <1>7
  <2>. QED
    BY <2>1, <2>2, <2>3, SumTakesAny
<1>10. SumFunctionOnSet(g, Items) = Itemised(c)
  BY <1>1, <1>7, SumsAgree DEF Itemised
<1>11. SumFunctionOnSet(g, Lines) = CostAmount(c, "TOTAL") + (CostAmount(c, "ADJ") + Itemised(c))
  BY <1>7, <1>8, <1>9, <1>10
<1>12. CostAmount(c, "TOTAL") + (CostAmount(c, "ADJ") + Itemised(c)) = Total(c)
  <2> HIDE DEF Zero
  <2>. QED
    BY <1>2, <1>4, <1>5 DEF Total
<1>. QED
  BY <1>6, <1>11, <1>12 DEF g

\* The actual rows of a docket are the lines of its content at its sequence.
Accounted(d) ==
  \A k \in Keys:
    /\ ledger[d][k].status = "actual" <=> k[2] = seq[d] /\ CostAmount(content[d], k[1]) # 0
    /\ ledger[d][k].status = "actual" => ledger[d][k].amount = CostAmount(content[d], k[1])

\* Then they come to its total.
LEMMA AccountedComesToTotal ==
  ASSUME TypeOK, NEW d \in Dockets, Accounted(d)
  PROVE  SumActual(d) = Total(content[d])
<1> DEFINE f == [k \in Keys |-> IF ledger[d][k].status = "actual" THEN ledger[d][k].amount ELSE 0]
           g == [l \in Lines |-> CostAmount(content[d], l)]
<1>1. content[d].items \in [Items -> Int] /\ content[d].amount \in Int
  BY ContentsAssumption DEF TypeOK, NoContent
<1>2. /\ \A l \in Lines: CostAmount(content[d], l) \in Int
      /\ SumFunctionOnSet(g, Lines) = Total(content[d])
  BY <1>1, LinesComeToTotal
<1>3. \A k \in Keys: k[1] \in Lines /\ k = <<k[1], k[2]>>
  BY DEF Keys
<1>4. PICK n \in 0..MaxSeq: n = seq[d]
  BY DEF TypeOK
<1>5. \A k \in Keys: f[k] = IF k[2] = n THEN CostAmount(content[d], k[1]) ELSE 0
  BY <1>4 DEF Accounted
<1>6. \A k \in Keys: f[k] \in Int
  BY <1>2, <1>3, <1>5
<1>7. \A l \in Lines: <<l, n>> \in Keys
  BY DEF Keys
<1>8. \A l \in Lines: g[l] \in Int /\ f[<<l, n>>] = g[l]
  BY <1>2, <1>5, <1>7
<1>9. /\ Paired(Lines, n) \in SUBSET Keys
      /\ \A k \in Keys \ Paired(Lines, n): f[k] = 0
  BY <1>3, <1>5, <1>7 DEF Paired
<1>10. SumActual(d) = SumFunctionOnSet(f, Keys)
  BY SumOverDomain DEF SumActual
<1> HIDE DEF f, g
<1>11. SumFunctionOnSet(f, Paired(Lines, n)) = SumFunctionOnSet(g, Lines)
  BY <1>8, LinesAreFinite, SumOverPairs
<1>12. SumFunctionOnSet(f, Keys) = SumFunctionOnSet(f, Paired(Lines, n))
  <2> DEFINE P == Paired(Lines, n)
  <2>1. P \in SUBSET Keys /\ \A k \in Keys \ P: f[k] = 0
    BY <1>9
  <2> HIDE DEF P
  <2>2. SumFunctionOnSet(f, Keys) = SumFunctionOnSet(f, P)
    BY <1>6, <2>1, LinesAreFinite, SumOfSome
  <2>. QED
    BY <2>2 DEF P
<1>. QED
  BY <1>2, <1>10, <1>11, <1>12

\* Projects stays enabled.
Steady == Entitlements = {TRUE}

\* The inductive invariant of the total: saves post, and a posted docket is
\* accounted for, unless it was uploaded so.
TotalInv ==
  /\ projectsOn /\ \A r \in Requests: pc[r] = "saving" => form[r].on
  /\ \A d \in Dockets:
       Clean(d) /\ status[d] \in Posted /\ uploaded[d] \notin Posted /\ job[d] # None => Accounted(d)

\* Every operation keeps posted dockets accounted for.
LEMMA TotalStep ==
  ASSUME Steady, TypeOK, ClaimInv, TotalInv, [Next]_vars
  PROVE  TotalInv'
<1> USE DEF docketVars, claimVars, requestVars
<1> DEFINE On == projectsOn /\ \A r \in Requests: pc[r] = "saving" => form[r].on
<1>1. ASSUME On', UNCHANGED <<job, seq, content, ledger, uploaded>>,
             \A d \in Dockets: overtaken[d] => overtaken'[d],
             \A d \in Dockets: ~overtaken'[d] /\ status'[d] \in Posted => status[d] \in Posted
      PROVE  TotalInv'
  BY <1>1 DEF TotalInv, Clean, Accounted
<1>2. ASSUME NEW r \in Requests, NEW next \in {"review", "approved"}, NEW c \in Contents,
             NEW expected \in BOOLEAN, NEW reason \in BOOLEAN,
             CommitSave(r, next, c, expected, reason)
      PROVE  TotalInv'
  <2>0. PICK d \in Dockets: d = form[r].docket
    BY <1>2 DEF CommitSave, Locked, TypeOK
  <2> DEFINE n == NextSeq(r, d)
             new == Upserted(Reversed(ledger[d]), c, form[r].to, n)
  <2>1. /\ pc[r] = "saving" /\ overtaken' = overtaken /\ projectsOn' = projectsOn
        /\ ledger' = [ledger EXCEPT ![d] = SeamLedger(r, d, next, c)]
        /\ seq' = [seq EXCEPT ![d] = n] /\ job' = [job EXCEPT ![d] = form[r].to]
        /\ content' = [content EXCEPT ![d] = c] /\ status' = [status EXCEPT ![d] = next]
        /\ pc' = [pc EXCEPT ![r] = "idle"] /\ form' = [Stale({d}) EXCEPT ![r] = NoForm]
    BY <1>2, <2>0 DEF CommitSave, Locked, Finish, TypeOK
  <2>2. On'
    <3>1. \A s \in Requests: Stale({d})[s].on = form[s].on
      BY DEF Stale, Outdated, TypeOK, Form
    <3>2. \A s \in Requests: pc'[s] = "saving" => s # r /\ pc[s] = "saving"
      BY <2>1 DEF TypeOK
    <3>3. \A s \in Requests \ {r}: form'[s] = Stale({d})[s]
      BY <2>1, StaleType
    <3>. QED
      BY <2>1, <3>1, <3>2, <3>3 DEF TotalInv
  <2>3. \A e \in Dockets \ {d}:
          /\ ledger'[e] = ledger[e] /\ seq'[e] = seq[e] /\ content'[e] = content[e]
          /\ status'[e] = status[e] /\ job'[e] = job[e] /\ uploaded'[e] = uploaded[e]
    BY <1>2, <2>0, <2>1 DEF CommitSave, TypeOK
  <2>4. ASSUME next = "approved", form[r].to # None
        PROVE  Accounted(d)'
    <3>1. SeamLedger(r, d, next, c) = new
      BY <2>1, <2>4 DEF SeamLedger, Approving, TotalInv
    <3>2. ledger'[d] = new /\ seq'[d] = n /\ content'[d] = c
      BY <2>1, <3>1 DEF TypeOK
    <3>3. ASSUME NEW k \in Keys
          PROVE  new[k] = IF k[2] = n /\ CostAmount(c, k[1]) # 0
                          THEN [project |-> form[r].to, amount |-> CostAmount(c, k[1]),
                                status |-> "actual"]
                          ELSE Reversed(ledger[d])[k]
      BY DEF Upserted
    <3>4. \A k \in Keys: Reversed(ledger[d])[k].status # "actual"
      BY <2>1, ReversedRow DEF TypeOK
    <3> HIDE DEF new, n
    <3>5. ASSUME NEW k \in Keys
          PROVE  /\ new[k].status = "actual" <=> k[2] = n /\ CostAmount(c, k[1]) # 0
                 /\ new[k].status = "actual" => new[k].amount = CostAmount(c, k[1])
      <4>1. CASE k[2] = n /\ CostAmount(c, k[1]) # 0
        <5>1. new[k] = [project |-> form[r].to, amount |-> CostAmount(c, k[1]),
                        status |-> "actual"]
          BY <3>3, <4>1
        <5>. QED
          BY <4>1, <5>1
      <4>2. CASE ~(k[2] = n /\ CostAmount(c, k[1]) # 0)
        <5>1. new[k] = Reversed(ledger[d])[k]
          BY <3>3, <4>2
        <5>. QED
          BY <3>4, <4>2, <5>1
      <4>. QED
        BY <4>1, <4>2
    <3>. QED
      BY <3>2, <3>5 DEF Accounted
  <2>5. status'[d] = next /\ job'[d] = form[r].to
    BY <2>1 DEF TypeOK
  <2>6. \A e \in Dockets \ {d}: Accounted(e) => Accounted(e)'
    BY <2>3 DEF Accounted
  <2>. QED
    BY <2>1, <2>2, <2>3, <2>4, <2>5, <2>6 DEF TotalInv, Clean, Posted, Claimed
<1>3. ASSUME NEW d \in Dockets, NEW p \in Projects \cup {None}, NEW c \in Contents,
             NEW next \in {"review"} \cup Posted, CreateDocket(d, p, next, c)
      PROVE  TotalInv'
  <2>1. /\ \A e \in Dockets \ {d}:
             /\ ledger'[e] = ledger[e] /\ seq'[e] = seq[e] /\ content'[e] = content[e]
             /\ status'[e] = status[e] /\ job'[e] = job[e] /\ uploaded'[e] = uploaded[e]
        /\ status'[d] = next /\ uploaded'[d] = next /\ overtaken' = overtaken
        /\ pc' = pc /\ form' = form /\ projectsOn' = projectsOn
    BY <1>3 DEF CreateDocket, TypeOK
  <2>2. \A e \in Dockets \ {d}: Accounted(e) => Accounted(e)'
    BY <2>1 DEF Accounted
  <2>. QED
    BY <2>1, <2>2 DEF TotalInv, Clean, Posted, Claimed
<1>4. ASSUME NEW r \in Requests, NEW kind, NEW to \in {"deleted", "archived"}, Removal(r, kind, to),
             kind \in {"deleting", "archiving"}
      PROVE  TotalInv'
  <2> DEFINE d == form[r].docket
  <2>1. d \in Dockets /\ UNCHANGED <<job, seq, content, ledger, projectsOn, uploaded>>
    BY <1>4 DEF Removal, TypeOK
  <2>2. \A e \in Dockets: /\ overtaken[e] => overtaken'[e]
                          /\ status'[e] \in Posted => status[e] \in Posted
    BY <1>4, <2>1 DEF Removal, TypeOK, Posted, Claimed
  <2>3. On'
    BY <1>4 DEF Removal, Finish, TypeOK, TotalInv
  <2>. QED
    BY <1>1, <2>1, <2>2, <2>3
<1>5. CASE ClaimNext
  <2>1. /\ UNCHANGED <<job, seq, content, ledger, overtaken, uploaded, projectsOn, pc>>
        /\ \/ form' = form
           \/ \E ds: form' = Stale(ds)
    BY <1>5 DEF ClaimNext, CreateClaim, DeleteDraftClaim, AdvanceClaim, CreateInvoice,
       SettleInvoice
  <2>2. \A ds: \A s \in Requests: Stale(ds)[s].on = form[s].on
    BY DEF Stale, Outdated, TypeOK, Form
  <2>3. On'
    BY <2>1, <2>2 DEF TotalInv
  <2>4. \A d \in Dockets: ~overtaken[d] /\ status'[d] \in Posted => status[d] \in Posted
    <3>1. ASSUME NEW c \in Claims, NEW p \in Projects, NEW ds \in SUBSET Dockets,
                 CreateClaim(c, p, ds), NEW d \in Dockets, status'[d] \in Posted
          PROVE  status[d] \in Posted
      BY <3>1 DEF CreateClaim, Posted
    <3>2. ASSUME NEW c \in Claims, DeleteDraftClaim(c), NEW d \in Dockets, status'[d] \in Posted
          PROVE  status[d] \in Posted
      BY <3>2 DEF DeleteDraftClaim, Posted, Claimed
    <3>3. ASSUME NEW c \in Claims, CreateInvoice(c), NEW d \in Dockets, ~overtaken[d],
                 status'[d] \in Posted
          PROVE  status[d] \in Posted
      <4>1. CASE onClaim[d] = c
        BY <4>1, <3>3, ClaimsAssumption DEF ClaimInv, ClaimHoldsItsDockets, Clean, Posted, Claimed
      <4>2. CASE onClaim[d] # c
        BY <3>3, <4>2 DEF CreateInvoice, OnClaim
      <4>. QED
        BY <4>1, <4>2
    <3>. QED
      BY <1>5, <3>1, <3>2, <3>3 DEF ClaimNext, AdvanceClaim, SettleInvoice
  <2>. QED
    BY <1>1, <2>1, <2>3, <2>4
<1>6. CASE ProjectNext
  <2>1. /\ UNCHANGED <<status, job, seq, content, ledger, overtaken, uploaded, pc, form>>
        /\ projectsOn' = projectsOn \/ projectsOn' \in Entitlements
    BY <1>6 DEF ProjectNext, CloseProject, ReopenProject, SetEntitlement
  <2>2. On'
    BY <2>1 DEF Steady, TotalInv
  <2>. QED
    BY <1>1, <2>1, <2>2
<1>7. CASE UNCHANGED vars
  BY <1>1, <1>7 DEF vars, TotalInv
<1>8. CASE SaveNext
  <2>1. ASSUME NEW r \in Requests,
               \/ \E d \in Dockets: OpenForm(r, d)
               \/ \E to \in Projects \cup {None}: BeginSave(r, to)
               \/ \E p \in Projects: LockProject(r, p)
               \/ AbandonSave(r)
        PROVE  TotalInv'
    <3>1. UNCHANGED <<status, job, seq, content, ledger, overtaken, uploaded, projectsOn>>
      BY <2>1 DEF OpenForm, BeginSave, LockProject, AbandonSave
    <3>2. \A s \in Requests \ {r}: pc'[s] = pc[s] /\ form'[s] = form[s]
      BY <2>1 DEF OpenForm, BeginSave, LockProject, AbandonSave, Finish, TypeOK
    <3>3. pc'[r] = "saving" => form'[r].on
      <4>1. ASSUME NEW d \in Dockets, OpenForm(r, d) PROVE pc'[r] # "saving"
        BY <4>1 DEF OpenForm, TypeOK
      <4>2. ASSUME NEW to \in Projects \cup {None}, BeginSave(r, to)
            PROVE  pc'[r] = "saving" => form'[r].on
        <5> DEFINE g == [form[r] EXCEPT !.from = job[form[r].docket], !.to = to, !.on = projectsOn]
        <5>1. g.on = projectsOn
          BY DEF TypeOK, Form
        <5>2. \/ form' = [form EXCEPT ![r] = g]
              \/ pc' = [pc EXCEPT ![r] = "idle"]
          BY <4>2 DEF BeginSave, Finish
        <5> HIDE DEF g
        <5>. QED
          BY <5>1, <5>2 DEF TypeOK, TotalInv
      <4>3. ASSUME NEW p \in Projects, LockProject(r, p) PROVE pc' = pc /\ form' = form
        BY <4>3 DEF LockProject
      <4>4. ASSUME AbandonSave(r) PROVE pc'[r] # "saving"
        BY <4>4 DEF AbandonSave, Finish, TypeOK
      <4>. QED
        BY <2>1, <4>1, <4>2, <4>3, <4>4 DEF TotalInv
    <3>4. On'
      BY <3>1, <3>2, <3>3 DEF TotalInv
    <3>. QED
      BY <1>1, <3>1, <3>4
  <2>. QED
    BY <1>2, <1>8, <2>1 DEF SaveNext
<1>9. CASE RemovalNext
  <2>1. ASSUME NEW r \in Requests, NEW d \in Dockets, NEW kind \in {"deleting", "archiving"},
               CheckRemoval(r, d, kind)
        PROVE  TotalInv'
    <3>1. UNCHANGED <<status, job, seq, content, ledger, overtaken, uploaded, projectsOn>>
      BY <2>1 DEF CheckRemoval
    <3>2. On'
      BY <2>1 DEF CheckRemoval, TypeOK, TotalInv
    <3>. QED
      BY <1>1, <3>1, <3>2
  <2>. QED
    BY <1>4, <1>9, <2>1 DEF RemovalNext, PerformDelete, PerformArchive
<1>10. CASE CreateNext
  BY <1>3, <1>10, CreatedDocket
<1>. QED
  BY <1>5, <1>6, <1>7, <1>8, <1>9, <1>10 DEF Next

\* As long as Projects stays enabled, the posted cost of an approved or claimed
\* docket is its amount, or its items when it has none, unless it was uploaded
\* so and never saved: no edit, move, claim or closure leaves a line behind,
\* posts one twice or loses the difference.
THEOREM TotalIsPosted == Steady /\ Spec => []PostedTotal
<1> SUFFICES ASSUME Steady PROVE Spec => []PostedTotal
  OBVIOUS
<1>1. Init => TotalInv
  BY DEF Init, TotalInv, Posted, Claimed
<1>2. TypeOK /\ ClaimInv /\ TotalInv /\ [Next]_vars => TotalInv'
  BY TotalStep
<1>3. TypeOK /\ TotalInv => PostedTotal
  BY AccountedComesToTotal DEF TotalInv, PostedTotal, Total
<1>. QED
  BY <1>1, <1>2, <1>3, TypeCorrect, ClaimInvariant, PTL DEF Spec

-----------------------------------------------------------------------------
(* What a docket costs                                                      *)

\* What reverseAll leaves costs nothing.
LEMMA ReversedCostsNothing ==
  ASSUME NEW rows \in [Keys -> Row]
  PROVE  EntriesOf(Reversed(rows)) = {}
  BY ReversedRow DEF EntriesOf

\* What the upserts then post is the bill of the content, in one project.
LEMMA UpsertedCosts ==
  ASSUME NEW rows \in [Keys -> Row], NEW c, NEW p, NEW n \in 0..MaxSeq
  PROVE  EntriesOf(Upserted(Reversed(rows), c, p, n))
           = Book!Entries(p, n, [l \in Lines |-> CostAmount(c, l)])
<1> DEFINE new == Upserted(Reversed(rows), c, p, n)
           bill == [l \in Lines |-> CostAmount(c, l)]
<1>1. ASSUME NEW k \in Keys
      PROVE  /\ new[k].status = "actual" <=> k[2] = n /\ CostAmount(c, k[1]) # 0
             /\ new[k].status = "actual" =>
                  new[k].project = p /\ new[k].amount = CostAmount(c, k[1])
  BY ReversedRow DEF Upserted
<1>2. \A k \in Keys: k[1] \in Lines /\ bill[k[1]] = CostAmount(c, k[1])
  BY DEF Keys
<1>3. \A l \in Lines: /\ <<l, n>> \in Keys /\ <<l, n>>[1] = l /\ <<l, n>>[2] = n
                      /\ bill[l] = CostAmount(c, l)
  BY DEF Keys
<1> HIDE DEF new, bill
<1>4. ASSUME NEW e \in EntriesOf(new)
      PROVE  e \in Book!Entries(p, n, bill)
  <2>1. PICK k \in Keys: /\ new[k].status = "actual"
                         /\ e = [project |-> new[k].project, posting |-> k[2], line |-> k[1],
                                 amount |-> new[k].amount]
    BY <1>4 DEF EntriesOf
  <2>. QED
    BY <1>1, <1>2, <2>1 DEF Book!Entries
<1>5. ASSUME NEW e \in Book!Entries(p, n, bill)
      PROVE  e \in EntriesOf(new)
  <2>1. PICK l \in Lines: /\ bill[l] # 0
                          /\ e = [project |-> p, posting |-> n, line |-> l, amount |-> bill[l]]
    BY <1>5 DEF Book!Entries
  <2>2. PICK k \in Keys: k = <<l, n>>
    BY <1>3
  <2>3. k[1] = l /\ k[2] = n /\ new[k].status = "actual" /\ new[k].project = p
        /\ new[k].amount = bill[l]
    BY <1>1, <1>3, <2>1, <2>2
  <2>. QED
    BY <2>1, <2>3 DEF EntriesOf
<1>. QED
  BY <1>4, <1>5 DEF new, bill

\* What a docket costs it costs the project it is on, while it is posted.
LEMMA CostsWhereItIs ==
  ASSUME ActualRowsMatchAllocation, NEW d \in Dockets, d \notin Lost
  PROVE  \A e \in Costs[d]: status[d] \in Posted /\ e.project = job[d]
<1>1. ASSUME NEW e \in EntriesOf(ledger[d])
      PROVE  status[d] \in Posted /\ e.project = job[d]
  <2>1. PICK k \in Keys: ledger[d][k].status = "actual" /\ e.project = ledger[d][k].project
    BY <1>1 DEF EntriesOf
  <2>. QED
    BY <2>1 DEF ActualRowsMatchAllocation, Clean, Lost
<1>. QED
  BY <1>1 DEF Costs

\* A save charges the docket, retracts what it cost, or leaves the book alone.
LEMMA SaveKeepsBook ==
  ASSUME TypeOK, ActualRowsMatchAllocation,
         NEW r \in Requests, NEW next \in {"review", "approved"}, NEW c \in Contents,
         NEW expected \in BOOLEAN, NEW reason \in BOOLEAN,
         CommitSave(r, next, c, expected, reason)
  PROVE  Book!Next \/ UNCHANGED <<Costs, ClosedProjects, Held, Lost>>
<1> DEFINE d == form[r].docket
           n == NextSeq(r, d)
           rows == ledger[d]
           to == form[r].to
           new == SeamLedger(r, d, next, c)
           bill == [l \in Lines |-> CostAmount(c, l)]
<1>1. /\ d \in Dockets /\ to \in Projects \cup {None} /\ rows \in [Keys -> Row]
      /\ status[d] \notin Claimed /\ job[d] = form[r].from
      /\ SeamAllows(r, d, next) /\ n \in 0..MaxSeq
      /\ ledger' = [ledger EXCEPT ![d] = new] /\ status' = [status EXCEPT ![d] = next]
      /\ UNCHANGED <<stage, overtaken>>
  <2>1. d \in Dockets /\ form[r] \in Form /\ seq[d] \in 0..MaxSeq /\ n <= MaxSeq
    BY DEF CommitSave, Locked, TypeOK
  <2>2. n \in 0..MaxSeq
    BY <2>1, MaxSeqAssumption DEF NextSeq
  <2>. QED
    BY <2>1, <2>2 DEF CommitSave, TypeOK, Form
<1>2. /\ Costs' = [Costs EXCEPT ![d] = EntriesOf(new)]
      /\ UNCHANGED <<ClosedProjects, Held, Lost>>
  <2>1. Costs' = [Costs EXCEPT ![d] = EntriesOf(new)]
    BY <1>1 DEF Costs, TypeOK
  <2>2. Held' = Held
    BY <1>1 DEF Held, Claimed, TypeOK
  <2>. QED
    BY <1>1, <2>1, <2>2 DEF ClosedProjects, Lost
<1>3. d \notin Held
  BY <1>1 DEF Held
<1> HIDE DEF new, bill
<1>4. CASE new = rows
  <2>1. Costs' = Costs
    BY <1>1, <1>2, <1>4 DEF Costs
  <2>. QED
    BY <1>2, <2>1
<1>5. CASE new = Reversed(rows)
  <2>1. Costs' = [Costs EXCEPT ![d] = {}]
    BY <1>1, <1>2, <1>5, ReversedCostsNothing
  <2>. QED
    BY <1>1, <1>2, <1>3, <2>1 DEF Book!Next, Book!Retract
<1>6. CASE next = "approved" /\ to # None /\ form[r].on /\ new = Upserted(Reversed(rows), c, to, n)
  <2>1. to \in Projects \ ClosedProjects
    BY <1>1, <1>6 DEF SeamAllows, ClosedProjects
  <2>2. d \in Lost \/ Book!CostsOnly(d, Projects \ ClosedProjects)
    <3> SUFFICES ASSUME d \notin Lost, NEW e \in Costs[d]
                 PROVE  e.project \in Projects \ ClosedProjects
      BY DEF Book!CostsOnly
    <3>1. status[d] = "approved" /\ e.project = form[r].from
      BY <1>1, CostsWhereItIs DEF Posted
    <3>2. e.project \in Projects
      <4>1. PICK k \in Keys: ledger[d][k].status = "actual" /\ e.project = ledger[d][k].project
        BY <1>1 DEF Costs, EntriesOf
      <4>. QED
        BY <1>1, <3>1, <4>1 DEF ActualRowsMatchAllocation, Clean, Lost, TypeOK
    <3>3. form[r].from # None
      BY <3>1, <3>2, ProjectsAssumption
    <3>4. stage[form[r].from] # "closed"
      BY <1>1, <2>1, <3>1, <3>3 DEF SeamAllows, Moved, ClosedProjects
    <3>. QED
      BY <3>1, <3>2, <3>4 DEF ClosedProjects
  <2>3. Costs' = [Costs EXCEPT ![d] = Book!Entries(to, n, bill)]
    BY <1>1, <1>2, <1>6, UpsertedCosts DEF bill
  <2>4. bill \in {[l \in Lines |-> CostAmount(x, l)]: x \in Contents}
    BY DEF bill
  <2>5. Book!Charge(d, to)
    BY <1>1, <1>2, <1>3, <2>1, <2>2, <2>3, <2>4 DEF Book!Charge
  <2>. QED
    BY <1>1, <2>1, <2>5 DEF Book!Next
<1>. QED
  BY <1>4, <1>5, <1>6 DEF SeamLedger, Approving, new

\* A delete or an archive loses a posted docket, and touches no other's cost.
LEMMA RemovalKeepsBook ==
  ASSUME TypeOK, NEW r \in Requests, NEW kind \in {"deleting", "archiving"},
         NEW to \in {"deleted", "archived"}, Removal(r, kind, to)
  PROVE  Book!Next \/ UNCHANGED <<Costs, ClosedProjects, Held, Lost>>
<1> DEFINE d == form[r].docket
<1>1. /\ d \in Dockets
      /\ status' = IF Exists(d) THEN [status EXCEPT ![d] = to] ELSE status
      /\ overtaken' = [overtaken EXCEPT ![d] = @ \/ status[d] \in Posted]
      /\ UNCHANGED <<ledger, stage>>
  BY DEF Removal, TypeOK
<1>2. UNCHANGED <<Costs, ClosedProjects>>
  BY <1>1 DEF Costs, ClosedProjects
<1>3. CASE status[d] \in Posted
  <2>1. Exists(d)
    BY <1>3 DEF Exists, Posted, Claimed
  <2>2. Held' = Held \ {d}
    BY <1>1, <2>1 DEF Held, Claimed, TypeOK
  <2>3. Lost' = Lost \cup {d}
    BY <1>1, <1>3 DEF Lost, TypeOK
  <2>. QED
    BY <1>1, <1>2, <2>2, <2>3 DEF Book!Next, Book!Lose
<1>4. CASE status[d] \notin Posted
  <2>1. Held' = Held
    BY <1>1, <1>4 DEF Held, Posted, Claimed, TypeOK
  <2>2. Lost' = Lost
    BY <1>1, <1>4 DEF Lost, TypeOK
  <2>. QED
    BY <1>2, <2>1, <2>2
<1>. QED
  BY <1>3, <1>4

\* Claims hold dockets that cost their project, and release them.
LEMMA ClaimsKeepBook ==
  ASSUME TypeOK, ActualRowsMatchAllocation, ClaimInv, ClaimNext
  PROVE  Book!Next \/ UNCHANGED <<Costs, ClosedProjects, Held, Lost>>
<1> USE ClaimsAssumption
<1>1. UNCHANGED <<Costs, ClosedProjects, Lost>>
  BY DEF ClaimNext, CreateClaim, DeleteDraftClaim, AdvanceClaim, CreateInvoice, SettleInvoice,
     docketVars, requestVars, Costs, ClosedProjects, Lost
<1>2. ASSUME NEW c \in Claims, NEW p \in Projects, NEW ds \in SUBSET Dockets,
             CreateClaim(c, p, ds)
      PROVE  Book!Hold(ds, p)
  <2>1. Held' = Held \cup ds
    BY <1>2 DEF CreateClaim, Held, Claimed, TypeOK
  <2>2. \A d \in ds \ Lost: Book!CostsOnly(d, {p})
    BY <1>2, CostsWhereItIs DEF CreateClaim, Book!CostsOnly
  <2>. QED
    BY <1>1, <2>1, <2>2 DEF Book!Hold
<1>3. ASSUME NEW c \in Claims, DeleteDraftClaim(c)
      PROVE  \E ds \in SUBSET Dockets: Book!Release(ds)
  <2> DEFINE ds == {d \in OnClaim(c): status[d] = "included_claim"}
  <2>1. ds \in SUBSET Dockets /\ Held' = Held \ ds
    BY <1>3 DEF DeleteDraftClaim, Held, Claimed, OnClaim, TypeOK
  <2>. QED
    BY <1>1, <2>1 DEF Book!Release
<1>4. ASSUME NEW c \in Claims, CreateInvoice(c)
      PROVE  \E ds \in SUBSET Dockets, p \in Projects: Book!Hold(ds, p)
  <2> DEFINE ds == {d \in OnClaim(c): Exists(d)}
             p == claimProject[c]
  <2>1. p \in Projects
    BY <1>4 DEF CreateInvoice, ClaimInv, LiveClaims
  <2>2. ds \in SUBSET Dockets /\ Held' = Held \cup ds
    BY <1>4 DEF CreateInvoice, Held, Claimed, OnClaim, TypeOK
  <2>3. \A d \in ds: d \in Dockets /\ onClaim[d] = c
    BY DEF OnClaim
  <2>4. \A d \in ds \ Lost: job[d] = p
    BY <2>3 DEF ClaimInv, ClaimHoldsItsDockets, Clean, Lost
  <2>5. \A d \in ds \ Lost: Book!CostsOnly(d, {p})
    BY <2>3, <2>4, CostsWhereItIs DEF Book!CostsOnly
  <2>. QED
    BY <1>1, <2>1, <2>2, <2>5 DEF Book!Hold
<1>5. ASSUME NEW c \in Claims,
             SettleInvoice(c) \/ \E to \in {"draft", "internal_approval", "submitted", "certified"}:
                                   AdvanceClaim(c, to)
      PROVE  Held' = Held
  BY <1>5 DEF SettleInvoice, AdvanceClaim, docketVars, Held
<1>. QED
  BY <1>1, <1>2, <1>3, <1>4, <1>5 DEF ClaimNext, Book!Next

\* Whatever edits, moves, claims and closures interleave, a docket costs one
\* project at most, each priced line once; that changes in one step, never with
\* a closed project on either side and never while the docket is claimed.
THEOREM BookIsKept == Spec => KeepsBook
<1>1. Init => Book!Init
  BY DEF Init, Book!Init, Costs, EntriesOf, NoRow, ClosedProjects, Held, Claimed, Lost
<1>2. ASSUME TypeOK, HistoryInv, ActualRowsMatchAllocation, ClaimInv, [Next]_vars
      PROVE  [Book!Next]_<<Costs, ClosedProjects, Held, Lost>>
  <2> USE DEF docketVars, claimVars, requestVars
  <2>1. ASSUME UNCHANGED <<ledger, stage, status, overtaken>>
        PROVE  UNCHANGED <<Costs, ClosedProjects, Held, Lost>>
    BY <2>1 DEF Costs, ClosedProjects, Held, Lost
  <2>2. CASE CreateNext
    <3>1. PICK d \in Dockets, p \in Projects \cup {None}, c \in Contents,
               next \in {"review"} \cup Posted: CreateDocket(d, p, next, c)
      BY <2>2, CreatedDocket
    <3>2. UNCHANGED <<Costs, ClosedProjects, Lost>>
      BY <3>1 DEF CreateDocket, Costs, ClosedProjects, Lost
    <3>3. CASE next \in Claimed
      <4>1. Held' = Held \cup {d}
        BY <1>2, <3>1, <3>3 DEF CreateDocket, Held, TypeOK
      <4>2. \A k \in Keys: ledger[d][k].status # "actual"
        BY <1>2, <3>1 DEF CreateDocket, HistoryInv, UnbornHasNoRows
      <4>3. Costs[d] = {}
        BY <4>2 DEF Costs, EntriesOf
      <4>. QED
        BY <3>2, <4>1, <4>3 DEF Book!Next, Book!HoldUncharged
    <3>4. CASE next \notin Claimed
      <4>1. Held' = Held
        BY <1>2, <3>1, <3>4 DEF CreateDocket, Held, Claimed, TypeOK
      <4>. QED
        BY <3>2, <4>1
    <3>. QED
      BY <3>3, <3>4
  <2>3. CASE SaveNext
    <3>1. UNCHANGED <<ledger, stage, status, overtaken>> \/ \E r \in Requests: SomeCommit(r)
      BY <2>3 DEF SaveNext, OpenForm, BeginSave, LockProject, AbandonSave, SomeCommit
    <3>. QED
      BY <1>2, <2>1, <3>1, SaveKeepsBook DEF SomeCommit
  <2>4. CASE RemovalNext
    <3>1. \/ UNCHANGED <<ledger, stage, status, overtaken>>
          \/ \E r \in Requests: Removal(r, "deleting", "deleted") \/ Removal(r, "archiving", "archived")
      BY <2>4 DEF RemovalNext, CheckRemoval, PerformDelete, PerformArchive
    <3>. QED
      BY <1>2, <2>1, <3>1, RemovalKeepsBook
  <2>5. CASE ClaimNext
    BY <1>2, <2>5, ClaimsKeepBook
  <2>6. CASE ProjectNext
    <3>1. ASSUME NEW p \in Projects, CloseProject(p) \/ ReopenProject(p)
          PROVE  Book!CloseOrReopen(p)
      <4>1. UNCHANGED <<Costs, Held, Lost>>
        BY <3>1 DEF CloseProject, ReopenProject, Costs, Held, Lost
      <4>2. ClosedProjects' \in {ClosedProjects \cup {p}, ClosedProjects \ {p}}
        BY <1>2, <3>1 DEF CloseProject, ReopenProject, ClosedProjects, TypeOK
      <4>. QED
        BY <4>1, <4>2 DEF Book!CloseOrReopen
    <3>2. ASSUME NEW on, SetEntitlement(on)
          PROVE  UNCHANGED <<ledger, stage, status, overtaken>>
      BY <3>2 DEF SetEntitlement
    <3>. QED
      BY <2>1, <2>6, <3>1, <3>2 DEF ProjectNext, Book!Next
  <2>7. CASE UNCHANGED vars
    BY <2>1, <2>7 DEF vars
  <2>. QED
    BY <1>2, <2>2, <2>3, <2>4, <2>5, <2>6, <2>7 DEF Next
<1>3. TypeOK /\ HistoryInv /\ ActualRowsMatchAllocation /\ ClaimInv /\ [Next]_vars
        => [Book!Next]_<<Costs, ClosedProjects, Held, Lost>>
  BY <1>2
<1>. QED
  BY <1>1, <1>3, TypeCorrect, HistoryInvariant, LedgerMatchesAllocation, ClaimInvariant, PTL
     DEF Spec, KeepsBook, Book!Spec
=============================================================================
