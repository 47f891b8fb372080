------------------------------- MODULE Claims -------------------------------
(***************************************************************************)
(* Progress claims, retention and client invoices of one project.          *)
(* Source: lib/modules/commercial/claims.ts, the claim arithmetic of       *)
(* lib/platform/finance.ts and the claim and invoice machines of           *)
(* lib/platform/workflow.ts.                                               *)
(*                                                                         *)
(* Preparing a claim holds the project row and certifying one holds only   *)
(* the claim row, so the two run side by side: each is a step that reads   *)
(* its snapshot and a step that writes.  Money is in whole cents, net of   *)
(* GST; the retention terms do not change.                                 *)
(***************************************************************************)
EXTENDS Integers, Sequences, FiniteSetsExt

CONSTANTS
  Sources,        \* the contract baseline and the approved variations
  Other,          \* docket charges and free-text lines, which have no limit
  Value,          \* contract or approved value of each source, in cents
  Inputs,         \* claims a user may ask for: lines and a retention release
  Certifications, \* gross amounts the client may certify
  Payments,       \* amounts of payments received
  Pct, Cap,       \* retention percentage and cap in cents
  MaxClaims       \* bound on claim numbers

ASSUME SourcesAssumption == Other \notin Sources /\ Value \in [Sources -> Int]
\* The route drops zero lines and refuses a claim with neither line nor release.
ASSUME InputsAssumption == \A x \in Inputs:
  /\ x.release \in Nat
  /\ x.lines \in Seq([source: Sources \cup {Other}, amount: Int \ {0}])
  /\ x.lines # <<>> \/ x.release > 0
ASSUME CertificationsAssumption == Certifications \subseteq Nat
ASSUME PaymentsAssumption == Payments \subseteq Nat \ {0}
ASSUME TermsAssumption == Pct \in 0..100 /\ Cap \in Nat
ASSUME MaxClaimsAssumption == MaxClaims \in Nat

VARIABLES
  closed,     \* jobs.stage = 'closed'
  claim,      \* progress_claims and their claim_lines, by number
  invoice,    \* client_invoices, by the number of their claim
  preparing,  \* the createClaim transaction holding the project row, if any
  certifying, \* the certifyClaim transaction holding each claim row, if any
  late        \* history: a claim was certified after a later one was prepared

vars == <<closed, claim, invoice, preparing, certifying, late>>

Numbers == 1..MaxClaims
Unsent == {"draft", "internal_approval"}
Billed == {"invoiced", "paid"}
ClaimStatuses == {"none", "submitted", "certified"} \cup Unsent \cup Billed
InvoiceStatuses == {"none", "draft", "issued", "part_paid", "paid", "void"}

Line == [source: Sources \cup {Other}, amount: Int, toDate: Int]
Claim == [status: ClaimStatuses, lines: Seq(Line), gross: Int, withheld: Nat, released: Nat,
          net: Int, certRet: Nat, certNet: Int]
NoClaim == [status |-> "none", lines |-> <<>>, gross |-> 0, withheld |-> 0, released |-> 0,
            net |-> 0, certRet |-> 0, certNet |-> 0]
Invoice == [status: InvoiceStatuses, total: Int, paid: Nat]
NoInvoice == [status |-> "none", total |-> 0, paid |-> 0]

Idle == [busy |-> FALSE]
Preparation == [busy: {TRUE}, input: Inputs, held: Int, previous: [Sources -> Int]] \cup {Idle}
Certification == [busy: {TRUE}, amount: Certifications, held: Int] \cup {Idle}

TypeOK ==
  /\ closed \in BOOLEAN
  /\ claim \in [Numbers -> Claim]
  /\ invoice \in [Numbers -> Invoice]
  /\ preparing \in Preparation
  /\ certifying \in [Numbers -> Certification]
  /\ late \in BOOLEAN

Init ==
  /\ closed = FALSE
  /\ claim = [n \in Numbers |-> NoClaim]
  /\ invoice = [n \in Numbers |-> NoInvoice]
  /\ preparing = Idle
  /\ certifying = [n \in Numbers |-> Idle]
  /\ late = FALSE

-----------------------------------------------------------------------------
(* Claim arithmetic                                                         *)

Exists(n) == claim[n].status # "none"

\* What claim n takes of source s, and what all claims take.
Taken(n, s) ==
  LET lines == claim[n].lines
  IN  SumFunction([i \in DOMAIN lines |-> IF lines[i].source = s THEN lines[i].amount ELSE 0])
PreviousClaimed(s) == SumFunction([n \in Numbers |-> Taken(n, s)])

\* Mutant: a line is compared with the whole value.
LineAllowedAlone(l, previous) ==
  l.source \in Sources =>
    /\ l.amount < 0 => -l.amount <= previous[l.source]
    /\ Value[l.source] >= 0 => l.amount <= Value[l.source]

\* claimLine: a credit is limited by what was claimed, a charge on a line of
\* positive value by what remains.
LineAllowed(l, previous) ==
  l.source \in Sources =>
    /\ l.amount < 0 => -l.amount <= previous[l.source]
    /\ Value[l.source] >= 0 => l.amount <= Value[l.source] - previous[l.source]

HoldsRetention(n) == claim[n].status \in {"submitted", "certified"} \cup Billed

\* retentionHeld: the certified retention once certified, less the releases.
RetentionOf(n) ==
  IF ~HoldsRetention(n) THEN 0
  ELSE (IF claim[n].status = "submitted" THEN claim[n].withheld ELSE claim[n].certRet)
       - claim[n].released
Held(ns) == SumFunctionOnSet([n \in Numbers |-> RetentionOf(n)], ns)
\* Mutant: number <= ? instead of number < ?
HeldThrough(n) == Held({m \in Numbers: m <= n})
HeldBefore(n) == Held({m \in Numbers: m < n})

\* Mutant: the cap is compared with this claim's retention only.
WithheldAlone(gross, held) ==
  LET wanted == (gross * Pct + 50) \div 100
  IN  IF gross <= 0 THEN 0 ELSE IF wanted < Cap THEN wanted ELSE Cap
\* retention: a percentage of a positive gross, limited by the room under the
\* cap; a release may not exceed what is held.
Withheld(gross, held) ==
  LET wanted == (gross * Pct + 50) \div 100
      room == IF Cap > held THEN Cap - held ELSE 0
  IN  IF gross <= 0 THEN 0 ELSE IF wanted < room THEN wanted ELSE room
ReleaseAllowed(release, held) == release <= held

-----------------------------------------------------------------------------
(* Claims                                                                   *)

\* createClaim up to its writes: under the project row lock, one snapshot
\* gives the open claim, the claimed amounts and the retention held.
BeginCreate(x) ==
  LET previous == [s \in Sources |-> PreviousClaimed(s)] IN
  /\ ~preparing.busy /\ ~closed
  /\ \A n \in Numbers: claim[n].status \notin Unsent
  /\ \E n \in Numbers: ~Exists(n)
  /\ \A i \in DOMAIN x.lines: LineAllowed(x.lines[i], previous)
  /\ ReleaseAllowed(x.release, Held(Numbers))
  /\ preparing' = [busy |-> TRUE, input |-> x, held |-> Held(Numbers), previous |-> previous]
  /\ UNCHANGED <<closed, claim, invoice, certifying, late>>

Existing == {n \in Numbers: Exists(n)}
NextNumber == IF Existing = {} THEN 1 ELSE Max(Existing) + 1

\* claimLine's claimed to date.
Recorded(l, previous) ==
  [source |-> l.source, amount |-> l.amount,
   toDate |-> l.amount + (IF l.source \in Sources THEN previous[l.source] ELSE 0)]

\* createClaim: the inserts and the commit.
CommitCreate ==
  LET x == preparing.input
      gross == SumFunction([i \in DOMAIN x.lines |-> x.lines[i].amount])
      kept == Withheld(gross, preparing.held)
  IN
  /\ preparing.busy
  /\ claim' = [claim EXCEPT ![NextNumber] =
       [status |-> "draft",
        lines |-> [i \in DOMAIN x.lines |-> Recorded(x.lines[i], preparing.previous)],
        gross |-> gross, withheld |-> kept, released |-> x.release,
        net |-> gross - kept + x.release, certRet |-> 0, certNet |-> 0]]
  /\ preparing' = Idle
  /\ UNCHANGED <<closed, invoice, certifying, late>>

AbortCreate ==
  /\ preparing.busy
  /\ preparing' = Idle
  /\ UNCHANGED <<closed, claim, invoice, certifying, late>>

DeleteDraftClaim(n) ==
  /\ claim[n].status = "draft"
  /\ claim' = [claim EXCEPT ![n] = NoClaim]
  /\ UNCHANGED <<closed, invoice, preparing, certifying, late>>

ClaimEdges == {<<"draft", "internal_approval">>, <<"internal_approval", "draft">>,
               <<"internal_approval", "submitted">>}

TransitionClaim(n, to) ==
  /\ ~closed
  /\ <<claim[n].status, to>> \in ClaimEdges
  /\ claim' = [claim EXCEPT ![n].status = to]
  /\ UNCHANGED <<closed, invoice, preparing, certifying, late>>

\* certifyClaim up to its write: under the claim row lock, the retention held
\* on the claims with a lower number.
BeginCertify(n, amount) ==
  /\ claim[n].status = "submitted" /\ ~certifying[n].busy
  /\ ReleaseAllowed(claim[n].released, HeldBefore(n))
  /\ certifying' = [certifying EXCEPT ![n] =
       [busy |-> TRUE, amount |-> amount, held |-> HeldBefore(n)]]
  /\ UNCHANGED <<closed, claim, invoice, preparing, late>>

\* certifyClaim: retention is worked out again on the certified gross.
CommitCertify(n) ==
  LET kept == Withheld(certifying[n].amount, certifying[n].held) IN
  /\ certifying[n].busy
  /\ claim' = [claim EXCEPT ![n].status = "certified", ![n].certRet = kept,
                            ![n].certNet = certifying[n].amount - kept + claim[n].released]
  /\ certifying' = [certifying EXCEPT ![n] = Idle]
  /\ late' = (late \/ preparing.busy \/ \E m \in Numbers: m > n /\ Exists(m))
  /\ UNCHANGED <<closed, invoice, preparing>>

AbortCertify(n) ==
  /\ certifying[n].busy
  /\ certifying' = [certifying EXCEPT ![n] = Idle]
  /\ UNCHANGED <<closed, claim, invoice, preparing, late>>

-----------------------------------------------------------------------------
(* Invoices                                                                 *)

\* createInvoice, on the certified net; claim_id is unique over all invoices.
CreateInvoice(n) ==
  /\ claim[n].status = "certified" /\ invoice[n].status = "none"
  /\ invoice' = [invoice EXCEPT ![n] = [status |-> "draft", total |-> claim[n].certNet, paid |-> 0]]
  /\ claim' = [claim EXCEPT ![n].status = "invoiced"]
  /\ UNCHANGED <<closed, preparing, certifying, late>>

\* Mutant: a part-paid invoice can be made void.
InvoiceEdgesVoidPartPaid ==
  {<<"draft", "issued">>, <<"draft", "void">>, <<"issued", "void">>, <<"part_paid", "void">>}

\* invoiceAction issue and void.
InvoiceEdges == {<<"draft", "issued">>, <<"draft", "void">>, <<"issued", "void">>}
MoveInvoice(n, to) ==
  /\ <<invoice[n].status, to>> \in InvoiceEdges
  /\ invoice' = [invoice EXCEPT ![n].status = to]
  /\ UNCHANGED <<closed, claim, preparing, certifying, late>>

\* invoiceAction payment: never more than is outstanding; the machine has no
\* edge from part_paid to part_paid.
PaymentEdges == {<<"issued", "part_paid">>, <<"issued", "paid">>, <<"part_paid", "paid">>}
PayInvoice(n, amount) ==
  LET paid == invoice[n].paid + amount
      to == IF paid >= invoice[n].total THEN "paid" ELSE "part_paid"
  IN
  /\ paid <= invoice[n].total
  /\ <<invoice[n].status, to>> \in PaymentEdges
  /\ invoice' = [invoice EXCEPT ![n].status = to, ![n].paid = paid]
  /\ claim' = IF to = "paid" /\ claim[n].status = "invoiced"
              THEN [claim EXCEPT ![n].status = "paid"] ELSE claim
  /\ UNCHANGED <<closed, preparing, certifying, late>>

-----------------------------------------------------------------------------
(* Closure: the claim and invoice blockers of closeoutStatus                *)

\* Mutant: closing does not take the project row lock.
CloseProjectUnlocked ==
  /\ \A n \in Numbers: /\ claim[n].status \notin Unsent \cup {"submitted"}
                       /\ invoice[n].status \notin {"draft", "issued", "part_paid"}
  /\ closed' = TRUE
  /\ UNCHANGED <<claim, invoice, preparing, certifying, late>>

CloseProject ==
  /\ ~closed /\ ~preparing.busy
  /\ \A n \in Numbers: /\ claim[n].status \notin Unsent \cup {"submitted"}
                       /\ invoice[n].status \notin {"draft", "issued", "part_paid"}
  /\ closed' = TRUE
  /\ UNCHANGED <<claim, invoice, preparing, certifying, late>>

ReopenProject ==
  /\ closed
  /\ closed' = FALSE
  /\ UNCHANGED <<claim, invoice, preparing, certifying, late>>

-----------------------------------------------------------------------------
ClaimNext ==
  \/ \E x \in Inputs: BeginCreate(x)
  \/ CommitCreate
  \/ AbortCreate
  \/ \E n \in Numbers:
       \/ DeleteDraftClaim(n)
       \/ \E to \in Unsent \cup {"submitted"}: TransitionClaim(n, to)
       \/ \E amount \in Certifications: BeginCertify(n, amount)
       \/ CommitCertify(n)
       \/ AbortCertify(n)

InvoiceNext ==
  \E n \in Numbers:
    \/ CreateInvoice(n)
    \/ \E to \in {"issued", "void"}: MoveInvoice(n, to)
    \/ \E amount \in Payments: PayInvoice(n, amount)

Next == ClaimNext \/ InvoiceNext \/ CloseProject \/ ReopenProject

Spec == Init /\ [][Next]_vars

-----------------------------------------------------------------------------
(* Properties                                                               *)

\* A project has at most one claim that has not gone to the client, it is the
\* last one, and the numbers below it are all taken: deleting a draft leaves
\* no hole.  finance.ts 58 rests the retention cap on the first part, and
\* "number < ?" in certifyClaim on the others.
UnsentClaimIsLast ==
  /\ \A n, m \in Numbers: Exists(n) /\ m < n => Exists(m)
  /\ \A n, m \in Numbers: claim[n].status \in Unsent /\ Exists(m) => m <= n
  /\ preparing.busy => \A n \in Numbers: claim[n].status \notin Unsent

\* claims.ts 3: contract and variation lines are claimed progressively and can
\* never exceed their value, nor be credited below nothing.
ClaimedWithinValue ==
  \A s \in Sources: Value[s] >= 0 => PreviousClaimed(s) \in 0..Value[s]

\* The claimed-to-date stored on a line is the sum up to its claim, whatever
\* was prepared, deleted and prepared again.
ClaimedToDateAgrees ==
  \A n \in Numbers: \A i \in DOMAIN claim[n].lines:
    LET l == claim[n].lines[i] IN
    l.source \in Sources =>
      l.toDate = SumFunctionOnSet([m \in Numbers |-> Taken(m, l.source)], 1..n)

\* finance.ts 38 and 58: cumulative held retention never exceeds the cap ...
\* (By itself this fails: a claim may be certified up after a later one was prepared.)
RetentionWithinCap == Held(Numbers) <= Cap
\* ... and a release can never exceed what is held.
ReleasesCovered == Held(Numbers) >= 0

\* Both hold as long as no claim is certified after a later one was prepared.
RetentionSoundInOrder == ~late => RetentionWithinCap /\ ReleasesCovered

\* In that order a claim that went to the client can always be certified: the
\* release check of certifyClaim cannot strand it in submitted.
SubmittedCanBeCertified ==
  ~late => \A n \in Numbers: claim[n].status = "submitted" =>
    ReleaseAllowed(claim[n].released, HeldBefore(n))

\* Invoice and claim agree: a claim is billed exactly when it has an invoice,
\* for its certified net, and paid exactly when that invoice is; money is
\* never received beyond the invoice.
InvoiceAgreesWithClaim ==
  \A n \in Numbers:
    /\ claim[n].status \in Billed <=> invoice[n].status # "none"
    /\ claim[n].status = "paid" <=> invoice[n].status = "paid"
    /\ Exists(n) /\ invoice[n].status # "none" => invoice[n].total = claim[n].certNet
    /\ invoice[n].status = "paid" => invoice[n].paid = invoice[n].total
    /\ invoice[n].status = "part_paid" => invoice[n].paid \in 1..(invoice[n].total - 1)
    /\ invoice[n].status \in {"draft", "issued", "void"} => invoice[n].paid = 0

\* Releases go on new claims, so history is never rewritten: what a claim said
\* when it went to the client, and what was certified, never change again.
SentHistoryKept ==
  [][\A n \in Numbers:
       /\ HoldsRetention(n) =>
            /\ claim'[n].status \notin Unsent \cup {"none"}
            /\ claim'[n].lines = claim[n].lines /\ claim'[n].net = claim[n].net
            /\ claim'[n].released = claim[n].released
       /\ claim[n].status \in {"certified"} \cup Billed =>
            claim'[n].certRet = claim[n].certRet /\ claim'[n].certNet = claim[n].certNet]_vars

\* A closed project has no claim that still has to be sent or certified, and
\* no claim is being prepared in it.
ClosedProjectHasNoOpenClaim ==
  closed => /\ ~preparing.busy
            /\ \A n \in Numbers: claim[n].status \notin Unsent \cup {"submitted"}
=============================================================================
