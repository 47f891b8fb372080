---------------------------- MODULE ClaimsProofs ----------------------------
(***************************************************************************)
(* What holds of the claims of a project for any number of claims, sources *)
(* and inputs. First what needs nothing of the amounts, not even that they *)
(* are integers; then their types; then, layer on layer, that lines stay   *)
(* within their value, what was claimed to date, and the retention while   *)
(* claims are certified in order.                                          *)
(***************************************************************************)
EXTENDS Claims, SumTheorems

USE MaxClaimsAssumption

ClaimFields ==
  {"status", "lines", "gross", "withheld", "released", "net", "certRet", "certNet"}

\* The part of TypeOK that says nothing of amounts.
Shape ==
  /\ closed \in BOOLEAN
  /\ claim = [n \in Numbers |-> claim[n]]
  /\ \A n \in Numbers:
       /\ claim[n] = [k \in ClaimFields |-> claim[n][k]]
       /\ claim[n].status \in ClaimStatuses
  /\ preparing.busy \in BOOLEAN
  /\ certifying = [n \in Numbers |-> certifying[n]]
  /\ \A n \in Numbers: certifying[n].busy \in BOOLEAN

\* The row lock of certifyClaim keeps its claim submitted until it writes.
CertifiesSubmitted ==
  \A n \in Numbers: certifying[n].busy => claim[n].status = "submitted"

\* The inductive invariant.
IInv == Shape /\ CertifiesSubmitted /\ UnsentClaimIsLast /\ ClosedProjectHasNoOpenClaim

\* One step of SentHistoryKept.
SentKept ==
  \A n \in Numbers:
    /\ HoldsRetention(n) =>
         /\ claim'[n].status \notin Unsent \cup {"none"}
         /\ claim'[n].lines = claim[n].lines /\ claim'[n].net = claim[n].net
         /\ claim'[n].released = claim[n].released
    /\ claim[n].status \in {"certified"} \cup Billed =>
         claim'[n].certRet = claim[n].certRet /\ claim'[n].certNet = claim[n].certNet

-----------------------------------------------------------------------------
(* Lemmas                                                                   *)

\* A nonempty set of claim numbers has a largest one.
LEMMA MaxIsLargest ==
  ASSUME NEW S \in SUBSET Numbers, S # {}
  PROVE  Max(S) \in S /\ \A x \in S: x <= Max(S)
<1> DEFINE Left(x) == MaxClaims - x
           Lefts == {y \in Nat: Left(y) \in S}
           Less == OpToRel(<, Nat)
<1>1. \A x \in S: Left(x) \in Nat /\ Left(Left(x)) = x /\ x \in Nat
  BY DEF Numbers
<1>2. Lefts \subseteq Nat /\ Lefts # {} /\ \A x \in S: Left(x) \in Lefts
  <2> HIDE DEF Left
  <2> QED BY <1>1
<1>3. PICK least \in Lefts: \A y \in Lefts: <<y, least>> \notin Less
  <2> HIDE DEF Lefts, Less
  <2>1. IsWellFoundedOn(Less, Nat)
    BY NatLessThanWellFounded DEF Less
  <2> QED BY <1>2, <2>1, WFMin
<1>4. ASSUME NEW y \in Lefts PROVE ~(y < least)
  <2>1. y \in Nat /\ least \in Nat
    BY <1>2
  <2>2. <<y, least>> \in Nat \X Nat /\ <<y, least>>[1] = y /\ <<y, least>>[2] = least
    BY <2>1
  <2>3. y < least => <<y, least>> \in Less
    BY <2>2, Zenon DEF OpToRel
  <2> QED BY <1>3, <2>3
<1>5. least \in Nat /\ Left(least) \in S
  OBVIOUS
<1>6. ASSUME NEW x \in S PROVE Left(least) >= x
  <2>1. Left(x) \in Nat /\ ~(Left(x) < least) /\ x \in Nat
    BY <1>1, <1>2, <1>4
  <2> QED BY <1>5, <2>1
<1>7. Max(S) \in S /\ \A x \in S: Max(S) >= x
  <2> HIDE DEF Left
  <2> QED BY <1>5, <1>6 DEF Max
<1>8. Max(S) \in Nat /\ \A x \in S: x \in Nat
  <2>1. S \subseteq Nat
    BY DEF Numbers
  <2> QED BY <1>7, <2>1
<1> QED BY <1>7, <1>8

\* The number of a new claim is free, every claim has a smaller one, and no
\* smaller number is free.
LEMMA NextNumberIsNext ==
  ASSUME \A n, m \in Numbers: Exists(n) /\ m < n => Exists(m)
  PROVE  /\ \A n \in Numbers: Exists(n) => n < NextNumber
         /\ \A n \in Numbers: n < NextNumber => Exists(n)
<1>1. CASE Existing = {}
  BY <1>1 DEF Existing, NextNumber, Numbers
<1>2. CASE Existing # {}
  <2>1. Existing \in SUBSET Numbers
    BY DEF Existing
  <2>2. Max(Existing) \in Existing /\ \A n \in Existing: n <= Max(Existing)
    BY <1>2, <2>1, MaxIsLargest
  <2>3. NextNumber = Max(Existing) + 1 /\ Max(Existing) \in Numbers /\ Exists(Max(Existing))
    BY <1>2, <2>2 DEF NextNumber, Existing
  <2>4. ASSUME NEW n \in Numbers, Exists(n) PROVE n < NextNumber
    <3>1. n \in Existing
      BY <2>4 DEF Existing
    <3> QED BY <2>2, <2>3, <3>1 DEF Numbers
  <2>5. ASSUME NEW n \in Numbers, n < NextNumber PROVE Exists(n)
    <3>1. n = Max(Existing) \/ n < Max(Existing)
      BY <2>3, <2>5 DEF Numbers
    <3> QED BY <2>3, <3>1
  <2> QED BY <2>4, <2>5
<1> QED BY <1>1, <1>2

-----------------------------------------------------------------------------
(* Steps                                                                    *)

\* A claim keeps its place: it is written to, and is unsent, or open, only if
\* it was before.
Placed ==
  /\ \A n \in Numbers: claim'[n].status \in Unsent => claim[n].status \in Unsent
  /\ \A n \in Numbers: (claim'[n].status # "none") = (claim[n].status # "none")

\* A step of the claims that places none anew keeps the numbering.
LEMMA PlacedKeeps ==
  ASSUME UnsentClaimIsLast, Placed, preparing' = preparing
  PROVE  UnsentClaimIsLast'
  BY DEF UnsentClaimIsLast, Placed, Exists

\* Beginning to prepare a claim finds none that is unsent.
LEMMA BeginCreateKeeps ==
  ASSUME IInv, NEW x \in Inputs, BeginCreate(x)
  PROVE  IInv' /\ SentKept
<1>1. claim' = claim /\ certifying' = certifying /\ closed' = closed /\ preparing'.busy
  BY DEF BeginCreate
<1>2. ~closed /\ \A n \in Numbers: claim[n].status \notin Unsent
  BY DEF BeginCreate
<1>3. Shape' /\ CertifiesSubmitted'
  BY <1>1 DEF IInv, Shape, CertifiesSubmitted
<1>4. UnsentClaimIsLast'
  BY <1>1, <1>2 DEF IInv, UnsentClaimIsLast, Exists
<1>5. ClosedProjectHasNoOpenClaim'
  BY <1>1, <1>2 DEF ClosedProjectHasNoOpenClaim
<1>6. SentKept
  BY <1>1 DEF SentKept, HoldsRetention, Unsent, Billed
<1> QED BY <1>3, <1>4, <1>5, <1>6 DEF IInv

\* The new claim takes the number after the last, and is the only unsent one.
LEMMA CommitCreateKeeps ==
  ASSUME IInv, CommitCreate
  PROVE  IInv' /\ SentKept
<1> DEFINE n == NextNumber
<1>1. PICK c: /\ claim' = [claim EXCEPT ![n] = c]
              /\ c = [k \in ClaimFields |-> c[k]] /\ c.status = "draft"
  <2>1. PICK ls, gr, wi, re, ne:
          claim' = [claim EXCEPT ![NextNumber] =
            [status |-> "draft", lines |-> ls, gross |-> gr, withheld |-> wi, released |-> re,
             net |-> ne, certRet |-> 0, certNet |-> 0]]
    BY DEF CommitCreate
  <2> DEFINE new == [status |-> "draft", lines |-> ls, gross |-> gr, withheld |-> wi,
                     released |-> re, net |-> ne, certRet |-> 0, certNet |-> 0]
  <2>2. new = [k \in ClaimFields |-> new[k]] /\ new.status = "draft"
    BY DEF ClaimFields
  <2>3. claim' = [claim EXCEPT ![n] = new]
    BY <2>1
  <2> HIDE DEF new, n
  <2> QED BY <2>2, <2>3
<1>2. /\ preparing.busy /\ preparing'.busy = FALSE
      /\ closed' = closed /\ certifying' = certifying
  BY DEF CommitCreate, Idle
<1>3. /\ \A m \in Numbers: Exists(m) => m < n
      /\ \A m \in Numbers: m < n => Exists(m)
  BY NextNumberIsNext DEF IInv, UnsentClaimIsLast
<1> HIDE DEF n
<1>4. /\ \A m \in Numbers: m # n => claim'[m] = claim[m]
      /\ n \in Numbers => claim'[n] = c
      /\ claim' = [m \in Numbers |-> claim'[m]]
  BY <1>1 DEF IInv, Shape
<1>5. n \in Numbers => ~Exists(n)
  BY <1>3 DEF Numbers
<1>6. \A m \in Numbers: claim[m].status \notin Unsent
  BY <1>2 DEF IInv, UnsentClaimIsLast
<1>7. Shape'
  <2>1. ASSUME NEW m \in Numbers
        PROVE  /\ claim'[m] = [k \in ClaimFields |-> claim'[m][k]]
               /\ claim'[m].status \in ClaimStatuses
    BY <1>1, <1>4 DEF IInv, Shape, ClaimStatuses, Unsent
  <2>2. /\ closed' \in BOOLEAN /\ preparing'.busy \in BOOLEAN
        /\ certifying' = [m \in Numbers |-> certifying'[m]]
        /\ \A m \in Numbers: certifying'[m].busy \in BOOLEAN
    BY <1>2 DEF IInv, Shape
  <2> QED BY <1>4, <2>1, <2>2 DEF Shape
<1>8. CertifiesSubmitted'
  BY <1>2, <1>4, <1>5 DEF IInv, CertifiesSubmitted, Exists
<1>9. UnsentClaimIsLast'
  <2>1. ASSUME NEW k \in Numbers, NEW m \in Numbers, Exists(k)', m < k PROVE Exists(m)'
    BY <1>1, <1>3, <1>4, <2>1 DEF IInv, UnsentClaimIsLast, Exists
  <2>2. ASSUME NEW k \in Numbers, NEW m \in Numbers, claim'[k].status \in Unsent, Exists(m)'
        PROVE  m <= k
    <3>1. k = n
      BY <1>4, <1>6, <2>2
    <3>2. m = n \/ m < n
      BY <1>3, <1>4, <2>2 DEF Exists
    <3> QED BY <3>1, <3>2 DEF Numbers
  <2> QED BY <1>2, <2>1, <2>2 DEF UnsentClaimIsLast
<1>10. ClosedProjectHasNoOpenClaim'
  BY <1>2 DEF IInv, ClosedProjectHasNoOpenClaim
<1>11. SentKept
  BY <1>4, <1>5 DEF SentKept, HoldsRetention, Exists, Unsent, Billed
<1> QED BY <1>7, <1>8, <1>9, <1>10, <1>11 DEF IInv

\* Deleting the draft, which is the last claim, leaves no hole.
LEMMA DeleteKeeps ==
  ASSUME IInv, NEW n \in Numbers, DeleteDraftClaim(n)
  PROVE  IInv' /\ SentKept
<1>1. /\ claim[n].status = "draft" /\ claim' = [claim EXCEPT ![n] = NoClaim]
      /\ closed' = closed /\ certifying' = certifying /\ preparing' = preparing
  BY DEF DeleteDraftClaim
<1>2. /\ \A m \in Numbers: m # n => claim'[m] = claim[m]
      /\ claim'[n] = NoClaim
      /\ claim' = [m \in Numbers |-> claim'[m]]
  BY <1>1 DEF IInv, Shape
<1>3. NoClaim = [k \in ClaimFields |-> NoClaim[k]] /\ NoClaim.status = "none"
  BY DEF NoClaim, ClaimFields
<1>4. Shape'
  BY <1>1, <1>2, <1>3 DEF IInv, Shape, ClaimStatuses
<1>5. CertifiesSubmitted'
  BY <1>1, <1>2 DEF IInv, CertifiesSubmitted
<1>6. UnsentClaimIsLast'
  <2>1. \A m \in Numbers: Exists(m) => m <= n
    BY <1>1 DEF IInv, UnsentClaimIsLast, Unsent
  <2>2. ASSUME NEW k \in Numbers, NEW m \in Numbers, Exists(k)', m < k PROVE Exists(m)'
    <3>1. k # n /\ Exists(k) /\ k <= n
      BY <1>2, <1>3, <2>1, <2>2 DEF Exists
    <3>2. m # n
      BY <2>2, <3>1 DEF Numbers
    <3> QED BY <1>2, <2>2, <3>1, <3>2 DEF IInv, UnsentClaimIsLast, Exists
  <2>3. \A k \in Numbers: claim'[k].status \notin Unsent \/ (k # n /\ claim[k].status \in Unsent)
    BY <1>2, <1>3 DEF Unsent
  <2>4. \A m \in Numbers: Exists(m)' => Exists(m)
    BY <1>2, <1>3 DEF Exists
  <2> QED BY <1>1, <2>2, <2>3, <2>4 DEF IInv, UnsentClaimIsLast
<1>7. ClosedProjectHasNoOpenClaim'
  BY <1>1, <1>2, <1>3 DEF IInv, ClosedProjectHasNoOpenClaim, Unsent
<1>8. SentKept
  BY <1>1, <1>2 DEF SentKept, HoldsRetention, Unsent, Billed
<1> QED BY <1>4, <1>5, <1>6, <1>7, <1>8 DEF IInv

\* What a change of one claim's status leaves of the others and of it.
StatusMoves(n, to) ==
  /\ \A m \in Numbers: m # n => claim'[m] = claim[m]
  /\ \A k \in ClaimFields \ {"status"}: claim'[n][k] = claim[n][k]
  /\ claim'[n].status = to
  /\ claim'[n] = [k \in ClaimFields |-> claim'[n][k]]
  /\ claim' = [m \in Numbers |-> claim'[m]]

\* Setting the status of a claim does that.
LEMMA StatusSet ==
  ASSUME Shape, NEW n \in Numbers, NEW to, claim' = [claim EXCEPT ![n].status = to]
  PROVE  StatusMoves(n, to)
<1> DEFINE c == [claim[n] EXCEPT !.status = to]
<1>1. claim' = [claim EXCEPT ![n] = c]
  OBVIOUS
<1>2. /\ c = [k \in ClaimFields |-> c[k]] /\ c.status = to
      /\ \A k \in ClaimFields \ {"status"}: c[k] = claim[n][k]
  <2>1. claim[n] = [k \in ClaimFields |-> claim[n][k]]
    BY DEF Shape
  <2> QED BY <2>1 DEF ClaimFields
<1> HIDE DEF c
<1>3. claim' = [m \in Numbers |-> IF m = n THEN c ELSE claim[m]]
  BY <1>1 DEF Shape
<1> QED BY <1>2, <1>3 DEF StatusMoves

\* A claim moves between the unsent stages or goes to the client.
LEMMA TransitionKeeps ==
  ASSUME IInv, NEW n \in Numbers, NEW to, TransitionClaim(n, to)
  PROVE  IInv' /\ SentKept
<1>1. /\ ~closed /\ claim[n].status \in Unsent /\ to \in Unsent \cup {"submitted"}
      /\ claim' = [claim EXCEPT ![n].status = to]
      /\ closed' = closed /\ certifying' = certifying /\ preparing' = preparing
  BY DEF TransitionClaim, ClaimEdges, Unsent
<1>2. StatusMoves(n, to)
  BY <1>1, StatusSet DEF IInv
<1>3. Shape'
  BY <1>1, <1>2 DEF IInv, Shape, StatusMoves, ClaimStatuses
<1>4. CertifiesSubmitted'
  BY <1>1, <1>2 DEF IInv, CertifiesSubmitted, StatusMoves, Unsent
<1>5. Placed
  BY <1>1, <1>2 DEF Placed, StatusMoves, Unsent
<1>6. ClosedProjectHasNoOpenClaim'
  BY <1>1 DEF ClosedProjectHasNoOpenClaim
<1>7. SentKept
  BY <1>1, <1>2 DEF SentKept, StatusMoves, HoldsRetention, Unsent, Billed
<1> QED BY <1>1, <1>3, <1>4, <1>5, <1>6, <1>7, PlacedKeeps DEF IInv

\* A certification begins on a submitted claim.
LEMMA BeginCertifyKeeps ==
  ASSUME IInv, NEW n \in Numbers, NEW amount, BeginCertify(n, amount)
  PROVE  IInv' /\ SentKept
<1>1. PICK t: t.busy = TRUE /\ certifying' = [certifying EXCEPT ![n] = t]
  BY DEF BeginCertify
<1>2. /\ claim[n].status = "submitted" /\ claim' = claim
      /\ closed' = closed /\ preparing' = preparing
  BY DEF BeginCertify
<1>3. /\ \A m \in Numbers: m # n => certifying'[m] = certifying[m]
      /\ certifying'[n] = t /\ certifying' = [m \in Numbers |-> certifying'[m]]
  BY <1>1 DEF IInv, Shape
<1>4. Shape' /\ CertifiesSubmitted'
  BY <1>1, <1>2, <1>3 DEF IInv, Shape, CertifiesSubmitted
<1>5. UnsentClaimIsLast' /\ ClosedProjectHasNoOpenClaim'
  BY <1>2 DEF IInv, UnsentClaimIsLast, ClosedProjectHasNoOpenClaim, Exists
<1>6. SentKept
  BY <1>2 DEF SentKept, HoldsRetention, Unsent, Billed
<1> QED BY <1>4, <1>5, <1>6 DEF IInv

\* A certification writes the claim it holds and nothing the claim said.
LEMMA CommitCertifyKeeps ==
  ASSUME IInv, NEW n \in Numbers, CommitCertify(n)
  PROVE  IInv' /\ SentKept
<1>1. PICK ret, net: claim' = [claim EXCEPT ![n].status = "certified", ![n].certRet = ret,
                                            ![n].certNet = net]
  BY DEF CommitCertify
<1>2. /\ claim[n].status = "submitted" /\ certifying' = [certifying EXCEPT ![n] = Idle]
      /\ closed' = closed /\ preparing' = preparing
  BY DEF CommitCertify, IInv, CertifiesSubmitted
<1> DEFINE c == [claim[n] EXCEPT !.status = "certified", !.certRet = ret, !.certNet = net]
<1>3. claim' = [m \in Numbers |-> IF m = n THEN c ELSE claim[m]]
  BY <1>1 DEF IInv, Shape
<1>4. /\ c = [k \in ClaimFields |-> c[k]] /\ c.status = "certified"
      /\ c.lines = claim[n].lines /\ c.net = claim[n].net /\ c.released = claim[n].released
  <2>1. claim[n] = [k \in ClaimFields |-> claim[n][k]]
    BY DEF IInv, Shape
  <2> QED BY <2>1 DEF ClaimFields
<1> HIDE DEF c
<1>5. certifying' = [m \in Numbers |-> IF m = n THEN Idle ELSE certifying[m]] /\ Idle.busy = FALSE
  BY <1>2 DEF IInv, Shape, Idle
<1>6. Shape'
  BY <1>2, <1>3, <1>4, <1>5 DEF IInv, Shape, ClaimStatuses
<1>7. CertifiesSubmitted'
  BY <1>3, <1>5 DEF IInv, CertifiesSubmitted
<1>8. Placed
  BY <1>2, <1>3, <1>4 DEF Placed, Unsent
<1>9. ClosedProjectHasNoOpenClaim'
  BY <1>2, <1>3, <1>4 DEF IInv, ClosedProjectHasNoOpenClaim, Unsent
<1>10. SentKept
  BY <1>2, <1>3, <1>4 DEF SentKept, HoldsRetention, Unsent, Billed
<1> QED BY <1>2, <1>6, <1>7, <1>8, <1>9, <1>10, PlacedKeeps DEF IInv

\* A preparation or a certification that is rolled back changes no claim.
LEMMA AbortKeeps ==
  ASSUME IInv, AbortCreate \/ \E n \in Numbers: AbortCertify(n)
  PROVE  IInv' /\ SentKept
<1>1. claim' = claim /\ closed' = closed
  BY DEF AbortCreate, AbortCertify
<1> DEFINE LessBusy ==
      /\ preparing'.busy \in BOOLEAN /\ (preparing'.busy => preparing.busy)
      /\ certifying' = [m \in Numbers |-> certifying'[m]]
      /\ \A m \in Numbers: /\ certifying'[m].busy \in BOOLEAN
                           /\ certifying'[m].busy => certifying[m].busy
<1>2. LessBusy
  <2>1. CASE AbortCreate
    BY <2>1 DEF AbortCreate, IInv, Shape, Idle
  <2>2. ASSUME NEW n \in Numbers, AbortCertify(n)
        PROVE  LessBusy
    BY <2>2 DEF AbortCertify, IInv, Shape, Idle
  <2> QED BY <2>1, <2>2
<1>3. Shape' /\ CertifiesSubmitted'
  <2>1. Shape'
    BY <1>1, <1>2 DEF IInv, Shape
  <2> QED BY <1>1, <1>2, <2>1 DEF IInv, CertifiesSubmitted
<1>4. UnsentClaimIsLast' /\ ClosedProjectHasNoOpenClaim'
  BY <1>1, <1>2 DEF IInv, UnsentClaimIsLast, ClosedProjectHasNoOpenClaim, Exists
<1>5. SentKept
  BY <1>1 DEF SentKept, HoldsRetention, Unsent, Billed
<1> QED BY <1>3, <1>4, <1>5 DEF IInv

\* Billing moves a claim from certified to invoiced, and from invoiced to paid.
LEMMA InvoiceKeeps ==
  ASSUME IInv, InvoiceNext
  PROVE  IInv' /\ SentKept
<1>1. closed' = closed /\ preparing' = preparing /\ certifying' = certifying
  BY DEF InvoiceNext, CreateInvoice, MoveInvoice, PayInvoice
<1>2. \/ claim' = claim
      \/ \E n \in Numbers:
           \E to \in Billed:
             /\ claim[n].status \in {"certified", "invoiced"}
             /\ claim' = [claim EXCEPT ![n].status = to]
  BY DEF InvoiceNext, CreateInvoice, MoveInvoice, PayInvoice, Billed
<1>3. CASE claim' = claim
  <2>1. Shape' /\ CertifiesSubmitted'
    BY <1>1, <1>3 DEF IInv, Shape, CertifiesSubmitted
  <2>2. UnsentClaimIsLast' /\ ClosedProjectHasNoOpenClaim'
    BY <1>1, <1>3 DEF IInv, UnsentClaimIsLast, ClosedProjectHasNoOpenClaim, Exists
  <2>3. SentKept
    BY <1>3 DEF SentKept, HoldsRetention, Unsent, Billed
  <2> QED BY <2>1, <2>2, <2>3 DEF IInv
<1>4. ASSUME NEW n \in Numbers, NEW to \in Billed,
             claim[n].status \in {"certified", "invoiced"},
             claim' = [claim EXCEPT ![n].status = to]
      PROVE  IInv' /\ SentKept
  <2>1. StatusMoves(n, to)
    BY <1>4, StatusSet DEF IInv
  <2>2. Shape'
    BY <1>1, <2>1 DEF IInv, Shape, StatusMoves, ClaimStatuses
  <2>3. CertifiesSubmitted'
    BY <1>1, <1>4, <2>1 DEF IInv, CertifiesSubmitted, StatusMoves
  <2>4. Placed
    BY <1>4, <2>1 DEF Placed, StatusMoves, Unsent, Billed
  <2>5. ClosedProjectHasNoOpenClaim'
    BY <1>1, <1>4, <2>1 DEF IInv, ClosedProjectHasNoOpenClaim, StatusMoves, Unsent, Billed
  <2>6. SentKept
    BY <1>4, <2>1 DEF SentKept, StatusMoves, HoldsRetention, Unsent, Billed, ClaimFields
  <2> QED BY <1>1, <2>2, <2>3, <2>4, <2>5, <2>6, PlacedKeeps DEF IInv
<1> QED BY <1>2, <1>3, <1>4

\* Closing waits for the claims; reopening and stuttering change none.
LEMMA ProjectKeeps ==
  ASSUME IInv, CloseProject \/ ReopenProject \/ UNCHANGED vars
  PROVE  IInv' /\ SentKept
<1>1. claim' = claim /\ preparing' = preparing /\ certifying' = certifying
  BY DEF CloseProject, ReopenProject, vars
<1>2. Shape'
  <2>1. closed' \in BOOLEAN
    BY DEF CloseProject, ReopenProject, vars, IInv, Shape
  <2> QED BY <1>1, <2>1 DEF IInv, Shape
<1>3. ClosedProjectHasNoOpenClaim'
  <2>1. CASE CloseProject
    BY <1>1, <2>1 DEF CloseProject, ClosedProjectHasNoOpenClaim
  <2>2. CASE ReopenProject
    BY <2>2 DEF ReopenProject, ClosedProjectHasNoOpenClaim
  <2>3. CASE UNCHANGED vars
    BY <2>3 DEF vars, IInv, ClosedProjectHasNoOpenClaim
  <2> QED BY <2>1, <2>2, <2>3
<1>4. CertifiesSubmitted' /\ UnsentClaimIsLast'
  BY <1>1 DEF IInv, CertifiesSubmitted, UnsentClaimIsLast, Exists
<1>5. SentKept
  BY <1>1 DEF SentKept, HoldsRetention, Unsent, Billed
<1> QED BY <1>2, <1>3, <1>4, <1>5 DEF IInv

\* Every step keeps the invariant, and what went to the client.
LEMMA StepKeeps ==
  ASSUME IInv, [Next]_vars
  PROVE  IInv' /\ SentKept
<1>1. CASE \E x \in Inputs: BeginCreate(x)
  BY <1>1, BeginCreateKeeps
<1>2. CASE CommitCreate
  BY <1>2, CommitCreateKeeps
<1>3. CASE AbortCreate \/ \E n \in Numbers: AbortCertify(n)
  BY <1>3, AbortKeeps
<1>4. CASE \E n \in Numbers: DeleteDraftClaim(n)
  BY <1>4, DeleteKeeps
<1>5. CASE \E n \in Numbers: \E to \in Unsent \cup {"submitted"}: TransitionClaim(n, to)
  BY <1>5, TransitionKeeps
<1>6. CASE \E n \in Numbers: \E amount \in Certifications: BeginCertify(n, amount)
  BY <1>6, BeginCertifyKeeps
<1>7. CASE \E n \in Numbers: CommitCertify(n)
  BY <1>7, CommitCertifyKeeps
<1>8. CASE InvoiceNext
  BY <1>8, InvoiceKeeps
<1>9. CASE CloseProject \/ ReopenProject \/ UNCHANGED vars
  BY <1>9, ProjectKeeps
<1> QED BY <1>1, <1>2, <1>3, <1>4, <1>5, <1>6, <1>7, <1>8, <1>9 DEF Next, ClaimNext

-----------------------------------------------------------------------------
(* Amounts                                                                  *)

\* What a list of lines takes of source s.
TakenBy(lines, s) ==
  SumFunction([i \in DOMAIN lines |-> IF lines[i].source = s THEN lines[i].amount ELSE 0])

\* What every claim takes of source s, and what is held of every claim.
TakenAll(s) == [n \in Numbers |-> Taken(n, s)]
RetainedAll == [n \in Numbers |-> RetentionOf(n)]

Room(held) == IF Cap > held THEN Cap - held ELSE 0

\* A number that is not used has an empty row.
UnusedIsBlank == \A n \in Numbers: ~Exists(n) => claim[n] = NoClaim

\* The second inductive invariant, which rests on the first.
Typed == TypeOK /\ UnusedIsBlank

\* The claim numbers are finitely many, as are those below one.
LEMMA NumbersAreFinite ==
  /\ IsFiniteSet(Numbers)
  /\ \A S \in SUBSET Numbers: IsFiniteSet(S)
<1>1. IsFiniteSet(Numbers)
  BY FS_Interval DEF Numbers
<1> QED BY <1>1, FS_Subset

\* A sum over a list of integers is one.
LEMMA ListSumIsInt ==
  ASSUME NEW n \in Nat, NEW f, DOMAIN f = 1..n, \A i \in 1..n: f[i] \in Int
  PROVE  SumFunction(f) \in Int
<1>1. IsFiniteSet(1..n)
  BY FS_Interval
<1>2. SumFunction(f) = SumFunctionOnSet(f, 1..n)
  BY SumOverDomain
<1> QED BY <1>1, <1>2, SumIsInt

LEMMA TakenByIsInt ==
  ASSUME NEW lines \in Seq(Line), NEW s
  PROVE  TakenBy(lines, s) \in Int
<1> DEFINE f == [i \in DOMAIN lines |-> IF lines[i].source = s THEN lines[i].amount ELSE 0]
<1>1. Len(lines) \in Nat /\ DOMAIN f = 1..Len(lines)
  OBVIOUS
<1>2. ASSUME NEW i \in 1..Len(lines) PROVE f[i] \in Int
  <2>1. lines[i] \in Line
    OBVIOUS
  <2>2. lines[i].amount \in Int
    BY <2>1 DEF Line
  <2>3. f[i] = IF lines[i].source = s THEN lines[i].amount ELSE 0
    BY <1>1
  <2> QED BY <2>2, <2>3
<1> HIDE DEF f
<1>3. SumFunction(f) \in Int
  BY <1>1, <1>2, ListSumIsInt
<1> QED BY <1>3 DEF f, TakenBy

LEMMA TakenByNone == \A s: TakenBy(<<>>, s) = 0
<1> TAKE s
<1> DEFINE f == [i \in DOMAIN <<>> |-> IF <<>>[i].source = s THEN <<>>[i].amount ELSE 0]
<1>1. DOMAIN f = {}
  OBVIOUS
<1>2. TakenBy(<<>>, s) = SumFunction(f)
  BY DEF TakenBy
<1> HIDE DEF f
<1> QED BY <1>1, <1>2, SumOverDomain, SumOfNone

\* What the claims took and what is held are integers.
LEMMA AmountsAreInts ==
  ASSUME TypeOK
  PROVE  /\ \A s: \A n \in Numbers: TakenAll(s)[n] \in Int
         /\ \A s: PreviousClaimed(s) \in Int
         /\ \A n \in Numbers: RetainedAll[n] \in Int
         /\ \A ns \in SUBSET Numbers: Held(ns) \in Int
<1>1. ASSUME NEW s, NEW n \in Numbers PROVE TakenAll(s)[n] \in Int
  <2>1. claim[n].lines \in Seq(Line)
    BY DEF TypeOK, Claim
  <2>2. TakenAll(s)[n] = TakenBy(claim[n].lines, s)
    BY DEF TakenAll, Taken, TakenBy
  <2> QED BY <2>1, <2>2, TakenByIsInt
<1>2. ASSUME NEW s PROVE PreviousClaimed(s) \in Int
  <2>1. DOMAIN TakenAll(s) = 1..MaxClaims /\ \A i \in 1..MaxClaims: TakenAll(s)[i] \in Int
    BY <1>1 DEF TakenAll, Numbers
  <2>2. PreviousClaimed(s) = SumFunction(TakenAll(s))
    BY DEF PreviousClaimed, TakenAll
  <2> HIDE DEF TakenAll
  <2> QED BY <2>1, <2>2, ListSumIsInt
<1>3. ASSUME NEW n \in Numbers PROVE RetainedAll[n] \in Int
  <2>1. claim[n].withheld \in Int /\ claim[n].certRet \in Int /\ claim[n].released \in Int
    BY DEF TypeOK, Claim
  <2> QED BY <2>1 DEF RetainedAll, RetentionOf
<1>4. ASSUME NEW ns \in SUBSET Numbers PROVE Held(ns) \in Int
  <2>1. IsFiniteSet(ns) /\ \A n \in ns: RetainedAll[n] \in Int
    BY <1>3, NumbersAreFinite
  <2>2. Held(ns) = SumFunctionOnSet(RetainedAll, ns)
    BY DEF Held, RetainedAll
  <2> HIDE DEF RetainedAll
  <2> QED BY <2>1, <2>2, SumIsInt
<1> QED BY <1>1, <1>2, <1>3, <1>4

\* Retention is never negative and never more than the room under the cap.
LEMMA WithheldFitsRoom ==
  ASSUME NEW gross \in Int, NEW held \in Int
  PROVE  Withheld(gross, held) \in Nat /\ Withheld(gross, held) <= Room(held)
<1>1. Room(held) \in Nat
  BY TermsAssumption DEF Room
<1>2. CASE gross <= 0
  BY <1>1, <1>2 DEF Withheld
<1>3. CASE gross > 0
  <2> DEFINE wanted == (gross * Pct + 50) \div 100
  <2>1. gross \in Nat /\ Pct \in Nat
    BY <1>3, TermsAssumption
  <2>2. gross * Pct \in Nat
    BY <2>1
  <2>3. wanted \in Nat
    <3>1. \A p \in Nat: (p + 50) \div 100 \in Nat
      OBVIOUS
    <3> QED BY <2>2, <3>1
  <2>4. Withheld(gross, held) = IF wanted < Room(held) THEN wanted ELSE Room(held)
    BY <1>3 DEF Withheld, Room
  <2> HIDE DEF wanted
  <2> QED BY <1>1, <2>3, <2>4
<1> QED BY <1>2, <1>3

-----------------------------------------------------------------------------
(* Types                                                                    *)

\* The row createClaim inserts.
New(x, held, previous) ==
  LET gross == SumFunction([i \in DOMAIN x.lines |-> x.lines[i].amount])
      kept == Withheld(gross, held)
  IN  [status |-> "draft",
       lines |-> [i \in DOMAIN x.lines |-> Recorded(x.lines[i], previous)],
       gross |-> gross, withheld |-> kept, released |-> x.release,
       net |-> gross - kept + x.release, certRet |-> 0, certNet |-> 0]

LEMMA NewIsClaim ==
  ASSUME NEW x \in Inputs, NEW held \in Int, NEW previous \in [Sources -> Int]
  PROVE  /\ New(x, held, previous) \in Claim
         /\ New(x, held, previous).status = "draft"
         /\ New(x, held, previous).released = x.release
         /\ New(x, held, previous).withheld <= Room(held)
         /\ New(x, held, previous).certRet = 0
         /\ New(x, held, previous).lines =
              [i \in DOMAIN x.lines |-> Recorded(x.lines[i], previous)]
<1> DEFINE gross == SumFunction([i \in DOMAIN x.lines |-> x.lines[i].amount])
           kept == Withheld(gross, held)
           lines == [i \in DOMAIN x.lines |-> Recorded(x.lines[i], previous)]
<1>1. /\ x.release \in Nat
      /\ x.lines \in Seq([source: Sources \cup {Other}, amount: Int \ {0}])
  BY InputsAssumption
<1>2. \A i \in DOMAIN x.lines: x.lines[i] \in [source: Sources \cup {Other}, amount: Int \ {0}]
  <2> DEFINE Asked == [source: Sources \cup {Other}, amount: Int \ {0}]
  <2>1. x.lines \in Seq(Asked)
    BY <1>1
  <2> HIDE DEF Asked
  <2>2. \A i \in DOMAIN x.lines: x.lines[i] \in Asked
    BY <2>1
  <2> QED BY <2>2 DEF Asked
<1>3. gross \in Int
  <2> DEFINE f == [i \in DOMAIN x.lines |-> x.lines[i].amount]
  <2>1. Len(x.lines) \in Nat /\ DOMAIN x.lines = 1..Len(x.lines)
    BY <1>1
  <2>2. DOMAIN f = 1..Len(x.lines) /\ \A i \in 1..Len(x.lines): f[i] \in Int
    BY <1>2, <2>1
  <2> HIDE DEF f
  <2>3. SumFunction(f) \in Int
    BY <2>1, <2>2, ListSumIsInt
  <2> QED BY <2>3 DEF f
<1>4. kept \in Nat /\ kept <= Room(held)
  <2> HIDE DEF gross
  <2> QED BY <1>3, WithheldFitsRoom
<1>5. lines \in Seq(Line)
  <2>1. ASSUME NEW i \in DOMAIN x.lines PROVE Recorded(x.lines[i], previous) \in Line
    BY <1>2 DEF Recorded, Line
  <2>2. Len(x.lines) \in Nat /\ DOMAIN x.lines = 1..Len(x.lines)
    BY <1>1
  <2>3. lines \in [1..Len(x.lines) -> Line]
    BY <2>1, <2>2
  <2> QED BY <2>2, <2>3
<1>6. New(x, held, previous) =
        [status |-> "draft", lines |-> lines, gross |-> gross, withheld |-> kept,
         released |-> x.release, net |-> gross - kept + x.release, certRet |-> 0, certNet |-> 0]
  BY DEF New
<1>7. "draft" \in ClaimStatuses
  BY DEF ClaimStatuses, Unsent
<1>8. gross - kept + x.release \in Int
  <2> HIDE DEF gross, kept
  <2> QED BY <1>1, <1>3, <1>4
<1>9. New(x, held, previous) \in Claim
  <2> HIDE DEF gross, kept, lines
  <2> QED BY <1>1, <1>3, <1>4, <1>5, <1>6, <1>7, <1>8 DEF Claim
<1>10. /\ New(x, held, previous).withheld = kept /\ New(x, held, previous).lines = lines
       /\ New(x, held, previous).released = x.release
       /\ New(x, held, previous).status = "draft" /\ New(x, held, previous).certRet = 0
  <2> HIDE DEF gross, kept, lines
  <2> QED BY <1>6
<1> HIDE DEF gross, kept
<1> QED BY <1>4, <1>9, <1>10

\* What a preparation that is under way holds.
LEMMA PreparationHolds ==
  ASSUME TypeOK, preparing.busy
  PROVE  /\ preparing.input \in Inputs /\ preparing.held \in Int
         /\ preparing.previous \in [Sources -> Int]
<1>1. preparing \in Preparation /\ preparing # Idle
  BY DEF TypeOK, Idle
<1>2. preparing \in [busy: {TRUE}, input: Inputs, held: Int, previous: [Sources -> Int]]
  BY <1>1 DEF Preparation
<1> QED BY <1>2

\* CommitCreate writes one row, of a number that is not used, after the last.
LEMMA CreateWrites ==
  ASSUME IInv, Typed, CommitCreate
  PROVE  /\ preparing.busy
         /\ \A m \in Numbers: Exists(m) <=> m < NextNumber
         /\ \A m \in Numbers:
              claim'[m] = IF m = NextNumber
                          THEN New(preparing.input, preparing.held, preparing.previous)
                          ELSE claim[m]
         /\ claim' = [m \in Numbers |-> claim'[m]]
<1>1. preparing.busy
  BY DEF CommitCreate
<1>2. claim' = [claim EXCEPT ![NextNumber] =
                  New(preparing.input, preparing.held, preparing.previous)]
  BY DEF CommitCreate, New
<1>3. /\ \A m \in Numbers: Exists(m) => m < NextNumber
      /\ \A m \in Numbers: m < NextNumber => Exists(m)
  BY NextNumberIsNext DEF IInv, UnsentClaimIsLast
<1>4. claim = [m \in Numbers |-> claim[m]]
  BY DEF IInv, Shape
<1>5. claim' = [m \in Numbers |->
                  IF m = NextNumber
                  THEN New(preparing.input, preparing.held, preparing.previous) ELSE claim[m]]
  BY <1>2, <1>4, Zenon
<1> QED BY <1>1, <1>3, <1>5

LEMMA CreateTypes ==
  ASSUME IInv, Typed, CommitCreate
  PROVE  Typed'
<1> DEFINE new == New(preparing.input, preparing.held, preparing.previous)
<1>1. new \in Claim /\ new.status = "draft"
  BY CreateWrites, PreparationHolds, NewIsClaim DEF Typed
<1>2. /\ \A m \in Numbers: claim'[m] = IF m = NextNumber THEN new ELSE claim[m]
      /\ claim' = [m \in Numbers |-> claim'[m]]
  BY CreateWrites
<1> HIDE DEF new
<1>3. /\ closed' = closed /\ invoice' = invoice /\ certifying' = certifying /\ late' = late
      /\ preparing' \in Preparation
  BY DEF CommitCreate, Preparation, Idle
<1>4. \A m \in Numbers: claim'[m] \in Claim
  BY <1>1, <1>2 DEF Typed, TypeOK
<1>5. claim' \in [Numbers -> Claim]
  BY <1>2, <1>4
<1>6. TypeOK'
  BY <1>3, <1>5 DEF Typed, TypeOK
<1>7. UnusedIsBlank'
  BY <1>1, <1>2 DEF Typed, UnusedIsBlank, Exists
<1> QED BY <1>6, <1>7 DEF Typed

LEMMA NoClaimIsClaim == NoClaim \in Claim /\ NoClaim.status = "none"
<1>1. <<>> \in Seq(Line)
  OBVIOUS
<1> HIDE DEF Line
<1> QED BY <1>1 DEF NoClaim, Claim, ClaimStatuses

LEMMA BeginCreateTypes ==
  ASSUME Typed, NEW x \in Inputs, BeginCreate(x)
  PROVE  Typed'
<1>1. /\ closed' = closed /\ claim' = claim /\ invoice' = invoice
      /\ certifying' = certifying /\ late' = late
  BY DEF BeginCreate
<1>2. preparing' = [busy |-> TRUE, input |-> x, held |-> Held(Numbers),
                    previous |-> [s \in Sources |-> PreviousClaimed(s)]]
  BY DEF BeginCreate
<1>3. Held(Numbers) \in Int /\ \A s: PreviousClaimed(s) \in Int
  BY AmountsAreInts DEF Typed
<1>4. preparing' \in Preparation
  <2> DEFINE previous == [s \in Sources |-> PreviousClaimed(s)]
  <2>1. previous \in [Sources -> Int]
    BY <1>3
  <2>2. preparing' = [busy |-> TRUE, input |-> x, held |-> Held(Numbers), previous |-> previous]
    BY <1>2
  <2> HIDE DEF previous
  <2> QED BY <1>3, <2>1, <2>2 DEF Preparation
<1> QED BY <1>1, <1>4 DEF Typed, TypeOK, UnusedIsBlank, Exists

LEMMA BeginCertifyTypes ==
  ASSUME Typed, NEW n \in Numbers, NEW amount \in Certifications, BeginCertify(n, amount)
  PROVE  Typed'
<1>1. /\ closed' = closed /\ claim' = claim /\ invoice' = invoice
      /\ preparing' = preparing /\ late' = late
      /\ certifying' = [certifying EXCEPT ![n] =
           [busy |-> TRUE, amount |-> amount, held |-> HeldBefore(n)]]
  BY DEF BeginCertify
<1>2. HeldBefore(n) \in Int
  BY AmountsAreInts DEF Typed, HeldBefore
<1>3. [busy |-> TRUE, amount |-> amount, held |-> HeldBefore(n)] \in Certification
  BY <1>2 DEF Certification
<1>4. certifying' \in [Numbers -> Certification]
  BY <1>1, <1>3 DEF Typed, TypeOK
<1> QED BY <1>1, <1>4 DEF Typed, TypeOK, UnusedIsBlank, Exists

\* What a certification that is under way holds.
LEMMA CertificationHolds ==
  ASSUME TypeOK, NEW n \in Numbers, certifying[n].busy
  PROVE  certifying[n].amount \in Int /\ certifying[n].held \in Int
<1>1. certifying[n] \in Certification /\ certifying[n] # Idle
  BY DEF TypeOK, Idle
<1>2. certifying[n] \in [busy: {TRUE}, amount: Certifications, held: Int]
  BY <1>1 DEF Certification
<1>3. certifying[n].amount \in Certifications /\ certifying[n].held \in Int
  BY <1>2
<1>4. \A a \in Certifications: a \in Int
  BY CertificationsAssumption
<1> QED BY <1>3, <1>4

\* A certification writes a claim that exists.
LEMMA CommitCertifyTypes ==
  ASSUME IInv, Typed, NEW n \in Numbers, CommitCertify(n)
  PROVE  Typed'
<1> DEFINE kept == Withheld(certifying[n].amount, certifying[n].held)
           net == certifying[n].amount - kept + claim[n].released
           c == [claim[n] EXCEPT !.status = "certified", !.certRet = kept, !.certNet = net]
<1>1. certifying[n].amount \in Int /\ certifying[n].held \in Int
  BY CertificationHolds DEF CommitCertify, Typed
<1>2. kept \in Nat
  BY <1>1, WithheldFitsRoom
<1>3. net \in Int
  <2>1. claim[n].released \in Int
    BY DEF Typed, TypeOK, Claim
  <2> HIDE DEF kept
  <2> QED BY <1>1, <1>2, <2>1
<1>4. /\ claim' = [claim EXCEPT ![n].status = "certified", ![n].certRet = kept,
                                ![n].certNet = net]
      /\ certifying' = [certifying EXCEPT ![n] = Idle]
      /\ late' \in BOOLEAN
      /\ closed' = closed /\ invoice' = invoice /\ preparing' = preparing
  BY DEF CommitCertify
<1> HIDE DEF kept, net
<1>5. claim' = [m \in Numbers |-> IF m = n THEN c ELSE claim[m]]
  BY <1>4 DEF Typed, TypeOK
<1>6. c \in Claim /\ c.status = "certified"
  <2>1. claim[n] \in Claim /\ "certified" \in ClaimStatuses
    BY DEF Typed, TypeOK, ClaimStatuses
  <2> QED BY <1>2, <1>3, <2>1 DEF Claim
<1> HIDE DEF c
<1>7. claim' \in [Numbers -> Claim]
  BY <1>5, <1>6 DEF Typed, TypeOK
<1>8. certifying' \in [Numbers -> Certification]
  BY <1>4 DEF Typed, TypeOK, Certification
<1>9. UnusedIsBlank'
  BY <1>5, <1>6 DEF Typed, UnusedIsBlank, Exists
<1> QED BY <1>4, <1>7, <1>8, <1>9 DEF Typed, TypeOK

\* Moving the status of a claim that exists keeps its row one.
LEMMA StatusTypes ==
  ASSUME Typed, NEW n \in Numbers, Exists(n), NEW to \in ClaimStatuses \ {"none"},
         claim' = [claim EXCEPT ![n].status = to]
  PROVE  claim' \in [Numbers -> Claim] /\ UnusedIsBlank'
<1> DEFINE c == [claim[n] EXCEPT !.status = to]
<1>1. claim' = [m \in Numbers |-> IF m = n THEN c ELSE claim[m]]
  BY DEF Typed, TypeOK
<1>2. c \in Claim /\ c.status = to
  <2>1. claim[n] \in Claim
    BY DEF Typed, TypeOK
  <2> QED BY <2>1 DEF Claim
<1> HIDE DEF c
<1>3. claim' \in [Numbers -> Claim]
  BY <1>1, <1>2 DEF Typed, TypeOK
<1>4. UnusedIsBlank'
  BY <1>1, <1>2 DEF Typed, UnusedIsBlank, Exists
<1> QED BY <1>3, <1>4

LEMMA TransitionTypes ==
  ASSUME Typed, NEW n \in Numbers, NEW to, TransitionClaim(n, to)
  PROVE  Typed'
<1>1. /\ Exists(n) /\ to \in ClaimStatuses \ {"none"}
      /\ claim' = [claim EXCEPT ![n].status = to]
      /\ closed' = closed /\ invoice' = invoice /\ preparing' = preparing
      /\ certifying' = certifying /\ late' = late
  BY DEF TransitionClaim, ClaimEdges, ClaimStatuses, Unsent, Exists
<1>2. claim' \in [Numbers -> Claim] /\ UnusedIsBlank'
  BY <1>1, StatusTypes
<1> QED BY <1>1, <1>2 DEF Typed, TypeOK

LEMMA DeleteTypes ==
  ASSUME Typed, NEW n \in Numbers, DeleteDraftClaim(n)
  PROVE  Typed'
<1>1. /\ claim' = [claim EXCEPT ![n] = NoClaim]
      /\ closed' = closed /\ invoice' = invoice /\ preparing' = preparing
      /\ certifying' = certifying /\ late' = late
  BY DEF DeleteDraftClaim
<1>2. claim' = [m \in Numbers |-> IF m = n THEN NoClaim ELSE claim[m]]
  BY <1>1 DEF Typed, TypeOK
<1>3. claim' \in [Numbers -> Claim]
  BY <1>2, NoClaimIsClaim DEF Typed, TypeOK
<1>4. UnusedIsBlank'
  BY <1>2, NoClaimIsClaim DEF Typed, UnusedIsBlank, Exists
<1> QED BY <1>1, <1>3, <1>4 DEF Typed, TypeOK

LEMMA AbortTypes ==
  ASSUME Typed, AbortCreate \/ \E n \in Numbers: AbortCertify(n)
  PROVE  Typed'
<1>1. closed' = closed /\ claim' = claim /\ invoice' = invoice /\ late' = late
  BY DEF AbortCreate, AbortCertify
<1>2. preparing' \in Preparation
  BY DEF AbortCreate, AbortCertify, Typed, TypeOK, Preparation
<1>3. certifying' \in [Numbers -> Certification]
  BY DEF AbortCreate, AbortCertify, Typed, TypeOK, Certification
<1> QED BY <1>1, <1>2, <1>3 DEF Typed, TypeOK, UnusedIsBlank, Exists

LEMMA InvoiceTypes ==
  ASSUME Typed, InvoiceNext
  PROVE  Typed'
<1>1. /\ closed' = closed /\ preparing' = preparing /\ certifying' = certifying
      /\ late' = late
  BY DEF InvoiceNext, CreateInvoice, MoveInvoice, PayInvoice
<1>2. \A n \in Numbers: /\ invoice[n].total \in Int /\ invoice[n].paid \in Nat
                        /\ invoice[n].status \in InvoiceStatuses /\ claim[n].certNet \in Int
  BY DEF Typed, TypeOK, Invoice, Claim
<1>3. invoice' \in [Numbers -> Invoice]
  <2>1. ASSUME NEW n \in Numbers, CreateInvoice(n) PROVE invoice' \in [Numbers -> Invoice]
    <3>1. [status |-> "draft", total |-> claim[n].certNet, paid |-> 0] \in Invoice
      BY <1>2 DEF Invoice, InvoiceStatuses
    <3> QED BY <2>1, <3>1 DEF CreateInvoice, Typed, TypeOK
  <2>2. ASSUME NEW n \in Numbers, NEW to \in {"issued", "void"}, MoveInvoice(n, to)
        PROVE  invoice' \in [Numbers -> Invoice]
    <3>1. [invoice[n] EXCEPT !.status = to] \in Invoice
      BY DEF Typed, TypeOK, Invoice, InvoiceStatuses
    <3>2. invoice' = [invoice EXCEPT ![n] = [invoice[n] EXCEPT !.status = to]]
      BY <2>2 DEF MoveInvoice
    <3> QED BY <3>1, <3>2 DEF Typed, TypeOK
  <2>3. ASSUME NEW n \in Numbers, NEW amount \in Payments, PayInvoice(n, amount)
        PROVE  invoice' \in [Numbers -> Invoice]
    <3> DEFINE paid == invoice[n].paid + amount
               to == IF paid >= invoice[n].total THEN "paid" ELSE "part_paid"
               i == [invoice[n] EXCEPT !.status = to, !.paid = paid]
    <3>1. paid \in Nat
      BY <1>2, PaymentsAssumption
    <3>2. to \in InvoiceStatuses
      BY DEF InvoiceStatuses
    <3>3. invoice' = [m \in Numbers |-> IF m = n THEN i ELSE invoice[m]]
      <4>1. invoice' = [invoice EXCEPT ![n].status = to, ![n].paid = paid]
        BY <2>3 DEF PayInvoice
      <4> HIDE DEF to, paid
      <4> QED BY <4>1 DEF Typed, TypeOK
    <3> HIDE DEF to, paid
    <3>4. i \in Invoice
      BY <3>1, <3>2 DEF Typed, TypeOK, Invoice
    <3> HIDE DEF i
    <3> QED BY <3>3, <3>4 DEF Typed, TypeOK
  <2> QED BY <2>1, <2>2, <2>3 DEF InvoiceNext
<1>4. claim' \in [Numbers -> Claim] /\ UnusedIsBlank'
  <2>1. \/ claim' = claim
        \/ \E n \in Numbers: \E to \in Billed:
             Exists(n) /\ claim' = [claim EXCEPT ![n].status = to]
    BY DEF InvoiceNext, CreateInvoice, MoveInvoice, PayInvoice, Billed, Exists
  <2>2. CASE claim' = claim
    BY <2>2 DEF Typed, TypeOK, UnusedIsBlank, Exists
  <2>3. ASSUME NEW n \in Numbers, NEW to \in Billed, Exists(n),
               claim' = [claim EXCEPT ![n].status = to]
        PROVE  claim' \in [Numbers -> Claim] /\ UnusedIsBlank'
    <3>1. to \in ClaimStatuses \ {"none"}
      BY DEF Billed, ClaimStatuses
    <3> QED BY <2>3, <3>1, StatusTypes
  <2> QED BY <2>1, <2>2, <2>3
<1> QED BY <1>1, <1>3, <1>4 DEF Typed, TypeOK

\* Every step keeps the types.
LEMMA StepTypes ==
  ASSUME IInv, Typed, [Next]_vars
  PROVE  Typed'
<1>1. CASE CloseProject \/ ReopenProject \/ UNCHANGED vars
  BY <1>1 DEF CloseProject, ReopenProject, vars, Typed, TypeOK, UnusedIsBlank, Exists
<1> QED BY <1>1, BeginCreateTypes, CreateTypes, AbortTypes, DeleteTypes, TransitionTypes,
     BeginCertifyTypes, CommitCertifyTypes, InvoiceTypes DEF Next, ClaimNext

LEMMA InitTyped == Init => Typed
<1> SUFFICES ASSUME Init PROVE Typed
  OBVIOUS
<1>1. NoInvoice \in Invoice
  BY DEF NoInvoice, Invoice, InvoiceStatuses
<1>2. Idle \in Preparation /\ Idle \in Certification
  BY DEF Preparation, Certification
<1> QED BY <1>1, <1>2, NoClaimIsClaim DEF Init, Typed, TypeOK, UnusedIsBlank, Exists

-----------------------------------------------------------------------------
(* Invoices                                                                 *)

\* A step that changes no invoice, and only claims without one.
UnbilledOnly ==
  /\ invoice' = invoice
  /\ \A n \in Numbers: \/ claim'[n] = claim[n]
                       \/ claim[n].status \notin Billed /\ claim'[n].status \notin Billed

LEMMA UnbilledKeeps ==
  ASSUME InvoiceAgreesWithClaim, UnbilledOnly
  PROVE  InvoiceAgreesWithClaim'
BY DEF InvoiceAgreesWithClaim, UnbilledOnly, Exists, Billed

\* Preparing, sending and certifying claims are such steps.
LEMMA ClaimStepsUnbilled ==
  ASSUME IInv, Typed, ClaimNext \/ CloseProject \/ ReopenProject \/ UNCHANGED vars
  PROVE  UnbilledOnly
<1>1. invoice' = invoice
  BY DEF ClaimNext, BeginCreate, CommitCreate, AbortCreate, DeleteDraftClaim, TransitionClaim,
         BeginCertify, CommitCertify, AbortCertify, CloseProject, ReopenProject, vars
<1>2. CASE CommitCreate
  <2> DEFINE new == New(preparing.input, preparing.held, preparing.previous)
  <2>1. \A m \in Numbers: Exists(m) <=> m < NextNumber
    BY <1>2, CreateWrites
  <2>2. \A m \in Numbers: claim'[m] = IF m = NextNumber THEN new ELSE claim[m]
    BY <1>2, CreateWrites
  <2>3. new.status = "draft"
    BY <1>2, CreateWrites, PreparationHolds, NewIsClaim DEF Typed
  <2> HIDE DEF new
  <2>4. \A m \in Numbers: m = NextNumber => claim[m].status = "none"
    BY <2>1 DEF Exists, Numbers
  <2> QED BY <1>1, <2>2, <2>3, <2>4 DEF UnbilledOnly, Billed
<1>3. ASSUME NEW n \in Numbers, DeleteDraftClaim(n)
      PROVE  UnbilledOnly
  <2>1. claim[n].status = "draft" /\ claim' = [claim EXCEPT ![n] = NoClaim]
    BY <1>3 DEF DeleteDraftClaim
  <2> QED BY <1>1, <2>1, NoClaimIsClaim DEF UnbilledOnly, Billed, IInv, Shape
<1>4. ASSUME NEW n \in Numbers, NEW to, TransitionClaim(n, to)
      PROVE  UnbilledOnly
  <2>1. /\ claim[n].status \in Unsent /\ to \in Unsent \cup {"submitted"}
        /\ claim' = [claim EXCEPT ![n].status = to]
    BY <1>4 DEF TransitionClaim, ClaimEdges, Unsent
  <2>2. StatusMoves(n, to)
    BY <2>1, StatusSet DEF IInv
  <2> QED BY <1>1, <2>1, <2>2 DEF UnbilledOnly, StatusMoves, Billed, Unsent
<1>5. ASSUME NEW n \in Numbers, CommitCertify(n)
      PROVE  UnbilledOnly
  <2>1. claim[n].status = "submitted"
    BY <1>5 DEF CommitCertify, IInv, CertifiesSubmitted
  <2>2. PICK ret, net: claim' = [claim EXCEPT ![n].status = "certified", ![n].certRet = ret,
                                              ![n].certNet = net]
    BY <1>5 DEF CommitCertify
  <2>3. /\ \A m \in Numbers: m # n => claim'[m] = claim[m]
        /\ claim'[n].status = "certified"
    BY <2>2 DEF Typed, TypeOK, Claim
  <2> QED BY <1>1, <2>1, <2>3 DEF UnbilledOnly, Billed
<1>6. CASE claim' = claim
  BY <1>1, <1>6 DEF UnbilledOnly
<1> QED BY <1>2, <1>3, <1>4, <1>5, <1>6 DEF ClaimNext, BeginCreate, AbortCreate, BeginCertify,
     AbortCertify, CloseProject, ReopenProject, vars

\* Billing keeps the invoice and its claim together.
LEMMA InvoiceAgrees ==
  ASSUME IInv, Typed, InvoiceAgreesWithClaim, InvoiceNext
  PROVE  InvoiceAgreesWithClaim'
<1>1. \A n \in Numbers: /\ invoice[n].total \in Int /\ invoice[n].paid \in Nat
                        /\ claim[n].certNet \in Int
  BY DEF Typed, TypeOK, Invoice, Claim
<1>2. invoice \in [Numbers -> Invoice]
  BY DEF Typed, TypeOK
<1>3. ASSUME NEW n \in Numbers, CreateInvoice(n)
      PROVE  InvoiceAgreesWithClaim'
  <2>1. /\ claim[n].status = "certified" /\ invoice[n].status = "none"
        /\ claim' = [claim EXCEPT ![n].status = "invoiced"]
        /\ invoice' = [invoice EXCEPT ![n] =
             [status |-> "draft", total |-> claim[n].certNet, paid |-> 0]]
    BY <1>3 DEF CreateInvoice
  <2>2. StatusMoves(n, "invoiced")
    BY <2>1, StatusSet DEF IInv
  <2>3. /\ \A m \in Numbers: m # n => invoice'[m] = invoice[m]
        /\ invoice'[n] = [status |-> "draft", total |-> claim[n].certNet, paid |-> 0]
    BY <1>2, <2>1
  <2>4. claim'[n].status = "invoiced" /\ claim'[n].certNet = claim[n].certNet
    BY <2>2 DEF StatusMoves, ClaimFields
  <2>5. \A m \in Numbers: m # n => claim'[m] = claim[m]
    BY <2>2 DEF StatusMoves
  <2> QED BY <2>3, <2>4, <2>5 DEF InvoiceAgreesWithClaim, Billed, Exists
<1>4. ASSUME NEW n \in Numbers, NEW to, MoveInvoice(n, to)
      PROVE  InvoiceAgreesWithClaim'
  <2>1. /\ invoice[n].status \in {"draft", "issued"} /\ to \in {"issued", "void"}
        /\ claim' = claim /\ invoice' = [invoice EXCEPT ![n].status = to]
    BY <1>4 DEF MoveInvoice, InvoiceEdges
  <2>2. /\ \A m \in Numbers: m # n => invoice'[m] = invoice[m]
        /\ invoice'[n].status = to /\ invoice'[n].total = invoice[n].total
        /\ invoice'[n].paid = invoice[n].paid
    BY <1>2, <2>1 DEF Invoice
  <2> QED BY <2>1, <2>2 DEF InvoiceAgreesWithClaim, Billed, Exists
<1>5. ASSUME NEW n \in Numbers, NEW amount \in Payments, PayInvoice(n, amount)
      PROVE  InvoiceAgreesWithClaim'
  <2> DEFINE paid == invoice[n].paid + amount
             to == IF paid >= invoice[n].total THEN "paid" ELSE "part_paid"
  <2>1. /\ paid <= invoice[n].total /\ invoice[n].status \in {"issued", "part_paid"}
        /\ invoice' = [invoice EXCEPT ![n].status = to, ![n].paid = paid]
        /\ claim' = IF to = "paid" /\ claim[n].status = "invoiced"
                    THEN [claim EXCEPT ![n].status = "paid"] ELSE claim
    BY <1>5 DEF PayInvoice, PaymentEdges
  <2>2. paid \in Nat /\ paid >= 1
    BY <1>1, PaymentsAssumption
  <2>3. to \in {"paid", "part_paid"} /\ (to = "paid" <=> paid = invoice[n].total)
    BY <1>1, <2>1, <2>2
  <2>4. /\ \A m \in Numbers: m # n => invoice'[m] = invoice[m]
        /\ invoice'[n].status = to /\ invoice'[n].total = invoice[n].total
        /\ invoice'[n].paid = paid
    <3> HIDE DEF to, paid
    <3> QED BY <1>2, <2>1 DEF Invoice
  <2>5. claim[n].status = "invoiced" /\ invoice[n].total = claim[n].certNet
    BY <2>1 DEF InvoiceAgreesWithClaim, Billed, Exists
  <2>6. /\ \A m \in Numbers: m # n => claim'[m] = claim[m]
        /\ claim'[n].status = (IF to = "paid" THEN "paid" ELSE "invoiced")
        /\ claim'[n].certNet = claim[n].certNet
    <3>1. CASE to = "paid"
      <4>1. StatusMoves(n, "paid")
        BY <2>1, <2>5, <3>1, StatusSet DEF IInv
      <4> QED BY <3>1, <4>1 DEF StatusMoves, ClaimFields
    <3>2. CASE to # "paid"
      BY <2>1, <2>5, <3>2
    <3> HIDE DEF to
    <3> QED BY <3>1, <3>2
  <2> HIDE DEF to, paid
  <2>7. paid < invoice[n].total => paid \in 1..(invoice[n].total - 1)
    BY <1>1, <2>2
  <2>8. to = "part_paid" => paid \in 1..(invoice[n].total - 1)
    BY <1>1, <2>1, <2>2, <2>3
  <2> QED BY <2>3, <2>4, <2>5, <2>6, <2>8 DEF InvoiceAgreesWithClaim, Billed, Exists
<1> QED BY <1>3, <1>4, <1>5 DEF InvoiceNext

-----------------------------------------------------------------------------
(* Claimed amounts                                                          *)

\* No request names a source twice.
NoDoubles ==
  \A x \in Inputs: \A i, j \in DOMAIN x.lines:
    x.lines[i].source \in Sources /\ x.lines[j].source = x.lines[i].source => i = j

\* A place for each claim, and one after the last.
Counts == 1..(MaxClaims + 1)

\* What the claims with a smaller number took of source s.
ClaimedBefore(n, s) == SumFunctionOnSet(TakenAll(s), {m \in Numbers: m < n})

\* The third inductive invariant: the claims up to each stay within the value,
\* and a preparation under way checked its lines against amounts that still hold.
Within ==
  /\ \A s \in Sources: Value[s] >= 0 => \A n \in Counts: ClaimedBefore(n, s) \in 0..Value[s]
  /\ preparing.busy =>
       /\ \A s \in Sources: preparing.previous[s] = PreviousClaimed(s)
       /\ \A i \in DOMAIN preparing.input.lines:
            LineAllowed(preparing.input.lines[i], preparing.previous)

LEMMA PreviousIsBeforeNone ==
  \A s: PreviousClaimed(s) = ClaimedBefore(MaxClaims + 1, s)
<1> TAKE s
<1>1. Numbers = {m \in Numbers: m < MaxClaims + 1}
  BY DEF Numbers
<1>2. PreviousClaimed(s) = SumFunctionOnSet(TakenAll(s), Numbers)
  BY SumOverDomain DEF PreviousClaimed, TakenAll
<1> QED BY <1>1, <1>2 DEF ClaimedBefore

\* When no claim has a number from k on, all of them are before k.
LEMMA PreviousIsBefore ==
  ASSUME Typed, NEW k \in Int, \A m \in Numbers: m >= k => ~Exists(m), NEW s
  PROVE  PreviousClaimed(s) = ClaimedBefore(k, s)
<1>1. IsFiniteSet(Numbers) /\ \A m \in Numbers: TakenAll(s)[m] \in Int
  BY NumbersAreFinite, AmountsAreInts DEF Typed
<1>2. {m \in Numbers: m < k} \in SUBSET Numbers
  OBVIOUS
<1>3. ASSUME NEW m \in Numbers \ {i \in Numbers: i < k} PROVE TakenAll(s)[m] = 0
  <2>1. claim[m].lines = <<>>
    BY <1>3 DEF Typed, UnusedIsBlank, NoClaim, Numbers
  <2>2. TakenAll(s)[m] = TakenBy(<<>>, s)
    BY <2>1 DEF TakenAll, Taken, TakenBy
  <2> QED BY <2>2, TakenByNone
<1>4. PreviousClaimed(s) = SumFunctionOnSet(TakenAll(s), Numbers)
  BY SumOverDomain DEF PreviousClaimed, TakenAll
<1> HIDE DEF TakenAll
<1>5. SumFunctionOnSet(TakenAll(s), Numbers) = SumFunctionOnSet(TakenAll(s), {m \in Numbers: m < k})
  BY <1>1, <1>2, <1>3, SumOfSome
<1> QED BY <1>4, <1>5 DEF ClaimedBefore

\* A claim takes of a source the amount of its line on it, if it has one.
LEMMA NewTakes ==
  ASSUME NoDoubles, NEW x \in Inputs, NEW held \in Int, NEW previous \in [Sources -> Int],
         NEW s \in Sources
  PROVE  /\ \A i \in DOMAIN x.lines:
              /\ x.lines[i].amount \in Int
              /\ x.lines[i].source = s =>
                   TakenBy(New(x, held, previous).lines, s) = x.lines[i].amount
         /\ (\A i \in DOMAIN x.lines: x.lines[i].source # s) =>
              TakenBy(New(x, held, previous).lines, s) = 0
<1> DEFINE lines == New(x, held, previous).lines
           f == [i \in DOMAIN lines |-> IF lines[i].source = s THEN lines[i].amount ELSE 0]
           D == DOMAIN x.lines
<1>1. /\ D = 1..Len(x.lines) /\ Len(x.lines) \in Nat
      /\ \A i \in D: x.lines[i].source \in Sources \cup {Other} /\ x.lines[i].amount \in Int
  <2> DEFINE Asked == [source: Sources \cup {Other}, amount: Int \ {0}]
  <2>1. x.lines \in Seq(Asked)
    BY InputsAssumption
  <2>2. \A a \in Asked: a.source \in Sources \cup {Other} /\ a.amount \in Int
    OBVIOUS
  <2> HIDE DEF Asked
  <2> QED BY <2>1, <2>2
<1>2. /\ DOMAIN f = D
      /\ \A i \in D: f[i] = IF x.lines[i].source = s THEN x.lines[i].amount ELSE 0
  <2>1. lines = [i \in D |-> Recorded(x.lines[i], previous)]
    BY NewIsClaim
  <2>2. \A i \in D: lines[i].source = x.lines[i].source /\ lines[i].amount = x.lines[i].amount
    BY <2>1 DEF Recorded
  <2>3. DOMAIN lines = D
    BY <2>1
  <2> HIDE DEF lines, D
  <2> QED BY <2>2, <2>3
<1>3. IsFiniteSet(D) /\ \A i \in D: f[i] \in Int
  <2>1. IsFiniteSet(D)
    BY <1>1, FS_Interval
  <2> HIDE DEF f, D
  <2> QED BY <1>1, <1>2, <2>1
<1>4. TakenBy(lines, s) = SumFunctionOnSet(f, D)
  <2>1. TakenBy(lines, s) = SumFunction(f)
    BY DEF TakenBy
  <2> HIDE DEF f, D
  <2> QED BY <1>2, <2>1, SumOverDomain
<1>5. ASSUME \A i \in D: x.lines[i].source # s
      PROVE  TakenBy(lines, s) = 0
  <2>1. \A i \in D: f[i] = 0
    BY <1>2, <1>5
  <2> HIDE DEF f, D, lines
  <2>2. SumFunctionOnSet(f, D) = 0
    BY <1>3, <2>1, SumOfZeros
  <2> QED BY <1>4, <2>2
<1>6. ASSUME NEW i \in D, x.lines[i].source = s
      PROVE  TakenBy(lines, s) = x.lines[i].amount
  <2>1. \A j \in D \ {i}: x.lines[j].source # s
    BY <1>6 DEF NoDoubles
  <2>2. \A j \in D \ {i}: f[j] = 0
    BY <1>2, <2>1
  <2>3. IsFiniteSet(D \ {i})
    BY <1>3, FS_Subset
  <2>4. f[i] = x.lines[i].amount /\ x.lines[i].amount \in Int
    BY <1>1, <1>2, <1>6
  <2> HIDE DEF f, D, lines
  <2>5. SumFunctionOnSet(f, D \ {i}) = 0
    BY <2>2, <2>3, SumOfZeros
  <2>6. SumFunctionOnSet(f, D) = f[i] + SumFunctionOnSet(f, D \ {i})
    BY <1>3, SumTakesAny
  <2> QED BY <1>4, <2>4, <2>5, <2>6
<1> HIDE DEF f, lines
<1> QED BY <1>1, <1>5, <1>6 DEF lines

\* A claim whose lines were allowed keeps what is claimed within the value.
LEMMA NewStaysWithin ==
  ASSUME NoDoubles, NEW x \in Inputs, NEW held \in Int, NEW previous \in [Sources -> Int],
         \A i \in DOMAIN x.lines: LineAllowed(x.lines[i], previous),
         NEW s \in Sources, previous[s] \in 0..Value[s]
  PROVE  previous[s] + TakenBy(New(x, held, previous).lines, s) \in 0..Value[s]
<1>1. previous[s] \in 0..Value[s] /\ previous[s] \in Int /\ Value[s] \in Int
  BY SourcesAssumption
<1>2. CASE \A i \in DOMAIN x.lines: x.lines[i].source # s
  <2>1. TakenBy(New(x, held, previous).lines, s) = 0
    BY <1>2, NewTakes
  <2> QED BY <1>1, <2>1
<1>3. ASSUME NEW i \in DOMAIN x.lines, x.lines[i].source = s
      PROVE  previous[s] + TakenBy(New(x, held, previous).lines, s) \in 0..Value[s]
  <2>1. /\ x.lines[i].amount \in Int
        /\ TakenBy(New(x, held, previous).lines, s) = x.lines[i].amount
    BY <1>3, NewTakes
  <2>2. LineAllowed(x.lines[i], previous)
    OBVIOUS
  <2>3. previous[s] + x.lines[i].amount \in 0..Value[s]
    BY <1>1, <1>3, <2>1, <2>2 DEF LineAllowed
  <2> QED BY <2>1, <2>3
<1> QED BY <1>2, <1>3

\* A step that changes no lines keeps what is claimed.
LEMMA SameLinesKeep ==
  ASSUME Within, \A m \in Numbers: claim'[m].lines = claim[m].lines,
         ~preparing'.busy \/ preparing' = preparing
  PROVE  Within'
<1>1. \A s: \A m \in Numbers: Taken(m, s)' = Taken(m, s)
  BY DEF Taken
<1>2. \A s: TakenAll(s)' = TakenAll(s)
  BY <1>1 DEF TakenAll
<1>3. /\ \A s, n: ClaimedBefore(n, s)' = ClaimedBefore(n, s)
      /\ \A s: PreviousClaimed(s)' = PreviousClaimed(s)
  BY <1>1, <1>2 DEF ClaimedBefore, PreviousClaimed
<1> QED BY <1>3 DEF Within

\* A new claim takes what its lines were allowed, after the claims there are.
LEMMA CreateWithin ==
  ASSUME NoDoubles, IInv, Typed, Within, CommitCreate
  PROVE  Within'
<1> DEFINE x == preparing.input
           new == New(x, preparing.held, preparing.previous)
<1>1. PICK k: k = NextNumber
  OBVIOUS
<1>2. /\ preparing.busy
      /\ \A m \in Numbers: Exists(m) <=> m < k
      /\ \A m \in Numbers: claim'[m] = IF m = k THEN new ELSE claim[m]
  BY <1>1, CreateWrites
<1>3. /\ x \in Inputs /\ preparing.held \in Int /\ preparing.previous \in [Sources -> Int]
      /\ new \in Claim
  BY <1>2, PreparationHolds, NewIsClaim DEF Typed
<1>4. preparing'.busy = FALSE
  BY DEF CommitCreate, Idle
<1>5. CASE k \notin Numbers
  <2>1. \A m \in Numbers: claim'[m].lines = claim[m].lines
    BY <1>2, <1>5
  <2> QED BY <1>4, <2>1, SameLinesKeep
<1>6. CASE k \in Numbers
  <2> SUFFICES ASSUME NEW s \in Sources, Value[s] >= 0
               PROVE  \A n \in Counts: ClaimedBefore(n, s)' \in 0..Value[s]
    BY <1>4 DEF Within
  <2>1. PICK f: f = TakenAll(s)
    OBVIOUS
  <2>2. PICK g: g = TakenAll(s)'
    OBVIOUS
  <2>3. \A m \in Numbers: m # k => g[m] = f[m]
    BY <1>2, <2>1, <2>2 DEF TakenAll, Taken
  <2>4. g[k] = TakenBy(new.lines, s)
    <3> HIDE DEF new
    <3> QED BY <1>2, <1>6, <2>2 DEF TakenAll, Taken, TakenBy
  <2>5. \A m \in Numbers: m >= k => ~Exists(m)
    BY <1>2, <1>6 DEF Numbers
  <2>6. \A m \in Numbers: m >= k => f[m] = 0
    <3>1. ASSUME NEW m \in Numbers, m >= k PROVE f[m] = 0
      <4>1. claim[m].lines = <<>>
        BY <2>5, <3>1 DEF Typed, UnusedIsBlank, NoClaim
      <4>2. f[m] = TakenBy(<<>>, s)
        BY <2>1, <4>1 DEF TakenAll, Taken, TakenBy
      <4> QED BY <4>2, TakenByNone
    <3> QED BY <3>1
  <2>7. \A m \in Numbers: f[m] \in Int
    BY <2>1, AmountsAreInts DEF Typed
  <2>8. g[k] \in Int
    <3>1. new.lines \in Seq(Line)
      BY <1>3 DEF Claim
    <3> HIDE DEF new
    <3> QED BY <2>4, <3>1, TakenByIsInt
  <2>9. preparing.previous[s] = ClaimedBefore(k, s)
    <3>1. k \in Int
      BY <1>6 DEF Numbers
    <3>2. preparing.previous[s] = PreviousClaimed(s)
      BY <1>2 DEF Within
    <3> QED BY <2>5, <3>1, <3>2, PreviousIsBefore
  <2>10. /\ \A n \in Counts: ClaimedBefore(n, s) \in 0..Value[s]
         /\ k \in Counts
         /\ \A i \in DOMAIN x.lines: LineAllowed(x.lines[i], preparing.previous)
    BY <1>2, <1>6 DEF Within, Counts, Numbers
  <2>11. ClaimedBefore(k, s) + g[k] \in 0..Value[s]
    <3>1. preparing.previous[s] \in 0..Value[s]
      BY <2>9, <2>10
    <3>2. preparing.previous[s] + TakenBy(new.lines, s) \in 0..Value[s]
      BY <1>3, <2>10, <3>1, NewStaysWithin
    <3> HIDE DEF new
    <3> QED BY <2>4, <2>9, <3>2
  <2> DEFINE F(n) == SumBelow(f, MaxClaims, n)
             G(n) == SumBelow(g, MaxClaims, n)
  <2>12. /\ \A n: ClaimedBefore(n, s) = F(n)
         /\ \A n: ClaimedBefore(n, s)' = G(n)
    BY <2>1, <2>2 DEF ClaimedBefore, SumBelow, Numbers
  <2>13. \A m \in 1..MaxClaims: /\ g[m] \in Int
                                /\ m < k => g[m] = f[m]
                                /\ m > k => g[m] = 0
    <3>1. k \in Int
      BY <1>6 DEF Numbers
    <3> QED BY <2>3, <2>6, <2>7, <2>8, <3>1 DEF Numbers
  <2>14. \A n \in 1..(MaxClaims + 1): F(n) \in 0..Value[s]
    <3> HIDE DEF F
    <3> QED BY <2>10, <2>12 DEF Counts
  <2>15. F(k) + g[k] \in 0..Value[s]
    <3> HIDE DEF F
    <3> QED BY <2>11, <2>12
  <2>16. k \in 1..MaxClaims /\ Value[s] \in Int
    BY <1>6, SourcesAssumption DEF Numbers
  <2>17. \A n \in 1..(MaxClaims + 1): G(n) \in 0..Value[s]
    BY <2>13, <2>14, <2>15, <2>16, SumsStayInRange
  <2> HIDE DEF G
  <2> QED BY <2>12, <2>17 DEF Counts
<1> QED BY <1>5, <1>6

\* Deleting the draft takes the last amount away.
LEMMA DeleteWithin ==
  ASSUME IInv, Typed, Within, NEW k \in Numbers, DeleteDraftClaim(k)
  PROVE  Within'
<1>1. /\ claim[k].status = "draft" /\ preparing' = preparing
      /\ \A m \in Numbers: claim'[m] = IF m = k THEN NoClaim ELSE claim[m]
  BY DEF DeleteDraftClaim, IInv, Shape
<1>2. ~preparing.busy /\ \A m \in Numbers: m > k => ~Exists(m)
  <2>1. ~preparing.busy
    BY <1>1 DEF IInv, UnsentClaimIsLast, Unsent
  <2>2. \A m \in Numbers: Exists(m) => m <= k
    BY <1>1 DEF IInv, UnsentClaimIsLast, Unsent
  <2> QED BY <2>1, <2>2 DEF Numbers
<1> SUFFICES ASSUME NEW s \in Sources, Value[s] >= 0
             PROVE  \A n \in Counts: ClaimedBefore(n, s)' \in 0..Value[s]
  BY <1>1, <1>2 DEF Within
<1>3. PICK f: f = TakenAll(s)
  OBVIOUS
<1>4. PICK g: g = TakenAll(s)'
  OBVIOUS
<1>5. \A m \in Numbers: m # k => g[m] = f[m]
  BY <1>1, <1>3, <1>4 DEF TakenAll, Taken
<1>6. g[k] = 0
  <2>1. claim'[k].lines = <<>>
    BY <1>1 DEF NoClaim
  <2>2. g[k] = TakenBy(<<>>, s)
    BY <1>4, <2>1 DEF TakenAll, Taken, TakenBy
  <2> QED BY <2>2, TakenByNone
<1>7. \A m \in Numbers: m > k => f[m] = 0
  <2>1. ASSUME NEW m \in Numbers, m > k PROVE f[m] = 0
    <3>1. claim[m].lines = <<>>
      BY <1>2, <2>1 DEF Typed, UnusedIsBlank, NoClaim
    <3>2. f[m] = TakenBy(<<>>, s)
      BY <1>3, <3>1 DEF TakenAll, Taken, TakenBy
    <3> QED BY <3>2, TakenByNone
  <2> QED BY <2>1
<1>8. \A m \in Numbers: f[m] \in Int
  BY <1>3, AmountsAreInts DEF Typed
<1> DEFINE F(n) == SumBelow(f, MaxClaims, n)
           G(n) == SumBelow(g, MaxClaims, n)
<1>9. /\ \A n: ClaimedBefore(n, s) = F(n)
      /\ \A n: ClaimedBefore(n, s)' = G(n)
  BY <1>3, <1>4 DEF ClaimedBefore, SumBelow, Numbers
<1>10. \A m \in 1..MaxClaims: /\ g[m] \in Int
                              /\ m < k => g[m] = f[m]
                              /\ m > k => g[m] = 0
  <2>1. k \in Int
    BY DEF Numbers
  <2> QED BY <1>5, <1>6, <1>7, <1>8, <2>1 DEF Numbers
<1>11. /\ \A n \in 1..(MaxClaims + 1): F(n) \in 0..Value[s]
       /\ k \in 1..(MaxClaims + 1) /\ k \in 1..MaxClaims
       /\ Value[s] \in Int
  <2> HIDE DEF F
  <2> QED BY <1>9, SourcesAssumption DEF Within, Counts, Numbers
<1>12. F(k) + g[k] \in 0..Value[s]
  <2> HIDE DEF F
  <2> QED BY <1>6, <1>11
<1>13. \A n \in 1..(MaxClaims + 1): G(n) \in 0..Value[s]
  BY <1>10, <1>11, <1>12, SumsStayInRange
<1> HIDE DEF G
<1> QED BY <1>9, <1>13 DEF Counts

\* No other step changes a line.
LEMMA OtherStepsKeepLines ==
  ASSUME IInv, Typed, [Next]_vars, ~CommitCreate, ~(\E n \in Numbers: DeleteDraftClaim(n))
  PROVE  \A m \in Numbers: claim'[m].lines = claim[m].lines
<1>1. ASSUME NEW n \in Numbers, NEW to, claim' = [claim EXCEPT ![n].status = to]
      PROVE  \A m \in Numbers: claim'[m].lines = claim[m].lines
  BY <1>1, StatusSet DEF IInv, StatusMoves, ClaimFields
<1>2. ASSUME NEW n \in Numbers, CommitCertify(n)
      PROVE  \A m \in Numbers: claim'[m].lines = claim[m].lines
  <2>1. PICK ret, net: claim' = [claim EXCEPT ![n].status = "certified", ![n].certRet = ret,
                                              ![n].certNet = net]
    BY <1>2 DEF CommitCertify
  <2> QED BY <2>1 DEF Typed, TypeOK, Claim
<1>3. CASE InvoiceNext
  BY <1>1, <1>3 DEF InvoiceNext, CreateInvoice, MoveInvoice, PayInvoice
<1>4. CASE ClaimNext
  BY <1>1, <1>2, <1>4 DEF ClaimNext, BeginCreate, AbortCreate, TransitionClaim, BeginCertify,
     AbortCertify
<1> QED BY <1>3, <1>4 DEF Next, CloseProject, ReopenProject, vars

\* Every step keeps what is claimed within the value.
LEMMA StepWithin ==
  ASSUME NoDoubles, IInv, Typed, Within, [Next]_vars
  PROVE  Within'
<1>1. CASE CommitCreate
  BY <1>1, CreateWithin
<1>2. CASE \E n \in Numbers: DeleteDraftClaim(n)
  BY <1>2, DeleteWithin
<1>3. ASSUME NEW x \in Inputs, BeginCreate(x)
      PROVE  Within'
  <2>1. /\ claim' = claim
        /\ preparing'.input = x
        /\ preparing'.previous = [s \in Sources |-> PreviousClaimed(s)]
        /\ \A i \in DOMAIN x.lines: LineAllowed(x.lines[i], preparing'.previous)
    BY <1>3 DEF BeginCreate
  <2>2. /\ \A s, n: ClaimedBefore(n, s)' = ClaimedBefore(n, s)
        /\ \A s: PreviousClaimed(s)' = PreviousClaimed(s)
    BY <2>1 DEF ClaimedBefore, TakenAll, PreviousClaimed, Taken
  <2> QED BY <2>1, <2>2 DEF Within
<1>4. CASE /\ ~(\E x \in Inputs: BeginCreate(x)) /\ ~CommitCreate
           /\ ~(\E n \in Numbers: DeleteDraftClaim(n))
  <2>1. ~preparing'.busy \/ preparing' = preparing
    <3>1. CASE AbortCreate
      BY <3>1 DEF AbortCreate, Idle
    <3>2. ClaimNext => AbortCreate \/ preparing' = preparing
      BY <1>4 DEF ClaimNext, TransitionClaim, BeginCertify, CommitCertify, AbortCertify
    <3>3. InvoiceNext => preparing' = preparing
      BY DEF InvoiceNext, CreateInvoice, MoveInvoice, PayInvoice
    <3> QED BY <3>1, <3>2, <3>3 DEF Next, CloseProject, ReopenProject, vars
  <2>2. \A m \in Numbers: claim'[m].lines = claim[m].lines
    BY <1>4, OtherStepsKeepLines
  <2> QED BY <2>1, <2>2, SameLinesKeep
<1> QED BY <1>1, <1>2, <1>3, <1>4

\* No claim takes anything.
LEMMA InitWithin == Init => Within
<1> SUFFICES ASSUME Init PROVE Within
  OBVIOUS
<1>1. ~preparing.busy
  BY DEF Init, Idle
<1>2. ASSUME NEW s \in Sources, Value[s] >= 0, NEW n \in Counts
      PROVE  ClaimedBefore(n, s) \in 0..Value[s]
  <2>1. \A m \in Numbers: TakenAll(s)[m] = TakenBy(<<>>, s)
    BY DEF Init, NoClaim, TakenAll, Taken, TakenBy
  <2>2. \A m \in {i \in Numbers: i < n}: TakenAll(s)[m] = 0
    BY <2>1, TakenByNone
  <2>3. {i \in Numbers: i < n} \in SUBSET Numbers
    OBVIOUS
  <2>4. IsFiniteSet({i \in Numbers: i < n})
    BY <2>3, NumbersAreFinite
  <2>5. ClaimedBefore(n, s) = 0
    BY <2>2, <2>4, SumOfZeros DEF ClaimedBefore
  <2> QED BY <1>2, <2>5, SourcesAssumption
<1> QED BY <1>1, <1>2 DEF Within

-----------------------------------------------------------------------------
(* Claimed to date                                                          *)

\* The fifth inductive invariant, as ClaimedToDateAgrees with ClaimedBefore.
ToDate ==
  \A n \in Numbers: \A i \in DOMAIN claim[n].lines: \A s \in Sources:
    claim[n].lines[i].source = s => claim[n].lines[i].toDate = ClaimedBefore(n + 1, s)

\* What is claimed before k does not change with the claims from k on.
LEMMA BeforeStays ==
  ASSUME NEW k \in Int, \A m \in Numbers: m < k => claim'[m].lines = claim[m].lines
  PROVE  \A s: ClaimedBefore(k, s)' = ClaimedBefore(k, s)
<1> TAKE s
<1>1. PICK f: f = TakenAll(s)
  OBVIOUS
<1>2. PICK g: g = TakenAll(s)'
  OBVIOUS
<1>3. \A m \in 1..MaxClaims: m < k => g[m] = f[m]
  BY <1>1, <1>2 DEF TakenAll, Taken, Numbers
<1>4. /\ ClaimedBefore(k, s) = SumFunctionOnSet(f, {m \in 1..MaxClaims: m < k})
      /\ ClaimedBefore(k, s)' = SumFunctionOnSet(g, {m \in 1..MaxClaims: m < k})
  BY <1>1, <1>2 DEF ClaimedBefore, Numbers
<1>5. SumFunctionOnSet(g, {m \in 1..MaxClaims: m < k}) =
        SumFunctionOnSet(f, {m \in 1..MaxClaims: m < k})
  BY <1>3, SumsBelowAgree
<1> QED BY <1>4, <1>5

LEMMA SameLinesToDate ==
  ASSUME ToDate, \A m \in Numbers: claim'[m].lines = claim[m].lines
  PROVE  ToDate'
<1>1. \A n \in Numbers: n + 1 \in Int
  BY DEF Numbers
<1>2. \A n \in Numbers: \A s: ClaimedBefore(n + 1, s)' = ClaimedBefore(n + 1, s)
  BY <1>1, BeforeStays
<1> QED BY <1>2 DEF ToDate

\* A new claim records on each line what is claimed up to it.
LEMMA CreateToDate ==
  ASSUME NoDoubles, IInv, Typed, Within, ToDate, CommitCreate
  PROVE  ToDate'
<1> DEFINE x == preparing.input
           new == New(x, preparing.held, preparing.previous)
<1>1. PICK k: k = NextNumber
  OBVIOUS
<1>2. /\ preparing.busy
      /\ \A m \in Numbers: Exists(m) <=> m < k
      /\ \A m \in Numbers: claim'[m] = IF m = k THEN new ELSE claim[m]
  BY <1>1, CreateWrites
<1>3. /\ x \in Inputs /\ preparing.held \in Int /\ preparing.previous \in [Sources -> Int]
      /\ new \in Claim
      /\ new.lines = [i \in DOMAIN x.lines |-> Recorded(x.lines[i], preparing.previous)]
  BY <1>2, PreparationHolds, NewIsClaim DEF Typed
<1>4. CASE k \notin Numbers
  <2>1. \A m \in Numbers: claim'[m].lines = claim[m].lines
    BY <1>2, <1>4
  <2> QED BY <2>1, SameLinesToDate
<1>5. CASE k \in Numbers
  <2>1. k \in Int /\ k \in 1..MaxClaims /\ \A m \in Numbers: m >= k => ~Exists(m)
    BY <1>2, <1>5 DEF Numbers
  <2>2. \A n \in Numbers: n < k => \A s: ClaimedBefore(n + 1, s)' = ClaimedBefore(n + 1, s)
    <3>1. ASSUME NEW n \in Numbers, n < k
          PROVE  \A s: ClaimedBefore(n + 1, s)' = ClaimedBefore(n + 1, s)
      <4>1. n + 1 \in Int /\ \A m \in Numbers: m < n + 1 => claim'[m].lines = claim[m].lines
        BY <1>2, <2>1, <3>1 DEF Numbers
      <4> QED BY <4>1, BeforeStays
    <3> QED BY <3>1
  <2>3. \A s: ClaimedBefore(k, s)' = ClaimedBefore(k, s)
    <3>1. \A m \in Numbers: m < k => claim'[m].lines = claim[m].lines
      BY <1>2, <2>1 DEF Numbers
    <3> QED BY <2>1, <3>1, BeforeStays
  <2>4. ASSUME NEW s \in Sources
        PROVE  ClaimedBefore(k + 1, s)' = preparing.previous[s] + TakenBy(new.lines, s)
    <3>1. PICK g: g = TakenAll(s)'
      OBVIOUS
    <3>2. \A m \in Numbers: claim'[m].lines \in Seq(Line)
      BY <1>2, <1>3 DEF Typed, TypeOK, Claim
    <3>3. \A m \in Numbers: g[m] = TakenBy(claim'[m].lines, s)
      BY <3>1 DEF TakenAll, Taken, TakenBy
    <3>4. \A m \in 1..MaxClaims: g[m] \in Int
      BY <3>2, <3>3, TakenByIsInt DEF Numbers
    <3>5. g[k] = TakenBy(new.lines, s)
      <4> HIDE DEF new
      <4> QED BY <1>2, <1>5, <3>3
    <3>6. /\ ClaimedBefore(k, s)' = SumFunctionOnSet(g, {m \in 1..MaxClaims: m < k})
          /\ ClaimedBefore(k + 1, s)' = SumFunctionOnSet(g, {m \in 1..MaxClaims: m < k + 1})
      BY <3>1 DEF ClaimedBefore, Numbers
    <3>7. ClaimedBefore(k + 1, s)' = ClaimedBefore(k, s)' + g[k]
      BY <2>1, <3>4, <3>6, SumBelowNext
    <3>8. preparing.previous[s] = ClaimedBefore(k, s)
      BY <1>2, <2>1, PreviousIsBefore DEF Within
    <3> HIDE DEF new
    <3> QED BY <2>3, <3>5, <3>7, <3>8
  <2>5. ASSUME NEW i \in DOMAIN new.lines, NEW s \in Sources, new.lines[i].source = s
        PROVE  new.lines[i].toDate = ClaimedBefore(k + 1, s)'
    <3>1. i \in DOMAIN x.lines /\ new.lines[i] = Recorded(x.lines[i], preparing.previous)
      BY <1>3, <2>5
    <3>2. s = x.lines[i].source
      BY <2>5, <3>1 DEF Recorded
    <3>3. TakenBy(new.lines, s) = x.lines[i].amount /\ x.lines[i].amount \in Int
      BY <1>3, <3>1, <3>2, NewTakes
    <3>4. new.lines[i].toDate = x.lines[i].amount + preparing.previous[s]
      <4> HIDE DEF new
      <4> QED BY <3>1, <3>2 DEF Recorded
    <3>5. preparing.previous[s] \in Int
      BY <1>3
    <3>6. ClaimedBefore(k + 1, s)' = preparing.previous[s] + x.lines[i].amount
      BY <2>4, <3>3
    <3> HIDE DEF new
    <3> QED BY <3>3, <3>4, <3>5, <3>6
  <2> HIDE DEF new
  <2>6. ASSUME NEW n \in Numbers, NEW i \in DOMAIN claim'[n].lines, NEW s \in Sources,
               claim'[n].lines[i].source = s
        PROVE  claim'[n].lines[i].toDate = ClaimedBefore(n + 1, s)'
    <3>1. CASE n = k
      BY <1>2, <2>5, <2>6, <3>1
    <3>2. CASE n < k
      <4>1. claim'[n] = claim[n]
        BY <1>2, <2>1, <3>2 DEF Numbers
      <4> QED BY <2>2, <2>6, <3>2, <4>1 DEF ToDate
    <3>3. CASE n > k
      <4>1. claim'[n] = NoClaim
        BY <1>2, <2>1, <3>3 DEF Typed, UnusedIsBlank, Numbers
      <4> QED BY <2>6, <4>1 DEF NoClaim
    <3> QED BY <2>1, <3>1, <3>2, <3>3 DEF Numbers
  <2> QED BY <2>6 DEF ToDate
<1> QED BY <1>4, <1>5

\* Deleting the draft takes the last line away.
LEMMA DeleteToDate ==
  ASSUME IInv, Typed, ToDate, NEW k \in Numbers, DeleteDraftClaim(k)
  PROVE  ToDate'
<1>1. /\ claim[k].status = "draft"
      /\ \A m \in Numbers: claim'[m] = IF m = k THEN NoClaim ELSE claim[m]
  BY DEF DeleteDraftClaim, IInv, Shape
<1>2. ASSUME NEW n \in Numbers, NEW i \in DOMAIN claim'[n].lines, NEW s \in Sources,
             claim'[n].lines[i].source = s
      PROVE  claim'[n].lines[i].toDate = ClaimedBefore(n + 1, s)'
  <2>1. n # k /\ claim'[n] = claim[n]
    BY <1>1, <1>2 DEF NoClaim
  <2>2. CASE n < k
    <3>1. n + 1 \in Int /\ \A m \in Numbers: m < n + 1 => claim'[m].lines = claim[m].lines
      BY <1>1, <2>2 DEF Numbers
    <3>2. ClaimedBefore(n + 1, s)' = ClaimedBefore(n + 1, s)
      BY <3>1, BeforeStays
    <3> QED BY <1>2, <2>1, <3>2 DEF ToDate
  <2>3. CASE n > k
    <3>1. ~Exists(n)
      BY <1>1, <2>3 DEF IInv, UnsentClaimIsLast, Unsent, Numbers
    <3>2. claim'[n] = NoClaim
      BY <2>1, <3>1 DEF Typed, UnusedIsBlank
    <3> QED BY <1>2, <3>2 DEF NoClaim
  <2> QED BY <2>1, <2>2, <2>3 DEF Numbers
<1> QED BY <1>2 DEF ToDate

LEMMA StepToDate ==
  ASSUME NoDoubles, IInv, Typed, Within, ToDate, [Next]_vars
  PROVE  ToDate'
<1>1. CASE CommitCreate
  BY <1>1, CreateToDate
<1>2. CASE \E n \in Numbers: DeleteDraftClaim(n)
  BY <1>2, DeleteToDate
<1> QED BY <1>1, <1>2, OtherStepsKeepLines, SameLinesToDate

\* There are no lines.
LEMMA InitToDate == Init => ToDate
BY DEF Init, NoClaim, ToDate

-----------------------------------------------------------------------------
(* Retention, as long as no claim is certified after a later one            *)

\* What a claim keeps and releases fits what is held before it.
Fits(c, held) ==
  c.released <= held /\ c.withheld <= Room(held) /\ c.certRet <= Room(held)

\* The fourth inductive invariant: what is held before each claim is within
\* the cap and the claim fits it; a transaction under way read what still holds.
Ordered ==
  ~late =>
    /\ \A n \in Counts: HeldBefore(n) \in 0..Cap
    /\ \A n \in Numbers: Exists(n) => Fits(claim[n], HeldBefore(n))
    /\ preparing.busy =>
         preparing.held = Held(Numbers) /\ preparing.input.release <= preparing.held
    /\ \A n \in Numbers: certifying[n].busy => certifying[n].held = HeldBefore(n)

LEMMA HeldIsSumBelow ==
  /\ \A n: HeldBefore(n) = SumBelow(RetainedAll, MaxClaims, n)
  /\ Held(Numbers) = HeldBefore(MaxClaims + 1)
<1>1. {m \in Numbers: m < MaxClaims + 1} = Numbers
  BY DEF Numbers
<1> QED BY <1>1 DEF HeldBefore, Held, RetainedAll, SumBelow, Numbers

\* When no claim has a number from k on, what is held is held before k.
LEMMA HeldIsBefore ==
  ASSUME Typed, NEW k \in Int, \A m \in Numbers: m >= k => ~Exists(m)
  PROVE  Held(Numbers) = HeldBefore(k)
<1>1. IsFiniteSet(Numbers) /\ \A m \in Numbers: RetainedAll[m] \in Int
  BY NumbersAreFinite, AmountsAreInts DEF Typed
<1>2. {m \in Numbers: m < k} \in SUBSET Numbers
  OBVIOUS
<1>3. \A m \in Numbers \ {i \in Numbers: i < k}: RetainedAll[m] = 0
  BY DEF RetainedAll, RetentionOf, HoldsRetention, Exists, Unsent, Billed, Numbers
<1>4. SumFunctionOnSet(RetainedAll, Numbers) = SumFunctionOnSet(RetainedAll, {m \in Numbers: m < k})
  <2> HIDE DEF RetainedAll
  <2> QED BY <1>1, <1>2, <1>3, SumOfSome
<1> QED BY <1>4 DEF Held, HeldBefore, RetainedAll

\* A step that leaves alone what is held of every claim.
SameRetention == \A m \in Numbers: RetentionOf(m)' = RetentionOf(m)

LEMMA SameRetentionSameHeld ==
  ASSUME SameRetention
  PROVE  (\A n: HeldBefore(n)' = HeldBefore(n)) /\ Held(Numbers)' = Held(Numbers)
<1>1. RetainedAll' = RetainedAll
  BY DEF SameRetention, RetainedAll
<1> QED BY <1>1 DEF HeldBefore, Held, RetainedAll

\* A step that starts no transaction and keeps what the claims retain.
Quiet ==
  /\ late' = late
  /\ SameRetention
  /\ \A m \in Numbers: Exists(m)' =>
       /\ Exists(m)
       /\ claim'[m].released = claim[m].released /\ claim'[m].withheld = claim[m].withheld
       /\ claim'[m].certRet = claim[m].certRet
  /\ ~preparing'.busy \/ preparing' = preparing
  /\ \A m \in Numbers: ~certifying'[m].busy \/ certifying'[m] = certifying[m]

LEMMA QuietKeeps ==
  ASSUME Ordered, Quiet
  PROVE  Ordered'
<1>1. (\A n: HeldBefore(n)' = HeldBefore(n)) /\ Held(Numbers)' = Held(Numbers)
  BY SameRetentionSameHeld DEF Quiet
<1> SUFFICES ASSUME ~late' PROVE Ordered'
  BY DEF Ordered
<1>2. ~late
  BY DEF Quiet
<1>3. \A n \in Counts: HeldBefore(n)' \in 0..Cap
  BY <1>1, <1>2 DEF Ordered
<1>4. \A n \in Numbers: Exists(n)' => Fits(claim'[n], HeldBefore(n)')
  BY <1>1, <1>2 DEF Ordered, Quiet, Fits
<1>5. preparing'.busy =>
        preparing'.held = Held(Numbers)' /\ preparing'.input.release <= preparing'.held
  BY <1>1, <1>2 DEF Ordered, Quiet
<1>6. \A n \in Numbers: certifying'[n].busy => certifying'[n].held = HeldBefore(n)'
  BY <1>1, <1>2 DEF Ordered, Quiet
<1> QED BY <1>3, <1>4, <1>5, <1>6 DEF Ordered

\* When the last claim comes to retain what fits, the sums stay in range.
LEMMA LastRetains ==
  ASSUME Typed, Ordered, ~late, NEW k \in Numbers, NEW kept \in Nat,
         \A m \in Numbers: m > k => ~Exists(m),
         \A m \in Numbers: m # k => claim'[m] = claim[m],
         claim[k].released <= HeldBefore(k), kept <= Room(HeldBefore(k)),
         RetentionOf(k)' = kept - claim[k].released
  PROVE  \A n \in Counts: /\ HeldBefore(n)' \in 0..Cap
                          /\ n <= k => HeldBefore(n)' = HeldBefore(n)
<1>1. PICK f: f = RetainedAll
  OBVIOUS
<1>2. PICK g: g = RetainedAll'
  OBVIOUS
<1>3. \A n: HeldBefore(n) = SumBelow(f, MaxClaims, n)
  BY <1>1, HeldIsSumBelow
<1>4. \A n: HeldBefore(n)' = SumBelow(g, MaxClaims, n)
  BY <1>2 DEF HeldBefore, Held, RetainedAll, SumBelow, Numbers
<1>5. /\ \A m \in Numbers: m # k => g[m] = f[m]
      /\ g[k] = kept - claim[k].released
  BY <1>1, <1>2 DEF RetainedAll, RetentionOf, HoldsRetention
<1>6. \A m \in Numbers: m > k => f[m] = 0
  BY <1>1 DEF RetainedAll, RetentionOf, HoldsRetention, Exists, Unsent, Billed
<1>7. (\A m \in Numbers: f[m] \in Int) /\ claim[k].released \in Nat
  BY <1>1, AmountsAreInts DEF Typed, TypeOK, Claim
<1>8. k \in Int /\ k \in 1..MaxClaims /\ k \in Counts
  BY DEF Numbers, Counts
<1>9. \A m \in 1..MaxClaims: /\ g[m] \in Int
                             /\ m < k => g[m] = f[m]
                             /\ m > k => g[m] = 0
  BY <1>5, <1>6, <1>7, <1>8 DEF Numbers
<1>10. \A n \in 1..(MaxClaims + 1): SumBelow(f, MaxClaims, n) \in 0..Cap
  BY <1>3 DEF Ordered, Counts
<1>11. SumBelow(f, MaxClaims, k) + g[k] \in 0..Cap
  <2>1. HeldBefore(k) \in 0..Cap /\ Cap \in Nat
    BY <1>8, TermsAssumption DEF Ordered
  <2>2. HeldBefore(k) + (kept - claim[k].released) \in 0..Cap
    BY <1>7, <2>1 DEF Room
  <2> QED BY <1>3, <1>5, <2>2
<1>12. Cap \in Int
  BY TermsAssumption
<1>13. \A n \in 1..(MaxClaims + 1):
         /\ SumBelow(g, MaxClaims, n) \in 0..Cap
         /\ n <= k => SumBelow(g, MaxClaims, n) = SumBelow(f, MaxClaims, n)
  BY <1>8, <1>9, <1>10, <1>11, <1>12, SumsStayInRange
<1> QED BY <1>3, <1>4, <1>13 DEF Counts

LEMMA BeginCreateOrdered ==
  ASSUME Ordered, NEW x \in Inputs, BeginCreate(x)
  PROVE  Ordered'
<1>1. /\ claim' = claim /\ certifying' = certifying /\ late' = late
      /\ preparing'.held = Held(Numbers) /\ preparing'.input = x
      /\ x.release <= Held(Numbers)
  BY DEF BeginCreate, ReleaseAllowed
<1>2. SameRetention
  BY <1>1 DEF SameRetention, RetentionOf, HoldsRetention
<1>3. (\A n: HeldBefore(n)' = HeldBefore(n)) /\ Held(Numbers)' = Held(Numbers)
  BY <1>2, SameRetentionSameHeld
<1> QED BY <1>1, <1>3 DEF Ordered, Exists

LEMMA BeginCertifyOrdered ==
  ASSUME Typed, Ordered, NEW n \in Numbers, NEW amount, BeginCertify(n, amount)
  PROVE  Ordered'
<1>1. /\ claim' = claim /\ preparing' = preparing /\ late' = late
      /\ certifying' = [certifying EXCEPT ![n] =
           [busy |-> TRUE, amount |-> amount, held |-> HeldBefore(n)]]
  BY DEF BeginCertify
<1>2. SameRetention
  BY <1>1 DEF SameRetention, RetentionOf, HoldsRetention
<1>3. (\A m: HeldBefore(m)' = HeldBefore(m)) /\ Held(Numbers)' = Held(Numbers)
  BY <1>2, SameRetentionSameHeld
<1>4. /\ \A m \in Numbers: m # n => certifying'[m] = certifying[m]
      /\ certifying'[n].held = HeldBefore(n)
  BY <1>1 DEF Typed, TypeOK
<1> QED BY <1>1, <1>3, <1>4 DEF Ordered, Exists

\* A draft retains nothing yet; it fits what is held before it.
LEMMA CreateOrdered ==
  ASSUME IInv, Typed, Ordered, CommitCreate
  PROVE  Ordered'
<1> DEFINE x == preparing.input
           new == New(x, preparing.held, preparing.previous)
<1>1. PICK k: k = NextNumber
  OBVIOUS
<1>2. /\ preparing.busy
      /\ \A m \in Numbers: Exists(m) <=> m < k
      /\ \A m \in Numbers: claim'[m] = IF m = k THEN new ELSE claim[m]
  BY <1>1, CreateWrites
<1>3. /\ new.status = "draft" /\ new.released = x.release /\ new.certRet = 0
      /\ new.withheld <= Room(preparing.held)
  BY <1>2, PreparationHolds, NewIsClaim DEF Typed
<1>4. preparing'.busy = FALSE /\ certifying' = certifying /\ late' = late
  BY DEF CommitCreate, Idle
<1> HIDE DEF new
<1>5. SameRetention
  <2>1. ASSUME NEW m \in Numbers PROVE RetentionOf(m)' = RetentionOf(m)
    <3>1. CASE m = k
      <4>1. claim[m].status = "none"
        BY <1>2, <3>1 DEF Exists, Numbers
      <4>2. claim'[m].status = "draft"
        BY <1>2, <1>3, <3>1
      <4> QED BY <4>1, <4>2 DEF RetentionOf, HoldsRetention, Billed
    <3>2. CASE m # k
      <4>1. claim'[m] = claim[m]
        BY <1>2, <3>2
      <4> QED BY <4>1 DEF RetentionOf, HoldsRetention
    <3> QED BY <3>1, <3>2
  <2> QED BY <2>1 DEF SameRetention
<1>6. (\A n: HeldBefore(n)' = HeldBefore(n)) /\ Held(Numbers)' = Held(Numbers)
  BY <1>5, SameRetentionSameHeld
<1>7. ASSUME ~late, NEW n \in Numbers, Exists(n)' PROVE Fits(claim'[n], HeldBefore(n))
  <2>1. CASE n = k
    <3>1. k \in Int /\ \A m \in Numbers: m >= k => ~Exists(m)
      BY <1>2, <2>1 DEF Numbers
    <3>2. preparing.held = HeldBefore(k) /\ x.release <= preparing.held
      BY <1>2, <1>7, <3>1, HeldIsBefore DEF Ordered
    <3>3. HeldBefore(k) \in 0..Cap
      BY <1>7, <2>1 DEF Ordered, Counts, Numbers
    <3>4. 0 <= Room(HeldBefore(k))
      BY <3>3, TermsAssumption DEF Room
    <3> QED BY <1>2, <1>3, <2>1, <3>2, <3>4 DEF Fits
  <2>2. CASE n # k
    BY <1>2, <1>7, <2>2 DEF Ordered, Exists
  <2> QED BY <2>1, <2>2
<1> QED BY <1>4, <1>6, <1>7 DEF Ordered

\* Sending a claim lets it retain what it fits.
LEMMA TransitionOrdered ==
  ASSUME IInv, Typed, Ordered, NEW k \in Numbers, NEW to, TransitionClaim(k, to)
  PROVE  Ordered'
<1>1. /\ claim[k].status \in Unsent /\ to \in Unsent \cup {"submitted"}
      /\ claim' = [claim EXCEPT ![k].status = to]
      /\ preparing' = preparing /\ certifying' = certifying /\ late' = late
  BY DEF TransitionClaim, ClaimEdges, Unsent
<1>2. StatusMoves(k, to)
  BY <1>1, StatusSet DEF IInv
<1>3. /\ \A m \in Numbers: m # k => claim'[m] = claim[m]
      /\ claim'[k].status = to
      /\ claim'[k].released = claim[k].released /\ claim'[k].withheld = claim[k].withheld
      /\ claim'[k].certRet = claim[k].certRet
  BY <1>2 DEF StatusMoves, ClaimFields
<1>4. CASE to \in Unsent
  <2>1. SameRetention
    BY <1>1, <1>3, <1>4 DEF SameRetention, RetentionOf, HoldsRetention, Unsent, Billed
  <2>2. Quiet
    BY <1>1, <1>3, <2>1 DEF Quiet, Exists, Unsent
  <2> QED BY <2>2, QuietKeeps
<1>5. CASE to = "submitted"
  <2> SUFFICES ASSUME ~late PROVE Ordered'
    BY <1>1 DEF Ordered
  <2>1. /\ Exists(k) /\ ~preparing.busy
        /\ \A m \in Numbers: Exists(m) => m <= k
    BY <1>1 DEF IInv, UnsentClaimIsLast, Unsent, Exists
  <2>2. Fits(claim[k], HeldBefore(k)) /\ claim[k].withheld \in Nat
    BY <2>1 DEF Ordered, Typed, TypeOK, Claim
  <2>3. RetentionOf(k)' = claim[k].withheld - claim[k].released
    BY <1>3, <1>5 DEF RetentionOf, HoldsRetention
  <2>4. \A m \in Numbers: m > k => ~Exists(m)
    BY <2>1 DEF Numbers
  <2>5. \A n \in Counts: /\ HeldBefore(n)' \in 0..Cap
                         /\ n <= k => HeldBefore(n)' = HeldBefore(n)
    BY <1>3, <2>2, <2>3, <2>4, LastRetains DEF Fits
  <2>6. \A n \in Numbers: Exists(n)' => Exists(n) /\ n \in Counts /\ n <= k
    BY <1>3, <2>1 DEF Exists, Numbers, Counts
  <2>7. \A n \in Numbers: certifying[n].busy => Exists(n) /\ n \in Counts /\ n <= k
    BY <2>1 DEF IInv, CertifiesSubmitted, Exists, Numbers, Counts
  <2>8. \A n \in Numbers: Exists(n)' => Fits(claim'[n], HeldBefore(n)')
    <3>1. ASSUME NEW n \in Numbers, Exists(n)' PROVE Fits(claim'[n], HeldBefore(n)')
      <4>1. HeldBefore(n)' = HeldBefore(n) /\ Fits(claim[n], HeldBefore(n))
        BY <2>5, <2>6, <3>1 DEF Ordered
      <4>2. /\ claim'[n].released = claim[n].released /\ claim'[n].withheld = claim[n].withheld
            /\ claim'[n].certRet = claim[n].certRet
        BY <1>3
      <4> QED BY <4>1, <4>2 DEF Fits
    <3> QED BY <3>1
  <2>9. \A n \in Numbers: certifying'[n].busy => certifying'[n].held = HeldBefore(n)'
    BY <1>1, <2>5, <2>7 DEF Ordered
  <2> QED BY <1>1, <2>1, <2>5, <2>8, <2>9 DEF Ordered
<1> QED BY <1>1, <1>4, <1>5

\* Certifying the last claim lets it retain what the certified amount allows.
LEMMA CommitCertifyOrdered ==
  ASSUME IInv, Typed, Ordered, NEW k \in Numbers, CommitCertify(k)
  PROVE  Ordered'
<1> SUFFICES ASSUME ~late' PROVE Ordered'
  BY DEF Ordered
<1> DEFINE kept == Withheld(certifying[k].amount, certifying[k].held)
<1>1. /\ certifying[k].busy /\ ~late /\ ~preparing.busy /\ preparing' = preparing
      /\ \A m \in Numbers: m > k => ~Exists(m)
      /\ certifying' = [certifying EXCEPT ![k] = Idle]
  BY DEF CommitCertify
<1>2. /\ claim[k].status = "submitted" /\ Exists(k)
      /\ certifying[k].held = HeldBefore(k)
  BY <1>1 DEF IInv, CertifiesSubmitted, Exists, Ordered
<1>3. kept \in Nat /\ kept <= Room(HeldBefore(k))
  BY <1>1, <1>2, CertificationHolds, WithheldFitsRoom DEF Typed
<1>4. claim' = [claim EXCEPT ![k].status = "certified", ![k].certRet = kept,
                  ![k].certNet = certifying[k].amount - kept + claim[k].released]
  BY DEF CommitCertify
<1> HIDE DEF kept
<1>5. /\ \A m \in Numbers: m # k => claim'[m] = claim[m]
      /\ claim'[k].status = "certified" /\ claim'[k].certRet = kept
      /\ claim'[k].released = claim[k].released /\ claim'[k].withheld = claim[k].withheld
  BY <1>4 DEF Typed, TypeOK, Claim
<1>6. RetentionOf(k)' = kept - claim[k].released
  BY <1>5 DEF RetentionOf, HoldsRetention
<1>7. Fits(claim[k], HeldBefore(k))
  BY <1>1, <1>2 DEF Ordered
<1>8. \A n \in Counts: /\ HeldBefore(n)' \in 0..Cap
                       /\ n <= k => HeldBefore(n)' = HeldBefore(n)
  BY <1>1, <1>3, <1>5, <1>6, <1>7, LastRetains DEF Fits
<1>9. \A n \in Numbers: Exists(n) => n \in Counts /\ n <= k
  BY <1>1 DEF Numbers, Counts
<1>10. \A n \in Numbers: Exists(n)' => Fits(claim'[n], HeldBefore(n)')
  <2>1. ASSUME NEW n \in Numbers, Exists(n)' PROVE Fits(claim'[n], HeldBefore(n)')
    <3>1. Exists(n)
      BY <1>2, <1>5, <2>1 DEF Exists
    <3>2. HeldBefore(n)' = HeldBefore(n) /\ Fits(claim[n], HeldBefore(n))
      BY <1>1, <1>8, <1>9, <3>1 DEF Ordered
    <3> QED BY <1>3, <1>5, <3>2 DEF Fits
  <2> QED BY <2>1
<1>11. \A n \in Numbers: certifying'[n].busy => certifying'[n].held = HeldBefore(n)'
  <2>1. ASSUME NEW n \in Numbers, certifying'[n].busy
        PROVE  certifying'[n].held = HeldBefore(n)'
    <3>1. n # k /\ certifying'[n] = certifying[n]
      BY <1>1, <2>1 DEF Idle, Typed, TypeOK
    <3>2. Exists(n)
      BY <2>1, <3>1 DEF IInv, CertifiesSubmitted, Exists
    <3>3. HeldBefore(n)' = HeldBefore(n)
      BY <1>8, <1>9, <3>2
    <3> QED BY <1>1, <2>1, <3>1, <3>3 DEF Ordered
  <2> QED BY <2>1
<1> QED BY <1>1, <1>8, <1>10, <1>11 DEF Ordered

\* Every step keeps the order.
LEMMA StepOrdered ==
  ASSUME IInv, Typed, Ordered, [Next]_vars
  PROVE  Ordered'
<1>1. ASSUME NEW n \in Numbers, DeleteDraftClaim(n)
      PROVE  Quiet
  <2>1. /\ claim[n].status = "draft" /\ late' = late
        /\ preparing' = preparing /\ certifying' = certifying
        /\ \A m \in Numbers: claim'[m] = IF m = n THEN NoClaim ELSE claim[m]
    BY <1>1 DEF DeleteDraftClaim, IInv, Shape
  <2>2. SameRetention
    BY <2>1, NoClaimIsClaim DEF SameRetention, RetentionOf, HoldsRetention, Billed
  <2> QED BY <2>1, <2>2, NoClaimIsClaim DEF Quiet, Exists
<1>2. CASE AbortCreate \/ \E n \in Numbers: AbortCertify(n)
  <2>1. /\ claim' = claim /\ late' = late /\ (~preparing'.busy \/ preparing' = preparing)
        /\ \A m \in Numbers: ~certifying'[m].busy \/ certifying'[m] = certifying[m]
    BY <1>2 DEF AbortCreate, AbortCertify, Idle, Typed, TypeOK
  <2>2. SameRetention
    BY <2>1 DEF SameRetention, RetentionOf, HoldsRetention
  <2>3. Quiet
    BY <2>1, <2>2 DEF Quiet, Exists
  <2> QED BY <2>3, QuietKeeps
<1>3. CASE InvoiceNext
  <2>1. late' = late /\ preparing' = preparing /\ certifying' = certifying
    BY <1>3 DEF InvoiceNext, CreateInvoice, MoveInvoice, PayInvoice
  <2>2. \/ claim' = claim
        \/ \E n \in Numbers:
             \E to \in Billed:
               /\ claim[n].status \in {"certified", "invoiced"}
               /\ claim' = [claim EXCEPT ![n].status = to]
    BY <1>3 DEF InvoiceNext, CreateInvoice, MoveInvoice, PayInvoice, Billed
  <2>3. CASE claim' = claim
    <3>1. SameRetention
      BY <2>3 DEF SameRetention, RetentionOf, HoldsRetention
    <3>2. Quiet
      BY <2>1, <2>3, <3>1 DEF Quiet, Exists
    <3> QED BY <3>2, QuietKeeps
  <2>4. ASSUME NEW n \in Numbers, NEW to \in Billed,
               claim[n].status \in {"certified", "invoiced"},
               claim' = [claim EXCEPT ![n].status = to]
        PROVE  Ordered'
    <3>1. StatusMoves(n, to)
      BY <2>4, StatusSet DEF IInv
    <3>2. SameRetention
      BY <2>4, <3>1 DEF StatusMoves, ClaimFields, SameRetention, RetentionOf, HoldsRetention, Billed
    <3>3. Quiet
      BY <2>1, <2>4, <3>1, <3>2 DEF StatusMoves, ClaimFields, Quiet, Exists, Billed
    <3> QED BY <3>3, QuietKeeps
  <2> QED BY <2>2, <2>3, <2>4
<1>4. CASE CloseProject \/ ReopenProject \/ UNCHANGED vars
  <2>1. claim' = claim /\ late' = late /\ preparing' = preparing /\ certifying' = certifying
    BY <1>4 DEF CloseProject, ReopenProject, vars
  <2>2. SameRetention
    BY <2>1 DEF SameRetention, RetentionOf, HoldsRetention
  <2>3. Quiet
    BY <2>1, <2>2 DEF Quiet, Exists
  <2> QED BY <2>3, QuietKeeps
<1> QED BY <1>1, <1>2, <1>3, <1>4, QuietKeeps, BeginCreateOrdered, BeginCertifyOrdered,
     CreateOrdered, TransitionOrdered, CommitCertifyOrdered DEF Next, ClaimNext

\* Nothing is held of no claim.
LEMMA InitOrdered == Init => Ordered
<1> SUFFICES ASSUME Init PROVE Ordered
  OBVIOUS
<1>1. /\ ~preparing.busy /\ \A n \in Numbers: ~certifying[n].busy /\ ~Exists(n)
  BY NoClaimIsClaim DEF Init, Idle, Exists
<1>2. ASSUME NEW n \in Counts PROVE HeldBefore(n) \in 0..Cap
  <2>1. \A m \in Numbers: RetainedAll[m] = 0
    BY <1>1 DEF RetainedAll, RetentionOf, HoldsRetention, Exists, Billed
  <2>2. {m \in Numbers: m < n} \in SUBSET Numbers
    OBVIOUS
  <2>3. IsFiniteSet({m \in Numbers: m < n})
    BY <2>2, NumbersAreFinite
  <2>4. SumFunctionOnSet(RetainedAll, {m \in Numbers: m < n}) = 0
    <3> HIDE DEF RetainedAll
    <3> QED BY <2>1, <2>3, SumOfZeros
  <2>5. HeldBefore(n) = 0
    BY <2>4 DEF HeldBefore, Held, RetainedAll
  <2> QED BY <2>5, TermsAssumption
<1> QED BY <1>1, <1>2 DEF Ordered

-----------------------------------------------------------------------------
(* Theorems                                                                 *)

\* A project without claims satisfies the invariant.
LEMMA InitHolds == Init => IInv
<1> SUFFICES ASSUME Init PROVE IInv
  OBVIOUS
<1>1. NoClaim = [k \in ClaimFields |-> NoClaim[k]] /\ NoClaim.status = "none" /\ Idle.busy = FALSE
  BY DEF NoClaim, ClaimFields, Idle
<1>2. Shape
  BY <1>1 DEF Init, Shape, ClaimStatuses
<1>3. CertifiesSubmitted /\ UnsentClaimIsLast /\ ClosedProjectHasNoOpenClaim
  BY <1>1 DEF Init, CertifiesSubmitted, UnsentClaimIsLast, ClosedProjectHasNoOpenClaim, Exists,
     Unsent
<1> QED BY <1>2, <1>3 DEF IInv

\* The inductive invariant holds in every state.
LEMMA Invariance == Spec => []IInv
BY InitHolds, StepKeeps, PTL DEF Spec

\* A claim that has not gone to the client is the only one and the last one,
\* and deleting drafts leaves no hole in the numbers: what certifyClaim and
\* finance.ts 58 take for granted.
THEOREM UnsentIsLast == Spec => []UnsentClaimIsLast
<1>1. IInv => UnsentClaimIsLast
  BY DEF IInv
<1> QED BY <1>1, Invariance, PTL

\* A closed project has no claim being prepared, unsent or uncertified.
THEOREM ClosedMeansNoOpenClaim == Spec => []ClosedProjectHasNoOpenClaim
<1>1. IInv => ClosedProjectHasNoOpenClaim
  BY DEF IInv
<1> QED BY <1>1, Invariance, PTL

\* What a claim said when it went to the client, and what was certified, never
\* changes, whichever preparations, certifications and deletions overlap.
THEOREM HistoryKept == Spec => SentHistoryKept
<1>1. IInv /\ [Next]_vars => SentKept
  BY StepKeeps
<1> QED BY <1>1, Invariance, PTL DEF Spec, SentHistoryKept, SentKept

\* The second invariant, with the first.
LEMMA TypesHold == Spec => []Typed
BY InitTyped, Invariance, StepTypes, PTL DEF Spec

\* Every claim, invoice and transaction under way has its type: the amounts
\* are integers, and what a claim retains and releases is never negative.
THEOREM ClaimsTypeCorrect == Spec => []TypeOK
<1>1. Typed => TypeOK
  BY DEF Typed
<1> QED BY <1>1, TypesHold, PTL

\* A claim is billed exactly when it has an invoice, for its certified net, and
\* paid exactly when that invoice is paid, in full and never beyond.
THEOREM InvoicesAgree == Spec => []InvoiceAgreesWithClaim
<1>1. Init => InvoiceAgreesWithClaim
  BY DEF Init, NoClaim, NoInvoice, InvoiceAgreesWithClaim, Billed, Exists
<1>2. IInv /\ Typed /\ InvoiceAgreesWithClaim /\ [Next]_vars => InvoiceAgreesWithClaim'
  BY ClaimStepsUnbilled, UnbilledKeeps, InvoiceAgrees DEF Next
<1> QED BY <1>1, <1>2, Invariance, TypesHold, PTL DEF Spec

\* As long as no request names a source twice, what is claimed of a contract or
\* a variation is never below nothing and never beyond its value: the amounts
\* createClaim compared its lines with still hold when it writes.
THEOREM WithinValue == NoDoubles /\ Spec => []ClaimedWithinValue
<1> SUFFICES ASSUME NoDoubles PROVE Spec => []ClaimedWithinValue
  OBVIOUS
<1>1. Within => ClaimedWithinValue
  <2>1. MaxClaims + 1 \in Counts
    BY DEF Counts
  <2> QED BY <2>1, PreviousIsBeforeNone DEF Within, ClaimedWithinValue
<1>2. IInv /\ Typed /\ Within /\ [Next]_vars => Within'
  BY StepWithin
<1> QED BY <1>1, <1>2, InitWithin, Invariance, TypesHold, PTL DEF Spec

\* And what a line says was claimed to date is what the claims up to its own
\* took of its source, whatever was prepared, deleted and prepared again.
THEOREM ToDateAgrees == NoDoubles /\ Spec => []ClaimedToDateAgrees
<1> SUFFICES ASSUME NoDoubles PROVE Spec => []ClaimedToDateAgrees
  OBVIOUS
<1>1. ToDate => ClaimedToDateAgrees
  <2>1. \A n \in Numbers: 1..n = {m \in Numbers: m < n + 1}
    BY DEF Numbers
  <2>2. \A n \in Numbers: \A s:
          ClaimedBefore(n + 1, s) = SumFunctionOnSet([m \in Numbers |-> Taken(m, s)], 1..n)
    BY <2>1 DEF ClaimedBefore, TakenAll
  <2> QED BY <2>2 DEF ToDate, ClaimedToDateAgrees
<1>2. IInv /\ Typed /\ Within /\ [Next]_vars => Within'
  BY StepWithin
<1>3. IInv /\ Typed /\ Within /\ ToDate /\ [Next]_vars => ToDate'
  BY StepToDate
<1> QED BY <1>1, <1>2, <1>3, InitWithin, InitToDate, Invariance, TypesHold, PTL DEF Spec

\* The fourth invariant, with the first two.
LEMMA OrderHolds == Spec => []Ordered
<1>1. IInv /\ Typed /\ Ordered /\ [Next]_vars => Ordered'
  BY StepOrdered
<1> QED BY <1>1, InitOrdered, Invariance, TypesHold, PTL DEF Spec

\* Until a claim is certified after a later one was prepared, the retention
\* held stays within the cap and every release is covered.
THEOREM RetentionSound == Spec => []RetentionSoundInOrder
<1>1. Ordered => RetentionSoundInOrder
  <2>1. MaxClaims + 1 \in Counts /\ Cap \in Nat
    BY TermsAssumption DEF Counts
  <2>2. Ordered /\ ~late => Held(Numbers) \in 0..Cap
    BY <2>1, HeldIsSumBelow DEF Ordered
  <2> QED BY <2>1, <2>2 DEF RetentionSoundInOrder, RetentionWithinCap, ReleasesCovered
<1> QED BY <1>1, OrderHolds, PTL

\* In that order the release check of certifyClaim strands no submitted claim.
THEOREM CanBeCertified == Spec => []SubmittedCanBeCertified
<1>1. Ordered => SubmittedCanBeCertified
  BY DEF Ordered, SubmittedCanBeCertified, Exists, Fits, ReleaseAllowed
<1> QED BY <1>1, OrderHolds, PTL
=============================================================================
