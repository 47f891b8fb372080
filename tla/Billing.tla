------------------------------ MODULE Billing ------------------------------
(***************************************************************************)
(* The subscriptions of one organisation and what it may use:              *)
(* lib/platform/billing.ts, and getEntitlements and setEntitlement of      *)
(* lib/platform/entitlements.ts.  The provider delivers an event until it  *)
(* is acknowledged, so in any order and more than once.  Events and        *)
(* subscriptions are read under locks; the modules are read in the         *)
(* snapshot the transaction's first read took.                             *)
(***************************************************************************)
EXTENDS Naturals

CONSTANTS
  Features,      \* the modules that can be sold (all but core)
  Subscriptions, \* the provider's ids of the organisation's subscriptions
  Events,        \* the provider's events for them
  Deliveries,    \* webhook requests that may run at a time
  LastDay,       \* bound on the days that pass
  Unset          \* a field an event leaves out; no event, subscription or date

Statuses == {"trialing", "active", "past_due", "cancelled"}
EventTypes == {"subscription.created", "subscription.updated", "subscription.cancelled",
               "payment.failed", "payment.succeeded"}
Dates == Nat \cup {Unset}

\* Two events with the same fields are told apart by their id.
ASSUME EventsAssumption ==
  /\ Unset \notin Events
  /\ \A e \in Events:
       /\ e.subscription \in Subscriptions
       /\ e.type \in EventTypes
       /\ e.status \in Statuses \cup {Unset}
       /\ e.features \in (SUBSET Features) \cup {Unset}
       /\ e.trialEnd \in Dates
ASSUME UnsetAssumption == Unset \notin Subscriptions
ASSUME LastDayAssumption == LastDay \in Nat

VARIABLES
  subscriptions, \* the billing_subscriptions rows
  access,        \* organisation_entitlements: per module, its status
  validUntil,    \* organisation_entitlements: per module, its valid_until
  today,         \* the date
  applied,       \* billing_events: the events applied
  delivery,      \* per webhook request, the event and the snapshot of access
  heard,         \* history: the subscription whose event set the modules last
  byHand,        \* history: modules an administrator set since that event
  outrun         \* history: that event compared with modules read too early

billingVars == <<subscriptions, access, validUntil, today, applied, delivery,
                 heard, byHand, outrun>>

AccessStatuses == {"active", "read_only", "disabled"}
Subscription == [status: Statuses \cup {"none"}, features: SUBSET Features, trialEnd: Dates]
NoSubscription == [status |-> "none", features |-> {}, trialEnd |-> Unset]
NoDelivery == [event |-> Unset, seen |-> [f \in Features |-> "active"]]

\* Everything is what it should be.
BillingTypeOK ==
  /\ subscriptions \in [Subscriptions -> Subscription]
  /\ access \in [Features -> AccessStatuses]
  /\ validUntil \in [Features -> Dates]
  /\ today \in 0..LastDay
  /\ applied \subseteq Events
  /\ delivery \in [Deliveries -> [event: Events \cup {Unset}, seen: [Features -> AccessStatuses]]]
  /\ heard \in Subscriptions \cup {Unset}
  /\ byHand \subseteq Features
  /\ outrun \in BOOLEAN

\* provisionTrial: a new organisation may use everything, with no end.
BillingInit ==
  /\ subscriptions = [s \in Subscriptions |-> NoSubscription]
  /\ access = [f \in Features |-> "active"]
  /\ validUntil = [f \in Features |-> Unset]
  /\ today = 0
  /\ applied = {}
  /\ delivery = [w \in Deliveries |-> NoDelivery]
  /\ heard = Unset
  /\ byHand = {}
  /\ outrun = FALSE

-----------------------------------------------------------------------------
(* What an event makes of its subscription                                  *)

Creates(event) == event.type \in {"subscription.created", "subscription.updated", "subscription.cancelled"}

\* The row the event finds or inserts.
Base(event) ==
  LET row == subscriptions[event.subscription] IN
  IF row # NoSubscription THEN row
  ELSE [status |-> IF event.status = Unset THEN "active" ELSE event.status,
        features |-> IF event.features = Unset THEN {} ELSE event.features,
        trialEnd |-> Unset]

NextStatus(event) ==
  LET status == IF event.status = Unset THEN Base(event).status ELSE event.status IN
  CASE event.type = "subscription.cancelled" -> "cancelled"
    [] event.type = "payment.failed" -> "past_due"
    [] event.type = "payment.succeeded" /\ status = "past_due" -> "active"
    [] OTHER -> status

NextSubscription(event) ==
  [status |-> NextStatus(event),
   features |-> IF event.features = Unset THEN Base(event).features ELSE event.features,
   trialEnd |-> IF event.trialEnd = Unset THEN Base(event).trialEnd ELSE event.trialEnd]

\* entitlementsFor.
EntitlementsFor(sub) ==
  [f \in Features |-> IF sub.status \in {"active", "trialing", "past_due"} /\ f \in sub.features
                      THEN "active" ELSE "read_only"]

\* The end a module is written with: a trial's.
EndOf(sub) == IF sub.status = "trialing" THEN sub.trialEnd ELSE Unset

\* Mutant: the modules are written only when the subscription's status changes.
RewrittenOnChange(w) ==
  LET event == delivery[w].event
      before == subscriptions[event.subscription] IN
  IF NextStatus(event) = before.status THEN {} ELSE Features

\* setModules: the modules whose status the snapshot shows to be another. One
\* that is as it should be is not written, and so keeps its end, or has none.
Rewritten(w) ==
  {f \in Features: delivery[w].seen[f] # EntitlementsFor(NextSubscription(delivery[w].event))[f]}

SetModules(w) ==
  LET sub == NextSubscription(delivery[w].event) IN
  /\ access' = [f \in Features |-> IF f \in Rewritten(w) THEN EntitlementsFor(sub)[f] ELSE access[f]]
  /\ validUntil' = [f \in Features |-> IF f \in Rewritten(w) THEN EndOf(sub) ELSE validUntil[f]]

\* getEntitlements: what the organisation is told, and every handler asks.
Past(date) == date # Unset /\ date < today

Access(f) == IF access[f] = "active" /\ Past(validUntil[f]) THEN "read_only" ELSE access[f]

-----------------------------------------------------------------------------

\* A delivery, or another one: the first read of its transaction.
BeginDelivery(w) ==
  /\ delivery[w].event = Unset
  /\ \E e \in Events: delivery' = [delivery EXCEPT ![w] = [event |-> e, seen |-> access]]
  /\ UNCHANGED <<subscriptions, access, validUntil, today, applied, heard, byHand, outrun>>

\* The event's row is looked for under a lock.
Fresh(w) == delivery[w].event \notin applied

\* applyBillingEvent. A failed payment leaves the modules as they are; every other
\* event sets all of them, whatever other subscriptions there are.
ApplyEvent(w) ==
  LET event == delivery[w].event IN
  /\ event # Unset
  /\ Fresh(w)
  /\ subscriptions[event.subscription] = NoSubscription => Creates(event)
  /\ subscriptions' = [subscriptions EXCEPT ![event.subscription] = NextSubscription(event)]
  /\ applied' = applied \cup {event}
  /\ IF event.type = "payment.failed" THEN UNCHANGED <<access, validUntil, heard, byHand, outrun>>
     ELSE /\ SetModules(w)
          /\ heard' = event.subscription
          /\ byHand' = {}
          /\ outrun' = (delivery[w].seen # access)
  /\ delivery' = [delivery EXCEPT ![w] = NoDelivery]
  /\ UNCHANGED today

\* A repeat is acknowledged; a payment for an unknown subscription is refused; a
\* transaction that fails leaves nothing. The provider tries again, or not.
EndDelivery(w) ==
  /\ delivery[w].event # Unset
  /\ delivery' = [delivery EXCEPT ![w] = NoDelivery]
  /\ UNCHANGED <<subscriptions, access, validUntil, today, applied, heard, byHand, outrun>>

\* setEntitlement: the status and not the end.
SetEntitlement ==
  /\ \E f \in Features, status \in AccessStatuses:
       /\ access' = [access EXCEPT ![f] = status]
       /\ byHand' = byHand \cup {f}
  /\ UNCHANGED <<subscriptions, validUntil, today, applied, delivery, heard, outrun>>

DayPasses ==
  /\ today < LastDay
  /\ today' = today + 1
  /\ UNCHANGED <<subscriptions, access, validUntil, applied, delivery, heard, byHand, outrun>>

BillingNext ==
  \/ SetEntitlement
  \/ DayPasses
  \/ \E w \in Deliveries: BeginDelivery(w) \/ ApplyEvent(w) \/ EndDelivery(w)

BillingSpec == BillingInit /\ [][BillingNext]_billingVars

-----------------------------------------------------------------------------
(* Properties                                                               *)

\* What an organisation may use is what the subscription it heard of last gives
\* it, and never more, whatever was delivered late, twice or in another order. It
\* is less only for a module whose row carries the end, now past, of a trial the
\* provider announced: that trial's, or, when the subscription is paid since, one
\* left there because nothing clears it while the status stays active (billing.ts
\* 51, entitlements.ts 33). Exempt are modules
\* an administrator set since, the grace after a failed payment, and the outcome
\* of an event that overlapped with another change of the modules.
AccessFollowsSubscription ==
  heard # Unset /\ ~outrun /\ subscriptions[heard].status # "past_due" =>
    \A f \in Features \ byHand:
      LET wanted == EntitlementsFor(subscriptions[heard])[f] IN
      \/ Access(f) = wanted
      \/ /\ wanted = "active" /\ Access(f) = "read_only"
         /\ \E e \in applied: Past(e.trialEnd) /\ e.trialEnd = validUntil[f]
=============================================================================
