---------------------------- MODULE ExactlyOnce ----------------------------
(***************************************************************************)
(* What lib/platform/idempotency.ts promises its callers, free of how:     *)
(* "The first successful result is stored ... so a replay returns the      *)
(* original result and never creates a second record."                     *)
(***************************************************************************)
CONSTANTS
  Ids,        \* client request ids
  Deliveries, \* attempts to deliver a request to the server, retries included
  IdOf,       \* the request id a delivery carries
  PrintOf,    \* the user, kind and content it carries
  None        \* no delivery

VARIABLES
  effect, \* the delivery whose effect and result stand for each id
  answer  \* what each delivery was told

Unanswered == [kind |-> "none", of |-> None]
Ok(d) == [kind |-> "ok", of |-> d]
Refused == [kind |-> "conflict", of |-> None]
Failed == [kind |-> "failed", of |-> None]

Init ==
  /\ effect = [i \in Ids |-> None]
  /\ answer = [d \in Deliveries |-> Unanswered]

\* Deliveries of one request by one user with one content.
Same(d, e) == PrintOf[d] = PrintOf[e]

\* The first delivery to take effect gives the id its result; the news of it
\* may be lost.
Perform(d) ==
  /\ answer[d] = Unanswered /\ effect[IdOf[d]] = None
  /\ effect' = [effect EXCEPT ![IdOf[d]] = d]
  /\ \E told \in {Ok(d), Failed}: answer' = [answer EXCEPT ![d] = told]

\* Every later one is told that result.
Replay(d) ==
  /\ answer[d] = Unanswered
  /\ effect[IdOf[d]] # None /\ Same(d, effect[IdOf[d]])
  /\ answer' = [answer EXCEPT ![d] = Ok(effect[IdOf[d]])]
  /\ UNCHANGED effect

\* A conflict is the truth: the request has not been done, or the id was
\* used for something else.
Refuse(d) ==
  /\ answer[d] = Unanswered
  /\ effect[IdOf[d]] # None => ~Same(d, effect[IdOf[d]])
  /\ answer' = [answer EXCEPT ![d] = Refused]
  /\ UNCHANGED effect

\* Any other error, and an answer that never arrives, say nothing.
Fail(d) ==
  /\ answer[d] = Unanswered
  /\ answer' = [answer EXCEPT ![d] = Failed]
  /\ UNCHANGED effect

Next == \E d \in Deliveries: Perform(d) \/ Replay(d) \/ Refuse(d) \/ Fail(d)

Spec == Init /\ [][Next]_<<effect, answer>>
=============================================================================
