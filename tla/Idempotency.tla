---------------------------- MODULE Idempotency ----------------------------
(***************************************************************************)
(* Idempotent writes: lib/platform/idempotency.ts over lib/platform/sql.ts *)
(* and the client_requests table.  Every delivery of a request runs its    *)
(* own transaction on the same database; any of them may be cut off.       *)
(***************************************************************************)
EXTENDS Integers

CONSTANTS
  Ids,        \* client request ids
  Deliveries, \* attempts to deliver a request to the server
  IdOf,       \* the request id a delivery carries
  PrintOf,    \* the user, kind and content it carries
  None,       \* no delivery
  MaxAttempts \* transactions one delivery may start (3 in the code)

ASSUME CarriesAssumption == IdOf \in [Deliveries -> Ids]
ASSUME NoneAssumption == None \notin Deliveries
ASSUME MaxAttemptsAssumption == MaxAttempts \in Nat \ {0}

VARIABLES
  stored,  \* client_requests: the delivery whose response is kept for an id
  records, \* business records committed, by the delivery that made them
  pc,      \* where each delivery is in idempotent()
  attempt, \* transactions it has started
  answer   \* what it was told

vars == <<stored, records, pc, attempt, answer>>

Abstract == INSTANCE ExactlyOnce WITH effect <- stored

Steps == {"begin", "running", "inserting", "inserted", "caught", "done"}
Answer == [kind: {"none", "ok", "conflict", "failed"}, of: Deliveries \cup {None}]

TypeOK ==
  /\ stored \in [Ids -> Deliveries \cup {None}]
  /\ records \subseteq Deliveries
  /\ pc \in [Deliveries -> Steps]
  /\ attempt \in [Deliveries -> 1..MaxAttempts]
  /\ answer \in [Deliveries -> Answer]

Init ==
  /\ stored = [i \in Ids |-> None]
  /\ records = {}
  /\ pc = [d \in Deliveries |-> "begin"]
  /\ attempt = [d \in Deliveries |-> 1]
  /\ answer = [d \in Deliveries |-> Abstract!Unanswered]

Siblings(d) == {e \in Deliveries: e # d /\ IdOf[e] = IdOf[d]}
Goto(d, step) == pc' = [pc EXCEPT ![d] = step]

Tell(d, what) ==
  /\ Goto(d, "done")
  /\ answer' = [answer EXCEPT ![d] = what]

\* A stored response is replayed to the same user, kind and fingerprint.
TellStored(d) ==
  LET e == stored[IdOf[d]] IN
  Tell(d, IF e # None /\ PrintOf[e] = PrintOf[d] THEN Abstract!Ok(e) ELSE Abstract!Refused)

\* stored(..., conn): SELECT ... FOR UPDATE waits for an uncommitted row.
Lookup(d) ==
  /\ pc[d] = "begin"
  /\ \A e \in Siblings(d): pc[e] # "inserted"
  /\ IF stored[IdOf[d]] = None
     THEN Goto(d, "running") /\ UNCHANGED answer
     ELSE TellStored(d)
  /\ UNCHANGED <<stored, records, attempt>>

\* Mutant: a 409 is passed on without looking for a stored response.
RunWithoutRecheck(d) ==
  /\ pc[d] = "running"
  /\ \/ Goto(d, "inserting") /\ UNCHANGED answer
     \/ \E what \in {Abstract!Refused, Abstract!Failed}: Tell(d, what)
  /\ UNCHANGED <<stored, records, attempt>>

\* run(conn) succeeds, or throws and rolls back; a 409 is a business conflict
\* or a revision that another delivery of this very request made stale.
Run(d) ==
  /\ pc[d] = "running"
  /\ \/ Goto(d, "inserting") /\ UNCHANGED answer
     \/ Goto(d, "caught") /\ UNCHANGED answer
     \/ Tell(d, Abstract!Failed)
  /\ UNCHANGED <<stored, records, attempt>>

\* Mutant: the lookup's gap locks make every insert wait for the others.
InsertBehindGaps(d) ==
  /\ pc[d] = "inserting"
  /\ \A e \in Siblings(d): pc[e] \notin {"inserting", "inserted"}
  /\ Goto(d, IF stored[IdOf[d]] = None THEN "inserted" ELSE "caught")
  /\ UNCHANGED <<stored, records, attempt, answer>>

\* INSERT INTO client_requests: unique on (organisation, id), so it waits for
\* an uncommitted row and ends in ER_DUP_ENTRY on a committed one.
Insert(d) ==
  /\ pc[d] = "inserting"
  /\ \A e \in Siblings(d): pc[e] # "inserted"
  /\ Goto(d, IF stored[IdOf[d]] = None THEN "inserted" ELSE "caught")
  /\ UNCHANGED <<stored, records, attempt, answer>>

\* The database may pick this transaction as the victim of a deadlock on the
\* request id; it is started again while attempts are left.
Deadlock(d) ==
  /\ pc[d] = "inserting"
  /\ \E e \in Siblings(d): pc[e] \in {"running", "inserting"}
  /\ IF attempt[d] < MaxAttempts
     THEN /\ Goto(d, "begin")
          /\ attempt' = [attempt EXCEPT ![d] = @ + 1]
          /\ UNCHANGED answer
     ELSE Tell(d, Abstract!Failed) /\ UNCHANGED attempt
  /\ UNCHANGED <<stored, records>>

\* The record and the stored response become visible together; the answer is
\* lost when the connection or the process goes with the commit.
Commit(d) ==
  /\ pc[d] = "inserted"
  /\ stored' = [stored EXCEPT ![IdOf[d]] = d]
  /\ records' = records \cup {d}
  /\ \E told \in {Abstract!Ok(d), Abstract!Failed}: Tell(d, told)
  /\ UNCHANGED attempt

\* After ER_DUP_ENTRY or a 409, outside the transaction: replay, or rethrow.
Catch(d) ==
  /\ pc[d] = "caught"
  /\ TellStored(d)
  /\ UNCHANGED <<stored, records, attempt>>

\* The process stops or the connection drops: the transaction rolls back.
Crash(d) ==
  /\ pc[d] # "done"
  /\ Tell(d, Abstract!Failed)
  /\ UNCHANGED <<stored, records, attempt>>

Step(d) == Lookup(d) \/ Run(d) \/ Insert(d) \/ Commit(d) \/ Catch(d)

Next == \E d \in Deliveries: Step(d) \/ Deadlock(d) \/ Crash(d)

Spec == Init /\ [][Next]_vars

\* A handler that can go on does: Node resumes it and InnoDB grants the lock.
FairSpec == Spec /\ \A d \in Deliveries: WF_vars(Step(d))

-----------------------------------------------------------------------------
(* Properties                                                               *)

\* However often a request is delivered, and whatever is cut off, one record
\* is made for its id, and the response kept for the id is that record's.
OneRecordPerId ==
  /\ \A d, e \in records: IdOf[d] = IdOf[e] => d = e
  /\ \A i \in Ids: stored[i] # None => stored[i] \in records /\ IdOf[stored[i]] = i
  /\ \A d \in records: stored[IdOf[d]] = d

\* A delivery that is told of a success is told of a record that exists, made
\* for its own id, by its own user, from its own content.
SuccessIsReal ==
  \A d \in Deliveries: answer[d].kind = "ok" =>
    /\ answer[d].of \in records
    /\ IdOf[answer[d].of] = IdOf[d] /\ PrintOf[answer[d].of] = PrintOf[d]

\* A request that was done is never reported as a conflict to a later or a
\* racing delivery of it ("that is the same request, so replay"): what the
\* refinement below says of conflicts, in the words of the code.
ConflictIsTrue ==
  [][\A d \in Deliveries:
       (answer'[d].kind = "conflict" /\ answer[d].kind # "conflict") =>
         \/ stored[IdOf[d]] = None
         \/ PrintOf[stored[IdOf[d]]] # PrintOf[d]]_vars

\* The implementation keeps the promise.
Implements == Abstract!Spec

\* Every delivery is answered or cut off: no set of them blocks each other.
AllAnswered == \A d \in Deliveries: <>(pc[d] = "done")
=============================================================================
