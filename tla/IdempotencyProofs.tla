------------------------- MODULE IdempotencyProofs -------------------------
(***************************************************************************)
(* Idempotency implements ExactlyOnce for every set of ids and deliveries. *)
(***************************************************************************)
EXTENDS Idempotency, TLAPS

USE CarriesAssumption, NoneAssumption
    DEF Abstract!Unanswered, Abstract!Ok, Abstract!Refused, Abstract!Failed

\* What a delivery is told, and where it goes next, has the declared type.
LEMMA AnswerTypes ==
  /\ Abstract!Refused \in Answer /\ Abstract!Failed \in Answer
  /\ \A d \in Deliveries: Abstract!Ok(d) \in Answer
BY DEF Answer

\* Moving a delivery to a step keeps the type of the program counters.
LEMMA GotoType ==
  ASSUME TypeOK, NEW d \in Deliveries, NEW step \in Steps, Goto(d, step)
  PROVE  pc' \in [Deliveries -> Steps]
BY DEF TypeOK, Goto

\* Ending a delivery with an answer keeps the types of counters and answers.
LEMMA TellType ==
  ASSUME TypeOK, NEW d \in Deliveries, NEW what \in Answer, Tell(d, what)
  PROVE  pc' \in [Deliveries -> Steps] /\ answer' \in [Deliveries -> Answer]
BY GotoType DEF TypeOK, Tell, Steps

\* So does answering it from a stored response ...
LEMMA TellStoredType ==
  ASSUME TypeOK, NEW d \in Deliveries, stored[IdOf[d]] # None, TellStored(d)
  PROVE  pc' \in [Deliveries -> Steps] /\ answer' \in [Deliveries -> Answer]
<1> DEFINE e == stored[IdOf[d]]
           what == IF e # None /\ PrintOf[e] = PrintOf[d] THEN Abstract!Ok(e) ELSE Abstract!Refused
<1>1. e \in Deliveries
  BY DEF TypeOK
<1>2. what \in Answer
  BY <1>1, AnswerTypes
<1>3. Tell(d, what)
  BY DEF TellStored
<1> QED BY <1>2, <1>3, TellType

\* ... and refusing it when nothing is stored.
LEMMA TellNothingStoredType ==
  ASSUME TypeOK, NEW d \in Deliveries, stored[IdOf[d]] = None, TellStored(d)
  PROVE  pc' \in [Deliveries -> Steps] /\ answer' \in [Deliveries -> Answer]
<1>1. Tell(d, Abstract!Refused)
  BY DEF TellStored
<1> QED BY <1>1, AnswerTypes, TellType

\* Every state has the declared types.
THEOREM TypeCorrect == Spec => []TypeOK
<1>1. Init => TypeOK
  BY MaxAttemptsAssumption DEF Init, TypeOK, Steps, Answer
<1>2. TypeOK /\ [Next]_vars => TypeOK'
  <2> SUFFICES ASSUME TypeOK, [Next]_vars
               PROVE  TypeOK'
    OBVIOUS
  <2>1. ASSUME NEW d \in Deliveries, TellStored(d)
        PROVE  pc' \in [Deliveries -> Steps] /\ answer' \in [Deliveries -> Answer]
    BY <2>1, TellStoredType, TellNothingStoredType
  <2>2. ASSUME NEW d \in Deliveries, Lookup(d)
        PROVE  TypeOK'
    <3>1. CASE Goto(d, "running") /\ UNCHANGED answer
      BY <2>2, <3>1, GotoType DEF Lookup, TypeOK, Steps
    <3>2. CASE TellStored(d)
      BY <2>1, <2>2, <3>2 DEF Lookup, TypeOK
    <3> QED BY <2>2, <3>1, <3>2 DEF Lookup
  <2>3. ASSUME NEW d \in Deliveries, Run(d)
        PROVE  TypeOK'
    <3>1. ASSUME NEW step \in {"inserting", "caught"}, Goto(d, step), UNCHANGED answer
          PROVE  TypeOK'
      BY <2>3, <3>1, GotoType DEF Run, TypeOK, Steps
    <3>2. CASE Tell(d, Abstract!Failed)
      BY <2>3, <3>2, TellType, AnswerTypes DEF Run, TypeOK
    <3> QED BY <2>3, <3>1, <3>2 DEF Run
  <2>4. ASSUME NEW d \in Deliveries, Insert(d)
        PROVE  TypeOK'
    <3>1. PICK step \in {"inserted", "caught"}: Goto(d, step)
      BY <2>4 DEF Insert
    <3> QED BY <2>4, <3>1, GotoType DEF Insert, TypeOK, Steps
  <2>5. ASSUME NEW d \in Deliveries, Commit(d)
        PROVE  TypeOK'
    <3>1. PICK told \in {Abstract!Ok(d), Abstract!Failed}: Tell(d, told)
      BY <2>5 DEF Commit
    <3>2. pc' \in [Deliveries -> Steps] /\ answer' \in [Deliveries -> Answer]
      BY <3>1, TellType, AnswerTypes
    <3> QED BY <2>5, <3>2 DEF Commit, TypeOK
  <2>6. ASSUME NEW d \in Deliveries, Catch(d)
        PROVE  TypeOK'
    BY <2>1, <2>6 DEF Catch, TypeOK
  <2>7. ASSUME NEW d \in Deliveries, Deadlock(d)
        PROVE  TypeOK'
    <3>1. CASE attempt[d] < MaxAttempts
      <4>1. attempt' \in [Deliveries -> 1..MaxAttempts]
        BY <2>7, <3>1, MaxAttemptsAssumption DEF Deadlock, TypeOK
      <4> QED BY <2>7, <3>1, <4>1, GotoType DEF Deadlock, TypeOK, Steps
    <3>2. CASE ~(attempt[d] < MaxAttempts)
      BY <2>7, <3>2, TellType, AnswerTypes DEF Deadlock, TypeOK
    <3> QED BY <3>1, <3>2
  <2>8. ASSUME NEW d \in Deliveries, Crash(d)
        PROVE  TypeOK'
    BY <2>8, TellType, AnswerTypes DEF Crash, TypeOK
  <2>9. CASE UNCHANGED vars
    BY <2>9 DEF vars, TypeOK
  <2>. QED
    BY <2>2, <2>3, <2>4, <2>5, <2>6, <2>7, <2>8, <2>9 DEF Next, Step
<1>. QED
  BY <1>1, <1>2, PTL DEF Spec

\* A delivery holding the uncommitted row of an id is alone with it, and
\* nothing is stored for that id yet.
InsertIsExclusive ==
  \A d \in Deliveries: pc[d] = "inserted" =>
    /\ stored[IdOf[d]] = None
    /\ \A e \in Siblings(d): pc[e] # "inserted"

\* Whoever has not finished has not been told anything.
AnsweredAtTheEnd ==
  \A d \in Deliveries: answer[d] # Abstract!Unanswered => pc[d] = "done"

\* The inductive invariant: the three facts a commit relies on.
OnceInv == OneRecordPerId /\ InsertIsExclusive /\ AnsweredAtTheEnd

\* Every step keeps the insert exclusive and the records one per id.
LEMMA OnceStep ==
  ASSUME TypeOK, OnceInv, [Next]_vars
  PROVE  OnceInv'
<1> USE DEF OnceInv, TypeOK, Tell, Goto, Answer
<1>1. ASSUME NEW d \in Deliveries, UNCHANGED <<stored, records>>,
             \A e \in Deliveries \ {d}: pc'[e] = pc[e] /\ answer'[e] = answer[e],
             pc'[d] # "inserted",
             pc'[d] = "done" \/ (answer'[d] = answer[d] /\ pc[d] # "done")
      PROVE  OnceInv'
  BY <1>1 DEF OneRecordPerId, InsertIsExclusive, AnsweredAtTheEnd, Siblings
<1>2. ASSUME NEW d \in Deliveries, Lookup(d) \/ Run(d) \/ Catch(d) \/ Deadlock(d) \/ Crash(d)
      PROVE  OnceInv'
  BY <1>1, <1>2 DEF Lookup, Run, Catch, Deadlock, Crash, TellStored
<1>3. ASSUME NEW d \in Deliveries, Insert(d)
      PROVE  OnceInv'
  BY <1>3 DEF Insert, OneRecordPerId, InsertIsExclusive, AnsweredAtTheEnd, Siblings
<1>4. ASSUME NEW d \in Deliveries, Commit(d)
      PROVE  OnceInv'
  <2>1. /\ stored[IdOf[d]] = None /\ stored' = [stored EXCEPT ![IdOf[d]] = d]
        /\ records' = records \cup {d} /\ \A e \in Siblings(d): pc[e] # "inserted"
        /\ pc' = [pc EXCEPT ![d] = "done"]
        /\ \A e \in Deliveries \ {d}: answer'[e] = answer[e]
    BY <1>4 DEF Commit, InsertIsExclusive
  <2>2. \A e \in records: IdOf[e] # IdOf[d]
    BY <2>1 DEF OneRecordPerId
  <2>3. OneRecordPerId'
    BY <2>1, <2>2 DEF OneRecordPerId
  <2>4. InsertIsExclusive'
    BY <2>1 DEF InsertIsExclusive, Siblings
  <2>5. AnsweredAtTheEnd'
    BY <2>1 DEF AnsweredAtTheEnd
  <2>. QED
    BY <2>3, <2>4, <2>5
<1>5. CASE UNCHANGED vars
  BY <1>5 DEF vars, OneRecordPerId, InsertIsExclusive, AnsweredAtTheEnd, Siblings
<1>. QED
  BY <1>2, <1>3, <1>4, <1>5 DEF Next, Step

\* In every state the insert is exclusive and there is one record per id.
LEMMA OnceInvariant == Spec => []OnceInv
<1>1. Init => OnceInv
  BY DEF Init, OnceInv, OneRecordPerId, InsertIsExclusive, AnsweredAtTheEnd
<1>2. TypeOK /\ OnceInv /\ [Next]_vars => OnceInv'
  BY OnceStep
<1>. QED
  BY <1>1, <1>2, TypeCorrect, PTL DEF Spec

\* Any number of deliveries, interleaved and cut off in any way, make at most
\* one record per id, and the response kept for the id is that record's.
THEOREM OneRecord == Spec => []OneRecordPerId
  BY OnceInvariant, PTL DEF OnceInv

\* A success that is told is a record of the same request.
THEOREM SuccessesAreReal == Spec => []SuccessIsReal
<1>1. Init => SuccessIsReal
  BY DEF Init, SuccessIsReal
<1>2. ASSUME TypeOK, OnceInv, SuccessIsReal, [Next]_vars
      PROVE  SuccessIsReal'
  <2> USE <1>2 DEF Tell, Goto, TypeOK, Answer
  <2>1. ASSUME NEW d \in Deliveries, UNCHANGED records, answer'[d].kind # "ok",
               \A e \in Deliveries \ {d}: answer'[e] = answer[e]
        PROVE  SuccessIsReal'
    BY <2>1 DEF SuccessIsReal
  <2>2. ASSUME UNCHANGED <<records, answer>>
        PROVE  SuccessIsReal'
    BY <2>2 DEF SuccessIsReal
  <2>3. ASSUME NEW d \in Deliveries, TellStored(d), UNCHANGED <<records, stored>>
        PROVE  SuccessIsReal'
    <3>1. CASE stored[IdOf[d]] # None /\ PrintOf[stored[IdOf[d]]] = PrintOf[d]
      BY <2>3, <3>1 DEF TellStored, SuccessIsReal, OnceInv, OneRecordPerId
    <3>2. CASE ~(stored[IdOf[d]] # None /\ PrintOf[stored[IdOf[d]]] = PrintOf[d])
      BY <2>1, <2>3, <3>2 DEF TellStored
    <3>. QED
      BY <3>1, <3>2
  <2>4. ASSUME NEW d \in Deliveries, Lookup(d) \/ Catch(d)
        PROVE  SuccessIsReal'
    BY <2>2, <2>3, <2>4 DEF Lookup, Catch
  <2>5. ASSUME NEW d \in Deliveries, Commit(d)
        PROVE  SuccessIsReal'
    BY <2>5 DEF Commit, SuccessIsReal
  <2>6. ASSUME NEW d \in Deliveries, Run(d) \/ Insert(d) \/ Deadlock(d) \/ Crash(d)
        PROVE  SuccessIsReal'
    BY <2>1, <2>2, <2>6 DEF Run, Insert, Deadlock, Crash
  <2>7. CASE UNCHANGED vars
    BY <2>2, <2>7 DEF vars
  <2>. QED
    BY <2>4, <2>5, <2>6, <2>7 DEF Next, Step
<1>. QED
  BY <1>1, <1>2, TypeCorrect, OnceInvariant, PTL DEF Spec

\* A request that was done is never reported as a conflict.
THEOREM ConflictsAreTrue == Spec => ConflictIsTrue
<1> DEFINE True == \A d \in Deliveries:
             (answer'[d].kind = "conflict" /\ answer[d].kind # "conflict") =>
               \/ stored[IdOf[d]] = None
               \/ PrintOf[stored[IdOf[d]]] # PrintOf[d]
<1>1. ASSUME TypeOK, [Next]_vars
      PROVE  True
  <2> USE <1>1 DEF Tell, Goto, TypeOK, Answer
  <2>1. ASSUME NEW d \in Deliveries, TellStored(d)
        PROVE  True
    BY <2>1 DEF TellStored
  <2>2. ASSUME NEW d \in Deliveries, Step(d) \/ Deadlock(d) \/ Crash(d)
        PROVE  True
    BY <2>1, <2>2 DEF Step, Lookup, Run, Insert, Commit, Catch, Deadlock, Crash
  <2>. QED
    BY <2>2 DEF Next, vars
<1>2. TypeOK /\ [Next]_vars => [True]_vars
  BY <1>1
<1>. QED
  BY <1>2, TypeCorrect, PTL DEF Spec, ConflictIsTrue

\* What a caught conflict or duplicate, or a lookup that finds a row, tells is
\* what ExactlyOnce allows.
LEMMA TellStoredAllowed ==
  ASSUME TypeOK, OnceInv, NEW d \in Deliveries, pc[d] # "done",
         TellStored(d), UNCHANGED stored
  PROVE  Abstract!Replay(d) \/ Abstract!Refuse(d)
<1>1. answer[d] = Abstract!Unanswered
  BY DEF OnceInv, AnsweredAtTheEnd
<1>2. CASE stored[IdOf[d]] # None /\ PrintOf[stored[IdOf[d]]] = PrintOf[d]
  BY <1>1, <1>2 DEF TellStored, Tell, Abstract!Replay, Abstract!Same
<1>3. CASE ~(stored[IdOf[d]] # None /\ PrintOf[stored[IdOf[d]]] = PrintOf[d])
  BY <1>1, <1>3 DEF TellStored, Tell, Abstract!Refuse, Abstract!Same
<1>. QED
  BY <1>2, <1>3

\* The implementation keeps the promise of ExactlyOnce.
THEOREM KeepsPromise == Spec => Implements
<1>1. Init => Abstract!Init
  BY DEF Init, Abstract!Init
<1>2. ASSUME TypeOK, OnceInv, [Next]_vars
      PROVE  [Abstract!Next]_<<stored, answer>>
  <2> USE DEF Abstract!Next
  <2>1. ASSUME NEW d \in Deliveries, pc[d] # "done"
        PROVE  answer[d] = Abstract!Unanswered
    BY <1>2, <2>1 DEF OnceInv, AnsweredAtTheEnd
  <2>2. ASSUME NEW d \in Deliveries, Lookup(d)
        PROVE  UNCHANGED <<stored, answer>> \/ Abstract!Next
    BY <1>2, <2>2, TellStoredAllowed DEF Lookup
  <2>3. ASSUME NEW d \in Deliveries, Catch(d)
        PROVE  Abstract!Next
    BY <1>2, <2>3, TellStoredAllowed DEF Catch
  <2>4. ASSUME NEW d \in Deliveries, Run(d)
        PROVE  UNCHANGED <<stored, answer>> \/ Abstract!Next
    BY <2>1, <2>4 DEF Run, Tell, Abstract!Fail
  <2>5. ASSUME NEW d \in Deliveries, Insert(d)
        PROVE  UNCHANGED <<stored, answer>>
    BY <2>5 DEF Insert
  <2>6. ASSUME NEW d \in Deliveries, Commit(d)
        PROVE  Abstract!Next
    <3>1. stored[IdOf[d]] = None /\ pc[d] = "inserted"
      BY <1>2, <2>6 DEF Commit, OnceInv, InsertIsExclusive
    <3>. QED
      BY <2>1, <2>6, <3>1 DEF Commit, Tell, Abstract!Perform
  <2>7. ASSUME NEW d \in Deliveries, Deadlock(d)
        PROVE  UNCHANGED <<stored, answer>> \/ Abstract!Next
    BY <2>1, <2>7 DEF Deadlock, Tell, Abstract!Fail
  <2>8. ASSUME NEW d \in Deliveries, Crash(d)
        PROVE  Abstract!Next
    BY <2>1, <2>8 DEF Crash, Tell, Abstract!Fail
  <2>9. CASE UNCHANGED vars
    BY <2>9 DEF vars
  <2>. QED
    BY <1>2, <2>2, <2>3, <2>4, <2>5, <2>6, <2>7, <2>8, <2>9 DEF Next, Step
<1>. QED
  BY <1>1, <1>2, TypeCorrect, OnceInvariant, PTL DEF Spec, Implements, Abstract!Spec
=============================================================================
