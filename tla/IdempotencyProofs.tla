------------------------- MODULE IdempotencyProofs -------------------------
(***************************************************************************)
(* Proofs about IdempotencyKeys, for any requests, keys, payloads and      *)
(* answers, and both isolation levels: the work of a key is exclusive, its *)
(* answer is unique, and the protocol implements IdempotentService.        *)
(***************************************************************************)
EXTENDS IdempotencyKeys, TLAPS

\* A request without a reply has not ended, and an answer that was given is
\* the one stored for the key and the payload.
RepliesAreStored ==
  \A r \in Requests :
    /\ pc[r] # "done" => reply[r] = NoReply
    /\ reply[r] \in Answers => idem[KeyOf[r]] = CompletedRow(r, reply[r])

\* The IN_PROGRESS row of a transaction is not seen before it is completed.
RowsAreCompleted == \A k \in Keys : idem[k] # NoRow => idem[k].state = "COMPLETED"

IInv == TypeOK /\ ExclusiveWork /\ RowsAreCompleted /\ RepliesAreStored

---------------------------------------------------------------------------
(* What one step of the protocol can do, however it gets there.            *)

\* The request moves on inside its transaction; only a free key is claimed.
Moves(r) ==
  /\ UNCHANGED <<idem, reply>>
  /\ pc[r] # "done"
  /\ \E l \in {"claim", "work"} \cup Refetching :
       /\ pc' = [pc EXCEPT ![r] = l]
       /\ l = "work" => ~InIndex(KeyOf[r])

\* It is answered without having executed.
IsAnswered(r) ==
  /\ UNCHANGED idem
  /\ pc[r] # "done"
  /\ \/ Reply(r, Error) \/ Reply(r, BadRequest)
     \/ /\ idem[KeyOf[r]] # NoRow
        /\ Reply(r, IF idem[KeyOf[r]].hash = HashOf[r] THEN idem[KeyOf[r]].answer ELSE Conflict)

LEMMA UseRowAnswers ==
  ASSUME IInv, NEW r \in Requests, idem[KeyOf[r]] # NoRow, UseRow(r, idem[KeyOf[r]])
  PROVE  Reply(r, IF idem[KeyOf[r]].hash = HashOf[r] THEN idem[KeyOf[r]].answer ELSE Conflict)
<1>1. KeyOf[r] \in Keys
  BY DEF Keys
<1>2. idem[KeyOf[r]].state = "COMPLETED"
  BY <1>1 DEF IInv, RowsAreCompleted
<1> QED
  BY <1>2 DEF UseRow

LEMMA ProtocolSteps ==
  ASSUME IInv, NEW r \in Requests, Protocol(r)
  PROVE  Moves(r) \/ IsAnswered(r)
<1>1. CASE Refuse(r) \/ Fail(r) \/ RefetchDeadlock(r)
  BY <1>1 DEF Refuse, Fail, RefetchDeadlock, IsAnswered
<1>2. CASE Lookup(r)
  BY <1>2, UseRowAnswers DEF Lookup, Goto, Moves, IsAnswered
<1>3. CASE Claim(r)
  BY <1>3 DEF Claim, InsertFree, Goto, Moves
<1>4. CASE ClaimDuplicate(r) \/ ClaimTimeout(r) \/ ClaimDeadlock(r)
  BY <1>4 DEF ClaimDuplicate, ClaimTimeout, ClaimDeadlock, Goto, Moves, Refetching
<1>5. CASE Refetch(r)
  BY <1>5, UseRowAnswers DEF Refetch, Refetching, IsAnswered
<1> QED
  BY <1>1, <1>2, <1>3, <1>4, <1>5 DEF Protocol

---------------------------------------------------------------------------
(* The invariant.                                                          *)

LEMMA InitInv == Init => IInv
BY IdempotencyAssumption
   DEF Init, IInv, TypeOK, ExclusiveWork, RowsAreCompleted, RepliesAreStored, Keys

LEMMA MovesPreserves ==
  ASSUME IInv, NEW r \in Requests, Moves(r)
  PROVE  IInv'
<1> USE DEF IInv
<1>1. PICK l \in {"claim", "work"} \cup Refetching :
        pc' = [pc EXCEPT ![r] = l] /\ (l = "work" => ~InIndex(KeyOf[r]))
  BY DEF Moves
<1>2. UNCHANGED <<idem, reply>> /\ pc[r] # "done"
  BY DEF Moves
<1>3. TypeOK'
  BY <1>1, <1>2 DEF TypeOK, Rows
<1>4. ExclusiveWork'
  BY <1>1, <1>2 DEF ExclusiveWork, InIndex, Holds, TypeOK, Refetching
<1>5. RowsAreCompleted'
  BY <1>2 DEF RowsAreCompleted
<1>6. RepliesAreStored'
  BY <1>1, <1>2, IdempotencyAssumption DEF RepliesAreStored, TypeOK, CompletedRow
<1> QED
  BY <1>3, <1>4, <1>5, <1>6

LEMMA AnswersPreserves ==
  ASSUME IInv, NEW r \in Requests, IsAnswered(r)
  PROVE  IInv'
<1> USE DEF IInv
<1> DEFINE row == idem[KeyOf[r]]
<1>1. KeyOf[r] \in Keys
  BY DEF Keys
<1>2. PICK a : /\ Reply(r, a)
               /\ \/ a \in {Error, BadRequest, Conflict}
                  \/ row # NoRow /\ row.hash = HashOf[r] /\ a = row.answer
  BY DEF IsAnswered
<1>3. row # NoRow => row \in Rows /\ row.state = "COMPLETED"
  BY <1>1 DEF TypeOK, RowsAreCompleted
<1>4. a \in Answers \cup {NoReply, BadRequest, Conflict, Error}
  BY <1>2, <1>3 DEF Rows
<1>5. UNCHANGED idem /\ pc[r] # "done"
  BY DEF IsAnswered
<1>6. TypeOK'
  BY <1>2, <1>4, <1>5 DEF TypeOK, Reply, Rows
<1>7. ExclusiveWork' /\ RowsAreCompleted'
  BY <1>2, <1>5 DEF ExclusiveWork, RowsAreCompleted, Holds, Reply, TypeOK
<1>8. a \in Answers => row = CompletedRow(r, a)
  BY <1>2, <1>3, IdempotencyAssumption DEF Rows, CompletedRow
<1>9. RepliesAreStored'
  BY <1>2, <1>5, <1>8 DEF RepliesAreStored, Reply, TypeOK, CompletedRow
<1> QED
  BY <1>6, <1>7, <1>9

LEMMA CompletePreserves ==
  ASSUME IInv, NEW r \in Requests, NEW a \in Answers, Complete(r, a)
  PROVE  IInv'
<1> USE DEF IInv
<1>1. KeyOf[r] \in Keys /\ HashOf[r] \in Hashes
  BY DEF Keys, Hashes
<1>2. PICK b \in {a, Error} : Reply(r, b)
  BY DEF Complete
<1>3. /\ pc[r] = "work" /\ idem[KeyOf[r]] = NoRow
      /\ idem' = [idem EXCEPT ![KeyOf[r]] = CompletedRow(r, a)]
  BY DEF Complete, ExclusiveWork
<1>4. CompletedRow(r, a) \in Rows /\ CompletedRow(r, a).state = "COMPLETED"
  BY <1>1 DEF CompletedRow, Rows
<1>5. TypeOK'
  BY <1>1, <1>2, <1>3, <1>4 DEF TypeOK, Reply, Rows
<1>6. ExclusiveWork'
  BY <1>1, <1>2, <1>3 DEF ExclusiveWork, Holds, Reply, TypeOK, Keys
<1>7. RowsAreCompleted'
  BY <1>1, <1>3, <1>4 DEF RowsAreCompleted, TypeOK
<1>8. ASSUME NEW s \in Requests
      PROVE  /\ pc'[s] # "done" => reply'[s] = NoReply
             /\ reply'[s] \in Answers => idem'[KeyOf[s]] = CompletedRow(s, reply'[s])
  <2>1. CASE s = r
    BY <1>1, <1>2, <1>3, <2>1, IdempotencyAssumption DEF RepliesAreStored, Reply, TypeOK
  <2>2. CASE s # r
    <3>1. pc'[s] = pc[s] /\ reply'[s] = reply[s]
      BY <1>2, <2>2 DEF Reply, TypeOK
    <3>2. ASSUME reply[s] \in Answers PROVE KeyOf[s] # KeyOf[r]
      <4>1. CompletedRow(s, reply[s]) \in Rows
        BY <3>2 DEF Rows, CompletedRow, Hashes
      <4>2. idem[KeyOf[s]] # NoRow
        BY <3>2, <4>1, IdempotencyAssumption DEF RepliesAreStored
      <4> QED
        BY <1>3, <4>2
    <3>3. KeyOf[s] \in Keys
      BY DEF Keys
    <3> QED
      BY <1>1, <1>3, <3>1, <3>2, <3>3 DEF RepliesAreStored, TypeOK
  <2> QED
    BY <2>1, <2>2
<1>9. RepliesAreStored'
  BY <1>8 DEF RepliesAreStored, CompletedRow
<1> QED
  BY <1>5, <1>6, <1>7, <1>9

LEMMA NextPreserves == IInv /\ [Next]_keyVars => IInv'
<1> SUFFICES ASSUME IInv, [Next]_keyVars PROVE IInv'
  OBVIOUS
<1>1. CASE UNCHANGED keyVars
  BY <1>1 DEF IInv, keyVars, TypeOK, ExclusiveWork, RowsAreCompleted, RepliesAreStored,
              Holds, CompletedRow, Rows
<1>2. ASSUME NEW r \in Requests, Protocol(r) PROVE IInv'
  BY <1>2, ProtocolSteps, MovesPreserves, AnswersPreserves
<1>3. ASSUME NEW r \in Requests, NEW a \in Answers, Complete(r, a) PROVE IInv'
  BY <1>3, CompletePreserves
<1> QED
  BY <1>1, <1>2, <1>3 DEF Next

LEMMA Invariance == Spec => []IInv
BY InitInv, NextPreserves, PTL DEF Spec

---------------------------------------------------------------------------
(* The results.                                                            *)

\* Every reachable state is well typed.
THEOREM TypeCorrect == Spec => []TypeOK
<1>1. IInv => TypeOK
  BY DEF IInv
<1> QED
  BY <1>1, Invariance, PTL

\* The work of a key is done by one transaction at a time and never after one
\* has committed.
THEOREM WorkIsExclusive == Spec => []ExclusiveWork
<1>1. IInv => ExclusiveWork
  BY DEF IInv
<1> QED
  BY <1>1, Invariance, PTL

\* All answers given for a key are equal, and for one payload.
THEOREM AnswersAgree == Spec => []SameKeySameAnswer
<1>1. IInv => SameKeySameAnswer
  <2> SUFFICES ASSUME IInv, NEW r \in Requests, NEW s \in Requests,
                      KeyOf[r] = KeyOf[s], reply[r] \in Answers, reply[s] \in Answers
               PROVE  reply[r] = reply[s] /\ HashOf[r] = HashOf[s]
    BY DEF SameKeySameAnswer
  <2>1. CompletedRow(r, reply[r]) = CompletedRow(s, reply[s])
    BY DEF IInv, RepliesAreStored
  <2> QED
    BY <2>1 DEF CompletedRow
<1> QED
  BY <1>1, Invariance, PTL

---------------------------------------------------------------------------
(* Refinement: every behaviour of the table is one of the service.         *)

LEMMA StoredUnchanged ==
  ASSUME UNCHANGED idem
  PROVE  [k \in Keys |-> StoredAnswer(k)]' = [k \in Keys |-> StoredAnswer(k)]
BY DEF StoredAnswer

LEMMA RefinesInit == Init => Service!Init
<1> SUFFICES ASSUME Init PROVE Service!Init
  OBVIOUS
<1>1. \A k \in Keys : StoredAnswer(k) = NoRow
  BY DEF Init, StoredAnswer
<1> QED
  BY <1>1 DEF Init, Service!Init

LEMMA RefinesNext ==
  IInv /\ [Next]_keyVars => [Service!Next]_<<[k \in Keys |-> StoredAnswer(k)], reply>>
<1> DEFINE stored == [k \in Keys |-> StoredAnswer(k)]
<1> SUFFICES ASSUME IInv, Next
             PROVE  Service!Next \/ UNCHANGED <<stored, reply>>
  <2>1. UNCHANGED keyVars => UNCHANGED <<stored, reply>>
    BY StoredUnchanged DEF keyVars
  <2> QED
    BY <2>1
<1>1. ASSUME NEW r \in Requests, Moves(r)
      PROVE  UNCHANGED <<stored, reply>>
  BY <1>1, StoredUnchanged DEF Moves
<1>2. ASSUME NEW r \in Requests, IsAnswered(r)
      PROVE  Service!Next
  <2>1. UNCHANGED stored /\ reply[r] = NoReply /\ KeyOf[r] \in Keys
    BY <1>2, StoredUnchanged DEF IsAnswered, IInv, RepliesAreStored, Keys
  <2>2. CASE Reply(r, Error) \/ Reply(r, BadRequest)
    <3>1. Service!Reject(r)
      BY <2>1, <2>2 DEF Reply, Service!Reject, Service!Answer
    <3> QED
      BY <3>1 DEF Service!Next
  <2>3. CASE /\ idem[KeyOf[r]] # NoRow
             /\ Reply(r, IF idem[KeyOf[r]].hash = HashOf[r]
                           THEN idem[KeyOf[r]].answer ELSE Conflict)
    <3>1. stored[KeyOf[r]] = [hash |-> idem[KeyOf[r]].hash, answer |-> idem[KeyOf[r]].answer]
      BY <2>1, <2>3 DEF StoredAnswer
    <3>2. stored[KeyOf[r]] # NoRow
      <4>1. idem[KeyOf[r]] \in Rows
        BY <2>1, <2>3 DEF IInv, TypeOK
      <4>2. [hash |-> idem[KeyOf[r]].hash, answer |-> idem[KeyOf[r]].answer]
              \in [hash : Hashes, answer : Answers]
        BY <4>1 DEF Rows
      <4> HIDE DEF stored
      <4> QED
        BY <3>1, <4>2, IdempotencyAssumption
    <3> QED
      <4>1. /\ stored[KeyOf[r]].hash = idem[KeyOf[r]].hash
            /\ stored[KeyOf[r]].answer = idem[KeyOf[r]].answer
        BY <3>1
      <4>2. Service!Answer(r, IF stored[KeyOf[r]].hash = HashOf[r]
                                THEN stored[KeyOf[r]].answer ELSE Conflict)
        BY <2>1, <2>3, <4>1 DEF Reply, Service!Answer
      <4>3. Service!Replay(r)
        BY <2>1, <3>2, <4>2 DEF Service!Replay
      <4> QED
        BY <4>3 DEF Service!Next
  <2> QED
    BY <1>2, <2>2, <2>3 DEF IsAnswered
<1>3. ASSUME NEW r \in Requests, NEW a \in Answers, Complete(r, a)
      PROVE  Service!Next
  <2>1. /\ pc[r] = "work" /\ idem[KeyOf[r]] = NoRow /\ reply[r] = NoReply
        /\ idem' = [idem EXCEPT ![KeyOf[r]] = CompletedRow(r, a)]
        /\ KeyOf[r] \in Keys
    BY <1>3 DEF Complete, IInv, ExclusiveWork, RepliesAreStored, Keys
  <2>2. stored[KeyOf[r]] = NoRow
    BY <2>1 DEF StoredAnswer
  <2>3. stored' = [stored EXCEPT ![KeyOf[r]] = [hash |-> HashOf[r], answer |-> a]]
    <3>1. CompletedRow(r, a) # NoRow
      BY IdempotencyAssumption DEF CompletedRow, Rows, Hashes
    <3>2. idem'[KeyOf[r]] = CompletedRow(r, a) /\ \A k \in Keys \ {KeyOf[r]} : idem'[k] = idem[k]
      BY <2>1 DEF IInv, TypeOK
    <3>3. StoredAnswer(KeyOf[r])' = [hash |-> HashOf[r], answer |-> a]
      BY <3>1, <3>2 DEF StoredAnswer, CompletedRow
    <3>4. \A k \in Keys \ {KeyOf[r]} : StoredAnswer(k)' = StoredAnswer(k)
      BY <3>2 DEF StoredAnswer
    <3>5. stored' = [k \in Keys |-> StoredAnswer(k)']
      OBVIOUS
    <3> QED
      BY <2>1, <3>3, <3>4, <3>5
  <2>4. Service!Answer(r, a) \/ Service!Answer(r, Error)
    BY <1>3, <2>1 DEF Complete, Reply, Service!Answer
  <2>5. Service!Execute(r)
    BY <2>2, <2>3, <2>4 DEF Service!Execute
  <2> QED
    BY <2>5 DEF Service!Next
<1> QED
  BY <1>1, <1>2, <1>3, ProtocolSteps DEF Next

\* The key table refines the service that executes each key at most once.
THEOREM Refinement == Spec => ImplementsService
BY RefinesInit, RefinesNext, Invariance, PTL DEF Spec, ImplementsService, Service!Spec
=============================================================================
