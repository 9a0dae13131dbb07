------------------------- MODULE IdempotentService -------------------------
(***************************************************************************)
(* What cart-service's idempotency table promises to clients: a key is     *)
(* executed at most once, its answer never changes, and every request is   *)
(* answered with that answer, with 409 when its payload is not the one     *)
(* that was executed, or with an error.                                    *)
(***************************************************************************)
CONSTANTS Requests, Keys, KeyOf, HashOf, Answers, NoRow, NoReply, BadRequest, Conflict, Error

VARIABLES
  stored,  \* the executed payload and its answer, by key
  reply    \* the reply to each request

TypeOK ==
  /\ stored \in [Keys -> [hash : {HashOf[r] : r \in Requests}, answer : Answers] \cup {NoRow}]
  /\ reply \in [Requests -> Answers \cup {NoReply, BadRequest, Conflict, Error}]

Init ==
  /\ stored = [k \in Keys |-> NoRow]
  /\ reply = [r \in Requests |-> NoReply]

Answer(r, a) ==
  /\ reply[r] = NoReply
  /\ reply' = [reply EXCEPT ![r] = a]

\* The operation takes effect; its reply may be lost.
Execute(r) ==
  /\ stored[KeyOf[r]] = NoRow
  /\ \E a \in Answers :
       /\ stored' = [stored EXCEPT ![KeyOf[r]] = [hash |-> HashOf[r], answer |-> a]]
       /\ Answer(r, a) \/ Answer(r, Error)

\* The key was executed before.
Replay(r) ==
  /\ stored[KeyOf[r]] # NoRow
  /\ Answer(r, IF stored[KeyOf[r]].hash = HashOf[r] THEN stored[KeyOf[r]].answer ELSE Conflict)
  /\ UNCHANGED stored

Reject(r) == (Answer(r, Error) \/ Answer(r, BadRequest)) /\ UNCHANGED stored

Next == \E r \in Requests : Execute(r) \/ Replay(r) \/ Reject(r)

Spec == Init /\ [][Next]_<<stored, reply>>
=============================================================================
