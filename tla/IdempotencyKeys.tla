-------------------------- MODULE IdempotencyKeys --------------------------
(***************************************************************************)
(* The idempotency protocol of cart-service's handlers, which              *)
(* CreateOrGetActiveCart and NOCheckout repeat line by line: one           *)
(* transaction that locks the key's row in cart_idempotency, replays it or *)
(* inserts it IN_PROGRESS, does the handler's own work and completes it.   *)
(*                                                                         *)
(* The transactions interleave as InnoDB lets them.  Keys are numbers: the *)
(* order of the primary key (client_id, idempotency_key).  A locking read  *)
(* that finds no row locks, under REPEATABLE READ (GapLocks), the gap its  *)
(* key falls in; gap locks do not exclude each other but an INSERT waits   *)
(* for all the others', so two new keys that are neighbours deadlock and   *)
(* InnoDB rolls one of them back.                                          *)
(*                                                                         *)
(* The handler's work is a choice of an answer here; CartApi refines it.   *)
(***************************************************************************)
EXTENDS Integers

CONSTANTS
  Requests,
  KeyOf,      \* the key a request carries: [Requests -> Nat]
  HashOf,     \* the hash of its payload; a client may reuse a key wrongly
  Invalid,    \* requests the header check or the validation refuses
  Answers,    \* status and body the handler stores, payload errors included
  GapLocks,   \* TRUE: REPEATABLE READ, FALSE: READ COMMITTED
  NoRow, NoReply,
  BadRequest, \* 400
  Conflict,   \* 409: the key was used with another payload
  Error       \* 500

Keys   == {KeyOf[r] : r \in Requests}
Hashes == {HashOf[r] : r \in Requests}
Rows   == [hash : Hashes, state : {"IN_PROGRESS", "COMPLETED"}, answer : Answers]

ASSUME IdempotencyAssumption ==
  /\ KeyOf \in [Requests -> Nat]
  /\ DOMAIN HashOf = Requests
  /\ GapLocks \in BOOLEAN
  /\ {NoReply, BadRequest, Conflict, Error} \cap Answers = {}
  /\ NoReply \notin {BadRequest, Conflict, Error}
  /\ NoRow \notin Rows \cup [hash : Hashes, answer : Answers]

VARIABLES
  pc,     \* where a request's handler is
  idem,   \* committed rows of cart_idempotency
  reply

keyVars == <<pc, idem, reply>>

\* After a failed INSERT the handler reads the row again: it failed on a
\* "duplicate" key (and keeps a shared lock on the row), on a lock wait
\* "timeout", or its transaction was the "victim" of a deadlock.
Refetching == {"duplicate", "timeout", "victim"}

TypeOK ==
  /\ pc \in [Requests -> {"idle", "claim", "work", "done"} \cup Refetching]
  /\ idem \in [Keys -> Rows \cup {NoRow}]
  /\ reply \in [Requests -> Answers \cup {NoReply, BadRequest, Conflict, Error}]

Init ==
  /\ pc = [r \in Requests |-> "idle"]
  /\ idem = [k \in Keys |-> NoRow]
  /\ reply = [r \in Requests |-> NoReply]

---------------------------------------------------------------------------
(* Locks.                                                                  *)

\* s has inserted its key's row, or found it IN_PROGRESS, and not committed.
Holds(s, k) == KeyOf[s] = k /\ pc[s] = "work"

SharedLock(s, k) == KeyOf[s] = k /\ pc[s] = "duplicate"

\* The records of the index, committed or not.
InIndex(k) == idem[k] # NoRow \/ \E s \in Requests : Holds(s, k)

Between(k, i, j) == (i < k /\ k < j) \/ (j < k /\ k < i)

\* No record separates i from j.
SameGap(i, j) == \A k \in Keys : Between(k, i, j) => ~InIndex(k)

\* s read its key without finding it and keeps the gap until it ends.
GapLocked(s, k) ==
  GapLocks /\ pc[s] \in {"claim", "work", "duplicate", "timeout"} /\ SameGap(KeyOf[s], k)

\* The row lock of r's key can be granted to r.
RowFree(r) ==
  \A s \in Requests \ {r} : ~Holds(s, KeyOf[r]) /\ ~SharedLock(s, KeyOf[r])

\* The INSERT of r's key can be done.
InsertFree(r) ==
  /\ ~InIndex(KeyOf[r])
  /\ \A s \in Requests \ {r} : ~GapLocked(s, KeyOf[r])

\* An insert of the key was rolled back, and what was queued for its row was
\* granted shared locks.
RolledBackInsert(k) == \E t \in Requests : KeyOf[t] = k /\ reply[t] = Error

\* Bug: nobody detects the deadlocks.
DeadlockedNever(r, s) == FALSE

\* r and s wait for each other: two INSERTs for each other's gap lock or for
\* the row of a third one, or two second reads for each other's shared lock.
Deadlocked(r, s) ==
  /\ r # s
  /\ \/ pc[r] = "claim" /\ pc[s] = "claim" /\ GapLocked(s, KeyOf[r])
     \/ /\ pc[r] = "claim" /\ pc[s] = "claim" /\ KeyOf[r] = KeyOf[s]
        /\ RolledBackInsert(KeyOf[r])
     \/ pc[r] = "duplicate" /\ SharedLock(s, KeyOf[r])

---------------------------------------------------------------------------
(* Steps of the handlers.                                                  *)

\* The transaction ends, or was ended by the server, and the reply is sent.
Reply(r, a) ==
  /\ pc' = [pc EXCEPT ![r] = "done"]
  /\ reply' = [reply EXCEPT ![r] = a]

Goto(r, l) == pc' = [pc EXCEPT ![r] = l] /\ UNCHANGED reply

\* Bug: the payload hash is not compared.
UseRowAnyHash(r, row) ==
  IF row.state = "COMPLETED" THEN Reply(r, row.answer) ELSE Goto(r, "work")

\* What the handler does with a row it has read: 409, replay, or go on.
UseRow(r, row) ==
  IF row.hash # HashOf[r] THEN Reply(r, Conflict)
  ELSE IF row.state = "COMPLETED" THEN Reply(r, row.answer)
  ELSE Goto(r, "work")

\* A missing header or an invalid payload: nothing is read or written.
Refuse(r) ==
  /\ pc[r] = "idle" /\ r \in Invalid
  /\ Reply(r, BadRequest)
  /\ UNCHANGED idem

\* SELECT ... FOR UPDATE by primary key.
Lookup(r) ==
  /\ pc[r] = "idle" /\ r \notin Invalid
  /\ RowFree(r)
  /\ IF idem[KeyOf[r]] = NoRow THEN Goto(r, "claim") ELSE UseRow(r, idem[KeyOf[r]])
  /\ UNCHANGED idem

\* Bug: the table has no unique key, so the INSERT neither waits nor fails.
ClaimUnindexed(r) ==
  /\ pc[r] = "claim"
  /\ Goto(r, "work")
  /\ UNCHANGED idem

\* Bug: the IN_PROGRESS row is committed at once, in a transaction of its own.
ClaimCommitted(r) ==
  /\ pc[r] = "claim"
  /\ InsertFree(r)
  /\ \E a \in Answers :
       idem' = [idem EXCEPT ![KeyOf[r]] =
                  [hash |-> HashOf[r], state |-> "IN_PROGRESS", answer |-> a]]
  /\ Goto(r, "work")

\* INSERT of the IN_PROGRESS row.
Claim(r) ==
  /\ pc[r] = "claim"
  /\ InsertFree(r)
  /\ Goto(r, "work")
  /\ UNCHANGED idem

\* The INSERT fails: another request committed the key (never while a gap lock
\* protects it), it waited too long, or it is chosen to break a deadlock.
ClaimDuplicate(r) ==
  /\ pc[r] = "claim"
  /\ idem[KeyOf[r]] # NoRow
  /\ Goto(r, "duplicate")
  /\ UNCHANGED idem

ClaimTimeout(r) ==
  /\ pc[r] = "claim"
  /\ idem[KeyOf[r]] = NoRow /\ ~InsertFree(r)
  /\ Goto(r, "timeout")
  /\ UNCHANGED idem

ClaimDeadlock(r) ==
  /\ pc[r] = "claim"
  /\ \E s \in Requests : Deadlocked(r, s)
  /\ Goto(r, "victim")
  /\ UNCHANGED idem

\* The second SELECT ... FOR UPDATE; with no row the INSERT's error is returned.
Refetch(r) ==
  /\ pc[r] \in Refetching
  /\ RowFree(r)
  /\ IF idem[KeyOf[r]] = NoRow THEN Reply(r, Error) ELSE UseRow(r, idem[KeyOf[r]])
  /\ UNCHANGED idem

RefetchDeadlock(r) ==
  /\ pc[r] = "duplicate"
  /\ \E s \in Requests : Deadlocked(r, s)
  /\ Reply(r, Error)
  /\ UNCHANGED idem

\* The row as the last UPDATE of the transaction leaves it.
CompletedRow(r, a) == [hash |-> HashOf[r], state |-> "COMPLETED", answer |-> a]

\* The handler's work ends with the UPDATE of the row and COMMIT.  When the
\* answer to COMMIT is lost the client gets a 500 all the same.
Complete(r, a) ==
  /\ pc[r] = "work"
  /\ idem' = [idem EXCEPT ![KeyOf[r]] = CompletedRow(r, a)]
  /\ Reply(r, a) \/ Reply(r, Error)

\* A statement fails, a lock wait times out or the pod dies: rollback, 500.
Fail(r) ==
  /\ pc[r] # "done" /\ r \notin Invalid
  /\ Reply(r, Error)
  /\ UNCHANGED idem

Protocol(r) ==
  \/ Refuse(r) \/ Lookup(r) \/ Claim(r) \/ ClaimDuplicate(r) \/ ClaimTimeout(r)
  \/ ClaimDeadlock(r) \/ Refetch(r) \/ RefetchDeadlock(r) \/ Fail(r)

Next == \E r \in Requests : Protocol(r) \/ \E a \in Answers : Complete(r, a)

Spec == Init /\ [][Next]_keyVars

\* A request that was sent is taken up, handlers go on, locks that stay free
\* are granted and InnoDB breaks deadlocks at once; no failure and no timeout
\* is needed for progress.
Progress(r) ==
  \/ Refuse(r) \/ Lookup(r)
  \/ Claim(r) \/ ClaimDuplicate(r) \/ ClaimDeadlock(r)
  \/ Refetch(r) \/ RefetchDeadlock(r)
  \/ \E a \in Answers : Complete(r, a)

\* All requests are sent.
FairSpec == Spec /\ \A r \in Requests : WF_keyVars(Progress(r))

---------------------------------------------------------------------------
(* Properties.                                                             *)

\* The work of a key is done by one transaction at a time, and never again
\* once a transaction has committed: the locks, the duplicate key error and
\* the second read leave no way to two executions (handlers_cart.go:99-146).
ExclusiveWork ==
  \A r \in Requests : pc[r] = "work" =>
    /\ idem[KeyOf[r]] = NoRow
    /\ \A s \in Requests \ {r} : ~Holds(s, KeyOf[r])

\* All the answers given for one key are the same, given to one payload only.
SameKeySameAnswer ==
  \A r, s \in Requests :
    KeyOf[r] = KeyOf[s] /\ reply[r] \in Answers /\ reply[s] \in Answers
      => reply[r] = reply[s] /\ HashOf[r] = HashOf[s]

\* The table implements the service that executes every key at most once.
StoredAnswer(k) ==
  IF idem[k] = NoRow THEN NoRow ELSE [hash |-> idem[k].hash, answer |-> idem[k].answer]

Service == INSTANCE IdempotentService
             WITH stored <- [k \in Keys |-> StoredAnswer(k)]
ImplementsService == Service!Spec

=============================================================================
