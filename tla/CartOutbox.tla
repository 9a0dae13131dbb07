---------------------------- MODULE CartOutbox ----------------------------
(***************************************************************************)
(* The transactional outbox of cart-service: the routed Checkout handler   *)
(* inserts an event row in cart_outbox, the workers' publishBatch sends    *)
(* the NEW rows to Kafka and marks them, and the broker appends them to    *)
(* the partition of their cart (key = AggregateID).                        *)
(*                                                                         *)
(* Every request to the handler inserts at most one row, so a row is named *)
(* by its request.  A client retry is one more request: the handler never  *)
(* looks at the idempotency key.                                           *)
(*                                                                         *)
(* Locks are InnoDB's.  No index covers status or created_at (the gorm     *)
(* tags declare none), so the SELECT ... FOR UPDATE of publishBatch reads  *)
(* the whole table: it waits for every row another transaction has locked  *)
(* and keeps all the NEW rows locked, those beyond LIMIT included.  Under  *)
(* REPEATABLE READ (the server's default, GapLocks) it also holds every    *)
(* gap, and a checkout cannot insert until the batch ends.                 *)
(***************************************************************************)
EXTENDS Integers, Sequences, FiniteSets

CONSTANTS
  Requests,   \* checkout requests, and the outbox rows they may insert
  Carts,
  CartOf,     \* the cart a request checks out: [Requests -> Carts]
  Workers,    \* running cart-worker processes
  Stamps,     \* values of created_at; replicas' clocks are not synchronised
  Limit,      \* the LIMIT of the batch (50 in Run)
  GapLocks,   \* TRUE: REPEATABLE READ, FALSE: READ COMMITTED
  MaxLate,    \* bound: copies one Publish may leave in flight
  MaxFaults,  \* bound: rolled back batches and lost FAILED marks
  None

ASSUME CartOutboxAssumption ==
  /\ IsFiniteSet(Requests)
  /\ CartOf \in [Requests -> Carts]
  /\ Stamps \subseteq Nat
  /\ Limit \in Nat \ {0}
  /\ GapLocks \in BOOLEAN
  /\ MaxLate \in Nat
  /\ MaxFaults \in Nat
  /\ None \notin Requests

VARIABLES
  rq,         \* phase of a checkout: its transaction, then its reply
  createdAt,  \* the created_at gorm stamps before the INSERT is sent
  status,     \* committed status of a row, "none" while there is no row
  pc,         \* a worker: between ticks, in the loop, or about to mark cur
  locked,     \* rows a worker's transaction has locked
  todo,       \* rows of the batch the loop has not reached
  cur,        \* the row published and not yet marked
  mark,       \* uncommitted UPDATEs of a worker's transaction
  wire,       \* copies sent to the broker and not yet appended
  topic,      \* the log of each cart's key
  faults,     \* counts what MaxFaults bounds
  disturbed   \* history: rows a later row may overtake, see InStampOrder

dbVars     == <<createdAt, status>>
workerVars == <<pc, locked, todo, cur, mark>>
kafkaVars  == <<wire, topic>>
vars       == <<rq, dbVars, workerVars, kafkaVars, faults, disturbed>>

Phases  == {"idle", "stamped", "inserted", "ok", "error"}
Settled == {"PUBLISHED", "FAILED"}

TypeOK ==
  /\ rq \in [Requests -> Phases]
  /\ createdAt \in [Requests -> Stamps \cup {0}]
  /\ status \in [Requests -> Settled \cup {"none", "NEW"}]
  /\ pc \in [Workers -> {"tick", "loop", "mark"}]
  /\ locked \in [Workers -> SUBSET Requests]
  /\ todo \in [Workers -> SUBSET Requests]
  /\ cur \in [Workers -> Requests \cup {None}]
  /\ mark \in [Workers -> [Requests -> Settled \cup {"none"}]]
  /\ wire \in [Requests -> Nat]
  /\ topic \in [Carts -> Seq(Requests)]
  /\ faults \in 0..MaxFaults
  /\ disturbed \subseteq Requests

NoMarks == [r \in Requests |-> "none"]

Init ==
  /\ rq = [q \in Requests |-> "idle"]
  /\ createdAt = [q \in Requests |-> 0]
  /\ status = [q \in Requests |-> "none"]
  /\ pc = [w \in Workers |-> "tick"]
  /\ locked = [w \in Workers |-> {}]
  /\ todo = [w \in Workers |-> {}]
  /\ cur = [w \in Workers |-> None]
  /\ mark = [w \in Workers |-> NoMarks]
  /\ wire = [r \in Requests |-> 0]
  /\ topic = [c \in Carts |-> << >>]
  /\ faults = 0
  /\ disturbed = {}

---------------------------------------------------------------------------
(* What the transactions see of each other.                                *)

\* Bug: the WHERE clause of the batch excludes PUBLISHED rows only.
NewRowsRetried == {r \in Requests : status[r] \in {"NEW", "FAILED"}}

\* Bug: the batch has no WHERE clause.
NewRowsAnyStatus == {r \in Requests : status[r] # "none"}

NewRows == {r \in Requests : status[r] = "NEW"}

\* Rows inserted by transactions that have not ended: the scan waits for them.
Uncommitted == {r \in Requests : rq[r] = "inserted"}

LockedByOthers(w) == UNION {locked[v] : v \in Workers \ {w}}

\* Bug: the SELECT of the batch without FOR UPDATE.
ScanFreePlainRead(w) == TRUE

\* The full scan meets no lock of another transaction.
ScanFree(w) == Uncommitted = {} /\ LockedByOthers(w) = {}

\* Under REPEATABLE READ a running batch holds every gap of the table.
InsertBlocked == GapLocks /\ \E w \in Workers : pc[w] # "tick"

\* r comes first in S under ORDER BY created_at; ties in any order.
Oldest(r, S) == r \in S /\ \A s \in S : createdAt[r] <= createdAt[s]

\* Bug: the LIMIT is applied before the rows are ordered.
IsBatchUnordered(B) ==
  /\ B \subseteq NewRows
  /\ Cardinality(B) <= Limit
  /\ NewRows \ B # {} => Cardinality(B) = Limit

\* B is a result of SELECT ... ORDER BY created_at ASC LIMIT Limit.
IsBatch(B) ==
  /\ B \subseteq NewRows
  /\ Cardinality(B) <= Limit
  /\ NewRows \ B # {} => Cardinality(B) = Limit
  /\ \A r \in B, s \in NewRows \ B : createdAt[r] <= createdAt[s]

Sent(r) == \E i \in DOMAIN topic[CartOf[r]] : topic[CartOf[r]][i] = r

\* A batch has reached r, or will without reading the table again.
InHand(r) ==
  \/ status[r] \in Settled \/ wire[r] > 0 \/ Sent(r)
  \/ \E w \in Workers : r \in todo[w] \/ cur[w] = r \/ mark[w][r] # "none"

---------------------------------------------------------------------------
(* Checkout: one transaction with one INSERT, then the reply.              *)

\* The transaction begins and gorm stamps created_at.
CheckoutStamp(q) ==
  /\ rq[q] = "idle"
  /\ rq' = [rq EXCEPT ![q] = "stamped"]
  /\ \E t \in Stamps : createdAt' = [createdAt EXCEPT ![q] = t]
  /\ UNCHANGED <<status, workerVars, kafkaVars, faults, disturbed>>

\* Bug: the handler also publishes the event itself, inside the transaction.
CheckoutInsertDualWrite(q) ==
  /\ rq[q] = "stamped"
  /\ ~InsertBlocked
  /\ rq' = [rq EXCEPT ![q] = "inserted"]
  /\ wire' = [wire EXCEPT ![q] = 1]
  /\ UNCHANGED <<dbVars, workerVars, topic, faults, disturbed>>

CheckoutInsert(q) ==
  /\ rq[q] = "stamped"
  /\ ~InsertBlocked
  /\ rq' = [rq EXCEPT ![q] = "inserted"]
  /\ UNCHANGED <<dbVars, workerVars, kafkaVars, faults, disturbed>>

\* COMMIT makes the row visible; history notes a row of the same cart with a
\* later stamp that is already on its way.
Commit(q) ==
  /\ status' = [status EXCEPT ![q] = "NEW"]
  /\ disturbed' = IF \E b \in Requests : /\ CartOf[b] = CartOf[q]
                                         /\ createdAt[b] > createdAt[q]
                                         /\ InHand(b)
                    THEN disturbed \cup {q} ELSE disturbed

CheckoutCommit(q) ==
  /\ rq[q] = "inserted"
  /\ Commit(q)
  /\ rq' = [rq EXCEPT ![q] = "ok"]
  /\ UNCHANGED <<createdAt, workerVars, kafkaVars, faults>>

\* The 500 reply: the INSERT or the COMMIT failed (a lock wait timeout, a lost
\* connection, a dead pod).  A COMMIT whose answer is lost may be applied.
CheckoutFail(q) ==
  /\ rq[q] \in {"stamped", "inserted"}
  /\ rq' = [rq EXCEPT ![q] = "error"]
  /\ \/ UNCHANGED <<status, disturbed>>
     \/ rq[q] = "inserted" /\ Commit(q)
  /\ UNCHANGED <<createdAt, workerVars, kafkaVars, faults>>

---------------------------------------------------------------------------
(* publishBatch, one transaction, run by each worker on a ticker.          *)

\* The locking SELECT.  A tick that finds no NEW row, or whose lock wait times
\* out, changes nothing: Run ignores the error.
BatchSelect(w) ==
  /\ pc[w] = "tick"
  /\ ScanFree(w)
  /\ \E B \in SUBSET NewRows :
        /\ B # {} /\ IsBatch(B)
        /\ todo' = [todo EXCEPT ![w] = B]
  /\ locked' = [locked EXCEPT ![w] = NewRows]
  /\ pc' = [pc EXCEPT ![w] = "loop"]
  /\ UNCHANGED <<rq, dbVars, cur, mark, kafkaVars, faults, disturbed>>

\* kafka-go answered without error: one copy is appended; retries inside
\* WriteMessages may have left more in flight.
PublishOk(w, r) ==
  /\ pc[w] = "loop"
  /\ Oldest(r, todo[w])
  /\ topic' = [topic EXCEPT ![CartOf[r]] = Append(@, r)]
  /\ \E n \in 0..MaxLate : wire' = [wire EXCEPT ![r] = @ + n]
  /\ todo' = [todo EXCEPT ![w] = @ \ {r}]
  /\ cur' = [cur EXCEPT ![w] = r]
  /\ pc' = [pc EXCEPT ![w] = "mark"]
  /\ UNCHANGED <<rq, dbVars, locked, mark, faults, disturbed>>

\* Bug: the loop continues after an error without marking the row.
PublishErrUnmarked(w, r) ==
  /\ pc[w] = "loop"
  /\ Oldest(r, todo[w])
  /\ todo' = [todo EXCEPT ![w] = @ \ {r}]
  /\ disturbed' = disturbed \cup {r}
  /\ UNCHANGED <<rq, dbVars, pc, locked, cur, mark, kafkaVars, faults>>

\* kafka-go gave up: the message may still arrive.  The FAILED update's own
\* error is ignored and then the row stays NEW.
PublishErr(w, r) ==
  /\ pc[w] = "loop"
  /\ Oldest(r, todo[w])
  /\ \E n \in 0..MaxLate : wire' = [wire EXCEPT ![r] = @ + n]
  /\ todo' = [todo EXCEPT ![w] = @ \ {r}]
  /\ \/ mark' = [mark EXCEPT ![w][r] = "FAILED"] /\ UNCHANGED faults
     \/ faults < MaxFaults /\ faults' = faults + 1 /\ UNCHANGED mark
  /\ disturbed' = disturbed \cup {r}
  /\ UNCHANGED <<rq, dbVars, pc, locked, cur, topic>>

MarkPublished(w) ==
  /\ pc[w] = "mark"
  /\ mark' = [mark EXCEPT ![w][cur[w]] = "PUBLISHED"]
  /\ cur' = [cur EXCEPT ![w] = None]
  /\ pc' = [pc EXCEPT ![w] = "loop"]
  /\ UNCHANGED <<rq, dbVars, locked, todo, kafkaVars, faults, disturbed>>

\* Bug: the transaction is left open when the batch ends.
ReleaseLeaky(w) ==
  /\ mark' = [mark EXCEPT ![w] = NoMarks]
  /\ UNCHANGED <<pc, locked, todo, cur>>

\* The end of a transaction: locks and uncommitted updates are gone.
Release(w) ==
  /\ pc' = [pc EXCEPT ![w] = "tick"]
  /\ locked' = [locked EXCEPT ![w] = {}]
  /\ todo' = [todo EXCEPT ![w] = {}]
  /\ cur' = [cur EXCEPT ![w] = None]
  /\ mark' = [mark EXCEPT ![w] = NoMarks]

\* Bug: one bulk UPDATE marks whatever the batch had locked.
BatchCommitBulk(w) ==
  /\ pc[w] = "loop"
  /\ todo[w] = {}
  /\ status' = [r \in Requests |->
                  IF r \in locked[w] THEN "PUBLISHED" ELSE status[r]]
  /\ Release(w)
  /\ UNCHANGED <<rq, createdAt, kafkaVars, faults, disturbed>>

BatchCommit(w) ==
  /\ pc[w] = "loop"
  /\ todo[w] = {}
  /\ status' = [r \in Requests |->
                  IF mark[w][r] # "none" THEN mark[w][r] ELSE status[r]]
  /\ Release(w)
  /\ UNCHANGED <<rq, createdAt, kafkaVars, faults, disturbed>>

\* The update of a published row failed, COMMIT failed, or the worker died,
\* possibly inside Publish: everything but the sent messages is rolled back.
BatchAbort(w) ==
  /\ pc[w] # "tick"
  /\ faults < MaxFaults
  /\ faults' = faults + 1
  /\ \/ UNCHANGED wire
     \/ \E r \in todo[w], n \in 1..MaxLate :
          pc[w] = "loop" /\ Oldest(r, todo[w]) /\ wire' = [wire EXCEPT ![r] = @ + n]
  /\ Release(w)
  /\ UNCHANGED <<rq, dbVars, topic, disturbed>>

---------------------------------------------------------------------------
(* The broker appends a copy left in flight, at any time or never.         *)
BrokerAppend(r) ==
  /\ wire[r] > 0
  /\ wire' = [wire EXCEPT ![r] = @ - 1]
  /\ topic' = [topic EXCEPT ![CartOf[r]] = Append(@, r)]
  /\ UNCHANGED <<rq, dbVars, workerVars, faults, disturbed>>

Checkout(q) ==
  CheckoutStamp(q) \/ CheckoutInsert(q) \/ CheckoutCommit(q) \/ CheckoutFail(q)

PublishStep(w) ==
  \/ BatchSelect(w) \/ MarkPublished(w) \/ BatchCommit(w)
  \/ \E r \in Requests : PublishOk(w, r) \/ PublishErr(w, r)

Next ==
  \/ \E q \in Requests : Checkout(q) \/ BrokerAppend(q)
  \/ \E w \in Workers : PublishStep(w) \/ BatchAbort(w)

Spec == Init /\ [][Next]_vars

\* A started transaction goes on, and the 500 ms ticker of a worker keeps
\* firing.  Faults (a lock wait timeout among them), late appends and new
\* requests are never forced.
Fairness ==
  /\ \A q \in Requests : WF_vars(CheckoutInsert(q) \/ CheckoutCommit(q))
  /\ \A w \in Workers : WF_vars(PublishStep(w))

FairSpec == Spec /\ Fairness

---------------------------------------------------------------------------
(* Properties.                                                             *)

\* A row marked PUBLISHED has been appended to the topic: no event is lost by
\* marking it before, or without, a successful Publish (publisher.go:50-58).
PublishedWasSent == \A r \in Requests : status[r] = "PUBLISHED" => Sent(r)

\* However the batches of several workers interleave, no two of them have the
\* same row in hand, and a row in hand is still NEW: a worker never publishes
\* a row that another one has already settled (publisher.go:40-45).
OnlyNewRowsInHand ==
  \A w \in Workers :
    LET hand == todo[w] \cup ({cur[w]} \ {None}) IN
      /\ \A r \in hand : status[r] = "NEW"
      /\ \A v \in Workers \ {w} : hand \cap locked[v] = {}

\* Only committed events leave the service: a message in the topic or in
\* flight belongs to a checkout that was not rolled back.
OnlyCommittedIsSent ==
  \A r \in Requests : Sent(r) \/ wire[r] > 0 => status[r] # "none"

\* Duplicates are bounded by failures: with no rolled back batch a row is
\* published by one Publish call only.
Copies(r) == Cardinality({i \in DOMAIN topic[CartOf[r]] : topic[CartOf[r]][i] = r})
BoundedDuplicates ==
  \A r \in Requests : Copies(r) + wire[r] <= (faults + 1) * (MaxLate + 1)

\* The first copies of two events of a cart are in created_at order, across
\* batches, workers, rollbacks and late copies - unless the earlier one failed
\* to publish or became visible when the later one was already in hand.
InStampOrder ==
  \A a, b \in Requests :
    LET log == topic[CartOf[a]] IN
    /\ CartOf[a] = CartOf[b] /\ createdAt[a] < createdAt[b]
    /\ status[a] # "none" /\ a \notin disturbed
    => \A j \in DOMAIN log : log[j] = b => \E i \in 1..(j - 1) : log[i] = a

\* PUBLISHED and FAILED are final, and no row disappears.
StatusIsMonotone ==
  [][\A r \in Requests :
       /\ status[r] \in Settled => status'[r] = status[r]
       /\ status[r] = "NEW" => status'[r] # "none"]_vars

\* The workers implement the abstract outbox: whatever their batches, locks,
\* faults and late copies do, rows are settled once and truthfully, and events
\* are sent in the order of the visible rows (publisher.go:37-62).
VisibleStamp(q) == IF status[q] = "none" THEN 0 ELSE createdAt[q]

Delivery == INSTANCE OutboxDelivery
              WITH row <- status, stamp <- [q \in Requests |-> VisibleStamp(q)],
                   excused <- disturbed
ImplementsDelivery == Delivery!Spec

\* A 200 reply means that the event is stored and that the workers will settle
\* it, whatever finite number of their batches is rolled back.
CheckedOutIsSettled ==
  \A q \in Requests : rq[q] = "ok" ~> status[q] \in Settled

\* A checkout is answered although its INSERT waits for the batches of the
\* workers, and does not need the lock wait timeout for that.
CheckoutAnswered ==
  \A q \in Requests : rq[q] = "stamped" ~> rq[q] \in {"ok", "error"}

=============================================================================
