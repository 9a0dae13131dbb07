------------------------- MODULE CartOutboxProofs -------------------------
(***************************************************************************)
(* Proofs about CartOutbox, for any number of requests, carts and workers, *)
(* any LIMIT, both isolation levels and any number of faults: what each    *)
(* batch holds, how many copies of an event there are, in which order they *)
(* are sent, and that checkout and workers implement OutboxDelivery.       *)
(***************************************************************************)
EXTENDS CartOutbox, FiniteSetTheorems, TLAPS

---------------------------------------------------------------------------
(* The inductive invariant: what each transaction holds, and why.          *)

\* A worker between batches holds nothing; in a batch, what it works on is
\* among the rows it has locked.
WorkInsideLocks ==
  \A w \in Workers :
    /\ pc[w] = "tick" => locked[w] = {} /\ todo[w] = {}
    /\ todo[w] \subseteq locked[w]
    /\ pc[w] = "mark" <=> cur[w] # None
    /\ cur[w] # None => cur[w] \in locked[w]
    /\ \A r \in Requests : mark[w][r] # "none" => r \in locked[w]

\* Locked rows are NEW, and locked by one worker.
LocksAreExclusive ==
  /\ \A w \in Workers : \A r \in locked[w] : status[r] = "NEW"
  /\ \A v, w \in Workers : v # w => locked[v] \cap locked[w] = {}

\* A row exists only once its checkout has reached COMMIT.
RowsAreCommitted ==
  \A q \in Requests : rq[q] \in {"idle", "stamped", "inserted"} => status[q] = "none"

\* What is marked, about to be marked, or committed as PUBLISHED was sent.
MarksAreTrue ==
  \A w \in Workers :
    /\ cur[w] # None => Sent(cur[w])
    /\ \A r \in Requests : mark[w][r] = "PUBLISHED" => Sent(r)

IInv ==
  /\ TypeOK
  /\ WorkInsideLocks
  /\ LocksAreExclusive
  /\ RowsAreCommitted
  /\ MarksAreTrue
  /\ PublishedWasSent
  /\ OnlyCommittedIsSent

---------------------------------------------------------------------------
(* Lemmas about the log of a cart.                                         *)

\* Appending q sends q, keeps every sent row sent, and sends no other row.
LEMMA AppendSends ==
  ASSUME TypeOK, NEW q \in Requests,
         topic' = [topic EXCEPT ![CartOf[q]] = Append(@, q)]
  PROVE  /\ topic' \in [Carts -> Seq(Requests)]
         /\ Sent(q)'
         /\ \A r \in Requests : Sent(r) => Sent(r)'
         /\ \A r \in Requests : Sent(r)' => Sent(r) \/ r = q
<1> DEFINE c == CartOf[q]
           log == topic[c]
<1>1. c \in Carts /\ log \in Seq(Requests)
  BY CartOutboxAssumption DEF TypeOK
<1>2. topic'[c] = Append(log, q)
  BY <1>1 DEF TypeOK
<1>3. \A d \in Carts : d # c => topic'[d] = topic[d]
  BY <1>1 DEF TypeOK
<1>4. /\ DOMAIN Append(log, q) = 1..(Len(log) + 1)
      /\ DOMAIN log = 1..Len(log) /\ Len(log) \in Nat
      /\ Append(log, q)[Len(log) + 1] = q
      /\ \A i \in 1..Len(log) : Append(log, q)[i] = log[i]
  BY <1>1
<1>5. Sent(q)'
  BY <1>2, <1>4 DEF Sent
<1>6. ASSUME NEW r \in Requests
      PROVE  (Sent(r) => Sent(r)') /\ (Sent(r)' => Sent(r) \/ r = q)
  <2>1. CASE CartOf[r] = c
    <3> HIDE DEF c, log
    <3>1. Sent(r) => Sent(r)'
      BY <1>2, <1>4, <2>1 DEF Sent, log
    <3>2. ASSUME NEW i \in DOMAIN topic'[c], topic'[c][i] = r, r # q
          PROVE  i \in DOMAIN log /\ log[i] = r
      BY <1>2, <1>4, <3>2
    <3>3. Sent(r)' => Sent(r) \/ r = q
      BY <2>1, <3>2 DEF Sent, log
    <3> QED
      BY <3>1, <3>3
  <2>2. CASE CartOf[r] # c
    <3>1. CartOf[r] \in Carts
      BY CartOutboxAssumption
    <3> QED
      BY <1>3, <2>2, <3>1 DEF Sent
  <2> QED
    BY <2>1, <2>2
<1>7. topic' \in [Carts -> Seq(Requests)]
  <2>1. Append(log, q) \in Seq(Requests)
    BY <1>1
  <2>2. topic' = [topic EXCEPT ![c] = Append(log, q)]
    OBVIOUS
  <2> HIDE DEF log, c
  <2> QED
    BY <1>1, <2>1, <2>2 DEF TypeOK
<1> QED
  BY <1>5, <1>6, <1>7

\* A step that leaves the topic alone sends nothing.
LEMMA SameTopicSameSent ==
  ASSUME UNCHANGED topic
  PROVE  \A r \in Requests : Sent(r)' <=> Sent(r)
BY DEF Sent

---------------------------------------------------------------------------
(* The invariant holds initially and every action preserves it.            *)

LEMMA InitInv == Init => IInv
<1> SUFFICES ASSUME Init PROVE IInv
  OBVIOUS
<1> USE CartOutboxAssumption DEF Init, NoMarks
<1>1. TypeOK
  BY DEF TypeOK, Phases, Settled
<1>2. WorkInsideLocks
  BY DEF WorkInsideLocks
<1>3. LocksAreExclusive
  BY DEF LocksAreExclusive
<1>4. RowsAreCommitted
  BY DEF RowsAreCommitted
<1>5. \A r \in Requests : ~Sent(r)
  BY DEF Sent
<1>6. MarksAreTrue
  BY DEF MarksAreTrue
<1>7. PublishedWasSent /\ OnlyCommittedIsSent
  BY <1>5 DEF PublishedWasSent, OnlyCommittedIsSent
<1> QED
  BY <1>1, <1>2, <1>3, <1>4, <1>6, <1>7 DEF IInv

LEMMA CheckoutPreserves ==
  ASSUME IInv, NEW q \in Requests, Checkout(q)
  PROVE  IInv'
<1> USE DEF IInv
<1>1. UNCHANGED <<workerVars, kafkaVars, faults>>
  BY DEF Checkout, CheckoutStamp, CheckoutInsert, CheckoutCommit, CheckoutFail,
         Commit, dbVars
<1>2. /\ \/ status' = status
         \/ rq[q] = "inserted" /\ status' = [status EXCEPT ![q] = "NEW"]
      /\ \E p \in Phases : /\ rq' = [rq EXCEPT ![q] = p]
                           /\ status' # status => p \in {"ok", "error"}
      /\ rq[q] \in {"idle", "stamped", "inserted"}
  BY DEF Checkout, CheckoutStamp, CheckoutInsert, CheckoutCommit, CheckoutFail,
         Commit, dbVars, Phases
<1>3. \A r \in Requests : Sent(r)' <=> Sent(r)
  BY <1>1, SameTopicSameSent DEF kafkaVars
<1>4. TypeOK'
  <2>1. createdAt' \in [Requests -> Stamps \cup {0}] /\ disturbed' \subseteq Requests
    BY DEF TypeOK, Checkout, CheckoutStamp, CheckoutInsert, CheckoutCommit,
           CheckoutFail, Commit, dbVars
  <2>2. rq' \in [Requests -> Phases] /\ status' \in [Requests -> Settled \cup {"none", "NEW"}]
    BY <1>2 DEF TypeOK
  <2> QED
    BY <1>1, <2>1, <2>2 DEF TypeOK, workerVars, kafkaVars
<1>5. \A r \in Requests : status[r] # "none" => status'[r] = status[r]
  BY <1>2 DEF TypeOK, RowsAreCommitted
<1>6. WorkInsideLocks'
  BY <1>1 DEF WorkInsideLocks, workerVars
<1>7. LocksAreExclusive'
  BY <1>1, <1>5 DEF LocksAreExclusive, workerVars, TypeOK
<1>8. RowsAreCommitted'
  BY <1>2 DEF RowsAreCommitted, TypeOK
<1>9. MarksAreTrue'
  BY <1>1, <1>3 DEF MarksAreTrue, workerVars, TypeOK
<1>10. PublishedWasSent'
  BY <1>2, <1>3 DEF PublishedWasSent, TypeOK
<1>11. OnlyCommittedIsSent'
  BY <1>1, <1>3, <1>5 DEF OnlyCommittedIsSent, kafkaVars
<1> QED
  BY <1>4, <1>6, <1>7, <1>8, <1>9, <1>10, <1>11

LEMMA BrokerAppendPreserves ==
  ASSUME IInv, NEW q \in Requests, BrokerAppend(q)
  PROVE  IInv'
<1> USE DEF IInv
<1>1. /\ UNCHANGED <<rq, dbVars, workerVars, faults, disturbed>>
      /\ wire[q] > 0 /\ wire' = [wire EXCEPT ![q] = @ - 1]
      /\ topic' = [topic EXCEPT ![CartOf[q]] = Append(@, q)]
  BY DEF BrokerAppend
<1>2. /\ topic' \in [Carts -> Seq(Requests)]
      /\ \A r \in Requests : Sent(r) => Sent(r)'
      /\ \A r \in Requests : Sent(r)' => Sent(r) \/ r = q
  BY <1>1, AppendSends
<1>3. TypeOK'
  <2>1. wire' \in [Requests -> Nat]
    BY <1>1 DEF TypeOK
  <2> QED
    BY <1>1, <1>2, <2>1 DEF TypeOK, dbVars, workerVars
<1>4. WorkInsideLocks' /\ LocksAreExclusive' /\ RowsAreCommitted'
  BY <1>1 DEF WorkInsideLocks, LocksAreExclusive, RowsAreCommitted, dbVars, workerVars
<1>5. MarksAreTrue' /\ PublishedWasSent'
  BY <1>1, <1>2 DEF MarksAreTrue, PublishedWasSent, dbVars, workerVars, TypeOK
<1>6. OnlyCommittedIsSent'
  BY <1>1, <1>2 DEF OnlyCommittedIsSent, dbVars, TypeOK
<1> QED
  BY <1>3, <1>4, <1>5, <1>6

LEMMA BatchSelectPreserves ==
  ASSUME IInv, NEW w \in Workers, BatchSelect(w)
  PROVE  IInv'
<1> USE DEF IInv
<1>1. /\ UNCHANGED <<rq, dbVars, cur, mark, kafkaVars, faults, disturbed>>
      /\ pc[w] = "tick" /\ pc' = [pc EXCEPT ![w] = "loop"]
      /\ LockedByOthers(w) = {}
      /\ locked' = [locked EXCEPT ![w] = NewRows]
  BY DEF BatchSelect, ScanFree
<1>2. PICK B \in SUBSET NewRows : todo' = [todo EXCEPT ![w] = B]
  BY DEF BatchSelect
<1>3. NewRows \subseteq Requests /\ \A r \in NewRows : status[r] = "NEW"
  BY DEF NewRows
<1>4. \A r \in Requests : Sent(r)' <=> Sent(r)
  BY <1>1, SameTopicSameSent DEF kafkaVars
<1>5. TypeOK'
  BY <1>1, <1>2, <1>3 DEF TypeOK, dbVars, kafkaVars
<1>6. WorkInsideLocks'
  BY <1>1, <1>2, <1>3 DEF WorkInsideLocks, TypeOK
<1>7. \A v \in Workers : v # w => locked[v] = {}
  BY <1>1 DEF LockedByOthers
<1>8. LocksAreExclusive'
  BY <1>1, <1>3, <1>7 DEF LocksAreExclusive, TypeOK, dbVars
<1>9. RowsAreCommitted' /\ MarksAreTrue' /\ PublishedWasSent' /\ OnlyCommittedIsSent'
  BY <1>1, <1>4 DEF RowsAreCommitted, MarksAreTrue, PublishedWasSent,
                    OnlyCommittedIsSent, dbVars, kafkaVars, TypeOK
<1> QED
  BY <1>5, <1>6, <1>8, <1>9

LEMMA PublishOkPreserves ==
  ASSUME IInv, NEW w \in Workers, NEW r \in Requests, PublishOk(w, r)
  PROVE  IInv'
<1> USE DEF IInv
<1>1. /\ UNCHANGED <<rq, dbVars, locked, mark, faults, disturbed>>
      /\ pc[w] = "loop" /\ r \in todo[w]
      /\ topic' = [topic EXCEPT ![CartOf[r]] = Append(@, r)]
      /\ todo' = [todo EXCEPT ![w] = @ \ {r}]
      /\ cur' = [cur EXCEPT ![w] = r]
      /\ pc' = [pc EXCEPT ![w] = "mark"]
  BY DEF PublishOk, Oldest
<1>2. PICK n \in 0..MaxLate : wire' = [wire EXCEPT ![r] = @ + n]
  BY DEF PublishOk
<1>3. /\ topic' \in [Carts -> Seq(Requests)]
      /\ Sent(r)'
      /\ \A s \in Requests : Sent(s) => Sent(s)'
      /\ \A s \in Requests : Sent(s)' => Sent(s) \/ s = r
  BY <1>1, AppendSends
<1>4. r \in locked[w] /\ status[r] = "NEW"
  BY <1>1 DEF WorkInsideLocks, LocksAreExclusive
<1>5. TypeOK'
  <2>1. wire' \in [Requests -> Nat]
    BY <1>2, CartOutboxAssumption DEF TypeOK
  <2> QED
    BY <1>1, <1>3, <2>1 DEF TypeOK, dbVars
<1>6. WorkInsideLocks'
  BY <1>1, <1>4, CartOutboxAssumption DEF WorkInsideLocks, TypeOK
<1>7. LocksAreExclusive' /\ RowsAreCommitted'
  BY <1>1 DEF LocksAreExclusive, RowsAreCommitted, dbVars
<1>8. MarksAreTrue'
  BY <1>1, <1>3 DEF MarksAreTrue, TypeOK
<1>9. PublishedWasSent'
  BY <1>1, <1>3 DEF PublishedWasSent, dbVars
<1>10. OnlyCommittedIsSent'
  BY <1>1, <1>2, <1>3, <1>4 DEF OnlyCommittedIsSent, dbVars, TypeOK
<1> QED
  BY <1>5, <1>6, <1>7, <1>8, <1>9, <1>10

LEMMA PublishErrPreserves ==
  ASSUME IInv, NEW w \in Workers, NEW r \in Requests, PublishErr(w, r)
  PROVE  IInv'
<1> USE DEF IInv
<1>1. /\ UNCHANGED <<rq, dbVars, pc, locked, cur, topic>>
      /\ pc[w] = "loop" /\ r \in todo[w]
      /\ todo' = [todo EXCEPT ![w] = @ \ {r}]
      /\ \/ mark' = [mark EXCEPT ![w][r] = "FAILED"] /\ UNCHANGED faults
         \/ faults < MaxFaults /\ faults' = faults + 1 /\ UNCHANGED mark
      /\ disturbed' = disturbed \cup {r}
  BY DEF PublishErr, Oldest
<1>2. PICK n \in 0..MaxLate : wire' = [wire EXCEPT ![r] = @ + n]
  BY DEF PublishErr
<1>3. \A s \in Requests : Sent(s)' <=> Sent(s)
  BY <1>1, SameTopicSameSent
<1>4. r \in locked[w] /\ status[r] = "NEW"
  BY <1>1 DEF WorkInsideLocks, LocksAreExclusive
<1>5. TypeOK'
  <2>1. wire' \in [Requests -> Nat]
    BY <1>2, CartOutboxAssumption DEF TypeOK
  <2>2. mark' \in [Workers -> [Requests -> Settled \cup {"none"}]]
    <3>1. [mark[w] EXCEPT ![r] = "FAILED"] \in [Requests -> Settled \cup {"none"}]
      BY DEF TypeOK, Settled
    <3>2. CASE mark' = [mark EXCEPT ![w][r] = "FAILED"]
      BY <3>1, <3>2 DEF TypeOK
    <3>3. CASE UNCHANGED mark
      BY <3>3 DEF TypeOK
    <3> QED
      BY <1>1, <3>2, <3>3
  <2>3. faults' \in 0..MaxFaults
    BY <1>1, CartOutboxAssumption DEF TypeOK
  <2> QED
    BY <1>1, <2>1, <2>2, <2>3 DEF TypeOK, dbVars
<1>6. \A v \in Workers, s \in Requests :
        mark'[v][s] = mark[v][s] \/ (v = w /\ s = r /\ mark'[v][s] = "FAILED")
  BY <1>1 DEF TypeOK
<1>7. WorkInsideLocks'
  BY <1>1, <1>4, <1>6 DEF WorkInsideLocks, TypeOK
<1>8. LocksAreExclusive' /\ RowsAreCommitted'
  BY <1>1 DEF LocksAreExclusive, RowsAreCommitted, dbVars
<1>9. MarksAreTrue'
  BY <1>1, <1>3, <1>6 DEF MarksAreTrue, TypeOK
<1>10. PublishedWasSent'
  BY <1>1, <1>3 DEF PublishedWasSent, dbVars
<1>11. OnlyCommittedIsSent'
  BY <1>1, <1>2, <1>3, <1>4 DEF OnlyCommittedIsSent, dbVars, TypeOK
<1> QED
  BY <1>5, <1>7, <1>8, <1>9, <1>10, <1>11

LEMMA MarkPublishedPreserves ==
  ASSUME IInv, NEW w \in Workers, MarkPublished(w)
  PROVE  IInv'
<1> USE DEF IInv
<1>1. /\ UNCHANGED <<rq, dbVars, locked, todo, kafkaVars, faults, disturbed>>
      /\ pc[w] = "mark"
      /\ mark' = [mark EXCEPT ![w][cur[w]] = "PUBLISHED"]
      /\ cur' = [cur EXCEPT ![w] = None]
      /\ pc' = [pc EXCEPT ![w] = "loop"]
  BY DEF MarkPublished
<1>2. cur[w] \in Requests /\ cur[w] \in locked[w] /\ Sent(cur[w])
  BY <1>1 DEF WorkInsideLocks, MarksAreTrue, TypeOK
<1>3. \A s \in Requests : Sent(s)' <=> Sent(s)
  BY <1>1, SameTopicSameSent DEF kafkaVars
<1>4. TypeOK'
  <2>1. mark' \in [Workers -> [Requests -> Settled \cup {"none"}]]
    BY <1>1, <1>2 DEF TypeOK, Settled
  <2> QED
    BY <1>1, <2>1 DEF TypeOK, dbVars, kafkaVars
<1>5. \A v \in Workers, s \in Requests :
        mark'[v][s] = mark[v][s] \/ (v = w /\ s = cur[w])
  BY <1>1, <1>2 DEF TypeOK
<1>6. WorkInsideLocks'
  BY <1>1, <1>2, <1>5 DEF WorkInsideLocks, TypeOK
<1>7. LocksAreExclusive' /\ RowsAreCommitted'
  BY <1>1 DEF LocksAreExclusive, RowsAreCommitted, dbVars
<1>8. MarksAreTrue'
  BY <1>1, <1>2, <1>3, <1>5 DEF MarksAreTrue, TypeOK
<1>9. PublishedWasSent' /\ OnlyCommittedIsSent'
  BY <1>1, <1>3 DEF PublishedWasSent, OnlyCommittedIsSent, dbVars, kafkaVars
<1> QED
  BY <1>4, <1>6, <1>7, <1>8, <1>9

\* The end of a transaction keeps what concerns the workers' own state.
LEMMA ReleaseKeepsLocks ==
  ASSUME TypeOK, WorkInsideLocks, NEW w \in Workers, Release(w)
  PROVE  /\ WorkInsideLocks'
         /\ \A v \in Workers \ {w} : locked'[v] = locked[v]
         /\ locked'[w] = {}
         /\ \A v \in Workers, r \in Requests : mark'[v][r] # "none" => mark'[v][r] = mark[v][r]
         /\ \A v \in Workers : cur'[v] # None => cur'[v] = cur[v]
<1>1. WorkInsideLocks'
  BY DEF Release, WorkInsideLocks, TypeOK, NoMarks
<1> QED
  BY <1>1 DEF Release, TypeOK, NoMarks

LEMMA BatchCommitPreserves ==
  ASSUME IInv, NEW w \in Workers, BatchCommit(w)
  PROVE  IInv'
<1> USE DEF IInv
<1>1. /\ UNCHANGED <<rq, createdAt, kafkaVars, faults, disturbed>>
      /\ status' = [r \in Requests |->
                      IF mark[w][r] # "none" THEN mark[w][r] ELSE status[r]]
      /\ Release(w)
  BY DEF BatchCommit
<1>2. \A s \in Requests : Sent(s)' <=> Sent(s)
  BY <1>1, SameTopicSameSent DEF kafkaVars
<1>3. TypeOK'
  <2>1. status' \in [Requests -> Settled \cup {"none", "NEW"}]
    BY <1>1 DEF TypeOK
  <2> QED
    BY <1>1, <2>1 DEF TypeOK, Release, NoMarks, kafkaVars
<1>4. \A r \in Requests : status'[r] # status[r] => status[r] = "NEW" /\ r \in locked[w]
  BY <1>1 DEF WorkInsideLocks, LocksAreExclusive
<1>5. \A r \in Requests : status'[r] = "none" <=> status[r] = "none"
  BY <1>1, <1>4 DEF TypeOK
<1>6. WorkInsideLocks'
  BY <1>1, ReleaseKeepsLocks
<1>7. LocksAreExclusive'
  <2>1. \A v \in Workers : locked'[v] \subseteq locked[v]
    BY <1>1, ReleaseKeepsLocks
  <2>2. ASSUME NEW v \in Workers, NEW r \in locked'[v]
        PROVE  status'[r] = "NEW"
    <3>1. v # w /\ r \in locked[v] /\ r \in Requests
      BY <1>1, <2>1, <2>2, ReleaseKeepsLocks DEF TypeOK
    <3>2. r \notin locked[w] /\ status[r] = "NEW"
      BY <3>1 DEF LocksAreExclusive
    <3> QED
      BY <1>4, <3>1, <3>2
  <2> QED
    BY <2>1, <2>2 DEF LocksAreExclusive
<1>8. RowsAreCommitted'
  BY <1>1, <1>5 DEF RowsAreCommitted
<1>9. MarksAreTrue'
  BY <1>1, <1>2, <1>3, ReleaseKeepsLocks DEF MarksAreTrue, TypeOK
<1>10. PublishedWasSent'
  BY <1>1, <1>2 DEF PublishedWasSent, MarksAreTrue
<1>11. OnlyCommittedIsSent'
  BY <1>1, <1>2, <1>5 DEF OnlyCommittedIsSent, kafkaVars
<1> QED
  BY <1>3, <1>6, <1>7, <1>8, <1>9, <1>10, <1>11

LEMMA BatchAbortPreserves ==
  ASSUME IInv, NEW w \in Workers, BatchAbort(w)
  PROVE  IInv'
<1> USE DEF IInv
<1>1. /\ UNCHANGED <<rq, dbVars, topic, disturbed>>
      /\ faults < MaxFaults /\ faults' = faults + 1
      /\ Release(w)
  BY DEF BatchAbort
<1>2. \A s \in Requests : Sent(s)' <=> Sent(s)
  BY <1>1, SameTopicSameSent
<1>3. /\ wire' \in [Requests -> Nat]
      /\ \A r \in Requests : wire'[r] > 0 => wire[r] > 0 \/ status[r] = "NEW"
  <2>1. CASE UNCHANGED wire
    BY <2>1 DEF TypeOK
  <2>2. ASSUME NEW r \in todo[w], NEW n \in 1..MaxLate,
               wire' = [wire EXCEPT ![r] = @ + n]
        PROVE  <1>3!1 /\ <1>3!2
    <3>1. r \in Requests /\ status[r] = "NEW"
      BY DEF WorkInsideLocks, LocksAreExclusive, TypeOK
    <3> QED
      BY <2>2, <3>1, CartOutboxAssumption DEF TypeOK
  <2> QED
    BY <2>1, <2>2 DEF BatchAbort
<1>4. TypeOK'
  BY <1>1, <1>3, CartOutboxAssumption DEF TypeOK, Release, NoMarks, dbVars
<1>5. WorkInsideLocks'
  BY <1>1, ReleaseKeepsLocks
<1>6. LocksAreExclusive'
  <2>1. \A v \in Workers : locked'[v] \subseteq locked[v]
    BY <1>1, ReleaseKeepsLocks
  <2> QED
    BY <1>1, <2>1 DEF LocksAreExclusive, dbVars
<1>7. RowsAreCommitted' /\ PublishedWasSent'
  BY <1>1, <1>2 DEF RowsAreCommitted, PublishedWasSent, dbVars
<1>8. MarksAreTrue'
  BY <1>1, <1>2, <1>4, ReleaseKeepsLocks DEF MarksAreTrue, TypeOK
<1>9. OnlyCommittedIsSent'
  BY <1>1, <1>2, <1>3 DEF OnlyCommittedIsSent, dbVars
<1> QED
  BY <1>4, <1>5, <1>6, <1>7, <1>8, <1>9

LEMMA NextPreserves == IInv /\ [Next]_vars => IInv'
<1> SUFFICES ASSUME IInv, [Next]_vars PROVE IInv'
  OBVIOUS
<1>1. CASE UNCHANGED vars
  BY <1>1, SameTopicSameSent
     DEF IInv, vars, dbVars, workerVars, kafkaVars, TypeOK, WorkInsideLocks,
         LocksAreExclusive, RowsAreCommitted, MarksAreTrue, PublishedWasSent,
         OnlyCommittedIsSent, Sent
<1>2. ASSUME NEW q \in Requests, Checkout(q) \/ BrokerAppend(q) PROVE IInv'
  BY <1>2, CheckoutPreserves, BrokerAppendPreserves
<1>3. ASSUME NEW w \in Workers, PublishStep(w) \/ BatchAbort(w) PROVE IInv'
  BY <1>3, BatchSelectPreserves, PublishOkPreserves, PublishErrPreserves,
     MarkPublishedPreserves, BatchCommitPreserves, BatchAbortPreserves DEF PublishStep
<1> QED
  BY <1>1, <1>2, <1>3 DEF Next

LEMMA Invariance == Spec => []IInv
<1> QED
  BY InitInv, NextPreserves, PTL DEF Spec

---------------------------------------------------------------------------
(* How many copies of an event reach the topic.                            *)

\* The rows of a batch that wait for their turn have not been tried.
TodoIsAhead ==
  \A w \in Workers : /\ cur[w] \notin todo[w]
                     /\ \A r \in todo[w] : mark[w][r] = "none"

\* A row is handled from the end of its Publish for good, unless the batch is
\* rolled back, which is a fault.
Handled(r) ==
  \/ status[r] \in Settled
  \/ \E w \in Workers : cur[w] = r \/ mark[w][r] # "none"

\* Every fault, and the handling of a row, pays for one Publish of it, which
\* leaves one copy on the topic or the wire and MaxLate more at most.
CopiesAreCounted ==
  \A r \in Requests :
    Copies(r) + wire[r] <= (faults + IF Handled(r) THEN 1 ELSE 0) * (MaxLate + 1)

\* The copies of a row in its log can be counted.
LEMMA CopiesType ==
  ASSUME TypeOK, NEW r \in Requests
  PROVE  /\ IsFiniteSet({i \in DOMAIN topic[CartOf[r]] : topic[CartOf[r]][i] = r})
         /\ Copies(r) \in Nat
<1> DEFINE log == topic[CartOf[r]]
           at == {i \in DOMAIN log : log[i] = r}
<1>1. log \in Seq(Requests)
  BY CartOutboxAssumption DEF TypeOK
<1>2. DOMAIN log = 1..Len(log) /\ Len(log) \in Int
  BY <1>1
<1>3. IsFiniteSet(DOMAIN log)
  BY <1>2, FS_Interval
<1>4. at \in SUBSET DOMAIN log
  OBVIOUS
<1>5. IsFiniteSet(at)
  BY <1>3, <1>4, FS_Subset
<1> QED
  BY <1>5, FS_CardinalityType DEF Copies

\* Appending q adds a copy of q and none of any other row.
LEMMA AppendCounts ==
  ASSUME TypeOK, NEW q \in Requests,
         topic' = [topic EXCEPT ![CartOf[q]] = Append(@, q)]
  PROVE  \A r \in Requests : Copies(r)' = Copies(r) + IF r = q THEN 1 ELSE 0
<1> SUFFICES ASSUME NEW r \in Requests
             PROVE  Copies(r)' = Copies(r) + IF r = q THEN 1 ELSE 0
  OBVIOUS
<1> DEFINE c == CartOf[r]
           log == topic[c]
           at == {i \in DOMAIN log : log[i] = r}
           new == {i \in DOMAIN topic'[c] : topic'[c][i] = r}
<1>1. /\ c \in Carts /\ CartOf[q] \in Carts /\ log \in Seq(Requests)
      /\ IsFiniteSet(at) /\ Cardinality(at) \in Nat
  BY CartOutboxAssumption, CopiesType, FS_CardinalityType DEF TypeOK
<1>2. Copies(r) = Cardinality(at) /\ Copies(r)' = Cardinality(new)
  BY DEF Copies
<1>3. topic'[c] = IF c = CartOf[q] THEN Append(log, q) ELSE log
  BY <1>1 DEF TypeOK
<1>4. DOMAIN log = 1..Len(log) /\ Len(log) \in Nat
  BY <1>1
<1>5. CASE r = q
  <2>1. topic'[c] = Append(log, q)
    BY <1>3, <1>5
  <2>2. new = at \cup {Len(log) + 1} /\ Len(log) + 1 \notin at
    BY <1>1, <1>4, <1>5, <2>1
  <2>3. Cardinality(new) = Cardinality(at) + 1
    BY <1>1, <2>2, FS_AddElement
  <2> QED
    BY <1>2, <1>5, <2>3
<1>6. CASE r # q
  <2>1. new = at
    BY <1>1, <1>3, <1>4, <1>6
  <2>2. Copies(r)' = Copies(r) /\ Copies(r) \in Nat
    BY <1>1, <1>2, <2>1
  <2> QED
    BY <1>6, <2>2
<1> QED
  BY <1>5, <1>6

\* A row that waits in a batch has not been handled by any worker.
LEMMA TodoIsUnhandled ==
  ASSUME IInv, TodoIsAhead, NEW w \in Workers, NEW r \in todo[w]
  PROVE  r \in Requests /\ status[r] = "NEW" /\ ~Handled(r)
<1>1. r \in Requests /\ r \in locked[w] /\ status[r] = "NEW"
  BY DEF IInv, TypeOK, WorkInsideLocks, LocksAreExclusive
<1>2. \A v \in Workers : cur[v] # r /\ mark[v][r] = "none"
  <2>1. \A v \in Workers \ {w} : r \notin locked[v]
    BY <1>1 DEF IInv, LocksAreExclusive
  <2>2. \A v \in Workers : cur[v] = r => r \in locked[v]
    BY CartOutboxAssumption, <1>1 DEF IInv, WorkInsideLocks
  <2>3. \A v \in Workers : mark[v][r] # "none" => r \in locked[v]
    BY <1>1 DEF IInv, WorkInsideLocks
  <2> QED
    BY <2>1, <2>2, <2>3 DEF TodoIsAhead
<1> QED
  BY <1>1, <1>2 DEF Handled, Settled

\* The rows of a batch are taken out one by one.
LEMMA TodoIsAheadStep ==
  ASSUME IInv, TodoIsAhead, Next
  PROVE  TodoIsAhead'
<1> USE DEF IInv
<1>1. ASSUME NEW q \in Requests, Checkout(q) \/ BrokerAppend(q)
      PROVE  UNCHANGED workerVars
  BY <1>1 DEF Checkout, CheckoutStamp, CheckoutInsert, CheckoutCommit, CheckoutFail,
              Commit, BrokerAppend
<1>2. CASE UNCHANGED workerVars
  BY <1>2 DEF TodoIsAhead, workerVars
<1>3. ASSUME NEW w \in Workers, BatchSelect(w) PROVE TodoIsAhead'
  <2>1. /\ pc[w] = "tick" /\ UNCHANGED <<cur, mark>>
        /\ \A v \in Workers \ {w} : todo'[v] = todo[v]
        /\ todo'[w] \subseteq Requests
    BY <1>3 DEF BatchSelect, TypeOK, NewRows
  <2>2. cur[w] = None /\ \A r \in Requests : mark[w][r] = "none"
    BY <2>1 DEF WorkInsideLocks, TypeOK
  <2> QED
    BY <2>1, <2>2, CartOutboxAssumption DEF TodoIsAhead
<1>4. ASSUME NEW w \in Workers, NEW r \in Requests, PublishOk(w, r) PROVE TodoIsAhead'
  BY <1>4 DEF PublishOk, TodoIsAhead, TypeOK
<1>5. ASSUME NEW w \in Workers, NEW r \in Requests, PublishErr(w, r) PROVE TodoIsAhead'
  <2>1. /\ todo' = [todo EXCEPT ![w] = @ \ {r}] /\ UNCHANGED cur
        /\ \/ mark' = [mark EXCEPT ![w][r] = "FAILED"]
           \/ UNCHANGED mark
    BY <1>5 DEF PublishErr
  <2>2. \A v \in Workers, s \in Requests :
          mark'[v][s] = mark[v][s] \/ (v = w /\ s = r)
    BY <2>1 DEF TypeOK
  <2> QED
    BY <2>1, <2>2 DEF TodoIsAhead, TypeOK
<1>6. ASSUME NEW w \in Workers, MarkPublished(w) PROVE TodoIsAhead'
  <2>1. /\ UNCHANGED todo /\ cur' = [cur EXCEPT ![w] = None]
        /\ mark' = [mark EXCEPT ![w][cur[w]] = "PUBLISHED"]
        /\ cur[w] \notin todo[w]
    BY <1>6 DEF MarkPublished, TodoIsAhead
  <2>2. \A v \in Workers, s \in Requests :
          mark'[v][s] = mark[v][s] \/ (v = w /\ s = cur[w])
    BY <2>1 DEF TypeOK
  <2> QED
    BY <2>1, <2>2, CartOutboxAssumption DEF TodoIsAhead, TypeOK
<1>7. ASSUME NEW w \in Workers, BatchCommit(w) \/ BatchAbort(w) PROVE TodoIsAhead'
  <2>1. Release(w)
    BY <1>7 DEF BatchCommit, BatchAbort
  <2>2. /\ todo'[w] = {}
        /\ \A v \in Workers \ {w} :
             todo'[v] = todo[v] /\ cur'[v] = cur[v] /\ mark'[v] = mark[v]
    BY <2>1 DEF Release, TypeOK
  <2> QED
    BY <2>2 DEF TodoIsAhead
<1> QED
  BY <1>1, <1>2, <1>3, <1>4, <1>5, <1>6, <1>7 DEF Next, PublishStep

\* The arithmetic of the bound, with one more fault and with two.
LEMMA BoundGrows ==
  ASSUME NEW f \in Nat, NEW m \in Nat
  PROVE  /\ f * (m + 1) \in Nat /\ (f + 1) * (m + 1) \in Nat
         /\ (f + 1) * (m + 1) = f * (m + 1) + m + 1
         /\ (f + 1 + 1) * (m + 1) = (f + 1) * (m + 1) + m + 1
BY SMT

\* A Publish of a row that nobody has handled either handles it or is a fault;
\* its copies, MaxLate late ones included, are paid for by the one or the other.
LEMMA CopiesAreCountedStep ==
  ASSUME IInv, TodoIsAhead, CopiesAreCounted, Next
  PROVE  CopiesAreCounted'
<1> USE DEF IInv
<1> DEFINE Total(r) == Copies(r) + wire[r]
           K == MaxLate + 1
           free == faults * K
           paid == (faults + 1) * K
<1>1. /\ faults \in Nat /\ MaxLate \in Nat /\ free \in Nat /\ paid \in Nat
      /\ paid = free + MaxLate + 1
      /\ faults' = faults + 1 => /\ faults' * K = paid
                                /\ (faults' + 1) * K = paid + MaxLate + 1
  <2>1. faults \in Nat /\ MaxLate \in Nat
    BY CartOutboxAssumption DEF TypeOK
  <2>2. /\ free \in Nat /\ paid \in Nat /\ paid = free + MaxLate + 1
        /\ (faults + 1 + 1) * K = paid + MaxLate + 1
    BY <2>1, BoundGrows
  <2> QED
    BY <2>1, <2>2
<1>2. \A r \in Requests :
        /\ Total(r) \in Nat
        /\ Total(r) <= paid
        /\ ~Handled(r) => Total(r) <= free
  <2> SUFFICES ASSUME NEW r \in Requests
               PROVE  /\ Total(r) \in Nat /\ Total(r) <= paid
                      /\ ~Handled(r) => Total(r) <= free
    OBVIOUS
  <2>1. Total(r) \in Nat
    <3>1. Copies(r) \in Nat
      BY CopiesType
    <3>2. wire[r] \in Nat
      BY DEF TypeOK
    <3> QED
      BY <3>1, <3>2
  <2>2. /\ Handled(r) => Total(r) <= paid
        /\ ~Handled(r) => Total(r) <= free
    BY <1>1 DEF CopiesAreCounted
  <2> QED
    BY <1>1, <2>1, <2>2
\* What a step has to show.
<1>3. ASSUME \/ /\ UNCHANGED faults
                /\ \A r \in Requests : /\ Total(r)' <= paid
                                       /\ ~Handled(r)' => Total(r)' <= free
             \/ /\ faults' = faults + 1
                /\ \A r \in Requests : Total(r)' \in Nat /\ Total(r)' <= paid
      PROVE  CopiesAreCounted'
  <2> SUFFICES ASSUME NEW r \in Requests
               PROVE  Total(r)' <= (faults' + IF Handled(r)' THEN 1 ELSE 0) * K
    BY DEF CopiesAreCounted
  <2>1. CASE UNCHANGED faults
    BY <1>1, <1>3, <2>1
  <2>2. CASE faults' = faults + 1 /\ Total(r)' \in Nat /\ Total(r)' <= paid
    <3> HIDE DEF Total, paid
    <3>1. faults' * K >= Total(r)' /\ (faults' + 1) * K >= Total(r)'
      BY <1>1, <2>2
    <3>2. (faults' + 0) * K = faults' * K
      BY <1>1, <2>2
    <3> QED
      BY <3>1, <3>2
  <2> QED
    BY <1>3, <2>1, <2>2
<1>4. ASSUME UNCHANGED <<faults, kafkaVars>>,
             \A r \in Requests : Handled(r) => Handled(r)'
      PROVE  CopiesAreCounted'
  <2>1. \A r \in Requests : Total(r)' = Total(r)
    BY <1>4 DEF Copies, kafkaVars
  <2> QED
    BY <1>2, <1>3, <1>4, <2>1
<1>5. ASSUME NEW q \in Requests, Checkout(q) PROVE CopiesAreCounted'
  <2>1. /\ UNCHANGED <<workerVars, kafkaVars, faults>>
        /\ \A r \in Requests : status[r] \in Settled => status'[r] = status[r]
    BY <1>5 DEF Checkout, CheckoutStamp, CheckoutInsert, CheckoutCommit, CheckoutFail,
                Commit, dbVars, RowsAreCommitted, TypeOK, Settled
  <2>2. \A r \in Requests : Handled(r) => Handled(r)'
    BY <2>1 DEF Handled, workerVars
  <2> QED
    BY <1>4, <2>1, <2>2
<1>6. ASSUME NEW q \in Requests, BrokerAppend(q) PROVE CopiesAreCounted'
  <2>1. /\ wire[q] > 0 /\ wire' = [wire EXCEPT ![q] = @ - 1]
        /\ topic' = [topic EXCEPT ![CartOf[q]] = Append(@, q)]
        /\ UNCHANGED <<faults, status, cur, mark>>
    BY <1>6 DEF BrokerAppend, dbVars, workerVars
  <2>2. \A r \in Requests : Total(r)' = Total(r)
    <3> SUFFICES ASSUME NEW r \in Requests PROVE Total(r)' = Total(r)
      OBVIOUS
    <3>1. Copies(r)' = Copies(r) + IF r = q THEN 1 ELSE 0
      BY <2>1, AppendCounts
    <3>2. wire[r] \in Nat /\ wire'[r] = wire[r] - IF r = q THEN 1 ELSE 0
      BY <2>1 DEF TypeOK
    <3>3. Copies(r) \in Nat
      BY CopiesType
    <3> QED
      BY <3>1, <3>2, <3>3
  <2>3. \A r \in Requests : Handled(r)' <=> Handled(r)
    BY <2>1 DEF Handled
  <2> QED
    BY <1>2, <1>3, <2>1, <2>2, <2>3
<1>7. ASSUME NEW w \in Workers, BatchSelect(w) PROVE CopiesAreCounted'
  <2>1. UNCHANGED <<status, cur, mark, kafkaVars, faults>>
    BY <1>7 DEF BatchSelect, dbVars
  <2>2. \A r \in Requests : Handled(r) => Handled(r)'
    BY <2>1 DEF Handled
  <2> QED
    BY <1>4, <2>1, <2>2
<1>8. ASSUME NEW w \in Workers, NEW r \in Requests, PublishOk(w, r) PROVE CopiesAreCounted'
  <2>1. /\ r \in todo[w]
        /\ topic' = [topic EXCEPT ![CartOf[r]] = Append(@, r)]
        /\ cur' = [cur EXCEPT ![w] = r]
        /\ UNCHANGED <<faults, status, mark>>
        /\ pc[w] = "loop"
    BY <1>8 DEF PublishOk, Oldest, dbVars
  <2>2. PICK n \in 0..MaxLate : wire' = [wire EXCEPT ![r] = @ + n]
    BY <1>8 DEF PublishOk
  <2>3. Handled(r)' /\ ~Handled(r)
    BY <2>1, TodoIsUnhandled DEF Handled, TypeOK
  <2>4. cur[w] = None
    BY <2>1 DEF WorkInsideLocks
  <2>5. \A s \in Requests : Handled(s) => Handled(s)'
    BY <2>1, <2>4, CartOutboxAssumption DEF Handled, TypeOK
  <2>6. \A s \in Requests : s # r => Total(s)' = Total(s)
    <3> SUFFICES ASSUME NEW s \in Requests, s # r PROVE Total(s)' = Total(s)
      OBVIOUS
    <3>1. Copies(s)' = Copies(s) + 0
      BY <2>1, AppendCounts
    <3>2. wire'[s] = wire[s] /\ Copies(s) \in Nat
      BY <2>2, CopiesType DEF TypeOK
    <3> QED
      BY <3>1, <3>2
  <2>7. Total(r)' <= paid
    <3>1. Copies(r)' = Copies(r) + 1
      BY <2>1, AppendCounts
    <3>2. wire[r] \in Nat /\ wire'[r] = wire[r] + n /\ Copies(r) \in Nat
      BY <2>2, CopiesType DEF TypeOK
    <3>3. Total(r) <= free
      BY <1>2, <2>3
    <3> HIDE DEF free, paid
    <3> QED
      BY <1>1, <3>1, <3>2, <3>3
  <2> HIDE DEF Total, free, paid
  <2> QED
    BY <1>2, <1>3, <2>1, <2>3, <2>5, <2>6, <2>7
<1>9. ASSUME NEW w \in Workers, NEW r \in Requests, PublishErr(w, r) PROVE CopiesAreCounted'
  <2>1. /\ r \in todo[w] /\ UNCHANGED <<status, cur, topic>>
        /\ \/ mark' = [mark EXCEPT ![w][r] = "FAILED"] /\ UNCHANGED faults
           \/ faults' = faults + 1 /\ UNCHANGED mark
    BY <1>9 DEF PublishErr, Oldest, dbVars
  <2>2. PICK n \in 0..MaxLate : wire' = [wire EXCEPT ![r] = @ + n]
    BY <1>9 DEF PublishErr
  <2>3. \A s \in Requests : s # r => Total(s)' = Total(s)
    BY <2>1, <2>2 DEF Copies, TypeOK
  <2>4. Total(r)' \in Nat /\ Total(r)' <= paid
    <3>1. Copies(r)' = Copies(r) /\ Copies(r) \in Nat
      BY <2>1, CopiesType DEF Copies
    <3>2. wire[r] \in Nat /\ wire'[r] = wire[r] + n
      BY <2>2 DEF TypeOK
    <3>3. Total(r) <= free
      BY <1>2, <2>1, TodoIsUnhandled
    <3> HIDE DEF free, paid
    <3> QED
      BY <1>1, <3>1, <3>2, <3>3
  <2>5. CASE mark' = [mark EXCEPT ![w][r] = "FAILED"] /\ UNCHANGED faults
    <3>1. \A v \in Workers, s \in Requests :
            mark'[v][s] = IF v = w /\ s = r THEN "FAILED" ELSE mark[v][s]
      BY <2>5 DEF TypeOK
    <3>2. \A s \in Requests : Handled(s) \/ s = r => Handled(s)'
      BY <2>1, <3>1 DEF Handled
    <3> HIDE DEF Total, free, paid
    <3> QED
      BY <1>2, <1>3, <2>3, <2>4, <2>5, <3>2
  <2>6. CASE faults' = faults + 1
    <3> HIDE DEF Total, free, paid
    <3> QED
      BY <1>2, <1>3, <2>3, <2>4, <2>6
  <2> QED
    BY <2>1, <2>5, <2>6
<1>10. ASSUME NEW w \in Workers, MarkPublished(w) PROVE CopiesAreCounted'
  <2>1. /\ UNCHANGED <<faults, kafkaVars, status>>
        /\ cur' = [cur EXCEPT ![w] = None]
        /\ mark' = [mark EXCEPT ![w][cur[w]] = "PUBLISHED"]
        /\ cur[w] \in Requests
    BY <1>10 DEF MarkPublished, dbVars, WorkInsideLocks, TypeOK
  <2>2. \A v \in Workers, s \in Requests :
          mark'[v][s] = IF v = w /\ s = cur[w] THEN "PUBLISHED" ELSE mark[v][s]
    BY <2>1 DEF TypeOK
  <2>3. \A s \in Requests : Handled(s) => Handled(s)'
    BY <2>1, <2>2 DEF Handled, TypeOK
  <2> QED
    BY <1>4, <2>1, <2>3
<1>11. ASSUME NEW w \in Workers, BatchCommit(w) PROVE CopiesAreCounted'
  <2>1. /\ UNCHANGED <<faults, kafkaVars>> /\ pc[w] = "loop" /\ Release(w)
        /\ status' = [r \in Requests |->
                        IF mark[w][r] # "none" THEN mark[w][r] ELSE status[r]]
    BY <1>11 DEF BatchCommit
  <2>2. cur[w] = None
    BY <2>1 DEF WorkInsideLocks
  <2>3. ASSUME NEW s \in Requests, Handled(s) PROVE Handled(s)'
    <3>1. CASE status[s] \in Settled \/ mark[w][s] # "none"
      <4>1. status'[s] \in Settled
        BY <2>1, <3>1 DEF TypeOK
      <4> QED
        BY <4>1 DEF Handled
    <3>2. CASE \E v \in Workers \ {w} : cur[v] = s \/ mark[v][s] # "none"
      BY <2>1, <3>2 DEF Release, Handled, TypeOK
    <3> QED
      BY <2>2, <2>3, <3>1, <3>2, CartOutboxAssumption DEF Handled
  <2> QED
    BY <1>4, <2>1, <2>3
<1>12. ASSUME NEW w \in Workers, BatchAbort(w) PROVE CopiesAreCounted'
  <2>1. faults' = faults + 1 /\ UNCHANGED topic
    BY <1>12 DEF BatchAbort
  <2>2. CASE UNCHANGED wire
    BY <1>2, <1>3, <2>1, <2>2 DEF Copies
  <2>3. ASSUME NEW r \in todo[w], NEW n \in 1..MaxLate, wire' = [wire EXCEPT ![r] = @ + n]
        PROVE  CopiesAreCounted'
    <3>1. r \in Requests /\ Total(r) <= free
      BY <1>2, TodoIsUnhandled
    <3>2. \A s \in Requests : s # r => Total(s)' = Total(s)
      BY <2>1, <2>3, <3>1 DEF Copies, TypeOK
    <3>3. /\ Copies(r)' = Copies(r) /\ Copies(r) \in Nat
          /\ wire[r] \in Nat /\ wire'[r] = wire[r] + n
      BY <2>1, <2>3, <3>1, CopiesType DEF Copies, TypeOK
    <3>4. Total(r)' \in Nat /\ Total(r)' <= paid
      <4> HIDE DEF free, paid
      <4> QED
        BY <1>1, <3>1, <3>3
    <3> HIDE DEF Total, free, paid
    <3> QED
      BY <1>2, <1>3, <2>1, <3>2, <3>4
  <2> QED
    BY <1>12, <2>2, <2>3 DEF BatchAbort
<1> QED
  BY <1>5, <1>6, <1>7, <1>8, <1>9, <1>10, <1>11, <1>12 DEF Next, PublishStep

CopiesInv == IInv /\ TodoIsAhead /\ CopiesAreCounted

LEMMA CopiesInvariance == Spec => []CopiesInv
<1>1. Init => CopiesInv
  <2> SUFFICES ASSUME Init PROVE CopiesInv
    OBVIOUS
  <2>1. IInv
    BY InitInv
  <2>2. TodoIsAhead
    BY CartOutboxAssumption DEF Init, NoMarks, TodoIsAhead
  <2>3. ASSUME NEW r \in Requests PROVE Copies(r) = 0 /\ wire[r] = 0
    <3>1. topic[CartOf[r]] = << >>
      BY CartOutboxAssumption DEF Init
    <3>2. {i \in DOMAIN topic[CartOf[r]] : topic[CartOf[r]][i] = r} = {}
      BY <3>1
    <3> QED
      BY <3>2, FS_EmptySet DEF Init, Copies
  <2>4. CopiesAreCounted
    <3> SUFFICES ASSUME NEW r \in Requests
                 PROVE  0 <= (faults + IF Handled(r) THEN 1 ELSE 0) * (MaxLate + 1)
      BY <2>3 DEF CopiesAreCounted
    <3>1. faults = 0 /\ MaxLate \in Nat
      BY CartOutboxAssumption DEF Init
    <3> QED
      BY <3>1
  <2> QED
    BY <2>1, <2>2, <2>4 DEF CopiesInv
<1>2. CopiesInv /\ [Next]_vars => CopiesInv'
  <2> SUFFICES ASSUME CopiesInv, [Next]_vars PROVE CopiesInv'
    OBVIOUS
  <2>1. IInv'
    BY NextPreserves DEF CopiesInv
  <2>2. CASE UNCHANGED vars
    BY <2>1, <2>2 DEF vars, dbVars, workerVars, kafkaVars, CopiesInv, TodoIsAhead,
                      CopiesAreCounted, Copies, Handled
  <2>3. CASE Next
    BY <2>1, <2>3, TodoIsAheadStep, CopiesAreCountedStep DEF CopiesInv
  <2> QED
    BY <2>2, <2>3
<1> QED
  BY <1>1, <1>2, PTL DEF Spec

---------------------------------------------------------------------------
(* In which order first copies reach the topic.                            *)

\* A row that failed is disturbed before its batch ends.
FailuresAreNoted ==
  \A r \in Requests :
    status[r] = "FAILED" \/ (\E w \in Workers : mark[w][r] = "FAILED") => r \in disturbed

\* A copy of r may be on the topic, be on its way, or be thought of as sent.
Out(r) == wire[r] > 0 \/ Sent(r) \/ Handled(r)

\* Row a is to be sent before b.
Ahead(a, b) ==
  /\ CartOf[a] = CartOf[b] /\ createdAt[a] < createdAt[b]
  /\ status[a] # "none" /\ a \notin disturbed

\* In the log of their cart, every copy of b has a copy of a before it.
Before(a, b) ==
  LET log == topic[CartOf[a]] IN
  \A j \in DOMAIN log : log[j] = b => \E i \in 1..(j - 1) : log[i] = a

\* The reason why b never overtakes a: b is not out before a was sent, and no
\* batch takes b and leaves a.
EarlierIsOut ==
  \A a, b \in Requests : Ahead(a, b) =>
    /\ Out(b) => Sent(a)
    /\ \A w \in Workers : b \in todo[w] => Sent(a) \/ a \in todo[w]

\* No row is handled, sent or in flight before it is committed.
LEMMA UncommittedIsIn ==
  ASSUME IInv, NEW r \in Requests, status[r] = "none"
  PROVE  /\ ~Out(r)
         /\ \A w \in Workers : r \notin todo[w]
<1>1. \A w \in Workers : r \notin locked[w]
  BY DEF IInv, LocksAreExclusive
<1>2. \A w \in Workers : r \notin todo[w] /\ cur[w] # r /\ mark[w][r] = "none"
  BY <1>1, CartOutboxAssumption DEF IInv, WorkInsideLocks
<1>3. ~Sent(r) /\ ~(wire[r] > 0)
  BY DEF IInv, OnlyCommittedIsSent
<1> QED
  BY <1>2, <1>3 DEF Out, Handled, Settled

\* A row is marked FAILED by the step that notes it.
LEMMA FailuresAreNotedStep ==
  ASSUME IInv, FailuresAreNoted, Next
  PROVE  FailuresAreNoted'
<1> USE DEF IInv
<1>1. ASSUME NEW q \in Requests, Checkout(q) \/ BrokerAppend(q) PROVE FailuresAreNoted'
  <2>1. /\ UNCHANGED mark /\ disturbed \subseteq disturbed'
        /\ \A r \in Requests : status'[r] = "FAILED" => status[r] = "FAILED"
    BY <1>1 DEF Checkout, CheckoutStamp, CheckoutInsert, CheckoutCommit, CheckoutFail,
                Commit, BrokerAppend, workerVars, dbVars, TypeOK
  <2> QED
    BY <2>1 DEF FailuresAreNoted
<1>2. ASSUME NEW w \in Workers, BatchSelect(w) PROVE FailuresAreNoted'
  BY <1>2 DEF BatchSelect, FailuresAreNoted, dbVars
<1>3. ASSUME NEW w \in Workers, NEW r \in Requests, PublishOk(w, r) PROVE FailuresAreNoted'
  BY <1>3 DEF PublishOk, FailuresAreNoted, dbVars
<1>4. ASSUME NEW w \in Workers, NEW r \in Requests, PublishErr(w, r) PROVE FailuresAreNoted'
  <2>1. /\ disturbed' = disturbed \cup {r} /\ UNCHANGED dbVars
        /\ \/ mark' = [mark EXCEPT ![w][r] = "FAILED"]
           \/ UNCHANGED mark
    BY <1>4 DEF PublishErr
  <2>2. \A v \in Workers, s \in Requests :
          mark'[v][s] = mark[v][s] \/ (v = w /\ s = r)
    BY <2>1 DEF TypeOK
  <2>3. UNCHANGED status /\ r \in disturbed' /\ disturbed \subseteq disturbed'
    BY <2>1 DEF dbVars
  <2> QED
    BY <2>2, <2>3 DEF FailuresAreNoted
<1>5. ASSUME NEW w \in Workers, MarkPublished(w) PROVE FailuresAreNoted'
  <2>1. \A v \in Workers, s \in Requests :
          mark'[v][s] = mark[v][s] \/ mark'[v][s] = "PUBLISHED"
    BY <1>5 DEF MarkPublished, TypeOK
  <2> QED
    BY <1>5, <2>1 DEF MarkPublished, FailuresAreNoted, dbVars
<1>6. ASSUME NEW w \in Workers, BatchCommit(w) PROVE FailuresAreNoted'
  BY <1>6, ReleaseKeepsLocks DEF BatchCommit, FailuresAreNoted
<1>7. ASSUME NEW w \in Workers, BatchAbort(w) PROVE FailuresAreNoted'
  BY <1>7, ReleaseKeepsLocks DEF BatchAbort, FailuresAreNoted, dbVars
<1> QED
  BY <1>1, <1>2, <1>3, <1>4, <1>5, <1>6, <1>7 DEF Next, PublishStep

OrderIInv == InStampOrder /\ EarlierIsOut

\* InStampOrder in these words.
LEMMA OrderMeaning ==
  /\ InStampOrder <=> \A a, b \in Requests : Ahead(a, b) => Before(a, b)
  /\ InStampOrder' <=> \A a, b \in Requests : Ahead(a, b)' => Before(a, b)'
BY DEF InStampOrder, Ahead, Before

\* A log keeps its order when b is appended after a only.
LEMMA AppendKeepsBefore ==
  ASSUME TypeOK, NEW a \in Requests, NEW b \in Requests, NEW q \in Requests,
         topic' = [topic EXCEPT ![CartOf[q]] = Append(@, q)],
         CartOf[a] = CartOf[b], Before(a, b), q = b => Sent(a)
  PROVE  Before(a, b)'
<1> DEFINE c == CartOf[a]
           log == topic[c]
<1>1. /\ c \in Carts /\ CartOf[q] \in Carts /\ log \in Seq(Requests)
      /\ DOMAIN log = 1..Len(log) /\ Len(log) \in Nat
  BY CartOutboxAssumption DEF TypeOK
<1>2. CASE c # CartOf[q]
  <2>1. topic'[c] = log
    BY <1>1, <1>2 DEF TypeOK
  <2> QED
    BY <2>1 DEF Before
<1>3. CASE c = CartOf[q]
  <2>1. topic'[c] = Append(log, q)
    BY <1>1, <1>3 DEF TypeOK
  <2>2. SUFFICES ASSUME NEW j \in DOMAIN topic'[c], topic'[c][j] = b
                 PROVE  \E i \in 1..(j - 1) : topic'[c][i] = a
    BY DEF Before
  <2>3. /\ DOMAIN topic'[c] = 1..(Len(log) + 1)
        /\ topic'[c][Len(log) + 1] = q
        /\ \A i \in 1..Len(log) : topic'[c][i] = log[i]
    BY <1>1, <2>1
  <2>4. CASE j = Len(log) + 1
    <3>1. PICK i \in DOMAIN log : log[i] = a
      BY <2>2, <2>3, <2>4 DEF Sent
    <3>2. i \in 1..(j - 1) /\ topic'[c][i] = a
      BY <1>1, <2>3, <2>4, <3>1
    <3> QED
      BY <3>2
  <2>5. CASE j \in 1..Len(log)
    <3>1. log[j] = b
      BY <2>2, <2>3, <2>5
    <3>2. PICK i \in 1..(j - 1) : log[i] = a
      BY <1>1, <2>5, <3>1 DEF Before
    <3>3. i \in 1..Len(log)
      BY <1>1, <2>5, <3>2
    <3> QED
      BY <2>3, <3>2, <3>3
  <2> QED
    BY <1>1, <2>2, <2>3, <2>4, <2>5
<1> QED
  BY <1>2, <1>3

\* Timestamps are numbers.
LEMMA StampType ==
  ASSUME IInv, NEW r \in Requests
  PROVE  createdAt[r] \in Nat
<1>1. createdAt[r] \in Stamps \cup {0}
  BY DEF IInv, TypeOK
<1>2. Stamps \subseteq Nat
  BY CartOutboxAssumption
<1>3. 0 \in Nat
  OBVIOUS
<1> QED
  BY <1>1, <1>2, <1>3, Zenon

\* The row whose turn it is has no earlier one that is still to be sent.
LEMMA OldestIsNext ==
  ASSUME IInv, EarlierIsOut, NEW a \in Requests, NEW b \in Requests, Ahead(a, b),
         NEW w \in Workers, Oldest(b, todo[w])
  PROVE  Sent(a)
<1>1. createdAt[a] \in Nat /\ createdAt[b] \in Nat
  BY StampType
<1>2. a \notin todo[w]
  BY <1>1 DEF Oldest, Ahead
<1> QED
  BY <1>2 DEF EarlierIsOut, Oldest

\* A row that is not in hand now, nor committed, is overtaken by nothing.
LEMMA CheckoutKeepsOrder ==
  ASSUME IInv, OrderIInv, NEW q \in Requests, Checkout(q)
  PROVE  OrderIInv'
<1>1. /\ UNCHANGED <<workerVars, kafkaVars>> /\ disturbed \subseteq disturbed'
      /\ \A r \in Requests : r # q => /\ status'[r] = status[r]
                                      /\ createdAt'[r] = createdAt[r]
      /\ status[q] = "none" /\ status'[q] \in {"none", "NEW"}
  BY DEF Checkout, CheckoutStamp, CheckoutInsert, CheckoutCommit, CheckoutFail,
         Commit, dbVars, IInv, RowsAreCommitted, TypeOK
<1>2. \A r \in Requests : Sent(r)' <=> Sent(r)
  BY <1>1, SameTopicSameSent DEF kafkaVars
<1>3. \A r \in Requests : Out(r)' => Out(r)
  BY <1>1, <1>2 DEF Out, Handled, Settled, workerVars, kafkaVars
<1>4. SUFFICES ASSUME NEW a \in Requests, NEW b \in Requests, Ahead(a, b)'
               PROVE  /\ Before(a, b)'
                      /\ Out(b)' => Sent(a)'
                      /\ \A w \in Workers : b \in todo'[w] => Sent(a)' \/ a \in todo'[w]
  BY OrderMeaning DEF OrderIInv, EarlierIsOut
<1>5. CASE ~Out(b) /\ \A w \in Workers : b \notin todo[w]
  <2>1. ~Sent(b)
    BY <1>5 DEF Out
  <2>2. CartOf[a] = CartOf[b]
    BY <1>4 DEF Ahead
  <2>3. Before(a, b)'
    BY <1>1, <2>1, <2>2 DEF Before, Sent, kafkaVars
  <2> QED
    BY <1>1, <1>3, <1>5, <2>3 DEF workerVars
<1>6. CASE Ahead(a, b)
  <2>1. Before(a, b)'
    BY <1>1, <1>6, OrderMeaning DEF Before, kafkaVars, OrderIInv
  <2> QED
    BY <1>1, <1>2, <1>3, <1>6, <2>1 DEF OrderIInv, EarlierIsOut, workerVars
<1>7. CASE b = q
  BY <1>1, <1>5, <1>7, UncommittedIsIn
<1>8. CASE a = q /\ b # q
  <2>1. /\ createdAt' = createdAt /\ status'[q] # "none" /\ q \notin disturbed'
        /\ CartOf[b] = CartOf[q] /\ createdAt[b] > createdAt[q]
    <3>1. status'[q] # "none" /\ q \notin disturbed'
      BY <1>4, <1>8 DEF Ahead
    <3>2. createdAt' = createdAt
      BY <1>1, <3>1 DEF Checkout, CheckoutStamp, CheckoutInsert, CheckoutCommit,
                        CheckoutFail, Commit, dbVars
    <3>3. createdAt[q] \in Nat /\ createdAt[b] \in Nat
      BY StampType
    <3> QED
      BY <1>4, <1>8, <3>1, <3>2, <3>3 DEF Ahead
  <2>2. Commit(q)
    BY <1>1, <2>1 DEF Checkout, CheckoutStamp, CheckoutInsert, CheckoutCommit,
                      CheckoutFail, dbVars
  <2>3. ~InHand(b)
    BY <2>1, <2>2 DEF Commit
  <2> QED
    BY <1>5, <2>3 DEF InHand, Out, Handled
<1>9. CASE a # q /\ b # q
  BY <1>1, <1>4, <1>6, <1>9 DEF Ahead
<1> QED
  BY <1>7, <1>8, <1>9

\* The steps of the workers and of the broker neither insert nor restamp a row.
LEMMA StepKeepsAhead ==
  ASSUME UNCHANGED createdAt, disturbed \subseteq disturbed',
         \A r \in Requests : status'[r] # "none" => status[r] # "none"
  PROVE  \A a, b \in Requests : Ahead(a, b)' => Ahead(a, b)
BY DEF Ahead

\* What a step has to show that sends nothing and starts no batch.
LEMMA QuietStepKeepsOrder ==
  ASSUME OrderIInv, UNCHANGED <<topic, createdAt>>, disturbed \subseteq disturbed',
         \A r \in Requests : status'[r] # "none" => status[r] # "none",
         \A w \in Workers : todo'[w] \subseteq todo[w],
         \A a, b \in Requests : Ahead(a, b) /\ Out(b)' => Sent(a),
         \A w \in Workers : \A r \in todo[w] :
           r \notin todo'[w] => todo'[w] = {} \/ r \in disturbed'
  PROVE  OrderIInv'
<1> SUFFICES ASSUME NEW a \in Requests, NEW b \in Requests, Ahead(a, b)'
             PROVE  /\ Before(a, b)'
                    /\ Out(b)' => Sent(a)'
                    /\ \A w \in Workers : b \in todo'[w] => Sent(a)' \/ a \in todo'[w]
  BY OrderMeaning DEF OrderIInv, EarlierIsOut
<1>1. Ahead(a, b) /\ a \notin disturbed'
  BY StepKeepsAhead DEF Ahead
<1>2. Before(a, b)'
  BY <1>1, OrderMeaning DEF OrderIInv, Before
<1>3. Sent(a)' <=> Sent(a)
  BY SameTopicSameSent
<1>4. Out(b)' => Sent(a)'
  BY <1>1, <1>3
<1>5. ASSUME NEW w \in Workers, b \in todo'[w], ~Sent(a)
      PROVE  a \in todo'[w]
  <2>1. a \in todo[w]
    BY <1>1, <1>5 DEF OrderIInv, EarlierIsOut
  <2> QED
    BY <1>1, <1>5, <2>1
<1> QED
  BY <1>2, <1>3, <1>4, <1>5

LEMMA BrokerAppendKeepsOrder ==
  ASSUME IInv, OrderIInv, NEW q \in Requests, BrokerAppend(q)
  PROVE  OrderIInv'
<1>1. /\ UNCHANGED <<createdAt, status, workerVars, disturbed>>
      /\ wire[q] > 0 /\ wire' = [wire EXCEPT ![q] = @ - 1]
      /\ topic' = [topic EXCEPT ![CartOf[q]] = Append(@, q)]
  BY DEF BrokerAppend, dbVars
<1>2. \A r \in Requests : (Sent(r) => Sent(r)') /\ (Sent(r)' => Sent(r) \/ r = q)
  BY <1>1, AppendSends DEF IInv
<1>3. \A r \in Requests : Out(r)' => Out(r)
  <2>1. \A r \in Requests : wire'[r] > 0 => wire[r] > 0
    BY <1>1 DEF IInv, TypeOK
  <2> QED
    BY <1>1, <1>2, <2>1 DEF Out, Handled, workerVars
<1> SUFFICES ASSUME NEW a \in Requests, NEW b \in Requests, Ahead(a, b)'
             PROVE  /\ Before(a, b)'
                    /\ Out(b)' => Sent(a)'
                    /\ \A w \in Workers : b \in todo'[w] => Sent(a)' \/ a \in todo'[w]
  BY OrderMeaning DEF OrderIInv, EarlierIsOut
<1>4. Ahead(a, b)
  BY <1>1 DEF Ahead
<1>5. /\ Out(b) => Sent(a)
      /\ \A w \in Workers : b \in todo[w] => Sent(a) \/ a \in todo[w]
  BY <1>4 DEF OrderIInv, EarlierIsOut
<1>6. Before(a, b)'
  <2>1. q = b => Sent(a)
    BY <1>1, <1>5 DEF Out
  <2>2. Before(a, b) /\ CartOf[a] = CartOf[b]
    BY <1>4, OrderMeaning DEF OrderIInv, Ahead
  <2> QED
    BY <1>1, <2>1, <2>2, AppendKeepsBefore DEF IInv
<1> QED
  BY <1>1, <1>2, <1>3, <1>5, <1>6 DEF workerVars

LEMMA BatchSelectKeepsOrder ==
  ASSUME IInv, FailuresAreNoted, OrderIInv, NEW w \in Workers, BatchSelect(w)
  PROVE  OrderIInv'
<1>1. UNCHANGED <<createdAt, status, cur, mark, wire, topic, disturbed>>
  BY DEF BatchSelect, dbVars, kafkaVars
<1>2. PICK B \in SUBSET NewRows : IsBatch(B) /\ todo' = [todo EXCEPT ![w] = B]
  BY DEF BatchSelect
<1>3. \A r \in Requests : (Sent(r)' <=> Sent(r)) /\ (Out(r)' <=> Out(r))
  BY <1>1, SameTopicSameSent DEF Out, Handled
<1> SUFFICES ASSUME NEW a \in Requests, NEW b \in Requests, Ahead(a, b)'
             PROVE  /\ Before(a, b)'
                    /\ Out(b)' => Sent(a)'
                    /\ \A v \in Workers : b \in todo'[v] => Sent(a)' \/ a \in todo'[v]
  BY OrderMeaning DEF OrderIInv, EarlierIsOut
<1>4. Ahead(a, b)
  BY <1>1 DEF Ahead
<1>5. Before(a, b)'
  BY <1>1, <1>4, OrderMeaning DEF OrderIInv, Before
<1>6. Out(b)' => Sent(a)'
  BY <1>3, <1>4 DEF OrderIInv, EarlierIsOut
\* A batch that takes b takes every NEW row with an earlier stamp.
<1>7. b \in B => Sent(a) \/ a \in B
  <2> SUFFICES ASSUME b \in B PROVE Sent(a) \/ a \in B
    OBVIOUS
  <2>1. createdAt[a] \in Nat /\ createdAt[b] \in Nat
    BY StampType
  <2>2. a \in NewRows => a \in B
    BY <1>2, <1>4, <2>1 DEF IsBatch, Ahead
  <2>3. status[a] # "FAILED" /\ status[a] # "none"
    BY <1>4 DEF FailuresAreNoted, Ahead
  <2>4. status[a] = "NEW" \/ status[a] = "PUBLISHED"
    BY <2>3 DEF IInv, TypeOK, Settled
  <2> QED
    BY <2>2, <2>4 DEF IInv, PublishedWasSent, NewRows
<1>8. ASSUME NEW v \in Workers, b \in todo'[v] PROVE Sent(a) \/ a \in todo'[v]
  <2>1. CASE v = w
    BY <1>2, <1>7, <1>8, <2>1 DEF IInv, TypeOK
  <2>2. CASE v # w
    BY <1>2, <1>4, <1>8, <2>2 DEF IInv, TypeOK, OrderIInv, EarlierIsOut
  <2> QED
    BY <2>1, <2>2
<1> QED
  BY <1>3, <1>5, <1>6, <1>8

LEMMA PublishOkKeepsOrder ==
  ASSUME IInv, OrderIInv, NEW w \in Workers, NEW r \in Requests, PublishOk(w, r)
  PROVE  OrderIInv'
<1>1. /\ UNCHANGED <<createdAt, status, mark, disturbed>>
      /\ Oldest(r, todo[w])
      /\ topic' = [topic EXCEPT ![CartOf[r]] = Append(@, r)]
      /\ todo' = [todo EXCEPT ![w] = @ \ {r}]
      /\ cur' = [cur EXCEPT ![w] = r]
      /\ \A s \in Requests : s # r => wire'[s] = wire[s]
  <2>1. PICK n \in 0..MaxLate : wire' = [wire EXCEPT ![r] = @ + n]
    BY DEF PublishOk
  <2> QED
    BY <2>1 DEF PublishOk, dbVars, IInv, TypeOK
<1>2. /\ Sent(r)'
      /\ \A s \in Requests : (Sent(s) => Sent(s)') /\ (Sent(s)' => Sent(s) \/ s = r)
  BY <1>1, AppendSends DEF IInv
<1>3. \A s \in Requests : Out(s)' => Out(s) \/ s = r
  <2>1. \A v \in Workers, s \in Requests : cur'[v] = s => cur[v] = s \/ s = r
    BY <1>1 DEF IInv, TypeOK
  <2> QED
    BY <1>1, <1>2, <2>1 DEF Out, Handled
<1> SUFFICES ASSUME NEW a \in Requests, NEW b \in Requests, Ahead(a, b)'
             PROVE  /\ Before(a, b)'
                    /\ Out(b)' => Sent(a)'
                    /\ \A v \in Workers : b \in todo'[v] => Sent(a)' \/ a \in todo'[v]
  BY OrderMeaning DEF OrderIInv, EarlierIsOut
<1>4. Ahead(a, b)
  BY <1>1 DEF Ahead
<1>5. r = b => Sent(a)
  BY <1>1, <1>4, OldestIsNext DEF OrderIInv
<1>6. Before(a, b)'
  <2>1. Before(a, b) /\ CartOf[a] = CartOf[b]
    BY <1>4, OrderMeaning DEF OrderIInv, Ahead
  <2> QED
    BY <1>1, <1>5, <2>1, AppendKeepsBefore DEF IInv
<1>7. Out(b)' => Sent(a)'
  BY <1>2, <1>3, <1>4, <1>5 DEF OrderIInv, EarlierIsOut
<1>8. ASSUME NEW v \in Workers, b \in todo'[v] PROVE Sent(a)' \/ a \in todo'[v]
  <2>1. b \in todo[v] /\ (a \in todo[v] => a = r \/ a \in todo'[v])
    BY <1>1, <1>8 DEF IInv, TypeOK
  <2> QED
    BY <1>2, <1>4, <2>1 DEF OrderIInv, EarlierIsOut
<1> QED
  BY <1>6, <1>7, <1>8

LEMMA PublishErrKeepsOrder ==
  ASSUME IInv, OrderIInv, NEW w \in Workers, NEW r \in Requests, PublishErr(w, r)
  PROVE  OrderIInv'
<1>1. /\ UNCHANGED <<createdAt, status, cur, topic>>
      /\ Oldest(r, todo[w])
      /\ todo' = [todo EXCEPT ![w] = @ \ {r}]
      /\ disturbed' = disturbed \cup {r}
      /\ \A v \in Workers, s \in Requests : s # r => mark'[v][s] = mark[v][s]
      /\ \A s \in Requests : s # r => wire'[s] = wire[s]
  <2>1. PICK n \in 0..MaxLate : wire' = [wire EXCEPT ![r] = @ + n]
    BY DEF PublishErr
  <2>2. \A s \in Requests : s # r => wire'[s] = wire[s]
    BY <2>1 DEF IInv, TypeOK
  <2>3. \/ mark' = [mark EXCEPT ![w][r] = "FAILED"]
        \/ UNCHANGED mark
    BY DEF PublishErr
  <2>4. \A v \in Workers, s \in Requests :
          mark'[v][s] = mark[v][s] \/ (v = w /\ s = r)
    BY <2>3 DEF IInv, TypeOK
  <2> QED
    BY <2>2, <2>4 DEF PublishErr, dbVars
<1>2. \A s \in Requests : Out(s)' => Out(s) \/ s = r
  BY <1>1, SameTopicSameSent DEF Out, Handled
<1>3. \A a, b \in Requests : Ahead(a, b) /\ Out(b)' => Sent(a)
  BY <1>1, <1>2, OldestIsNext DEF OrderIInv, EarlierIsOut
<1>4. \A v \in Workers : /\ todo'[v] \subseteq todo[v]
                         /\ \A s \in todo[v] : s \notin todo'[v] => s = r
  BY <1>1 DEF IInv, TypeOK
<1> QED
  BY <1>1, <1>3, <1>4, QuietStepKeepsOrder

LEMMA MarkPublishedKeepsOrder ==
  ASSUME IInv, OrderIInv, NEW w \in Workers, MarkPublished(w)
  PROVE  OrderIInv'
<1>1. /\ UNCHANGED <<createdAt, status, todo, wire, topic, disturbed>>
      /\ cur' = [cur EXCEPT ![w] = None]
      /\ mark' = [mark EXCEPT ![w][cur[w]] = "PUBLISHED"]
  BY DEF MarkPublished, dbVars, kafkaVars
<1>2. \A v \in Workers, s \in Requests : mark'[v][s] = mark[v][s] \/ s = cur[w]
  BY <1>1 DEF IInv, TypeOK
<1>3. \A v \in Workers, s \in Requests : cur'[v] = s => cur[v] = s
  BY <1>1, CartOutboxAssumption DEF IInv, TypeOK
<1>4. \A s \in Requests : Out(s)' => Out(s)
  BY <1>1, <1>2, <1>3, SameTopicSameSent DEF Out, Handled
<1>5. \A a, b \in Requests : Ahead(a, b) /\ Out(b)' => Sent(a)
  BY <1>4 DEF OrderIInv, EarlierIsOut
<1> QED
  BY <1>1, <1>5, QuietStepKeepsOrder

LEMMA BatchCommitKeepsOrder ==
  ASSUME IInv, OrderIInv, NEW w \in Workers, BatchCommit(w)
  PROVE  OrderIInv'
<1>1. /\ UNCHANGED <<createdAt, wire, topic, disturbed>> /\ Release(w)
      /\ status' = [r \in Requests |->
                      IF mark[w][r] # "none" THEN mark[w][r] ELSE status[r]]
  BY DEF BatchCommit, kafkaVars
<1>2. /\ \A v \in Workers : todo'[v] = todo[v] \/ todo'[v] = {}
      /\ \A v \in Workers, s \in Requests : /\ cur'[v] = s => cur[v] = s
                                            /\ mark'[v][s] # "none" => mark[v][s] # "none"
  BY <1>1, ReleaseKeepsLocks, CartOutboxAssumption DEF Release, IInv, TypeOK
<1>3. \A s \in Requests : status'[s] # "none" => status[s] # "none"
  <2>1. \A s \in Requests : mark[w][s] # "none" => status[s] = "NEW"
    BY DEF IInv, WorkInsideLocks, LocksAreExclusive
  <2> QED
    BY <1>1, <2>1
<1>4. \A s \in Requests : Out(s)' => Out(s)
  BY <1>1, <1>2, SameTopicSameSent DEF Out, Handled
<1>5. \A a, b \in Requests : Ahead(a, b) /\ Out(b)' => Sent(a)
  BY <1>4 DEF OrderIInv, EarlierIsOut
<1> QED
  BY <1>1, <1>2, <1>3, <1>5, QuietStepKeepsOrder

LEMMA BatchAbortKeepsOrder ==
  ASSUME IInv, OrderIInv, NEW w \in Workers, BatchAbort(w)
  PROVE  OrderIInv'
<1>1. UNCHANGED <<createdAt, status, topic, disturbed>> /\ Release(w)
  BY DEF BatchAbort, dbVars
<1>2. /\ \A v \in Workers : todo'[v] = todo[v] \/ todo'[v] = {}
      /\ \A v \in Workers, s \in Requests : /\ cur'[v] = s => cur[v] = s
                                            /\ mark'[v][s] # "none" => mark[v][s] # "none"
  BY <1>1, ReleaseKeepsLocks, CartOutboxAssumption DEF Release, IInv, TypeOK
<1>3. \A s \in Requests : wire'[s] = wire[s] \/ Oldest(s, todo[w])
  BY DEF BatchAbort, IInv, TypeOK
<1>4. \A s \in Requests : Out(s)' => Out(s) \/ Oldest(s, todo[w])
  BY <1>1, <1>2, <1>3, SameTopicSameSent DEF Out, Handled
<1>5. \A a, b \in Requests : Ahead(a, b) /\ Out(b)' => Sent(a)
  BY <1>4, OldestIsNext DEF OrderIInv, EarlierIsOut
<1> QED
  BY <1>1, <1>2, <1>5, QuietStepKeepsOrder

OrderInv == IInv /\ FailuresAreNoted /\ OrderIInv

LEMMA OrderInvariance == Spec => []OrderInv
<1>1. Init => OrderInv
  <2> SUFFICES ASSUME Init PROVE OrderInv
    OBVIOUS
  <2>1. IInv
    BY InitInv
  <2>2. \A r \in Requests : status[r] = "none" /\ \A w \in Workers : mark[w][r] = "none"
    BY DEF Init, NoMarks
  <2>3. FailuresAreNoted
    BY <2>2 DEF FailuresAreNoted
  <2>4. \A a, b \in Requests : ~Ahead(a, b)
    BY <2>2 DEF Ahead
  <2> QED
    BY <2>1, <2>3, <2>4, OrderMeaning DEF OrderInv, OrderIInv, EarlierIsOut
<1>2. OrderInv /\ [Next]_vars => OrderInv'
  <2> SUFFICES ASSUME OrderInv, [Next]_vars PROVE OrderInv'
    OBVIOUS
  <2> USE DEF OrderInv
  <2>1. IInv'
    BY NextPreserves
  <2>2. CASE UNCHANGED vars
    <3>1. UNCHANGED <<createdAt, status, cur, todo, mark, wire, topic, disturbed>>
      BY <2>2 DEF vars, dbVars, workerVars, kafkaVars
    <3>2. FailuresAreNoted'
      BY <3>1 DEF FailuresAreNoted
    <3>3. \A a, b \in Requests : /\ Ahead(a, b)' <=> Ahead(a, b)
                                 /\ Before(a, b)' <=> Before(a, b)
                                 /\ Out(b)' <=> Out(b)
                                 /\ Sent(a)' <=> Sent(a)
      BY <3>1 DEF Ahead, Before, Out, Sent, Handled
    <3> QED
      BY <2>1, <3>1, <3>2, <3>3, OrderMeaning DEF OrderIInv, EarlierIsOut
  <2>3. CASE Next
    <3>1. FailuresAreNoted'
      BY <2>3, FailuresAreNotedStep
    <3>2. ASSUME NEW w \in Workers, NEW r \in Requests, PublishOk(w, r) \/ PublishErr(w, r)
          PROVE  OrderIInv'
      BY <3>2, PublishOkKeepsOrder, PublishErrKeepsOrder
    <3>3. OrderIInv'
      BY <2>3, <3>2, CheckoutKeepsOrder, BrokerAppendKeepsOrder, BatchSelectKeepsOrder,
         MarkPublishedKeepsOrder, BatchCommitKeepsOrder, BatchAbortKeepsOrder
         DEF Next, PublishStep
    <3> QED
      BY <2>1, <3>1, <3>3
  <2> QED
    BY <2>2, <2>3
<1> QED
  BY <1>1, <1>2, PTL DEF Spec

---------------------------------------------------------------------------
(* The results.                                                            *)

\* Every reachable state is well typed.
THEOREM TypeCorrect == Spec => []TypeOK
<1>1. IInv => TypeOK
  BY DEF IInv
<1> QED
  BY <1>1, Invariance, PTL

\* However workers, checkouts, rollbacks and crashes interleave, a row is
\* committed as PUBLISHED only after its event was appended to the topic.
THEOREM PublishedRowsWereSent == Spec => []PublishedWasSent
<1>1. IInv => PublishedWasSent
  BY DEF IInv
<1> QED
  BY <1>1, Invariance, PTL

\* The topic and the wire carry events of committed checkouts only.
THEOREM OnlyCommittedRowsAreSent == Spec => []OnlyCommittedIsSent
<1>1. IInv => OnlyCommittedIsSent
  BY DEF IInv
<1> QED
  BY <1>1, Invariance, PTL

\* No row is in the hands of two workers, nor in hand once it is settled: the
\* locks of the SELECT make the workers' batches disjoint.
THEOREM BatchesAreDisjoint == Spec => []OnlyNewRowsInHand
<1>1. IInv => OnlyNewRowsInHand
  <2> SUFFICES ASSUME IInv, NEW w \in Workers
               PROVE  LET hand == todo[w] \cup ({cur[w]} \ {None}) IN
                        /\ \A r \in hand : status[r] = "NEW"
                        /\ \A v \in Workers \ {w} : hand \cap locked[v] = {}
    BY DEF OnlyNewRowsInHand
  <2>1. todo[w] \cup ({cur[w]} \ {None}) \subseteq locked[w]
    BY DEF IInv, WorkInsideLocks
  <2> QED
    BY <2>1 DEF IInv, LocksAreExclusive
<1> QED
  BY <1>1, Invariance, PTL

\* PUBLISHED and FAILED are final, and no committed row disappears.
THEOREM StatusNeverGoesBack == Spec => StatusIsMonotone
<1>1. IInv /\ [Next]_vars =>
        [\A r \in Requests : /\ status[r] \in Settled => status'[r] = status[r]
                             /\ status[r] = "NEW" => status'[r] # "none"]_vars
  <2> SUFFICES ASSUME IInv, Next, NEW r \in Requests
               PROVE  /\ status[r] \in Settled => status'[r] = status[r]
                      /\ status[r] = "NEW" => status'[r] # "none"
    OBVIOUS
  <2>1. ASSUME NEW q \in Requests, Checkout(q) PROVE status[r] # "none" => status'[r] = status[r]
    BY <2>1 DEF IInv, RowsAreCommitted, TypeOK, Checkout, CheckoutStamp, CheckoutInsert,
                CheckoutCommit, CheckoutFail, Commit, dbVars
  <2>2. ASSUME NEW q \in Requests, BrokerAppend(q) PROVE status' = status
    BY <2>2 DEF BrokerAppend, dbVars
  <2>3. ASSUME NEW w \in Workers, BatchCommit(w)
        PROVE  /\ status[r] \in Settled => status'[r] = status[r]
               /\ status[r] = "NEW" => status'[r] # "none"
    <3>1. mark[w][r] # "none" => status[r] = "NEW"
      BY DEF IInv, WorkInsideLocks, LocksAreExclusive
    <3>2. status'[r] = IF mark[w][r] # "none" THEN mark[w][r] ELSE status[r]
      BY <2>3 DEF BatchCommit
    <3> QED
      BY <3>1, <3>2 DEF Settled
  <2>4. ASSUME NEW w \in Workers, PublishStep(w) \/ BatchAbort(w), ~BatchCommit(w)
        PROVE  status' = status
    BY <2>4 DEF PublishStep, BatchAbort, BatchSelect, MarkPublished, PublishOk,
                PublishErr, dbVars
  <2> QED
    BY <2>1, <2>2, <2>3, <2>4 DEF Next, Settled, PublishStep
<1> QED
  BY <1>1, Invariance, PTL DEF Spec, StatusIsMonotone

\* However often batches are rolled back, workers crash and calls to Kafka end
\* late, an event has no more copies than the faults account for.
THEOREM DuplicatesAreBounded == Spec => []BoundedDuplicates
<1>1. CopiesInv => BoundedDuplicates
  <2> SUFFICES ASSUME CopiesInv, NEW r \in Requests
               PROVE  Copies(r) + wire[r] <= (faults + 1) * (MaxLate + 1)
    BY DEF BoundedDuplicates
  <2>1. /\ Copies(r) + wire[r] \in Nat /\ faults \in Nat /\ MaxLate \in Nat
    <3>1. Copies(r) \in Nat
      BY CopiesType DEF CopiesInv, IInv
    <3> QED
      BY <3>1, CartOutboxAssumption DEF CopiesInv, IInv, TypeOK
  <2>2. Copies(r) + wire[r] <= (faults + IF Handled(r) THEN 1 ELSE 0) * (MaxLate + 1)
    BY DEF CopiesInv, CopiesAreCounted
  <2>3. /\ faults * (MaxLate + 1) \in Nat
        /\ (faults + 1) * (MaxLate + 1) = faults * (MaxLate + 1) + MaxLate + 1
    BY <2>1, BoundGrows
  <2>4. CASE Handled(r)
    BY <2>2, <2>4
  <2>5. CASE ~Handled(r)
    BY <2>1, <2>2, <2>3, <2>5
  <2> QED
    BY <2>4, <2>5
<1> QED
  BY <1>1, CopiesInvariance, PTL

\* Of two events of a cart, the one with the earlier timestamp is the first to
\* reach the topic, for any number of workers and any LIMIT, unless its own
\* publication failed or it was committed late.
THEOREM FirstCopiesKeepOrder == Spec => []InStampOrder
<1>1. OrderInv => InStampOrder
  BY DEF OrderInv, OrderIInv
<1> QED
  BY <1>1, OrderInvariance, PTL

---------------------------------------------------------------------------
(* Refinement: the steps of OutboxDelivery.                                *)

\* A row's stamp is drawn before its INSERT.
StampsAreDrawn ==
  \A q \in Requests : rq[q] \in {"stamped", "inserted"} => createdAt[q] \in Stamps

LEMMA StampsInvariance == Spec => []StampsAreDrawn
<1>1. Init => StampsAreDrawn
  BY DEF Init, StampsAreDrawn
<1>2. IInv /\ StampsAreDrawn /\ [Next]_vars => StampsAreDrawn'
  <2> SUFFICES ASSUME IInv, StampsAreDrawn, [Next]_vars PROVE StampsAreDrawn'
    OBVIOUS
  <2>1. ASSUME NEW q \in Requests, CheckoutStamp(q) PROVE StampsAreDrawn'
    BY <2>1 DEF CheckoutStamp, StampsAreDrawn, IInv, TypeOK
  <2>2. ASSUME NEW q \in Requests, CheckoutInsert(q) \/ CheckoutCommit(q) \/ CheckoutFail(q)
        PROVE  StampsAreDrawn'
    <3>1. /\ UNCHANGED createdAt /\ rq[q] \in {"stamped", "inserted"}
          /\ \A p \in Requests \ {q} : rq'[p] = rq[p]
      BY <2>2 DEF CheckoutInsert, CheckoutCommit, CheckoutFail, dbVars, IInv, TypeOK
    <3> QED
      BY <3>1 DEF StampsAreDrawn
  <2>3. ASSUME UNCHANGED <<rq, createdAt>> PROVE StampsAreDrawn'
    BY <2>3 DEF StampsAreDrawn
  <2>4. CASE UNCHANGED vars
    BY <2>3, <2>4 DEF vars, dbVars
  <2>5. ASSUME NEW q \in Requests, BrokerAppend(q) PROVE StampsAreDrawn'
    BY <2>3, <2>5 DEF BrokerAppend, dbVars
  <2>6. ASSUME NEW w \in Workers, PublishStep(w) \/ BatchAbort(w) PROVE StampsAreDrawn'
    BY <2>3, <2>6 DEF PublishStep, BatchSelect, PublishOk, PublishErr, MarkPublished,
       BatchCommit, BatchAbort, dbVars
  <2> QED
    BY <2>1, <2>2, <2>4, <2>5, <2>6 DEF Next, Checkout
<1> QED
  BY <1>1, <1>2, Invariance, PTL DEF Spec

Stamp   == [q \in Requests |-> VisibleStamp(q)]
Visible == <<status, Stamp, topic, disturbed>>

\* The stamps that can be seen change only with a row's appearance.
LEMMA StampStays ==
  ASSUME \A q \in Requests : /\ status'[q] = "none" <=> status[q] = "none"
                             /\ status[q] # "none" => createdAt'[q] = createdAt[q]
  PROVE  Stamp' = Stamp
<1>1. \A q \in Requests : VisibleStamp(q)' = VisibleStamp(q)
  BY DEF VisibleStamp
<1> QED
  BY <1>1 DEF Stamp

LEMMA CommitRefines ==
  ASSUME OrderInv, StampsAreDrawn, NEW q \in Requests, rq[q] = "inserted", Commit(q),
         UNCHANGED <<createdAt, topic>>
  PROVE  Delivery!Commit(q)
<1> DEFINE t == createdAt[q]
           late == {b \in Delivery!Siblings(q) : Stamp[b] > t}
<1>1. status[q] = "none" /\ t \in Stamps /\ status' = [status EXCEPT ![q] = "NEW"]
  BY DEF OrderInv, IInv, RowsAreCommitted, StampsAreDrawn, Commit
<1>2. Stamp' = [Stamp EXCEPT ![q] = t]
  <2>1. \A p \in Requests \ {q} : VisibleStamp(p)' = VisibleStamp(p)
    BY <1>1 DEF VisibleStamp, OrderInv, IInv, TypeOK
  <2>2. VisibleStamp(q)' = t
    BY <1>1 DEF VisibleStamp, OrderInv, IInv, TypeOK
  <2>3. Stamp' = [p \in Requests |-> VisibleStamp(p)']
    BY DEF Stamp
  <2> QED
    BY <2>1, <2>2, <2>3 DEF Stamp
<1>3. late = {b \in Requests : CartOf[b] = CartOf[q] /\ status[b] # "none" /\ createdAt[b] > t}
  BY DEF Delivery!Siblings, Stamp, VisibleStamp
<1>4. CASE \E b \in Requests : CartOf[b] = CartOf[q] /\ createdAt[b] > createdAt[q] /\ InHand(b)
  <2>1. PICK b \in Requests : CartOf[b] = CartOf[q] /\ createdAt[b] > createdAt[q] /\ InHand(b)
    BY <1>4
  <2>2. status[b] # "none"
    BY <2>1, UncommittedIsIn DEF OrderInv, InHand, Out, Handled
  <2>3. late # {} /\ disturbed' = disturbed \cup {q}
    BY <1>3, <1>4, <2>1, <2>2 DEF Commit
  <2> QED
    BY <1>1, <1>2, <2>3 DEF Delivery!Commit, Stamp
<1>5. CASE ~\E b \in Requests : CartOf[b] = CartOf[q] /\ createdAt[b] > createdAt[q] /\ InHand(b)
  <2>1. UNCHANGED disturbed
    BY <1>5 DEF Commit
  <2>2. \A b \in late : ~Delivery!IsSent(b)
    BY <1>3, <1>5 DEF InHand, Sent, Delivery!IsSent
  <2> QED
    BY <1>1, <1>2, <2>1, <2>2 DEF Delivery!Commit, Stamp
<1> QED
  BY <1>4, <1>5

LEMMA SendRefines ==
  ASSUME OrderInv, NEW q \in Requests, status[q] # "none",
         \A a \in Requests : Ahead(a, q) => Sent(a),
         topic' = [topic EXCEPT ![CartOf[q]] = Append(@, q)],
         UNCHANGED <<status, createdAt, disturbed>>
  PROVE  Delivery!Send(q)
<1>1. Stamp' = Stamp
  BY StampStays
<1>2. \A a \in Delivery!Siblings(q) : Stamp[a] < Stamp[q] => Delivery!IsSent(a) \/ a \in disturbed
  BY DEF Delivery!Siblings, Stamp, VisibleStamp, Ahead, Sent, Delivery!IsSent
<1> QED
  BY <1>1, <1>2 DEF Delivery!Send, Stamp

\* The marks of a batch are true when they are committed.
LEMMA BatchCommitRefines ==
  ASSUME OrderInv, NEW w \in Workers, BatchCommit(w)
  PROVE  Delivery!Settle /\ Stamp' = Stamp
<1> DEFINE P == {q \in Requests : mark[w][q] = "PUBLISHED"}
           F == {q \in Requests : mark[w][q] = "FAILED"}
<1>1. /\ status' = [r \in Requests |->
                      IF mark[w][r] # "none" THEN mark[w][r] ELSE status[r]]
      /\ UNCHANGED <<createdAt, topic, disturbed>>
  BY DEF BatchCommit, kafkaVars
<1>2. \A q \in Requests : mark[w][q] \in {"none", "PUBLISHED", "FAILED"}
  BY DEF OrderInv, IInv, TypeOK, Settled
<1>3. \A q \in Requests : mark[w][q] # "none" => status[q] = "NEW"
  BY DEF OrderInv, IInv, WorkInsideLocks, LocksAreExclusive
<1>4. /\ P \in SUBSET {q \in Requests : status[q] = "NEW" /\ Delivery!IsSent(q)}
      /\ F \in SUBSET {q \in Requests : status[q] = "NEW" /\ q \in disturbed}
  BY <1>3 DEF OrderInv, IInv, MarksAreTrue, FailuresAreNoted, Sent, Delivery!IsSent
<1>5. status' = [q \in Requests |->
                   IF q \in P THEN "PUBLISHED" ELSE IF q \in F THEN "FAILED" ELSE status[q]]
  BY <1>1, <1>2
<1>6. Stamp' = Stamp
  BY <1>1, <1>2, <1>3, StampStays
<1> HIDE DEF P, F
<1> QED
  BY <1>1, <1>4, <1>5, <1>6 DEF Delivery!Settle, Stamp

LEMMA DeliveryInit == Init => Delivery!Init
BY DEF Init, Delivery!Init, VisibleStamp

LEMMA DeliveryNext ==
  OrderInv /\ StampsAreDrawn /\ [Next]_vars => [Delivery!Next]_Visible
<1> SUFFICES ASSUME OrderInv, StampsAreDrawn, [Next]_vars
             PROVE  Delivery!Next \/ UNCHANGED Visible
  OBVIOUS
<1>1. ASSUME UNCHANGED <<status, createdAt, topic, disturbed>> PROVE UNCHANGED Visible
  BY <1>1, StampStays DEF Visible
<1>2. ASSUME NEW q \in Requests, Checkout(q) PROVE Delivery!Next \/ UNCHANGED Visible
  <2>1. CASE CheckoutStamp(q)
    <3>1. status[q] = "none" /\ UNCHANGED <<status, topic, disturbed>>
          /\ \A p \in Requests \ {q} : createdAt'[p] = createdAt[p]
      BY <2>1 DEF CheckoutStamp, kafkaVars, OrderInv, IInv, RowsAreCommitted, TypeOK
    <3>2. Stamp' = Stamp
      BY <3>1, StampStays
    <3> QED
      BY <3>1, <3>2 DEF Visible
  <2>2. CASE CheckoutInsert(q)
    BY <1>1, <2>2 DEF CheckoutInsert, dbVars, kafkaVars
  <2>3. CASE CheckoutCommit(q)
    BY <2>3, CommitRefines DEF CheckoutCommit, kafkaVars, Delivery!Next
  <2>4. CASE CheckoutFail(q)
    BY <1>1, <2>4, CommitRefines DEF CheckoutFail, kafkaVars, Delivery!Next
  <2> QED
    BY <1>2, <2>1, <2>2, <2>3, <2>4 DEF Checkout
<1>3. ASSUME NEW q \in Requests, BrokerAppend(q) PROVE Delivery!Next
  <2>1. status[q] # "none"
    BY <1>3 DEF BrokerAppend, OrderInv, IInv, OnlyCommittedIsSent
  <2>2. \A a \in Requests : Ahead(a, q) => Sent(a)
    BY <1>3 DEF BrokerAppend, OrderInv, OrderIInv, EarlierIsOut, Out
  <2>3. Delivery!Send(q)
    BY <1>3, <2>1, <2>2, SendRefines DEF BrokerAppend, dbVars
  <2> QED
    BY <2>3 DEF Delivery!Next
<1>4. ASSUME NEW w \in Workers, NEW r \in Requests, PublishOk(w, r) PROVE Delivery!Next
  <2>1. Oldest(r, todo[w])
    BY <1>4 DEF PublishOk
  <2>2. status[r] # "none"
    BY <2>1 DEF Oldest, OrderInv, IInv, WorkInsideLocks, LocksAreExclusive
  <2>3. \A a \in Requests : Ahead(a, r) => Sent(a)
    BY <2>1, OldestIsNext DEF OrderInv, OrderIInv
  <2>4. Delivery!Send(r)
    BY <1>4, <2>2, <2>3, SendRefines DEF PublishOk, dbVars
  <2> QED
    BY <2>4 DEF Delivery!Next
<1>5. ASSUME NEW w \in Workers, NEW r \in Requests, PublishErr(w, r) PROVE Delivery!Next
  <2>1. status[r] = "NEW"
    BY <1>5 DEF PublishErr, Oldest, OrderInv, IInv, WorkInsideLocks, LocksAreExclusive
  <2>2. UNCHANGED <<status, Stamp, topic>> /\ disturbed' = disturbed \cup {r}
    BY <1>5, StampStays DEF PublishErr, dbVars
  <2>3. Delivery!Excuse(r)
    BY <2>1, <2>2 DEF Delivery!Excuse, Stamp
  <2> QED
    BY <2>3 DEF Delivery!Next
<1>6. ASSUME NEW w \in Workers, BatchCommit(w) PROVE Delivery!Next
  BY <1>6, BatchCommitRefines DEF Delivery!Next
<1>7. ASSUME NEW w \in Workers, BatchSelect(w) \/ MarkPublished(w) \/ BatchAbort(w)
      PROVE  UNCHANGED Visible
  BY <1>1, <1>7 DEF BatchSelect, MarkPublished, BatchAbort, dbVars, kafkaVars
<1>8. CASE UNCHANGED vars
  BY <1>1, <1>8 DEF vars, dbVars, kafkaVars
<1> QED
  BY <1>2, <1>3, <1>4, <1>5, <1>6, <1>7, <1>8 DEF Next, PublishStep

\* The outbox and its workers implement the abstract outbox: rows are settled
\* once and truthfully, and the topic gets the events of a cart in the order of
\* their stamps but for those that failed or came too late (publisher.go:37-62,
\* handlers_cart.go:423-440).
THEOREM WorkersDeliver == Spec => ImplementsDelivery
BY DeliveryInit, DeliveryNext, OrderInvariance, StampsInvariance, PTL
   DEF Spec, ImplementsDelivery, Delivery!Spec, Delivery!view, Stamp, Visible
=============================================================================
