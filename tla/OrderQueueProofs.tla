-------------------------- MODULE OrderQueueProofs --------------------------
(***************************************************************************)
(* Proofs about OrderQueue and the OrderSlice it extends, for any number   *)
(* of requests, any questions, any interleaving of memory accesses and any *)
(* number of deaths.                                                       *)
(***************************************************************************)
EXTENDS OrderQueue, SequenceTheorems, FiniteSetTheorems, WellFoundedInduction, TLAPS

---------------------------------------------------------------------------
(* Types.                                                                  *)

ArrayLabels  == {"array", "append", "grow", "pointer", "length", "store"}
ScanLabels   == {"range", "scan"}
ChangeLabels == {"found", "change"}
CutLabels    == {"move", "cut"}
RestLabels   == {"idle", "publish", "answer", "done"}
Labels       == RestLabels \cup ArrayLabels \cup ScanLabels \cup ChangeLabels \cup CutLabels

Handlers ==
  [ask : Asks \cup {None}, arr : Nat, len : Nat, cap : Nat, i : Nat, seen : Seq(Order)]

\* What a handler at l knows of its question, its index and its length.
Ready(l, m) ==
  /\ l \notin RestLabels => m.ask \in Asks
  /\ l \in ArrayLabels => m.ask.op = "POST"
  /\ l \in ScanLabels => m.ask.op # "POST" /\ m.i >= 1
  /\ l \in ChangeLabels => m.ask.op \in {"PUT", "DELETE"} /\ m.i >= 1
  /\ l \in CutLabels => m.ask.op = "DELETE" /\ m.i >= 1
  /\ l \in {"grow", "pointer", "length", "store", "move"} => m.len >= 1

MemoryTyped ==
  /\ arrays \in Seq(Seq(Order))
  /\ orders \in [arr : DOMAIN arrays, len : Nat, cap : Nat]
  /\ ideal \in Seq(Order)

HandlersTyped ==
  /\ pc \in [Requests -> Labels]
  /\ my \in [Requests -> Handlers]
  /\ \A r \in Requests : my[r].arr \in DOMAIN arrays /\ Ready(pc[r], my[r])

QueueTyped ==
  /\ queue \in Seq(Events) /\ inbox \in Seq(Events)
  /\ received \in Seq(Events) /\ before \in [Requests -> SUBSET Requests]
  /\ consumer \in {"up", "down"} /\ lost \subseteq Events /\ faults \in 0..MaxFaults

HistoryTyped ==
  alone \subseteq Requests /\ raced \in BOOLEAN /\ values \in [Requests -> SUBSET Order]

TInv == MemoryTyped /\ HandlersTyped /\ QueueTyped /\ HistoryTyped

LEMMA WildTyped == Wild \subseteq Order
<1>1. Cardinality(Requests) \in Nat
  BY OrderSliceAssumption, FS_CardinalityType
<1> QED
  BY <1>1 DEF Wild, Order

LEMMA ZeroTyped == Zero \in Order
BY DEF Zero, Order

LEMMA AtTyped ==
  ASSUME MemoryTyped, NEW a \in DOMAIN arrays, NEW i \in Nat \ {0}
  PROVE  At(a, i) \subseteq Order
<1>1. arrays[a] \in Seq(Order)
  BY DEF MemoryTyped
<1>2. i <= Len(arrays[a]) => arrays[a][i] \in Order
  BY <1>1, ElementOfSeq
<1> QED
  BY <1>2, WildTyped DEF At

LEMMA GrownTyped ==
  ASSUME MemoryTyped, NEW a \in DOMAIN arrays, NEW n \in Nat, NEW c \in Nat,
         NEW s \in Grown(a, n, c)
  PROVE  /\ s \in Seq(Order) /\ Len(s) >= n + 1
         /\ \A i \in 1..n : s[i] \in At(a, i)
<1>2. PICK cap \in Nat : /\ cap >= n + 1
                         /\ s \in [1..cap -> UNION {At(a, i) : i \in 1..n} \cup {Zero}]
                         /\ \A i \in 1..cap : IF i <= n THEN s[i] \in At(a, i) ELSE s[i] = Zero
  <2> DEFINE double == 2 * c
             cap == IF n + 1 > double THEN n + 1 ELSE double
  <2>1. cap \in Nat /\ cap >= n + 1
    OBVIOUS
  <2>2. /\ s \in [1..cap -> UNION {At(a, i) : i \in 1..n} \cup {Zero}]
        /\ \A i \in 1..cap : IF i <= n THEN s[i] \in At(a, i) ELSE s[i] = Zero
    BY DEF Grown
  <2> HIDE DEF cap
  <2> QED
    BY <2>1, <2>2
<1>3. \A i \in 1..cap : s[i] \in Order
  BY <1>2, AtTyped, ZeroTyped
<1>4. s \in [1..cap -> Order]
  BY <1>2, <1>3
<1>5. s \in Seq(Order) /\ Len(s) = cap
  BY <1>2, <1>4
<1> QED
  BY <1>2, <1>5

\* A store changes one element of one array, or none.
LEMMA PutTyped ==
  ASSUME MemoryTyped, NEW a \in DOMAIN arrays, NEW i \in Nat \ {0}, NEW x \in Order, Put(a, i, x)
  PROVE  /\ arrays' \in Seq(Seq(Order)) /\ DOMAIN arrays' = DOMAIN arrays
         /\ Len(arrays'[a]) = Len(arrays[a])
         /\ \A j \in 1..Len(arrays[a]) : arrays'[a][j] = IF j = i THEN x ELSE arrays[a][j]
<1>1. arrays \in Seq(Seq(Order)) /\ arrays[a] \in Seq(Order)
  BY DEF MemoryTyped
<1>2. CASE i > Len(arrays[a])
  BY <1>1, <1>2 DEF Put
<1>3. CASE i <= Len(arrays[a])
  <2> DEFINE s == [arrays[a] EXCEPT ![i] = x]
  <2>1. s \in Seq(Order) /\ Len(s) = Len(arrays[a])
        /\ \A j \in 1..Len(arrays[a]) : s[j] = IF j = i THEN x ELSE arrays[a][j]
    BY <1>1, <1>3, ExceptSeq
  <2>2. arrays' = [arrays EXCEPT ![a] = s]
    BY <1>3 DEF Put
  <2> HIDE DEF s
  <2>3. a \in 1..Len(arrays)
    BY <1>1
  <2>4. arrays' \in Seq(Seq(Order)) /\ Len(arrays') = Len(arrays) /\ arrays'[a] = s
    BY <1>1, <2>1, <2>2, <2>3, ExceptSeq
  <2> QED
    BY <1>1, <2>1, <2>4
<1> QED
  BY <1>1, <1>2, <1>3

---------------------------------------------------------------------------
(* The first order with an id.                                             *)

LEMMA FirstIsHit ==
  ASSUME NEW s \in Seq(Order), NEW n, Hits(s, n) # {}
  PROVE  /\ First(s, n) \in 1..Len(s) /\ s[First(s, n)].id = n
         /\ \A j \in 1..(First(s, n) - 1) : s[j].id # n
<1> DEFINE less == {ss \in Nat \X Nat : ss[1] < ss[2]}
           S == Hits(s, n)
<1>1. IsWellFoundedOn(less, Nat)
  BY NatLessThanWellFounded, Zenon DEF OpToRel
<1>2. S # {} /\ S \subseteq Nat /\ S \subseteq 1..Len(s) /\ \A i \in S : s[i].id = n
  BY DEF Hits
<1>3. PICK i \in S : \A j \in S : ~(<<j, i>> \in less)
  <2> HIDE DEF less, S
  <2> QED
    BY <1>1, <1>2, WFMin
<1>4. ASSUME NEW j \in S PROVE i <= j
  <2>1. i \in Nat /\ j \in Nat
    BY <1>2
  <2>2. j < i => <<j, i>> \in less
    BY <2>1
  <2> QED
    BY <1>3, <2>1, <2>2
<1>5. First(s, n) \in S /\ \A j \in S : First(s, n) <= j
  BY <1>4 DEF First
<1>6. ASSUME NEW j \in 1..(First(s, n) - 1) PROVE s[j].id # n
  <2>1. First(s, n) \in 1..Len(s) /\ Len(s) \in Nat
    BY <1>2, <1>5
  <2>2. j \in 1..Len(s) /\ ~(First(s, n) <= j)
    BY <2>1
  <2> QED
    BY <1>5, <2>2 DEF Hits
<1> QED
  BY <1>2, <1>5, <1>6

\* A hit that no other comes before is the first.
LEMMA FirstFound ==
  ASSUME NEW s \in Seq(Order), NEW n, NEW k \in 1..Len(s), s[k].id = n,
         \A j \in 1..(k - 1) : s[j].id # n
  PROVE  k \in Hits(s, n) /\ First(s, n) = k
<1>1. k \in Hits(s, n) /\ Hits(s, n) \subseteq 1..Len(s)
  BY DEF Hits
<1>2. \A j \in Hits(s, n) : k <= j
  BY DEF Hits
<1>3. \A i \in Hits(s, n) : (\A j \in Hits(s, n) : i <= j) => i = k
  BY <1>1, <1>2
<1>4. First(s, n) = k
  BY <1>1, <1>2, <1>3 DEF First
<1> QED
  BY <1>1, <1>4

LEMMA RemoveAtIs ==
  ASSUME NEW s \in Seq(Order), NEW k \in 1..Len(s)
  PROVE  /\ RemoveAt(s, k) \in Seq(Order)
         /\ Len(RemoveAt(s, k)) = Len(s) - 1
         /\ \A j \in 1..(Len(s) - 1) : RemoveAt(s, k)[j] = IF j < k THEN s[j] ELSE s[j + 1]
<1> DEFINE front == SubSeq(s, 1, k - 1)
           rest == SubSeq(s, k + 1, Len(s))
<1>1. Len(s) \in Nat /\ \A i \in 1..Len(s) : s[i] \in Order
  BY ElementOfSeq
<1>2. /\ front \in Seq(Order) /\ Len(front) = k - 1
      /\ \A i \in 1..(k - 1) : front[i] = s[i]
  <2>1. 1 \in Int /\ k - 1 \in Int /\ \A i \in 1..(k - 1) : s[i] \in Order
    BY <1>1
  <2>2. /\ front \in Seq(Order)
        /\ Len(front) = IF 1 <= k - 1 THEN (k - 1) - 1 + 1 ELSE 0
        /\ \A i \in 1..((k - 1) - 1 + 1) : front[i] = s[1 + i - 1]
    BY <2>1, SubSeqProperties
  <2> QED
    BY <1>1, <2>2
<1>3. /\ rest \in Seq(Order) /\ Len(rest) = Len(s) - k
      /\ \A i \in 1..(Len(s) - k) : rest[i] = s[k + i]
  <2>1. k + 1 \in Int /\ Len(s) \in Int /\ \A i \in (k + 1)..Len(s) : s[i] \in Order
    BY <1>1
  <2>2. /\ rest \in Seq(Order)
        /\ Len(rest) = IF k + 1 <= Len(s) THEN Len(s) - (k + 1) + 1 ELSE 0
        /\ \A i \in 1..(Len(s) - (k + 1) + 1) : rest[i] = s[(k + 1) + i - 1]
    BY <2>1, SubSeqProperties
  <2> QED
    BY <1>1, <2>2
<1>4. RemoveAt(s, k) = front \o rest
  BY DEF RemoveAt
<1> HIDE DEF front, rest
<1>5. /\ front \o rest \in Seq(Order) /\ Len(front \o rest) = Len(front) + Len(rest)
      /\ \A i \in 1..(Len(front) + Len(rest)) :
           (front \o rest)[i] = IF i <= Len(front) THEN front[i] ELSE rest[i - Len(front)]
  BY <1>2, <1>3, ConcatProperties
<1>6. Len(front) + Len(rest) = Len(s) - 1
  BY <1>1, <1>2, <1>3
<1>7. ASSUME NEW j \in 1..(Len(s) - 1)
      PROVE  (front \o rest)[j] = IF j < k THEN s[j] ELSE s[j + 1]
  <2>1. CASE j < k
    BY <1>1, <1>2, <1>5, <1>6, <2>1
  <2>2. CASE j >= k
    <3>1. (front \o rest)[j] = rest[j - (k - 1)] /\ j - (k - 1) \in 1..(Len(s) - k)
      BY <1>1, <1>2, <1>5, <1>6, <2>2
    <3>2. rest[j - (k - 1)] = s[k + (j - (k - 1))]
      BY <1>3, <3>1
    <3> QED
      BY <1>1, <2>2, <3>1, <3>2
  <2>3. j < k \/ j >= k
    BY <1>1
  <2> QED
    BY <2>1, <2>2, <2>3
<1> QED
  BY <1>4, <1>5, <1>6, <1>7

---------------------------------------------------------------------------
(* Each step keeps the types.                                              *)

\* What a handler's step does to the handlers.
Steps(r, l, m) ==
  /\ pc' = [pc EXCEPT ![r] = l]
  /\ my' = [my EXCEPT ![r] = m]

LEMMA HandlerTyped ==
  ASSUME TInv, NEW r \in Requests
  PROVE  /\ arrays \in Seq(Seq(Order)) /\ orders.arr \in DOMAIN arrays
         /\ orders.len \in Nat /\ orders.cap \in Nat
         /\ DOMAIN arrays = 1..Len(arrays) /\ Len(arrays) \in Nat /\ ideal \in Seq(Order)
         /\ pc[r] \in Labels /\ my[r] \in Handlers /\ Ready(pc[r], my[r])
         /\ my[r].arr \in DOMAIN arrays /\ my[r].len \in Nat /\ my[r].cap \in Nat
         /\ my[r].i \in Nat /\ my[r].seen \in Seq(Order)
         /\ arrays[orders.arr] \in Seq(Order) /\ arrays[my[r].arr] \in Seq(Order)
         /\ orders = [arr |-> orders.arr, len |-> orders.len, cap |-> orders.cap]
         /\ pc \in [Requests -> Labels] /\ my \in [Requests -> Handlers]
         /\ orders \in [arr : DOMAIN arrays, len : Nat, cap : Nat]
         /\ Len(ideal) \in Nat /\ Len(arrays[my[r].arr]) \in Nat /\ Len(arrays[orders.arr]) \in Nat
<1>1. /\ arrays \in Seq(Seq(Order)) /\ ideal \in Seq(Order)
      /\ orders \in [arr : DOMAIN arrays, len : Nat, cap : Nat]
  BY DEF TInv, MemoryTyped
<1>2. /\ pc \in [Requests -> Labels] /\ my \in [Requests -> Handlers]
      /\ my[r].arr \in DOMAIN arrays /\ Ready(pc[r], my[r])
  BY DEF TInv, HandlersTyped
<1>3. /\ orders.arr \in DOMAIN arrays /\ orders.len \in Nat /\ orders.cap \in Nat
      /\ orders = [arr |-> orders.arr, len |-> orders.len, cap |-> orders.cap]
  BY <1>1
<1>4. /\ my[r] \in Handlers /\ my[r].len \in Nat /\ my[r].cap \in Nat
      /\ my[r].i \in Nat /\ my[r].seen \in Seq(Order)
  BY <1>2 DEF Handlers
<1>5. /\ DOMAIN arrays = 1..Len(arrays) /\ Len(arrays) \in Nat /\ Len(ideal) \in Nat
      /\ \A a \in DOMAIN arrays : arrays[a] \in Seq(Order) /\ Len(arrays[a]) \in Nat
  BY <1>1
<1> QED
  BY <1>1, <1>2, <1>3, <1>4, <1>5

LEMMA FreshTyped ==
  ASSUME TInv
  PROVE  Fresh \in Handlers /\ Fresh.arr \in DOMAIN arrays
<1>1. << >> \in Seq(Order)
  BY EmptySeq
<1>2. 1 \in DOMAIN arrays
  BY DEF TInv, MemoryTyped
<1> QED
  BY <1>1, <1>2 DEF Fresh, Handlers

LEMMA StepTyped ==
  ASSUME TInv, NEW r \in Requests, NEW l \in Labels, NEW m \in Handlers, Steps(r, l, m),
         Ready(l, m), m.arr \in DOMAIN arrays', DOMAIN arrays \subseteq DOMAIN arrays'
  PROVE  HandlersTyped'
<1>1. pc' \in [Requests -> Labels] /\ my' \in [Requests -> Handlers]
  BY DEF TInv, HandlersTyped, Steps
<1>2. ASSUME NEW q \in Requests
      PROVE  my'[q].arr \in DOMAIN arrays' /\ Ready(pc'[q], my'[q])
  <2>1. CASE q = r
    BY <2>1 DEF TInv, HandlersTyped, Steps
  <2>2. CASE q # r
    BY <2>2 DEF TInv, HandlersTyped, Steps
  <2> QED
    BY <2>1, <2>2
<1>3. HandlersTyped' <=> /\ pc' \in [Requests -> Labels] /\ my' \in [Requests -> Handlers]
                         /\ \A q \in Requests : my'[q].arr \in DOMAIN arrays' /\ Ready(pc'[q], my'[q])
  BY DEF HandlersTyped, Handlers, Ready
<1> QED
  BY <1>1, <1>2, <1>3

LEMMA AnswerTyped ==
  ASSUME TInv, NEW r \in Requests, NEW a, Answer(r, a), DOMAIN arrays' = DOMAIN arrays
  PROVE  HandlersTyped'
<1>1. Steps(r, "done", Fresh)
  BY DEF Answer, Goto, Steps
<1>2. "done" \in Labels /\ Ready("done", Fresh)
  BY DEF Labels, RestLabels, Ready, ArrayLabels, ScanLabels, ChangeLabels, CutLabels
<1> QED
  BY <1>1, <1>2, FreshTyped, StepTyped

\* No step but the creation of an array touches the set of arrays.
LEMMA SameMemory ==
  ASSUME TInv, UNCHANGED memory, ideal' \in Seq(Order)
  PROVE  MemoryTyped' /\ DOMAIN arrays' = DOMAIN arrays
BY DEF TInv, MemoryTyped, memory

\* What Ready says at each label.
LEMMA ReadyAt ==
  ASSUME NEW m
  PROVE  LET known == m.ask \in Asks
             op    == m.ask.op IN
         /\ Ready("idle", m) /\ Ready("publish", m) /\ Ready("answer", m) /\ Ready("done", m)
         /\ \A l \in {"array", "append"} : Ready(l, m) <=> known /\ op = "POST"
         /\ \A l \in {"grow", "pointer", "length", "store"} :
              Ready(l, m) <=> known /\ op = "POST" /\ m.len >= 1
         /\ \A l \in ScanLabels : Ready(l, m) <=> known /\ op # "POST" /\ m.i >= 1
         /\ \A l \in ChangeLabels : Ready(l, m) <=> known /\ op \in {"PUT", "DELETE"} /\ m.i >= 1
         /\ Ready("move", m) <=> known /\ op = "DELETE" /\ m.i >= 1 /\ m.len >= 1
         /\ Ready("cut", m) <=> known /\ op = "DELETE" /\ m.i >= 1
BY DEF Ready, RestLabels, ArrayLabels, ScanLabels, ChangeLabels, CutLabels

LEMMA LabelsAre ==
  Labels = {"idle", "publish", "answer", "done", "array", "append", "grow", "pointer", "length",
            "store",
            "range", "scan", "found", "change", "move", "cut"}
BY DEF Labels, RestLabels, ArrayLabels, ScanLabels, ChangeLabels, CutLabels

LEMMA BeginTyped ==
  ASSUME TInv, NEW r \in Requests, Begin(r)
  PROVE  MemoryTyped' /\ HandlersTyped'
<1>1. MemoryTyped' /\ DOMAIN arrays' = DOMAIN arrays
  BY SameMemory DEF Begin, TInv, MemoryTyped
<1>2. PICK a \in Asks :
        IF a.op = "POST"
          THEN /\ pc' = [pc EXCEPT ![r] = "array"]
               /\ my' = [my EXCEPT ![r].ask = a, ![r].i = orders.len + 1]
          ELSE /\ pc' = [pc EXCEPT ![r] = "range"]
               /\ my' = [my EXCEPT ![r].ask = a, ![r].arr = orders.arr, ![r].i = 1]
  BY DEF Begin, Goto
<1>3. /\ my[r] \in Handlers /\ my[r].arr \in DOMAIN arrays
      /\ orders.len + 1 \in Nat /\ orders.arr \in Nat /\ orders.arr \in DOMAIN arrays
  BY HandlerTyped
<1>4. CASE a.op = "POST"
  <2> DEFINE m == [my[r] EXCEPT !.ask = a, !.i = orders.len + 1]
  <2>1. m \in Handlers
    BY <1>3 DEF Handlers
  <2>2. m.ask = a /\ m.arr = my[r].arr
    BY <1>3 DEF Handlers
  <2>3. Steps(r, "array", m)
    BY <1>2, <1>4 DEF Steps
  <2> HIDE DEF m
  <2> QED
    BY <1>1, <1>3, <1>4, <2>1, <2>2, <2>3, ReadyAt, LabelsAre, StepTyped
<1>5. CASE a.op # "POST"
  <2> DEFINE m == [my[r] EXCEPT !.ask = a, !.arr = orders.arr, !.i = 1]
  <2>1. m \in Handlers
    BY <1>3 DEF Handlers
  <2>2. m.ask = a /\ m.arr = orders.arr /\ m.i = 1
    BY <1>3 DEF Handlers
  <2>3. Steps(r, "range", m)
    BY <1>2, <1>5 DEF Steps
  <2> HIDE DEF m
  <2>4. Ready("range", m) /\ "range" \in Labels
    BY <1>5, <2>2, ReadyAt, LabelsAre DEF ScanLabels
  <2> QED
    BY <1>1, <1>3, <2>1, <2>2, <2>3, <2>4, StepTyped
<1> QED
  BY <1>4, <1>5

LEMMA RefuseTyped ==
  ASSUME TInv, NEW r \in Requests, Refuse(r)
  PROVE  MemoryTyped' /\ HandlersTyped'
BY SameMemory, AnswerTyped DEF Refuse, history, TInv, MemoryTyped

LEMMA LoadArrayTyped ==
  ASSUME TInv, NEW r \in Requests,
         LoadArray(r, "array", "append") \/ LoadArray(r, "found", "change")
  PROVE  MemoryTyped' /\ HandlersTyped'
<1>1. MemoryTyped' /\ DOMAIN arrays' = DOMAIN arrays
  BY SameMemory DEF LoadArray, history, TInv, MemoryTyped
<1> DEFINE m == [my[r] EXCEPT !.arr = orders.arr, !.cap = orders.cap]
<1>2. PICK l \in {"append", "change"} :
        Steps(r, l, m) /\ pc[r] = IF l = "append" THEN "array" ELSE "found"
  BY DEF LoadArray, Goto, Steps
<1>3. /\ my[r] \in Handlers /\ Ready(pc[r], my[r])
      /\ orders.arr \in Nat /\ orders.arr \in DOMAIN arrays /\ orders.cap \in Nat
  BY HandlerTyped
<1>4. m \in Handlers
  BY <1>3 DEF Handlers
<1>5. m.arr = orders.arr /\ m.ask = my[r].ask /\ m.i = my[r].i
  BY <1>3 DEF Handlers
<1> HIDE DEF m
<1>6. Ready(l, m) /\ l \in Labels
  BY <1>2, <1>3, <1>5, ReadyAt, LabelsAre DEF ChangeLabels
<1> QED
  BY <1>1, <1>2, <1>3, <1>4, <1>5, <1>6, StepTyped

LEMMA ExtendTyped ==
  ASSUME TInv, NEW r \in Requests, Extend(r)
  PROVE  MemoryTyped' /\ HandlersTyped'
<1> DEFINE n == orders.len
           a == my[r].arr
           room == n + 1 <= my[r].cap
           m1 == [my[r] EXCEPT !.len = n + 1]
<1>1. /\ n \in Nat /\ n + 1 \in Nat /\ a \in DOMAIN arrays /\ pc[r] = "append" /\ UNCHANGED ideal
      /\ my[r] \in Handlers /\ Ready("append", my[r]) /\ Len(arrays) + 1 \in Nat
      /\ my[r].cap \in Nat
  <2>1. pc[r] = "append" /\ UNCHANGED ideal
    BY DEF Extend, history
  <2> QED
    BY <2>1, HandlerTyped
<1>2. CASE room
  <2>1. Steps(r, "store", m1) /\ UNCHANGED arrays /\ orders' = [orders EXCEPT !.len = n + 1]
    BY <1>2 DEF Extend, Goto, Steps
  <2>2. m1 \in Handlers
    BY <1>1 DEF Handlers
  <2>3. m1.arr = a /\ m1.ask = my[r].ask /\ m1.len = n + 1
    BY <1>1 DEF Handlers
  <2>4. MemoryTyped'
    BY <1>1, <2>1 DEF TInv, MemoryTyped
  <2> HIDE DEF m1, a
  <2>5. Ready("store", m1) /\ "store" \in Labels
    BY <1>1, <2>3, ReadyAt, LabelsAre
  <2> QED
    BY <1>1, <2>1, <2>2, <2>3, <2>4, <2>5, StepTyped
<1>3. CASE ~room
  <2>2. PICK s \in Grown(a, n, my[r].cap) :
          /\ arrays' = Append(arrays, s)
          /\ my' = [my EXCEPT ![r].arr = Len(arrays) + 1, ![r].len = n + 1, ![r].cap = Len(s)]
    BY <1>3 DEF Extend
  <2> DEFINE m2 == [my[r] EXCEPT !.arr = Len(arrays) + 1, !.len = n + 1, !.cap = Len(s)]
  <2>1. Steps(r, "grow", m2) /\ UNCHANGED orders
    BY <1>3, <2>2 DEF Extend, Goto, Steps
  <2>3. s \in Seq(Order) /\ Len(s) \in Nat
    BY <1>1, GrownTyped DEF TInv
  <2>4. /\ arrays' \in Seq(Seq(Order)) /\ DOMAIN arrays \subseteq DOMAIN arrays'
        /\ Len(arrays) + 1 \in DOMAIN arrays'
    <3>1. arrays \in Seq(Seq(Order)) /\ DOMAIN arrays = 1..Len(arrays) /\ Len(arrays) \in Nat
      BY HandlerTyped
    <3>2. arrays' \in Seq(Seq(Order)) /\ Len(arrays') = Len(arrays) + 1
      BY <2>2, <2>3, <3>1, AppendProperties
    <3> QED
      BY <3>1, <3>2
  <2>5. m2 \in Handlers
    BY <1>1, <2>3 DEF Handlers
  <2>6. m2.arr = Len(arrays) + 1 /\ m2.ask = my[r].ask /\ m2.len = n + 1
    BY <1>1 DEF Handlers
  <2>7. MemoryTyped'
    BY <1>1, <2>1, <2>4 DEF TInv, MemoryTyped
  <2> HIDE DEF m2, a
  <2>8. Ready("grow", m2) /\ "grow" \in Labels
    BY <1>1, <2>6, ReadyAt, LabelsAre
  <2> QED
    BY <2>1, <2>4, <2>5, <2>6, <2>7, <2>8, StepTyped
<1> QED
  BY <1>2, <1>3

LEMMA StoreCapacityTyped ==
  ASSUME TInv, NEW r \in Requests, StoreCapacity(r)
  PROVE  MemoryTyped' /\ HandlersTyped'
<1>1. MemoryTyped' /\ DOMAIN arrays' = DOMAIN arrays
  BY HandlerTyped DEF StoreCapacity, history, TInv, MemoryTyped
<1>2. Steps(r, "pointer", my[r]) /\ pc[r] = "grow"
  BY DEF StoreCapacity, Goto, Steps, TInv, HandlersTyped
<1>3. Ready("pointer", my[r]) /\ "pointer" \in Labels
  BY <1>2, HandlerTyped, ReadyAt, LabelsAre
<1> QED
  BY <1>1, <1>2, <1>3, HandlerTyped, StepTyped

LEMMA StoreArrayTyped ==
  ASSUME TInv, NEW r \in Requests, StoreArray(r)
  PROVE  MemoryTyped' /\ HandlersTyped'
<1>1. MemoryTyped' /\ DOMAIN arrays' = DOMAIN arrays
  BY HandlerTyped DEF StoreArray, history, TInv, MemoryTyped
<1>2. Steps(r, "length", my[r]) /\ pc[r] = "pointer"
  BY DEF StoreArray, Goto, Steps, TInv, HandlersTyped
<1>3. Ready("length", my[r]) /\ "length" \in Labels
  BY <1>2, HandlerTyped, ReadyAt, LabelsAre
<1> QED
  BY <1>1, <1>2, <1>3, HandlerTyped, StepTyped

LEMMA StoreLengthTyped ==
  ASSUME TInv, NEW r \in Requests, StoreLength(r)
  PROVE  MemoryTyped' /\ HandlersTyped'
<1>1. MemoryTyped' /\ DOMAIN arrays' = DOMAIN arrays
  BY HandlerTyped DEF StoreLength, history, TInv, MemoryTyped
<1>2. Steps(r, "store", my[r]) /\ pc[r] = "length"
  BY DEF StoreLength, Goto, Steps, TInv, HandlersTyped
<1>3. Ready("store", my[r]) /\ "store" \in Labels
  BY <1>2, HandlerTyped, ReadyAt, LabelsAre
<1> QED
  BY <1>1, <1>2, <1>3, HandlerTyped, StepTyped

LEMMA StoreOrderTyped ==
  ASSUME TInv, NEW r \in Requests, StoreOrder(r)
  PROVE  MemoryTyped' /\ HandlersTyped'
<1> DEFINE x == [id |-> my[r].i, data |-> r]
           m == [Fresh EXCEPT !.i = my[r].i]
<1>1. x \in Order /\ my[r].len \in Nat \ {0}
  BY HandlerTyped, ReadyAt DEF StoreOrder, Order
<1>2. Put(my[r].arr, my[r].len, x) /\ ideal' = Append(ideal, x) /\ UNCHANGED orders
      /\ Steps(r, "publish", m)
  BY DEF StoreOrder, Goto, Steps
<1>3. m \in Handlers /\ m.arr \in DOMAIN arrays
  BY FreshTyped, HandlerTyped DEF Handlers
<1>4. Ready("publish", m) /\ "publish" \in Labels
  BY ReadyAt, LabelsAre
<1> HIDE DEF x, m
<1>5. arrays' \in Seq(Seq(Order)) /\ DOMAIN arrays' = DOMAIN arrays
  BY <1>1, <1>2, HandlerTyped, PutTyped DEF TInv
<1>6. ideal' \in Seq(Order)
  BY <1>1, <1>2, HandlerTyped, AppendProperties
<1>7. MemoryTyped'
  BY <1>2, <1>5, <1>6 DEF TInv, MemoryTyped
<1> QED
  BY <1>2, <1>3, <1>4, <1>5, <1>7, StepTyped

LEMMA LoadLengthTyped ==
  ASSUME TInv, NEW r \in Requests, LoadLength(r)
  PROVE  MemoryTyped' /\ HandlersTyped'
<1> DEFINE m == [my[r] EXCEPT !.len = orders.len]
<1>1. MemoryTyped' /\ DOMAIN arrays' = DOMAIN arrays
  BY SameMemory DEF LoadLength, history, TInv, MemoryTyped
<1>2. Steps(r, "scan", m) /\ pc[r] = "range"
  BY DEF LoadLength, Goto, Steps
<1>3. my[r] \in Handlers /\ orders.len \in Nat /\ Ready(pc[r], my[r]) /\ my[r].arr \in DOMAIN arrays
  BY HandlerTyped
<1>4. m \in Handlers /\ m.arr = my[r].arr /\ m.ask = my[r].ask /\ m.i = my[r].i
  BY <1>3 DEF Handlers
<1> HIDE DEF m
<1>5. Ready("scan", m) /\ "scan" \in Labels
  BY <1>2, <1>3, <1>4, ReadyAt, LabelsAre DEF ScanLabels
<1> QED
  BY <1>1, <1>2, <1>3, <1>4, <1>5, StepTyped

LEMMA ScanEndTyped ==
  ASSUME TInv, NEW r \in Requests, ScanEnd(r)
  PROVE  MemoryTyped' /\ HandlersTyped'
BY SameMemory, AnswerTyped DEF ScanEnd, history, TInv, MemoryTyped

LEMMA ScanTyped ==
  ASSUME TInv, NEW r \in Requests, Scan(r)
  PROVE  MemoryTyped' /\ HandlersTyped'
<1>1. MemoryTyped' /\ DOMAIN arrays' = DOMAIN arrays
  BY SameMemory DEF Scan, history, TInv, MemoryTyped
<1>2. /\ my[r] \in Handlers /\ Ready("scan", my[r]) /\ pc[r] = "scan" /\ my[r].arr \in DOMAIN arrays
      /\ my[r].i \in Nat /\ my[r].i >= 1 /\ my[r].seen \in Seq(Order)
      /\ my[r].ask \in AllAsks /\ my[r].ask.op # "POST"
  BY HandlerTyped, ReadyAt, OrderSliceAssumption DEF Scan, ScanLabels
<1>3. PICK x \in At(my[r].arr, my[r].i) :
        \/ Steps(r, "scan", [my[r] EXCEPT !.i = my[r].i + 1, !.seen = Append(my[r].seen, x)])
        \/ Steps(r, "scan", [my[r] EXCEPT !.i = my[r].i + 1])
        \/ \E a : Answer(r, a)
        \/ my[r].ask.op \notin {"LIST", "GET"} /\ Steps(r, "found", my[r])
  <2>1. pc \in [Requests -> Labels] /\ my \in [Requests -> Handlers]
    BY DEF TInv, HandlersTyped
  <2>2. [pc EXCEPT ![r] = "scan"] = pc /\ [my EXCEPT ![r] = my[r]] = my
    BY <1>2, <2>1
  <2>3. PICK x \in At(my[r].arr, my[r].i) :
          IF my[r].ask.op = "LIST"
            THEN my' = [my EXCEPT ![r].i = @ + 1, ![r].seen = Append(@, x)] /\ UNCHANGED pc
          ELSE IF x.id # my[r].ask.id
            THEN my' = [my EXCEPT ![r].i = @ + 1] /\ UNCHANGED pc
          ELSE IF my[r].ask.op = "GET" THEN Answer(r, Found(x))
          ELSE Goto(r, "found") /\ UNCHANGED my
    BY DEF Scan
  <2>4. [my EXCEPT ![r].i = @ + 1] = [my EXCEPT ![r] = [my[r] EXCEPT !.i = my[r].i + 1]]
    BY <1>2, <2>1
  <2>5. [my EXCEPT ![r].i = @ + 1, ![r].seen = Append(@, x)]
          = [my EXCEPT ![r] = [my[r] EXCEPT !.i = my[r].i + 1, !.seen = Append(my[r].seen, x)]]
    BY <1>2, <2>1 DEF Handlers
  <2> QED
    BY <2>2, <2>3, <2>4, <2>5 DEF Goto, Steps
<1>4. x \in Order
  BY <1>2, AtTyped DEF TInv
<1>5. CASE Steps(r, "scan", [my[r] EXCEPT !.i = my[r].i + 1, !.seen = Append(my[r].seen, x)])
  <2> DEFINE m == [my[r] EXCEPT !.i = my[r].i + 1, !.seen = Append(my[r].seen, x)]
  <2>1. Append(my[r].seen, x) \in Seq(Order)
    BY <1>2, <1>4, AppendProperties
  <2>2. m \in Handlers /\ m.arr = my[r].arr /\ m.ask = my[r].ask /\ m.i = my[r].i + 1
    <3>1. my[r].i + 1 \in Nat
      BY <1>2
    <3> QED
      BY <1>2, <2>1, <3>1 DEF Handlers
  <2>3. Steps(r, "scan", m)
    BY <1>5
  <2> HIDE DEF m
  <2>4. Ready("scan", m) /\ "scan" \in Labels
    BY <1>2, <2>2, ReadyAt, LabelsAre DEF ScanLabels
  <2> QED
    BY <1>1, <1>2, <2>2, <2>3, <2>4, StepTyped
<1>6. CASE Steps(r, "scan", [my[r] EXCEPT !.i = my[r].i + 1])
  <2> DEFINE m == [my[r] EXCEPT !.i = my[r].i + 1]
  <2>1. m \in Handlers /\ m.arr = my[r].arr /\ m.ask = my[r].ask /\ m.i = my[r].i + 1
    BY <1>2 DEF Handlers
  <2>2. Steps(r, "scan", m)
    BY <1>6
  <2> HIDE DEF m
  <2>3. Ready("scan", m) /\ "scan" \in Labels
    BY <1>2, <2>1, ReadyAt, LabelsAre DEF ScanLabels
  <2> QED
    BY <1>1, <1>2, <2>1, <2>2, <2>3, StepTyped
<1>7. CASE \E a : Answer(r, a)
  BY <1>1, <1>7, AnswerTyped
<1>8. CASE my[r].ask.op \notin {"LIST", "GET"} /\ Steps(r, "found", my[r])
  <2>1. my[r].ask.op \in {"PUT", "DELETE"}
    BY <1>2, <1>8 DEF AllAsks
  <2>2. Ready("found", my[r]) /\ "found" \in Labels
    BY <1>2, <2>1, ReadyAt, LabelsAre DEF ScanLabels, ChangeLabels
  <2> QED
    BY <1>1, <1>2, <1>8, <2>2, StepTyped
<1> QED
  BY <1>3, <1>5, <1>6, <1>7, <1>8

\* What the service that serves one request at a time has after a PUT.
LEMMA ReplacedTyped ==
  ASSUME NEW s \in Seq(Order), NEW x \in Order
  PROVE  LET t == [i \in DOMAIN s |-> IF i \in Hits(s, x.id) /\ i = First(s, x.id) THEN x ELSE s[i]]
         IN  t \in Seq(Order) /\ Len(t) = Len(s)
<1> DEFINE t == [i \in DOMAIN s |-> IF i \in Hits(s, x.id) /\ i = First(s, x.id) THEN x ELSE s[i]]
<1>1. DOMAIN s = 1..Len(s) /\ Len(s) \in Nat /\ \A i \in 1..Len(s) : s[i] \in Order
  BY ElementOfSeq
<1>2. t \in [1..Len(s) -> Order]
  BY <1>1
<1> HIDE DEF t
<1>3. t \in Seq(Order) /\ Len(t) = Len(s)
  BY <1>1, <1>2
<1> QED
  BY <1>3 DEF t

LEMMA UpdateTyped ==
  ASSUME TInv, NEW r \in Requests, Update(r)
  PROVE  MemoryTyped' /\ HandlersTyped'
<1> DEFINE x == [id |-> my[r].ask.id, data |-> r]
<1>1. /\ pc[r] = "change" /\ Ready("change", my[r]) /\ my[r].i \in Nat \ {0}
      /\ my[r].ask \in Asks /\ my[r].ask.op = "PUT"
  BY HandlerTyped, ReadyAt DEF Update, ChangeLabels
<1>2. x \in Order
  BY <1>1, OrderSliceAssumption DEF AllAsks, Order
<1>3. CASE my[r].i > orders.len
  <2>1. UNCHANGED <<arrays, orders, ideal>> /\ Answer(r, Panic)
    BY <1>3 DEF Update
  <2> QED
    BY <2>1, SameMemory, AnswerTyped DEF TInv, MemoryTyped, memory
<1>4. CASE ~(my[r].i > orders.len)
  <2> DEFINE t == [i \in DOMAIN ideal |->
                    IF i \in Hits(ideal, x.id) /\ i = First(ideal, x.id) THEN x ELSE ideal[i]]
  <2>1. Put(my[r].arr, my[r].i, x) /\ UNCHANGED orders /\ ideal' = t /\ Answer(r, Found(x))
    BY <1>4 DEF Update, Replaced
  <2>2. t \in Seq(Order)
    BY <1>2, HandlerTyped, ReplacedTyped
  <2> HIDE DEF x, t
  <2>3. arrays' \in Seq(Seq(Order)) /\ DOMAIN arrays' = DOMAIN arrays
    BY <1>1, <1>2, <2>1, HandlerTyped, PutTyped DEF TInv
  <2>4. MemoryTyped'
    BY <2>1, <2>2, <2>3 DEF TInv, MemoryTyped
  <2> QED
    BY <2>1, <2>3, <2>4, AnswerTyped
<1> QED
  BY <1>3, <1>4

LEMMA DeleteTyped ==
  ASSUME TInv, NEW r \in Requests, Delete(r)
  PROVE  MemoryTyped' /\ HandlersTyped'
<1> DEFINE m == [my[r] EXCEPT !.len = orders.len]
<1>1. MemoryTyped' /\ DOMAIN arrays' = DOMAIN arrays
  BY SameMemory DEF Delete, history, TInv, MemoryTyped
<1>2. /\ my[r] \in Handlers /\ orders.len \in Nat /\ Ready("change", my[r]) /\ my[r].arr \in DOMAIN arrays
      /\ my[r].i >= 1 /\ my[r].i \in Nat /\ my[r].ask \in Asks /\ my[r].ask.op = "DELETE"
  BY HandlerTyped, ReadyAt DEF Delete, ChangeLabels
<1>3. CASE my[r].i > orders.len
  BY <1>1, <1>3, AnswerTyped DEF Delete
<1>4. CASE ~(my[r].i > orders.len)
  <2>1. Steps(r, "move", m)
    BY <1>4 DEF Delete, Goto, Steps
  <2>2. m \in Handlers /\ m.arr = my[r].arr /\ m.ask = my[r].ask /\ m.i = my[r].i /\ m.len = orders.len
    BY <1>2 DEF Handlers
  <2> HIDE DEF m
  <2>3. Ready("move", m) /\ "move" \in Labels
    BY <1>2, <1>4, <2>2, ReadyAt, LabelsAre
  <2> QED
    BY <1>1, <1>2, <2>1, <2>2, <2>3, StepTyped
<1> QED
  BY <1>3, <1>4

LEMMA MoveTyped ==
  ASSUME TInv, NEW r \in Requests, Move(r)
  PROVE  MemoryTyped' /\ HandlersTyped'
<1> DEFINE m == [my[r] EXCEPT !.i = @ + 1]
<1>1. /\ my[r] \in Handlers /\ Ready("move", my[r]) /\ my[r].arr \in DOMAIN arrays
      /\ my[r].i \in Nat \ {0} /\ my[r].i + 1 \in Nat \ {0} /\ my[r].ask \in Asks /\ pc[r] = "move"
  BY HandlerTyped, ReadyAt DEF Move
<1>2. PICK x \in At(my[r].arr, my[r].i + 1) : Put(my[r].arr, my[r].i, x)
  BY DEF Move
<1>3. x \in Order
  BY <1>1, AtTyped DEF TInv
<1>4. Steps(r, "move", m) /\ UNCHANGED <<orders, ideal>>
  BY <1>1 DEF Move, Goto, Steps, history, TInv, HandlersTyped
<1>5. arrays' \in Seq(Seq(Order)) /\ DOMAIN arrays' = DOMAIN arrays
  BY <1>1, <1>2, <1>3, PutTyped DEF TInv
<1>6. MemoryTyped'
  BY <1>4, <1>5 DEF TInv, MemoryTyped
<1>7. m \in Handlers /\ m.arr = my[r].arr /\ m.ask = my[r].ask /\ m.i = my[r].i + 1 /\ m.len = my[r].len
  BY <1>1 DEF Handlers
<1> HIDE DEF m
<1>8. Ready("move", m) /\ "move" \in Labels
  BY <1>1, <1>7, ReadyAt, LabelsAre
<1> QED
  BY <1>1, <1>4, <1>5, <1>6, <1>7, <1>8, StepTyped

LEMMA CutLengthTyped ==
  ASSUME TInv, NEW r \in Requests, CutLength(r)
  PROVE  MemoryTyped' /\ HandlersTyped'
<1>1. /\ my[r] \in Handlers /\ Ready("move", my[r]) /\ my[r].arr \in DOMAIN arrays
      /\ my[r].len \in Nat /\ my[r].len >= 1 /\ pc[r] = "move"
  BY HandlerTyped, ReadyAt DEF CutLength
<1>2. UNCHANGED <<arrays, ideal, my>> /\ orders' = [orders EXCEPT !.len = my[r].len - 1]
      /\ Steps(r, "cut", my[r])
  BY DEF CutLength, Goto, Steps, history, TInv, HandlersTyped
<1>3. MemoryTyped'
  <2>1. orders' \in [arr : DOMAIN arrays, len : Nat, cap : Nat]
    <3>1. orders \in [arr : DOMAIN arrays, len : Nat, cap : Nat]
      BY HandlerTyped
    <3>2. my[r].len - 1 \in Nat
      BY <1>1
    <3> QED
      BY <1>2, <3>1, <3>2
  <2> QED
    BY <1>2, <2>1 DEF TInv, MemoryTyped
<1>4. Ready("cut", my[r]) /\ "cut" \in Labels
  BY <1>1, ReadyAt, LabelsAre
<1> QED
  BY <1>1, <1>2, <1>3, <1>4, StepTyped

LEMMA CutArrayTyped ==
  ASSUME TInv, NEW r \in Requests, CutArray(r)
  PROVE  MemoryTyped' /\ HandlersTyped'
<1> DEFINE n == my[r].ask.id
<1>1. UNCHANGED arrays /\ orders' = [orders EXCEPT !.arr = my[r].arr, !.cap = my[r].cap] /\ Answer(r, Deleted)
      /\ ideal' = IF Hits(ideal, n) = {} THEN ideal ELSE RemoveAt(ideal, First(ideal, n))
  BY DEF CutArray
<1>2. ideal' \in Seq(Order)
  <2>1. Hits(ideal, n) # {} => First(ideal, n) \in 1..Len(ideal)
    BY HandlerTyped, FirstIsHit
  <2> HIDE DEF n
  <2>2. Hits(ideal, n) # {} => RemoveAt(ideal, First(ideal, n)) \in Seq(Order)
    BY <2>1, HandlerTyped, RemoveAtIs
  <2> QED
    BY <1>1, <2>2, HandlerTyped
<1>3. MemoryTyped'
  BY <1>1, <1>2, HandlerTyped DEF TInv, MemoryTyped
<1> QED
  BY <1>1, <1>3, AnswerTyped

LEMMA PublishTyped ==
  ASSUME TInv, NEW r \in Requests, Publish(r)
  PROVE  MemoryTyped' /\ HandlersTyped'
<1>1. MemoryTyped' /\ DOMAIN arrays' = DOMAIN arrays
  BY SameMemory DEF Publish, history, TInv, MemoryTyped
<1>2. Steps(r, "answer", my[r])
  BY DEF Publish, Goto, Steps, TInv, HandlersTyped
<1>3. Ready("answer", my[r]) /\ "answer" \in Labels
  BY ReadyAt, LabelsAre
<1> QED
  BY <1>1, <1>2, <1>3, HandlerTyped, StepTyped

LEMMA CreatedTyped ==
  ASSUME TInv, NEW r \in Requests, Created(r)
  PROVE  MemoryTyped' /\ HandlersTyped'
BY SameMemory, AnswerTyped DEF Created, history, TInv, MemoryTyped

LEMMA ServiceDiesTyped ==
  ASSUME TInv, ServiceDies
  PROVE  MemoryTyped' /\ HandlersTyped'
<1>1. /\ arrays' = << << >> >> /\ orders' = [arr |-> 1, len |-> 0, cap |-> 0] /\ ideal' = << >>
      /\ my' = [r \in Requests |-> Fresh]
      /\ pc' \in [Requests -> {"idle", "done"}]
  BY LabelsAre DEF ServiceDies, TInv, HandlersTyped
<1>2. << >> \in Seq(Order) /\ << << >> >> \in Seq(Seq(Order)) /\ DOMAIN << << >> >> = {1}
  <2>1. << >> \in Seq(Order)
    BY EmptySeq
  <2> QED
    BY <2>1
<1>3. MemoryTyped'
  BY <1>1, <1>2 DEF MemoryTyped
<1>4. Fresh \in Handlers /\ Fresh.arr = 1
  BY FreshTyped DEF Fresh
<1>5. pc' \in [Requests -> Labels]
  BY <1>1, LabelsAre
<1>6. \A r \in Requests : my'[r].arr \in DOMAIN arrays' /\ Ready(pc'[r], my'[r])
  BY <1>1, <1>2, <1>4, ReadyAt
<1>7. HandlersTyped' <=> /\ pc' \in [Requests -> Labels] /\ my' \in [Requests -> Handlers]
                         /\ \A q \in Requests : my'[q].arr \in DOMAIN arrays' /\ Ready(pc'[q], my'[q])
  BY DEF HandlersTyped, Handlers, Ready
<1> QED
  BY <1>1, <1>3, <1>4, <1>5, <1>6, <1>7

\* What History and Replaced make of the values.
LEMMA ListingTyped == ASSUME TInv, NEW n PROVE Listing(n) \subseteq Order
<1>1. Hits(ideal, n) # {} => First(ideal, n) \in 1..Len(ideal)
  BY HandlerTyped, FirstIsHit DEF TInv, MemoryTyped
<1> QED
  BY <1>1, ElementOfSeq DEF Listing, TInv, MemoryTyped

LEMMA UpdateHistoryTyped ==
  ASSUME TInv, NEW r \in Requests, Update(r)
  PROVE  HistoryTyped'
<1> DEFINE x == [id |-> my[r].ask.id, data |-> r]
<1>1. my[r].ask \in Asks /\ my[r].ask.op = "PUT"
  BY HandlerTyped, ReadyAt DEF Update, ChangeLabels
<1>2. x \in Order
  BY <1>1, OrderSliceAssumption DEF AllAsks, Order
<1>3. UNCHANGED values \/ Replaced(x)
  BY DEF Update
<1> HIDE DEF x
<1>4. values' \in [Requests -> SUBSET Order]
  BY <1>2, <1>3 DEF Replaced, TInv, HistoryTyped
<1>5. UNCHANGED <<alone, raced>>
  BY DEF Update
<1> QED
  BY <1>4, <1>5 DEF TInv, HistoryTyped

LEMMA SliceTyped ==
  ASSUME TInv, NEW r \in Requests, Begin(r) \/ Refuse(r) \/ Create(r) \/ Change(r)
  PROVE  MemoryTyped' /\ HandlersTyped' /\ HistoryTyped'
<1>1. CASE Begin(r)
  <2>1. HistoryTyped'
    <3>1. PICK a \in Asks : History(r, a)
      BY <1>1 DEF Begin
    <3>2. alone' \subseteq Requests /\ raced' \in BOOLEAN
      BY <3>1 DEF History, TInv, HistoryTyped
    <3>3. values' \in [Requests -> SUBSET Order]
      BY <3>1, ListingTyped DEF History, TInv, HistoryTyped
    <3> QED
      BY <3>2, <3>3 DEF HistoryTyped
  <2> QED
    BY <1>1, <2>1, BeginTyped
<1>2. CASE Refuse(r)
  BY <1>2, RefuseTyped DEF Refuse, history, TInv, HistoryTyped
<1>3. CASE Create(r)
  <2>1. UNCHANGED <<alone, raced, values>>
    BY <1>3 DEF Create, LoadArray, Extend, StoreCapacity, StoreArray, StoreLength, StoreOrder, history
  <2>2. MemoryTyped' /\ HandlersTyped'
    BY <1>3, LoadArrayTyped, ExtendTyped, StoreCapacityTyped, StoreArrayTyped, StoreLengthTyped,
       StoreOrderTyped DEF Create
  <2> QED
    BY <2>1, <2>2 DEF TInv, HistoryTyped
<1>4. CASE Change(r)
  <2>1. HistoryTyped'
    <3>1. CASE Update(r)
      BY <3>1, UpdateHistoryTyped
    <3>2. CASE ~Update(r)
      <4>1. UNCHANGED <<alone, raced, values>>
        BY <1>4, <3>2 DEF Change, LoadArray, LoadLength, Scan, ScanEnd, Delete, Move, CutLength,
                          CutArray, history
      <4> QED
        BY <4>1 DEF TInv, HistoryTyped
    <3> QED
      BY <3>1, <3>2
  <2>2. MemoryTyped' /\ HandlersTyped'
    BY <1>4, LoadArrayTyped, LoadLengthTyped, ScanTyped, ScanEndTyped, UpdateTyped, DeleteTyped,
       MoveTyped, CutLengthTyped, CutArrayTyped DEF Change
  <2> QED
    BY <2>1, <2>2
<1> QED
  BY <1>1, <1>2, <1>3, <1>4

LEMMA EventTyped == ASSUME TInv, NEW r \in Requests PROVE Event(r) \in Events
BY HandlerTyped DEF Event, Events

LEMMA RangeTyped == ASSUME NEW s \in Seq(Events) PROVE Range(s) \subseteq Events
<1>1. \A i \in DOMAIN s : s[i] \in Events
  BY ElementOfSeq
<1> QED
  BY <1>1 DEF Range

\* The steps of RabbitMQ, queue-service and their deaths.
QueueSteps == Connect \/ Deliver \/ Receive \/ ConsumerDies \/ BrokerDies

LEMMA QueueStepsTyped ==
  ASSUME TInv, QueueSteps
  PROVE  QueueTyped' /\ UNCHANGED sliceVars
<1> USE DEF TInv, QueueTyped
<1>6. Range(inbox) \subseteq Events /\ Range(queue) \subseteq Events
  BY RangeTyped
<1>7. << >> \in Seq(Events)
  BY EmptySeq
<1>1. CASE Connect
  BY <1>1 DEF Connect
<1>2. CASE Deliver
  <2>1. Head(queue) \in Events /\ Tail(queue) \in Seq(Events)
    BY <1>2, HeadTailProperties DEF Deliver
  <2>2. Append(inbox, Head(queue)) \in Seq(Events)
    BY <2>1, AppendProperties
  <2> QED
    BY <1>2, <2>1, <2>2 DEF Deliver
<1>3. CASE Receive
  <2>1. Head(inbox) \in Events /\ Tail(inbox) \in Seq(Events)
    BY <1>3, HeadTailProperties DEF Receive
  <2>2. Append(received, Head(inbox)) \in Seq(Events)
    BY <2>1, AppendProperties
  <2> QED
    BY <1>3, <2>1, <2>2 DEF Receive
<1>4. CASE ConsumerDies
  <2>1. faults' \in 0..MaxFaults
    BY <1>4, OrderQueueAssumption DEF ConsumerDies, Die
  <2>2. lost' \subseteq Events
    BY <1>4, <1>6 DEF ConsumerDies
  <2> QED
    BY <1>4, <2>1, <2>2, <1>7 DEF ConsumerDies
<1>5. CASE BrokerDies
  <2>1. faults' \in 0..MaxFaults
    BY <1>5, OrderQueueAssumption DEF BrokerDies, Die
  <2>2. lost' \subseteq Events
    BY <1>5, <1>6 DEF BrokerDies
  <2> QED
    BY <1>5, <2>1, <2>2, <1>7 DEF BrokerDies
<1> QED
  BY <1>1, <1>2, <1>3, <1>4, <1>5 DEF QueueSteps

LEMMA TInvInit ==
  ASSUME QueueInit
  PROVE  TInv
<1> USE DEF QueueInit, Init
<1>1. << >> \in Seq(Order) /\ << << >> >> \in Seq(Seq(Order)) /\ DOMAIN << << >> >> = {1}
  <2>1. << >> \in Seq(Order)
    BY EmptySeq
  <2> QED
    BY <2>1
<1>2. MemoryTyped
  BY <1>1 DEF MemoryTyped
<1>3. Fresh \in Handlers /\ Fresh.arr = 1
  BY <1>1 DEF Fresh, Handlers
<1>4. HandlersTyped
  BY <1>1, <1>3, ReadyAt, LabelsAre DEF HandlersTyped
<1>5. QueueTyped
  BY OrderQueueAssumption, EmptySeq DEF QueueTyped
<1> QED
  BY <1>2, <1>4, <1>5 DEF TInv, HistoryTyped

LEMMA TInvStep ==
  ASSUME TInv, [Next]_vars
  PROVE  TInv'
<1>1. ASSUME NEW r \in Requests, SliceStep(r) PROVE TInv'
  <2>1. QueueTyped'
    BY <1>1 DEF SliceStep, TInv, QueueTyped
  <2> QED
    BY <1>1, <2>1, SliceTyped DEF SliceStep, TInv
<1>2. ASSUME NEW r \in Requests, Publish(r) PROVE TInv'
  <2>1. Event(r) \in Events /\ queue \in Seq(Events) /\ lost \subseteq Events
    BY EventTyped DEF TInv, QueueTyped
  <2>2. Append(queue, Event(r)) \in Seq(Events)
    BY <2>1, AppendProperties
  <2>3. QueueTyped'
    BY <1>2, <2>1, <2>2 DEF Publish, TInv, QueueTyped
  <2>4. HistoryTyped'
    BY <1>2 DEF Publish, history, TInv, HistoryTyped
  <2> QED
    BY <1>2, <2>3, <2>4, PublishTyped DEF TInv
<1>3. ASSUME NEW r \in Requests, Created(r) PROVE TInv'
  <2>1. QueueTyped' /\ HistoryTyped'
    BY <1>3 DEF Created, history, queueVars, TInv, HistoryTyped, QueueTyped
  <2> QED
    BY <1>3, <2>1, CreatedTyped DEF TInv
<1>4. CASE QueueSteps
  <2>1. MemoryTyped' /\ HandlersTyped' /\ HistoryTyped'
    BY <1>4, QueueStepsTyped
       DEF sliceVars, memory, history, TInv, MemoryTyped, HandlersTyped, HistoryTyped, Handlers, Ready
  <2> QED
    BY <1>4, <2>1, QueueStepsTyped DEF TInv
<1>5. CASE ServiceDies
  <2>1. lost' \subseteq Events
    BY <1>5, EventTyped DEF ServiceDies, TInv, QueueTyped
  <2>2. faults' \in 0..MaxFaults
    BY <1>5, OrderQueueAssumption DEF ServiceDies, Die, TInv, QueueTyped
  <2>3. QueueTyped'
    BY <1>5, <2>1, <2>2 DEF ServiceDies, TInv, QueueTyped
  <2>4. HistoryTyped'
    BY <1>5 DEF ServiceDies, HistoryTyped
  <2> QED
    BY <1>5, <2>3, <2>4, ServiceDiesTyped DEF TInv
<1>6. CASE UNCHANGED vars
  BY <1>6 DEF vars, sliceVars, memory, history, queueVars, TInv, MemoryTyped, HandlersTyped,
              QueueTyped, HistoryTyped, Handlers, Ready
<1> QED
  BY <1>1, <1>2, <1>3, <1>4, <1>5, <1>6 DEF Next, QueueSteps

LEMMA TInvIsTypeOK ==
  ASSUME TInv
  PROVE  TypeOK
<1>1. \A r \in Requests : my[r].ask \in Asks \cup {None} /\ my[r].arr \in DOMAIN arrays
        /\ my[r].len \in Nat /\ my[r].cap \in Nat /\ my[r].i \in Nat /\ my[r].seen \in Seq(Order)
  BY DEF TInv, HandlersTyped, Handlers
<1> QED
  BY <1>1 DEF TypeOK, TInv, MemoryTyped, QueueTyped, HistoryTyped

LEMMA TInvAlways == Spec => []TInv
<1>1. QueueInit => TInv
  BY TInvInit
<1>2. TInv /\ [Next]_vars => TInv'
  BY TInvStep
<1> QED
  BY <1>1, <1>2, PTL DEF Spec

\* The slices, the copies that handlers hold of them and the queue are what
\* the handlers and the consumer declare: in particular no copy names an array
\* that was never allocated (service.go:10-72, rabbitmq.go:10-62).
THEOREM TypeCorrect == Spec => []TypeOK
BY TInvAlways, TInvIsTypeOK, PTL

---------------------------------------------------------------------------
(* Events.                                                                 *)

All == received \o inbox \o queue

\* The events that have left their handlers.
QueueTrue == \A i \in DOMAIN All : pc[All[i].req] \in {"answer", "done"}

BeforeTrue == \A r \in Requests : \A s \in before[r] : pc[s] = "done"

QInv == ReceivedInOrder /\ QueueTrue /\ BeforeTrue

\* The event e may come before the event g.
MayPrecede(e, g) == g.req # e.req /\ g.req \notin before[e.req]

LEMMA InOrderIs ==
  /\ ReceivedInOrder <=> \A i, j \in DOMAIN All : i < j => MayPrecede(All[i], All[j])
  /\ ReceivedInOrder' <=> \A i, j \in DOMAIN All' : i < j => MayPrecede(All[i], All[j])'
BY DEF ReceivedInOrder, MayPrecede, All

LEMMA ConcatIs ==
  ASSUME NEW a \in Seq(Events), NEW b \in Seq(Events), NEW c \in Seq(Events),
         NEW s, s = a \o b \o c
  PROVE  /\ s \in Seq(Events) /\ Len(s) = Len(a) + Len(b) + Len(c)
         /\ Len(a) \in Nat /\ Len(b) \in Nat /\ Len(c) \in Nat
         /\ \A i \in 1..Len(a) : s[i] = a[i]
         /\ \A i \in 1..Len(b) : s[Len(a) + i] = b[i]
         /\ \A i \in 1..Len(c) : s[Len(a) + Len(b) + i] = c[i]
<1> DEFINE t == a \o b
<1>1. Len(a) \in Nat /\ Len(b) \in Nat /\ Len(c) \in Nat
  BY LenProperties
<1>2. /\ t \in Seq(Events) /\ Len(t) = Len(a) + Len(b)
      /\ \A i \in 1..(Len(a) + Len(b)) : t[i] = IF i <= Len(a) THEN a[i] ELSE b[i - Len(a)]
  BY ConcatProperties
<1>3. s = t \o c /\ t \in Seq(Events)
  BY <1>2
<1> HIDE DEF t
<1>4. /\ s \in Seq(Events) /\ Len(s) = Len(t) + Len(c)
      /\ \A i \in 1..(Len(t) + Len(c)) : s[i] = IF i <= Len(t) THEN t[i] ELSE c[i - Len(t)]
  BY <1>3, ConcatProperties
<1>5. ASSUME NEW i \in 1..Len(a) PROVE s[i] = a[i]
  BY <1>1, <1>2, <1>4
<1>6. ASSUME NEW i \in 1..Len(b) PROVE s[Len(a) + i] = b[i]
  <2>1. Len(a) + i \in 1..(Len(a) + Len(b)) /\ ~(Len(a) + i <= Len(a)) /\ Len(a) + i - Len(a) = i
    BY <1>1
  <2>2. s[Len(a) + i] = t[Len(a) + i]
    BY <1>1, <1>2, <1>4, <2>1
  <2>3. t[Len(a) + i] = b[Len(a) + i - Len(a)]
    BY <1>2, <2>1
  <2> QED
    BY <2>1, <2>2, <2>3
<1>7. ASSUME NEW i \in 1..Len(c) PROVE s[Len(a) + Len(b) + i] = c[i]
  <2> DEFINE k == Len(a) + Len(b) + i
  <2>1. k \in 1..(Len(t) + Len(c)) /\ ~(k <= Len(t)) /\ k - Len(t) = i
    BY <1>1, <1>2
  <2> HIDE DEF k
  <2>2. s[k] = c[i]
    BY <1>4, <2>1
  <2> QED
    BY <2>2 DEF k
<1>8. s \in Seq(Events) /\ Len(s) = Len(a) + Len(b) + Len(c)
  BY <1>2, <1>4
<1> QED
  BY <1>1, <1>5, <1>6, <1>7, <1>8

LEMMA AllTyped ==
  ASSUME TInv
  PROVE  All \in Seq(Events) /\ \A i \in DOMAIN All : All[i] \in Events /\ All[i].req \in Requests
<1>1. All \in Seq(Events)
  BY ConcatIs DEF TInv, QueueTyped, All
<1>2. \A i \in DOMAIN All : All[i] \in Events
  BY <1>1, ElementOfSeq
<1> QED
  BY <1>1, <1>2 DEF Events

\* A step of a handler on the slice leaves the other handlers alone.
LEMMA SliceMoves ==
  ASSUME TInv, NEW r \in Requests, Begin(r) \/ Refuse(r) \/ Create(r) \/ Change(r)
  PROVE  /\ pc[r] \notin {"publish", "answer", "done"}
         /\ \A q \in Requests \ {r} : pc'[q] = pc[q] /\ my'[q] = my[q]
<1>1. pc \in [Requests -> Labels] /\ my \in [Requests -> Handlers]
  BY DEF TInv, HandlersTyped
<1>2. CASE Begin(r)
  BY <1>1, <1>2 DEF Begin, Goto
<1>3. CASE Refuse(r)
  BY <1>1, <1>3 DEF Refuse, Answer, Goto
<1>4. CASE Create(r)
  <2>1. CASE Extend(r)
    BY <1>1, <2>1 DEF Extend, Goto
  <2>2. CASE StoreOrder(r)
    BY <1>1, <2>2 DEF StoreOrder, Goto
  <2>3. CASE LoadArray(r, "array", "append") \/ StoreCapacity(r) \/ StoreArray(r) \/ StoreLength(r)
    BY <1>1, <2>3 DEF LoadArray, StoreCapacity, StoreArray, StoreLength, Goto
  <2> QED
    BY <1>4, <2>1, <2>2, <2>3 DEF Create
<1>5. CASE Change(r)
  <2>1. CASE LoadLength(r) \/ ScanEnd(r) \/ LoadArray(r, "found", "change")
    BY <1>1, <2>1 DEF LoadLength, ScanEnd, LoadArray, Answer, Goto
  <2>2. CASE Scan(r)
    BY <1>1, <2>2 DEF Scan, Answer, Goto
  <2>3. CASE Update(r) \/ Delete(r)
    BY <1>1, <2>3 DEF Update, Delete, Answer, Goto
  <2>4. CASE Move(r) \/ CutLength(r) \/ CutArray(r)
    BY <1>1, <2>4 DEF Move, CutLength, CutArray, Answer, Goto
  <2> QED
    BY <1>5, <2>1, <2>2, <2>3, <2>4 DEF Change
<1> QED
  BY <1>2, <1>3, <1>4, <1>5

\* A request that is over stays over, and no request begins twice.
LEMMA StepPasses ==
  ASSUME TInv, [Next]_vars, NEW q \in Requests
  PROVE  /\ pc[q] = "done" => pc'[q] = "done"
         /\ pc[q] \in {"answer", "done"} => pc'[q] \in {"answer", "done"}
         /\ pc[q] # "idle" => before'[q] = before[q]
         /\ before'[q] = before[q] \/ before'[q] = {s \in Requests : pc[s] = "done"}
<1>1. pc \in [Requests -> Labels] /\ before \in [Requests -> SUBSET Requests]
  BY DEF TInv, HandlersTyped, QueueTyped
<1>2. ASSUME NEW r \in Requests, SliceStep(r)
      PROVE  /\ pc[q] = "done" => pc'[q] = "done"
             /\ pc[q] \in {"answer", "done"} => pc'[q] \in {"answer", "done"}
             /\ pc[q] # "idle" => before'[q] = before[q]
             /\ before'[q] = before[q] \/ before'[q] = {s \in Requests : pc[s] = "done"}
  <2>1. /\ pc[r] \notin {"publish", "answer", "done"}
        /\ q # r => pc'[q] = pc[q]
    BY <1>2, SliceMoves DEF SliceStep
  <2>2. before' = IF pc[r] = "idle" THEN [before EXCEPT ![r] = {s \in Requests : pc[s] = "done"}]
                                    ELSE before
    BY <1>2 DEF SliceStep
  <2> QED
    BY <1>1, <2>1, <2>2
<1>3. ASSUME NEW r \in Requests, Publish(r) \/ Created(r)
      PROVE  /\ pc[q] = "done" => pc'[q] = "done"
             /\ pc[q] \in {"answer", "done"} => pc'[q] \in {"answer", "done"}
             /\ before'[q] = before[q]
  BY <1>1, <1>3 DEF Publish, Created, Answer, Goto, queueVars
<1>4. CASE QueueSteps
  BY <1>4, QueueStepsTyped DEF sliceVars, QueueSteps, Connect, Deliver, Receive, ConsumerDies, BrokerDies
<1>5. CASE ServiceDies
  BY <1>1, <1>5 DEF ServiceDies
<1>6. CASE UNCHANGED vars
  BY <1>6 DEF vars, sliceVars, queueVars
<1> QED
  BY <1>2, <1>3, <1>4, <1>5, <1>6 DEF Next, QueueSteps

\* What is left of the events, in their order.
LEMMA FewerInOrder ==
  ASSUME TInv, TInv', QInv, [Next]_vars,
         NEW f, \A i \in DOMAIN All' : f[i] \in DOMAIN All /\ All'[i] = All[f[i]],
         \A i, j \in DOMAIN All' : i < j => f[i] < f[j]
  PROVE  ReceivedInOrder' /\ QueueTrue'
<1>1. ASSUME NEW i \in DOMAIN All
      PROVE  pc'[All[i].req] \in {"answer", "done"} /\ before'[All[i].req] = before[All[i].req]
  <2>1. All[i].req \in Requests /\ pc[All[i].req] \in {"answer", "done"}
    BY AllTyped DEF QInv, QueueTrue
  <2> QED
    BY <2>1, StepPasses
<1>2. QueueTrue'
  BY <1>1 DEF QueueTrue
<1>3. ASSUME NEW i \in DOMAIN All', NEW j \in DOMAIN All', i < j
      PROVE  MayPrecede(All[i], All[j])'
  <2>1. f[i] \in DOMAIN All /\ f[j] \in DOMAIN All /\ f[i] < f[j]
    BY <1>3
  <2>2. MayPrecede(All[f[i]], All[f[j]])
    BY <2>1, InOrderIs DEF QInv
  <2> QED
    BY <1>1, <2>1, <2>2 DEF MayPrecede
<1> QED
  BY <1>2, <1>3, InOrderIs

LEMMA SameInOrder ==
  ASSUME TInv, TInv', QInv, [Next]_vars, All' = All
  PROVE  ReceivedInOrder' /\ QueueTrue'
<1> DEFINE f == [i \in DOMAIN All |-> i]
<1>1. /\ \A i \in DOMAIN All' : f[i] \in DOMAIN All /\ All'[i] = All[f[i]]
      /\ \A i, j \in DOMAIN All' : i < j => f[i] < f[j]
  OBVIOUS
<1> HIDE DEF f
<1> QED
  BY <1>1, FewerInOrder

LEMMA BeforeStep ==
  ASSUME TInv, TInv', QInv, [Next]_vars
  PROVE  BeforeTrue'
<1> SUFFICES ASSUME NEW r \in Requests, NEW s \in before'[r]
             PROVE  pc'[s] = "done"
  BY DEF BeforeTrue
<1>1. s \in Requests
  BY DEF TInv, QueueTyped
<1>2. pc[s] = "done"
  BY StepPasses DEF QInv, BeforeTrue
<1> QED
  BY <1>1, <1>2, StepPasses

LEMMA PublishInOrder ==
  ASSUME TInv, TInv', QInv, NEW r \in Requests, Publish(r)
  PROVE  ReceivedInOrder' /\ QueueTrue'
<1> DEFINE e == Event(r)
           n == Len(All)
<1>0. [Next]_vars
  BY DEF Next
<1>1. CASE UNCHANGED queue
  <2>1. All' = All
    BY <1>1 DEF Publish, All
  <2> QED
    BY <1>0, <2>1, SameInOrder
<1>2. CASE queue' = Append(queue, e)
  <2>1. /\ received \in Seq(Events) /\ inbox \in Seq(Events) /\ queue \in Seq(Events)
        /\ queue' \in Seq(Events) /\ UNCHANGED <<received, inbox>> /\ e \in Events
    BY EventTyped DEF TInv, QueueTyped, Publish
  <2>0. e.req = r
    BY DEF Event
  <2> HIDE DEF e
  <2>2. /\ Len(queue') = Len(queue) + 1 /\ queue'[Len(queue) + 1] = e
        /\ \A i \in 1..Len(queue) : queue'[i] = queue[i] /\ Len(queue) \in Nat
    BY <1>2, <2>1, AppendProperties, LenProperties
  <2>3. /\ All \in Seq(Events) /\ All' \in Seq(Events) /\ n \in Nat
        /\ Len(All') = n + 1 /\ All'[n + 1] = e
        /\ \A i \in 1..n : All'[i] = All[i]
    <3> DEFINE a == Len(received)
               b == Len(inbox)
               c == Len(queue)
    <3>1. /\ All \in Seq(Events) /\ n = a + b + c /\ a \in Nat /\ b \in Nat /\ c \in Nat
          /\ \A i \in 1..a : All[i] = received[i]
          /\ \A i \in 1..b : All[a + i] = inbox[i]
          /\ \A i \in 1..c : All[a + b + i] = queue[i]
      BY <2>1, ConcatIs DEF All
    <3>2. /\ All' \in Seq(Events) /\ Len(All') = a + b + (c + 1)
          /\ \A i \in 1..a : All'[i] = received[i]
          /\ \A i \in 1..b : All'[a + i] = inbox[i]
          /\ \A i \in 1..(c + 1) : All'[a + b + i] = queue'[i]
      <4>1. All' = received \o inbox \o queue'
        BY <2>1 DEF All
      <4>2. /\ All' \in Seq(Events) /\ Len(All') = Len(received) + Len(inbox) + Len(queue')
            /\ \A i \in 1..Len(received) : All'[i] = received[i]
            /\ \A i \in 1..Len(inbox) : All'[Len(received) + i] = inbox[i]
            /\ \A i \in 1..Len(queue') : All'[Len(received) + Len(inbox) + i] = queue'[i]
        BY <2>1, <4>1, ConcatIs
      <4> QED
        BY <2>2, <4>2
    <3> HIDE DEF a, b, c
    <3>3. All'[n + 1] = e
      <4>1. c + 1 \in 1..(c + 1) /\ a + b + (c + 1) = n + 1
        BY <3>1
      <4> QED
        BY <2>2, <3>2, <4>1 DEF c
    <3>4. ASSUME NEW i \in 1..n PROVE All'[i] = All[i]
      <4>1. CASE i <= a
        BY <3>1, <3>2, <4>1
      <4>2. CASE i > a /\ i <= a + b
        <5>1. i - a \in 1..b /\ a + (i - a) = i
          BY <3>1, <4>2
        <5>2. All'[a + (i - a)] = inbox[i - a] /\ All[a + (i - a)] = inbox[i - a]
          BY <3>1, <3>2, <5>1
        <5> QED
          BY <5>1, <5>2
      <4>3. CASE i > a + b
        <5>1. i - (a + b) \in 1..c /\ i - (a + b) \in 1..(c + 1) /\ a + b + (i - (a + b)) = i
          BY <3>1, <4>3
        <5>2. /\ All'[a + b + (i - (a + b))] = queue'[i - (a + b)]
              /\ All[a + b + (i - (a + b))] = queue[i - (a + b)]
          BY <3>1, <3>2, <5>1
        <5>3. queue'[i - (a + b)] = queue[i - (a + b)]
          BY <2>2, <5>1 DEF c
        <5> QED
          BY <5>1, <5>2, <5>3
      <4> QED
        BY <3>1, <4>1, <4>2, <4>3
    <3> QED
      BY <3>1, <3>2, <3>3, <3>4
  <2> HIDE DEF n
  <2>4. DOMAIN All = 1..n /\ DOMAIN All' = 1..(n + 1)
    BY <2>3 DEF n
  <2>5. pc[r] = "publish" /\ pc'[r] = "answer" /\ UNCHANGED before
    BY DEF Publish, Goto, TInv, HandlersTyped
  <2>6. ASSUME NEW i \in 1..n
        PROVE  /\ All[i].req \in Requests \ {r} /\ r \notin before[All[i].req]
               /\ pc'[All[i].req] \in {"answer", "done"}
    <3>1. All[i].req \in Requests /\ pc[All[i].req] \in {"answer", "done"}
      BY <2>4, AllTyped DEF QInv, QueueTrue
    <3>2. r \notin before[All[i].req]
      BY <2>5, <3>1 DEF QInv, BeforeTrue
    <3> QED
      BY <1>0, <2>5, <3>1, <3>2, StepPasses
  <2>7. \A i \in DOMAIN All' : i \in 1..n \/ i = n + 1
    BY <2>3, <2>4
  <2>8. QueueTrue'
    BY <2>0, <2>3, <2>5, <2>6, <2>7 DEF QueueTrue
  <2>9. ASSUME NEW i \in DOMAIN All', NEW j \in DOMAIN All', i < j
        PROVE  MayPrecede(All[i], All[j])'
    <3>1. i \in 1..n
      BY <2>3, <2>4, <2>9
    <3>2. CASE j = n + 1
      BY <2>0, <2>3, <2>5, <2>6, <3>1, <3>2 DEF MayPrecede
    <3>3. CASE j \in 1..n
      <4>1. MayPrecede(All[i], All[j])
        BY <2>4, <2>9, <3>1, <3>3, InOrderIs DEF QInv
      <4> QED
        BY <2>3, <2>5, <3>1, <3>3, <4>1 DEF MayPrecede
    <3> QED
      BY <2>7, <3>2, <3>3
  <2> QED
    BY <2>8, <2>9, InOrderIs
<1> QED
  BY <1>1, <1>2 DEF Publish

\* Concatenation, by a name that the provers need not look into.
Then(s, t) == s \o t

LEMMA Associative ==
  ASSUME NEW a \in Seq(Events), NEW b \in Seq(Events), NEW c \in Seq(Events)
  PROVE  Then(Then(a, b), c) = Then(a, Then(b, c))
BY ConcatAssociative, SMTT(30) DEF Then

\* The head of one sequence becomes the last of the one before it.
LEMMA HeadPasses ==
  ASSUME NEW a \in Seq(Events), NEW b \in Seq(Events), b # << >>
  PROVE  Append(a, Head(b)) \o Tail(b) = a \o b
<1> DEFINE h == <<Head(b)>>
<1>1. /\ Head(b) \in Events /\ Tail(b) \in Seq(Events) /\ Len(Tail(b)) = Len(b) - 1
      /\ \A i \in 1..Len(Tail(b)) : Tail(b)[i] = b[i + 1]
      /\ Head(b) = b[1] /\ Len(b) \in Nat
  BY HeadTailProperties
<1>2. h \in Seq(Events) /\ Len(h) = 1 /\ h[1] = b[1]
  BY <1>1
<1> HIDE DEF h
<1>3. h \o Tail(b) = b
  <2>1. /\ h \o Tail(b) \in Seq(Events) /\ Len(h \o Tail(b)) = Len(h) + Len(Tail(b))
        /\ \A i \in 1..(Len(h) + Len(Tail(b))) :
             (h \o Tail(b))[i] = IF i <= Len(h) THEN h[i] ELSE Tail(b)[i - Len(h)]
    <3>1. h \in Seq(Events) /\ Tail(b) \in Seq(Events)
      BY <1>1, <1>2
    <3> QED
      BY <3>1, ConcatProperties
  <2>2. Len(h \o Tail(b)) = Len(b)
    BY <1>1, <1>2, <2>1
  <2>3. ASSUME NEW i \in 1..Len(b) PROVE (h \o Tail(b))[i] = b[i]
    <3>1. CASE i = 1
      BY <1>1, <1>2, <2>1, <3>1
    <3>2. CASE i # 1
      <4>1. i - 1 \in 1..Len(Tail(b)) /\ i - 1 + 1 = i /\ i \in 1..(Len(h) + Len(Tail(b)))
            /\ ~(i <= Len(h)) /\ i - Len(h) = i - 1
        BY <1>1, <1>2, <3>2
      <4> QED
        BY <1>1, <2>1, <4>1
    <3> QED
      BY <3>1, <3>2
  <2> QED
    BY <2>1, <2>2, <2>3, SeqEqual
<1>4. Append(a, Head(b)) = a \o h
  BY <1>1, AppendIsConcat DEF h
<1>5. (a \o h) \o Tail(b) = a \o (h \o Tail(b))
  <2>1. h \in Seq(Events) /\ Tail(b) \in Seq(Events)
    BY <1>1, <1>2
  <2>2. Then(Then(a, h), Tail(b)) = Then(a, Then(h, Tail(b)))
    BY <2>1, Associative
  <2> QED
    BY <2>2 DEF Then
<1> QED
  BY <1>3, <1>4, <1>5

LEMMA MovesInOrder ==
  ASSUME TInv, TInv', QInv, Connect \/ Deliver \/ Receive
  PROVE  ReceivedInOrder' /\ QueueTrue'
<1>1. /\ received \in Seq(Events) /\ inbox \in Seq(Events) /\ queue \in Seq(Events)
      /\ inbox' \in Seq(Events) /\ queue' \in Seq(Events)
  BY DEF TInv, QueueTyped
<1>2. All' = All
  <2>1. CASE Connect
    BY <2>1 DEF Connect, All
  <2>2. CASE Deliver
    <3>1. inbox' \o queue' = inbox \o queue
      BY <1>1, <2>2, HeadPasses DEF Deliver
    <3>2. received' = received
      BY <2>2 DEF Deliver
    <3>3. Then(Then(received, inbox), queue) = Then(received, Then(inbox, queue))
      BY <1>1, Associative
    <3>4. Then(Then(received, inbox'), queue') = Then(received, Then(inbox', queue'))
      BY <1>1, Associative
    <3> QED
      BY <3>1, <3>2, <3>3, <3>4 DEF All, Then
  <2>3. CASE Receive
    <3>1. received' \o inbox' = received \o inbox
      BY <1>1, <2>3, HeadPasses DEF Receive
    <3> QED
      BY <2>3, <3>1 DEF Receive, All
  <2> QED
    BY <2>1, <2>2, <2>3
<1> QED
  BY <1>2, SameInOrder DEF Next

LEMMA DeathsInOrder ==
  ASSUME TInv, TInv', QInv, ConsumerDies \/ BrokerDies
  PROVE  ReceivedInOrder' /\ QueueTrue'
<1> DEFINE a == Len(received)
           b == Len(inbox)
           c == Len(queue)
           f == [i \in Nat |-> IF i <= a THEN i ELSE i + b]
<1>1. /\ received \in Seq(Events) /\ inbox \in Seq(Events) /\ queue \in Seq(Events)
      /\ inbox' = << >> /\ inbox' \in Seq(Events) /\ queue' \in Seq(Events)
      /\ received' = received
      /\ queue' = queue \/ queue' = << >>
  BY DEF TInv, QueueTyped, ConsumerDies, BrokerDies
<1>2. /\ All \in Seq(Events) /\ Len(All) = a + b + c /\ a \in Nat /\ b \in Nat /\ c \in Nat
      /\ \A i \in 1..a : All[i] = received[i]
      /\ \A i \in 1..c : All[a + b + i] = queue[i]
  BY <1>1, ConcatIs DEF All
<1>3. /\ All' \in Seq(Events) /\ Len(All') = a + Len(queue')
      /\ \A i \in 1..a : All'[i] = received[i]
      /\ \A i \in 1..Len(queue') : All'[a + i] = queue'[i]
  <2>1. All' = received \o << >> \o queue'
    BY <1>1 DEF All
  <2>2. received \o << >> = received
    BY <1>1, ConcatEmptySeq
  <2>3. All' = received \o queue'
    BY <2>1, <2>2
  <2>4. /\ All' \in Seq(Events) /\ Len(All') = a + Len(queue')
        /\ \A i \in 1..(a + Len(queue')) : All'[i] = IF i <= a THEN received[i] ELSE queue'[i - a]
    BY <1>1, <2>3, ConcatProperties
  <2>5. Len(queue') \in Nat
    BY <1>1, LenProperties
  <2>6. ASSUME NEW i \in 1..Len(queue') PROVE All'[a + i] = queue'[i]
    <3>1. a + i \in 1..(a + Len(queue')) /\ ~(a + i <= a) /\ a + i - a = i
      BY <1>2, <2>5
    <3> QED
      BY <2>4, <3>1
  <2>7. \A i \in 1..a : All'[i] = received[i]
    BY <1>2, <2>4, <2>5
  <2> QED
    BY <2>4, <2>6, <2>7
<1>4. Len(queue') \in Nat /\ Len(queue') <= c /\ \A i \in 1..Len(queue') : queue'[i] = queue[i]
  BY <1>1, <1>2, EmptySeq
<1> HIDE DEF a, b, c
<1>5. DOMAIN All' = 1..(a + Len(queue')) /\ DOMAIN All = 1..(a + b + c)
  BY <1>2, <1>3
<1>6. ASSUME NEW i \in DOMAIN All' PROVE f[i] \in DOMAIN All /\ All'[i] = All[f[i]]
  <2>1. CASE i <= a
    BY <1>2, <1>3, <1>4, <1>5, <2>1
  <2>2. CASE i > a
    <3> DEFINE n == Len(queue')
    <3>0. i \in Nat /\ i <= a + n /\ n \in Nat /\ n <= c /\ a \in Nat /\ b \in Nat /\ c \in Nat
      BY <1>2, <1>4, <1>5
    <3> HIDE DEF n
    <3>1. i - a \in 1..n /\ i - a \in 1..c /\ a + (i - a) = i
          /\ f[i] = a + b + (i - a) /\ f[i] \in 1..(a + b + c)
      <4>1. f[i] = i + b
        BY <2>2, <3>0
      <4> HIDE DEF f
      <4> QED
        BY <2>2, <3>0, <4>1
    <3>2. All'[a + (i - a)] = queue'[i - a] /\ All[a + b + (i - a)] = queue[i - a]
      BY <1>2, <1>3, <3>1 DEF n
    <3> QED
      BY <1>4, <1>5, <3>1, <3>2 DEF n
  <2> QED
    BY <1>2, <1>4, <1>5, <2>1, <2>2
<1>7. ASSUME NEW i \in DOMAIN All', NEW j \in DOMAIN All', i < j
      PROVE  f[i] < f[j]
  <2>1. i \in Nat /\ j \in Nat
    BY <1>2, <1>4, <1>5
  <2>2. f[i] = (IF i <= a THEN i ELSE i + b) /\ f[j] = (IF j <= a THEN j ELSE j + b)
    BY <2>1
  <2> HIDE DEF f
  <2> QED
    BY <1>2, <1>7, <2>1, <2>2
<1> HIDE DEF f
<1>8. [Next]_vars
  BY DEF Next
<1> QED
  BY <1>6, <1>7, <1>8, FewerInOrder

LEMMA QInvInit == ASSUME QueueInit PROVE QInv
<1>1. All = << >>
  <2>1. << >> \in Seq(Events)
    BY EmptySeq
  <2> QED
    BY <2>1, ConcatEmptySeq DEF QueueInit, All
<1>2. DOMAIN << >> = {}
  OBVIOUS
<1>3. BeforeTrue
  BY DEF QueueInit, BeforeTrue
<1> QED
  BY <1>1, <1>2, <1>3, InOrderIs DEF QInv, QueueTrue

LEMMA QInvStep ==
  ASSUME TInv, TInv', QInv, [Next]_vars
  PROVE  QInv'
<1>1. CASE UNCHANGED <<queue, inbox, received>>
  BY <1>1, SameInOrder, BeforeStep DEF All, QInv
<1>2. ASSUME NEW r \in Requests, SliceStep(r) \/ Created(r) PROVE QInv'
  BY <1>1, <1>2 DEF SliceStep, Created, queueVars
<1>3. ASSUME NEW r \in Requests, Publish(r) PROVE QInv'
  BY <1>3, PublishInOrder, BeforeStep DEF QInv
<1>4. CASE Connect \/ Deliver \/ Receive
  BY <1>4, MovesInOrder, BeforeStep DEF QInv
<1>5. CASE ConsumerDies \/ BrokerDies
  BY <1>5, DeathsInOrder, BeforeStep DEF QInv
<1>6. CASE ServiceDies
  BY <1>1, <1>6 DEF ServiceDies
<1>7. CASE UNCHANGED vars
  BY <1>1, <1>7 DEF vars, queueVars
<1> QED
  BY <1>2, <1>3, <1>4, <1>5, <1>6, <1>7 DEF Next

LEMMA QInvAlways == Spec => [](TInv /\ QInv)
<1>1. QueueInit => TInv /\ QInv
  BY TInvInit, QInvInit
<1>2. TInv /\ QInv /\ [Next]_vars => (TInv /\ QInv)'
  BY TInvStep, QInvStep
<1> QED
  BY <1>1, <1>2, PTL DEF Spec

\* queue-service never prints the event of a request twice, nor the event of a
\* POST before that of a POST answered earlier, whichever of the three processes
\* die meanwhile (controller.go:29-32, rabbitmq.go:38-62,
\* queue-service/main.go:37-46).
THEOREM EventsKeepOrder == Spec => []ReceivedInOrder
BY QInvAlways, PTL DEF QInv

---------------------------------------------------------------------------
(* The slice.                                                              *)

\* The array at a holds s.
Backs(a, s) == Len(s) <= Len(arrays[a]) /\ \A i \in 1..Len(s) : arrays[a][i] = s[i]

\* The slice is what the writers made of it one after the other.
Steady ==
  /\ orders.len = Len(ideal) /\ orders.cap = Len(arrays[orders.arr])
  /\ Backs(orders.arr, ideal)

NoHitsBefore(r, k) == \A j \in 1..(k - 1) : ideal[j].id # my[r].ask.id

\* Element j, when a DELETE has moved the elements up as far as i.
Shifted(j, i, n) == IF j < First(ideal, n) \/ i <= j THEN ideal[j] ELSE ideal[j + 1]

\* What a loop over the slice has found so far.
Scanned(r) ==
  LET m == my[r] IN
  pc[r] \in ScanLabels =>
    /\ m.arr = orders.arr /\ m.i <= Len(ideal) + 1
    /\ pc[r] = "range" => m.i = 1
    /\ pc[r] = "scan" => m.len = Len(ideal)
    /\ IF m.ask.op = "LIST"
         THEN Len(m.seen) = m.i - 1 /\ \A j \in 1..(m.i - 1) : m.seen[j] = ideal[j]
         ELSE NoHitsBefore(r, m.i)

\* What the only writer has done so far.
Growing(r) ==
  LET m == my[r] IN
  /\ pc[r] = "append" => m.arr = orders.arr /\ m.cap = orders.cap
  /\ pc[r] \in {"grow", "pointer", "length", "store"} =>
       Backs(m.arr, ideal) /\ m.len = Len(ideal) + 1 /\ m.len <= Len(arrays[m.arr])
  /\ pc[r] \in {"grow", "pointer", "length"} => m.cap = Len(arrays[m.arr])
  /\ pc[r] = "pointer" => orders.cap = m.cap /\ orders.len = Len(ideal) /\ Backs(orders.arr, ideal)
  /\ pc[r] = "length" => orders.arr = m.arr /\ orders.cap = m.cap /\ orders.len = Len(ideal)
  /\ pc[r] = "store" =>
       orders.arr = m.arr /\ orders.len = m.len /\ orders.cap = Len(arrays[orders.arr])

Changing(r) ==
  LET m == my[r] IN
  pc[r] \in ChangeLabels =>
    /\ m.arr = orders.arr /\ m.i <= Len(ideal)
    /\ pc[r] = "change" => m.cap = orders.cap
    /\ ideal[m.i].id = m.ask.id /\ NoHitsBefore(r, m.i)

Cutting(r) ==
  LET m    == my[r]
      n    == m.ask.id
      held == arrays[m.arr] IN
  pc[r] \in CutLabels =>
    /\ Hits(ideal, n) # {} /\ First(ideal, n) <= m.i
    /\ m.arr = orders.arr /\ m.cap = orders.cap /\ m.cap = Len(held) /\ Len(ideal) <= Len(held)
    /\ m.len = Len(ideal) /\ m.i <= Len(ideal)
    /\ \A j \in 1..(Len(ideal) - 1) : held[j] = Shifted(j, m.i, n)
    /\ IF pc[r] = "cut" THEN orders.len = Len(ideal) - 1 /\ m.i = Len(ideal)
                        ELSE orders.len = Len(ideal) /\ held[Len(ideal)] = ideal[Len(ideal)]

Written(r) ==
  /\ pc[r] \in {"array", "append", "grow"} \cup ScanLabels \cup ChangeLabels => Steady
  /\ Growing(r) /\ Changing(r) /\ Cutting(r)

OneWriter ==
  ~raced =>
    /\ \A r, s \in Writing : r = s
    /\ Writing = {} => Steady
    /\ \A r \in Writing : Scanned(r) /\ Written(r)

AloneTrue ==
  /\ \A r \in alone : pc[r] # "idle"
  /\ ~raced => \A r \in alone : Active(r) => Writing \subseteq {r} /\ Scanned(r)

IdleTrue == \A r \in Requests : pc[r] = "idle" => my[r].seen = << >>

ReplyTrue == reply = None \/ (reply.req \in Requests /\ pc[reply.req] = "done")

SInv == OneWriter /\ AloneTrue /\ IdleTrue /\ ReplyTrue

LEMMA SameKnown ==
  ASSUME NEW q \in Requests, pc'[q] = pc[q], my'[q] = my[q], UNCHANGED <<arrays, orders, ideal>>
  PROVE  /\ Active(q)' <=> Active(q)
         /\ Scanned(q)' <=> Scanned(q)
         /\ Written(q)' <=> Written(q)
<1>1. Steady' <=> Steady
  BY DEF Steady, Backs
<1>2. Growing(q)' <=> Growing(q)
  BY DEF Growing, Backs
<1>3. Changing(q)' <=> Changing(q)
  BY DEF Changing, NoHitsBefore
<1>4. Cutting(q)' <=> Cutting(q)
  BY DEF Cutting, Shifted
<1>5. Scanned(q)' <=> Scanned(q)
  BY DEF Scanned, NoHitsBefore
<1> QED
  BY <1>1, <1>2, <1>3, <1>4, <1>5 DEF Written, Active

\* A step of r that is no beginning.
LEMMA StepKeeps ==
  ASSUME TInv, TInv', SInv, NEW r \in Requests, UNCHANGED <<alone, raced>>,
         \A q \in Requests \ {r} : pc'[q] = pc[q] /\ my'[q] = my[q],
         pc'[r] # "idle",
         Active(r)' => Active(r) /\ my'[r].ask = my[r].ask,
         reply' = None \/ (reply'.req = r /\ pc'[r] = "done"),
         ~raced => r \in Writing \/ UNCHANGED <<arrays, orders, ideal>>,
         ~raced /\ r \in Writing \cup alone /\ Active(r)' => Scanned(r)',
         ~raced /\ r \in Writing /\ Active(r)' => Written(r)',
         ~raced /\ r \in Writing /\ ~Active(r)' => Steady'
  PROVE  SInv'
<1>1. Writing' \subseteq Writing /\ Writing \subseteq Writing' \cup {r}
  <2>1. \A q \in Requests \ {r} : (q \in Writing') <=> (q \in Writing)
    BY DEF Writing, Active
  <2>2. r \in Writing' => r \in Writing
    BY DEF Writing
  <2>3. Writing \subseteq Requests /\ Writing' \subseteq Requests
    BY DEF Writing
  <2> QED
    BY <2>1, <2>2, <2>3
<1>2. r \in Writing => (r \in Writing' <=> Active(r)')
  BY DEF Writing
<1>3. ASSUME ~raced, NEW q \in Requests \ {r}, UNCHANGED <<arrays, orders, ideal>>
      PROVE  /\ Active(q)' <=> Active(q)
             /\ Scanned(q)' <=> Scanned(q)
             /\ Written(q)' <=> Written(q)
  BY <1>3, SameKnown
<1>4. OneWriter'
  <2> SUFFICES ASSUME ~raced
               PROVE  /\ \A p, q \in Writing' : p = q
                      /\ Writing' = {} => Steady'
                      /\ \A q \in Writing' : Scanned(q)' /\ Written(q)'
    BY DEF OneWriter
  <2>1. \A p, q \in Writing : p = q
    BY DEF SInv, OneWriter
  <2>2. ASSUME Writing' = {} PROVE Steady'
    <3>1. CASE r \in Writing
      BY <1>2, <2>2, <3>1
    <3>2. CASE r \notin Writing
      <4>1. Writing = {} /\ UNCHANGED <<arrays, orders, ideal>>
        BY <1>1, <2>2, <3>2
      <4>2. Steady
        BY <4>1 DEF SInv, OneWriter
      <4> QED
        BY <4>1, <4>2 DEF Steady, Backs
    <3> QED
      BY <3>1, <3>2
  <2>3. ASSUME NEW q \in Writing' PROVE Scanned(q)' /\ Written(q)'
    <3>1. q \in Writing /\ q \in Requests
      BY <1>1 DEF Writing
    <3>2. CASE q = r
      BY <1>2, <3>1, <3>2
    <3>3. CASE q # r
      <4>1. UNCHANGED <<arrays, orders, ideal>>
        BY <2>1, <3>1, <3>3
      <4>2. Scanned(q) /\ Written(q)
        BY <3>1 DEF SInv, OneWriter
      <4> QED
        BY <1>3, <3>1, <3>3, <4>1, <4>2
    <3> QED
      BY <3>2, <3>3
  <2> QED
    BY <1>1, <2>1, <2>2, <2>3
<1>5. AloneTrue'
  <2>1. \A q \in alone : pc'[q] # "idle" /\ q \in Requests
    BY DEF SInv, AloneTrue, TInv, HistoryTyped
  <2>2. ASSUME ~raced, NEW q \in alone, Active(q)' PROVE Writing' \subseteq {q} /\ Scanned(q)'
    <3>1. CASE q = r
      BY <1>1, <2>2, <3>1 DEF SInv, AloneTrue
    <3>2. CASE q # r
      <4>1. Active(q)
        BY <2>1, <2>2, <3>2 DEF Active
      <4>2. Writing \subseteq {q} /\ Scanned(q)
        BY <2>2, <4>1 DEF SInv, AloneTrue
      <4>3. UNCHANGED <<arrays, orders, ideal>>
        BY <2>2, <3>2, <4>2
      <4> QED
        BY <1>1, <1>3, <2>1, <2>2, <3>2, <4>2, <4>3
    <3> QED
      BY <3>1, <3>2
  <2> QED
    BY <2>1, <2>2 DEF AloneTrue
<1>6. IdleTrue'
  BY DEF SInv, IdleTrue
<1>7. ReplyTrue'
  BY DEF ReplyTrue
<1> QED
  BY <1>4, <1>5, <1>6, <1>7 DEF SInv

LEMMA WriterKnows ==
  ASSUME TInv, SInv, NEW r \in Requests, pc[r] \in ArrayLabels \cup ChangeLabels \cup CutLabels
  PROVE  Active(r) /\ r \in Writing /\ (~raced => Written(r))
<1>1. Active(r) /\ Writes(my[r].ask)
  BY HandlerTyped DEF Active, Writes, Ready, ArrayLabels, ChangeLabels, CutLabels
<1> QED
  BY <1>1 DEF Writing, SInv, OneWriter

LEMMA ScannerKnows ==
  ASSUME TInv, SInv, NEW r \in Requests, pc[r] \in ScanLabels
  PROVE  Active(r) /\ (~raced /\ r \in Writing \cup alone => Scanned(r) /\ Steady)
<1>1. Active(r)
  BY DEF Active, ScanLabels
<1>2. CASE r \in Writing
  BY <1>1, <1>2 DEF SInv, OneWriter, Written
<1>3. CASE r \in alone /\ r \notin Writing /\ ~raced
  <2>1. Scanned(r) /\ Writing \subseteq {r}
    BY <1>1, <1>3 DEF SInv, AloneTrue
  <2>2. Writing = {}
    BY <1>3, <2>1
  <2> QED
    BY <1>1, <1>3, <2>1, <2>2 DEF SInv, OneWriter
<1> QED
  BY <1>1, <1>2, <1>3

LEMMA LoadArrayKeeps ==
  ASSUME TInv, TInv', SInv, NEW r \in Requests,
         LoadArray(r, "array", "append") \/ LoadArray(r, "found", "change")
  PROVE  SInv'
<1>1. /\ UNCHANGED <<alone, raced, arrays, orders, ideal>> /\ reply' = None
      /\ my'[r] = [my[r] EXCEPT !.arr = orders.arr, !.cap = orders.cap]
      /\ \/ pc[r] = "array" /\ pc'[r] = "append"
         \/ pc[r] = "found" /\ pc'[r] = "change"
  BY DEF LoadArray, Goto, memory, history, Silent, TInv, HandlersTyped
<1>2. \A q \in Requests \ {r} : pc'[q] = pc[q] /\ my'[q] = my[q]
  BY SliceMoves DEF Create, Change
<1>3. /\ my'[r].arr = orders.arr /\ my'[r].cap = orders.cap
      /\ my'[r].ask = my[r].ask /\ my'[r].i = my[r].i
  BY <1>1, HandlerTyped DEF Handlers
<1>4. Active(r) /\ r \in Writing /\ (~raced => Written(r))
  BY <1>1, WriterKnows DEF ArrayLabels, ChangeLabels
<1>5. ~raced => Written(r)'
  <2> HAVE ~raced
  <2>1. Steady'
    BY <1>1, <1>4 DEF Written, ChangeLabels, Steady, Backs
  <2>2. Growing(r)' /\ Cutting(r)'
    BY <1>1, <1>3 DEF Growing, Cutting, CutLabels
  <2>3. Changing(r)'
    BY <1>1, <1>3, <1>4 DEF Written, Changing, ChangeLabels, NoHitsBefore
  <2> QED
    BY <2>1, <2>2, <2>3 DEF Written
<1>6. Scanned(r)' /\ Active(r)'
  BY <1>1 DEF Scanned, ScanLabels, Active
<1> QED
  BY <1>1, <1>2, <1>3, <1>4, <1>5, <1>6, StepKeeps

LEMMA ExtendKeeps ==
  ASSUME TInv, TInv', SInv, NEW r \in Requests, Extend(r)
  PROVE  SInv'
<1> DEFINE n == orders.len
           a == my[r].arr
           room == n + 1 <= my[r].cap
<1>1. /\ UNCHANGED <<alone, raced, ideal>> /\ reply' = None /\ pc[r] = "append"
  BY DEF Extend, history, Silent
<1>2. \A q \in Requests \ {r} : pc'[q] = pc[q] /\ my'[q] = my[q]
  BY SliceMoves DEF Create
<1>3. /\ n \in Nat /\ a \in DOMAIN arrays /\ my[r] \in Handlers /\ arrays \in Seq(Seq(Order))
      /\ ideal \in Seq(Order) /\ Len(ideal) \in Nat /\ arrays[a] \in Seq(Order) /\ Len(arrays[a]) \in Nat
      /\ DOMAIN arrays = 1..Len(arrays) /\ Len(arrays) \in Nat
      /\ pc \in [Requests -> Labels] /\ my \in [Requests -> Handlers] /\ orders.arr \in DOMAIN arrays
      /\ orders \in [arr : DOMAIN arrays, len : Nat, cap : Nat]
  BY HandlerTyped
<1>4. Active(r) /\ r \in Writing /\ (~raced => Written(r))
  BY <1>1, WriterKnows DEF ArrayLabels
<1>5. ~raced => /\ a = orders.arr /\ n = Len(ideal) /\ Backs(a, ideal)
                /\ my[r].cap = Len(arrays[a]) /\ orders.cap = Len(arrays[a])
  BY <1>1, <1>4 DEF Written, Growing, Steady
<1>6. CASE room
  <2>1. /\ pc'[r] = "store" /\ orders' = [orders EXCEPT !.len = n + 1] /\ UNCHANGED arrays
        /\ my'[r] = [my[r] EXCEPT !.len = n + 1]
    BY <1>3, <1>6 DEF Extend, Goto
  <2>2. my'[r].arr = a /\ my'[r].len = n + 1 /\ my'[r].ask = my[r].ask
        /\ orders'.arr = orders.arr /\ orders'.len = n + 1 /\ orders'.cap = orders.cap
    BY <1>3, <2>1 DEF Handlers
  <2> HIDE DEF n, a
  <2>3. ~raced => Growing(r)'
    BY <1>1, <1>5, <1>6, <2>1, <2>2 DEF Growing, Backs
  <2>4. Changing(r)' /\ Cutting(r)' /\ Scanned(r)' /\ Active(r)'
    BY <2>1 DEF Changing, Cutting, Scanned, ScanLabels, ChangeLabels, CutLabels, Active
  <2>5. ~raced => Written(r)'
    BY <2>1, <2>3, <2>4 DEF Written, ScanLabels, ChangeLabels
  <2> QED
    BY <1>1, <1>2, <1>4, <2>1, <2>2, <2>4, <2>5, StepKeeps
<1>7. CASE ~room
  <2>3. PICK s \in Grown(a, n, my[r].cap) :
          /\ arrays' = Append(arrays, s)
          /\ my' = [my EXCEPT ![r].arr = Len(arrays) + 1, ![r].len = n + 1, ![r].cap = Len(s)]
    BY <1>7 DEF Extend
  <2>1. /\ pc'[r] = "grow" /\ UNCHANGED orders
        /\ my'[r] = [my[r] EXCEPT !.arr = Len(arrays) + 1, !.len = n + 1, !.cap = Len(s)]
    BY <1>3, <1>7, <2>3 DEF Extend, Goto
  <2>2. /\ my'[r].arr = Len(arrays) + 1 /\ my'[r].len = n + 1 /\ my'[r].cap = Len(s)
        /\ my'[r].ask = my[r].ask
    BY <1>3, <2>1 DEF Handlers
  <2>4. s \in Seq(Order) /\ Len(s) >= n + 1 /\ \A i \in 1..n : s[i] \in At(a, i)
    BY <1>3, HandlerTyped, GrownTyped DEF TInv
  <2>5. arrays'[Len(arrays) + 1] = s /\ \A i \in DOMAIN arrays : arrays'[i] = arrays[i]
    BY <1>3, <2>3, <2>4, AppendProperties
  <2> HIDE DEF n, a
  <2>6. ASSUME ~raced PROVE Growing(r)' /\ Steady'
    <3>1. Len(ideal) <= Len(s)
      BY <1>3, <1>5, <2>4, <2>6
    <3>2. ASSUME NEW i \in 1..Len(ideal) PROVE s[i] = ideal[i]
      <4>1. i <= Len(arrays[a]) /\ arrays[a][i] = ideal[i] /\ i \in 1..n
        BY <1>3, <1>5, <2>6 DEF Backs
      <4>2. s[i] \in {arrays[a][i]}
        BY <2>4, <4>1 DEF At
      <4> QED
        BY <4>1, <4>2
    <3>3. arrays'[my'[r].arr] = s
      BY <2>2, <2>5
    <3>4. Steady'
      BY <1>1, <1>3, <1>5, <2>1, <2>5, <2>6 DEF Steady, Backs, n
    <3>5. Growing(r)'
      BY <1>1, <1>3, <1>5, <2>1, <2>2, <2>4, <2>6, <3>1, <3>2, <3>3 DEF Growing, Backs
    <3> QED
      BY <3>4, <3>5
  <2>7. Changing(r)' /\ Cutting(r)' /\ Scanned(r)' /\ Active(r)'
    BY <2>1 DEF Changing, Cutting, Scanned, ScanLabels, ChangeLabels, CutLabels, Active
  <2>8. ~raced => Written(r)'
    BY <2>6, <2>7 DEF Written
  <2> QED
    BY <1>1, <1>2, <1>4, <2>1, <2>2, <2>7, <2>8, StepKeeps
<1> QED
  BY <1>6, <1>7

LEMMA StoreCapacityKeeps ==
  ASSUME TInv, TInv', SInv, NEW r \in Requests, StoreCapacity(r)
  PROVE  SInv'
<1>1. /\ UNCHANGED <<alone, raced, ideal, arrays, my>> /\ reply' = None
      /\ pc[r] = "grow" /\ pc'[r] = "pointer" /\ orders' = [orders EXCEPT !.cap = my[r].cap]
  BY HandlerTyped DEF StoreCapacity, Goto, history, Silent
<1>2. \A q \in Requests \ {r} : pc'[q] = pc[q] /\ my'[q] = my[q]
  BY SliceMoves DEF Create
<1>3. Active(r) /\ r \in Writing /\ (~raced => Written(r))
  BY <1>1, WriterKnows DEF ArrayLabels
<1>4. orders'.arr = orders.arr /\ orders'.len = orders.len /\ orders'.cap = my[r].cap
  BY <1>1, HandlerTyped
<1>5. ~raced => Growing(r)'
  BY <1>1, <1>3, <1>4 DEF Written, Growing, Steady, Backs
<1>6. Changing(r)' /\ Cutting(r)' /\ Scanned(r)' /\ Active(r)'
  BY <1>1 DEF Changing, Cutting, Scanned, ScanLabels, ChangeLabels, CutLabels, Active
<1>7. ~raced => Written(r)'
  BY <1>1, <1>5, <1>6 DEF Written, ScanLabels, ChangeLabels
<1> QED
  BY <1>1, <1>2, <1>3, <1>6, <1>7, StepKeeps

LEMMA StoreArrayKeeps ==
  ASSUME TInv, TInv', SInv, NEW r \in Requests, StoreArray(r)
  PROVE  SInv'
<1>1. /\ UNCHANGED <<alone, raced, ideal, arrays, my>> /\ reply' = None
      /\ pc[r] = "pointer" /\ pc'[r] = "length" /\ orders' = [orders EXCEPT !.arr = my[r].arr]
  BY HandlerTyped DEF StoreArray, Goto, history, Silent
<1>2. \A q \in Requests \ {r} : pc'[q] = pc[q] /\ my'[q] = my[q]
  BY SliceMoves DEF Create
<1>3. Active(r) /\ r \in Writing /\ (~raced => Written(r))
  BY <1>1, WriterKnows DEF ArrayLabels
<1>4. orders'.arr = my[r].arr /\ orders'.len = orders.len /\ orders'.cap = orders.cap
  BY <1>1, HandlerTyped
<1>5. ~raced => Growing(r)'
  BY <1>1, <1>3, <1>4 DEF Written, Growing, Steady, Backs
<1>6. Changing(r)' /\ Cutting(r)' /\ Scanned(r)' /\ Active(r)'
  BY <1>1 DEF Changing, Cutting, Scanned, ScanLabels, ChangeLabels, CutLabels, Active
<1>7. ~raced => Written(r)'
  BY <1>1, <1>5, <1>6 DEF Written, ScanLabels, ChangeLabels
<1> QED
  BY <1>1, <1>2, <1>3, <1>6, <1>7, StepKeeps

LEMMA StoreLengthKeeps ==
  ASSUME TInv, TInv', SInv, NEW r \in Requests, StoreLength(r)
  PROVE  SInv'
<1>1. /\ UNCHANGED <<alone, raced, ideal, arrays, my>> /\ reply' = None
      /\ pc[r] = "length" /\ pc'[r] = "store" /\ orders' = [orders EXCEPT !.len = my[r].len]
  BY HandlerTyped DEF StoreLength, Goto, history, Silent
<1>2. \A q \in Requests \ {r} : pc'[q] = pc[q] /\ my'[q] = my[q]
  BY SliceMoves DEF Create
<1>3. Active(r) /\ r \in Writing /\ (~raced => Written(r))
  BY <1>1, WriterKnows DEF ArrayLabels
<1>4. orders'.arr = orders.arr /\ orders'.len = my[r].len /\ orders'.cap = orders.cap
  BY <1>1, HandlerTyped
<1>5. ~raced => Growing(r)'
  BY <1>1, <1>3, <1>4 DEF Written, Growing, Backs
<1>6. Changing(r)' /\ Cutting(r)' /\ Scanned(r)' /\ Active(r)'
  BY <1>1 DEF Changing, Cutting, Scanned, ScanLabels, ChangeLabels, CutLabels, Active
<1>7. ~raced => Written(r)'
  BY <1>1, <1>5, <1>6 DEF Written, ScanLabels, ChangeLabels
<1> QED
  BY <1>1, <1>2, <1>3, <1>6, <1>7, StepKeeps

LEMMA StoreOrderKeeps ==
  ASSUME TInv, TInv', SInv, NEW r \in Requests, StoreOrder(r)
  PROVE  SInv'
<1> DEFINE x == [id |-> my[r].i, data |-> r]
           a == my[r].arr
           k == my[r].len
<1>1. /\ UNCHANGED <<alone, raced, orders>> /\ reply' = None
      /\ pc[r] = "store" /\ pc'[r] = "publish" /\ Put(a, k, x) /\ ideal' = Append(ideal, x)
  BY HandlerTyped DEF StoreOrder, Goto, Silent
<1>2. \A q \in Requests \ {r} : pc'[q] = pc[q] /\ my'[q] = my[q]
  BY SliceMoves DEF Create
<1>3. Active(r) /\ r \in Writing /\ (~raced => Written(r))
  BY <1>1, WriterKnows DEF ArrayLabels
<1>4. ~Active(r)'
  BY <1>1 DEF Active
<1>5. /\ x \in Order /\ a \in DOMAIN arrays /\ k \in Nat \ {0} /\ ideal \in Seq(Order) /\ Len(ideal) \in Nat
      /\ Len(arrays[a]) \in Nat
  <2>1. Ready("store", my[r])
    BY <1>1, HandlerTyped
  <2>2. my[r].len \in Nat \ {0}
    BY <2>1, HandlerTyped, ReadyAt
  <2> QED
    BY <2>2, HandlerTyped DEF Order
<1> HIDE DEF x
<1>6. /\ Len(ideal') = Len(ideal) + 1 /\ ideal'[Len(ideal) + 1] = x
      /\ \A i \in 1..Len(ideal) : ideal'[i] = ideal[i]
  BY <1>1, <1>5, AppendProperties
<1>7. /\ Len(arrays'[a]) = Len(arrays[a])
      /\ \A j \in 1..Len(arrays[a]) : arrays'[a][j] = IF j = k THEN x ELSE arrays[a][j]
  <2>1. MemoryTyped /\ Put(a, k, x)
    BY <1>1 DEF TInv
  <2>2. a \in DOMAIN arrays /\ k \in Nat \ {0} /\ x \in Order
    BY <1>5
  <2> HIDE DEF a, k
  <2> QED
    BY <2>1, <2>2, PutTyped
<1>8. ~raced => /\ Backs(a, ideal) /\ k = Len(ideal) + 1 /\ k <= Len(arrays[a])
                /\ orders.arr = a /\ orders.len = k /\ orders.cap = Len(arrays[a])
  BY <1>1, <1>3 DEF Written, Growing
<1> HIDE DEF a, k
<1>9. ~raced => Steady'
  BY <1>1, <1>5, <1>6, <1>7, <1>8 DEF Steady, Backs
<1> QED
  BY <1>1, <1>2, <1>3, <1>4, <1>9, StepKeeps

LEMMA LoadLengthKeeps ==
  ASSUME TInv, TInv', SInv, NEW r \in Requests, LoadLength(r)
  PROVE  SInv'
<1>1. /\ UNCHANGED <<alone, raced, ideal, arrays, orders>> /\ reply' = None
      /\ pc[r] = "range" /\ pc'[r] = "scan" /\ my'[r] = [my[r] EXCEPT !.len = orders.len]
  BY HandlerTyped DEF LoadLength, Goto, memory, history, Silent
<1>2. \A q \in Requests \ {r} : pc'[q] = pc[q] /\ my'[q] = my[q]
  BY SliceMoves DEF Change
<1>3. Active(r) /\ (~raced /\ r \in Writing \cup alone => Scanned(r) /\ Steady)
  BY <1>1, ScannerKnows DEF ScanLabels
<1>4. /\ my'[r].arr = my[r].arr /\ my'[r].ask = my[r].ask /\ my'[r].i = my[r].i
      /\ my'[r].seen = my[r].seen /\ my'[r].len = orders.len
  BY <1>1, HandlerTyped DEF Handlers
<1>5. ~raced /\ r \in Writing \cup alone => Scanned(r)'
  BY <1>1, <1>3, <1>4 DEF Scanned, ScanLabels, Steady, NoHitsBefore
<1>6. ~raced /\ r \in Writing => Written(r)'
  BY <1>1, <1>3 DEF Written, Growing, Changing, Cutting, ChangeLabels, CutLabels, Steady, Backs
<1>7. Active(r)'
  BY <1>1 DEF Active
<1> QED
  BY <1>1, <1>2, <1>3, <1>4, <1>5, <1>6, <1>7, StepKeeps

LEMMA ScanEndKeeps ==
  ASSUME TInv, TInv', SInv, NEW r \in Requests, ScanEnd(r)
  PROVE  SInv'
<1>1. /\ UNCHANGED <<alone, raced, ideal, arrays, orders>> /\ reply'.req = r
      /\ pc[r] = "scan" /\ pc'[r] = "done"
  BY HandlerTyped DEF ScanEnd, Answer, Goto, memory, history
<1>2. \A q \in Requests \ {r} : pc'[q] = pc[q] /\ my'[q] = my[q]
  BY SliceMoves DEF Change
<1>3. Active(r) /\ (~raced /\ r \in Writing \cup alone => Scanned(r) /\ Steady)
  BY <1>1, ScannerKnows DEF ScanLabels
<1>4. ~Active(r)'
  BY <1>1 DEF Active
<1>5. Steady' <=> Steady
  BY <1>1 DEF Steady, Backs
<1> QED
  BY <1>1, <1>2, <1>3, <1>4, <1>5, StepKeeps

\* The loop reads what is there, as long as nobody writes.
LEMMA ScanReads ==
  ASSUME TInv, NEW r \in Requests, pc[r] = "scan", my[r].i <= my[r].len, Scanned(r), Steady,
         NEW x \in At(my[r].arr, my[r].i)
  PROVE  my[r].i \in 1..Len(ideal) /\ x = ideal[my[r].i]
<1>1. my[r].i \in Nat /\ my[r].i >= 1 /\ Len(ideal) \in Nat /\ Len(arrays[my[r].arr]) \in Nat
  BY HandlerTyped, ReadyAt DEF ScanLabels
<1>2. my[r].arr = orders.arr /\ my[r].len = Len(ideal)
  BY DEF Scanned, ScanLabels
<1>3. my[r].i \in 1..Len(ideal)
  BY <1>1, <1>2
<1> QED
  BY <1>1, <1>2, <1>3 DEF Steady, Backs, At

LEMMA ScanKeeps ==
  ASSUME TInv, TInv', SInv, NEW r \in Requests, Scan(r)
  PROVE  SInv'
<1> DEFINE i == my[r].i
           op == my[r].ask.op
           n == my[r].ask.id
<1>1. /\ UNCHANGED <<alone, raced, ideal, arrays, orders>> /\ pc[r] = "scan" /\ i <= my[r].len
  BY DEF Scan, memory, history
<1>2. \A q \in Requests \ {r} : pc'[q] = pc[q] /\ my'[q] = my[q]
  BY SliceMoves DEF Change
<1>3. Active(r) /\ (~raced /\ r \in Writing \cup alone => Scanned(r) /\ Steady)
  BY <1>1, ScannerKnows DEF ScanLabels
<1>4. /\ my \in [Requests -> Handlers] /\ my[r] \in Handlers /\ pc \in [Requests -> Labels]
      /\ my[r].seen \in Seq(Order) /\ i \in Nat /\ ideal \in Seq(Order) /\ Len(ideal) \in Nat
  BY HandlerTyped
<1>5. i >= 1 /\ op # "POST" /\ my[r].ask \in AllAsks
  BY <1>1, HandlerTyped, ReadyAt, OrderSliceAssumption DEF ScanLabels
<1>6. PICK x \in At(my[r].arr, i) :
        IF op = "LIST"
          THEN my' = [my EXCEPT ![r].i = @ + 1, ![r].seen = Append(@, x)] /\ UNCHANGED pc /\ Silent
        ELSE IF x.id # n
          THEN my' = [my EXCEPT ![r].i = @ + 1] /\ UNCHANGED pc /\ Silent
        ELSE IF op = "GET" THEN Answer(r, Found(x))
        ELSE Goto(r, "found") /\ UNCHANGED my /\ Silent
  BY DEF Scan
<1>7. ~raced /\ r \in Writing \cup alone => i \in 1..Len(ideal) /\ x = ideal[i]
  BY <1>1, <1>3, ScanReads
<1>8. x \in Order
  <2>1. my[r].arr \in DOMAIN arrays /\ i \in Nat \ {0} /\ MemoryTyped
    BY <1>4, <1>5, HandlerTyped DEF TInv
  <2> QED
    BY <2>1, AtTyped
<1>9. Steady' <=> Steady
  BY <1>1 DEF Steady, Backs
<1>10. CASE op = "LIST"
  <2>1. /\ my'[r] = [my[r] EXCEPT !.i = my[r].i + 1, !.seen = Append(my[r].seen, x)]
        /\ pc'[r] = "scan" /\ reply' = None
    BY <1>1, <1>4, <1>6, <1>10 DEF Silent, Handlers
  <2>2. /\ my'[r].arr = my[r].arr /\ my'[r].ask = my[r].ask /\ my'[r].i = i + 1
        /\ my'[r].len = my[r].len /\ my'[r].seen = Append(my[r].seen, x)
    BY <1>4, <2>1 DEF Handlers
  <2>3. /\ Len(my'[r].seen) = Len(my[r].seen) + 1 /\ my'[r].seen[Len(my[r].seen) + 1] = x
        /\ \A j \in 1..Len(my[r].seen) : my'[r].seen[j] = my[r].seen[j]
    BY <1>4, <1>8, <2>2, AppendProperties
  <2>4. r \notin Writing
    BY <1>10 DEF Writing, Writes
  <2>5. ASSUME ~raced, r \in alone PROVE Scanned(r)'
    <3>1. /\ my[r].arr = orders.arr /\ my[r].len = Len(ideal) /\ Len(my[r].seen) = i - 1
          /\ \A j \in 1..(i - 1) : my[r].seen[j] = ideal[j]
      BY <1>1, <1>3, <1>10, <2>5 DEF Scanned, ScanLabels
    <3>2. Len(my'[r].seen) = i /\ my'[r].seen[i] = ideal[i] /\ i <= Len(ideal)
      BY <1>4, <1>5, <1>7, <2>3, <2>5, <3>1
    <3>3. \A j \in 1..i : my'[r].seen[j] = ideal[j]
      BY <1>4, <1>5, <2>3, <3>1, <3>2
    <3> QED
      BY <1>1, <1>4, <1>10, <2>1, <2>2, <3>1, <3>2, <3>3 DEF Scanned
  <2> QED
    BY <1>1, <1>2, <1>3, <2>1, <2>2, <2>4, <2>5, StepKeeps
<1>11. CASE op # "LIST" /\ x.id # n
  <2>1. my'[r] = [my[r] EXCEPT !.i = my[r].i + 1] /\ pc'[r] = "scan" /\ reply' = None
    BY <1>1, <1>4, <1>6, <1>11 DEF Silent, Handlers
  <2>2. /\ my'[r].arr = my[r].arr /\ my'[r].ask = my[r].ask /\ my'[r].i = i + 1
        /\ my'[r].len = my[r].len
    BY <1>4, <2>1 DEF Handlers
  <2>3. ASSUME ~raced, r \in Writing \cup alone PROVE Scanned(r)'
    <3>1. my[r].arr = orders.arr /\ my[r].len = Len(ideal) /\ NoHitsBefore(r, i)
      BY <1>1, <1>3, <1>11, <2>3 DEF Scanned, ScanLabels
    <3>2. \A j \in 1..i : ideal[j].id # n
      BY <1>4, <1>7, <1>11, <2>3, <3>1 DEF NoHitsBefore
    <3> QED
      BY <1>1, <1>4, <1>7, <1>11, <2>1, <2>2, <2>3, <3>1, <3>2 DEF Scanned, NoHitsBefore
  <2>4. ~raced /\ r \in Writing => Written(r)'
    BY <1>3, <1>9, <2>1 DEF Written, Growing, Changing, Cutting, ChangeLabels, CutLabels
  <2>5. ~raced /\ r \in Writing \cup alone => Scanned(r)'
    BY <2>3
  <2>6. /\ UNCHANGED <<alone, raced>> /\ pc'[r] # "idle" /\ reply' = None
        /\ Active(r)' /\ Active(r) /\ my'[r].ask = my[r].ask
    BY <1>1, <1>3, <2>1, <2>2 DEF Active
  <2> HIDE DEF i, op, n
  <2> QED
    BY <1>1, <1>2, <2>4, <2>5, <2>6, StepKeeps
<1>12. CASE op = "GET" /\ x.id = n
  <2>1. pc'[r] = "done" /\ reply'.req = r
    BY <1>4, <1>6, <1>12 DEF Answer, Goto
  <2>2. ~Active(r)'
    BY <2>1 DEF Active
  <2>3. ~raced /\ r \in Writing => Steady'
    BY <1>3, <1>9
  <2> QED
    BY <1>1, <1>2, <1>3, <2>1, <2>2, <2>3, StepKeeps
<1>13. CASE op \in {"PUT", "DELETE"} /\ x.id = n
  <2>1. pc'[r] = "found" /\ my'[r] = my[r] /\ reply' = None
    BY <1>4, <1>6, <1>13 DEF Silent, Goto
  <2>2. Scanned(r)'
    BY <2>1 DEF Scanned, ScanLabels
  <2>3. ASSUME ~raced, r \in Writing PROVE Written(r)'
    <3>1. my[r].arr = orders.arr /\ NoHitsBefore(r, i)
      BY <1>1, <1>3, <1>13, <2>3 DEF Scanned, ScanLabels
    <3>2. Changing(r)'
      BY <1>1, <1>4, <1>7, <1>13, <2>1, <2>3, <3>1 DEF Changing, NoHitsBefore
    <3> QED
      BY <1>3, <1>9, <2>1, <2>3, <3>2 DEF Written, Growing, Cutting, CutLabels
  <2>4. /\ UNCHANGED <<alone, raced>> /\ pc'[r] # "idle" /\ reply' = None
        /\ Active(r)' /\ Active(r) /\ my'[r].ask = my[r].ask
    BY <1>1, <1>3, <2>1 DEF Active
  <2> HIDE DEF i, op, n
  <2> QED
    BY <1>1, <1>2, <2>2, <2>3, <2>4, StepKeeps
<1> QED
  BY <1>5, <1>10, <1>11, <1>12, <1>13 DEF AllAsks

LEMMA UpdateKeeps ==
  ASSUME TInv, TInv', SInv, NEW r \in Requests, Update(r)
  PROVE  SInv'
<1> DEFINE i == my[r].i
           n == my[r].ask.id
           a == my[r].arr
           x == [id |-> n, data |-> r]
<1>1. /\ UNCHANGED <<alone, raced, orders>> /\ pc[r] = "change" /\ pc'[r] = "done" /\ reply'.req = r
  BY HandlerTyped DEF Update, Answer, Goto
<1>2. \A q \in Requests \ {r} : pc'[q] = pc[q] /\ my'[q] = my[q]
  BY SliceMoves DEF Change
<1>3. Active(r) /\ r \in Writing /\ (~raced => Written(r))
  BY <1>1, WriterKnows DEF ChangeLabels
<1>4. ~Active(r)'
  BY <1>1 DEF Active
<1>5. ASSUME ~raced PROVE Steady'
  <2>1. /\ orders.len = Len(ideal) /\ Backs(a, ideal) /\ a = orders.arr /\ i <= Len(ideal)
        /\ orders.cap = Len(arrays[a]) /\ ideal[i].id = n /\ NoHitsBefore(r, i)
    BY <1>1, <1>3, <1>5 DEF Written, Changing, ChangeLabels, Steady
  <2>2. /\ i \in Nat \ {0} /\ i \in 1..Len(ideal) /\ Len(ideal) \in Nat /\ ideal \in Seq(Order)
        /\ a \in DOMAIN arrays /\ Len(arrays[a]) \in Nat
    <3>1. i >= 1
      BY <1>1, HandlerTyped, ReadyAt DEF ChangeLabels
    <3> QED
      BY <2>1, <3>1, HandlerTyped
  <2>3. x \in Order
    <3>1. my[r].ask \in AllAsks /\ my[r].ask.op = "PUT"
      BY <1>1, HandlerTyped, ReadyAt, OrderSliceAssumption DEF Update, ChangeLabels
    <3> QED
      BY <3>1 DEF AllAsks, Order
  <2>4. Put(a, i, x) /\ ideal' = [k \in DOMAIN ideal |->
                                   IF k \in Hits(ideal, n) /\ k = First(ideal, n) THEN x ELSE ideal[k]]
    BY <2>1, <2>2 DEF Update, Replaced
  <2> HIDE DEF x, n
  <2>5. i \in Hits(ideal, n) /\ First(ideal, n) = i
    <3>1. ideal[i].id = n /\ \A j \in 1..(i - 1) : ideal[j].id # n
      BY <2>1 DEF NoHitsBefore, n
    <3> HIDE DEF i
    <3> QED
      BY <2>2, <3>1, FirstFound
  <2>6. Len(ideal') = Len(ideal) /\ \A k \in 1..Len(ideal) : ideal'[k] = IF k = i THEN x ELSE ideal[k]
    <3>1. ideal' \in Seq(Order) /\ DOMAIN ideal = 1..Len(ideal) /\ DOMAIN ideal' = DOMAIN ideal
      BY <2>2, <2>4 DEF TInv, MemoryTyped
    <3>2. Len(ideal') = Len(ideal)
      BY <2>2, <3>1
    <3>3. \A k \in DOMAIN ideal : ideal'[k] = IF k = i THEN x ELSE ideal[k]
      BY <2>4, <2>5
    <3> QED
      BY <3>1, <3>2, <3>3
  <2>7. /\ Len(arrays'[a]) = Len(arrays[a])
        /\ \A j \in 1..Len(arrays[a]) : arrays'[a][j] = IF j = i THEN x ELSE arrays[a][j]
    <3> HIDE DEF a, i
    <3>1. MemoryTyped
      BY DEF TInv
    <3> QED
      BY <2>2, <2>3, <2>4, <3>1, PutTyped
  <2> HIDE DEF a, i
  <2> QED
    BY <1>1, <2>1, <2>2, <2>6, <2>7 DEF Steady, Backs
<1> QED
  BY <1>1, <1>2, <1>3, <1>4, <1>5, StepKeeps

LEMMA CuttingIs ==
  ASSUME NEW r \in Requests, NEW i, NEW n, NEW a, NEW s,
         my'[r].i = i, my'[r].ask.id = n, my'[r].arr = a, my'[r].len = Len(s),
         ideal' = s, orders'.arr = a, Hits(s, n) # {}, First(s, n) <= i, i <= Len(s),
         Len(s) <= Len(arrays'[a]), my'[r].cap = orders'.cap, my'[r].cap = Len(arrays'[a]),
         \A j \in 1..(Len(s) - 1) :
           arrays'[a][j] = IF j < First(s, n) \/ i <= j THEN s[j] ELSE s[j + 1],
         IF pc'[r] = "cut" THEN orders'.len = Len(s) - 1 /\ i = Len(s)
                           ELSE orders'.len = Len(s) /\ arrays'[a][Len(s)] = s[Len(s)]
  PROVE  Cutting(r)'
BY DEF Cutting, Shifted

LEMMA DeleteKeeps ==
  ASSUME TInv, TInv', SInv, NEW r \in Requests, Delete(r)
  PROVE  SInv'
<1> DEFINE i == my[r].i
           n == my[r].ask.id
           a == my[r].arr
<1>1. UNCHANGED <<alone, raced, orders, arrays, ideal>> /\ pc[r] = "change"
  BY DEF Delete, memory, history
<1>2. \A q \in Requests \ {r} : pc'[q] = pc[q] /\ my'[q] = my[q]
  BY SliceMoves DEF Change
<1>3. Active(r) /\ r \in Writing /\ (~raced => Written(r))
  BY <1>1, WriterKnows DEF ChangeLabels
<1>4. Steady' <=> Steady
  BY <1>1 DEF Steady, Backs
<1>5. ~raced => Steady
  BY <1>1, <1>3 DEF Written, ChangeLabels
<1>6. /\ my \in [Requests -> Handlers] /\ my[r] \in Handlers /\ pc \in [Requests -> Labels]
      /\ ideal \in Seq(Order) /\ Len(ideal) \in Nat /\ i \in Nat
  BY HandlerTyped
<1>7. CASE i > orders.len
  <2>1. pc'[r] = "done" /\ reply'.req = r
    BY <1>6, <1>7 DEF Delete, Answer, Goto
  <2>2. ~Active(r)'
    BY <2>1 DEF Active
  <2> QED
    BY <1>1, <1>2, <1>3, <1>4, <1>5, <2>1, <2>2, StepKeeps
<1>8. CASE ~(i > orders.len)
  <2>1. pc'[r] = "move" /\ reply' = None /\ my'[r] = [my[r] EXCEPT !.len = orders.len]
    BY <1>6, <1>8 DEF Delete, Goto, Silent
  <2>2. /\ my'[r].arr = a /\ my'[r].ask = my[r].ask /\ my'[r].i = i /\ my'[r].len = orders.len
        /\ my'[r].cap = my[r].cap
    BY <1>6, <2>1 DEF Handlers
  <2>3. ASSUME ~raced PROVE Cutting(r)'
    <3>1. /\ orders.len = Len(ideal) /\ Backs(a, ideal) /\ a = orders.arr /\ i <= Len(ideal)
          /\ my[r].cap = orders.cap /\ orders.cap = Len(arrays[a])
          /\ ideal[i].id = n /\ NoHitsBefore(r, i)
      BY <1>1, <1>3, <1>5, <2>3 DEF Written, Changing, ChangeLabels, Steady
    <3>2. i >= 1
      BY <1>1, HandlerTyped, ReadyAt DEF ChangeLabels
    <3>3. i \in 1..Len(ideal)
      BY <1>6, <3>1, <3>2
    <3>4. i \in Hits(ideal, n) /\ First(ideal, n) = i
      BY <1>6, <3>1, <3>3, FirstFound DEF NoHitsBefore
    <3>5. \A j \in 1..(Len(ideal) - 1) : arrays[a][j] = ideal[j] /\ (j < i \/ i <= j)
      BY <1>6, <3>1, <3>3 DEF Backs
    <3>6. arrays[a][Len(ideal)] = ideal[Len(ideal)] /\ Len(ideal) <= Len(arrays[a])
      BY <1>6, <3>1, <3>3 DEF Backs
    <3>7. \A j \in 1..(Len(ideal) - 1) :
            arrays'[a][j] = IF j < First(ideal, n) \/ i <= j THEN ideal[j] ELSE ideal[j + 1]
      BY <1>1, <3>4, <3>5
    <3>8. /\ ideal' = ideal /\ arrays' = arrays /\ orders'.arr = a /\ orders'.len = Len(ideal)
          /\ my'[r].len = Len(ideal) /\ my'[r].ask.id = n /\ Hits(ideal, n) # {} /\ First(ideal, n) <= i
          /\ Len(ideal) <= Len(arrays'[a]) /\ my'[r].cap = orders'.cap /\ my'[r].cap = Len(arrays'[a])
      BY <1>1, <1>6, <2>2, <3>1, <3>4, <3>6
    <3>9. IF pc'[r] = "cut" THEN orders'.len = Len(ideal) - 1 /\ i = Len(ideal)
                            ELSE orders'.len = Len(ideal) /\ arrays'[a][Len(ideal)] = ideal[Len(ideal)]
      BY <2>1, <3>6, <3>8
    <3> HIDE DEF i, n, a
    <3> QED
      BY <2>2, <3>1, <3>6, <3>7, <3>8, <3>9, CuttingIs, Zenon
  <2>4. ~raced => Written(r)'
    BY <2>1, <2>3 DEF Written, Growing, Changing, ScanLabels, ChangeLabels
  <2>5. Scanned(r)' /\ Active(r)'
    BY <2>1 DEF Scanned, ScanLabels, Active
  <2> HIDE DEF i, n, a
  <2> QED
    BY <1>1, <1>2, <1>3, <2>1, <2>2, <2>4, <2>5, StepKeeps
<1> QED
  BY <1>7, <1>8

LEMMA MoveKeeps ==
  ASSUME TInv, TInv', SInv, NEW r \in Requests, Move(r)
  PROVE  SInv'
<1> DEFINE i == my[r].i
           n == my[r].ask.id
           a == my[r].arr
           f == First(ideal, n)
<1>1. UNCHANGED <<alone, raced, orders, ideal>> /\ pc[r] = "move" /\ pc'[r] = "move" /\ reply' = None
      /\ i < my[r].len
  BY DEF Move, history, Silent
<1>2. \A q \in Requests \ {r} : pc'[q] = pc[q] /\ my'[q] = my[q]
  BY SliceMoves DEF Change
<1>3. Active(r) /\ r \in Writing /\ (~raced => Written(r))
  BY <1>1, WriterKnows DEF CutLabels
<1>4. /\ my \in [Requests -> Handlers] /\ my[r] \in Handlers /\ a \in DOMAIN arrays
      /\ ideal \in Seq(Order) /\ Len(ideal) \in Nat /\ i \in Nat /\ Len(arrays[a]) \in Nat
  BY HandlerTyped
<1>5. i >= 1
  BY <1>1, HandlerTyped, ReadyAt
<1>6. my'[r] = [my[r] EXCEPT !.i = my[r].i + 1]
  BY <1>4 DEF Move
<1>7. /\ my'[r].arr = a /\ my'[r].ask = my[r].ask /\ my'[r].i = i + 1 /\ my'[r].len = my[r].len
      /\ my'[r].cap = my[r].cap
  BY <1>4, <1>6 DEF Handlers
<1>8. PICK x \in At(a, i + 1) : Put(a, i, x)
  BY DEF Move
<1>9. /\ Len(arrays'[a]) = Len(arrays[a])
      /\ \A j \in 1..Len(arrays[a]) : arrays'[a][j] = IF j = i THEN x ELSE arrays[a][j]
  <2>1. MemoryTyped /\ i \in Nat \ {0} /\ i + 1 \in Nat \ {0} /\ Put(a, i, x)
    BY <1>4, <1>5, <1>8 DEF TInv
  <2> HIDE DEF a, i
  <2>2. x \in Order
    BY <1>4, <1>8, <2>1, AtTyped
  <2>3. MemoryTyped /\ a \in DOMAIN arrays /\ i \in Nat \ {0} /\ Put(a, i, x)
    BY <1>4, <2>1
  <2> HIDE DEF f, n
  <2> QED
    BY <2>2, <2>3, PutTyped
<1>10. ASSUME ~raced PROVE Cutting(r)'
  <2>1. /\ Hits(ideal, n) # {} /\ f <= i /\ a = orders.arr /\ Len(ideal) <= Len(arrays[a])
        /\ my[r].len = Len(ideal) /\ orders.len = Len(ideal)
        /\ my[r].cap = orders.cap /\ my[r].cap = Len(arrays[a])
        /\ \A j \in 1..(Len(ideal) - 1) : arrays[a][j] = Shifted(j, i, n)
        /\ arrays[a][Len(ideal)] = ideal[Len(ideal)]
    BY <1>1, <1>3, <1>10 DEF Written, Cutting, CutLabels
  <2>2. f \in 1..Len(ideal)
    BY <1>4, <2>1, FirstIsHit
  <2>3. x = ideal[i + 1]
    <3>1. x = arrays[a][i + 1]
      BY <1>1, <1>4, <1>5, <1>8, <2>1 DEF At
    <3>2. CASE i + 1 = Len(ideal)
      BY <2>1, <3>1, <3>2
    <3>3. CASE i + 1 # Len(ideal)
      <4>1. i + 1 \in 1..(Len(ideal) - 1)
        BY <1>1, <1>4, <1>5, <2>1, <3>3
      <4>2. Shifted(i + 1, i, n) = ideal[i + 1]
        BY <1>4 DEF Shifted
      <4> QED
        BY <2>1, <3>1, <4>1, <4>2
    <3> QED
      BY <3>2, <3>3
  <2>4. ASSUME NEW j \in 1..(Len(ideal) - 1) PROVE arrays'[a][j] = Shifted(j, i + 1, n)
    <3>1. j \in 1..Len(arrays[a])
      BY <1>4, <2>1
    <3>2. CASE j = i
      <4>1. ~(j < f \/ i + 1 <= j)
        BY <1>4, <2>1, <2>2, <3>2
      <4> HIDE DEF f
      <4>2. Shifted(j, i + 1, n) = ideal[j + 1]
        BY <4>1 DEF Shifted, f
      <4> QED
        BY <1>9, <2>3, <3>1, <3>2, <4>2
    <3>3. CASE j # i
      <4>1. (j < f \/ i + 1 <= j) <=> (j < f \/ i <= j)
        BY <1>4, <2>2, <3>3
      <4> HIDE DEF f
      <4>2. Shifted(j, i + 1, n) = Shifted(j, i, n)
        BY <4>1 DEF Shifted, f
      <4> QED
        BY <1>9, <2>1, <3>1, <3>3, <4>2
    <3> QED
      BY <3>2, <3>3
  <2>5. arrays'[a][Len(ideal)] = ideal[Len(ideal)]
    BY <1>1, <1>4, <1>5, <1>9, <2>1
  <2>6. \A j \in 1..(Len(ideal) - 1) :
          arrays'[a][j] = IF j < f \/ i + 1 <= j THEN ideal[j] ELSE ideal[j + 1]
    BY <2>4 DEF Shifted
  <2>7. i + 1 <= Len(ideal) /\ f <= i + 1
    BY <1>1, <1>4, <2>1, <2>2
  <2>8. /\ ideal' = ideal /\ orders' = orders /\ pc'[r] # "cut" /\ my'[r].ask.id = n
        /\ my'[r].len = Len(ideal) /\ Len(ideal) <= Len(arrays'[a])
        /\ my'[r].cap = orders'.cap /\ my'[r].cap = Len(arrays'[a])
    BY <1>1, <1>7, <1>9, <2>1
  <2> HIDE DEF i, n, a
  <2>9. First(ideal, n) <= i + 1
    BY <2>7
  <2> QED
    BY <1>7, <2>1, <2>5, <2>6, <2>7, <2>8, <2>9, CuttingIs
<1>11. ~raced => Written(r)'
  BY <1>1, <1>10 DEF Written, Growing, Changing, ScanLabels, ChangeLabels
<1>12. Scanned(r)' /\ Active(r)'
  BY <1>1 DEF Scanned, ScanLabels, Active
<1> HIDE DEF i, n, a, f
<1> QED
  BY <1>1, <1>2, <1>3, <1>7, <1>11, <1>12, StepKeeps

LEMMA CutLengthKeeps ==
  ASSUME TInv, TInv', SInv, NEW r \in Requests, CutLength(r)
  PROVE  SInv'
<1>1. /\ UNCHANGED <<alone, raced, ideal, arrays, my>> /\ reply' = None /\ my[r].i >= my[r].len
      /\ pc[r] = "move" /\ pc'[r] = "cut" /\ orders' = [orders EXCEPT !.len = my[r].len - 1]
  BY HandlerTyped DEF CutLength, Goto, history, Silent
<1>2. \A q \in Requests \ {r} : pc'[q] = pc[q] /\ my'[q] = my[q]
  BY SliceMoves DEF Change
<1>3. Active(r) /\ r \in Writing /\ (~raced => Written(r))
  BY <1>1, WriterKnows DEF CutLabels
<1>4. /\ orders'.arr = orders.arr /\ orders'.len = my[r].len - 1 /\ orders'.cap = orders.cap
      /\ my[r].i \in Nat /\ Len(ideal) \in Nat
  BY <1>1, HandlerTyped
<1>5. ASSUME ~raced PROVE Cutting(r)'
  <2> DEFINE m == my[r]
             n == my[r].ask.id
  <2>1. /\ Hits(ideal, n) # {} /\ First(ideal, n) <= m.i /\ m.arr = orders.arr
        /\ m.cap = orders.cap /\ m.cap = Len(arrays[m.arr])
        /\ Len(ideal) <= Len(arrays[m.arr]) /\ m.len = Len(ideal) /\ m.i <= Len(ideal)
        /\ \A j \in 1..(Len(ideal) - 1) : arrays[m.arr][j] = Shifted(j, m.i, n)
    BY <1>1, <1>3, <1>5 DEF Written, Cutting, CutLabels
  <2>2. m.i = Len(ideal)
    BY <1>1, <1>4, <2>1
  <2> QED
    BY <1>1, <1>4, <2>1, <2>2 DEF Cutting, Shifted
<1>6. ~raced => Written(r)'
  BY <1>1, <1>5 DEF Written, Growing, Changing, ScanLabels, ChangeLabels
<1>7. Scanned(r)' /\ Active(r)'
  BY <1>1 DEF Scanned, ScanLabels, Active
<1> QED
  BY <1>1, <1>2, <1>3, <1>6, <1>7, StepKeeps

LEMMA CutArrayKeeps ==
  ASSUME TInv, TInv', SInv, NEW r \in Requests, CutArray(r)
  PROVE  SInv'
<1> DEFINE n == my[r].ask.id
           a == my[r].arr
           f == First(ideal, n)
<1>1. /\ UNCHANGED <<alone, raced, arrays>> /\ pc[r] = "cut" /\ pc'[r] = "done" /\ reply'.req = r
      /\ orders' = [orders EXCEPT !.arr = a, !.cap = my[r].cap]
      /\ ideal' = IF Hits(ideal, n) = {} THEN ideal ELSE RemoveAt(ideal, f)
  BY HandlerTyped DEF CutArray, Answer, Goto
<1>2. \A q \in Requests \ {r} : pc'[q] = pc[q] /\ my'[q] = my[q]
  BY SliceMoves DEF Change
<1>3. Active(r) /\ r \in Writing /\ (~raced => Written(r))
  BY <1>1, WriterKnows DEF CutLabels
<1>4. ~Active(r)'
  BY <1>1 DEF Active
<1>5. ASSUME ~raced PROVE Steady'
  <2>1. /\ Hits(ideal, n) # {} /\ Len(ideal) <= Len(arrays[a])
        /\ \A j \in 1..(Len(ideal) - 1) : arrays[a][j] = Shifted(j, Len(ideal), n)
        /\ orders.len = Len(ideal) - 1 /\ my[r].cap = Len(arrays[a])
    BY <1>1, <1>3, <1>5 DEF Written, Cutting, CutLabels
  <2>2. ideal \in Seq(Order) /\ Len(ideal) \in Nat
    BY HandlerTyped
  <2>3. f \in 1..Len(ideal)
    BY <2>1, <2>2, FirstIsHit
  <2>4. orders'.arr = a /\ orders'.len = orders.len /\ orders'.cap = my[r].cap
    BY <1>1, HandlerTyped
  <2>5. ideal' = RemoveAt(ideal, f)
    BY <1>1, <2>1
  <2>6. /\ \A j \in 1..(Len(ideal) - 1) : Shifted(j, Len(ideal), n) = IF j < f THEN ideal[j] ELSE ideal[j + 1]
    BY <2>2 DEF Shifted
  <2> HIDE DEF f
  <2>7. /\ Len(ideal') = Len(ideal) - 1
        /\ \A j \in 1..(Len(ideal) - 1) : ideal'[j] = IF j < f THEN ideal[j] ELSE ideal[j + 1]
    BY <2>2, <2>3, <2>5, RemoveAtIs
  <2> HIDE DEF a, n
  <2>8. \A j \in 1..(Len(ideal) - 1) : arrays'[a][j] = ideal'[j]
    BY <1>1, <2>1, <2>6, <2>7
  <2>9. Len(ideal') <= Len(arrays'[a])
    <3>1. Len(arrays[a]) \in Nat
      BY HandlerTyped DEF a
    <3> QED
      BY <1>1, <2>1, <2>2, <2>7, <3>1
  <2> QED
    BY <1>1, <2>1, <2>4, <2>7, <2>8, <2>9 DEF Steady, Backs
<1> QED
  BY <1>1, <1>2, <1>3, <1>4, <1>5, StepKeeps

\* A body that is refused, a publication and a POST's reply read and write no slice.
LEMMA ApartKeeps ==
  ASSUME TInv, TInv', SInv, NEW r \in Requests, Refuse(r) \/ Publish(r) \/ Created(r)
  PROVE  SInv'
<1>1. /\ UNCHANGED <<alone, raced, arrays, orders, ideal>>
      /\ pc[r] \in {"idle", "publish", "answer"} /\ pc'[r] \in {"answer", "done"}
      /\ reply' = None \/ (reply'.req = r /\ pc'[r] = "done")
      /\ \A q \in Requests \ {r} : pc'[q] = pc[q] /\ my'[q] = my[q]
  BY HandlerTyped DEF Refuse, Publish, Created, Answer, Goto, memory, history, Silent
<1>2. ~Active(r) /\ ~Active(r)' /\ r \notin Writing
  BY <1>1 DEF Active, Writing
<1> QED
  BY <1>1, <1>2, StepKeeps

LEMMA BeginKeeps ==
  ASSUME TInv, TInv', SInv, NEW r \in Requests, Begin(r)
  PROVE  SInv'
<1>1. /\ pc[r] = "idle" /\ UNCHANGED <<arrays, orders, ideal>> /\ reply' = None
      /\ r \notin alone /\ ~Active(r) /\ r \notin Writing /\ my[r].seen = << >>
  BY DEF Begin, memory, Silent, SInv, AloneTrue, IdleTrue, Active, Writing
<1>2. \A q \in Requests \ {r} : pc'[q] = pc[q] /\ my'[q] = my[q]
  BY SliceMoves
<1>3. PICK a \in Asks :
        /\ History(r, a)
        /\ IF a.op = "POST"
             THEN pc'[r] = "array" /\ my'[r] = [my[r] EXCEPT !.ask = a, !.i = orders.len + 1]
             ELSE pc'[r] = "range" /\ my'[r] = [my[r] EXCEPT !.ask = a, !.arr = orders.arr, !.i = 1]
  BY HandlerTyped DEF Begin, Goto
<1>4. /\ my'[r].ask = a
      /\ a.op # "POST" => my'[r].arr = orders.arr /\ my'[r].i = 1 /\ my'[r].seen = << >>
  BY <1>1, <1>3, HandlerTyped DEF Handlers
<1>5. ASSUME NEW q \in Requests \ {r}
      PROVE  /\ Active(q)' <=> Active(q)
             /\ Scanned(q)' <=> Scanned(q)
             /\ Written(q)' <=> Written(q)
  BY <1>1, <1>2, SameKnown
<1>6. Active(r)' /\ pc'[r] \in {"array", "range"}
  BY <1>3 DEF Active
<1>7. Writing' = Writing \cup (IF Writes(a) THEN {r} ELSE {})
  <2>1. \A q \in Requests \ {r} : q \in Writing' <=> q \in Writing
    BY <1>2, <1>5 DEF Writing
  <2>2. r \in Writing' <=> Writes(a)
    BY <1>4, <1>6 DEF Writing
  <2>3. Writing \subseteq Requests /\ Writing' \subseteq Requests
    BY DEF Writing
  <2> QED
    BY <1>1, <2>1, <2>2, <2>3
<1>8. Steady' <=> Steady
  BY <1>1 DEF Steady, Backs
<1>9. Scanned(r)'
  <2>1. CASE a.op = "POST"
    BY <1>3, <2>1 DEF Scanned, ScanLabels
  <2>2. CASE a.op # "POST"
    <3>1. Len(my'[r].seen) = 0 /\ Len(ideal) \in Nat
      BY <1>4, <2>2, HandlerTyped
    <3>2. my'[r].i = 1 /\ my'[r].arr = orders'.arr /\ pc'[r] = "range"
      BY <1>1, <1>3, <1>4, <2>2
    <3> QED
      BY <1>1, <3>1, <3>2 DEF Scanned, NoHitsBefore
  <2> QED
    BY <2>1, <2>2
<1>10. Steady => Written(r)'
  BY <1>6, <1>8 DEF Written, Growing, Changing, Cutting, ChangeLabels, CutLabels
<1>11. /\ raced' = (raced \/ (Writes(a) /\ Writing # {}))
       /\ alone' = (IF Writes(a) THEN {s \in alone : ~Active(s)} ELSE alone)
                     \cup (IF Writing = {} THEN {r} ELSE {})
  BY <1>3 DEF History
<1>12. OneWriter'
  <2> SUFFICES ASSUME ~raced'
               PROVE  /\ \A p, q \in Writing' : p = q
                      /\ Writing' = {} => Steady'
                      /\ \A q \in Writing' : Scanned(q)' /\ Written(q)'
    BY DEF OneWriter
  <2>1. ~raced /\ (Writes(a) => Writing = {})
    BY <1>11 DEF TInv, HistoryTyped
  <2>2. /\ \A p, q \in Writing : p = q
        /\ Writing = {} => Steady
        /\ \A q \in Writing : Scanned(q) /\ Written(q)
    BY <2>1 DEF SInv, OneWriter
  <2>3. CASE Writes(a)
    BY <1>7, <1>9, <1>10, <2>1, <2>2, <2>3
  <2>4. CASE ~Writes(a)
    <3>1. Writing' = Writing /\ Writing \subseteq Requests \ {r}
      BY <1>1, <1>7, <2>4 DEF Writing
    <3> QED
      BY <1>5, <1>8, <2>2, <3>1
  <2> QED
    BY <2>3, <2>4
<1>13. AloneTrue'
  <2>1. alone \subseteq Requests \ {r} /\ alone' \subseteq alone \cup {r}
    BY <1>1, <1>11 DEF TInv, HistoryTyped
  <2>2. \A q \in alone' : pc'[q] # "idle"
    BY <1>2, <1>6, <2>1 DEF SInv, AloneTrue
  <2>3. ASSUME ~raced', NEW q \in alone', Active(q)' PROVE Writing' \subseteq {q} /\ Scanned(q)'
    <3>1. ~raced /\ (Writes(a) => Writing = {})
      BY <1>11, <2>3 DEF TInv, HistoryTyped
    <3>2. CASE q = r
      <4>1. Writing = {}
        BY <1>11, <2>1, <3>2
      <4> QED
        BY <1>7, <1>9, <3>2, <4>1
    <3>3. CASE q # r
      <4>1. q \in alone /\ Active(q)
        BY <1>5, <2>1, <2>3, <3>3
      <4>2. ~Writes(a)
        BY <1>11, <2>3, <3>3, <4>1
      <4>3. Writing' = Writing /\ Writing \subseteq {q} /\ Scanned(q)
        BY <1>7, <3>1, <4>1, <4>2 DEF SInv, AloneTrue
      <4> QED
        BY <1>5, <2>1, <3>3, <4>1, <4>3
    <3> QED
      BY <3>2, <3>3
  <2> QED
    BY <2>2, <2>3 DEF AloneTrue
<1>14. IdleTrue' /\ ReplyTrue'
  BY <1>1, <1>2, <1>6 DEF SInv, IdleTrue, ReplyTrue
<1> QED
  BY <1>12, <1>13, <1>14 DEF SInv

\* A slice nobody has used yet.
LEMMA NewSlice ==
  ASSUME arrays = << << >> >>, orders = [arr |-> 1, len |-> 0, cap |-> 0], ideal = << >>
  PROVE  Steady
BY DEF Steady, Backs

LEMMA ServiceDiesKeeps ==
  ASSUME TInv, ServiceDies
  PROVE  SInv'
<1>1. /\ arrays' = << << >> >> /\ orders' = [arr |-> 1, len |-> 0, cap |-> 0] /\ ideal' = << >>
      /\ alone' = {} /\ reply' = None /\ my' = [r \in Requests |-> Fresh]
      /\ \A r \in Requests : pc'[r] \in {"idle", "done"}
  BY DEF ServiceDies, Silent
<1>2. Writing' = {}
  BY <1>1 DEF Writing, Active
<1>3. Steady'
  BY <1>1 DEF Steady, Backs
<1> QED
  BY <1>1, <1>2, <1>3 DEF SInv, OneWriter, AloneTrue, IdleTrue, ReplyTrue, Fresh

LEMMA SInvInit == ASSUME QueueInit PROVE SInv
<1>1. Steady
  BY NewSlice DEF QueueInit, Init
<1>2. Writing = {}
  BY DEF QueueInit, Init, Writing, Active
<1> QED
  BY <1>1, <1>2 DEF SInv, OneWriter, AloneTrue, IdleTrue, ReplyTrue, Fresh, QueueInit, Init

LEMMA SInvSame == ASSUME TInv, SInv, UNCHANGED sliceVars PROVE SInv'
<1>1. UNCHANGED <<arrays, orders, ideal, pc, my, reply, alone, raced>>
  BY DEF sliceVars, memory, history
<1>2. ASSUME NEW q \in Requests
      PROVE  /\ Active(q)' <=> Active(q)
             /\ Scanned(q)' <=> Scanned(q)
             /\ Written(q)' <=> Written(q)
  BY <1>1, SameKnown
<1>3. Writing' = Writing /\ Writing \subseteq Requests /\ alone \subseteq Requests
  BY <1>1, <1>2 DEF Writing, TInv, HistoryTyped
<1>4. Steady' <=> Steady
  BY <1>1 DEF Steady, Backs
<1>5. OneWriter'
  BY <1>1, <1>2, <1>3, <1>4 DEF SInv, OneWriter
<1>6. AloneTrue'
  BY <1>1, <1>2, <1>3 DEF SInv, AloneTrue
<1> QED
  BY <1>1, <1>5, <1>6 DEF SInv, IdleTrue, ReplyTrue

LEMMA SInvStep ==
  ASSUME TInv, TInv', SInv, [Next]_vars
  PROVE  SInv'
<1>1. ASSUME NEW r \in Requests, SliceStep(r) PROVE SInv'
  <2>1. CASE Begin(r) \/ Refuse(r)
    BY <2>1, BeginKeeps, ApartKeeps
  <2>2. CASE Create(r)
    BY <2>2, LoadArrayKeeps, ExtendKeeps, StoreCapacityKeeps, StoreArrayKeeps, StoreLengthKeeps,
       StoreOrderKeeps DEF Create
  <2>3. CASE Change(r)
    BY <2>3, LoadLengthKeeps, ScanKeeps, ScanEndKeeps, LoadArrayKeeps, UpdateKeeps, DeleteKeeps,
       MoveKeeps, CutLengthKeeps, CutArrayKeeps DEF Change
  <2> QED
    BY <1>1, <2>1, <2>2, <2>3 DEF SliceStep
<1>2. ASSUME NEW r \in Requests, Publish(r) \/ Created(r) PROVE SInv'
  BY <1>2, ApartKeeps
<1>3. CASE QueueSteps
  BY <1>3, QueueStepsTyped, SInvSame
<1>4. CASE ServiceDies
  BY <1>4, ServiceDiesKeeps
<1>5. CASE UNCHANGED vars
  BY <1>5, SInvSame DEF vars
<1> QED
  BY <1>1, <1>2, <1>3, <1>4, <1>5 DEF Next, QueueSteps

LEMMA SInvAlways == Spec => [](TInv /\ SInv)
<1>1. QueueInit => TInv /\ SInv
  BY TInvInit, SInvInit
<1>2. TInv /\ SInv /\ [Next]_vars => (TInv /\ SInv)'
  BY TInvStep, SInvStep
<1> QED
  BY <1>1, <1>2, PTL DEF Spec

LEMMA SteadyIsExact ==
  ASSUME TInv, SInv
  PROVE  SerialWritesAreExact
<1> SUFFICES ASSUME ~raced, Writing = {} PROVE Contents = ideal
  BY DEF SerialWritesAreExact
<1>1. orders.len = Len(ideal) /\ \A i \in 1..Len(ideal) : arrays[orders.arr][i] = ideal[i]
  BY DEF SInv, OneWriter, Steady, Backs
<1>2. ideal \in Seq(Order) /\ Len(ideal) \in Nat
  BY DEF TInv, MemoryTyped
<1>3. \A i \in 1..Len(ideal) : ideal[i] \in Order
  BY <1>2, ElementOfSeq
<1>4. Contents \in [1..Len(ideal) -> Order] /\ \A i \in 1..Len(ideal) : Contents[i] = ideal[i]
  BY <1>1, <1>3 DEF Contents
<1> HIDE DEF Contents
<1>5. Contents \in Seq(Order) /\ Len(Contents) = Len(ideal)
  BY <1>2, <1>4
<1> QED
  BY <1>2, <1>4, <1>5, SeqEqual

\* For any number of requests and any interleaving of their memory accesses
\* with those of the readers, a slice whose writers do not overlap holds what
\* they made of it one after the other (service.go:28-66).
THEOREM SerialWritesExact == Spec => []SerialWritesAreExact
BY SInvAlways, SteadyIsExact, PTL

\* What AloneIsExact says of a step.
AloneStep ==
  \A r \in alone : ~raced /\ Active(r) /\ reply' # None /\ reply'.req = r => reply'.is = AnswerOf(r)

LEMMA ScanEndAnswers ==
  ASSUME TInv, SInv, NEW r \in alone, ~raced, ScanEnd(r)
  PROVE  reply'.is = AnswerOf(r)
<1> DEFINE i == my[r].i
           n == my[r].ask.id
           op == my[r].ask.op
<1>1. r \in Requests /\ pc[r] = "scan" /\ i > my[r].len
      /\ reply'.is = IF op = "LIST" THEN Listed(my[r].seen) ELSE NotFound
  BY DEF ScanEnd, Answer, TInv, HistoryTyped
<1>2. Scanned(r)
  BY <1>1, ScannerKnows DEF ScanLabels
<1>3. /\ i <= Len(ideal) + 1 /\ my[r].len = Len(ideal)
      /\ IF op = "LIST" THEN Len(my[r].seen) = i - 1 /\ \A j \in 1..(i - 1) : my[r].seen[j] = ideal[j]
                        ELSE NoHitsBefore(r, i)
  BY <1>1, <1>2 DEF Scanned, ScanLabels
<1>4. /\ i \in Nat /\ ideal \in Seq(Order) /\ Len(ideal) \in Nat /\ my[r].seen \in Seq(Order)
  BY <1>1, HandlerTyped
<1>5. i - 1 = Len(ideal)
  BY <1>1, <1>3, <1>4
<1>6. CASE op = "LIST"
  <2>1. Len(my[r].seen) = Len(ideal) /\ \A j \in 1..Len(my[r].seen) : my[r].seen[j] = ideal[j]
    BY <1>3, <1>5, <1>6
  <2>2. my[r].seen = ideal
    BY <1>4, <2>1, SeqEqual
  <2> QED
    BY <1>1, <1>6, <2>2 DEF AnswerOf
<1>7. CASE op # "LIST"
  <2>1. \A j \in 1..Len(ideal) : ideal[j].id # n
    BY <1>3, <1>5, <1>7 DEF NoHitsBefore
  <2>2. Hits(ideal, n) = {}
    BY <1>4, <2>1 DEF Hits
  <2> QED
    BY <1>1, <1>7, <2>2 DEF AnswerOf
<1> QED
  BY <1>6, <1>7

LEMMA ScanAnswers ==
  ASSUME TInv, SInv, NEW r \in alone, ~raced, Scan(r), reply' # None
  PROVE  reply'.is = AnswerOf(r)
<1> DEFINE i == my[r].i
           n == my[r].ask.id
<1>1. r \in Requests /\ pc[r] = "scan" /\ i <= my[r].len
  BY DEF Scan, TInv, HistoryTyped
<1>2. PICK x \in At(my[r].arr, i) :
        my[r].ask.op = "GET" /\ x.id = n /\ Answer(r, Found(x))
  BY DEF Scan, Silent
<1>3. Scanned(r) /\ Steady
  BY <1>1, ScannerKnows DEF ScanLabels
<1>4. i \in 1..Len(ideal) /\ x = ideal[i]
  BY <1>1, <1>3, ScanReads
<1>5. \A j \in 1..(i - 1) : ideal[j].id # n
  BY <1>1, <1>2, <1>3 DEF Scanned, ScanLabels, NoHitsBefore
<1>6. ideal \in Seq(Order)
  BY <1>1, HandlerTyped
<1>7. i \in Hits(ideal, n) /\ First(ideal, n) = i
  <2> HIDE DEF i, n
  <2> QED
    BY <1>2, <1>4, <1>5, <1>6, FirstFound
<1>8. reply'.is = Found(ideal[First(ideal, n)])
  BY <1>2, <1>4, <1>7 DEF Answer
<1> QED
  BY <1>2, <1>7, <1>8 DEF AnswerOf

LEMMA ChangeAnswers ==
  ASSUME TInv, SInv, NEW r \in alone, ~raced, Update(r) \/ Delete(r), reply' # None
  PROVE  reply'.is = AnswerOf(r)
<1> DEFINE i == my[r].i
           n == my[r].ask.id
<1>1. r \in Requests /\ pc[r] = "change" /\ my[r].ask.op \in {"PUT", "DELETE"}
  BY DEF Update, Delete, TInv, HistoryTyped
<1>2. Written(r)
  BY <1>1, WriterKnows DEF ChangeLabels
<1>3. orders.len = Len(ideal) /\ i <= Len(ideal) /\ ideal[i].id = n /\ NoHitsBefore(r, i)
  BY <1>1, <1>2 DEF Written, Changing, ChangeLabels, Steady
<1>4. i \in Nat /\ Len(ideal) \in Nat /\ ideal \in Seq(Order)
  BY <1>1, HandlerTyped
<1>5. ~(i > orders.len)
  BY <1>3, <1>4
<1>6. i \in 1..Len(ideal)
  <2>1. i >= 1
    BY <1>1, HandlerTyped, ReadyAt DEF ChangeLabels
  <2> QED
    BY <1>3, <1>4, <2>1
<1>7. \A j \in 1..(i - 1) : ideal[j].id # n
  BY <1>3 DEF NoHitsBefore
<1>8. Hits(ideal, n) # {}
  <2> HIDE DEF i, n
  <2> QED
    BY <1>3, <1>4, <1>6, <1>7, FirstFound
<1>9. Update(r)
  BY <1>5 DEF Delete, Silent
<1>10. reply'.is = Found([id |-> n, data |-> r]) /\ my[r].ask.op = "PUT"
  BY <1>5, <1>9 DEF Update, Answer
<1> QED
  BY <1>8, <1>10 DEF AnswerOf

LEMMA CutArrayAnswers ==
  ASSUME TInv, SInv, NEW r \in alone, ~raced, CutArray(r)
  PROVE  reply'.is = AnswerOf(r)
<1>1. r \in Requests /\ pc[r] = "cut" /\ reply'.is = Deleted
  BY DEF CutArray, Answer, TInv, HistoryTyped
<1>2. Written(r)
  BY <1>1, WriterKnows DEF CutLabels
<1>3. Hits(ideal, my[r].ask.id) # {}
  BY <1>1, <1>2 DEF Written, Cutting, CutLabels
<1>4. my[r].ask.op = "DELETE"
  BY <1>1, HandlerTyped, ReadyAt
<1> QED
  BY <1>1, <1>3, <1>4 DEF AnswerOf

LEMMA SliceReplies ==
  ASSUME NEW r \in Requests, SliceStep(r), reply' # None, Active(r)
  PROVE  Scan(r) \/ ScanEnd(r) \/ Update(r) \/ Delete(r) \/ CutArray(r)
<1>1. ~Begin(r) /\ ~Refuse(r)
  BY DEF Active, Begin, Refuse
<1>2. ~Create(r)
  BY DEF Create, LoadArray, Extend, StoreCapacity, StoreArray, StoreLength, StoreOrder, Silent
<1> QED
  BY <1>1, <1>2 DEF SliceStep, Change, LoadArray, LoadLength, Move, CutLength, Silent

LEMMA SliceRepliesTo ==
  ASSUME TInv, NEW q \in Requests, SliceStep(q) \/ Publish(q) \/ Created(q), reply' # None
  PROVE  reply'.req = q
<1>1. CASE SliceStep(q)
  <2>1. CASE Begin(q) \/ Refuse(q)
    <3>1. ~Begin(q)
      BY DEF Begin, Silent
    <3> QED
      BY <2>1, <3>1 DEF Refuse, Answer
  <2>2. CASE Create(q)
    BY <2>2 DEF Create, LoadArray, Extend, StoreCapacity, StoreArray, StoreLength, StoreOrder, Silent
  <2>3. CASE Change(q)
    BY <2>3 DEF Change, LoadArray, LoadLength, Scan, ScanEnd, Update, Delete, Move, CutLength, CutArray,
                Answer, Silent
  <2> QED
    BY <1>1, <2>1, <2>2, <2>3 DEF SliceStep
<1>2. CASE Publish(q) \/ Created(q)
  BY <1>2 DEF Publish, Created, Answer, Silent
<1> QED
  BY <1>1, <1>2

LEMMA NextAnswers ==
  ASSUME TInv, SInv, Next
  PROVE  AloneStep
<1> SUFFICES ASSUME NEW r \in alone, ~raced, Active(r), reply' # None, reply'.req = r
             PROVE  reply'.is = AnswerOf(r)
  BY DEF AloneStep
<1>1. r \in Requests
  BY DEF TInv, HistoryTyped
<1>2. ASSUME NEW q \in Requests, SliceStep(q) \/ Publish(q) \/ Created(q) PROVE reply'.is = AnswerOf(r)
  <2>1. q = r
    BY <1>2, SliceRepliesTo
  <2>2. SliceStep(r)
    BY <1>2, <2>1 DEF Active, Publish, Created
  <2> QED
    BY <1>1, <2>2, SliceReplies, ScanAnswers, ScanEndAnswers, ChangeAnswers, CutArrayAnswers
<1>3. ASSUME UNCHANGED reply PROVE FALSE
  BY <1>3 DEF SInv, ReplyTrue, Active
<1>4. CASE QueueSteps
  BY <1>3, <1>4, QueueStepsTyped DEF sliceVars
<1>5. CASE ServiceDies
  BY <1>5 DEF ServiceDies, Silent
<1> QED
  BY <1>2, <1>4, <1>5 DEF Next, QueueSteps

\* A request that no writer has overlapped gets the answer that a service
\* with one list and one request at a time gives: the first order with the id,
\* the whole list, 404 exactly when there is none, and never a panic
\* (service.go:28-66).
THEOREM AloneAnswersExact == Spec => AloneIsExact
<1>1. TInv /\ SInv /\ [Next]_vars => [AloneStep]_vars
  BY NextAnswers
<1> QED
  BY <1>1, SInvAlways, PTL DEF Spec, AloneIsExact, AloneStep

---------------------------------------------------------------------------
(* Readers beside a POST or a PUT.                                         *)

\* What a GET of an order in the list knows of the array that it scans: the
\* first element with the id is there, has a value that the order had since
\* the GET began, and the loop has not passed it.
Reading(r) ==
  LET m    == my[r]
      n    == m.ask.id
      f    == First(ideal, n)
      held == arrays[m.arr] IN
  /\ Hits(ideal, n) # {} /\ ideal[f] \in values[r]
  /\ f <= Len(held) /\ held[f].id = n /\ held[f] \in values[r]
  /\ \A j \in 1..(f - 1) : held[j].id # n
  /\ pc[r] = "range" => m.i = 1
  /\ pc[r] = "scan" => m.i <= f /\ f <= m.len

ValuesTrue ==
  \A r \in Requests : values[r] # {} =>
    pc[r] # "idle" /\ ~Deleting /\ (Active(r) => my[r].ask.op = "GET")

ReadersTrue == ~raced => \A r \in Requests : Active(r) /\ values[r] # {} => Reading(r)

VInv == ValuesTrue /\ ReadersTrue

\* A reader's header holds the whole list, however its words are loaded.
LEMMA ListIsHeld ==
  ASSUME TInv, SInv, ~raced, ~Deleting
  PROVE  Backs(orders.arr, ideal) /\ orders.len >= Len(ideal)
<1>0. orders.len \in Nat /\ Len(ideal) \in Nat
  BY DEF TInv, MemoryTyped
<1>1. CASE Writing = {}
  BY <1>0, <1>1 DEF SInv, OneWriter, Steady
<1>2. CASE Writing # {}
  <2>1. PICK w \in Writing : TRUE
    BY <1>2
  <2>2. w \in Requests /\ Active(w) /\ Written(w) /\ my[w].ask.op # "DELETE"
    BY DEF Writing, SInv, OneWriter, Deleting
  <2>3. pc[w] \in ArrayLabels \cup ScanLabels \cup ChangeLabels
    BY <2>2, HandlerTyped, ReadyAt, LabelsAre DEF Active, ArrayLabels, ScanLabels, ChangeLabels
  <2>4. CASE pc[w] \in {"array", "append", "grow"} \cup ScanLabels \cup ChangeLabels
    BY <1>0, <2>2, <2>4 DEF Written, Steady
  <2>5. CASE pc[w] \in {"pointer", "length", "store"}
    BY <1>0, <2>2, <2>5 DEF Written, Growing
  <2> QED
    BY <2>3, <2>4, <2>5 DEF ArrayLabels
<1> QED
  BY <1>1, <1>2

LEMMA StillReads ==
  ASSUME NEW r \in Requests, Reading(r), pc'[r] = pc[r], my'[r] = my[r],
         NEW n, n = my[r].ask.id, NEW f, f = First(ideal, n), NEW a, a = my[r].arr,
         Hits(ideal', n) # {}, First(ideal', n) = f, ideal'[f] \in values'[r],
         Len(arrays'[a]) = Len(arrays[a]), arrays'[a][f].id = n, arrays'[a][f] \in values'[r],
         \A j \in 1..(f - 1) : arrays'[a][j].id # n
  PROVE  Reading(r)'
BY DEF Reading

LEMMA ReadsOn ==
  ASSUME NEW r \in Requests, Reading(r), pc'[r] = pc[r], my'[r] = my[r],
         UNCHANGED ideal, values'[r] = values[r], arrays'[my[r].arr] = arrays[my[r].arr]
  PROVE  Reading(r)'
BY DEF Reading

\* A step of a handler that is no beginning.
LEMMA AsksStay ==
  ASSUME TInv, NEW q \in Requests, Refuse(q) \/ Create(q) \/ Change(q) \/ Publish(q) \/ Created(q)
  PROVE  /\ \A s \in Requests \ {q} : pc'[s] = pc[s] /\ my'[s] = my[s]
         /\ Active(q)' => Active(q) /\ my'[q].ask = my[q].ask
         /\ pc'[q] # "idle" /\ UNCHANGED raced
         /\ \A s \in Requests : values'[s] # {} => values[s] # {}
         /\ ~Update(q) => UNCHANGED values
<1>1. /\ pc \in [Requests -> Labels] /\ my \in [Requests -> Handlers] /\ my[q] \in Handlers
      /\ values \in [Requests -> SUBSET Order]
  BY DEF TInv, HandlersTyped, HistoryTyped
<1>2. CASE Refuse(q) \/ Publish(q) \/ Created(q)
  <2>1. /\ pc'[q] \in {"answer", "done"} /\ UNCHANGED <<raced, values>>
        /\ \A s \in Requests \ {q} : pc'[s] = pc[s] /\ my'[s] = my[s]
    BY <1>1, <1>2 DEF Refuse, Publish, Created, Answer, Goto, history
  <2> QED
    BY <2>1 DEF Active
<1>3. CASE Create(q)
  <2>1. \A s \in Requests \ {q} : pc'[s] = pc[s] /\ my'[s] = my[s]
    BY <1>3, SliceMoves
  <2>2. UNCHANGED <<raced, values>>
    BY <1>3 DEF Create, LoadArray, Extend, StoreCapacity, StoreArray, StoreLength, StoreOrder, history
  <2>3. CASE StoreOrder(q)
    BY <1>1, <2>1, <2>2, <2>3 DEF StoreOrder, Goto, Active
  <2>4. CASE Extend(q)
    <3>1. pc[q] = "append" /\ pc'[q] \in {"store", "grow"}
      BY <1>1, <2>4 DEF Extend, Goto
    <3>2. my'[q].ask = my[q].ask
      BY <1>1, <2>4 DEF Extend, Handlers
    <3> QED
      BY <2>1, <2>2, <3>1, <3>2 DEF Active
  <2>5. CASE LoadArray(q, "array", "append") \/ StoreCapacity(q) \/ StoreArray(q) \/ StoreLength(q)
    <3>1. /\ pc[q] \in {"array", "grow", "pointer", "length"}
          /\ pc'[q] \in {"append", "pointer", "length", "store"}
      BY <1>1, <2>5 DEF LoadArray, StoreCapacity, StoreArray, StoreLength, Goto
    <3>2. my'[q].ask = my[q].ask
      BY <1>1, <2>5 DEF LoadArray, StoreCapacity, StoreArray, StoreLength, Handlers
    <3> QED
      BY <2>1, <2>2, <3>1, <3>2 DEF Active
  <2> QED
    BY <1>3, <2>3, <2>4, <2>5 DEF Create
<1>4. CASE Change(q)
  <2>1. \A s \in Requests \ {q} : pc'[s] = pc[s] /\ my'[s] = my[s]
    BY <1>4, SliceMoves
  <2>2. ~Update(q) => UNCHANGED values
    BY <1>4 DEF Change, LoadArray, LoadLength, Scan, ScanEnd, Delete, Move, CutLength, CutArray, history
  <2>3. UNCHANGED raced
    BY <1>4 DEF Change, LoadArray, LoadLength, Scan, ScanEnd, Update, Delete, Move, CutLength,
                CutArray, history
  <2>4. \A s \in Requests : values'[s] # {} => values[s] # {}
    <3>1. CASE Update(q)
      BY <1>1, <3>1 DEF Update, Replaced
    <3> QED
      BY <2>2, <3>1
  <2>5. pc[q] \in ScanLabels \cup ChangeLabels \cup CutLabels
    BY <1>4 DEF Change, LoadArray, LoadLength, Scan, ScanEnd, Update, Delete, Move, CutLength,
                CutArray, ScanLabels, ChangeLabels, CutLabels
  <2>6. pc'[q] # "idle" /\ (pc'[q] = "done" \/ my'[q].ask = my[q].ask)
    <3>1. CASE LoadLength(q) \/ LoadArray(q, "found", "change") \/ CutLength(q)
      BY <1>1, <3>1 DEF LoadLength, LoadArray, CutLength, Goto, Handlers
    <3>2. CASE Move(q)
      BY <1>1, <3>2 DEF Move, Handlers
    <3>3. CASE Delete(q)
      BY <1>1, <3>3 DEF Delete, Answer, Goto, Handlers
    <3>4. CASE ScanEnd(q) \/ Update(q) \/ CutArray(q)
      BY <1>1, <3>4 DEF ScanEnd, Update, CutArray, Answer, Goto
    <3>5. CASE Scan(q)
      <4>1. PICK x \in At(my[q].arr, my[q].i) :
              \/ my' = [my EXCEPT ![q].i = @ + 1, ![q].seen = Append(@, x)] /\ UNCHANGED pc
              \/ my' = [my EXCEPT ![q].i = @ + 1] /\ UNCHANGED pc
              \/ Answer(q, Found(x))
              \/ Goto(q, "found") /\ UNCHANGED my
        BY <3>5 DEF Scan
      <4>2. pc[q] = "scan"
        BY <3>5 DEF Scan
      <4> QED
        BY <1>1, <4>1, <4>2 DEF Answer, Goto, Handlers
    <3> QED
      BY <1>4, <3>1, <3>2, <3>3, <3>4, <3>5 DEF Change
  <2> QED
    BY <2>1, <2>2, <2>3, <2>4, <2>5, <2>6 DEF Active, ScanLabels, ChangeLabels, CutLabels
<1> QED
  BY <1>2, <1>3, <1>4

LEMMA ValuesStay ==
  ASSUME TInv, VInv, NEW q \in Requests, Refuse(q) \/ Create(q) \/ Change(q) \/ Publish(q) \/ Created(q)
  PROVE  ValuesTrue'
<1>1. \A s \in Requests : Active(s)' => Active(s) /\ my'[s].ask = my[s].ask
  BY AsksStay DEF Active
<1>2. Deleting' => Deleting
  BY <1>1 DEF Deleting, Writing
<1>3. \A s \in Requests : pc[s] # "idle" => pc'[s] # "idle"
  BY AsksStay
<1> QED
  BY <1>1, <1>2, <1>3, AsksStay DEF VInv, ValuesTrue

LEMMA ReadersBegin ==
  ASSUME TInv, SInv, VInv, NEW q \in Requests, Begin(q)
  PROVE  VInv'
<1>1. /\ pc[q] = "idle" /\ UNCHANGED <<arrays, orders, ideal>> /\ values[q] = {} /\ ~Active(q)
  BY DEF Begin, memory, VInv, ValuesTrue, Active
<1>2. \A s \in Requests \ {q} : pc'[s] = pc[s] /\ my'[s] = my[s]
  BY SliceMoves
<1>3. PICK a \in Asks :
        /\ History(q, a)
        /\ IF a.op = "POST"
             THEN pc'[q] = "array" /\ my'[q] = [my[q] EXCEPT !.ask = a, !.i = orders.len + 1]
             ELSE pc'[q] = "range" /\ my'[q] = [my[q] EXCEPT !.ask = a, !.arr = orders.arr, !.i = 1]
  BY HandlerTyped DEF Begin, Goto
<1>4. /\ my'[q].ask = a
      /\ a.op # "POST" => my'[q].arr = orders.arr /\ my'[q].i = 1
  BY <1>3, HandlerTyped DEF Handlers
<1>5. /\ values' = IF a.op = "DELETE" THEN [s \in Requests |-> {}]
                   ELSE IF a.op = "GET" /\ ~Deleting THEN [values EXCEPT ![q] = Listing(a.id)]
                   ELSE values
      /\ raced' = (raced \/ (Writes(a) /\ Writing # {}))
  BY <1>3 DEF History
<1>6. values \in [Requests -> SUBSET Order] /\ raced \in BOOLEAN
  BY DEF TInv, HistoryTyped
<1>7. Active(q)' /\ pc'[q] # "idle"
  BY <1>3 DEF Active
<1>8. ValuesTrue'
  <2> SUFFICES ASSUME NEW r \in Requests, values'[r] # {}
               PROVE  pc'[r] # "idle" /\ ~Deleting' /\ (Active(r)' => my'[r].ask.op = "GET")
    BY DEF ValuesTrue
  <2>1. a.op # "DELETE"
    BY <1>5
  <2>2. Deleting' => Deleting
    BY <1>2, <1>4, <2>1 DEF Deleting, Writing, Active
  <2>3. CASE r = q
    BY <1>1, <1>4, <1>5, <1>6, <1>7, <2>1, <2>2, <2>3
  <2>4. CASE r # q
    <3>1. values'[r] = values[r] /\ (Active(r)' <=> Active(r))
      BY <1>2, <1>5, <1>6, <2>1, <2>4 DEF Active
    <3> QED
      BY <1>2, <2>2, <2>4, <3>1 DEF VInv, ValuesTrue
  <2> QED
    BY <2>3, <2>4
<1>9. ReadersTrue'
  <2> SUFFICES ASSUME ~raced', NEW r \in Requests, Active(r)', values'[r] # {}
               PROVE  Reading(r)'
    BY DEF ReadersTrue
  <2>1. ~raced /\ a.op # "DELETE"
    BY <1>5, <1>6
  <2>2. CASE r = q
    <3>1. a.op = "GET" /\ ~Deleting /\ values'[r] = Listing(a.id)
      BY <1>1, <1>5, <1>6, <2>1, <2>2
    <3> DEFINE n == a.id
               f == First(ideal, n)
    <3>2. Hits(ideal, n) # {} /\ ideal[f] \in values'[r]
      BY <3>1 DEF Listing
    <3>3. values'[r] = {ideal[f]}
      BY <3>1, <3>2 DEF Listing
    <3>4. /\ f \in 1..Len(ideal) /\ ideal[f].id = n /\ Len(ideal) \in Nat /\ ideal \in Seq(Order)
          /\ Len(arrays[orders.arr]) \in Nat
      BY <3>2, HandlerTyped, FirstIsHit
    <3>5. \A j \in 1..(f - 1) : ideal[j].id # n
      BY <3>2, <3>4, FirstIsHit
    <3>6. Backs(orders.arr, ideal)
      BY <2>1, <3>1, ListIsHeld
    <3>7. /\ pc'[r] = "range" /\ my'[r].i = 1 /\ my'[r].arr = orders.arr /\ my'[r].ask.id = n
      BY <1>3, <1>4, <2>2, <3>1
    <3>8. /\ f <= Len(arrays[orders.arr]) /\ arrays[orders.arr][f] = ideal[f]
          /\ \A j \in 1..(f - 1) : arrays[orders.arr][j].id # n
      BY <3>4, <3>5, <3>6 DEF Backs
    <3> HIDE DEF n
    <3> QED
      BY <1>1, <3>2, <3>4, <3>7, <3>8 DEF Reading
  <2>3. CASE r # q
    <3>1. values'[r] = values[r] /\ Active(r)
      BY <1>2, <1>5, <1>6, <2>1, <2>3 DEF Active
    <3>2. Reading(r)
      BY <2>1, <3>1 DEF VInv, ReadersTrue
    <3> QED
      BY <1>1, <1>2, <2>3, <3>1, <3>2, ReadsOn
  <2> QED
    BY <2>2, <2>3
<1> QED
  BY <1>8, <1>9 DEF VInv

LEMMA StoreOrderReads ==
  ASSUME TInv, SInv, ~raced, NEW q \in Requests, StoreOrder(q), NEW r \in Requests \ {q}, Reading(r)
  PROVE  Reading(r)'
<1> DEFINE x == [id |-> my[q].i, data |-> q]
           a == my[q].arr
           k == my[q].len
           b == my[r].arr
           n == my[r].ask.id
           f == First(ideal, n)
<1>1. /\ pc[q] = "store" /\ Put(a, k, x) /\ ideal' = Append(ideal, x) /\ UNCHANGED values
      /\ pc'[r] = pc[r] /\ my'[r] = my[r]
  BY SliceMoves DEF StoreOrder, Create
<1>2. k = Len(ideal) + 1
  <2>1. Written(q)
    BY <1>1, WriterKnows DEF ArrayLabels
  <2> QED
    BY <1>1, <2>1 DEF Written, Growing
<1>3. /\ x \in Order /\ a \in DOMAIN arrays /\ ideal \in Seq(Order) /\ Len(ideal) \in Nat
      /\ b \in DOMAIN arrays /\ arrays \in Seq(Seq(Order)) /\ Len(arrays[b]) \in Nat /\ k \in Nat \ {0}
      /\ MemoryTyped
  <2>1. my[q].i \in Nat
    BY HandlerTyped
  <2>2. x \in Order
    BY <2>1 DEF Order
  <2>3. /\ a \in DOMAIN arrays /\ ideal \in Seq(Order) /\ Len(ideal) \in Nat
        /\ b \in DOMAIN arrays /\ arrays \in Seq(Seq(Order)) /\ Len(arrays[b]) \in Nat
    BY HandlerTyped
  <2>4. k \in Nat \ {0}
    BY <1>2, <2>3
  <2> QED
    BY <2>2, <2>3, <2>4 DEF TInv
<1>4. /\ Hits(ideal, n) # {} /\ ideal[f] \in values[r]
      /\ f <= Len(arrays[b]) /\ arrays[b][f].id = n /\ arrays[b][f] \in values[r]
      /\ \A j \in 1..(f - 1) : arrays[b][j].id # n
  BY DEF Reading
<1> HIDE DEF x, a, k
<1>5. f \in 1..Len(ideal) /\ ideal[f].id = n /\ \A j \in 1..(f - 1) : ideal[j].id # n
  BY <1>3, <1>4, FirstIsHit
<1>6. /\ ideal' \in Seq(Order) /\ Len(ideal') = Len(ideal) + 1
      /\ \A i \in 1..Len(ideal) : ideal'[i] = ideal[i]
  BY <1>1, <1>3, AppendProperties
<1> HIDE DEF n, f
<1>7. f \in Hits(ideal', n) /\ First(ideal', n) = f
  <2>0. Len(ideal) \in Nat /\ f \in Nat
    BY <1>3, <1>5
  <2>1. f \in 1..Len(ideal') /\ ideal'[f].id = n /\ \A j \in 1..(f - 1) : ideal'[j].id # n
    <3>1. f \in 1..Len(ideal') /\ ideal'[f].id = n
      BY <1>5, <1>6, <2>0
    <3>2. ASSUME NEW j \in 1..(f - 1) PROVE ideal'[j].id # n
      <4>1. j \in 1..Len(ideal)
        BY <1>5, <2>0
      <4> QED
        BY <1>5, <1>6, <4>1
    <3> QED
      BY <3>1, <3>2
  <2> QED
    BY <1>6, <2>1, FirstFound
<1>8. Len(arrays'[b]) = Len(arrays[b]) /\ \A j \in 1..f : arrays'[b][j] = arrays[b][j]
  <2>1. CASE b = a
    <3>1. /\ Len(arrays'[a]) = Len(arrays[a])
          /\ \A j \in 1..Len(arrays[a]) : arrays'[a][j] = IF j = k THEN x ELSE arrays[a][j]
      BY <1>1, <1>3, PutTyped
    <3> HIDE DEF b
    <3>2. \A j \in 1..f : j \in 1..Len(arrays[b]) /\ j # k
      BY <1>2, <1>3, <1>4, <1>5
    <3> QED
      BY <2>1, <3>1, <3>2
  <2>2. CASE b # a
    BY <1>1, <1>3, <2>2 DEF Put
  <2> QED
    BY <2>1, <2>2
<1>9. /\ arrays'[b][f].id = n /\ arrays'[b][f] \in values'[r] /\ ideal'[f] \in values'[r]
      /\ \A j \in 1..(f - 1) : arrays'[b][j].id # n
  <2>1. f \in Nat /\ f \in 1..f /\ \A j \in 1..(f - 1) : j \in 1..f
    BY <1>3, <1>5
  <2>2. arrays'[b][f] = arrays[b][f] /\ \A j \in 1..(f - 1) : arrays'[b][j] = arrays[b][j]
    BY <1>8, <2>1
  <2>3. ideal'[f] = ideal[f]
    BY <1>5, <1>6
  <2>4. values'[r] = values[r]
    BY <1>1
  <2> HIDE DEF b
  <2> QED
    BY <1>4, <2>2, <2>3, <2>4
<1> QED
  BY <1>1, <1>7, <1>8, <1>9, StillReads DEF n, f

LEMMA UpdateReads ==
  ASSUME TInv, SInv, ~raced, NEW q \in Requests, Update(q), NEW r \in Requests \ {q}, Reading(r),
         Active(r), values[r] # {}
  PROVE  Reading(r)'
<1> DEFINE p == my[q].ask.id
           x == [id |-> p, data |-> q]
           a == my[q].arr
           i == my[q].i
           b == my[r].arr
           n == my[r].ask.id
           f == First(ideal, n)
<1>1. pc[q] = "change" /\ pc'[r] = pc[r] /\ my'[r] = my[r]
  BY SliceMoves DEF Update, Change
<1>2. CASE i > orders.len
  <2>1. UNCHANGED <<arrays, ideal, values>>
    BY <1>2 DEF Update
  <2> QED
    BY <1>1, <2>1, ReadsOn
<1>3. CASE ~(i > orders.len)
  <2>1. Put(a, i, x) /\ Replaced(x)
    BY <1>3 DEF Update
  <2>2. i <= Len(ideal) /\ ideal[i].id = p /\ NoHitsBefore(q, i)
    <3>1. Written(q)
      BY <1>1, WriterKnows DEF ChangeLabels
    <3> QED
      BY <1>1, <3>1 DEF Written, Changing, ChangeLabels
  <2>3. /\ a \in DOMAIN arrays /\ ideal \in Seq(Order) /\ Len(ideal) \in Nat
        /\ b \in DOMAIN arrays /\ arrays \in Seq(Seq(Order)) /\ Len(arrays[b]) \in Nat /\ i \in Nat \ {0}
        /\ MemoryTyped /\ values \in [Requests -> SUBSET Order]
    <3>1. i >= 1
      BY <1>1, HandlerTyped, ReadyAt DEF ChangeLabels
    <3> QED
      BY <3>1, HandlerTyped DEF TInv, HistoryTyped
  <2>4. x \in Order /\ x.id = p
    <3>1. my[q].ask \in AllAsks /\ my[q].ask.op = "PUT"
      BY <1>1, HandlerTyped, ReadyAt, OrderSliceAssumption DEF Update, ChangeLabels
    <3> QED
      BY <3>1 DEF AllAsks, Order
  <2>5. /\ ideal' = [k \in DOMAIN ideal |->
                      IF k \in Hits(ideal, p) /\ k = First(ideal, p) THEN x ELSE ideal[k]]
        /\ ideal' = [k \in DOMAIN ideal |->
                      IF k \in Hits(ideal, x.id) /\ k = First(ideal, x.id) THEN x ELSE ideal[k]]
        /\ values'[r] = IF n = p THEN values[r] \cup {x} ELSE values[r]
    BY <2>1, <2>3, <2>4 DEF Replaced
  <2>6. /\ Hits(ideal, n) # {} /\ ideal[f] \in values[r]
        /\ f <= Len(arrays[b]) /\ arrays[b][f].id = n /\ arrays[b][f] \in values[r]
        /\ \A j \in 1..(f - 1) : arrays[b][j].id # n
    BY DEF Reading
  <2> HIDE DEF x, p
  <2>7. i \in Hits(ideal, p) /\ First(ideal, p) = i /\ i \in 1..Len(ideal)
    <3>1. i \in 1..Len(ideal) /\ \A j \in 1..(i - 1) : ideal[j].id # p
      BY <2>2, <2>3 DEF NoHitsBefore, p
    <3>2. ideal[i].id = p /\ ideal \in Seq(Order)
      BY <2>2, <2>3 DEF p
    <3> HIDE DEF i
    <3> QED
      BY <3>1, <3>2, FirstFound
  <2>8. f \in 1..Len(ideal) /\ ideal[f].id = n /\ \A j \in 1..(f - 1) : ideal[j].id # n
    BY <2>3, <2>6, FirstIsHit
  <2>9. n = p => f = i
    BY <2>7
  <2>10. n # p => f # i
    BY <2>2, <2>8
  <2>11. /\ DOMAIN ideal' = DOMAIN ideal /\ DOMAIN ideal = 1..Len(ideal)
         /\ \A j \in 1..Len(ideal) : ideal'[j] = IF j = i THEN x ELSE ideal[j]
    BY <2>3, <2>5, <2>7
  <2>12. ideal' \in Seq(Order) /\ Len(ideal') = Len(ideal)
    <3> DEFINE t == [k \in DOMAIN ideal |->
                      IF k \in Hits(ideal, x.id) /\ k = First(ideal, x.id) THEN x ELSE ideal[k]]
    <3>1. t \in Seq(Order) /\ Len(t) = Len(ideal)
      BY <2>3, <2>4, ReplacedTyped
    <3> QED
      BY <2>5, <3>1
  <2> HIDE DEF a, i, b, n, f
  <2>13. f \in Hits(ideal', n) /\ First(ideal', n) = f
    <3>1. f \in 1..Len(ideal') /\ ideal'[f].id = n
      BY <2>4, <2>8, <2>9, <2>10, <2>11, <2>12
    <3>2. ASSUME NEW j \in 1..(f - 1) PROVE ideal'[j].id # n
      <4>1. j \in 1..Len(ideal) /\ ideal[j].id # n /\ j # f
        BY <2>3, <2>8
      <4> QED
        BY <2>4, <2>9, <2>11, <4>1
    <3> QED
      BY <2>12, <3>1, <3>2, FirstFound
  <2>14. /\ Len(arrays'[b]) = Len(arrays[b])
         /\ \A j \in 1..Len(arrays[b]) :
              arrays'[b][j] = arrays[b][j] \/ (j = i /\ arrays'[b][j] = x)
    <3>1. CASE b = a
      <4>1. /\ Len(arrays'[a]) = Len(arrays[a])
            /\ \A j \in 1..Len(arrays[a]) : arrays'[a][j] = IF j = i THEN x ELSE arrays[a][j]
        BY <2>1, <2>3, <2>4, PutTyped
      <4> QED
        BY <3>1, <4>1
    <3>2. CASE b # a
      BY <2>1, <2>3, <3>2 DEF Put
    <3> QED
      BY <3>1, <3>2
  <2>15. f \in 1..Len(arrays[b])
    BY <2>3, <2>6, <2>8
  <2>16. arrays'[b][f].id = n /\ arrays'[b][f] \in values'[r]
    BY <2>4, <2>5, <2>6, <2>10, <2>14, <2>15
  <2>17. ASSUME NEW j \in 1..(f - 1) PROVE arrays'[b][j].id # n
    <3>1. j \in 1..Len(arrays[b]) /\ j # f
      BY <2>3, <2>15
    <3> QED
      BY <2>4, <2>6, <2>9, <2>14, <3>1
  <2>18. ideal'[f] \in values'[r]
    BY <2>5, <2>6, <2>8, <2>10, <2>11
  <2> QED
    BY <1>1, <2>13, <2>14, <2>16, <2>17, <2>18, StillReads DEF b, n, f
<1> QED
  BY <1>2, <1>3

\* A step of another handler.
LEMMA OthersRead ==
  ASSUME TInv, SInv, VInv, ~raced, NEW q \in Requests, NEW r \in Requests \ {q},
         Refuse(q) \/ Create(q) \/ Change(q) \/ Publish(q) \/ Created(q),
         Reading(r), Active(r), values[r] # {}
  PROVE  Reading(r)'
<1>1. pc'[r] = pc[r] /\ my'[r] = my[r]
  BY AsksStay
<1>2. ASSUME UNCHANGED <<arrays, ideal, values>> PROVE Reading(r)'
  BY <1>1, <1>2, ReadsOn
<1>3. CASE Refuse(q) \/ Publish(q) \/ Created(q)
  BY <1>2, <1>3 DEF Refuse, Publish, Created, memory, history
<1>4. CASE Create(q)
  <2>1. CASE LoadArray(q, "array", "append") \/ StoreCapacity(q) \/ StoreArray(q) \/ StoreLength(q)
    BY <1>2, <2>1 DEF LoadArray, StoreCapacity, StoreArray, StoreLength, memory, history
  <2>2. CASE Extend(q)
    <3>1. /\ UNCHANGED <<ideal, values>>
          /\ UNCHANGED arrays \/ \E s \in Grown(my[q].arr, orders.len, my[q].cap) : arrays' = Append(arrays, s)
      BY <2>2 DEF Extend, history
    <3>2. CASE UNCHANGED arrays
      BY <1>2, <3>1, <3>2
    <3>3. CASE \E s \in Grown(my[q].arr, orders.len, my[q].cap) : arrays' = Append(arrays, s)
      <4>1. PICK s \in Grown(my[q].arr, orders.len, my[q].cap) : arrays' = Append(arrays, s)
        BY <3>3
      <4>2. my[q].arr \in DOMAIN arrays /\ orders.len \in Nat /\ my[q].cap \in Nat /\ MemoryTyped
        BY HandlerTyped DEF TInv
      <4>3. s \in Seq(Order)
        BY <4>1, <4>2, GrownTyped
      <4>4. \A k \in DOMAIN arrays : arrays'[k] = arrays[k]
        <5>1. arrays \in Seq(Seq(Order)) /\ DOMAIN arrays = 1..Len(arrays)
          BY HandlerTyped
        <5> QED
          BY <4>1, <4>3, <5>1, AppendProperties
      <4>5. arrays'[my[r].arr] = arrays[my[r].arr]
        BY <4>4, HandlerTyped
      <4> QED
        BY <1>1, <3>1, <4>5, ReadsOn
    <3> QED
      BY <3>1, <3>2, <3>3
  <2>3. CASE StoreOrder(q)
    BY <2>3, StoreOrderReads
  <2> QED
    BY <1>4, <2>1, <2>2, <2>3 DEF Create
<1>5. CASE Change(q)
  <2>1. CASE LoadLength(q) \/ Scan(q) \/ ScanEnd(q) \/ LoadArray(q, "found", "change")
    BY <1>2, <2>1 DEF LoadLength, Scan, ScanEnd, LoadArray, memory, history
  <2>2. CASE Update(q)
    BY <2>2, UpdateReads
  <2>3. ~(Delete(q) \/ Move(q) \/ CutLength(q) \/ CutArray(q))
    <3> SUFFICES ASSUME Delete(q) \/ Move(q) \/ CutLength(q) \/ CutArray(q) PROVE FALSE
      OBVIOUS
    <3>1. pc[q] \in {"change", "move", "cut"}
      BY DEF Delete, Move, CutLength, CutArray
    <3>2. my[q].ask.op = "DELETE"
      BY HandlerTyped, ReadyAt DEF Delete, Move, CutLength, CutArray
    <3>3. q \in Writing
      BY <3>1, WriterKnows DEF ChangeLabels, CutLabels
    <3> QED
      BY <3>2, <3>3 DEF Deleting, VInv, ValuesTrue
  <2> QED
    BY <1>5, <2>1, <2>2, <2>3 DEF Change
<1> QED
  BY <1>3, <1>4, <1>5

\* A step of the reader.
LEMMA SelfReads ==
  ASSUME TInv, SInv, VInv, ~raced, NEW r \in Requests,
         Refuse(r) \/ Create(r) \/ Change(r) \/ Publish(r) \/ Created(r),
         Reading(r), Active(r), values[r] # {}
  PROVE  IF Active(r)' THEN Reading(r)' ELSE \E x \in values[r] : reply'.is = Found(x)
<1> DEFINE m == my[r]
           n == m.ask.id
           f == First(ideal, n)
           held == arrays[m.arr]
<1>1. m.ask.op = "GET" /\ ~Deleting
  BY DEF VInv, ValuesTrue
<1>2. pc[r] \in ScanLabels
  BY <1>1, HandlerTyped, ReadyAt, LabelsAre DEF Active, ScanLabels, ChangeLabels
<1>3. LoadLength(r) \/ Scan(r) \/ ScanEnd(r)
  BY <1>2 DEF Refuse, Create, Change, Publish, Created, LoadArray, Extend, StoreCapacity, StoreArray,
              StoreLength, StoreOrder, Update, Delete, Move, CutLength, CutArray, ScanLabels
<1>4. UNCHANGED <<arrays, ideal, values>>
  BY <1>3 DEF LoadLength, Scan, ScanEnd, memory, history
<1>5. /\ m \in Handlers /\ pc \in [Requests -> Labels] /\ my \in [Requests -> Handlers]
      /\ ideal \in Seq(Order) /\ m.i \in Nat /\ m.i >= 1 /\ m.len \in Nat /\ Len(held) \in Nat
  BY <1>2, HandlerTyped, ReadyAt
<1>6. /\ Hits(ideal, n) # {} /\ ideal[f] \in values[r]
      /\ f <= Len(held) /\ held[f].id = n /\ held[f] \in values[r]
      /\ \A j \in 1..(f - 1) : held[j].id # n
  BY DEF Reading
<1>7. f \in 1..Len(ideal) /\ Len(ideal) \in Nat
  BY <1>5, <1>6, FirstIsHit
<1>8. CASE LoadLength(r)
  <2>1. /\ pc[r] = "range" /\ pc'[r] = "scan" /\ my'[r] = [m EXCEPT !.len = orders.len]
    BY <1>5, <1>8 DEF LoadLength, Goto
  <2>2. my'[r].arr = m.arr /\ my'[r].ask = m.ask /\ my'[r].i = m.i /\ my'[r].len = orders.len
    BY <1>5, <2>1 DEF Handlers
  <2>3. m.i = 1
    BY <2>1 DEF Reading
  <2>4. f <= orders.len
    <3>1. orders.len >= Len(ideal) /\ orders.len \in Nat
      BY <1>1, ListIsHeld, HandlerTyped
    <3> HIDE DEF f
    <3> QED
      BY <1>7, <3>1
  <2>5. Active(r)'
    BY <2>1 DEF Active
  <2>6. /\ my'[r].i <= f /\ f <= my'[r].len
        /\ values'[r] = values[r] /\ arrays'[my'[r].arr] = held /\ my'[r].ask.id = n /\ ideal' = ideal
    <3> HIDE DEF f
    <3>1. 1 <= f
      BY <1>7
    <3> QED
      BY <1>4, <2>2, <2>3, <2>4, <3>1
  <2>7. Reading(r)'
    BY <1>6, <2>1, <2>6 DEF Reading
  <2> QED
    BY <2>5, <2>7
<1>9. CASE Scan(r)
  <2>1. pc[r] = "scan" /\ m.i <= f /\ f <= m.len
    BY <1>9 DEF Scan, Reading
  <2>2. At(m.arr, m.i) = {held[m.i]}
    <3> HIDE DEF f
    <3> QED
      BY <1>5, <1>6, <1>7, <2>1 DEF At
  <2>3. IF held[m.i].id # n THEN my' = [my EXCEPT ![r].i = @ + 1] /\ UNCHANGED pc
                            ELSE Answer(r, Found(held[m.i]))
    BY <1>1, <1>9, <2>2 DEF Scan
  <2>4. CASE held[m.i].id # n
    <3>1. m.i + 1 <= f
      <4>1. m.i # f
        BY <1>6, <2>4
      <4> HIDE DEF f
      <4> QED
        BY <1>5, <1>7, <2>1, <4>1
    <3>2. my'[r] = [m EXCEPT !.i = m.i + 1] /\ pc'[r] = "scan"
      BY <1>5, <2>1, <2>3, <2>4
    <3>3. my'[r].arr = m.arr /\ my'[r].ask = m.ask /\ my'[r].i = m.i + 1 /\ my'[r].len = m.len
      BY <1>5, <3>2 DEF Handlers
    <3>4. Reading(r)'
      BY <1>4, <1>6, <2>1, <3>1, <3>2, <3>3 DEF Reading
    <3> QED
      BY <3>2, <3>4 DEF Active
  <2>5. CASE held[m.i].id = n
    <3>1. m.i = f
      <4>1. ~(m.i \in 1..(f - 1))
        BY <1>6, <2>5
      <4> HIDE DEF f
      <4> QED
        BY <1>5, <1>7, <2>1, <4>1
    <3>2. pc'[r] = "done" /\ reply'.is = Found(held[f])
      BY <1>5, <2>3, <2>5, <3>1 DEF Answer, Goto
    <3> QED
      BY <1>6, <3>2 DEF Active
  <2> QED
    BY <2>4, <2>5
<1>10. ~ScanEnd(r)
  <2>1. pc[r] = "scan" => m.i <= m.len
    <3> HIDE DEF f
    <3>1. pc[r] = "scan" => m.i <= f /\ f <= m.len
      BY DEF Reading, f
    <3> QED
      BY <1>5, <1>7, <3>1
  <2> QED
    BY <1>5, <2>1 DEF ScanEnd
<1> QED
  BY <1>3, <1>8, <1>9, <1>10

LEMMA ReadersStay ==
  ASSUME TInv, SInv, VInv, NEW q \in Requests,
         Refuse(q) \/ Create(q) \/ Change(q) \/ Publish(q) \/ Created(q)
  PROVE  ReadersTrue'
<1> SUFFICES ASSUME ~raced', NEW r \in Requests, Active(r)', values'[r] # {}
             PROVE  Reading(r)'
  BY DEF ReadersTrue
<1>1. ~raced /\ values[r] # {} /\ Active(r)
  BY AsksStay DEF Active
<1>2. Reading(r)
  BY <1>1 DEF VInv, ReadersTrue
<1>3. CASE r = q
  BY <1>1, <1>2, <1>3, SelfReads
<1>4. CASE r # q
  BY <1>1, <1>2, <1>4, OthersRead
<1> QED
  BY <1>3, <1>4

LEMMA VInvSame == ASSUME VInv, UNCHANGED sliceVars PROVE VInv'
<1>1. UNCHANGED <<arrays, ideal, values, pc, my, raced>>
  BY DEF sliceVars, memory, history
<1>2. Deleting' <=> Deleting
  BY <1>1 DEF Deleting, Writing, Active
<1>3. \A r \in Requests : Reading(r)' <=> Reading(r)
  BY <1>1 DEF Reading
<1> QED
  BY <1>1, <1>2, <1>3 DEF VInv, ValuesTrue, ReadersTrue, Active

LEMMA VInvInit == ASSUME QueueInit PROVE VInv
BY DEF QueueInit, Init, VInv, ValuesTrue, ReadersTrue

LEMMA VInvStep ==
  ASSUME TInv, SInv, VInv, [Next]_vars
  PROVE  VInv'
<1>1. ASSUME NEW q \in Requests, SliceStep(q) PROVE VInv'
  BY <1>1, ReadersBegin, ReadersStay, ValuesStay DEF SliceStep, VInv
<1>2. ASSUME NEW q \in Requests, Publish(q) \/ Created(q) PROVE VInv'
  BY <1>2, ReadersStay, ValuesStay DEF VInv
<1>3. CASE QueueSteps
  BY <1>3, QueueStepsTyped, VInvSame
<1>4. CASE ServiceDies
  BY <1>4 DEF ServiceDies, VInv, ValuesTrue, ReadersTrue
<1>5. CASE UNCHANGED vars
  BY <1>5, VInvSame DEF vars
<1> QED
  BY <1>1, <1>2, <1>3, <1>4, <1>5 DEF Next, QueueSteps

LEMMA VInvAlways == Spec => [](TInv /\ SInv /\ VInv)
<1>1. QueueInit => VInv
  BY VInvInit
<1>2. TInv /\ SInv /\ VInv /\ [Next]_vars => VInv'
  BY VInvStep
<1> QED
  BY <1>1, <1>2, SInvAlways, PTL DEF Spec

\* What ReadsBesideWrites says of a step.
ReadStep ==
  \A r \in Requests :
    ~raced /\ values[r] # {} /\ Active(r) /\ reply' # None /\ reply'.req = r
      => \E x \in values[r] : reply'.is = Found(x)

LEMMA NextReads ==
  ASSUME TInv, SInv, VInv, Next
  PROVE  ReadStep
<1> SUFFICES ASSUME NEW r \in Requests, ~raced, values[r] # {}, Active(r), reply' # None, reply'.req = r
             PROVE  \E x \in values[r] : reply'.is = Found(x)
  BY DEF ReadStep
<1>1. ASSUME NEW q \in Requests, SliceStep(q) \/ Publish(q) \/ Created(q)
      PROVE  \E x \in values[r] : reply'.is = Found(x)
  <2>1. q = r
    BY <1>1, SliceRepliesTo
  <2>2. SliceStep(r)
    BY <1>1, <2>1 DEF Active, Publish, Created
  <2>3. Scan(r) \/ ScanEnd(r) \/ Update(r) \/ Delete(r) \/ CutArray(r)
    BY <2>2, SliceReplies
  <2>4. ~Active(r)'
    <3>1. pc \in [Requests -> Labels]
      BY DEF TInv, HandlersTyped
    <3>2. pc'[r] = "done"
      BY <2>3, <3>1 DEF Scan, ScanEnd, Update, Delete, CutArray, Answer, Goto, Silent
    <3> QED
      BY <3>2 DEF Active
  <2>5. Reading(r)
    BY DEF VInv, ReadersTrue
  <2> QED
    BY <2>3, <2>4, <2>5, SelfReads DEF Change
<1>2. ASSUME UNCHANGED reply PROVE FALSE
  BY <1>2 DEF SInv, ReplyTrue, Active
<1>3. CASE QueueSteps
  BY <1>2, <1>3, QueueStepsTyped DEF sliceVars
<1>4. CASE ServiceDies
  BY <1>4 DEF ServiceDies, Silent
<1> QED
  BY <1>1, <1>3, <1>4 DEF Next, QueueSteps

\* A GET of an order that is in the list when the GET begins finds it beside
\* any POST or PUT, at every interleaving of their memory accesses, and answers
\* with a value that the order has had since, as long as writers overlap no
\* writer and no DELETE is at work (service.go:28-56).
THEOREM ReadersFindOrders == Spec => ReadsBesideWrites
<1>1. TInv /\ SInv /\ VInv /\ [Next]_vars => [ReadStep]_vars
  BY NextReads
<1> QED
  BY <1>1, VInvAlways, PTL DEF Spec, ReadsBesideWrites, ReadStep

=============================================================================
