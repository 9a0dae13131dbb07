---------------------------- MODULE KafkaProofs ----------------------------
(***************************************************************************)
(* Proofs about KafkaOrders, for any requests, orders, partitions,         *)
(* processes, hash function and number of faults.                          *)
(*                                                                         *)
(* Everything rests on one fact about claims: a claim never stands beyond  *)
(* an event that was neither handled nor lay before the start of a claim   *)
(* without a commit.  A mark is the position it was made at, a commit is   *)
(* the mark of the owner, so a commit covers handled events only.  For the *)
(* order of the events of one key it takes also that the log keeps the     *)
(* order in which they were acknowledged.  That the group implements       *)
(* EventGroup then needs one more count: an attempt pays for one copy.     *)
(***************************************************************************)
EXTENDS KafkaOrders, FiniteSetTheorems, TLAPS

Claims == [pos : Nat, mark : Nat, handled : BOOLEAN]

\* The types of what producers write.
ProducerTyped ==
  /\ pc \in [Requests -> {"idle", "sending", "created", "failed", "cut"}]
  /\ attempts \in [Requests -> 0..MaxAttempts]
  /\ wire \in [Requests -> 0..MaxAttempts]
  /\ log \in [Partitions -> Seq(Requests)]
  /\ before \in [Requests -> SUBSET Requests]

\* The types of what consumers and processes write.
ConsumerTyped ==
  /\ process \in [Processes -> {"up", "cancelled", "draining", "expired", "down"}]
  /\ owner \in [Partitions -> Processes \cup {NoOne, Gone}]
  /\ committed \in [Partitions -> Nat]
  /\ claim \in [Processes -> [Partitions -> Claims \cup {NoClaim}]]
  /\ faults \in 0..MaxFaults
  /\ handled \in [Partitions -> SUBSET Nat]
  /\ skipped \in [Partitions -> SUBSET Nat]

\* No more copies are on their way than attempts were made.
SendTrue(r) ==
  /\ wire[r] <= attempts[r]
  /\ pc[r] = "idle" => wire[r] = 0
  /\ pc[r] = "created" =>
       \E i \in 1..Len(log[PartitionOf(r)]) : log[PartitionOf(r)][i] = r
  /\ \A s \in before[r] : pc[s] = "created"

\* The log has the events of an order after those acknowledged before them.
LogTrue(p) ==
  \A j \in 1..Len(log[p]) :
    /\ PartitionOf(log[p][j]) = p /\ pc[log[p][j]] # "idle"
    /\ \A r \in before[log[p][j]] :
         OrderOf[r] = OrderOf[log[p][j]] => \E i \in 1..(j - 1) : log[p][i] = r

\* What was handled, or lies before the start of a claim without a commit.
Past(p) == handled[p] \cup skipped[p]

PastTrue(p) ==
  /\ Past(p) \subseteq 1..Len(log[p])
  /\ committed[p] <= Len(log[p]) + 1 /\ 1..(committed[p] - 1) \subseteq Past(p)
  /\ \A j \in handled[p] : 1..(j - 1) \subseteq Past(p)

ClaimTrue(m, p) ==
  LET c == claim[m][p] IN
  c # NoClaim =>
    /\ c.pos \in 1..(Len(log[p]) + 1) /\ 1..(c.pos - 1) \subseteq Past(p)
    /\ c.mark \in {0, c.pos}
    /\ c.handled => c.pos \in handled[p]
    /\ owner[p] = m => c.pos >= committed[p]

IInv ==
  /\ ProducerTyped /\ ConsumerTyped
  /\ \A r \in Requests : SendTrue(r)
  /\ \A p \in Partitions : LogTrue(p) /\ PastTrue(p)
  /\ \A m \in Processes, p \in Partitions : ClaimTrue(m, p)

---------------------------------------------------------------------------
(* Sending.                                                                *)

LEMMA Places == \A r \in Requests : PartitionOf(r) \in Partitions
BY KafkaOrdersAssumption DEF PartitionOf

\* A longer log leaves what consumers know true.
LEMMA LongerLog ==
  ASSUME IInv, UNCHANGED <<owner, committed, claim, handled, skipped>>,
         log' \in [Partitions -> Seq(Requests)],
         \A p \in Partitions : Len(log'[p]) >= Len(log[p])
  PROVE  /\ \A p \in Partitions : PastTrue(p)'
         /\ \A m \in Processes, p \in Partitions : ClaimTrue(m, p)'
<1>1. \A p \in Partitions : Len(log[p]) \in Nat /\ Len(log'[p]) \in Nat
  BY DEF IInv, ProducerTyped
<1>2. ASSUME NEW p \in Partitions PROVE PastTrue(p)'
  <2>1. committed[p] \in Nat /\ Len(log'[p]) >= Len(log[p])
    BY DEF IInv, ConsumerTyped
  <2> QED
    BY <1>1, <2>1 DEF IInv, PastTrue, Past
<1>3. ASSUME NEW m \in Processes, NEW p \in Partitions PROVE ClaimTrue(m, p)'
  <2>1. Len(log'[p]) >= Len(log[p]) /\ ClaimTrue(m, p)
    BY DEF IInv
  <2> QED
    BY <1>1, <2>1 DEF ClaimTrue, Past
<1> QED
  BY <1>2, <1>3

\* Steps that append nothing.
LEMMA SendSteps ==
  ASSUME IInv, NEW r \in Requests, Post(r) \/ Retry(r) \/ SendError(r)
  PROVE  IInv'
<1>1. ProducerTyped
  BY DEF IInv
<1>2. UNCHANGED <<log, consumerVars, process>> /\ faults' \in 0..MaxFaults
  BY KafkaOrdersAssumption DEF Post, Retry, SendError, processVars, IInv, ConsumerTyped
<1>3. \A s \in Requests \ {r} : pc'[s] = pc[s] /\ wire'[s] = wire[s] /\ attempts'[s] = attempts[s]
                                /\ before'[s] = before[s]
  BY <1>1 DEF Post, Retry, SendError, ProducerTyped
<1>4. /\ pc'[r] \in {"sending", "failed"} /\ pc[r] \in {"idle", "sending"}
      /\ wire'[r] <= attempts'[r] /\ wire'[r] \in 0..MaxAttempts /\ attempts'[r] \in 0..MaxAttempts
      /\ before'[r] = IF pc[r] = "idle" THEN {s \in Requests : pc[s] = "created"} ELSE before[r]
  <2>1. CASE Post(r)
    BY <1>1, <2>1, KafkaOrdersAssumption DEF Post, ProducerTyped
  <2>2. CASE Retry(r)
    <3>1. PICK n \in 0..wire[r] : wire' = [wire EXCEPT ![r] = n + 1]
      BY <2>2 DEF Retry
    <3>2. /\ pc[r] = "sending" /\ pc' = pc /\ before' = before
          /\ attempts[r] < MaxAttempts /\ attempts'[r] = attempts[r] + 1 /\ wire'[r] = n + 1
      BY <1>1, <2>2, <3>1 DEF Retry, ProducerTyped
    <3>3. n <= attempts[r] /\ attempts[r] \in Nat /\ n \in Nat
      BY <1>1, <3>1 DEF IInv, SendTrue, ProducerTyped
    <3> QED
      BY <3>2, <3>3, KafkaOrdersAssumption
  <2>3. CASE SendError(r)
    <3>1. PICK n \in 0..wire[r] : wire' = [wire EXCEPT ![r] = n]
      BY <2>3 DEF SendError
    <3>2. /\ pc[r] = "sending" /\ pc'[r] = "failed" /\ before' = before
          /\ attempts' = attempts /\ wire'[r] = n
      BY <1>1, <2>3, <3>1 DEF SendError, ProducerTyped
    <3>3. n <= attempts[r] /\ attempts[r] \in 0..MaxAttempts /\ n \in Nat
      BY <1>1, <3>1 DEF IInv, SendTrue, ProducerTyped
    <3> QED
      BY <3>2, <3>3, KafkaOrdersAssumption
  <2> QED
    BY <2>1, <2>2, <2>3
<1>5. ProducerTyped'
  <2>1. /\ DOMAIN pc' = Requests /\ DOMAIN attempts' = Requests /\ DOMAIN wire' = Requests
        /\ DOMAIN before' = Requests
        /\ pc' = [s \in Requests |-> pc'[s]] /\ attempts' = [s \in Requests |-> attempts'[s]]
        /\ wire' = [s \in Requests |-> wire'[s]] /\ before' = [s \in Requests |-> before'[s]]
    BY <1>1 DEF Post, Retry, SendError, ProducerTyped
  <2>2. \A s \in Requests : /\ pc'[s] \in {"idle", "sending", "created", "failed", "cut"}
                            /\ attempts'[s] \in 0..MaxAttempts /\ wire'[s] \in 0..MaxAttempts
                            /\ before'[s] \in SUBSET Requests
    BY <1>1, <1>3, <1>4 DEF ProducerTyped
  <2> QED
    BY <1>1, <1>2, <2>1, <2>2 DEF ProducerTyped
<1>6. ConsumerTyped'
  BY <1>2 DEF IInv, ConsumerTyped, consumerVars
<1>7. ASSUME NEW s \in Requests PROVE SendTrue(s)'
  <2>1. /\ wire'[s] <= attempts'[s] /\ (pc'[s] = "idle" => wire'[s] = 0)
        /\ pc'[s] = "created" => pc[s] = "created"
    BY <1>3, <1>4 DEF IInv, SendTrue
  <2>2. \A t \in before'[s] : t \in Requests /\ pc[t] = "created"
    BY <1>1, <1>3, <1>4 DEF IInv, SendTrue, ProducerTyped
  <2>3. \A t \in before'[s] : pc'[t] = "created"
    BY <1>3, <1>4, <2>2
  <2>4. log' = log
    BY <1>2
  <2> QED
    BY <2>1, <2>3, <2>4 DEF IInv, SendTrue, PartitionOf
<1>8. ASSUME NEW p \in Partitions PROVE LogTrue(p)'
  <2>1. \A j \in 1..Len(log[p]) : log[p][j] \in Requests /\ pc[log[p][j]] # "idle"
    BY <1>1 DEF ProducerTyped, IInv, LogTrue
  <2>2. \A j \in 1..Len(log[p]) :
          before'[log[p][j]] = before[log[p][j]] /\ pc'[log[p][j]] # "idle"
    BY <1>3, <1>4, <2>1
  <2> QED
    BY <1>2, <2>2 DEF IInv, LogTrue, PartitionOf
<1>9. /\ \A p \in Partitions : PastTrue(p)'
      /\ \A m \in Processes, p \in Partitions : ClaimTrue(m, p)'
  <2>1. \A p \in Partitions : Len(log[p]) >= Len(log[p])
    BY <1>1 DEF ProducerTyped
  <2>2. log' = log /\ UNCHANGED <<owner, committed, claim, handled, skipped>>
    BY <1>2 DEF consumerVars
  <2>3. log' \in [Partitions -> Seq(Requests)] /\ \A p \in Partitions : Len(log'[p]) >= Len(log[p])
    BY <1>1, <2>1, <2>2 DEF ProducerTyped
  <2> QED
    BY <2>2, <2>3, LongerLog
<1> QED
  BY <1>5, <1>6, <1>7, <1>8, <1>9 DEF IInv

\* A copy is appended, acknowledged or not.
LEMMA AppendSteps ==
  ASSUME IInv, NEW r \in Requests, Ack(r) \/ AppendUnacked(r)
  PROVE  IInv'
<1> DEFINE q == PartitionOf(r)
<1>1. ProducerTyped /\ q \in Partitions
  BY Places DEF IInv
<1>2. /\ wire[r] > 0 /\ wire' = [wire EXCEPT ![r] = @ - 1]
      /\ log' = [log EXCEPT ![q] = Append(@, r)]
      /\ pc' = pc \/ pc' = [pc EXCEPT ![r] = "created"]
      /\ UNCHANGED <<attempts, before, consumerVars, processVars>>
  BY DEF Ack, AppendUnacked, BrokerAppend
<1>3. pc[r] # "idle"
  BY <1>1, <1>2 DEF IInv, SendTrue, ProducerTyped
<1>4. log[q] \in Seq(Requests) /\ log'[q] = Append(log[q], r) /\ Len(log[q]) \in Nat
      /\ \A p \in Partitions \ {q} : log'[p] = log[p]
  BY <1>1, <1>2 DEF ProducerTyped
<1>5. /\ Len(log'[q]) = Len(log[q]) + 1 /\ log'[q][Len(log[q]) + 1] = r
      /\ \A i \in 1..Len(log[q]) : log'[q][i] = log[q][i]
      /\ log'[q] \in Seq(Requests)
  BY <1>4
<1>6. /\ \A s \in Requests : pc'[s] = pc[s] \/ (s = r /\ pc'[s] = "created")
      /\ wire'[r] = wire[r] - 1 /\ \A s \in Requests \ {r} : wire'[s] = wire[s]
  BY <1>1, <1>2 DEF ProducerTyped
<1> HIDE DEF q
<1>7. ProducerTyped'
  <2>1. log' \in [Partitions -> Seq(Requests)]
    BY <1>1, <1>2, <1>4, <1>5 DEF ProducerTyped
  <2>2. wire' \in [Requests -> 0..MaxAttempts]
    BY <1>1, <1>2, KafkaOrdersAssumption DEF ProducerTyped
  <2>3. pc' \in [Requests -> {"idle", "sending", "created", "failed", "cut"}]
    BY <1>1, <1>2 DEF ProducerTyped
  <2> QED
    BY <1>1, <1>2, <2>1, <2>2, <2>3 DEF ProducerTyped
<1>8. ConsumerTyped'
  BY <1>2 DEF IInv, ConsumerTyped, consumerVars, processVars
<1>9. \A p \in Partitions : Len(log[p]) \in Nat
  BY <1>1 DEF ProducerTyped
<1>10. ASSUME NEW s \in Requests PROVE SendTrue(s)'
  <2>1. wire'[s] <= attempts'[s] /\ (pc'[s] = "idle" => wire'[s] = 0)
    BY <1>1, <1>2, <1>3, <1>6 DEF IInv, SendTrue, ProducerTyped
  <2>2. \A t \in before'[s] : pc'[t] = "created"
    BY <1>1, <1>2, <1>6 DEF IInv, SendTrue, ProducerTyped
  <2>3. pc'[s] = "created" =>
          \E i \in 1..Len(log'[PartitionOf(s)]) : log'[PartitionOf(s)][i] = s
    <3>1. CASE s = r
      BY <1>4, <1>5, <3>1 DEF q
    <3>2. CASE s # r
      <4>1. pc'[s] = "created" =>
              \E i \in 1..Len(log[PartitionOf(s)]) : log[PartitionOf(s)][i] = s
        BY <1>6, <3>2 DEF IInv, SendTrue
      <4>2. PartitionOf(s) \in Partitions
        BY Places
      <4>3. CASE PartitionOf(s) = q
        BY <1>4, <1>5, <4>1, <4>3
      <4>4. CASE PartitionOf(s) # q
        BY <1>4, <4>1, <4>2, <4>4
      <4> QED
        BY <4>3, <4>4
    <3> QED
      BY <3>1, <3>2
  <2> QED
    BY <2>1, <2>2, <2>3 DEF SendTrue, PartitionOf
<1>11. ASSUME NEW p \in Partitions PROVE LogTrue(p)'
  <2>1. ASSUME NEW j \in 1..Len(log[p])
        PROVE  /\ log'[p][j] = log[p][j] /\ PartitionOf(log[p][j]) = p /\ pc'[log[p][j]] # "idle"
               /\ \A s \in before[log[p][j]] : OrderOf[s] = OrderOf[log[p][j]] =>
                    \E i \in 1..(j - 1) : log'[p][i] = s
    <3>1. log[p][j] \in Requests
      BY <1>1, <1>9 DEF ProducerTyped
    <3>2. /\ PartitionOf(log[p][j]) = p /\ pc'[log[p][j]] # "idle"
          /\ \A s \in before[log[p][j]] : OrderOf[s] = OrderOf[log[p][j]] =>
               \E i \in 1..(j - 1) : log[p][i] = s
      BY <1>6, <3>1 DEF IInv, LogTrue
    <3>3. \A i \in 1..j : log'[p][i] = log[p][i]
      BY <1>4, <1>5, <1>9
    <3> QED
      BY <1>9, <3>2, <3>3
  <2>2. CASE p # q
    <3>1. log'[p] = log[p] /\ before' = before
      BY <1>2, <1>4, <2>2
    <3> QED
      BY <2>1, <3>1 DEF LogTrue, PartitionOf
  <2>3. CASE p = q
    <3>1. \A s \in before[r] : OrderOf[s] = OrderOf[r] =>
            \E i \in 1..Len(log[q]) : log'[q][i] = s
      <4> SUFFICES ASSUME NEW s \in before[r], OrderOf[s] = OrderOf[r]
                   PROVE  \E i \in 1..Len(log[q]) : log'[q][i] = s
        OBVIOUS
      <4>1. s \in Requests /\ pc[s] = "created"
        BY <1>1 DEF IInv, SendTrue, ProducerTyped
      <4>2. PartitionOf(s) = q
        BY DEF PartitionOf, q
      <4>3. PICK i \in 1..Len(log[q]) : log[q][i] = s
        BY <4>1, <4>2 DEF IInv, SendTrue
      <4> QED
        BY <1>5, <4>3
    <3>2. PartitionOf(r) = q /\ pc'[r] # "idle"
      BY <1>3, <1>6 DEF q
    <3>3. before' = before
      BY <1>2
    <3>4. ASSUME NEW j \in 1..Len(log'[q])
          PROVE  /\ PartitionOf(log'[q][j]) = q /\ pc'[log'[q][j]] # "idle"
                 /\ \A s \in before'[log'[q][j]] : OrderOf[s] = OrderOf[log'[q][j]] =>
                      \E i \in 1..(j - 1) : log'[q][i] = s
      <4>1. CASE j = Len(log[q]) + 1
        BY <1>4, <1>5, <3>1, <3>2, <3>3, <4>1
      <4>2. CASE j \in 1..Len(log[q])
        <5>1. j \in 1..Len(log[p]) /\ log'[p][j] = log[p][j]
          BY <2>1, <2>3, <4>2
        <5>2. /\ PartitionOf(log'[p][j]) = p /\ pc'[log'[p][j]] # "idle"
              /\ \A s \in before[log'[p][j]] : OrderOf[s] = OrderOf[log'[p][j]] =>
                    \E i \in 1..(j - 1) : log'[p][i] = s
          BY <2>1, <5>1
        <5> QED
          BY <2>3, <3>3, <5>2
      <4>3. j = Len(log[q]) + 1 \/ j \in 1..Len(log[q])
        BY <1>4, <1>5
      <4> QED
        BY <4>1, <4>2, <4>3
    <3> QED
      BY <2>3, <3>4 DEF LogTrue, PartitionOf
  <2> QED
    BY <2>2, <2>3
<1>12. /\ \A p \in Partitions : PastTrue(p)'
       /\ \A m \in Processes, p \in Partitions : ClaimTrue(m, p)'
  <2>1. \A p \in Partitions : Len(log'[p]) >= Len(log[p])
    BY <1>4, <1>5, <1>9
  <2>2. log' \in [Partitions -> Seq(Requests)]
    BY <1>7 DEF ProducerTyped
  <2>3. UNCHANGED <<owner, committed, claim, handled, skipped>>
    BY <1>2 DEF consumerVars
  <2> QED
    BY <2>1, <2>2, <2>3, LongerLog
<1> QED
  BY <1>7, <1>8, <1>10, <1>11, <1>12 DEF IInv

---------------------------------------------------------------------------
(* Consuming and the processes.                                            *)

\* What producers know does not depend on the consumers.
LEMMA SameLog ==
  ASSUME IInv, UNCHANGED producerVars
  PROVE  ProducerTyped' /\ (\A r \in Requests : SendTrue(r)') /\ \A p \in Partitions : LogTrue(p)'
<1>1. ProducerTyped'
  BY DEF producerVars, IInv, ProducerTyped
<1>2. \A r \in Requests : SendTrue(r)'
  BY DEF producerVars, IInv, SendTrue, PartitionOf
<1>3. \A p \in Partitions : LogTrue(p)'
  BY DEF producerVars, IInv, LogTrue, PartitionOf
<1> QED
  BY <1>1, <1>2, <1>3

\* One partition and one member's claim on it change, and keep their facts.
LEMMA ConsumerStep ==
  ASSUME IInv, NEW m \in Processes, NEW p \in Partitions,
         UNCHANGED producerVars, process' = process, faults' \in 0..MaxFaults,
         NEW d \in Claims \cup {NoClaim}, claim' = [claim EXCEPT ![m][p] = d],
         NEW o \in Processes \cup {NoOne, Gone}, owner' = [owner EXCEPT ![p] = o],
         NEW n \in Nat, committed' = [committed EXCEPT ![p] = n],
         NEW H \in SUBSET Nat, handled' = [handled EXCEPT ![p] = H], handled[p] \subseteq H,
         NEW S \in SUBSET Nat, skipped' = [skipped EXCEPT ![p] = S], skipped[p] \subseteq S,
         PastTrue(p)', ClaimTrue(m, p)',
         o \in Processes \ {m} => owner[p] = o /\ n = committed[p]
  PROVE  IInv'
<1>1. ConsumerTyped
  BY DEF IInv
<1>2. ConsumerTyped'
  BY <1>1 DEF ConsumerTyped
<1>3. \A q \in Partitions \ {p} : /\ owner'[q] = owner[q] /\ committed'[q] = committed[q]
                                 /\ handled'[q] = handled[q] /\ skipped'[q] = skipped[q]
  BY <1>1 DEF ConsumerTyped
<1>4. /\ owner'[p] = o /\ committed'[p] = n /\ handled'[p] = H /\ skipped'[p] = S
      /\ Past(p) \subseteq Past(p)'
  BY <1>1 DEF ConsumerTyped, Past
<1>5. \A k \in Processes, q \in Partitions : k # m \/ q # p => claim'[k][q] = claim[k][q]
  BY <1>1 DEF ConsumerTyped
<1>6. log' = log
  BY DEF producerVars
<1>7. ASSUME NEW q \in Partitions \ {p} PROVE PastTrue(q)'
  BY <1>3, <1>6 DEF IInv, PastTrue, Past
<1>8. ASSUME NEW k \in Processes, NEW q \in Partitions, k # m \/ q # p PROVE ClaimTrue(k, q)'
  <2>1. CASE q # p
    BY <1>3, <1>5, <1>6, <2>1 DEF IInv, ClaimTrue, Past
  <2>2. CASE q = p
    BY <1>4, <1>5, <1>6, <1>8, <2>2 DEF IInv, ClaimTrue
  <2> QED
    BY <2>1, <2>2
<1> QED
  BY <1>2, <1>7, <1>8, SameLog DEF IInv

LEMMA CommitsTrue ==
  ASSUME IInv, NEW m \in Processes, NEW p \in Partitions
  PROVE  /\ Commits(m, p) \in Nat /\ Commits(m, p) <= Len(log[p]) + 1
         /\ 1..(Commits(m, p) - 1) \subseteq Past(p)
         /\ owner[p] # m => Commits(m, p) = committed[p]
         /\ owner[p] = m /\ claim[m][p] # NoClaim => claim[m][p].pos >= Commits(m, p)
<1>1. committed[p] \in Nat /\ Len(log[p]) \in Nat /\ claim[m][p] \in Claims \cup {NoClaim}
  BY DEF IInv, ConsumerTyped, ProducerTyped
<1>2. claim[m][p] # NoClaim =>
        claim[m][p].pos \in Nat /\ claim[m][p].mark \in {0, claim[m][p].pos}
  BY <1>1 DEF IInv, ClaimTrue, Claims
<1> QED
  BY <1>1, <1>2 DEF Commits, IInv, PastTrue, ClaimTrue

LEMMA ConsumeSteps ==
  ASSUME IInv, NEW m \in Processes, NEW p \in Partitions, Consume(m, p)
  PROVE  IInv'
<1> DEFINE c == claim[m][p]
           n == Commits(m, p)
           out == 1..(Starts(p) - 1) \ handled[p]
<1>1. /\ c \in Claims \cup {NoClaim} /\ owner[p] \in Processes \cup {NoOne, Gone}
      /\ committed[p] \in Nat /\ handled[p] \in SUBSET Nat /\ skipped[p] \in SUBSET Nat
      /\ faults \in 0..MaxFaults /\ Len(log[p]) \in Nat
      /\ owner = [owner EXCEPT ![p] = owner[p]]
      /\ committed = [committed EXCEPT ![p] = committed[p]]
      /\ handled = [handled EXCEPT ![p] = handled[p]]
      /\ skipped = [skipped EXCEPT ![p] = skipped[p]]
      /\ claim = [claim EXCEPT ![m][p] = c]
  BY DEF IInv, ConsumerTyped, ProducerTyped
<1>2. PastTrue(p) /\ ClaimTrue(m, p)
  BY DEF IInv
<1>3. \A x : claim' = [claim EXCEPT ![m][p] = x] => claim'[m][p] = x
  BY DEF IInv, ConsumerTyped
<1>4. NoOne \notin Processes /\ NoClaim \notin Claims
  BY KafkaOrdersAssumption DEF Claims
<1>5. CASE Claim(m, p)
  <2> DEFINE d == [pos |-> Starts(p), mark |-> 0, handled |-> FALSE]
  <2>1. /\ UNCHANGED <<committed, handled>> /\ UNCHANGED producerVars
        /\ process' = process /\ faults' = faults
        /\ owner' = [owner EXCEPT ![p] = m]
        /\ claim' = [claim EXCEPT ![m][p] = d]
        /\ skipped' = [skipped EXCEPT ![p] = skipped[p] \cup out]
    BY <1>5 DEF Claim, processVars
  <2>2. /\ Starts(p) \in 1..(Len(log[p]) + 1) /\ Starts(p) >= committed[p]
    BY <1>1, <1>2 DEF Starts, PastTrue
  <2>3. d \in Claims /\ d.pos = Starts(p) /\ d.mark = 0 /\ d.handled = FALSE
    BY <2>2 DEF Claims
  <2> HIDE DEF d
  <2>4. /\ Past(p)' = Past(p) \cup 1..(Starts(p) - 1) /\ handled'[p] = handled[p]
        /\ committed'[p] = committed[p] /\ log' = log /\ claim'[m][p] = d
    BY <1>1, <1>3, <2>1 DEF Past, IInv, ConsumerTyped, producerVars
  <2>5. PastTrue(p)' /\ ClaimTrue(m, p)'
    <3>1. PastTrue(p)'
      BY <1>1, <1>2, <2>2, <2>4 DEF PastTrue
    <3>2. ClaimTrue(m, p)'
      BY <2>2, <2>3, <2>4 DEF ClaimTrue
    <3> QED
      BY <3>1, <3>2
  <2> DEFINE S == skipped[p] \cup out
  <2>6. S \in SUBSET Nat /\ skipped[p] \subseteq S /\ skipped' = [skipped EXCEPT ![p] = S]
    BY <1>1, <2>1, <2>2
  <2>7. /\ owner' = [owner EXCEPT ![p] = m] /\ claim' = [claim EXCEPT ![m][p] = d]
        /\ committed' = [committed EXCEPT ![p] = committed[p]]
        /\ handled' = [handled EXCEPT ![p] = handled[p]]
        /\ UNCHANGED producerVars /\ process' = process /\ faults' \in 0..MaxFaults
    BY <1>1, <2>1
  <2> HIDE DEF S
  <2> QED
    BY <1>1, <2>3, <2>5, <2>6, <2>7, ConsumerStep
<1>6. CASE Handle(m, p)
  <2> DEFINE d == [c EXCEPT !.handled = TRUE]
  <2>1. /\ UNCHANGED <<owner, committed, skipped>> /\ UNCHANGED producerVars
        /\ process' = process /\ faults' = faults
        /\ c # NoClaim /\ c.pos \in 1..Len(log[p])
        /\ claim' = [claim EXCEPT ![m][p] = d]
        /\ handled' = [handled EXCEPT ![p] = handled[p] \cup {c.pos}]
    BY <1>6 DEF Handle, processVars, IInv, ConsumerTyped, ProducerTyped
  <2>2. d \in Claims /\ d.pos = c.pos /\ d.mark = c.mark /\ d.handled = TRUE
    BY <1>1, <2>1 DEF Claims
  <2> HIDE DEF d
  <2>3. /\ Past(p)' = Past(p) \cup {c.pos} /\ handled'[p] = handled[p] \cup {c.pos}
        /\ committed'[p] = committed[p] /\ owner'[p] = owner[p] /\ log' = log
        /\ claim'[m][p] = d
    BY <1>1, <1>3, <2>1 DEF Past, IInv, ConsumerTyped, producerVars
  <2>4. PastTrue(p)' /\ ClaimTrue(m, p)'
    <3>1. PastTrue(p)'
      BY <1>1, <1>2, <2>1, <2>3 DEF PastTrue, ClaimTrue
    <3>2. ClaimTrue(m, p)'
      BY <1>1, <1>2, <2>1, <2>2, <2>3 DEF ClaimTrue
    <3> QED
      BY <3>1, <3>2
  <2> DEFINE H == handled[p] \cup {c.pos}
  <2>5. H \in SUBSET Nat /\ handled[p] \subseteq H /\ handled' = [handled EXCEPT ![p] = H]
    BY <1>1, <2>1
  <2>6. /\ owner' = [owner EXCEPT ![p] = owner[p]] /\ claim' = [claim EXCEPT ![m][p] = d]
        /\ committed' = [committed EXCEPT ![p] = committed[p]]
        /\ skipped' = [skipped EXCEPT ![p] = skipped[p]]
        /\ UNCHANGED producerVars /\ process' = process /\ faults' \in 0..MaxFaults
    BY <1>1, <2>1
  <2> HIDE DEF H
  <2> QED
    BY <1>1, <2>2, <2>4, <2>5, <2>6, ConsumerStep
<1>7. CASE Mark(m, p)
  <2> DEFINE d == [pos |-> c.pos + 1, mark |-> c.pos + 1, handled |-> FALSE]
  <2>1. /\ UNCHANGED <<owner, committed, handled, skipped>> /\ UNCHANGED producerVars
        /\ process' = process /\ faults' = faults
        /\ c # NoClaim /\ c.handled /\ c \in Claims
        /\ claim' = [claim EXCEPT ![m][p] = d]
    BY <1>1, <1>7 DEF Mark, processVars
  <2>2. c.pos \in handled[p] /\ c.pos \in 1..Len(log[p]) /\ c.pos \in Nat
    BY <1>1, <1>2, <2>1 DEF ClaimTrue, PastTrue, Past, Claims
  <2>3. d \in Claims /\ d.pos = c.pos + 1 /\ d.mark = c.pos + 1 /\ d.handled = FALSE
    BY <2>2 DEF Claims
  <2> HIDE DEF d
  <2>4. PastTrue(p)'
    BY <1>2, <2>1 DEF PastTrue, Past, producerVars
  <2>5. ClaimTrue(m, p)'
    <3>1. claim'[m][p] = d /\ Past(p)' = Past(p) /\ log' = log
      BY <1>3, <2>1 DEF Past, producerVars
    <3>2. 1..c.pos \subseteq Past(p)
      BY <1>1, <1>2, <2>1, <2>2 DEF ClaimTrue, Past
    <3> QED
      BY <1>1, <1>2, <2>1, <2>2, <2>3, <3>1, <3>2 DEF ClaimTrue
  <2> QED
    BY <1>1, <2>1, <2>3, <2>4, <2>5, ConsumerStep
<1>8. CASE AutoCommit(m, p)
  <2>1. /\ UNCHANGED <<owner, claim, handled, skipped>> /\ UNCHANGED producerVars
        /\ process' = process /\ faults' = faults
        /\ committed' = [committed EXCEPT ![p] = n]
    BY <1>8 DEF AutoCommit, processVars
  <2>2. /\ n \in Nat /\ n <= Len(log[p]) + 1 /\ 1..(n - 1) \subseteq Past(p)
        /\ owner[p] # m => n = committed[p]
        /\ owner[p] = m /\ c # NoClaim => c.pos >= n
    BY CommitsTrue
  <2> HIDE DEF n
  <2>3. committed'[p] = n /\ Past(p)' = Past(p) /\ log' = log
    BY <2>1 DEF IInv, ConsumerTyped, Past, producerVars
  <2>4. PastTrue(p)' /\ ClaimTrue(m, p)'
    BY <1>2, <2>1, <2>2, <2>3 DEF PastTrue, ClaimTrue
  <2> QED
    BY <1>1, <1>4, <2>1, <2>2, <2>4, ConsumerStep
<1>9. CASE Release(m, p)
  <2> DEFINE o == IF owner[p] = m THEN NoOne ELSE owner[p]
  <2>1. /\ UNCHANGED <<handled, skipped>> /\ UNCHANGED producerVars
        /\ process' = process
        /\ committed' = [committed EXCEPT ![p] = n]
        /\ owner' = [owner EXCEPT ![p] = o]
        /\ claim' = [claim EXCEPT ![m][p] = NoClaim]
    BY <1>9 DEF Release
  <2>2. faults' \in 0..MaxFaults
    BY <1>1, <1>9, KafkaOrdersAssumption DEF Release
  <2>3. /\ n \in Nat /\ n <= Len(log[p]) + 1 /\ 1..(n - 1) \subseteq Past(p)
        /\ owner[p] # m => n = committed[p]
    BY CommitsTrue
  <2> HIDE DEF n
  <2>4. /\ committed'[p] = n /\ Past(p)' = Past(p) /\ log' = log /\ claim'[m][p] = NoClaim
    BY <1>3, <2>1 DEF IInv, ConsumerTyped, Past, producerVars
  <2>5. PastTrue(p)' /\ ClaimTrue(m, p)'
    BY <1>2, <2>1, <2>3, <2>4 DEF PastTrue, ClaimTrue
  <2>6. o \in Processes \cup {NoOne, Gone} /\ \A k \in Processes : o = k => owner[p] = k /\ k # m
    BY <1>1, <1>4
  <2>7. o \in Processes \ {m} => owner[p] = o /\ n = committed[p]
    BY <2>3, <2>6
  <2> HIDE DEF o
  <2>8. /\ handled[p] \in SUBSET Nat /\ handled' = [handled EXCEPT ![p] = handled[p]]
        /\ skipped[p] \in SUBSET Nat /\ skipped' = [skipped EXCEPT ![p] = skipped[p]]
    BY <1>1, <2>1
  <2>9. o \in Processes \cup {NoOne, Gone} /\ n \in Nat
    BY <2>3, <2>6
  <2> DEFINE H == handled[p]
             S == skipped[p]
             d == NoClaim
  <2>10. /\ H \in SUBSET Nat /\ handled' = [handled EXCEPT ![p] = H] /\ handled[p] \subseteq H
         /\ S \in SUBSET Nat /\ skipped' = [skipped EXCEPT ![p] = S] /\ skipped[p] \subseteq S
    BY <2>8
  <2>11. d \in Claims \cup {NoClaim} /\ claim' = [claim EXCEPT ![m][p] = d]
    BY <2>1
  <2>12. /\ owner' = [owner EXCEPT ![p] = o] /\ committed' = [committed EXCEPT ![p] = n]
         /\ UNCHANGED producerVars /\ process' = process
    BY <2>1
  <2> HIDE DEF H, S, d
  <2> QED
    BY <2>2, <2>5, <2>7, <2>9, <2>10, <2>11, <2>12, ConsumerStep
<1> QED
  BY <1>5, <1>6, <1>7, <1>8, <1>9 DEF Consume

LEMMA EvictSteps ==
  ASSUME IInv, NEW p \in Partitions, Evict(p)
  PROVE  IInv'
<1>1. /\ UNCHANGED <<committed, claim, handled, skipped, process>> /\ UNCHANGED producerVars
      /\ faults' \in 0..MaxFaults /\ owner' = [owner EXCEPT ![p] = NoOne]
  BY KafkaOrdersAssumption DEF Evict, IInv, ConsumerTyped
<1>2. ConsumerTyped'
  BY <1>1 DEF IInv, ConsumerTyped
<1>3. \A q \in Partitions : owner'[q] = NoOne \/ owner'[q] = owner[q]
  BY <1>1 DEF IInv, ConsumerTyped
<1>4. \A q \in Partitions : PastTrue(q)'
  BY <1>1 DEF IInv, PastTrue, Past, producerVars
<1>5. \A m \in Processes, q \in Partitions : ClaimTrue(m, q)'
  BY <1>1, <1>3, KafkaOrdersAssumption DEF IInv, ClaimTrue, Past, producerVars
<1> QED
  BY <1>1, <1>2, <1>4, <1>5, SameLog DEF IInv

\* A process that is gone has cut off the requests it served and its claims.
LEMMA DownKeeps ==
  ASSUME IInv, NEW m \in Processes, Down(m), faults' \in 0..MaxFaults
  PROVE  IInv'
<1>1. /\ UNCHANGED <<attempts, wire, log, before, committed, handled, skipped>>
      /\ pc' = [r \in Requests |-> IF r \in Serving(m) THEN "cut" ELSE pc[r]]
      /\ claim' = [claim EXCEPT ![m] = [p \in Partitions |-> NoClaim]]
      /\ owner' = [p \in Partitions |-> IF owner[p] = m THEN Gone ELSE owner[p]]
      /\ process' = [process EXCEPT ![m] = "down"]
  BY DEF Down
<1>2. \A r \in Requests : pc'[r] = pc[r] \/ (pc[r] = "sending" /\ pc'[r] = "cut")
  BY <1>1 DEF Serving
<1>3. ProducerTyped'
  BY <1>1 DEF IInv, ProducerTyped
<1>4. ConsumerTyped'
  BY <1>1 DEF IInv, ConsumerTyped
<1>5. ASSUME NEW r \in Requests PROVE SendTrue(r)'
  <2>1. \A s \in before[r] : s \in Requests /\ pc[s] = "created"
    BY DEF IInv, ProducerTyped, SendTrue
  <2>2. \A s \in before'[r] : pc'[s] = "created"
    BY <1>1, <1>2, <2>1
  <2> QED
    BY <1>1, <1>2, <2>2 DEF IInv, SendTrue, PartitionOf
<1>6. ASSUME NEW p \in Partitions PROVE LogTrue(p)'
  <2>1. \A j \in 1..Len(log[p]) : log[p][j] \in Requests /\ pc[log[p][j]] # "idle"
    BY DEF IInv, ProducerTyped, LogTrue
  <2>2. \A j \in 1..Len(log[p]) : pc'[log[p][j]] # "idle"
    BY <1>2, <2>1
  <2> QED
    BY <1>1, <2>2 DEF IInv, LogTrue, PartitionOf
<1>7. \A p \in Partitions : PastTrue(p)'
  BY <1>1 DEF IInv, PastTrue, Past
<1>8. ASSUME NEW k \in Processes, NEW p \in Partitions PROVE ClaimTrue(k, p)'
  <2>1. claim'[k][p] = NoClaim \/ (claim'[k][p] = claim[k][p] /\ k # m)
    BY <1>1 DEF IInv, ConsumerTyped
  <2>2. owner'[p] = k => owner[p] = k
    BY <1>1, KafkaOrdersAssumption
  <2> QED
    BY <1>1, <2>1, <2>2 DEF IInv, ClaimTrue, Past
<1> QED
  BY <1>3, <1>4, <1>5, <1>6, <1>7, <1>8 DEF IInv

LEMMA RunSteps ==
  ASSUME IInv, NEW m \in Processes, Run(m)
  PROVE  IInv'
<1>1. CASE Exit(m) \/ Crash(m)
  <2>1. faults' \in 0..MaxFaults
    BY <1>1, KafkaOrdersAssumption DEF Exit, Crash, IInv, ConsumerTyped
  <2> QED
    BY <1>1, <2>1, DownKeeps DEF Exit, Crash
<1>2. CASE Stop(m) \/ Drain(m) \/ Expire(m) \/ Restart(m)
  <2>1. UNCHANGED <<producerVars, consumerVars>>
    BY <1>2 DEF Stop, Drain, Expire, Restart
  <2>2. ConsumerTyped'
    <3>1. faults' \in 0..MaxFaults
      BY <1>2, KafkaOrdersAssumption DEF Stop, Drain, Expire, Restart, IInv, ConsumerTyped
    <3>2. process' \in [Processes -> {"up", "cancelled", "draining", "expired", "down"}]
      BY <1>2 DEF Stop, Drain, Expire, Restart, IInv, ConsumerTyped
    <3> QED
      BY <2>1, <3>1, <3>2 DEF IInv, ConsumerTyped, consumerVars
  <2>3. /\ \A p \in Partitions : PastTrue(p)'
        /\ \A k \in Processes, p \in Partitions : ClaimTrue(k, p)'
    BY <2>1 DEF IInv, PastTrue, ClaimTrue, Past, consumerVars, producerVars
  <2> QED
    BY <2>1, <2>2, <2>3, SameLog DEF IInv
<1> QED
  BY <1>1, <1>2 DEF Run

LEMMA InitInv == Init => IInv
<1> SUFFICES ASSUME Init PROVE IInv
  OBVIOUS
<1>1. ProducerTyped
  BY KafkaOrdersAssumption DEF Init, ProducerTyped
<1>2. ConsumerTyped
  BY KafkaOrdersAssumption DEF Init, ConsumerTyped
<1>3. \A r \in Requests : SendTrue(r)
  BY DEF Init, SendTrue
<1>4. \A p \in Partitions : LogTrue(p) /\ PastTrue(p)
  BY DEF Init, LogTrue, PastTrue, Past
<1>5. \A m \in Processes, p \in Partitions : ClaimTrue(m, p)
  BY DEF Init, ClaimTrue
<1> QED
  BY <1>1, <1>2, <1>3, <1>4, <1>5 DEF IInv

LEMMA NextInv == IInv /\ [Next]_vars => IInv'
<1>1. ASSUME IInv, NEW r \in Requests, Request(r) PROVE IInv'
  BY <1>1, SendSteps, AppendSteps DEF Request
<1>2. ASSUME IInv, UNCHANGED vars PROVE IInv'
  <2>1. UNCHANGED <<producerVars, consumerVars, processVars>>
    BY <1>2 DEF vars
  <2>2. ConsumerTyped'
    BY <1>2, <2>1 DEF IInv, ConsumerTyped, consumerVars, processVars
  <2>3. /\ \A p \in Partitions : PastTrue(p)'
        /\ \A k \in Processes, p \in Partitions : ClaimTrue(k, p)'
    BY <1>2, <2>1 DEF IInv, PastTrue, ClaimTrue, Past, consumerVars, producerVars
  <2> QED
    BY <1>2, <2>1, <2>2, <2>3, SameLog DEF IInv
<1> QED
  BY <1>1, <1>2, ConsumeSteps, EvictSteps, RunSteps DEF Next

THEOREM Invariance == Spec => []IInv
BY InitInv, NextInv, PTL DEF Spec

---------------------------------------------------------------------------
(* Results.                                                                *)

\* Handlers, sessions, offsets and the log always have their types; no more
\* copies of an event are under way than SendMessage made attempts
\* (main.go:44-118, producer.go:44-74, consumer.go:15-58).
THEOREM TypeCorrect == Spec => []TypeOK
<1>1. ASSUME IInv PROVE TypeOK
  <2>1. ASSUME NEW m \in Processes, NEW p \in Partitions
        PROVE  claim[m][p] = NoClaim \/ claim[m][p] \in Claims
    BY <1>1 DEF IInv, ConsumerTyped
  <2>2. ASSUME NEW p \in Partitions PROVE handled[p] \cup skipped[p] \subseteq DOMAIN log[p]
    BY <1>1 DEF IInv, PastTrue, Past, ProducerTyped
  <2> QED
    BY <1>1, <2>1, <2>2 DEF TypeOK, IInv, ProducerTyped, ConsumerTyped, Claims
<1> QED
  BY <1>1, Invariance, PTL

\* A commit covers only events that were handled, or lie before the start of a
\* claim that found no commit (consumer.go:20, 39-58).
THEOREM CommitsCoverHandled == Spec => []HandledBelowCommit
<1>1. IInv => HandledBelowCommit
  BY DEF IInv, PastTrue, Past, HandledBelowCommit
<1> QED
  BY <1>1, Invariance, PTL

\* The owner of a partition is never behind the group's offset, whatever
\* members do that do not know of their eviction (consumer.go:39-58).
THEOREM OwnersKeepUp == Spec => []OwnerIsNotBehind
<1>1. IInv => OwnerIsNotBehind
  BY DEF IInv, ClaimTrue, OwnerIsNotBehind
<1> QED
  BY <1>1, Invariance, PTL

\* The partition key keeps the order of an order's events from POST to POST,
\* through retries, rebalances and redelivery (producer.go:52-56).
THEOREM KeysKeepOrder == Spec => []HandledInKeyOrder
<1>1. ASSUME IInv PROVE HandledInKeyOrder
  <2> SUFFICES ASSUME NEW p \in Partitions, NEW j \in handled[p], NEW r \in before[log[p][j]],
                      OrderOf[r] = OrderOf[log[p][j]]
               PROVE  \E i \in (handled[p] \cup skipped[p]) : i < j /\ log[p][i] = r
    BY DEF HandledInKeyOrder
  <2>1. j \in 1..Len(log[p]) /\ 1..(j - 1) \subseteq handled[p] \cup skipped[p]
    BY <1>1 DEF IInv, PastTrue, Past
  <2>2. PICK i \in 1..(j - 1) : log[p][i] = r
    BY <1>1, <2>1 DEF IInv, LogTrue
  <2>3. i < j
    BY <2>1, <2>2
  <2> QED
    BY <2>1, <2>2, <2>3
<1> QED
  BY <1>1, Invariance, PTL

---------------------------------------------------------------------------
(* Refinement: the steps of EventGroup.                                    *)

\* An attempt pays for one copy, in the log or on its way.
CopiesPaid ==
  \A r \in Requests :
    /\ Group!CopiesOf(r) + wire[r] <= attempts[r]
    /\ pc[r] = "idle" => attempts[r] = 0

\* The copies of an event in its log can be counted.
LEMMA GroupCounts == \A S : Group!Cardinality(S) = Cardinality(S)
BY DEF Group!Cardinality, Cardinality

LEMMA CopiesType ==
  ASSUME IInv, NEW r \in Requests
  PROVE  /\ IsFiniteSet({i \in DOMAIN log[PartitionOf(r)] : log[PartitionOf(r)][i] = r})
         /\ Group!CopiesOf(r) \in Nat
<1> DEFINE l  == log[PartitionOf(r)]
           at == {i \in DOMAIN l : l[i] = r}
<1>1. DOMAIN l = 1..Len(l) /\ Len(l) \in Int
  BY Places DEF IInv, ProducerTyped
<1>2. IsFiniteSet(DOMAIN l)
  BY <1>1, FS_Interval
<1>3. at \in SUBSET DOMAIN l
  OBVIOUS
<1>4. IsFiniteSet(at)
  BY <1>2, <1>3, FS_Subset
<1> QED
  BY <1>4, FS_CardinalityType, GroupCounts DEF Group!CopiesOf

\* Appending q adds a copy of q and none of any other event.
LEMMA AppendCounts ==
  ASSUME IInv, NEW q \in Requests,
         log' = [log EXCEPT ![PartitionOf(q)] = Append(@, q)]
  PROVE  \A r \in Requests : Group!CopiesOf(r)' = Group!CopiesOf(r) + IF r = q THEN 1 ELSE 0
<1> SUFFICES ASSUME NEW r \in Requests
             PROVE  Group!CopiesOf(r)' = Group!CopiesOf(r) + IF r = q THEN 1 ELSE 0
  OBVIOUS
<1> DEFINE p   == PartitionOf(r)
           l   == log[p]
           at  == {i \in DOMAIN l : l[i] = r}
           new == {i \in DOMAIN log'[p] : log'[p][i] = r}
<1>1. /\ p \in Partitions /\ PartitionOf(q) \in Partitions /\ l \in Seq(Requests)
      /\ DOMAIN l = 1..Len(l) /\ Len(l) \in Nat
  BY Places DEF IInv, ProducerTyped
<1>2. IsFiniteSet(at) /\ Group!CopiesOf(r) \in Nat
  BY CopiesType
<1>3. Group!CopiesOf(r) = Cardinality(at) /\ Group!CopiesOf(r)' = Cardinality(new)
  BY GroupCounts DEF Group!CopiesOf, PartitionOf
<1>4. log'[p] = IF p = PartitionOf(q) THEN Append(l, q) ELSE l
  BY <1>1 DEF IInv, ProducerTyped
<1>5. CASE r = q
  <2>1. log'[p] = Append(l, q)
    BY <1>4, <1>5
  <2>2. new = at \cup {Len(l) + 1} /\ Len(l) + 1 \notin at
    BY <1>1, <1>5, <2>1
  <2>3. Cardinality(new) = Cardinality(at) + 1
    BY <1>2, <2>2, FS_AddElement
  <2> QED
    BY <1>3, <1>5, <2>3
<1>6. CASE r # q
  <2>1. new = at
    BY <1>1, <1>4, <1>6
  <2>2. Group!CopiesOf(r)' = Group!CopiesOf(r)
    BY <1>3, <2>1
  <2> QED
    BY <1>2, <1>6, <2>2
<1> QED
  BY <1>5, <1>6

LEMMA SameCopies ==
  ASSUME UNCHANGED log
  PROVE  \A r \in Requests : Group!CopiesOf(r)' = Group!CopiesOf(r)
BY DEF Group!CopiesOf, PartitionOf

LEMMA CopiesPaidStep ==
  ASSUME IInv, CopiesPaid, [Next]_vars
  PROVE  CopiesPaid'
<1>0. /\ \A r \in Requests : Group!CopiesOf(r) \in Nat
      /\ ProducerTyped
  BY CopiesType DEF IInv
<1>1. ASSUME UNCHANGED <<attempts, wire, log>>, \A r \in Requests : pc'[r] = "idle" => pc[r] = "idle"
      PROVE  CopiesPaid'
  BY <1>1, SameCopies DEF CopiesPaid
<1>2. ASSUME NEW r \in Requests, Post(r) \/ Retry(r) \/ SendError(r)
      PROVE  CopiesPaid'
  <2>1. UNCHANGED log
    BY <1>2 DEF Post, Retry, SendError
  <2>2. /\ \A s \in Requests \ {r} :
             wire'[s] = wire[s] /\ attempts'[s] = attempts[s] /\ pc'[s] = pc[s]
        /\ pc'[r] # "idle"
    BY <1>0, <1>2 DEF Post, Retry, SendError, ProducerTyped
  <2>3. wire'[r] - wire[r] <= attempts'[r] - attempts[r]
    <3>1. wire[r] \in Nat /\ attempts[r] \in Nat
      BY <1>0 DEF ProducerTyped
    <3>2. CASE Post(r)
      BY <1>0, <3>1, <3>2 DEF Post, IInv, SendTrue, CopiesPaid, ProducerTyped
    <3>3. CASE Retry(r)
      <4>1. PICK n \in 0..wire[r] : wire' = [wire EXCEPT ![r] = n + 1]
        BY <3>3 DEF Retry
      <4>2. wire'[r] = n + 1 /\ attempts'[r] = attempts[r] + 1
        BY <1>0, <3>3, <4>1 DEF Retry, ProducerTyped
      <4> QED
        BY <3>1, <4>1, <4>2
    <3>4. CASE SendError(r)
      <4>1. PICK n \in 0..wire[r] : wire' = [wire EXCEPT ![r] = n]
        BY <3>4 DEF SendError
      <4>2. wire'[r] = n /\ attempts'[r] = attempts[r]
        BY <1>0, <3>4, <4>1 DEF SendError, ProducerTyped
      <4> QED
        BY <3>1, <4>1, <4>2
    <3> QED
      BY <1>2, <3>2, <3>3, <3>4
  <2>4. wire[r] \in Int /\ attempts[r] \in Int /\ wire'[r] \in Int /\ attempts'[r] \in Int
    <3>1. IInv'
      BY <1>2, NextInv DEF Next, Request
    <3> QED
      BY <1>0, <3>1 DEF IInv, ProducerTyped
  <2>5. Group!CopiesOf(r) + wire'[r] <= attempts'[r]
    BY <1>0, <2>3, <2>4 DEF CopiesPaid
  <2>6. \A s \in Requests : Group!CopiesOf(s)' = Group!CopiesOf(s)
    BY <2>1, SameCopies
  <2> QED
    BY <2>2, <2>5, <2>6 DEF CopiesPaid
<1>3. ASSUME NEW r \in Requests, Ack(r) \/ AppendUnacked(r)
      PROVE  CopiesPaid'
  <2>1. /\ wire[r] > 0 /\ wire' = [wire EXCEPT ![r] = @ - 1] /\ UNCHANGED attempts
        /\ log' = [log EXCEPT ![PartitionOf(r)] = Append(@, r)]
        /\ \A s \in Requests : pc'[s] = "idle" => pc[s] = "idle"
    BY <1>0, <1>3 DEF Ack, AppendUnacked, BrokerAppend, ProducerTyped
  <2>2. \A s \in Requests : Group!CopiesOf(s)' = Group!CopiesOf(s) + IF s = r THEN 1 ELSE 0
    BY <2>1, AppendCounts
  <2>3. ASSUME NEW s \in Requests
        PROVE  /\ Group!CopiesOf(s)' + wire'[s] <= attempts'[s]
               /\ pc'[s] = "idle" => attempts'[s] = 0
    <3>1. wire'[s] = wire[s] - (IF s = r THEN 1 ELSE 0) /\ wire[s] \in Nat /\ attempts[s] \in Nat
      BY <1>0, <2>1 DEF ProducerTyped
    <3> QED
      BY <1>0, <2>1, <2>2, <3>1 DEF CopiesPaid
  <2> QED
    BY <2>3 DEF CopiesPaid
<1>4. ASSUME NEW m \in Processes, NEW p \in Partitions, Consume(m, p) PROVE CopiesPaid'
  BY <1>1, <1>4 DEF Consume, Claim, Handle, Mark, AutoCommit, Release, producerVars
<1>5. ASSUME NEW p \in Partitions, Evict(p) PROVE CopiesPaid'
  BY <1>1, <1>5 DEF Evict, producerVars
<1>6. ASSUME NEW m \in Processes, Run(m) PROVE CopiesPaid'
  <2>1. UNCHANGED <<attempts, wire, log>> /\ \A r \in Requests : pc'[r] = "idle" => pc[r] = "idle"
    BY <1>6 DEF Run, Stop, Drain, Expire, Exit, Crash, Restart, Down, producerVars
  <2> QED
    BY <1>1, <2>1
<1>7. CASE UNCHANGED vars
  BY <1>1, <1>7 DEF vars, producerVars
<1> QED
  BY <1>2, <1>3, <1>4, <1>5, <1>6, <1>7 DEF Next, Request

LEMMA CopiesPaidInvariance == Spec => []CopiesPaid
<1>1. ASSUME Init PROVE CopiesPaid
  <2>1. \A r \in Requests : Group!CopiesOf(r) = Cardinality({})
    <3> SUFFICES ASSUME NEW r \in Requests
                 PROVE  {i \in DOMAIN log[PartitionOf(r)] : log[PartitionOf(r)][i] = r} = {}
      BY GroupCounts DEF Group!CopiesOf
    <3> QED
      BY <1>1, Places DEF Init
  <2> QED
    BY <1>1, <2>1, FS_EmptySet DEF Init, CopiesPaid
<1> QED
  BY <1>1, CopiesPaidStep, Invariance, PTL DEF Spec

Begun   == {r \in Requests : pc[r] # "idle"}
Created == {r \in Requests : pc[r] = "created"}
Visible == <<Begun, Created, log, handled, skipped, committed>>

\* Producers: a request begins, a copy is stored.
LEMMA RequestRefines ==
  ASSUME IInv, CopiesPaid, NEW r \in Requests, Request(r)
  PROVE  Group!Next \/ UNCHANGED Visible
<1>0. ProducerTyped
  BY DEF IInv
<1>1. CASE Post(r)
  <2>1. /\ Begun' = Begun \cup {r} /\ Created' = Created
        /\ UNCHANGED <<log, handled, skipped, committed>>
    BY <1>0, <1>1 DEF Post, consumerVars, ProducerTyped, Begun, Created
  <2>2. Group!Begin(r)
    BY <2>1 DEF Group!Begin, Begun, Created
  <2> QED
    BY <2>2 DEF Group!Next
<1>2. CASE Retry(r) \/ SendError(r)
  <2>1. Begun' = Begun /\ Created' = Created /\ UNCHANGED <<log, handled, skipped, committed>>
    BY <1>0, <1>2 DEF Retry, SendError, consumerVars, ProducerTyped, Begun, Created
  <2> QED
    BY <2>1 DEF Visible
<1>3. CASE Ack(r) \/ AppendUnacked(r)
  <2>1. /\ wire[r] > 0 /\ log' = [log EXCEPT ![PartitionOf(r)] = Append(@, r)]
        /\ UNCHANGED <<handled, skipped, committed>>
    BY <1>3 DEF Ack, AppendUnacked, BrokerAppend, consumerVars
  <2>2. r \in Begun
    BY <2>1 DEF IInv, SendTrue, Begun
  <2>3. Begun' = Begun /\ Created' \in {Created, Created \cup {r}}
    <3>1. CASE Ack(r)
      BY <1>0, <2>2, <3>1 DEF Ack, ProducerTyped, Begun, Created
    <3>2. CASE AppendUnacked(r)
      BY <3>2 DEF AppendUnacked, Begun, Created
    <3> QED
      BY <1>3, <3>1, <3>2
  <2>4. Group!CopiesOf(r) < MaxAttempts
    <3>1. wire[r] \in Nat /\ attempts[r] \in Nat /\ attempts[r] <= MaxAttempts /\ MaxAttempts \in Nat
      BY <1>0, KafkaOrdersAssumption DEF ProducerTyped
    <3>2. Group!CopiesOf(r) \in Nat /\ Group!CopiesOf(r) + wire[r] <= attempts[r]
      BY CopiesType DEF CopiesPaid
    <3> QED
      BY <2>1, <3>1, <3>2
  <2>5. Group!Store(r)
    BY <2>1, <2>2, <2>3, <2>4 DEF Group!Store, Begun, Created, PartitionOf
  <2> QED
    BY <2>5 DEF Group!Next
<1> QED
  BY <1>1, <1>2, <1>3 DEF Request

\* A commit that changes the group's offset moves it forward.
LEMMA CommitRefines ==
  ASSUME IInv, NEW m \in Processes, NEW p \in Partitions,
         committed' = [committed EXCEPT ![p] = Commits(m, p)],
         UNCHANGED <<Begun, Created, log, handled, skipped>>
  PROVE  Group!Commit(p) \/ UNCHANGED Visible
<1> DEFINE n == Commits(m, p)
<1>1. committed[p] \in Nat /\ Len(log[p]) \in Nat
  BY DEF IInv, ConsumerTyped, ProducerTyped
<1>2. n \in Nat /\ n <= Len(log[p]) + 1 /\ 1..(n - 1) \subseteq Past(p)
  BY CommitsTrue
<1>3. CASE n = committed[p]
  <2>1. committed' = committed
    BY <1>3 DEF IInv, ConsumerTyped
  <2> QED
    BY <2>1 DEF Visible
<1>4. CASE n # committed[p]
  <2>1. owner[p] = m /\ claim[m][p] # NoClaim /\ n = claim[m][p].mark /\ n # 0
    BY <1>4 DEF Commits
  <2>2. claim[m][p].pos >= committed[p] /\ claim[m][p].mark \in {0, claim[m][p].pos}
    BY <2>1 DEF IInv, ClaimTrue
  <2>3. n > committed[p] /\ n \in 1..(Len(log[p]) + 1)
    BY <1>1, <1>2, <1>4, <2>1, <2>2
  <2>4. Group!Commit(p)
    BY <1>2, <2>3 DEF Group!Commit, Group!Past, Past, Begun, Created
  <2> QED
    BY <2>4
<1> QED
  BY <1>3, <1>4

\* Consumers: claims may skip, handlers go on without gaps, commits follow.
LEMMA ConsumeRefines ==
  ASSUME IInv, NEW m \in Processes, NEW p \in Partitions, Consume(m, p)
  PROVE  Group!Next \/ UNCHANGED Visible
<1>0. /\ UNCHANGED <<Begun, Created, log>>
      /\ committed[p] \in Nat /\ Len(log[p]) \in Nat /\ DOMAIN log[p] = 1..Len(log[p])
      /\ skipped[p] \subseteq Nat /\ skipped \in [Partitions -> SUBSET Nat]
  <2>1. UNCHANGED <<pc, log>>
    BY DEF Consume, Claim, Handle, Mark, AutoCommit, Release, producerVars
  <2> QED
    BY <2>1 DEF IInv, ConsumerTyped, ProducerTyped, Begun, Created
<1>1. CASE Claim(m, p)
  <2>1. /\ skipped' = [skipped EXCEPT ![p] = @ \cup (1..(Starts(p) - 1) \ handled[p])]
        /\ UNCHANGED <<committed, handled>>
    BY <1>1 DEF Claim
  <2>2. CASE committed[p] = 0
    <3>1. Starts(p) - 1 = Len(log[p])
      BY <1>0, <2>2 DEF Starts
    <3>2. Group!Skip(p)
      BY <1>0, <2>1, <2>2, <3>1 DEF Group!Skip, Begun, Created
    <3> QED
      BY <3>2 DEF Group!Next
  <2>3. CASE committed[p] # 0
    <3>1. 1..(Starts(p) - 1) \ handled[p] \subseteq skipped[p]
      BY <2>3 DEF Starts, IInv, PastTrue, Past
    <3>2. skipped' = skipped
      BY <1>0, <2>1, <3>1
    <3> QED
      BY <1>0, <2>1, <3>2 DEF Visible
  <2> QED
    BY <2>2, <2>3
<1>2. CASE Handle(m, p)
  <2>1. /\ claim[m][p] # NoClaim /\ claim[m][p].pos \in DOMAIN log[p]
        /\ handled' = [handled EXCEPT ![p] = @ \cup {claim[m][p].pos}]
        /\ UNCHANGED <<committed, skipped>>
    BY <1>2 DEF Handle
  <2>2. 1..(claim[m][p].pos - 1) \subseteq Past(p)
    BY <2>1 DEF IInv, ClaimTrue
  <2>3. Group!Handle(p)
    BY <1>0, <2>1, <2>2 DEF Group!Handle, Group!Past, Past, Begun, Created
  <2> QED
    BY <2>3 DEF Group!Next
<1>3. CASE Mark(m, p)
  BY <1>0, <1>3 DEF Mark, Visible
<1>4. CASE AutoCommit(m, p) \/ Release(m, p)
  <2>1. committed' = [committed EXCEPT ![p] = Commits(m, p)] /\ UNCHANGED <<handled, skipped>>
    BY <1>4 DEF AutoCommit, Release
  <2> QED
    BY <1>0, <2>1, CommitRefines DEF Group!Next
<1> QED
  BY <1>1, <1>2, <1>3, <1>4 DEF Consume

LEMMA GroupInit == Init => Group!Init
BY DEF Init, Group!Init

LEMMA GroupNext ==
  IInv /\ CopiesPaid /\ [Next]_vars => [Group!Next]_Visible
<1> SUFFICES ASSUME IInv, CopiesPaid, [Next]_vars
             PROVE  Group!Next \/ UNCHANGED Visible
  OBVIOUS
<1>1. ASSUME NEW p \in Partitions, Evict(p) PROVE UNCHANGED Visible
  BY <1>1 DEF Evict, producerVars, Visible, Begun, Created
\* Only requests in progress are cut off with their process.
<1>2. ASSUME NEW m \in Processes, Run(m) PROVE UNCHANGED Visible
  <2>1. UNCHANGED <<log, handled, skipped, committed>>
    BY <1>2 DEF Run, Stop, Drain, Expire, Exit, Crash, Restart, Down, producerVars, consumerVars
  <2>2. \A r \in Requests : pc'[r] = pc[r] \/ (pc[r] = "sending" /\ pc'[r] = "cut")
    BY <1>2 DEF Run, Stop, Drain, Expire, Exit, Crash, Restart, Down, Serving, producerVars
  <2> QED
    BY <2>1, <2>2 DEF Visible, Begun, Created
<1>3. CASE UNCHANGED vars
  BY <1>3 DEF vars, producerVars, consumerVars, Visible, Begun, Created
<1> QED
  BY <1>1, <1>2, <1>3, RequestRefines, ConsumeRefines DEF Next

\* The processes and the broker together are the group that EventGroup promises,
\* through crashes, evictions, rebalances and retries (producer.go:44-66,
\* consumer.go:20, 36-61).
THEOREM GroupIsImplemented == Spec => ImplementsGroup
BY GroupInit, GroupNext, Invariance, CopiesPaidInvariance, PTL
   DEF Spec, ImplementsGroup, Group!Spec, Group!view, Visible, Begun, Created
=============================================================================
