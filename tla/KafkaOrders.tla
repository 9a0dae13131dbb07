---------------------------- MODULE KafkaOrders ----------------------------
(***************************************************************************)
(* kafka-order-service: processes that serve POST /orders by sending an    *)
(* event to Kafka and that, as members of one consumer group, consume the  *)
(* events of all of them.                                                  *)
(*                                                                         *)
(* The producer is sarama's SyncProducer with acks from all replicas and   *)
(* retries but no idempotence: an attempt given up may still be appended.  *)
(* The consumer group starts a claim at the committed offset, or at the    *)
(* end of the log when there is none (OffsetNewest), marks each message    *)
(* after handling it and commits the marks on a timer and when a session   *)
(* ends.  A member that the coordinator has evicted does not know it yet   *)
(* and goes on handling; its commits are refused.                          *)
(*                                                                         *)
(* Handling a message is noted in the history: the handler only logs it.   *)
(* Messages are those of this producer, so the bad_json branch is never    *)
(* taken; it marks like the other.                                         *)
(***************************************************************************)
EXTENDS Integers, Sequences, FiniteSets

CONSTANTS
  Requests,     \* POST requests, and their events
  OrderOf,      \* the order_id of a request
  Partitions,
  Hash,         \* the partition that a key, an order_id or event_id, hashes to
  Processes,    \* running copies of main, members of the group
  ServerOf,     \* the process that serves a request
  MaxAttempts,  \* Retry.Max + 1
  MaxFaults,    \* bound: crashes, stops, rebalances, evictions, failed attempts
  NoOne, Gone,  \* no owner; a member that is gone, unknown to the coordinator
  NoClaim

ASSUME KafkaOrdersAssumption ==
  /\ \A r \in Requests : {Hash[OrderOf[r]], Hash[r]} \subseteq Partitions
  /\ \A r \in Requests : ServerOf[r] \in Processes
  /\ MaxAttempts \in Nat \ {0}
  /\ MaxFaults \in Nat
  /\ {NoOne, Gone} \cap Processes = {}
  /\ NoOne # Gone
  /\ NoClaim \notin [pos : Nat, mark : Nat, handled : BOOLEAN]

VARIABLES
  pc,         \* a request: sending, answered 201 or 500, or cut off
  attempts,   \* of SendMessage
  wire,       \* copies sent and not yet appended
  log,        \* of a partition; offsets count from 1
  process,    \* main: "up", "cancelled" by a signal, "draining" in Shutdown,
              \* "expired" when that gives up, "down"
  owner,      \* the member a partition is assigned to
  committed,  \* the group's next offset, 0 while it has none
  claim,      \* a member's session: next message, mark, message handled
  faults,     \* counts what MaxFaults bounds
  handled,    \* history: offsets that reached the handler
  skipped,    \* history: offsets a claim began after, without a commit
  before      \* history: requests answered 201 before this one was sent

producerVars == <<pc, attempts, wire, log, before>>
consumerVars == <<owner, committed, claim, handled, skipped>>
processVars  == <<process, faults>>
vars == <<producerVars, consumerVars, processVars>>

TypeOK ==
  /\ pc \in [Requests -> {"idle", "sending", "created", "failed", "cut"}]
  /\ attempts \in [Requests -> 0..MaxAttempts]
  /\ wire \in [Requests -> 0..MaxAttempts]
  /\ log \in [Partitions -> Seq(Requests)]
  /\ process \in [Processes -> {"up", "cancelled", "draining", "expired", "down"}]
  /\ owner \in [Partitions -> Processes \cup {NoOne, Gone}]
  /\ committed \in [Partitions -> Nat]
  /\ \A m \in Processes, p \in Partitions :
       claim[m][p] = NoClaim \/ claim[m][p] \in [pos : Nat, mark : Nat, handled : BOOLEAN]
  /\ faults \in 0..MaxFaults
  /\ \A p \in Partitions : handled[p] \cup skipped[p] \subseteq DOMAIN log[p]
  /\ before \in [Requests -> SUBSET Requests]

Init ==
  /\ pc = [r \in Requests |-> "idle"]
  /\ attempts = [r \in Requests |-> 0]
  /\ wire = [r \in Requests |-> 0]
  /\ log = [p \in Partitions |-> << >>]
  /\ process = [m \in Processes |-> "up"]
  /\ owner = [p \in Partitions |-> NoOne]
  /\ committed = [p \in Partitions |-> 0]
  /\ claim = [m \in Processes |-> [p \in Partitions |-> NoClaim]]
  /\ faults = 0
  /\ handled = [p \in Partitions |-> {}]
  /\ skipped = [p \in Partitions |-> {}]
  /\ before = [r \in Requests |-> {}]

---------------------------------------------------------------------------
(* POST /orders and PublishOrderCreated.                                   *)

\* Bug: the key of a message is its event_id.
PartitionOfEvent(r) == Hash[r]

\* NewHashPartitioner on Key = OrderID.
PartitionOf(r) == Hash[OrderOf[r]]

\* The handler builds the event and SendMessage makes its first attempt.
Post(r) ==
  /\ pc[r] = "idle"
  /\ process[ServerOf[r]] \in {"up", "cancelled"}
  /\ pc' = [pc EXCEPT ![r] = "sending"]
  /\ attempts' = [attempts EXCEPT ![r] = 1]
  /\ wire' = [wire EXCEPT ![r] = 1]
  /\ before' = [before EXCEPT ![r] = {s \in Requests : pc[s] = "created"}]
  /\ UNCHANGED <<log, consumerVars, processVars>>

BrokerAppend(r) ==
  /\ wire[r] > 0
  /\ wire' = [wire EXCEPT ![r] = @ - 1]
  /\ log' = [log EXCEPT ![PartitionOf(r)] = Append(@, r)]

\* The broker appends a copy and the producer gets the ack: 201.
Ack(r) ==
  /\ pc[r] = "sending"
  /\ BrokerAppend(r)
  /\ pc' = [pc EXCEPT ![r] = "created"]
  /\ UNCHANGED <<attempts, before, consumerVars, processVars>>

\* The broker appends a copy whose ack is lost, or which nobody waits for.
AppendUnacked(r) ==
  /\ BrokerAppend(r)
  /\ UNCHANGED <<pc, attempts, before, consumerVars, processVars>>

\* An attempt fails; the copy is lost, or still on its way.
Retry(r) ==
  /\ pc[r] = "sending"
  /\ attempts[r] < MaxAttempts /\ faults < MaxFaults
  /\ attempts' = [attempts EXCEPT ![r] = @ + 1]
  /\ \E n \in 0..wire[r] : wire' = [wire EXCEPT ![r] = n + 1]
  /\ faults' = faults + 1
  /\ UNCHANGED <<pc, log, before, consumerVars, process>>

\* The last attempt fails, or the error is not one to retry: 500.
SendError(r) ==
  /\ pc[r] = "sending"
  /\ \E n \in 0..wire[r] : wire' = [wire EXCEPT ![r] = n]
  /\ pc' = [pc EXCEPT ![r] = "failed"]
  /\ UNCHANGED <<attempts, log, before, consumerVars, processVars>>

---------------------------------------------------------------------------
(* The consumer group.                                                     *)

\* Bug: a claim always starts with new messages.
StartsNewest(p) == Len(log[p]) + 1

\* Where a claim starts: the committed offset, or Offsets.Initial = OffsetNewest.
Starts(p) == IF committed[p] = 0 THEN Len(log[p]) + 1 ELSE committed[p]

\* The coordinator assigns a partition and the session starts its claim.
Claim(m, p) ==
  /\ process[m] = "up" /\ owner[p] = NoOne /\ claim[m][p] = NoClaim
  /\ owner' = [owner EXCEPT ![p] = m]
  /\ claim' = [claim EXCEPT ![m][p] = [pos |-> Starts(p), mark |-> 0, handled |-> FALSE]]
  /\ skipped' = [skipped EXCEPT ![p] = @ \cup (1..(Starts(p) - 1) \ handled[p])]
  /\ UNCHANGED <<committed, handled, producerVars, processVars>>

\* The loop of ConsumeClaim reaches a message.
Handle(m, p) ==
  LET c == claim[m][p] IN
  /\ c # NoClaim /\ ~c.handled /\ c.pos \in DOMAIN log[p]
  /\ handled' = [handled EXCEPT ![p] = @ \cup {c.pos}]
  /\ claim' = [claim EXCEPT ![m][p].handled = TRUE]
  /\ UNCHANGED <<owner, committed, skipped, producerVars, processVars>>

\* Bug: a message is marked as soon as it is received.
MarkOnReceipt(m, p) ==
  LET c == claim[m][p] IN
  /\ c # NoClaim /\ c.pos \in DOMAIN log[p]
  /\ claim' = [claim EXCEPT ![m][p] =
       IF c.handled THEN [pos |-> c.pos + 1, mark |-> c.pos + 1, handled |-> FALSE]
                    ELSE [c EXCEPT !.mark = c.pos + 1]]
  /\ UNCHANGED <<owner, committed, handled, skipped, producerVars, processVars>>

\* sess.MarkMessage, and the loop goes on.
Mark(m, p) ==
  LET c == claim[m][p] IN
  /\ c # NoClaim /\ c.handled
  /\ claim' = [claim EXCEPT ![m][p] = [pos |-> c.pos + 1, mark |-> c.pos + 1, handled |-> FALSE]]
  /\ UNCHANGED <<owner, committed, handled, skipped, producerVars, processVars>>

\* Bug: the coordinator takes a commit from whoever sends one.
CommitsUnfenced(m, p) ==
  IF claim[m][p] # NoClaim /\ claim[m][p].mark # 0 THEN claim[m][p].mark ELSE committed[p]

\* What a commit of m's marks leaves: it is refused unless m owns the partition.
Commits(m, p) ==
  IF owner[p] = m /\ claim[m][p] # NoClaim /\ claim[m][p].mark # 0
  THEN claim[m][p].mark ELSE committed[p]

\* The timer of the offset manager.
AutoCommit(m, p) ==
  /\ Commits(m, p) # committed[p]
  /\ committed' = [committed EXCEPT ![p] = Commits(m, p)]
  /\ UNCHANGED <<owner, claim, handled, skipped, producerVars, processVars>>

\* The session ends once the loop has returned: the context of a stop is
\* cancelled, an evicted member has learnt of it, or the group rebalances.
\* The marks are committed a last time.
Release(m, p) ==
  LET told == process[m] # "up" \/ owner[p] # m IN
  /\ claim[m][p] # NoClaim /\ ~claim[m][p].handled
  /\ told \/ faults < MaxFaults
  /\ faults' = IF told THEN faults ELSE faults + 1
  /\ committed' = [committed EXCEPT ![p] = Commits(m, p)]
  /\ owner' = [owner EXCEPT ![p] = IF @ = m THEN NoOne ELSE @]
  /\ claim' = [claim EXCEPT ![m][p] = NoClaim]
  /\ UNCHANGED <<handled, skipped, producerVars, process>>

\* The coordinator misses the heartbeats of the owner, who may be alive.
Evict(p) ==
  /\ owner[p] # NoOne
  /\ owner[p] = Gone \/ faults < MaxFaults
  /\ faults' = IF owner[p] = Gone THEN faults ELSE faults + 1
  /\ owner' = [owner EXCEPT ![p] = NoOne]
  /\ UNCHANGED <<committed, claim, handled, skipped, producerVars, process>>

---------------------------------------------------------------------------
(* Processes.                                                              *)

Serving(m) == {r \in Requests : pc[r] = "sending" /\ ServerOf[r] = m}

\* A signal: main cancels the consumer's context.
Stop(m) ==
  /\ process[m] = "up" /\ faults < MaxFaults
  /\ faults' = faults + 1
  /\ process' = [process EXCEPT ![m] = "cancelled"]
  /\ UNCHANGED <<producerVars, consumerVars>>

\* main calls Shutdown: no more requests are accepted.
Drain(m) ==
  /\ process[m] = "cancelled"
  /\ process' = [process EXCEPT ![m] = "draining"]
  /\ UNCHANGED <<faults, producerVars, consumerVars>>

\* The five seconds of Shutdown run out.
Expire(m) ==
  /\ process[m] = "draining" /\ Serving(m) # {}
  /\ process' = [process EXCEPT ![m] = "expired"]
  /\ UNCHANGED <<faults, producerVars, consumerVars>>

\* Everything the process did is over; requests in progress are cut off.
Down(m) ==
  /\ process' = [process EXCEPT ![m] = "down"]
  /\ pc' = [r \in Requests |-> IF r \in Serving(m) THEN "cut" ELSE pc[r]]
  /\ claim' = [claim EXCEPT ![m] = [p \in Partitions |-> NoClaim]]
  /\ owner' = [p \in Partitions |-> IF owner[p] = m THEN Gone ELSE owner[p]]
  /\ UNCHANGED <<attempts, wire, log, before, committed, handled, skipped>>

\* Shutdown has returned and main's defers close the consumer, which waits for
\* the sessions to end, and then the producer.
Exit(m) ==
  /\ \/ process[m] = "draining" /\ Serving(m) = {}
     \/ process[m] = "expired"
  /\ \A p \in Partitions : claim[m][p] = NoClaim
  /\ Down(m)
  /\ UNCHANGED faults

Crash(m) ==
  /\ process[m] # "down" /\ faults < MaxFaults
  /\ faults' = faults + 1
  /\ Down(m)

\* Another process takes its place, and joins the group as a new member.
Restart(m) ==
  /\ process[m] = "down"
  /\ process' = [process EXCEPT ![m] = "up"]
  /\ UNCHANGED <<faults, producerVars, consumerVars>>

Request(r) == Post(r) \/ Ack(r) \/ AppendUnacked(r) \/ Retry(r) \/ SendError(r)

Consume(m, p) == Claim(m, p) \/ Handle(m, p) \/ Mark(m, p) \/ AutoCommit(m, p) \/ Release(m, p)

Run(m) == Stop(m) \/ Drain(m) \/ Expire(m) \/ Exit(m) \/ Crash(m) \/ Restart(m)

Next ==
  \/ \E r \in Requests : Request(r)
  \/ \E m \in Processes, p \in Partitions : Consume(m, p)
  \/ \E p \in Partitions : Evict(p)
  \/ \E m \in Processes : Run(m)

Spec == Init /\ [][Next]_vars

\* The loops of a live member go on, a session that has been told to end does,
\* and the coordinator notices members that are gone and assigns partitions
\* that nobody owns.  Restarts and commits are not forced.
FairSpec ==
  /\ Spec
  /\ \A p \in Partitions :
       /\ WF_vars(\E m \in Processes : Claim(m, p))
       /\ WF_vars(owner[p] = Gone /\ Evict(p))
  /\ \A m \in Processes, p \in Partitions :
       /\ WF_vars(Handle(m, p))
       /\ WF_vars(Mark(m, p))
       /\ WF_vars((process[m] # "up" \/ owner[p] # m) /\ Release(m, p))

---------------------------------------------------------------------------
(* Properties.                                                             *)

\* No event is lost to a commit: whatever crashes, evictions and rebalances
\* come between the two, an offset is committed only when every event before
\* it has been handled (consumer.go:39-58), apart from those that lie before
\* the start of a claim that found no committed offset (consumer.go:20).
HandledBelowCommit ==
  \A p \in Partitions : 1..(committed[p] - 1) \subseteq handled[p] \cup skipped[p]

\* Redelivery is bounded by the commit: the member that owns a partition never
\* handles again what the group has committed, and the commits of members that
\* no longer own it do not take the group back.
OwnerIsNotBehind ==
  \A m \in Processes, p \in Partitions :
    owner[p] = m /\ claim[m][p] # NoClaim => claim[m][p].pos >= committed[p]

\* "Key helps preserve order for the same order/user" (producer.go:53): an
\* event reaches the handler only after all events of its order that were
\* answered 201 before it was posted, whichever processes served and consume
\* them.
HandledInKeyOrder ==
  \A p \in Partitions : \A j \in handled[p] :
    \A r \in before[log[p][j]] :
      OrderOf[r] = OrderOf[log[p][j]] =>
        \E i \in (handled[p] \cup skipped[p]) : i < j /\ log[p][i] = r

\* Once the group has an offset for a partition, every event from there on is
\* handled, as long as a process is left to do so.
EveryEventIsHandled ==
  \A p \in Partitions : \A i \in 1..(Cardinality(Requests) * MaxAttempts) :
    committed[p] # 0 /\ i \in committed[p]..Len(log[p]) ~>
      i \in handled[p] \/ \A m \in Processes : process[m] # "up"

\* Whatever the faults, the processes together are the group promised: a 201
\* is an event in the log, the log is handled without gaps, and the offset of
\* the group never goes back (producer.go:50-66, consumer.go:36-61).
Group == INSTANCE EventGroup
           WITH MaxCopies <- MaxAttempts, next <- committed,
                begun <- {r \in Requests : pc[r] # "idle"},
                created <- {r \in Requests : pc[r] = "created"}
ImplementsGroup == Group!Spec

=============================================================================
