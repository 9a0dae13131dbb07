----------------------------- MODULE OrderQueue -----------------------------
(***************************************************************************)
(* order-service and queue-service: the handlers on the order slice        *)
(* (OrderSlice), the event a POST publishes to RabbitMQ's queue            *)
(* order_events, and queue-service, which prints what it receives.         *)
(*                                                                         *)
(* PublishOrderEvent opens a connection of its own, gets no confirms, and  *)
(* its error is dropped.  The queue is durable but its messages are not    *)
(* (no DeliveryMode), and autoAck removes a message when it is delivered,  *)
(* received or not.  Any of the three processes may die at any time and is  *)
(* started again by hand.                                                  *)
(***************************************************************************)
EXTENDS OrderSlice

CONSTANT MaxFaults  \* bound: deaths of a process

ASSUME OrderQueueAssumption == MaxFaults \in Nat

VARIABLES
  queue,     \* order_events
  inbox,     \* delivered to queue-service and not yet received
  consumer,  \* queue-service: "up" or "down"
  received,
  lost,      \* history: events that no process has any more
  before,    \* history: the requests that were over when a request began
  faults

queueVars == <<queue, inbox, consumer, received, lost, before>>
vars      == <<sliceVars, queueVars, faults>>

\* An event names its order by id; the request is kept to tell events apart.
Events == [id : Nat, req : Requests]

TypeOK ==
  /\ arrays \in Seq(Seq(Order)) /\ orders \in [arr : DOMAIN arrays, len : Nat, cap : Nat]
  /\ ideal \in Seq(Order) /\ values \in [Requests -> SUBSET Order]
  /\ alone \subseteq Requests /\ raced \in BOOLEAN
  /\ \A r \in Requests :
       /\ my[r].ask \in Asks \cup {None}
       /\ my[r].arr \in DOMAIN arrays /\ {my[r].len, my[r].cap, my[r].i} \subseteq Nat
       /\ my[r].seen \in Seq(Order)
  /\ {queue, inbox, received} \subseteq Seq(Events)
  /\ before \in [Requests -> SUBSET Requests]
  /\ consumer \in {"up", "down"} /\ lost \subseteq Events /\ faults \in 0..MaxFaults

QueueInit ==
  /\ Init
  /\ queue = << >> /\ inbox = << >> /\ received = << >>
  /\ consumer = "down"
  /\ lost = {} /\ before = [r \in Requests |-> {}]
  /\ faults = 0

Event(r) == [id |-> my[r].i, req |-> r]

---------------------------------------------------------------------------
(* CreateOrder after Create.                                               *)

\* Bug: go utility.PublishOrderEvent(orderDetail)
PublishAsync(r) ==
  /\ \/ pc[r] = "publish" /\ Goto(r, "answer") /\ UNCHANGED <<queue, lost>>
     \/ /\ pc[r] = "done" /\ \A e \in Range(received \o inbox \o queue) \cup lost : e.req # r
        /\ \E x \in Range(ideal) : /\ x.data = r
                                 /\ queue' = Append(queue, [id |-> x.id, req |-> r])
        /\ UNCHANGED <<pc, lost>>
  /\ UNCHANGED <<memory, my, history, inbox, consumer, received, before, faults>> /\ Silent

\* The event reaches the queue, or an error that nobody looks at says why not.
Publish(r) ==
  /\ pc[r] = "publish"
  /\ Goto(r, "answer")
  /\ \/ queue' = Append(queue, Event(r)) /\ UNCHANGED lost
     \/ lost' = lost \cup {Event(r)} /\ UNCHANGED queue
  /\ UNCHANGED <<memory, my, history, inbox, consumer, received, before, faults>> /\ Silent

Created(r) ==
  /\ pc[r] = "answer"
  /\ Answer(r, Found([id |-> my[r].i, data |-> r]))
  /\ UNCHANGED <<memory, history, queueVars, faults>>

SliceStep(r) ==
  /\ Begin(r) \/ Refuse(r) \/ Create(r) \/ Change(r)
  /\ before' = IF pc[r] = "idle" THEN [before EXCEPT ![r] = {s \in Requests : pc[s] = "done"}]
                                 ELSE before
  /\ UNCHANGED <<queue, inbox, consumer, received, lost, faults>>

---------------------------------------------------------------------------
(* RabbitMQ and queue-service.                                             *)

\* queue-service connects, declares the queue and consumes.
Connect ==
  /\ consumer = "down"
  /\ consumer' = "up"
  /\ UNCHANGED <<sliceVars, queue, inbox, received, lost, before, faults>>

\* autoAck: the broker forgets what it has sent.
Deliver ==
  /\ consumer = "up" /\ queue # << >>
  /\ queue' = Tail(queue)
  /\ inbox' = Append(inbox, Head(queue))
  /\ UNCHANGED <<sliceVars, consumer, received, lost, before, faults>>

\* Bug: one message is read instead of a range over the deliveries.
ReceiveOnce ==
  /\ consumer = "up" /\ inbox # << >> /\ received = << >>
  /\ inbox' = Tail(inbox)
  /\ received' = Append(received, Head(inbox))
  /\ UNCHANGED <<sliceVars, queue, consumer, lost, before, faults>>

Receive ==
  /\ consumer = "up" /\ inbox # << >>
  /\ inbox' = Tail(inbox)
  /\ received' = Append(received, Head(inbox))
  /\ UNCHANGED <<sliceVars, queue, consumer, lost, before, faults>>

---------------------------------------------------------------------------
(* Deaths.                                                                 *)

Die == faults < MaxFaults /\ faults' = faults + 1

\* The range over the deliveries ends, with the process.
ConsumerDies ==
  /\ Die /\ consumer = "up"
  /\ consumer' = "down"
  /\ inbox' = << >> /\ lost' = lost \cup Range(inbox)
  /\ UNCHANGED <<sliceVars, queue, received, before>>

\* Transient messages do not survive the broker; its clients lose their
\* connections, and queue-service ends.
BrokerDies ==
  /\ Die
  /\ queue' = << >> /\ inbox' = << >>
  /\ lost' = lost \cup Range(queue) \cup Range(inbox)
  /\ consumer' = "down"
  /\ UNCHANGED <<sliceVars, received, before>>

\* order-service starts again with an empty slice.
ServiceDies ==
  LET running == {r \in Requests : pc[r] \notin {"idle", "done"}} IN
  /\ Die
  /\ arrays' = << << >> >> /\ orders' = [arr |-> 1, len |-> 0, cap |-> 0]
  /\ pc' = [r \in Requests |-> IF r \in running THEN "done" ELSE pc[r]]
  /\ my' = [r \in Requests |-> Fresh]
  /\ lost' = lost \cup {Event(r) : r \in {q \in running : pc[q] = "publish"}}
  /\ alone' = {} /\ raced' = FALSE /\ ideal' = << >> /\ values' = [r \in Requests |-> {}]
  /\ UNCHANGED <<queue, inbox, consumer, received, before>> /\ Silent

Next ==
  \/ \E r \in Requests : SliceStep(r) \/ Publish(r) \/ Created(r)
  \/ Connect \/ Deliver \/ Receive
  \/ ConsumerDies \/ BrokerDies \/ ServiceDies

Spec == QueueInit /\ [][Next]_vars

\* A connected consumer is sent what is queued and prints it.
Fairness == WF_vars(Deliver) /\ WF_vars(Receive)

FairSpec == Spec /\ Fairness

---------------------------------------------------------------------------
(* Properties.                                                             *)

Contents == [i \in 1..orders.len |-> arrays[orders.arr][i]]

\* The slice, its shared arrays and its growth are right for one writer at a
\* time: while POST, PUT and DELETE have not overlapped each other, the slice
\* holds, between them, what they made of it one after the other, whatever
\* readers ran meanwhile (service.go:28-66).
SerialWritesAreExact == ~raced /\ Writing = {} => Contents = ideal

\* A GET or PUT or DELETE by id that no writer has overlapped gets the answer
\* that the list has for it, and GET / the list as it is, even where orders
\* have the same id.
AnswerOf(r) ==
  IF my[r].ask.op = "LIST" THEN Listed(ideal)
  ELSE IF Hits(ideal, my[r].ask.id) = {} THEN NotFound
  ELSE IF my[r].ask.op = "GET" THEN Found(ideal[First(ideal, my[r].ask.id)])
  ELSE IF my[r].ask.op = "PUT" THEN Found([id |-> my[r].ask.id, data |-> r])
  ELSE Deleted
AloneIsExact ==
  [][\A r \in alone :
       ~raced /\ Active(r) /\ reply' # None /\ reply'.req = r => reply'.is = AnswerOf(r)]_vars

\* Readers may run beside one POST or PUT, whose header they may load in parts
\* and whose old array they may scan: while only readers overlap writers and no
\* DELETE is at work, a GET of an order in the list finds it, with a value that
\* it had meanwhile (service.go:28-56).
ReadsBesideWrites ==
  [][\A r \in Requests :
       ~raced /\ values[r] # {} /\ Active(r) /\ reply' # None /\ reply'.req = r
         => \E x \in values[r] : reply'.is = Found(x)]_vars

\* Events are received once at most and in the order of the requests: the event
\* of a POST sent after another was answered comes after that one's, whoever
\* dies meanwhile (controller.go:29-32, queue.go:32-41, main.go:37-52).
ReceivedInOrder ==
  LET all == received \o inbox \o queue IN
  \A i, j \in DOMAIN all : i < j =>
    all[j].req # all[i].req /\ all[j].req \notin before[all[i].req]

\* An event in the queue is received, unless it or the consumer is lost.
QueuedIsReceived ==
  \A r \in Requests :
    (\E e \in Range(queue) : e.req = r)
      ~> \/ \E e \in Range(received) \cup lost : e.req = r
         \/ consumer = "down"

=============================================================================
