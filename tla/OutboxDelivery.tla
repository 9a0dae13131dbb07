-------------------------- MODULE OutboxDelivery --------------------------
(***************************************************************************)
(* What cart-service's outbox promises to the consumers of the topic and   *)
(* to an operator who looks at cart_outbox: an event is sent only after    *)
(* its row is committed; a row is settled once, and truthfully; and the    *)
(* events of a cart are sent in the order of their stamps, every copy of   *)
(* the later one after the first of the earlier one, unless the earlier    *)
(* one is excused.  Workers, batches, locks and faults are not visible.    *)
(***************************************************************************)
EXTENDS Naturals, Sequences

CONSTANTS
  Requests, Carts,
  CartOf,    \* the cart of an event
  Stamps

VARIABLES
  row,       \* "none", "NEW", or settled: "PUBLISHED" or "FAILED"
  stamp,     \* of a committed row, 0 before
  topic,     \* the log of each cart
  excused    \* events that failed once, or were committed too late

view == <<row, stamp, topic, excused>>

IsSent(q) == \E i \in DOMAIN topic[CartOf[q]] : topic[CartOf[q]][i] = q

\* The committed events of q's cart.
Siblings(q) == {b \in Requests : CartOf[b] = CartOf[q] /\ row[b] # "none"}

Init ==
  /\ row = [q \in Requests |-> "none"]
  /\ stamp = [q \in Requests |-> 0]
  /\ topic = [c \in Carts |-> << >>]
  /\ excused = {}

\* An event that appears after a later one may be excused; it must be when the
\* later one has been sent.
Commit(q) ==
  /\ row[q] = "none"
  /\ row' = [row EXCEPT ![q] = "NEW"]
  /\ \E t \in Stamps :
       LET later == {b \in Siblings(q) : stamp[b] > t} IN
       /\ stamp' = [stamp EXCEPT ![q] = t]
       /\ \/ later # {} /\ excused' = excused \cup {q}
          \/ (\A b \in later : ~IsSent(b)) /\ UNCHANGED excused
  /\ UNCHANGED topic

\* A copy of q is sent, the first or one more.
Send(q) ==
  /\ row[q] # "none"
  /\ \A a \in Siblings(q) : stamp[a] < stamp[q] => IsSent(a) \/ a \in excused
  /\ topic' = [topic EXCEPT ![CartOf[q]] = Append(@, q)]
  /\ UNCHANGED <<row, stamp, excused>>

\* An attempt to send q fails.
Excuse(q) ==
  /\ row[q] = "NEW"
  /\ excused' = excused \cup {q}
  /\ UNCHANGED <<row, stamp, topic>>

\* Rows are settled: PUBLISHED if sent, FAILED if excused.
Settle ==
  /\ \E P \in SUBSET {q \in Requests : row[q] = "NEW" /\ IsSent(q)},
        F \in SUBSET {q \in Requests : row[q] = "NEW" /\ q \in excused} :
       row' = [q \in Requests |->
                 IF q \in P THEN "PUBLISHED" ELSE IF q \in F THEN "FAILED" ELSE row[q]]
  /\ UNCHANGED <<stamp, topic, excused>>

Next == Settle \/ \E q \in Requests : Commit(q) \/ Send(q) \/ Excuse(q)

Spec == Init /\ [][Next]_view
=============================================================================
