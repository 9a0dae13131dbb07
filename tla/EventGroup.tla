----------------------------- MODULE EventGroup -----------------------------
(***************************************************************************)
(* What kafka-order-service promises about its events, whichever processes *)
(* serve and consume them: 201 means that the event is in the log; the     *)
(* group handles the log of a partition without gaps, events more than     *)
(* once perhaps; and its offset never goes back nor passes an event that   *)
(* was not handled.  Only a group that has no offset yet may skip what is  *)
(* in the log.                                                             *)
(***************************************************************************)
EXTENDS Naturals, Sequences, FiniteSets

CONSTANTS
  Requests, Partitions,
  PartitionOf(_),  \* where the event of a request is sent
  MaxCopies        \* the attempts of a producer

VARIABLES
  begun,    \* requests that may have sent their event
  created,  \* requests answered 201
  log,
  handled,  \* offsets that reached the handler
  skipped,  \* offsets the group left out
  next      \* the group's offset, 0 before the first commit

view == <<begun, created, log, handled, skipped, next>>

Past(p) == handled[p] \cup skipped[p]

CopiesOf(r) ==
  LET l == log[PartitionOf(r)] IN Cardinality({i \in DOMAIN l : l[i] = r})

Init ==
  /\ begun = {} /\ created = {}
  /\ log = [p \in Partitions |-> << >>]
  /\ handled = [p \in Partitions |-> {}]
  /\ skipped = [p \in Partitions |-> {}]
  /\ next = [p \in Partitions |-> 0]

Begin(r) ==
  /\ begun' = begun \cup {r}
  /\ UNCHANGED <<created, log, handled, skipped, next>>

\* A copy of the event is stored; the request may be answered by it.
Store(r) ==
  /\ r \in begun
  /\ CopiesOf(r) < MaxCopies
  /\ log' = [log EXCEPT ![PartitionOf(r)] = Append(@, r)]
  /\ created' \in {created, created \cup {r}}
  /\ UNCHANGED <<begun, handled, skipped, next>>

Handle(p) ==
  /\ \E i \in DOMAIN log[p] :
       /\ 1..(i - 1) \subseteq Past(p)
       /\ handled' = [handled EXCEPT ![p] = @ \cup {i}]
  /\ UNCHANGED <<begun, created, log, skipped, next>>

Commit(p) ==
  /\ \E n \in 1..(Len(log[p]) + 1) :
       /\ n > next[p] /\ 1..(n - 1) \subseteq Past(p)
       /\ next' = [next EXCEPT ![p] = n]
  /\ UNCHANGED <<begun, created, log, handled, skipped>>

Skip(p) ==
  /\ next[p] = 0
  /\ skipped' = [skipped EXCEPT ![p] = @ \cup (DOMAIN log[p] \ handled[p])]
  /\ UNCHANGED <<begun, created, log, handled, next>>

Next ==
  \/ \E r \in Requests : Begin(r) \/ Store(r)
  \/ \E p \in Partitions : Handle(p) \/ Commit(p) \/ Skip(p)

Spec == Init /\ [][Next]_view
=============================================================================
