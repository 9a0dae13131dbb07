---------------------------- MODULE MCOrderQueue ----------------------------
(* Values of OrderQueue's constants for model checking.  Overlapping       *)
(* handlers and the queue multiply each other's states and share nothing,  *)
(* so a behaviour has one or the other: two handlers that overlap after    *)
(* two that did not, with no broker to reach; the queue and deaths, with   *)
(* four requests one at a time; or five, one at a time, with no broker,    *)
(* enough for two orders of one id.  Requests differ by name only and are  *)
(* named in the order in which they begin.                                 *)
EXTENDS OrderQueue, TLC

VARIABLE mode

MCAsks ==
  [op : {"POST", "LIST"}] \cup [op : {"GET", "PUT", "DELETE"}, id : {1, 2}]

Named == \A r \in Requests : pc[r] # "idle" => \A s \in 1..(r - 1) : pc[s] # "idle"

NoBroker == queue = << >> /\ consumer = "down" /\ faults = 0

OneAtATime == Cardinality({r \in Requests : pc[r] \notin {"idle", "done"}}) <= 1

Bounded ==
  CASE mode = "overlap" -> /\ NoBroker /\ pc[5] = "idle"
                           /\ \A r \in {1, 2} : pc[r] = "done" \/ pc[r + 1] = "idle"
    [] mode = "queue"   -> OneAtATime /\ pc[5] = "idle"
    [] mode = "serial"  -> OneAtATime /\ NoBroker

MCInit == QueueInit /\ mode \in {"overlap", "queue", "serial"}

MCNext == Next /\ UNCHANGED mode /\ (Named /\ Bounded)'

MCSpec ==
  /\ MCInit
  /\ [][MCNext]_<<vars, mode>>
  /\ Fairness
=============================================================================
