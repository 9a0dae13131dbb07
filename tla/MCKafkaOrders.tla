--------------------------- MODULE MCKafkaOrders ---------------------------
(* Values of KafkaOrders' constants for model checking.                    *)
EXTENDS KafkaOrders, TLC

CONSTANTS r1, r2, o1, m1, m2, p1, p2

\* Two events of one order, served by different processes, whose event ids hash
\* to different partitions.
MCOrderOf == (r1 :> o1) @@ (r2 :> o1)
MCServerOf == (r1 :> m1) @@ (r2 :> m2)
MCHash == (o1 :> p1) @@ (r1 :> p1) @@ (r2 :> p2)
=============================================================================
