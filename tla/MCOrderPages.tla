---------------------------- MODULE MCOrderPages ----------------------------
(* Values of the constants of Orders and OrderPages for model checking.    *)
EXTENDS OrderPages, TLC

CONSTANTS r1, r2, r3

MCServiceOf == (r1 :> "payment") @@ (r2 :> "inventory") @@ (r3 :> "payment")

MCSymmetry == Permutations({r1, r3})

Patch(i, set) == [op |-> "patch", id |-> i, set |-> set]
PageOf(tag, limit, start) ==
  [op |-> "list", tag |-> tag, status |-> Absent, limit |-> limit, offset |-> start]

\* Requests about order 1, which the dump holds, and order 3, which they may
\* create; order 2 is between them on the pages.
MCAsks ==
  {[op |-> "invalid"], [op |-> "create", region |-> "eu"],
   [op |-> "get", id |-> 1], [op |-> "get", id |-> 3],
   [op |-> "delete", id |-> 1], [op |-> "delete", id |-> 3],
   Patch(1, "region" :> "eu"), Patch(1, "order_status" :> "ACTIVE"),
   Patch(1, ("order_status" :> "ACTIVE") @@ ("region" :> "us")),
   PageOf("v1", Absent, Absent), PageOf("v2", 9, 1), PageOf("v3", Absent, -1)}
=============================================================================
