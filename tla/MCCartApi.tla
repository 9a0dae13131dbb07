----------------------------- MODULE MCCartApi -----------------------------
(* Values of CartApi's constants for model checking.  The handler of a     *)
(* checkout and the server's isolation level are set before the first      *)
(* request: one run checks the routed Checkout under REPEATABLE READ and   *)
(* NOCheckout under READ COMMITTED.                                        *)
EXTENDS CartApi, TLC

CONSTANTS r1, r2, r3, r4, r5, r6, r7, r8, u1, usd, inr

VARIABLE unrouted

Unrouted == INSTANCE CartApi WITH CheckoutHandler <- "NOCheckout", GapLocks <- FALSE

Create(currency) == [op |-> "create", owner |-> u1, currency |-> currency]
Ask(op, c)       == [op |-> op, cart |-> c]

\* Two tries of one creation, one with another key and another currency for
\* the same owner; checkouts of cart 1 with two keys, and a retry of the first;
\* a read and an edit of cart 1.
Keys      == (r1 :> 1) @@ (r2 :> 1) @@ (r3 :> 2) @@ (r4 :> 3) @@ (r5 :> 4)
              @@ (r6 :> 3) @@ (r7 :> 5) @@ (r8 :> 6)
Payloads2 == (r1 :> Create(usd)) @@ (r2 :> Create(usd)) @@ (r3 :> Create(inr))
               @@ (r4 :> Ask("checkout", 1)) @@ (r5 :> Ask("checkout", 1))
               @@ (r6 :> Ask("checkout", 1)) @@ (r7 :> Ask("get", 1)) @@ (r8 :> Ask("edit", 1))
MCKeyOf   == [r \in Requests |-> Keys[r]]
MCPayload == [r \in Requests |-> Payloads2[r]]

MCInit == Init /\ unrouted \in BOOLEAN

\* The retry of a creation, the read and the edit are tried with the routed
\* handler, several checkouts with the other one.
Used(r) == r \notin IF unrouted THEN {r2, r7, r8} ELSE {r5, r6}

MCNext ==
  /\ IF unrouted THEN Unrouted!Next ELSE Next
  /\ UNCHANGED unrouted
  /\ \A r \in Requests : Used(r) \/ pc'[r] = "idle"

MCSpec == MCInit /\ [][MCNext]_<<vars, unrouted>>

\* With NOCheckout a cart is checked out exactly when it has its one event.
OneEvent == unrouted => OneEventPerCheckedOutCart
=============================================================================
