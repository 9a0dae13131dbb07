-------------------------- MODULE MCInvoiceClients --------------------------
(* Values of the constants of Invoices and InvoiceClients for model        *)
(* checking: two texts of one number and a third.                          *)
(*                                                                         *)
(* Two handlers that overlap, a walk and a lookup multiply each other's    *)
(* states and meet only in the table, which each statement changes in one  *)
(* step, so a behaviour has one of the three: `focus' chooses.  Handlers   *)
(* overlap on two invoices; beside a walk one handler is at work, and only *)
(* what it writes counts; a lookup finds none whatever the table holds.    *)
EXTENDS InvoiceClients, TLC

CONSTANTS r1, r2, l1

VARIABLE focus

MCNum  == ("12" :> 12) @@ ("012" :> 12) @@ ("7" :> 7)
MCRank == ("012" :> 1) @@ ("12" :> 2) @@ ("7" :> 3)

MCLimits == {Absent, -1, 1}

\* Steps of ClientsNext: a read leaves the next state as it was, so that any
\* state without work under way may stand for the others.
HandlerSteps ==
  /\ \/ \E r \in Requests : Write(r) /\ nextId' <= 3
     \/ Read(r1) /\ \A r \in Requests : work[r] = None
  /\ UNCHANGED <<walkVars, callVars>>

WalkSteps == Start \/ Walk \/ (Write(r1) /\ Note /\ UNCHANGED callVars)

LookupSteps == \E l \in Lookups : Lookup(l) \/ Serve(l) \/ Relay(l) \/ Timeout(l)

MCInit == ClientsInit /\ focus \in {"handlers", "walk", "lookup"}

MCNext ==
  /\ \/ focus = "handlers" /\ HandlerSteps
     \/ focus = "walk" /\ WalkSteps
     \/ focus = "lookup" /\ LookupSteps
  /\ UNCHANGED focus

MCSpec ==
  /\ MCInit
  /\ [][MCNext]_<<clientVars, focus>>
  /\ Fairness
=============================================================================
