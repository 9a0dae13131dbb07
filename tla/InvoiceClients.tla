--------------------------- MODULE InvoiceClients ---------------------------
(***************************************************************************)
(* Two clients of invoice-service, while other requests change its table.  *)
(*                                                                         *)
(* GetInventoryByID of inventory-service asks it for an invoice by the     *)
(* path, through its rate limiter and with a timeout of ten seconds.       *)
(*                                                                         *)
(* A walking client reads a list page by page: limit=Size and the next     *)
(* offset until a page is shorter than the limit of the reply.  It is not  *)
(* part of the repository; limit and offset, and the limit in the reply,   *)
(* are what List offers it.                                                *)
(***************************************************************************)
EXTENDS Invoices

CONSTANTS
  Lookups,  \* requests to GET /v1/invoices/inventory/:id
  Size      \* the limit parameter of the walk

ASSUME InvoiceClientsAssumption == Size \in Nat \ {0} /\ None \notin Nat

VARIABLES
  call,    \* a lookup: "idle", "calling", "served" or "done"
  status,  \* the status of invoice-service's response, later of the lookup's
  offset,  \* of the walk's next page, or None when no walk is under way
  seen,    \* invoices the walk was given
  stayed,  \* history: invoices that kept a text of their own since the walk began
  moved    \* history: rows deleted or renamed meanwhile, all of them at most

callVars   == <<call, status>>
walkVars   == <<offset, seen, stayed, moved>>
clientVars == <<vars, callVars, walkVars>>

\* No other live row sorts with i.
Untied(i) == Live(i) /\ \A j \in Ids \ {i} : Live(j) => Rank[invoices[j]] # Rank[invoices[i]]

ClientsInit ==
  /\ Init
  /\ call = [l \in Lookups |-> "idle"]
  /\ status = [l \in Lookups |-> None]
  /\ offset = None
  /\ seen = {} /\ stayed = {} /\ moved = 0

---------------------------------------------------------------------------
(* GetInventoryByID.                                                       *)

Step(l, from, to, code) ==
  /\ call[l] = from
  /\ call' = [call EXCEPT ![l] = to]
  /\ status' = [status EXCEPT ![l] = code]
  /\ UNCHANGED <<tableVars, walkVars>> /\ Silent

\* An id that does not parse is a 400; else httpClient.Do begins.
Lookup(l) == Step(l, "idle", "done", 400) \/ Step(l, "idle", "calling", None)

\* RateLimiterMiddleware refuses, or GetByID runs: with no query string it
\* finds no invoice, if the database answers at all.
Serve(l) == \E code \in {429, 404, 500} : Step(l, "calling", "served", code)

\* Any status but 200 is an error to GetJSON, and a 500 to the client.
Relay(l) == Step(l, "served", "done", IF status[l] = 200 THEN 200 ELSE 500)

\* Bug: http.DefaultClient, which has no timeout.
TimeoutNever(l) == FALSE /\ Step(l, "calling", "done", 500)

\* The connection is refused, or httpClient.Timeout has passed.
Timeout(l) == \E from \in {"calling", "served"} : Step(l, from, "done", 500)

---------------------------------------------------------------------------
(* The walk.                                                               *)

\* A walk begins, on whatever the table holds.
Start ==
  /\ offset = None
  /\ offset' = 0 /\ seen' = {}
  /\ stayed' = {i \in Ids : Untied(i)} /\ moved' = 0
  /\ UNCHANGED <<tableVars, callVars>> /\ Silent

\* The next page, a List request.
Walk ==
  /\ offset # None
  /\ \E page \in Pages(Matching(Absent, Absent), Limit(Size), offset) :
       /\ seen' = seen \cup page
       /\ offset' = IF Cardinality(page) < Limit(Size) THEN None ELSE offset + Limit(Size)
  /\ UNCHANGED <<tableVars, callVars, stayed, moved>> /\ Silent

\* The history of a walk that goes on, in a step of another request.
Note ==
  IF offset = None THEN UNCHANGED walkVars
  ELSE LET left == {i \in Ids : Live(i) /\ invoices[i] # invoices'[i]}
           n == moved + Cardinality(left) IN
       /\ stayed' = {i \in stayed \ left : Untied(i)'}
       /\ moved' = IF n > MaxInvoices THEN MaxInvoices ELSE n
       /\ UNCHANGED <<offset, seen>>

Other == Next /\ Note /\ UNCHANGED callVars

ClientsNext ==
  \/ Other \/ Start \/ Walk
  \/ \E l \in Lookups : Lookup(l) \/ Serve(l) \/ Relay(l) \/ Timeout(l)

ClientsSpec == ClientsInit /\ [][ClientsNext]_clientVars

\* Timers fire, and a response that arrived is read.
Fairness == \A l \in Lookups : WF_clientVars(Relay(l)) /\ WF_clientVars(Timeout(l))

FairSpec == ClientsSpec /\ Fairness

---------------------------------------------------------------------------
(* Properties.                                                             *)

\* A finished walk has missed no more of the invoices that kept a text of
\* their own than rows that were deleted or renamed meanwhile: PATCH changes
\* the very column the list is ordered by (invoice_handler.go:86), and a new
\* invoice may sort anywhere, but neither hides more than one.
MissesOnlyForMoved == offset = None => Cardinality(stayed \ seen) <= moved

\* Every lookup is answered, also when invoice-service never responds
\* (apicall.go:11).
LookupAnswered == \A l \in Lookups : call[l] = "calling" ~> call[l] = "done"

=============================================================================
