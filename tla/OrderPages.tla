----------------------------- MODULE OrderPages -----------------------------
(***************************************************************************)
(* A client that reads a list of orders page by page, while the requests   *)
(* of Orders change the table: it asks for limit=Size and the next offset  *)
(* until a page is shorter than the limit of the reply.  Every page is a   *)
(* List of its own, so orders move between pages during the walk.          *)
(*                                                                         *)
(* The client is not part of the repository; limit, offset and their echo  *)
(* in the reply are what the handlers offer it.                            *)
(***************************************************************************)
EXTENDS Orders

CONSTANTS
  Filter,  \* the status parameter of the walk, or Absent
  Size     \* the limit parameter of the walk

ASSUME OrderPagesAssumption ==
  /\ Filter \in Statuses \cup {Absent}
  /\ Size \in Nat \ {0}
  /\ NoReply \notin Nat

VARIABLES
  offset,   \* of the next page, or NoReply when the walk is over
  seen,     \* orders the client was given
  stayed,   \* history: orders that matched the filter ever since the walk began
  removed   \* history: how often an order stopped to match

walkVars == <<offset, seen, stayed, removed>>

PagesInit ==
  /\ Init
  /\ offset = 0
  /\ seen = {}
  /\ stayed = Matching(Filter)
  /\ removed = 0

\* Bug: the reply repeats the limit of the request.
EchoRequested == Size

\* The "limit" of a reply: the one the page was read with.
Echo == Limit(Size)

\* The next page, a List request of the client.
Walk ==
  LET page == Page(Matching(Filter), Limit(Size), offset) IN
  /\ offset # NoReply
  /\ seen' = seen \cup page
  /\ offset' = IF Cardinality(page) < Limit(Size) THEN NoReply ELSE offset + Echo
  /\ UNCHANGED <<vars, stayed, removed>>

\* A step of another request, noted in the history while the walk goes on.
Other ==
  /\ Next
  /\ LET lost == Matching(Filter) \ Matching(Filter)' IN
       IF offset = NoReply THEN UNCHANGED <<stayed, removed>>
       ELSE stayed' = stayed \ lost /\ removed' = removed + Cardinality(lost)
  /\ UNCHANGED <<offset, seen>>

PagesNext == Walk \/ Other

PagesSpec == PagesInit /\ [][PagesNext]_<<vars, walkVars>>

---------------------------------------------------------------------------
(* Properties.                                                             *)

\* A finished walk has missed no more of the orders that were there all along
\* than orders that left the list meanwhile: new orders, which shift all the
\* pages, make it see some twice but miss none (order_handler.go:101).
MissesOnlyForRemoved ==
  offset = NoReply => Cardinality(stayed \ seen) <= removed

=============================================================================
