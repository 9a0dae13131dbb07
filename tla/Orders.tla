------------------------------- MODULE Orders -------------------------------
(***************************************************************************)
(* The table orders and the handlers of payment-service and               *)
(* inventory-service that read and write it.  The deployments of the two   *)
(* services name the same database, and the two handler files are the same *)
(* but for the columns a PATCH may set.                                    *)
(*                                                                         *)
(* gorm wraps each statement in a transaction of its own.  An UPDATE by    *)
(* primary key is one step: the row lock hides what lies between it and    *)
(* its COMMIT.  An INSERT is two, as ids are drawn before rows are visible.*)
(* A soft deleted row stays in the table and is hidden from every query.   *)
(* MySQL reports the rows an UPDATE changed, not the rows it matched, and  *)
(* updated_at is a datetime with no fraction of a second.                  *)
(***************************************************************************)
EXTENDS Integers, FiniteSets

CONSTANTS
  Requests,
  ServiceOf,     \* the service that answers: "payment" or "inventory"
  Asks,          \* requests a client may send, see Questions
  MaxOrders,     \* bound on the ids that are drawn
  Dumped,        \* rows of the SQL dump the table starts with (3)
  Statuses,      \* "CREATED" and the others of models.OrderStatus
  Regions,       \* values of a column that both services update
  Stamps,        \* seconds of updated_at; replicas' clocks may differ
  DefaultLimit,  \* 20
  MaxLimit,      \* 100
  Absent,        \* a parameter that is missing or not a number
  NoRow, NoAsk, NoReply

Ids     == 1..MaxOrders
Columns == {"order_status", "region"}
Sets    == {u \in UNION {[C -> Statuses \cup Regions] : C \in SUBSET Columns} :
              /\ "order_status" \in DOMAIN u => u["order_status"] \in Statuses
              /\ "region" \in DOMAIN u => u["region"] \in Regions}

Questions ==
  [op : {"invalid"}]
    \cup [op : {"create"}, region : Regions]
    \cup [op : {"get", "delete"}, id : Ids]
    \cup [op : {"patch"}, id : Ids, set : Sets]
    \cup [op : {"list"}, tag : {"v1", "v2", "v3"}, status : Statuses \cup {Absent},
          limit : Int \cup {Absent}, offset : Int \cup {Absent}]

Rows == [order_status : Statuses, region : Regions, updated_at : Stamps, deleted : BOOLEAN]

ASSUME OrdersAssumption ==
  /\ ServiceOf \in [Requests -> {"payment", "inventory"}]
  /\ Asks \subseteq Questions
  /\ MaxOrders \in Nat
  /\ Dumped \in 0..MaxOrders
  /\ "CREATED" \in Statuses
  /\ Stamps \subseteq Nat
  /\ NoRow \notin Rows
  /\ MaxLimit \in Nat \ {0} /\ DefaultLimit \in 1..MaxLimit

VARIABLES
  orders,   \* committed rows, deleted ones included
  nextId,   \* AUTO_INCREMENT
  pc,       \* where a request's handler is
  ask,      \* what the request asks
  drawn,    \* the id of a created order
  reply,
  born,     \* history: ids stored, or answered 201, before a request arrived
  gone,     \* history: ids deleted before a request arrived
  changed   \* history: columns others set since a request's UPDATE

rowVars  == <<orders, nextId>>
histVars == <<born, gone, changed>>
vars     == <<rowVars, pc, ask, drawn, reply, histVars>>

Replies ==
  [code : {204, 400, 404, 500}]
    \cup [code : {201}, id : Ids]
    \cup [code : {200}, id : Ids, row : Rows]
    \cup [code : {200}, tag : {"v1", "v2", "v3"}, limit : Int, offset : Int, items : SUBSET Ids]

TypeOK ==
  /\ orders \in [Ids -> Rows \cup {NoRow}]
  /\ nextId \in 1..(MaxOrders + 1)
  /\ pc \in [Requests -> {"idle", "begun", "inserted", "updated", "done"}]
  /\ ask \in [Requests -> Asks \cup {NoAsk}]
  /\ drawn \in [Requests -> Ids \cup {NoRow}]
  /\ reply \in [Requests -> Replies \cup {NoReply}]
  /\ born \in [Requests -> SUBSET Ids]
  /\ gone \in [Requests -> SUBSET Ids]
  /\ changed \in [Requests -> SUBSET Columns]

\* A new row; both models give order_status its default.
NewOrder(g, t) ==
  [order_status |-> "CREATED", region |-> g, updated_at |-> t, deleted |-> FALSE]

\* The dump is older than every request.
Init ==
  /\ \E g \in Regions, t \in Stamps :
       /\ \A s \in Stamps : t <= s
       /\ orders = [i \in Ids |-> IF i <= Dumped THEN NewOrder(g, t) ELSE NoRow]
  /\ nextId = Dumped + 1
  /\ pc = [r \in Requests |-> "idle"]
  /\ ask = [r \in Requests |-> NoAsk]
  /\ drawn = [r \in Requests |-> NoRow]
  /\ reply = [r \in Requests |-> NoReply]
  /\ born = [r \in Requests |-> {}]
  /\ gone = [r \in Requests |-> {}]
  /\ changed = [r \in Requests |-> {}]

---------------------------------------------------------------------------
(* Queries.                                                                *)

\* Bug: the query is Unscoped.
LiveOrDeleted(i) == orders[i] # NoRow

\* The row a query by order_id finds: gorm adds deleted_at IS NULL.
Live(i) == orders[i] # NoRow /\ ~orders[i].deleted

IntWithDefault(raw, default) == IF raw = Absent THEN default ELSE raw

Limit(raw) ==
  LET n == IntWithDefault(raw, DefaultLimit) IN IF n > MaxLimit THEN MaxLimit ELSE n

Matching(status) ==
  {i \in Ids : Live(i) /\ (status # Absent => orders[i].order_status = status)}

\* ORDER BY order_id DESC LIMIT n OFFSET o; gorm writes no LIMIT for a negative
\* n and no OFFSET for a negative o.
Page(S, n, o) ==
  {i \in S : LET rank == Cardinality({j \in S : j > i})
                 skip == IF o > 0 THEN o ELSE 0
             IN  rank >= skip /\ (n >= 0 => rank < skip + n)}

---------------------------------------------------------------------------
(* Requests.                                                               *)

Answered(r, code) == reply[r] # NoReply /\ reply[r].code = code

Goto(r, l) == pc' = [pc EXCEPT ![r] = l]

Answer(r, a) == Goto(r, "done") /\ reply' = [reply EXCEPT ![r] = a]

Arrive(r) ==
  /\ pc[r] = "idle"
  /\ \E q \in Asks : ask' = [ask EXCEPT ![r] = q]
  /\ Goto(r, "begun")
  /\ born' = [born EXCEPT ![r] = {i \in Ids :
                \/ orders[i] # NoRow
                \/ \E s \in Requests : Answered(s, 201) /\ reply[s].id = i}]
  /\ gone' = [gone EXCEPT ![r] = {i \in Ids : orders[i] # NoRow /\ orders[i].deleted}]
  /\ UNCHANGED <<rowVars, drawn, reply, changed>>

Asked(r, op) == pc[r] = "begun" /\ ask[r].op = op

\* An id that does not parse, or a body that does not validate.
Refuse(r) ==
  /\ Asked(r, "invalid")
  /\ Answer(r, [code |-> 400])
  /\ UNCHANGED <<rowVars, ask, drawn, histVars>>

\* Bug: the client is answered before COMMIT.
CreateInsertAnswers(r) ==
  /\ Asked(r, "create")
  /\ nextId \in Ids
  /\ drawn' = [drawn EXCEPT ![r] = nextId]
  /\ nextId' = nextId + 1
  /\ pc' = [pc EXCEPT ![r] = "inserted"]
  /\ reply' = [reply EXCEPT ![r] = [code |-> 201, id |-> nextId]]
  /\ UNCHANGED <<orders, ask, histVars>>

\* Create: the INSERT draws an id.
CreateInsert(r) ==
  /\ Asked(r, "create")
  /\ nextId \in Ids
  /\ drawn' = [drawn EXCEPT ![r] = nextId]
  /\ nextId' = nextId + 1
  /\ Goto(r, "inserted")
  /\ UNCHANGED <<orders, ask, reply, histVars>>

\* COMMIT of the INSERT; a client may miss that it was applied.
CreateCommit(r) ==
  /\ pc[r] = "inserted"
  /\ \E t \in Stamps : orders' = [orders EXCEPT ![drawn[r]] = NewOrder(ask[r].region, t)]
  /\ Answer(r, [code |-> 201, id |-> drawn[r]]) \/ Answer(r, [code |-> 500])
  /\ UNCHANGED <<nextId, ask, drawn, histVars>>

\* GetByID.
Get(r) ==
  LET i == ask[r].id IN
  /\ Asked(r, "get")
  /\ IF Live(i) THEN Answer(r, [code |-> 200, id |-> i, row |-> orders[i]])
     ELSE Answer(r, [code |-> 404])
  /\ UNCHANGED <<rowVars, ask, drawn, histVars>>

\* MySQL refuses an OFFSET without a LIMIT.
ListPage(r, tag) ==
  LET q == ask[r]
      n == Limit(q.limit)
      o == IntWithDefault(q.offset, 0) IN
  /\ Asked(r, "list") /\ q.tag = tag
  /\ IF n < 0 /\ o > 0 THEN Answer(r, [code |-> 500])
     ELSE Answer(r, [code |-> 200, tag |-> tag, limit |-> n, offset |-> o,
                     items |-> Page(Matching(q.status), n, o)])
  /\ UNCHANGED <<rowVars, ask, drawn, histVars>>

List(r)   == ListPage(r, "v1")
Listv2(r) == ListPage(r, "v2")
Listv3(r) == ServiceOf[r] = "payment" /\ ListPage(r, "v3")

---------------------------------------------------------------------------
(* PATCH and DELETE.                                                       *)

\* Update of payment-service copies every column of the request.
PaymentSet(u) == u

\* Update of inventory-service leaves order_status out.
InventorySet(u) == [c \in DOMAIN u \ {"order_status"} |-> u[c]]

UpdatesOf(r) ==
  IF ServiceOf[r] = "payment" THEN PaymentSet(ask[r].set) ELSE InventorySet(ask[r].set)

\* UPDATE ... SET u, updated_at = t: the row it leaves.
Updated(row, u, t) ==
  [order_status |-> IF "order_status" \in DOMAIN u THEN u["order_status"] ELSE row.order_status,
   region |-> IF "region" \in DOMAIN u THEN u["region"] ELSE row.region,
   updated_at |-> t, deleted |-> row.deleted]

\* Bug: the reply is the row that was loaded before the UPDATE.
PatchUpdateStale(r) ==
  LET i == ask[r].id
      u == UpdatesOf(r) IN
  /\ Asked(r, "patch") /\ Live(i) /\ DOMAIN u # {}
  /\ \E t \in Stamps : orders' = [orders EXCEPT ![i] = Updated(@, u, t)]
  /\ Answer(r, [code |-> 200, id |-> i, row |-> orders[i]])
  /\ UNCHANGED <<nextId, ask, drawn, histVars>>

\* No column to set is a 400.  RowsAffected is 0 when no live row has the id,
\* and also when the UPDATE leaves the row as it was.
PatchUpdate(r) ==
  LET i == ask[r].id
      u == UpdatesOf(r) IN
  /\ Asked(r, "patch")
  /\ IF DOMAIN u = {} THEN Answer(r, [code |-> 400]) /\ UNCHANGED <<orders, changed>>
     ELSE \E t \in Stamps :
       IF Live(i) /\ Updated(orders[i], u, t) # orders[i]
       THEN /\ orders' = [orders EXCEPT ![i] = Updated(@, u, t)]
            /\ changed' = [s \in Requests |->
                  IF pc[s] = "updated" /\ ask[s].id = i THEN changed[s] \cup DOMAIN u
                  ELSE changed[s]]
            /\ Goto(r, "updated") /\ UNCHANGED reply
       ELSE Answer(r, [code |-> 404]) /\ UNCHANGED <<orders, changed>>
  /\ UNCHANGED <<nextId, ask, drawn, born, gone>>

\* The second statement of Update.
PatchRead(r) ==
  LET i == ask[r].id IN
  /\ pc[r] = "updated"
  /\ IF Live(i) THEN Answer(r, [code |-> 200, id |-> i, row |-> orders[i]])
     ELSE Answer(r, [code |-> 500])
  /\ UNCHANGED <<rowVars, ask, drawn, histVars>>

\* Bug: the UPDATE that sets deleted_at is Unscoped.
DeleteNoFilter(r) ==
  LET i == ask[r].id IN
  /\ Asked(r, "delete")
  /\ IF LiveOrDeleted(i)
     THEN /\ orders' = [orders EXCEPT ![i].deleted = TRUE]
          /\ Answer(r, [code |-> 204])
     ELSE Answer(r, [code |-> 404]) /\ UNCHANGED orders
  /\ UNCHANGED <<nextId, ask, drawn, histVars>>

\* Delete: UPDATE ... SET deleted_at WHERE order_id AND deleted_at IS NULL; a
\* client may miss that it was applied.
Delete(r) ==
  LET i == ask[r].id IN
  /\ Asked(r, "delete")
  /\ IF Live(i)
     THEN /\ orders' = [orders EXCEPT ![i].deleted = TRUE]
          /\ Answer(r, [code |-> 204]) \/ Answer(r, [code |-> 500])
     ELSE Answer(r, [code |-> 404]) /\ UNCHANGED orders
  /\ UNCHANGED <<nextId, ask, drawn, histVars>>

\* The database fails or the pod dies; what was committed stays.
Fail(r) ==
  /\ pc[r] \in {"begun", "inserted", "updated"} /\ ask[r].op # "invalid"
  /\ Answer(r, [code |-> 500])
  /\ UNCHANGED <<rowVars, ask, drawn, histVars>>

Handle(r) ==
  \/ Refuse(r) \/ CreateInsert(r) \/ CreateCommit(r) \/ Get(r)
  \/ List(r) \/ Listv2(r) \/ Listv3(r)
  \/ PatchUpdate(r) \/ PatchRead(r) \/ Delete(r) \/ Fail(r)

Next == \E r \in Requests : Arrive(r) \/ Handle(r)

Spec == Init /\ [][Next]_vars

---------------------------------------------------------------------------
(* Properties.                                                             *)

\* Whether the 404 of r is true: there was no such order when r came, or it is
\* deleted.
NotFoundIsTrueFor(r) ==
  Answered(r, 404) => ask[r].id \notin born[r] \/ ~Live(ask[r].id)

\* GET and DELETE never miss an order whose creation was acknowledged before
\* they were sent (order_handler.go:59, 190).
NotFoundIsTrue ==
  \A r \in Requests : reply[r] # NoReply /\ ask[r].op \in {"get", "delete"} => NotFoundIsTrueFor(r)

\* A PATCH answered 404 "order not found" found no order (order_handler.go:165).
PatchNotFoundIsTrue ==
  \A r \in Requests : reply[r] # NoReply /\ ask[r].op = "patch" => NotFoundIsTrueFor(r)

\* Nobody is shown an order that was deleted before they asked, however the
\* DELETE overlapped with the two statements of a PATCH.
DeletedStaysGone ==
  \A r \in Requests : Answered(r, 200) =>
    IF ask[r].op = "list" THEN reply[r].items \cap gone[r] = {}
    ELSE reply[r].id \notin gone[r]

\* Of all the DELETEs of an order, overlapping or not, one is answered 204.
OneDeleteWins ==
  \A r, s \in Requests :
    r # s /\ Answered(r, 204) /\ Answered(s, 204) => ask[r].id # ask[s].id

\* A 200 to PATCH shows what the request set, except in columns that another
\* PATCH set between its UPDATE and its SELECT.
PatchShowsItsWrite ==
  \A r \in Requests : Answered(r, 200) /\ ask[r].op = "patch" =>
    \A c \in DOMAIN UpdatesOf(r) \ changed[r] : reply[r].row[c] = UpdatesOf(r)[c]

=============================================================================
