---------------------------- MODULE OrdersProofs ----------------------------
(***************************************************************************)
(* Proofs about Orders, for any number of overlapping requests of both     *)
(* services, any columns' values and any clocks: its types, and what 404,  *)
(* 204 and a PATCH's 200 say is true; and about OrderPages, for any filter *)
(* and page size: what a walk through the pages of a list can miss.        *)
(***************************************************************************)
EXTENDS OrderPages, FiniteSetTheorems, TLAPS

\* Where a handler is, what it was asked and what it has replied agree.
Pending ==
  \A r \in Requests :
    /\ pc[r] # "done" => reply[r] = NoReply
    /\ pc[r] # "idle" => ask[r] \in Asks
    /\ pc[r] = "inserted" => ask[r].op = "create"
    /\ pc[r] = "updated" => ask[r].op = "patch"

\* An id that is drawn has no row before its COMMIT, and is drawn once.
DrawnIsFree ==
  /\ \A i \in Ids : orders[i] # NoRow => i < nextId
  /\ \A r \in Requests : pc[r] = "inserted" =>
       /\ drawn[r] \in Ids /\ drawn[r] < nextId /\ orders[drawn[r]] = NoRow
       /\ \A s \in Requests \ {r} : pc[s] = "inserted" => drawn[s] # drawn[r]

Deleted(i) == orders[i] # NoRow /\ orders[i].deleted

\* The histories of r speak of rows that are there.
HistoryIsTrue(r) ==
  /\ \A i \in born[r] : orders[i] # NoRow
  /\ \A i \in gone[r] : Deleted(i)

\* What the reply of r says of the table stays true.
ReplyIsTrue(r) ==
  /\ Answered(r, 201) => orders[reply[r].id] # NoRow
  /\ Answered(r, 204) => ask[r].op = "delete" /\ Deleted(ask[r].id)
  /\ Answered(r, 404) /\ ask[r].op \in {"get", "delete"} /\ ask[r].id \in born[r] =>
       Deleted(ask[r].id)
  /\ Answered(r, 200) =>
       IF ask[r].op = "list" THEN reply[r].items \cap gone[r] = {} ELSE reply[r].id \notin gone[r]

\* Columns that r has set and nobody else since.
WriteIsThere(r) ==
  pc[r] = "updated" =>
    /\ orders[ask[r].id] # NoRow
    /\ \A c \in DOMAIN UpdatesOf(r) \ changed[r] : orders[ask[r].id][c] = UpdatesOf(r)[c]

ReplyShowsWrite(r) ==
  Answered(r, 200) /\ ask[r].op = "patch" =>
    \A c \in DOMAIN UpdatesOf(r) \ changed[r] : reply[r].row[c] = UpdatesOf(r)[c]

IInv ==
  /\ TypeOK /\ Pending /\ DrawnIsFree
  /\ \A r \in Requests : HistoryIsTrue(r) /\ ReplyIsTrue(r) /\ WriteIsThere(r) /\ ReplyShowsWrite(r)

---------------------------------------------------------------------------
(* Data.                                                                   *)

LEMMA AskShapes ==
  ASSUME NEW q \in Asks
  PROVE  /\ q.op \in {"invalid", "create", "get", "delete", "patch", "list"}
         /\ q.op \in {"get", "delete", "patch"} => q.id \in Ids
         /\ q.op = "create" => q.region \in Regions
         /\ q.op = "patch" => q.set \in Sets
         /\ q.op = "list" => /\ q.limit \in Int \cup {Absent} /\ q.offset \in Int \cup {Absent}
                             /\ q.tag \in {"v1", "v2", "v3"}
BY OrdersAssumption DEF Questions

LEMMA UpdatesTyped ==
  ASSUME NEW r \in Requests, ask[r] \in Asks, ask[r].op = "patch"
  PROVE  /\ DOMAIN UpdatesOf(r) \subseteq Columns
         /\ "order_status" \in DOMAIN UpdatesOf(r) => UpdatesOf(r)["order_status"] \in Statuses
         /\ "region" \in DOMAIN UpdatesOf(r) => UpdatesOf(r)["region"] \in Regions
<1>1. ask[r].set \in Sets
  BY AskShapes
<1>2. /\ DOMAIN ask[r].set \subseteq Columns
      /\ "order_status" \in DOMAIN ask[r].set => ask[r].set["order_status"] \in Statuses
      /\ "region" \in DOMAIN ask[r].set => ask[r].set["region"] \in Regions
  BY <1>1 DEF Sets
<1> QED
  BY <1>2 DEF UpdatesOf, PaymentSet, InventorySet

LEMMA UpdatedRow ==
  ASSUME NEW row \in Rows, NEW u, NEW t \in Stamps, DOMAIN u \subseteq Columns,
         "order_status" \in DOMAIN u => u["order_status"] \in Statuses,
         "region" \in DOMAIN u => u["region"] \in Regions
  PROVE  /\ Updated(row, u, t) \in Rows
         /\ Updated(row, u, t).deleted = row.deleted
         /\ \A c \in DOMAIN u : Updated(row, u, t)[c] = u[c]
         /\ \A c \in Columns \ DOMAIN u : Updated(row, u, t)[c] = row[c]
BY DEF Updated, Rows, Columns

LEMMA NewRow ==
  ASSUME NEW g \in Regions, NEW t \in Stamps
  PROVE  NewOrder(g, t) \in Rows /\ ~NewOrder(g, t).deleted
BY OrdersAssumption DEF NewOrder, Rows

LEMMA LimitInt ==
  ASSUME NEW raw \in Int \cup {Absent}
  PROVE  Limit(raw) \in Int /\ IntWithDefault(raw, 0) \in Int
BY OrdersAssumption DEF Limit, IntWithDefault

---------------------------------------------------------------------------
(* What every step of a handler keeps.                                     *)

\* No row disappears, or is deleted no more.
RowsKept == \A i \in Ids : /\ orders[i] # NoRow => orders'[i] # NoRow
                           /\ Deleted(i) => Deleted(i)'

\* Only r moves.
OnlyMoves(r) ==
  \A s \in Requests \ {r} :
    /\ pc'[s] = pc[s] /\ ask'[s] = ask[s] /\ drawn'[s] = drawn[s]
    /\ reply'[s] = reply[s] /\ born'[s] = born[s] /\ gone'[s] = gone[s]

LEMMA OthersStayTrue ==
  ASSUME IInv, NEW r \in Requests, OnlyMoves(r), RowsKept, NEW s \in Requests \ {r}
  PROVE  HistoryIsTrue(s)' /\ ReplyIsTrue(s)'
<1>1. born[s] \subseteq Ids /\ gone[s] \subseteq Ids
  BY DEF IInv, TypeOK
<1>2. HistoryIsTrue(s)'
  BY <1>1 DEF IInv, HistoryIsTrue, OnlyMoves, RowsKept
<1>3. Answered(s, 201) => reply[s].id \in Ids
  BY DEF IInv, TypeOK, Replies, Answered
<1>4. Answered(s, 204) => ask[s].id \in Ids
  BY AskShapes DEF IInv, Pending, ReplyIsTrue, Answered
<1>5. Answered(s, 404) /\ ask[s].id \in born[s] => ask[s].id \in Ids
  BY <1>1
<1> QED
  BY <1>1, <1>2, <1>3, <1>4, <1>5 DEF IInv, ReplyIsTrue, OnlyMoves, RowsKept, Answered

\* The same for what concerns the row that r has updated.
LEMMA OthersKeepTheirWrite ==
  ASSUME IInv, NEW r \in Requests, OnlyMoves(r), NEW s \in Requests \ {r},
         changed'[s] = changed[s],
         orders[ask[s].id] # NoRow =>
           /\ orders'[ask[s].id] # NoRow
           /\ \A c \in Columns : orders'[ask[s].id][c] = orders[ask[s].id][c]
  PROVE  WriteIsThere(s)' /\ ReplyShowsWrite(s)'
<1>1. UpdatesOf(s)' = UpdatesOf(s)
  BY DEF UpdatesOf, OnlyMoves
<1>2. pc[s] = "updated" => DOMAIN UpdatesOf(s) \subseteq Columns
  BY UpdatesTyped DEF IInv, Pending
<1>3. WriteIsThere(s)'
  BY <1>1, <1>2 DEF IInv, WriteIsThere, OnlyMoves
<1>4. ReplyShowsWrite(s)'
  BY <1>1 DEF IInv, ReplyShowsWrite, OnlyMoves, Answered
<1> QED
  BY <1>3, <1>4

\* Together: the other requests in a step that leaves the rows alone, or writes
\* one that another request has not updated.
LEMMA Others ==
  ASSUME IInv, NEW r \in Requests, OnlyMoves(r), RowsKept, UNCHANGED changed,
         \A i \in Ids : orders[i] # NoRow => \A c \in Columns : orders'[i][c] = orders[i][c]
  PROVE  \A s \in Requests \ {r} :
           HistoryIsTrue(s)' /\ ReplyIsTrue(s)' /\ WriteIsThere(s)' /\ ReplyShowsWrite(s)'
<1>1. SUFFICES ASSUME NEW s \in Requests \ {r}
               PROVE  WriteIsThere(s)' /\ ReplyShowsWrite(s)'
  BY OthersStayTrue
<1>2. CASE pc[s] = "updated"
  <2>1. ask[s].id \in Ids
    BY <1>2, AskShapes DEF IInv, Pending
  <2> QED
    BY <2>1, OthersKeepTheirWrite DEF RowsKept
<1>3. CASE pc[s] # "updated"
  BY <1>3 DEF IInv, OnlyMoves, WriteIsThere, ReplyShowsWrite, Answered, UpdatesOf
<1> QED
  BY <1>2, <1>3

\* A step that writes no row and draws no id.
Reads(r) ==
  /\ UNCHANGED <<rowVars, drawn, changed>>
  /\ OnlyMoves(r)
  /\ pc'[r] # "inserted"

LEMMA ReadsKeep ==
  ASSUME IInv, NEW r \in Requests, Reads(r), TypeOK', Pending',
         HistoryIsTrue(r)', ReplyIsTrue(r)', WriteIsThere(r)', ReplyShowsWrite(r)'
  PROVE  IInv'
<1>1. DrawnIsFree'
  BY DEF IInv, DrawnIsFree, Reads, OnlyMoves, rowVars
<1>2. RowsKept /\ UNCHANGED orders
  BY DEF Reads, RowsKept, Deleted, rowVars
<1> QED
  BY <1>1, <1>2, Others DEF IInv, Reads

---------------------------------------------------------------------------
(* The actions.                                                            *)

\* A handler that is at work replies.
AtWork(r) == pc[r] \in {"begun", "inserted", "updated"}

LEMMA AnswersKeep ==
  ASSUME IInv, NEW r \in Requests, AtWork(r), NEW a \in Replies, Answer(r, a),
         UNCHANGED <<rowVars, ask, drawn, histVars>>,
         a.code \notin {201, 204},
         a.code = 404 /\ ask[r].op \in {"get", "delete"} /\ ask[r].id \in born[r] => Deleted(ask[r].id),
         a.code = 200 => IF ask[r].op = "list" THEN a.items \cap gone[r] = {} ELSE a.id \notin gone[r],
         a.code = 200 /\ ask[r].op = "patch" =>
           \A c \in DOMAIN UpdatesOf(r) \ changed[r] : a.row[c] = UpdatesOf(r)[c]
  PROVE  IInv'
<1>1. /\ pc' = [pc EXCEPT ![r] = "done"] /\ reply' = [reply EXCEPT ![r] = a]
      /\ pc'[r] = "done" /\ reply'[r] = a
  BY DEF Answer, Goto, IInv, TypeOK
<1>2. UNCHANGED <<orders, nextId, ask, drawn, born, gone, changed>>
  BY DEF rowVars, histVars
<1>3. TypeOK'
  BY <1>1, <1>2 DEF IInv, TypeOK
<1>4. OnlyMoves(r) /\ Reads(r)
  BY <1>1, <1>2 DEF OnlyMoves, Reads, rowVars, IInv, TypeOK
<1>5. Pending'
  BY <1>1, <1>2 DEF IInv, Pending, TypeOK, AtWork
<1>6. HistoryIsTrue(r)' /\ WriteIsThere(r)'
  BY <1>1, <1>2 DEF IInv, HistoryIsTrue, Deleted, WriteIsThere
<1>7. ReplyIsTrue(r)'
  BY <1>1, <1>2 DEF ReplyIsTrue, Answered, Deleted
<1>8. UpdatesOf(r)' = UpdatesOf(r)
  BY <1>2 DEF UpdatesOf
<1>9. ReplyShowsWrite(r)'
  BY <1>1, <1>2, <1>8 DEF ReplyShowsWrite, Answered
<1> QED
  BY <1>3, <1>4, <1>5, <1>6, <1>7, <1>9, ReadsKeep

LEMMA ErrorsKeep ==
  ASSUME IInv, NEW r \in Requests, AtWork(r), NEW n \in {400, 404, 500}, Answer(r, [code |-> n]),
         UNCHANGED <<rowVars, ask, drawn, histVars>>,
         n = 404 => ask[r].op \notin {"get", "delete"} \/ ~Live(ask[r].id)
  PROVE  IInv'
<1> DEFINE a == [code |-> n]
<1>1. a \in Replies /\ a.code = n
  BY DEF Replies
<1>2. ASSUME n = 404, ask[r].op \in {"get", "delete"}, ask[r].id \in born[r] PROVE Deleted(ask[r].id)
  BY <1>2 DEF IInv, HistoryIsTrue, Deleted, Live
<1> QED
  BY <1>1, <1>2, AnswersKeep

LEMMA ArriveKeeps ==
  ASSUME IInv, NEW r \in Requests, Arrive(r)
  PROVE  IInv'
<1>1. PICK q \in Asks : ask' = [ask EXCEPT ![r] = q]
  BY DEF Arrive
<1>2. /\ pc' = [pc EXCEPT ![r] = "begun"] /\ pc[r] = "idle" /\ pc'[r] = "begun"
      /\ UNCHANGED <<orders, nextId, drawn, reply, changed>>
      /\ reply[r] = NoReply
  BY DEF Arrive, Goto, rowVars, IInv, TypeOK, Pending
<1>3. /\ born' = [born EXCEPT ![r] = born'[r]] /\ gone' = [gone EXCEPT ![r] = gone'[r]]
      /\ born'[r] = {i \in Ids : orders[i] # NoRow
                        \/ \E s \in Requests : Answered(s, 201) /\ reply[s].id = i}
      /\ gone'[r] = {i \in Ids : Deleted(i)}
  BY DEF Arrive, IInv, TypeOK, Deleted
<1>4. TypeOK'
  BY <1>1, <1>2, <1>3 DEF IInv, TypeOK
<1>5. Reads(r)
  BY <1>1, <1>2, <1>3 DEF Reads, OnlyMoves, rowVars, IInv, TypeOK
<1>6. Pending'
  BY <1>1, <1>2 DEF IInv, Pending, TypeOK
<1>7. HistoryIsTrue(r)'
  BY <1>2, <1>3 DEF IInv, HistoryIsTrue, ReplyIsTrue, Deleted
<1>8. ReplyIsTrue(r)' /\ WriteIsThere(r)' /\ ReplyShowsWrite(r)'
  BY <1>2 DEF ReplyIsTrue, WriteIsThere, ReplyShowsWrite, Answered
<1> QED
  BY <1>4, <1>5, <1>6, <1>7, <1>8, ReadsKeep

LEMMA CreateInsertKeeps ==
  ASSUME IInv, NEW r \in Requests, CreateInsert(r)
  PROVE  IInv'
<1>1. /\ pc' = [pc EXCEPT ![r] = "inserted"] /\ pc[r] = "begun" /\ pc'[r] = "inserted"
      /\ drawn' = [drawn EXCEPT ![r] = nextId] /\ drawn'[r] = nextId
      /\ nextId \in Ids /\ nextId' = nextId + 1
      /\ UNCHANGED <<orders, ask, reply, born, gone, changed>>
      /\ ask[r].op = "create" /\ ask[r] \in Asks /\ reply[r] = NoReply
  BY DEF CreateInsert, Asked, Goto, histVars, IInv, TypeOK, Pending
<1>2. TypeOK'
  BY <1>1, OrdersAssumption DEF IInv, TypeOK, Ids
<1>3. OnlyMoves(r) /\ RowsKept
  BY <1>1 DEF OnlyMoves, RowsKept, Deleted, IInv, TypeOK
<1>4. Pending'
  BY <1>1 DEF IInv, Pending, TypeOK
<1>5. orders[nextId] = NoRow /\ nextId < nextId' /\ \A i \in Ids : i < nextId => i < nextId'
  BY <1>1, OrdersAssumption DEF IInv, DrawnIsFree, Ids
<1>6. \A s \in Requests \ {r} : pc[s] = "inserted" => drawn[s] # nextId
  BY <1>1, OrdersAssumption DEF IInv, DrawnIsFree, Ids
<1>7. DrawnIsFree'
  BY <1>1, <1>3, <1>5, <1>6 DEF IInv, DrawnIsFree, OnlyMoves
<1>8. HistoryIsTrue(r)' /\ ReplyIsTrue(r)' /\ WriteIsThere(r)' /\ ReplyShowsWrite(r)'
  BY <1>1 DEF IInv, HistoryIsTrue, Deleted, ReplyIsTrue, WriteIsThere, ReplyShowsWrite, Answered
<1> QED
  BY <1>1, <1>2, <1>3, <1>4, <1>7, <1>8, Others DEF IInv

LEMMA CreateCommitKeeps ==
  ASSUME IInv, NEW r \in Requests, CreateCommit(r)
  PROVE  IInv'
<1> DEFINE i == drawn[r]
<1>1. PICK t \in Stamps : orders' = [orders EXCEPT ![i] = NewOrder(ask[r].region, t)]
  BY DEF CreateCommit
<1>2. /\ pc[r] = "inserted" /\ ask[r] \in Asks /\ ask[r].op = "create"
      /\ i \in Ids /\ orders[i] = NoRow /\ i < nextId
  BY DEF CreateCommit, IInv, Pending, DrawnIsFree
<1>3. NewOrder(ask[r].region, t) \in Rows
  BY <1>2, AskShapes, NewRow
<1>4. PICK a \in {[code |-> 201, id |-> i], [code |-> 500]} : Answer(r, a)
  BY DEF CreateCommit
<1>5. /\ a \in Replies /\ a.code \in {201, 500}
      /\ a.code = 201 => a.id = i
  BY <1>2, <1>4 DEF Replies
<1>6. /\ pc' = [pc EXCEPT ![r] = "done"] /\ reply' = [reply EXCEPT ![r] = a]
      /\ pc'[r] = "done" /\ reply'[r] = a
      /\ UNCHANGED <<nextId, ask, drawn, born, gone, changed>>
  BY <1>4 DEF CreateCommit, Answer, Goto, histVars, IInv, TypeOK
<1>7. TypeOK'
  <2>1. orders' \in [Ids -> Rows \cup {NoRow}]
    BY <1>1, <1>3 DEF IInv, TypeOK
  <2>2. reply' \in [Requests -> Replies \cup {NoReply}]
    BY <1>5, <1>6 DEF IInv, TypeOK
  <2>3. pc' \in [Requests -> {"idle", "begun", "inserted", "updated", "done"}]
    BY <1>6 DEF IInv, TypeOK
  <2> QED
    BY <1>6, <2>1, <2>2, <2>3 DEF IInv, TypeOK
<1>8. orders'[i] # NoRow /\ \A j \in Ids \ {i} : orders'[j] = orders[j]
  BY <1>1, <1>2, <1>3, OrdersAssumption DEF IInv, TypeOK
<1>9. OnlyMoves(r) /\ RowsKept
  BY <1>2, <1>6, <1>8 DEF OnlyMoves, RowsKept, Deleted, IInv, TypeOK
<1>10. Pending'
  BY <1>2, <1>6 DEF IInv, Pending, TypeOK
<1>11. DrawnIsFree'
  BY <1>2, <1>6, <1>8, <1>9 DEF IInv, DrawnIsFree, OnlyMoves
<1>12. HistoryIsTrue(r)'
  BY <1>6, <1>9 DEF IInv, HistoryIsTrue, RowsKept, TypeOK
<1>13. ReplyIsTrue(r)' /\ WriteIsThere(r)' /\ ReplyShowsWrite(r)'
  BY <1>5, <1>6, <1>8 DEF ReplyIsTrue, WriteIsThere, ReplyShowsWrite, Answered
<1> QED
  BY <1>2, <1>6, <1>7, <1>8, <1>9, <1>10, <1>11, <1>12, <1>13, Others DEF IInv

LEMMA GetKeeps ==
  ASSUME IInv, NEW r \in Requests, Get(r)
  PROVE  IInv'
<1> DEFINE i == ask[r].id
           a == [code |-> 200, id |-> i, row |-> orders[i]]
<1>1. AtWork(r) /\ ask[r].op = "get" /\ i \in Ids
  BY AskShapes DEF Get, Asked, AtWork, IInv, Pending
<1>2. CASE Live(i)
  <2>1. a \in Replies
    BY <1>1, <1>2 DEF Replies, Live, IInv, TypeOK
  <2>2. i \notin gone[r]
    BY <1>2 DEF IInv, HistoryIsTrue, Deleted, Live
  <2>3. a.code = 200 /\ a.id = i
    OBVIOUS
  <2> QED
    BY <1>1, <1>2, <2>1, <2>2, <2>3, AnswersKeep DEF Get
<1>3. CASE ~Live(i)
  BY <1>1, <1>3, ErrorsKeep DEF Get
<1> QED
  BY <1>2, <1>3

LEMMA PageIsLive ==
  ASSUME NEW v, NEW n, NEW o, NEW i \in Page(Matching(v), n, o)
  PROVE  i \in Ids /\ Live(i)
BY DEF Page, Matching

LEMMA ListKeeps ==
  ASSUME IInv, NEW r \in Requests, NEW tag, ListPage(r, tag)
  PROVE  IInv'
<1> DEFINE q == ask[r]
           n == Limit(q.limit)
           o == IntWithDefault(q.offset, 0)
           a == [code |-> 200, tag |-> tag, limit |-> n, offset |-> o,
                 items |-> Page(Matching(q.status), n, o)]
<1>1. AtWork(r) /\ q \in Asks /\ q.op = "list" /\ tag \in {"v1", "v2", "v3"}
  BY AskShapes DEF ListPage, Asked, AtWork, IInv, Pending
<1>2. CASE n < 0 /\ o > 0
  BY <1>1, <1>2, ErrorsKeep DEF ListPage
<1>3. CASE ~(n < 0 /\ o > 0)
  <2>1. n \in Int /\ o \in Int
    BY <1>1, AskShapes, LimitInt
  <2>2. Page(Matching(q.status), n, o) \in SUBSET Ids
    BY PageIsLive
  <2>3. a \in Replies
    BY <1>1, <2>1, <2>2 DEF Replies
  <2>4. Page(Matching(q.status), n, o) \cap gone[r] = {}
    BY PageIsLive DEF IInv, HistoryIsTrue, Deleted, Live
  <2>5. a.code = 200 /\ a.items = Page(Matching(q.status), n, o)
    OBVIOUS
  <2>6. Answer(r, a) /\ UNCHANGED <<rowVars, ask, drawn, histVars>>
    BY <1>3 DEF ListPage
  <2> HIDE DEF a
  <2> QED
    BY <1>1, <2>3, <2>4, <2>5, <2>6, AnswersKeep
<1> QED
  BY <1>2, <1>3

LEMMA DeleteKeeps ==
  ASSUME IInv, NEW r \in Requests, Delete(r)
  PROVE  IInv'
<1> DEFINE i == ask[r].id
<1>1. /\ AtWork(r) /\ ask[r].op = "delete" /\ ask[r] \in Asks /\ i \in Ids
      /\ pc[r] = "begun"
  BY AskShapes DEF Delete, Asked, AtWork, IInv, Pending
<1>2. CASE ~Live(i)
  <2>1. Answer(r, [code |-> 404]) /\ UNCHANGED <<rowVars, ask, drawn, histVars>>
    BY <1>2 DEF Delete, rowVars
  <2>2. Answer(r, [code |-> 404])
    BY <2>1
  <2>3. UNCHANGED <<rowVars, ask, drawn, histVars>>
    BY <2>1
  <2> QED
    BY <1>1, <1>2, <2>2, <2>3, ErrorsKeep
<1>3. CASE Live(i)
  <2>1. PICK n \in {204, 500} :
          orders' = [orders EXCEPT ![i].deleted = TRUE] /\ Answer(r, [code |-> n])
    BY <1>3 DEF Delete
  <2>2. /\ pc' = [pc EXCEPT ![r] = "done"] /\ reply' = [reply EXCEPT ![r] = [code |-> n]]
        /\ pc'[r] = "done" /\ reply'[r] = [code |-> n]
        /\ UNCHANGED <<nextId, ask, drawn, born, gone, changed>>
    BY <2>1 DEF Delete, Answer, Goto, histVars, IInv, TypeOK
  <2>3. orders[i] \in Rows
    BY <1>1, <1>3 DEF IInv, TypeOK, Live
  <2>4. /\ orders'[i] \in Rows /\ orders'[i].deleted
        /\ \A c \in Columns : orders'[i][c] = orders[i][c]
        /\ \A j \in Ids \ {i} : orders'[j] = orders[j]
        /\ orders' \in [Ids -> Rows \cup {NoRow}]
    <3>1. orders' = [orders EXCEPT ![i].deleted = TRUE]
      BY <2>1
    <3>2. orders \in [Ids -> Rows \cup {NoRow}]
      BY DEF IInv, TypeOK
    <3> DEFINE x == [orders[i] EXCEPT !.deleted = TRUE]
    <3>3. x \in Rows /\ x.deleted /\ \A c \in Columns : x[c] = orders[i][c]
      BY <2>3 DEF Rows, Columns
    <3>4. i \in Ids /\ orders' = [orders EXCEPT ![i] = x]
      BY <1>1, <3>1
    <3> HIDE DEF x, i
    <3> QED
      BY <3>2, <3>3, <3>4
  <2>5. orders'[i] # NoRow
    BY <2>4, OrdersAssumption
  <2>6. TypeOK'
    <3>1. reply' \in [Requests -> Replies \cup {NoReply}]
      BY <2>2 DEF IInv, TypeOK, Replies
    <3> QED
      BY <2>2, <2>4, <3>1 DEF IInv, TypeOK
  <2>7. OnlyMoves(r) /\ RowsKept
    BY <1>1, <2>2, <2>4, <2>5 DEF OnlyMoves, RowsKept, Deleted, IInv, TypeOK
  <2>8. Pending'
    BY <1>1, <2>2 DEF IInv, Pending, TypeOK
  <2>9. DrawnIsFree'
    BY <1>3, <2>2, <2>4, <2>7 DEF IInv, DrawnIsFree, OnlyMoves, Live
  <2>10. HistoryIsTrue(r)'
    BY <2>2, <2>7 DEF IInv, HistoryIsTrue, RowsKept, TypeOK
  <2>11. ReplyIsTrue(r)' /\ WriteIsThere(r)' /\ ReplyShowsWrite(r)'
    BY <1>1, <2>2, <2>4, <2>5 DEF ReplyIsTrue, WriteIsThere, ReplyShowsWrite, Answered, Deleted
  <2>12. \A j \in Ids : orders[j] # NoRow => \A c \in Columns : orders'[j][c] = orders[j][c]
    BY <2>4
  <2> QED
    BY <2>2, <2>6, <2>7, <2>8, <2>9, <2>10, <2>11, <2>12, Others DEF IInv
<1> QED
  BY <1>2, <1>3

LEMMA PatchReadKeeps ==
  ASSUME IInv, NEW r \in Requests, PatchRead(r)
  PROVE  IInv'
<1> DEFINE i == ask[r].id
           a == [code |-> 200, id |-> i, row |-> orders[i]]
<1>1. AtWork(r) /\ pc[r] = "updated" /\ ask[r].op = "patch" /\ i \in Ids
  BY AskShapes DEF PatchRead, AtWork, IInv, Pending
<1>2. CASE Live(i)
  <2>1. a \in Replies
    BY <1>1, <1>2 DEF Replies, Live, IInv, TypeOK
  <2>2. i \notin gone[r]
    BY <1>2 DEF IInv, HistoryIsTrue, Deleted, Live
  <2>3. a.code = 200 /\ a.id = i /\ a.row = orders[i]
    OBVIOUS
  <2>4. \A c \in DOMAIN UpdatesOf(r) \ changed[r] : orders[i][c] = UpdatesOf(r)[c]
    BY <1>1 DEF IInv, WriteIsThere
  <2>5. Answer(r, a) /\ UNCHANGED <<rowVars, ask, drawn, histVars>>
    BY <1>2 DEF PatchRead
  <2> HIDE DEF a
  <2> QED
    BY <1>1, <2>1, <2>2, <2>3, <2>4, <2>5, AnswersKeep
<1>3. CASE ~Live(i)
  BY <1>1, <1>3, ErrorsKeep DEF PatchRead
<1> QED
  BY <1>2, <1>3

\* PatchUpdate that writes: r has updated its row, and others are told.
LEMMA PatchWriteKeeps ==
  ASSUME IInv, NEW r \in Requests, pc[r] = "begun", ask[r].op = "patch", Live(ask[r].id),
         NEW t \in Stamps,
         orders' = [orders EXCEPT ![ask[r].id] = Updated(@, UpdatesOf(r), t)],
         changed' = [s \in Requests |->
                       IF pc[s] = "updated" /\ ask[s].id = ask[r].id
                         THEN changed[s] \cup DOMAIN UpdatesOf(r) ELSE changed[s]],
         Goto(r, "updated"),
         UNCHANGED <<reply, nextId, ask, drawn, born, gone>>
  PROVE  IInv'
<1> DEFINE i == ask[r].id
           u == UpdatesOf(r)
<1>1. ask[r] \in Asks /\ i \in Ids /\ orders[i] \in Rows /\ reply[r] = NoReply
  BY AskShapes DEF IInv, Pending, TypeOK, Live
<1>2. DOMAIN u \subseteq Columns
  BY <1>1, UpdatesTyped
<1>3. /\ orders'[i] \in Rows /\ orders'[i].deleted = orders[i].deleted
      /\ \A c \in DOMAIN u : orders'[i][c] = u[c]
      /\ \A c \in Columns \ DOMAIN u : orders'[i][c] = orders[i][c]
  BY <1>1, UpdatesTyped, UpdatedRow DEF IInv, TypeOK
<1>4. orders'[i] # NoRow /\ \A j \in Ids \ {i} : orders'[j] = orders[j]
  BY <1>1, <1>3, OrdersAssumption DEF IInv, TypeOK
<1>5. pc' = [pc EXCEPT ![r] = "updated"] /\ pc'[r] = "updated"
  BY DEF Goto, IInv, TypeOK
<1>6. TypeOK'
  <2>1. orders' \in [Ids -> Rows \cup {NoRow}]
    BY <1>3 DEF IInv, TypeOK
  <2>2. changed' \in [Requests -> SUBSET Columns]
    BY <1>2 DEF IInv, TypeOK
  <2> QED
    BY <1>5, <2>1, <2>2 DEF IInv, TypeOK
<1>7. OnlyMoves(r) /\ RowsKept
  BY <1>1, <1>3, <1>4, <1>5 DEF OnlyMoves, RowsKept, Deleted, IInv, TypeOK
<1>8. Pending'
  BY <1>1, <1>5 DEF IInv, Pending, TypeOK
<1>9. DrawnIsFree'
  BY <1>3, <1>4, <1>5, <1>7 DEF IInv, DrawnIsFree, OnlyMoves, Live
<1>10. HistoryIsTrue(r)'
  BY <1>7 DEF IInv, HistoryIsTrue, RowsKept, TypeOK
<1>11. ReplyIsTrue(r)' /\ ReplyShowsWrite(r)'
  BY <1>1 DEF ReplyIsTrue, ReplyShowsWrite, Answered
<1>12. UpdatesOf(r)' = u
  BY DEF UpdatesOf
<1>13. WriteIsThere(r)'
  BY <1>3, <1>4, <1>12 DEF WriteIsThere
<1>14. ASSUME NEW s \in Requests \ {r} PROVE WriteIsThere(s)' /\ ReplyShowsWrite(s)'
  <2>1. CASE pc[s] = "updated" /\ ask[s].id = i
    <3>1. UpdatesOf(s)' = UpdatesOf(s) /\ changed'[s] = changed[s] \cup DOMAIN u
      BY <2>1 DEF UpdatesOf
    <3>2. DOMAIN UpdatesOf(s) \subseteq Columns
      BY <2>1, UpdatesTyped DEF IInv, Pending
    <3>3. WriteIsThere(s)'
      BY <1>3, <1>4, <2>1, <3>1, <3>2 DEF IInv, WriteIsThere
    <3>4. ReplyShowsWrite(s)'
      BY <2>1, <1>7 DEF ReplyShowsWrite, Answered, OnlyMoves, IInv, Pending
    <3> QED
      BY <3>3, <3>4
  <2>2. CASE pc[s] = "updated" /\ ask[s].id # i
    <3>1. ask[s].id \in Ids
      BY <2>2, AskShapes DEF IInv, Pending
    <3> QED
      BY <1>4, <1>7, <2>2, <3>1, OthersKeepTheirWrite
  <2>3. CASE pc[s] # "updated"
    BY <2>3, <1>7 DEF IInv, OnlyMoves, WriteIsThere, ReplyShowsWrite, Answered, UpdatesOf
  <2> QED
    BY <2>1, <2>2, <2>3
<1> QED
  BY <1>6, <1>7, <1>8, <1>9, <1>10, <1>11, <1>13, <1>14, OthersStayTrue DEF IInv

LEMMA PatchUpdateKeeps ==
  ASSUME IInv, NEW r \in Requests, PatchUpdate(r)
  PROVE  IInv'
<1>1. AtWork(r) /\ pc[r] = "begun" /\ ask[r].op = "patch"
  BY DEF PatchUpdate, Asked, AtWork
<1>2. CASE UNCHANGED <<orders, changed>> /\ \E n \in {400, 404} : Answer(r, [code |-> n])
  BY <1>1, <1>2, ErrorsKeep DEF PatchUpdate, rowVars, histVars
<1>3. CASE \E t \in Stamps :
             /\ Live(ask[r].id)
             /\ orders' = [orders EXCEPT ![ask[r].id] = Updated(@, UpdatesOf(r), t)]
             /\ changed' = [s \in Requests |->
                  IF pc[s] = "updated" /\ ask[s].id = ask[r].id
                    THEN changed[s] \cup DOMAIN UpdatesOf(r) ELSE changed[s]]
             /\ Goto(r, "updated") /\ UNCHANGED reply
  BY <1>1, <1>3, PatchWriteKeeps DEF PatchUpdate
<1> QED
  BY <1>2, <1>3 DEF PatchUpdate

LEMMA InitInv == Init => IInv
<1> SUFFICES ASSUME Init PROVE IInv
  OBVIOUS
<1>1. PICK g \in Regions, t \in Stamps :
        orders = [i \in Ids |-> IF i <= Dumped THEN NewOrder(g, t) ELSE NoRow]
  BY DEF Init
<1>2. TypeOK
  BY <1>1, NewRow, OrdersAssumption DEF Init, TypeOK, Ids
<1>3. Pending /\ DrawnIsFree
  BY <1>1, OrdersAssumption DEF Init, Pending, DrawnIsFree, Ids
<1>4. \A r \in Requests : HistoryIsTrue(r) /\ ReplyIsTrue(r) /\ WriteIsThere(r) /\ ReplyShowsWrite(r)
  BY DEF Init, HistoryIsTrue, ReplyIsTrue, WriteIsThere, ReplyShowsWrite, Answered
<1> QED
  BY <1>2, <1>3, <1>4 DEF IInv

LEMMA NextInv == IInv /\ [Next]_vars => IInv'
<1> SUFFICES ASSUME IInv, [Next]_vars PROVE IInv'
  OBVIOUS
<1>1. CASE UNCHANGED vars
  BY <1>1 DEF vars, rowVars, histVars, IInv, TypeOK, Pending, DrawnIsFree, HistoryIsTrue, Deleted,
     ReplyIsTrue, WriteIsThere, ReplyShowsWrite, Answered, UpdatesOf
<1>2. ASSUME NEW r \in Requests, Arrive(r) \/ Handle(r) PROVE IInv'
  <2>1. CASE Refuse(r)
    BY <2>1, ErrorsKeep DEF Refuse, Asked, AtWork
  <2>2. CASE Fail(r)
    BY <2>2, ErrorsKeep DEF Fail, AtWork
  <2>3. CASE List(r) \/ Listv2(r) \/ Listv3(r)
    BY <2>3, ListKeeps DEF List, Listv2, Listv3
  <2> QED
    BY <1>2, <2>1, <2>2, <2>3, ArriveKeeps, CreateInsertKeeps, CreateCommitKeeps, GetKeeps,
       PatchUpdateKeeps, PatchReadKeeps, DeleteKeeps DEF Handle
<1> QED
  BY <1>1, <1>2 DEF Next

LEMMA Invariance == Spec => []IInv
BY InitInv, NextInv, PTL DEF Spec

\* A reply with another code than 204.
LEMMA OtherAnswer ==
  ASSUME TypeOK, NEW r \in Requests, NEW a, a.code # 204, Answer(r, a)
  PROVE  ~Answered(r, 204)'
<1>1. reply'[r] = a
  BY DEF TypeOK, Answer
<1> QED
  BY <1>1 DEF Answered

\* A 204 comes from a DELETE that found a row, and a row is found once.
LEMMA NewNoContent ==
  ASSUME IInv, NEW r \in Requests, Arrive(r) \/ Handle(r), Answered(r, 204)'
  PROVE  ask' = ask /\ Live(ask[r].id)
<1>1. TypeOK /\ (pc[r] # "done" => reply[r] = NoReply)
  BY DEF IInv, Pending
<1>2. CASE Arrive(r) \/ CreateInsert(r)
  BY <1>1, <1>2 DEF Arrive, CreateInsert, Asked, Answered
<1>3. CASE Refuse(r)
  BY <1>1, <1>3, OtherAnswer DEF Refuse
<1>4. CASE Fail(r)
  BY <1>1, <1>4, OtherAnswer DEF Fail
<1>5. CASE CreateCommit(r)
  BY <1>1, <1>5, OtherAnswer DEF CreateCommit
<1>6. CASE Get(r)
  BY <1>1, <1>6, OtherAnswer DEF Get
<1>7. CASE PatchRead(r)
  BY <1>1, <1>7, OtherAnswer DEF PatchRead
<1>8. CASE PatchUpdate(r)
  <2>1. CASE \E n \in {400, 404} : Answer(r, [code |-> n])
    BY <1>1, <2>1, OtherAnswer
  <2>2. CASE UNCHANGED reply
    BY <1>1, <1>8, <2>2 DEF PatchUpdate, Asked, Answered
  <2> QED
    BY <1>8, <2>1, <2>2 DEF PatchUpdate
<1>9. CASE Delete(r)
  BY <1>1, <1>9, OtherAnswer DEF Delete
<1>10. CASE \E tag \in {"v1", "v2", "v3"} : ListPage(r, tag)
  BY <1>1, <1>10, OtherAnswer DEF ListPage
<1> QED
  BY <1>2, <1>3, <1>4, <1>5, <1>6, <1>7, <1>8, <1>9, <1>10 DEF Handle, List, Listv2, Listv3

LEMMA OneDeleteKeeps == IInv /\ OneDeleteWins /\ [Next]_vars => OneDeleteWins'
<1> SUFFICES ASSUME IInv, OneDeleteWins, [Next]_vars PROVE OneDeleteWins'
  OBVIOUS
<1>1. CASE UNCHANGED vars
  BY <1>1 DEF vars, OneDeleteWins, Answered
<1>2. ASSUME NEW r \in Requests, Arrive(r) \/ Handle(r) PROVE OneDeleteWins'
  <2>1. \A s \in Requests \ {r} : reply'[s] = reply[s] /\ ask'[s] = ask[s]
    BY <1>2 DEF IInv, TypeOK, Arrive, Handle, Refuse, CreateInsert, CreateCommit, Get, List, Listv2,
       Listv3, ListPage, PatchUpdate, PatchRead, Delete, Fail, Answer
  <2>2. ASSUME NEW s \in Requests \ {r}, Answered(r, 204)', Answered(s, 204)'
        PROVE  ask'[r].id # ask'[s].id
    <3>1. Answered(s, 204) /\ Deleted(ask[s].id)
      BY <2>1, <2>2 DEF Answered, IInv, ReplyIsTrue
    <3>2. ask' = ask /\ Live(ask[r].id)
      BY <1>2, <2>2, NewNoContent
    <3> QED
      BY <3>1, <3>2 DEF Live, Deleted
  <2>3. ASSUME NEW s \in Requests \ {r}, NEW q \in Requests \ {r}, s # q,
               Answered(s, 204)', Answered(q, 204)'
        PROVE  ask'[s].id # ask'[q].id
    BY <2>1, <2>3 DEF OneDeleteWins, Answered
  <2> QED
    BY <2>2, <2>3 DEF OneDeleteWins
<1> QED
  BY <1>1, <1>2 DEF Next

---------------------------------------------------------------------------
(* A walk through the pages.                                               *)

\* The rows of S that are listed before i, newest first.
Later(i, S) == {j \in S : j > i}

\* How many rows of S are listed before i: i is on the page of that offset.
RankIn(i, S) == Cardinality(Later(i, S))

\* While a walk is under way, MissesOnlyForRemoved says nothing: what has to hold
\* is that the rows it will miss, those it has passed and not been given, are no
\* more than have left the list.
WalkInv ==
  /\ stayed \subseteq Ids /\ removed \in Nat
  /\ IF offset = NoReply THEN Cardinality(stayed \ seen) <= removed
     ELSE /\ offset \in Nat /\ stayed \subseteq Matching(Filter)
          /\ Cardinality({i \in stayed \ seen : RankIn(i, Matching(Filter)) < offset}) <= removed

\* Sets of ids are finite.
LEMMA IdsCount ==
  ASSUME NEW S \in SUBSET Ids
  PROVE  IsFiniteSet(S) /\ Cardinality(S) \in Nat
<1>1. IsFiniteSet(Ids)
  BY OrdersAssumption, FS_Interval DEF Ids
<1> QED
  BY <1>1, FS_Subset, FS_CardinalityType

LEMMA RankType ==
  ASSUME NEW S \in SUBSET Ids, NEW i
  PROVE  Later(i, S) \in SUBSET Ids /\ RankIn(i, S) \in Nat
<1>1. Later(i, S) \in SUBSET Ids
  BY DEF Later
<1> QED
  BY <1>1, IdsCount DEF RankIn

\* Of two rows the earlier has the greater rank.
LEMMA RankOrder ==
  ASSUME NEW S \in SUBSET Ids, NEW i \in S, NEW j \in S, i < j
  PROVE  RankIn(j, S) < RankIn(i, S)
<1>1. i \in Int /\ j \in Int /\ \A k \in S : k \in Int
  BY DEF Ids
<1>2. Later(j, S) \cup {j} \in SUBSET Later(i, S) /\ j \notin Later(j, S)
  <2>1. \A k \in Later(j, S) : k \in S /\ k \in Int /\ k > j
    BY <1>1 DEF Later
  <2>2. \A k \in Later(j, S) \cup {j} : k \in S /\ k > i
    BY <1>1, <2>1
  <2>3. Later(j, S) \cup {j} \subseteq Later(i, S)
    <3> SUFFICES ASSUME NEW k \in Later(j, S) \cup {j} PROVE k \in Later(i, S)
      OBVIOUS
    <3> QED
      BY <2>2 DEF Later
  <2>4. j \notin Later(j, S)
    BY <1>1 DEF Later
  <2> QED
    BY <2>3, <2>4
<1>3. IsFiniteSet(Later(i, S)) /\ IsFiniteSet(Later(j, S))
  BY IdsCount, RankType
<1>4. Cardinality(Later(j, S) \cup {j}) = RankIn(j, S) + 1
  BY <1>2, <1>3, FS_AddElement DEF RankIn
<1>5. Cardinality(Later(j, S) \cup {j}) <= RankIn(i, S)
  BY <1>2, <1>3, FS_Subset DEF RankIn
<1>6. RankIn(i, S) \in Nat /\ RankIn(j, S) \in Nat
  BY RankType
<1> QED
  BY <1>4, <1>5, <1>6

\* No two rows share a rank.
LEMMA RankInjective ==
  ASSUME NEW S \in SUBSET Ids, NEW i \in S, NEW j \in S, RankIn(i, S) = RankIn(j, S)
  PROVE  i = j
<1>1. i \in Int /\ j \in Int
  BY DEF Ids
<1>2. RankIn(i, S) \in Nat /\ RankIn(j, S) \in Nat
  BY RankType
<1>3. ~(i < j) /\ ~(j < i)
  BY <1>2, RankOrder
<1> QED
  BY <1>1, <1>3

\* Ranks are smaller than the list is long.
LEMMA RankBelow ==
  ASSUME NEW S \in SUBSET Ids, NEW i \in S
  PROVE  RankIn(i, S) < Cardinality(S)
<1>1. Later(i, S) \in SUBSET (S \ {i})
  BY DEF Later, Ids
<1>2. /\ IsFiniteSet(S) /\ Cardinality(S) \in Nat
      /\ IsFiniteSet(S \ {i}) /\ Cardinality(S \ {i}) = Cardinality(S) - 1
  BY IdsCount, FS_RemoveElement
<1>3. RankIn(i, S) <= Cardinality(S \ {i})
  BY <1>1, <1>2, FS_Subset DEF RankIn
<1> QED
  BY <1>2, <1>3, RankType

\* Rows whose ranks lie in an interval are no more than the interval is long.
LEMMA RanksBound ==
  ASSUME NEW S \in SUBSET Ids, NEW D \in SUBSET S, NEW a \in Nat, NEW n \in Nat,
         \A i \in D : a <= RankIn(i, S) /\ RankIn(i, S) < a + n
  PROVE  Cardinality(D) <= n
<1> DEFINE f == [i \in D |-> RankIn(i, S)]
<1>1. f \in [D -> a..(a + n - 1)]
  <2>1. \A i \in D : RankIn(i, S) \in Nat
    BY RankType
  <2>2. \A i \in D : RankIn(i, S) \in a..(a + n - 1)
    BY <2>1
  <2> QED
    BY <2>2
<1>2. \A i, j \in D : f[i] = f[j] => i = j
  BY RankInjective
<1>3. f \in Injection(D, a..(a + n - 1))
  BY <1>1, <1>2 DEF Injection, IsInjective
<1>4. IsFiniteSet(a..(a + n - 1)) /\ Cardinality(a..(a + n - 1)) = n
  BY FS_Interval
<1> QED
  BY <1>3, <1>4, FS_Injection

\* No rank is left out.
LEMMA RanksFill ==
  ASSUME NEW S \in SUBSET Ids, NEW m \in Nat, m < Cardinality(S)
  PROVE  \E i \in S : RankIn(i, S) = m
<1> DEFINE c == Cardinality(S)
           f == [i \in S |-> RankIn(i, S)]
<1>1. IsFiniteSet(S) /\ c \in Nat
  BY IdsCount
<1>2. f \in [S -> 0..(c - 1)]
  BY <1>1, RankType, RankBelow
<1>3. \A i, j \in S : f[i] = f[j] => i = j
  BY RankInjective
<1>4. f \in Injection(S, 0..(c - 1))
  BY <1>2, <1>3 DEF Injection, IsInjective
<1>5. IsFiniteSet(0..(c - 1)) /\ Cardinality(0..(c - 1)) = c
  <2> HIDE DEF c
  <2>1. c - 1 \in Int /\ c - 1 - 0 + 1 = c /\ (0 > c - 1 <=> c = 0)
    BY <1>1
  <2> QED
    BY <2>1, FS_Interval
<1>6. f \in Surjection(S, 0..(c - 1))
  BY <1>4, <1>5, FS_Injection
<1>7. m \in 0..(c - 1)
  BY <1>1
<1>8. \E i \in S : f[i] = m
  BY <1>6, <1>7 DEF Surjection
<1> QED
  BY <1>8

\* A page is the rows whose ranks are its places.
LEMMA PageRanks ==
  ASSUME NEW S \in SUBSET Ids, NEW n \in Nat, NEW o \in Nat
  PROVE  Page(S, n, o) = {i \in S : o <= RankIn(i, S) /\ RankIn(i, S) < o + n}
BY RankType DEF Page, RankIn, Later

\* A page that does not reach the end of the list is full.
LEMMA PageIsFull ==
  ASSUME NEW S \in SUBSET Ids, NEW n \in Nat, NEW o \in Nat, NEW k \in S, o + n <= RankIn(k, S)
  PROVE  n <= Cardinality(Page(S, n, o))
<1> DEFINE P == Page(S, n, o)
           f == [i \in P |-> RankIn(i, S)]
<1>1. P = {i \in S : o <= RankIn(i, S) /\ RankIn(i, S) < o + n}
  BY PageRanks
<1>2. f \in [P -> o..(o + n - 1)]
  <2>1. \A i \in P : RankIn(i, S) \in Nat /\ o <= RankIn(i, S) /\ RankIn(i, S) < o + n
    BY <1>1, RankType
  <2>2. \A i \in P : RankIn(i, S) \in o..(o + n - 1)
    BY <2>1
  <2> QED
    BY <2>2
<1>3. ASSUME NEW m \in o..(o + n - 1) PROVE \E i \in P : f[i] = m
  <2>1. m \in Nat /\ m < Cardinality(S)
    <3>1. RankIn(k, S) < Cardinality(S)
      BY RankBelow
    <3>2. RankIn(k, S) \in Nat /\ Cardinality(S) \in Nat
      BY RankType, IdsCount
    <3> QED
      BY <3>1, <3>2
  <2>2. PICK i \in S : RankIn(i, S) = m
    BY <2>1, RanksFill
  <2> QED
    BY <1>1, <2>2
<1>4. f \in Surjection(P, o..(o + n - 1))
  BY <1>2, <1>3 DEF Surjection
<1>5. IsFiniteSet(P)
  BY <1>1, IdsCount
<1>6. Cardinality(o..(o + n - 1)) = n
  BY FS_Interval
<1> QED
  BY <1>4, <1>5, <1>6, FS_Surjection

\* A row moves up by no more places than rows have left the list.
LEMMA RankAfterLoss ==
  ASSUME NEW S \in SUBSET Ids, NEW T \in SUBSET Ids, NEW i
  PROVE  RankIn(i, S) <= RankIn(i, T) + Cardinality(S \ T)
<1>1. Later(i, S) \in SUBSET (Later(i, T) \cup (S \ T))
  BY DEF Later
<1>2. /\ IsFiniteSet(Later(i, T)) /\ IsFiniteSet(S \ T)
      /\ RankIn(i, T) \in Nat /\ Cardinality(S \ T) \in Nat /\ RankIn(i, S) \in Nat
  BY IdsCount, RankType
<1>3. /\ IsFiniteSet(Later(i, T) \cup (S \ T))
      /\ Cardinality(Later(i, T) \cup (S \ T)) =
           RankIn(i, T) + Cardinality(S \ T) - Cardinality(Later(i, T) \cap (S \ T))
  BY <1>2, FS_Union DEF RankIn
<1>4. Cardinality(Later(i, T) \cap (S \ T)) \in Nat
  BY <1>2, FS_Intersection, FS_CardinalityType
<1>5. RankIn(i, S) <= Cardinality(Later(i, T) \cup (S \ T))
  BY <1>1, <1>3, FS_Subset DEF RankIn
<1> QED
  BY <1>2, <1>3, <1>4, <1>5

\* A full page passes its own rows, and the client is given them; a short page
\* has no row after it.
LEMMA WalkKeeps ==
  ASSUME WalkInv, Walk
  PROVE  WalkInv'
<1> DEFINE S == Matching(Filter)
           n == Limit(Size)
           page == Page(S, n, offset)
           passed == {i \in stayed \ seen : RankIn(i, S) < offset}
<1>1. /\ offset # NoReply /\ seen' = seen \cup page
      /\ offset' = IF Cardinality(page) < n THEN NoReply ELSE offset + n
      /\ UNCHANGED <<orders, stayed, removed>>
  BY DEF Walk, Echo, vars, rowVars
<1>2. /\ offset \in Nat /\ stayed \subseteq S /\ stayed \subseteq Ids /\ removed \in Nat
      /\ Cardinality(passed) <= removed
  BY <1>1 DEF WalkInv
<1>3. n \in Nat \ {0}
  BY OrdersAssumption, OrderPagesAssumption DEF Limit, IntWithDefault
<1>4. S \in SUBSET Ids /\ S' = S
  BY <1>1 DEF Matching, Live
<1>5. page = {i \in S : offset <= RankIn(i, S) /\ RankIn(i, S) < offset + n}
  BY <1>2, <1>3, <1>4, PageRanks
<1>6. \A i \in S : RankIn(i, S) \in Nat
  BY <1>4, RankType
<1>7. ASSUME NEW D \in SUBSET passed PROVE Cardinality(D) <= removed
  <2>1. passed \in SUBSET Ids /\ D \in SUBSET Ids
    BY <1>2
  <2>2. IsFiniteSet(passed) /\ Cardinality(passed) \in Nat /\ Cardinality(D) \in Nat
    BY <2>1, IdsCount
  <2>3. Cardinality(D) <= Cardinality(passed)
    BY <2>2, FS_Subset
  <2> QED
    BY <1>2, <2>2, <2>3
<1>8. CASE Cardinality(page) < n
  <2>1. \A i \in S : RankIn(i, S) < offset + n
    <3> SUFFICES ASSUME NEW i \in S, ~(RankIn(i, S) < offset + n) PROVE FALSE
      OBVIOUS
    <3>1. offset + n <= RankIn(i, S)
      <4>1. RankIn(i, S) \in Nat
        BY <1>4, RankType
      <4> HIDE DEF n
      <4> QED
        BY <1>2, <1>3, <4>1
    <3>2. n <= Cardinality(page)
      BY <1>2, <1>3, <1>4, <3>1, PageIsFull
    <3>3. Cardinality(page) \in Nat
      BY <1>4, <1>5, IdsCount
    <3> QED
      BY <1>3, <1>8, <3>2, <3>3
  <2>2. stayed' \ seen' \in SUBSET passed
    <3> SUFFICES ASSUME NEW i \in stayed, i \notin seen, i \notin page
                 PROVE  RankIn(i, S) < offset
      BY <1>1
    <3> HIDE DEF S, page, n
    <3> QED
      BY <1>2, <1>5, <1>6, <2>1
  <2>3. Cardinality(stayed' \ seen') <= removed'
    BY <1>1, <1>7, <2>2
  <2> QED
    BY <1>1, <1>2, <1>8, <2>3 DEF WalkInv
<1>9. CASE ~(Cardinality(page) < n)
  <2>1. offset' = offset + n /\ offset' \in Nat /\ offset' # NoReply
    BY <1>1, <1>2, <1>3, <1>9, OrderPagesAssumption
  <2>2. {i \in stayed' \ seen' : RankIn(i, S) < offset'} \in SUBSET passed
    <3> SUFFICES ASSUME NEW i \in stayed, i \notin seen, i \notin page,
                        RankIn(i, S) < offset + n
                 PROVE  RankIn(i, S) < offset
      BY <1>1, <2>1
    <3> HIDE DEF S, page, n
    <3> QED
      BY <1>2, <1>5, <1>6
  <2>3. Cardinality({i \in stayed' \ seen' : RankIn(i, S) < offset'}) <= removed'
    BY <1>1, <1>7, <2>2
  <2> HIDE DEF S
  <2>4. Cardinality({i \in stayed' \ seen' : RankIn(i, S') < offset'}) <= removed'
    BY <1>4, <2>3
  <2>5. stayed' \subseteq Ids /\ removed' \in Nat /\ stayed' \subseteq S'
    BY <1>1, <1>2, <1>4
  <2> USE DEF S
  <2> QED
    BY <2>1, <2>4, <2>5 DEF WalkInv, RankIn, Later
<1> QED
  BY <1>8, <1>9

\* When rows leave the list, the rows that move to places the walk has passed
\* are no more than those that left.
LEMMA OtherKeeps ==
  ASSUME WalkInv, Other
  PROVE  WalkInv'
<1> DEFINE S == Matching(Filter)
           lost == S \ S'
<1>1. UNCHANGED <<offset, seen>>
  BY DEF Other
<1>2. CASE offset = NoReply
  BY <1>1, <1>2 DEF Other, WalkInv
<1>3. CASE offset # NoReply
  <2> DEFINE passed == {i \in stayed \ seen : RankIn(i, S) < offset}
             next == {i \in stayed' \ seen : RankIn(i, S') < offset}
             skipped == {i \in next : offset <= RankIn(i, S)}
             k == Cardinality(lost)
  <2>1. stayed' = stayed \ lost /\ removed' = removed + k
    BY <1>3 DEF Other
  <2>2. /\ offset \in Nat /\ stayed \subseteq S /\ removed \in Nat
        /\ Cardinality(passed) <= removed
    BY <1>3 DEF WalkInv
  <2>3. S \in SUBSET Ids /\ S' \in SUBSET Ids
    BY DEF Matching
  <2> HIDE DEF S
  <2>4. stayed' \subseteq S' /\ stayed' \subseteq S
    BY <2>1, <2>2
  <2>5. lost \in SUBSET Ids /\ passed \in SUBSET Ids /\ skipped \in SUBSET S /\ skipped \in SUBSET Ids
    BY <2>2, <2>3, <2>4
  <2>6. /\ IsFiniteSet(passed) /\ Cardinality(passed) \in Nat
        /\ IsFiniteSet(skipped) /\ Cardinality(skipped) \in Nat
        /\ k \in Nat
    BY <2>5, IdsCount
  <2>7. \A i \in Ids : /\ RankIn(i, S) \in Nat /\ RankIn(i, S') \in Nat
                       /\ RankIn(i, S) <= RankIn(i, S') + k
    BY <2>3, RankType, RankAfterLoss
  <2>8. Cardinality(skipped) <= k
    <3>1. \A i \in skipped : offset <= RankIn(i, S) /\ RankIn(i, S) < offset + k
      <4> HIDE DEF k
      <4> QED
        BY <2>2, <2>5, <2>6, <2>7
    <3> HIDE DEF skipped, k
    <3> QED
      BY <2>2, <2>3, <2>5, <2>6, <3>1, RanksBound
  <2>9. next \in SUBSET (passed \cup skipped)
    <3>1. \A i \in next : RankIn(i, S) \in Nat
      BY <2>3, <2>4, <2>7
    <3> QED
      BY <2>1, <2>2, <3>1
  <2>10. Cardinality(next) <= removed'
    <3> HIDE DEF passed, next, skipped, k
    <3>1. /\ IsFiniteSet(passed \cup skipped)
          /\ Cardinality(passed \cup skipped) =
               Cardinality(passed) + Cardinality(skipped) - Cardinality(passed \cap skipped)
      BY <2>6, FS_Union
    <3>2. Cardinality(passed \cap skipped) \in Nat /\ Cardinality(passed \cup skipped) \in Nat
      BY <2>6, <3>1, FS_Intersection, FS_CardinalityType
    <3>3. Cardinality(next) <= Cardinality(passed \cup skipped) /\ IsFiniteSet(next)
      BY <2>9, <3>1, FS_Subset
    <3>4. Cardinality(next) \in Nat
      BY <3>3, FS_CardinalityType
    <3> QED
      BY <2>1, <2>2, <2>6, <2>8, <3>1, <3>2, <3>3, <3>4
  <2>11. removed' \in Nat
    BY <2>1, <2>2, <2>6
  <2>12. stayed' \subseteq Ids
    BY <2>3, <2>4
  <2> USE DEF S
  <2> QED
    BY <1>1, <1>3, <2>2, <2>4, <2>10, <2>11, <2>12 DEF WalkInv, RankIn, Later
<1> QED
  BY <1>2, <1>3

LEMMA WalkInvariance == PagesSpec => []WalkInv
<1>1. PagesInit => WalkInv
  <2> SUFFICES ASSUME PagesInit PROVE WalkInv
    OBVIOUS
  <2>1. /\ offset = 0 /\ seen = {} /\ stayed = Matching(Filter) /\ removed = 0
        /\ Matching(Filter) \in SUBSET Ids /\ 0 # NoReply
    BY OrderPagesAssumption DEF PagesInit, Matching
  <2>2. \A i \in stayed : RankIn(i, Matching(Filter)) \in Nat
    BY <2>1, RankType
  <2>3. {i \in stayed \ seen : RankIn(i, Matching(Filter)) < offset} = {}
    BY <2>1, <2>2
  <2>4. Cardinality({i \in stayed \ seen : RankIn(i, Matching(Filter)) < offset}) = 0
    BY <2>3, FS_EmptySet
  <2> QED
    BY <2>1, <2>4 DEF WalkInv
<1>2. WalkInv /\ [PagesNext]_<<vars, walkVars>> => WalkInv'
  <2> SUFFICES ASSUME WalkInv, [PagesNext]_<<vars, walkVars>> PROVE WalkInv'
    OBVIOUS
  <2>1. CASE UNCHANGED <<vars, walkVars>>
    BY <2>1 DEF WalkInv, RankIn, Later, Matching, Live, vars, rowVars, walkVars
  <2> QED
    BY <2>1, WalkKeeps, OtherKeeps DEF PagesNext
<1> QED
  BY <1>1, <1>2, PTL DEF PagesSpec

---------------------------------------------------------------------------
(* Theorems.                                                               *)

\* The table, its counter and what handlers have under way keep their types.
THEOREM TypeCorrect == Spec => []TypeOK
<1>1. IInv => TypeOK
  BY DEF IInv
<1> QED
  BY <1>1, Invariance, PTL

\* GET and DELETE answer 404 only for orders that are not there, or were not
\* known to be when the request was sent.
THEOREM NotFoundIsTrueForAll == Spec => []NotFoundIsTrue
<1>1. IInv => NotFoundIsTrue
  BY DEF IInv, ReplyIsTrue, NotFoundIsTrue, NotFoundIsTrueFor, Answered, Deleted, Live
<1> QED
  BY <1>1, Invariance, PTL

\* A deleted order is never shown to who asks later.
THEOREM DeletedOrdersStayGone == Spec => []DeletedStaysGone
<1>1. IInv => DeletedStaysGone
  BY DEF IInv, ReplyIsTrue, DeletedStaysGone, Answered
<1> QED
  BY <1>1, Invariance, PTL

\* Of any number of DELETEs of an order one is answered 204.
THEOREM OneDeleteIsAnswered == Spec => []OneDeleteWins
<1>1. Init => OneDeleteWins
  BY DEF Init, OneDeleteWins, Answered
<1> QED
  BY <1>1, Invariance, OneDeleteKeeps, PTL DEF Spec

\* A PATCH shows its own columns, but for those that others have set since.
THEOREM PatchesShowTheirWrites == Spec => []PatchShowsItsWrite
<1>1. IInv => PatchShowsItsWrite
  BY DEF IInv, ReplyShowsWrite, PatchShowsItsWrite, Answered
<1> QED
  BY <1>1, Invariance, PTL

\* The client of OrderPages is no more than one that reads: whatever is true of
\* Orders is true during a walk.
THEOREM WalksLeaveOrdersAlone == PagesSpec => Spec
<1>1. PagesInit => Init
  BY DEF PagesInit
<1>2. [PagesNext]_<<vars, walkVars>> => [Next]_vars
  BY DEF PagesNext, Walk, Other
<1> QED
  BY <1>1, <1>2, PTL DEF PagesSpec, Spec

\* A client that reads a list to its end, page by page, misses no more of the
\* orders that were there all along than orders that left the list meanwhile,
\* for any table, filter and page size.
THEOREM WalksMissOnlyRemoved == PagesSpec => []MissesOnlyForRemoved
<1>1. WalkInv => MissesOnlyForRemoved
  BY DEF WalkInv, MissesOnlyForRemoved
<1> QED
  BY <1>1, WalkInvariance, PTL

=============================================================================
