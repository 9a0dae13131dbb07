------------------------------ MODULE Invoices ------------------------------
(***************************************************************************)
(* The table invoices and the handlers of invoice-service.                 *)
(*                                                                         *)
(* PATCH and DELETE know an invoice by its number, which is not unique:    *)
(* they compare the text column invoice_number with an integer, so that    *)
(* MySQL reads each text as a number and '12', '012' and '12.0' are one.   *)
(* The repository holds no DDL of the table; the columns are those of the  *)
(* gorm model.                                                             *)
(*                                                                         *)
(* gorm wraps each statement in a transaction of its own, which row locks  *)
(* make one step, but for an INSERT, whose id is drawn before its row can  *)
(* be seen.  No query is Unscoped, so a soft deleted row is no row here.   *)
(* A handler that is done is idle again and may serve the next request.    *)
(***************************************************************************)
EXTENDS Integers, FiniteSets

CONSTANTS
  Requests,      \* handlers at work at the same time
  Texts,         \* values of invoice_number
  Num,           \* the number MySQL reads in a text
  Rank,          \* the collation's order of texts, equal where it sees no difference
  MaxInvoices,   \* bound on the ids that are drawn
  Limits,        \* values of limit and offset in a query, Absent included
  DefaultLimit,  \* 20
  MaxLimit,      \* 100
  Absent,        \* a parameter that is missing, or not a number
  NoRow, None

Ids == 1..MaxInvoices

\* What a handler knows between its two statements.
Works ==
  [op : {"create"}, id : Ids, text : Texts]
    \cup [op : {"patch"}, num : Nat, text : Texts, touched : SUBSET Ids]

ASSUME InvoicesAssumption ==
  /\ Num \in [Texts -> Nat] /\ Rank \in [Texts -> Nat]
  /\ MaxInvoices \in Nat
  /\ Limits \subseteq Int \cup {Absent} /\ Absent \notin Int
  /\ MaxLimit \in Nat \ {0} /\ DefaultLimit \in 1..MaxLimit
  /\ NoRow \notin Texts /\ None \notin Works

VARIABLES
  invoices,  \* the text of a live row
  nextId,    \* AUTO_INCREMENT
  work,      \* what a handler has under way between two statements
  reply      \* the answer of the last step, if it gave one

tableVars == <<invoices, nextId, work>>
vars      == <<tableVars, reply>>

TypeOK ==
  /\ invoices \in [Ids -> Texts \cup {NoRow}]
  /\ nextId \in 1..(MaxInvoices + 1)
  /\ work \in [Requests -> Works \cup {None}]

Init ==
  /\ invoices = [i \in Ids |-> NoRow]
  /\ nextId = 1
  /\ work = [r \in Requests |-> None]
  /\ reply = None

---------------------------------------------------------------------------
(* Queries.                                                                *)

Live(i) == invoices[i] # NoRow

\* WHERE invoice_number = v AND deleted_at IS NULL.
Numbered(v) == {i \in Ids : Live(i) /\ Num[invoices[i]] = v}

\* First: by primary key.
First(S) == CHOOSE i \in S : \A j \in S : i <= j

\* Nothing changes the status a row is created with.
Matching(v, status) ==
  {i \in Ids : Live(i) /\ (v # Absent => i \in Numbered(v)) /\ status \in {Absent, "NEW"}}

IntWithDefault(raw, default) == IF raw = Absent THEN default ELSE raw

Limit(raw) ==
  LET n == IntWithDefault(raw, DefaultLimit) IN IF n > MaxLimit THEN MaxLimit ELSE n

\* Bug: no ORDER BY.
TopsUnordered(S, k) ==
  {T \in SUBSET S : Cardinality(T) = IF k < Cardinality(S) THEN k ELSE Cardinality(S)}

\* The first k of S in a descending order of their texts: ties in any order.
Tops(S, k) ==
  {T \in SUBSET S :
     /\ Cardinality(T) = IF k < Cardinality(S) THEN k ELSE Cardinality(S)
     /\ \A i \in T, j \in S \ T : Rank[invoices[i]] >= Rank[invoices[j]]}

\* ORDER BY invoice_number DESC LIMIT n OFFSET o: what it may return.  gorm
\* writes no LIMIT for a negative n and no OFFSET for a negative o.
Pages(S, n, o) ==
  LET skip == IF o > 0 THEN o ELSE 0
  IN  UNION {{U \ T : U \in {V \in (IF n < 0 THEN {S} ELSE Tops(S, skip + n)) : T \subseteq V}} :
               T \in Tops(S, skip)}

---------------------------------------------------------------------------
(* Requests.                                                               *)

Answer(r, a) == reply' = [req |-> r, is |-> a] /\ work' = [work EXCEPT ![r] = None]

Silent == reply' = None

\* A body, path or filter that does not parse or validate, and a PATCH with no
\* field to set.
Refuse(r) ==
  /\ work[r] = None
  /\ Answer(r, [code |-> 400])
  /\ UNCHANGED <<invoices, nextId>>

\* Create: the INSERT draws an id.
CreateInsert(r) ==
  /\ work[r] = None /\ nextId \in Ids
  /\ \E n \in Texts :
       work' = [work EXCEPT ![r] = [op |-> "create", id |-> nextId, text |-> n]]
  /\ nextId' = nextId + 1
  /\ UNCHANGED invoices /\ Silent

\* Rows that others wrote, for the PATCHes that have yet to read theirs back.
Touch(w, S) ==
  [s \in Requests |->
     IF w[s] # None /\ w[s].op = "patch" THEN [w[s] EXCEPT !.touched = @ \cup S] ELSE w[s]]

\* COMMIT of the INSERT; a client may miss that it was applied.
CreateCommit(r) ==
  LET w == work[r] IN
  /\ w # None /\ w.op = "create"
  /\ invoices' = [invoices EXCEPT ![w.id] = w.text]
  /\ \E a \in {[code |-> 202, id |-> w.id], [code |-> 500]} : reply' = [req |-> r, is |-> a]
  /\ work' = Touch([work EXCEPT ![r] = None], {w.id})
  /\ UNCHANGED nextId

\* GetByID: the id of the query string; the one in the path is never read, and
\* an empty one is 0 to MySQL.
Get(r) ==
  /\ work[r] = None
  /\ \E id \in Ids \cup {Absent} :
       IF id # Absent /\ Live(id) THEN Answer(r, [code |-> 200, id |-> id, text |-> invoices[id]])
       ELSE Answer(r, [code |-> 404])
  /\ UNCHANGED <<invoices, nextId>>

\* List, Listv2 and Listv3.  MySQL refuses an OFFSET without a LIMIT.
List(r) ==
  /\ work[r] = None
  /\ \E v \in {Num[n] : n \in Texts} \cup {Absent}, status \in {Absent, "NEW", "ACTIVE"},
        limit, offset \in Limits :
       LET n == Limit(limit)
           o == IntWithDefault(offset, 0) IN
       IF n < 0 /\ o > 0 THEN Answer(r, [code |-> 500])
       ELSE \E page \in Pages(Matching(v, status), n, o) :
              Answer(r, [code |-> 200, items |-> page])
  /\ UNCHANGED <<invoices, nextId>>

\* The filters region and engine name columns that the table does not have.
Listv3(r) ==
  /\ work[r] = None
  /\ Answer(r, [code |-> 500])
  /\ UNCHANGED <<invoices, nextId>>

\* Bug: UPDATE ... LIMIT 1.
PatchedFirst(v, n) ==
  [i \in Ids |-> IF Numbered(v) # {} /\ i = First(Numbered(v)) THEN n ELSE invoices[i]]

\* UPDATE ... SET invoice_number = n, updated_at = now WHERE invoice_number = v.
Patched(v, n) == [i \in Ids |-> IF i \in Numbered(v) THEN n ELSE invoices[i]]

\* Update.  RowsAffected leaves out the rows the UPDATE does not change: whose
\* text is n already and whose updated_at is this very moment.
PatchUpdate(r) ==
  /\ work[r] = None
  /\ \E v \in {Num[n] : n \in Texts}, n \in Texts :
       \/ /\ \A i \in Numbered(v) : invoices[i] = n
          /\ Answer(r, [code |-> 404])
          /\ UNCHANGED invoices
       \/ /\ Numbered(v) # {}
          /\ invoices' = Patched(v, n)
          /\ work' = [Touch(work, Numbered(v)) EXCEPT
                        ![r] = [op |-> "patch", num |-> v, text |-> n, touched |-> {}]]
          /\ Silent
  /\ UNCHANGED nextId

\* The second statement of Update asks for the old number.
PatchRead(r) ==
  LET w == work[r]
      found == Numbered(w.num) IN
  /\ w # None /\ w.op = "patch"
  /\ IF found = {} THEN Answer(r, [code |-> 500])
     ELSE Answer(r, [code |-> 200, id |-> First(found), text |-> invoices[First(found)],
                     set |-> w.text, touched |-> w.touched])
  /\ UNCHANGED <<invoices, nextId>>

\* Bug: the invoice is looked up first and deleted by its id.
DeletedFirst(v) ==
  [i \in Ids |-> IF Numbered(v) # {} /\ i = First(Numbered(v)) THEN NoRow ELSE invoices[i]]

\* UPDATE ... SET deleted_at WHERE invoice_number = v.
Deleted(v) == [i \in Ids |-> IF i \in Numbered(v) THEN NoRow ELSE invoices[i]]

\* A client may miss that its DELETE was applied.
Delete(r) ==
  /\ work[r] = None
  /\ \E v \in {Num[n] : n \in Texts} :
       /\ invoices' = Deleted(v)
       /\ IF Numbered(v) = {} THEN Answer(r, [code |-> 404])
          ELSE Answer(r, [code |-> 204]) \/ Answer(r, [code |-> 500])
  /\ UNCHANGED nextId

\* The database fails, the pod dies, or a strict sql_mode refuses to compare a
\* text that is no number in an UPDATE; what was committed stays.
Fail(r) ==
  /\ Answer(r, [code |-> 500])
  /\ UNCHANGED <<invoices, nextId>>

\* Steps that leave the table as it is, and all others.
Read(r) == Refuse(r) \/ Get(r) \/ List(r) \/ Listv3(r)

Write(r) ==
  \/ CreateInsert(r) \/ CreateCommit(r) \/ PatchUpdate(r) \/ PatchRead(r) \/ Delete(r) \/ Fail(r)

Next == \E r \in Requests : Read(r) \/ Write(r)

Spec == Init /\ [][Next]_vars

---------------------------------------------------------------------------
(* Properties.                                                             *)

\* Invoices that MySQL reads as one number can never be told apart again by
\* any sequence of requests: they are renamed together and deleted together
\* (invoice_handler.go:123, 149), also when their texts differ.
Together(i, j) == Live(i) /\ Live(j) /\ Num[invoices[i]] = Num[invoices[j]]
MergedForever ==
  [][\A i, j \in Ids : Together(i, j) => Together(i, j)' \/ (~Live(i)' /\ ~Live(j)')]_vars

\* A 200 to PATCH shows an invoice with the text it has set, or one that another
\* request wrote between the two statements (invoice_handler.go:123-138): the
\* read by the old number never shows an invoice the PATCH has left out.
RenameShowsItsWrite ==
  reply # None /\ "set" \in DOMAIN reply.is =>
    reply.is.text = reply.is.set \/ reply.is.id \in reply.is.touched

=============================================================================
