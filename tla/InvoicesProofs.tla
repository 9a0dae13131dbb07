--------------------------- MODULE InvoicesProofs ---------------------------
(***************************************************************************)
(* Proofs about invoice-service.                                           *)
(*                                                                         *)
(* Invoices, for any number of handlers and any texts: its types, that     *)
(* invoices of one number stay together for good, and what a PATCH shows.  *)
(* InvoiceClients, for any page size and order of the texts: what a walk   *)
(* through the pages of the list can miss.                                 *)
(* RateLimiter, the middleware in front of these handlers (and of those of *)
(* payment-service): what a client can be served at most, and at least.    *)
(***************************************************************************)
EXTENDS InvoiceClients, RateLimiter, FiniteSetTheorems, WellFoundedInduction, TLAPS

Creating(r) == work[r] # None /\ work[r].op = "create"

\* A drawn id has no row before its INSERT commits, and is drawn once.
DrawnIsFree ==
  /\ \A i \in Ids : Live(i) => i < nextId
  /\ \A r \in Requests : Creating(r) =>
       /\ work[r].id < nextId /\ ~Live(work[r].id)
       /\ \A s \in Requests : Creating(s) /\ s # r => work[s].id # work[r].id

IInv == TypeOK /\ DrawnIsFree

\* A step that shows nothing but an answer.
Answers(r) == \E a : Answer(r, a) /\ UNCHANGED <<invoices, nextId>>

LEMMA ReadAnswers ==
  ASSUME NEW r \in Requests, Read(r) \/ PatchRead(r) \/ Fail(r)
  PROVE  Answers(r)
<1>1. CASE Refuse(r)
  BY <1>1 DEF Refuse, Answers
<1>2. CASE Get(r)
  BY <1>2 DEF Get, Answers
<1>3. CASE List(r)
  BY <1>3 DEF List, Answers
<1>4. CASE Listv3(r)
  BY <1>4 DEF Listv3, Answers
<1>5. CASE PatchRead(r)
  BY <1>5 DEF PatchRead, Answers
<1>6. CASE Fail(r)
  BY <1>6 DEF Fail, Answers
<1> QED
  BY <1>1, <1>2, <1>3, <1>4, <1>5, <1>6 DEF Read

LEMMA InitInv == Init => IInv
BY InvoicesAssumption DEF Init, IInv, TypeOK, DrawnIsFree, Live, Creating, Ids

\* Touch leaves everything but the history of the PATCHes as it is.
LEMMA TouchKeeps ==
  ASSUME NEW w \in [Requests -> Works \cup {None}], NEW S \in SUBSET Ids
  PROVE  /\ Touch(w, S) \in [Requests -> Works \cup {None}]
         /\ \A s \in Requests : w[s] = None \/ w[s].op = "create" => Touch(w, S)[s] = w[s]
         /\ \A s \in Requests : w[s] # None /\ w[s].op # "create" =>
              Touch(w, S)[s].op = "patch"
<1>1. ASSUME NEW s \in Requests, w[s] # None, w[s].op = "patch"
      PROVE  /\ Touch(w, S)[s] \in Works
             /\ Touch(w, S)[s].op = "patch"
  <2>1. w[s] \in [op : {"patch"}, num : Nat, text : Texts, touched : SUBSET Ids]
    BY <1>1 DEF Works
  <2>2. Touch(w, S)[s] = [w[s] EXCEPT !.touched = @ \cup S]
    BY <1>1 DEF Touch
  <2> QED
    BY <2>1, <2>2 DEF Works
<1>2. \A s \in Requests : w[s] # None => w[s].op \in {"create", "patch"}
  BY DEF Works
<1>3. \A s \in Requests : ~(w[s] # None /\ w[s].op = "patch") => Touch(w, S)[s] = w[s]
  BY DEF Touch
<1>4. Touch(w, S) = [s \in Requests |-> Touch(w, S)[s]]
  BY DEF Touch
<1> QED
  BY <1>1, <1>2, <1>3, <1>4

---------------------------------------------------------------------------
(* The invariant.                                                          *)

LEMMA AnswersPreserves ==
  ASSUME IInv, NEW r \in Requests, Answers(r)
  PROVE  IInv'
BY DEF IInv, TypeOK, DrawnIsFree, Live, Creating, Answers, Answer

LEMMA CreateInsertPreserves ==
  ASSUME IInv, NEW r \in Requests, CreateInsert(r)
  PROVE  IInv'
<1> USE DEF IInv
<1> DEFINE new(n) == [op |-> "create", id |-> nextId, text |-> n]
<1>1. PICK n \in Texts : work' = [work EXCEPT ![r] = new(n)]
  BY DEF CreateInsert
<1>2. nextId \in Ids /\ nextId' = nextId + 1 /\ UNCHANGED invoices
  BY DEF CreateInsert
<1>3. new(n) \in Works /\ new(n) # None
  BY <1>2, InvoicesAssumption DEF Works
<1>4. TypeOK'
  BY <1>1, <1>2, <1>3, InvoicesAssumption DEF TypeOK, Ids
<1>5. \A i \in Ids : Live(i)' => i < nextId /\ i < nextId'
  BY <1>2, InvoicesAssumption DEF DrawnIsFree, TypeOK, Ids, Live
<1>6. work'[r] = new(n) /\ \A s \in Requests \ {r} : work'[s] = work[s]
  BY <1>1 DEF TypeOK
<1>7. \A s \in Requests \ {r} : Creating(s)' => work'[s].id < nextId /\ ~Live(work[s].id)'
  BY <1>2, <1>6 DEF DrawnIsFree, Creating, Live
<1>8. invoices'[nextId] = NoRow /\ nextId < nextId'
  BY <1>2, <1>5, InvoicesAssumption DEF Ids, Live
<1>9. \A q, s \in Requests : Creating(q)' /\ Creating(s)' /\ s # q => work'[s].id # work'[q].id
  <2> SUFFICES ASSUME NEW q \in Requests, NEW s \in Requests, Creating(q)', Creating(s)', s # q
               PROVE  work'[s].id # work'[q].id
    OBVIOUS
  <2>1. \A t \in Requests \ {r} : Creating(t)' => Creating(t) /\ work'[t] = work[t] /\ work[t].id # nextId
    BY <1>2, <1>6, <1>7, InvoicesAssumption DEF Creating, Ids
  <2>2. work'[r].id = nextId
    BY <1>6
  <2> QED
    BY <2>1, <2>2 DEF DrawnIsFree
<1>10. \A q \in Requests : Creating(q)' => work'[q].id < nextId' /\ invoices'[work'[q].id] = NoRow
  BY <1>2, <1>6, <1>7, <1>8 DEF Creating, Live, DrawnIsFree, TypeOK, Works, Ids
<1>11. DrawnIsFree'
  BY <1>5, <1>9, <1>10 DEF DrawnIsFree, Creating, Live
<1> QED
  BY <1>4, <1>11

\* Which handlers create, and with what, after a step that ends or begins the
\* work of r and touches rows.
LEMMA OthersCreate ==
  ASSUME IInv, NEW r \in Requests, NEW S \in SUBSET Ids, NEW w \in Works \cup {None},
         work' = [Touch(work, S) EXCEPT ![r] = w]
  PROVE  /\ work' \in [Requests -> Works \cup {None}]
         /\ \A s \in Requests \ {r} : Creating(s)' => Creating(s) /\ work'[s] = work[s]
<1>1. work \in [Requests -> Works \cup {None}]
  BY DEF IInv, TypeOK
<1>2. work' \in [Requests -> Works \cup {None}]
  BY <1>1, TouchKeeps
<1>3. \A s \in Requests \ {r} : work'[s] = Touch(work, S)[s]
  BY <1>1, TouchKeeps
<1> QED
  BY <1>1, <1>2, <1>3, TouchKeeps DEF Creating

LEMMA CreateCommitPreserves ==
  ASSUME IInv, NEW r \in Requests, CreateCommit(r)
  PROVE  IInv'
<1> DEFINE w == work[r]
<1>1. Creating(r) /\ w \in [op : {"create"}, id : Ids, text : Texts]
  BY DEF IInv, TypeOK, CreateCommit, Creating, Works
<1>2. invoices' = [invoices EXCEPT ![w.id] = w.text] /\ UNCHANGED nextId
  BY DEF CreateCommit
<1>3. work' = [Touch(work, {w.id}) EXCEPT ![r] = None]
  BY DEF CreateCommit, Touch, IInv, TypeOK
<1>4. /\ work' \in [Requests -> Works \cup {None}]
      /\ \A s \in Requests \ {r} : Creating(s)' => Creating(s) /\ work'[s] = work[s]
  BY <1>1, <1>3, OthersCreate
<1>5. ~Creating(r)'
  BY <1>3 DEF Creating, Touch
<1>6. TypeOK'
  BY <1>1, <1>2, <1>4 DEF IInv, TypeOK
<1>7. DrawnIsFree'
  BY <1>1, <1>2, <1>4, <1>5 DEF IInv, TypeOK, DrawnIsFree, Live, Creating
<1> QED
  BY <1>6, <1>7 DEF IInv

\* An UPDATE or DELETE makes no row live.
LEMMA ShrinkPreserves ==
  ASSUME IInv, TypeOK', UNCHANGED nextId, NEW r \in Requests, ~Creating(r)',
         \A i \in Ids : Live(i)' => Live(i),
         \A s \in Requests \ {r} : Creating(s)' => Creating(s) /\ work'[s] = work[s]
  PROVE  IInv'
BY DEF IInv, TypeOK, DrawnIsFree, Creating, Works, Ids

LEMMA PatchUpdatePreserves ==
  ASSUME IInv, NEW r \in Requests, PatchUpdate(r)
  PROVE  IInv'
<1>1. PICK v \in {Num[n] : n \in Texts}, n \in Texts :
        \/ \E a : Answer(r, a) /\ UNCHANGED invoices
        \/ /\ Numbered(v) # {}
           /\ invoices' = Patched(v, n)
           /\ work' = [Touch(work, Numbered(v)) EXCEPT
                         ![r] = [op |-> "patch", num |-> v, text |-> n, touched |-> {}]]
  BY DEF PatchUpdate
<1>2. UNCHANGED nextId
  BY DEF PatchUpdate
<1>3. CASE \E a : Answer(r, a) /\ UNCHANGED invoices
  BY <1>2, <1>3, AnswersPreserves DEF Answers
<1>4. CASE /\ Numbered(v) # {}
           /\ invoices' = Patched(v, n)
           /\ work' = [Touch(work, Numbered(v)) EXCEPT
                         ![r] = [op |-> "patch", num |-> v, text |-> n, touched |-> {}]]
  <2> DEFINE w == [op |-> "patch", num |-> v, text |-> n, touched |-> {}]
  <2>1. w \in Works /\ Numbered(v) \in SUBSET Ids
    BY InvoicesAssumption DEF Works, Numbered
  <2>2. /\ work' \in [Requests -> Works \cup {None}]
        /\ \A s \in Requests \ {r} : Creating(s)' => Creating(s) /\ work'[s] = work[s]
    BY <1>4, <2>1, OthersCreate
  <2>3. work'[r] = w
    BY <1>4 DEF Touch
  <2>4. TypeOK'
    BY <1>2, <1>4, <2>2 DEF IInv, TypeOK, Patched
  <2>5. \A i \in Ids : Live(i)' => Live(i)
    BY <1>4 DEF Patched, Numbered, Live
  <2> QED
    BY <1>2, <2>2, <2>3, <2>4, <2>5, ShrinkPreserves DEF Creating
<1> QED
  BY <1>1, <1>3, <1>4

LEMMA DeletePreserves ==
  ASSUME IInv, NEW r \in Requests, Delete(r)
  PROVE  IInv'
<1>1. PICK v : invoices' = Deleted(v)
  BY DEF Delete
<1>2. work' = [work EXCEPT ![r] = None] /\ UNCHANGED nextId
  BY DEF Delete, Answer
<1>3. TypeOK'
  BY <1>1, <1>2 DEF IInv, TypeOK, Deleted
<1>4. \A i \in Ids : Live(i)' => Live(i)
  BY <1>1 DEF Deleted, Live
<1>5. /\ ~Creating(r)'
      /\ \A s \in Requests \ {r} : Creating(s)' => Creating(s) /\ work'[s] = work[s]
  BY <1>2 DEF IInv, TypeOK, Creating
<1> QED
  BY <1>2, <1>3, <1>4, <1>5, ShrinkPreserves

LEMMA NextInv == IInv /\ [Next]_vars => IInv'
<1> SUFFICES ASSUME IInv, [Next]_vars PROVE IInv'
  OBVIOUS
<1>1. CASE UNCHANGED vars
  BY <1>1 DEF vars, tableVars, IInv, TypeOK, DrawnIsFree, Live, Creating
<1>2. ASSUME NEW r \in Requests, Read(r) \/ Write(r) PROVE IInv'
  BY <1>2, ReadAnswers, AnswersPreserves, CreateInsertPreserves, CreateCommitPreserves,
     PatchUpdatePreserves, DeletePreserves DEF Write
<1> QED
  BY <1>1, <1>2 DEF Next

---------------------------------------------------------------------------
(* Theorems.                                                               *)

\* Rows, ids and what handlers have under way are what the handlers' code
\* takes them to be, after any sequence of requests.
THEOREM TypeCorrect == Spec => []TypeOK
<1>1. IInv => TypeOK
  BY DEF IInv
<1> QED
  BY <1>1, InitInv, NextInv, PTL DEF Spec

\* Only a row that was not live gets a new text by itself.
LEMMA StepKeepsTogether ==
  ASSUME IInv, NEW r \in Requests, Read(r) \/ Write(r),
         NEW i \in Ids, NEW j \in Ids, Together(i, j)
  PROVE  Together(i, j)' \/ (~Live(i)' /\ ~Live(j)')
<1> USE DEF Together
<1>1. CASE UNCHANGED invoices
  BY <1>1 DEF Live
<1>2. CASE CreateCommit(r)
  <2>1. Creating(r) /\ ~Live(work[r].id)
    BY <1>2 DEF IInv, DrawnIsFree, CreateCommit, Creating
  <2>2. invoices'[i] = invoices[i] /\ invoices'[j] = invoices[j]
    BY <1>2, <2>1 DEF CreateCommit, IInv, TypeOK
  <2> QED
    BY <2>2 DEF Live
<1>3. CASE \E v, n : invoices' = Patched(v, n)
  <2>1. PICK v, n : invoices' = Patched(v, n)
    BY <1>3
  <2>2. i \in Numbered(v) <=> j \in Numbered(v)
    BY DEF Numbered
  <2>3. CASE i \in Numbered(v)
    <3>1. invoices'[i] = n /\ invoices'[j] = n
      BY <2>1, <2>2, <2>3 DEF Patched
    <3> QED
      BY <3>1 DEF Live
  <2>4. CASE i \notin Numbered(v)
    <3>1. invoices'[i] = invoices[i] /\ invoices'[j] = invoices[j]
      BY <2>1, <2>2, <2>4 DEF Patched
    <3> QED
      BY <3>1 DEF Live
  <2> QED
    BY <2>3, <2>4
<1>4. CASE \E v : invoices' = Deleted(v)
  BY <1>4 DEF Deleted, Numbered, Live
<1>5. UNCHANGED invoices \/ CreateCommit(r) \/ (\E v, n : invoices' = Patched(v, n))
        \/ (\E v : invoices' = Deleted(v))
  BY ReadAnswers DEF Write, Answers, CreateInsert, PatchUpdate, Delete
<1> QED
  BY <1>1, <1>2, <1>3, <1>4, <1>5

\* Whatever clients send, two invoices that MySQL reads as one number are
\* renamed and deleted together from then on.
THEOREM NeverSeparated == Spec => MergedForever
<1> DEFINE Keep == \A i, j \in Ids : Together(i, j) => Together(i, j)' \/ (~Live(i)' /\ ~Live(j)')
<1>1. IInv /\ [Next]_vars => [Keep]_vars
  <2> SUFFICES ASSUME IInv, Next PROVE Keep
    OBVIOUS
  <2> QED
    BY StepKeepsTogether DEF Next
<1>2. Spec => []IInv
  BY InitInv, NextInv, PTL DEF Spec
<1>3. Spec => [][Keep]_vars
  BY <1>1, <1>2, PTL DEF Spec
<1> QED
  BY <1>3 DEF MergedForever

---------------------------------------------------------------------------
(* What a PATCH shows.                                                     *)

Patching(r) == work[r] # None /\ work[r].op = "patch"

\* Between its two statements, the rows that a PATCH will read are those it has
\* written, or others have.
OwnOrTouchedBy(r) ==
  \A i \in Numbered(work[r].num) : invoices[i] = work[r].text \/ i \in work[r].touched

OwnOrTouched == \A r \in Requests : Patching(r) => OwnOrTouchedBy(r)

PInv == IInv /\ OwnOrTouched /\ RenameShowsItsWrite

LEMMA FirstIsMember ==
  ASSUME NEW S \in SUBSET Ids, S # {}
  PROVE  First(S) \in S
<1> DEFINE less == {ss \in Nat \X Nat : ss[1] < ss[2]}
<1>1. IsWellFoundedOn(less, Nat)
  BY NatLessThanWellFounded, Zenon DEF OpToRel
<1>2. S \subseteq Nat
  BY InvoicesAssumption DEF Ids
<1>3. PICK i \in S : \A j \in S : ~(<<j, i>> \in less)
  <2> HIDE DEF less
  <2> QED
    BY <1>1, <1>2, WFMin
<1>4. ASSUME NEW j \in S PROVE i <= j
  <2>1. i \in Nat /\ j \in Nat
    BY <1>2
  <2>2. j < i => <<j, i>> \in less
    BY <2>1
  <2> QED
    BY <1>3, <2>1, <2>2
<1> QED
  BY <1>4 DEF First

LEMMA PatchWorks ==
  ASSUME IInv, NEW r \in Requests, Patching(r)
  PROVE  work[r] \in [op : {"patch"}, num : Nat, text : Texts, touched : SUBSET Ids]
BY DEF IInv, TypeOK, Patching, Works

\* Rows outside S keep their text, and S is noted as touched.
LEMMA OthersKeepOwn ==
  ASSUME IInv, OwnOrTouched, NEW r \in Requests, NEW S \in SUBSET Ids, NEW w \in Works \cup {None},
         work' = [Touch(work, S) EXCEPT ![r] = w],
         \A i \in Ids \ S : invoices'[i] = invoices[i],
         NEW s \in Requests, s # r, Patching(s)'
  PROVE  OwnOrTouchedBy(s)'
<1>1. work'[s] = Touch(work, S)[s]
  BY DEF Touch
<1>2. Patching(s)
  BY <1>1 DEF Touch, Patching
<1>3. work'[s] = [work[s] EXCEPT !.touched = @ \cup S]
  BY <1>1, <1>2 DEF Touch, Patching
<1>4. /\ work'[s].num = work[s].num /\ work'[s].text = work[s].text
      /\ work'[s].touched = work[s].touched \cup S
  BY <1>2, <1>3, PatchWorks
<1>5. \A i \in Ids \ S : i \in Numbered(work[s].num)' => i \in Numbered(work[s].num)
  BY <1>4 DEF Numbered, Live
<1>6. \A i \in Numbered(work[s].num)' : i \in Ids
  BY DEF Numbered
<1> QED
  BY <1>2, <1>4, <1>5, <1>6 DEF OwnOrTouched, OwnOrTouchedBy, Patching

LEMMA AnswersKeepOwn ==
  ASSUME IInv, OwnOrTouched, NEW r \in Requests, UNCHANGED invoices,
         NEW w, work' = [work EXCEPT ![r] = w], w = None \/ w.op = "create"
  PROVE  OwnOrTouched'
<1>1. ASSUME NEW s \in Requests, Patching(s)' PROVE OwnOrTouchedBy(s)'
  <2>1. s # r /\ work'[s] = work[s]
    BY <1>1 DEF IInv, TypeOK, Patching
  <2> QED
    BY <1>1, <2>1 DEF OwnOrTouched, OwnOrTouchedBy, Patching, Numbered, Live
<1> QED
  BY <1>1 DEF OwnOrTouched, OwnOrTouchedBy, Patching

LEMMA PatchUpdateOwn ==
  ASSUME IInv, OwnOrTouched, NEW r \in Requests, PatchUpdate(r)
  PROVE  OwnOrTouched'
<1>1. PICK v \in {Num[n] : n \in Texts}, n \in Texts :
        \/ \E a : Answer(r, a) /\ UNCHANGED invoices
        \/ /\ invoices' = Patched(v, n)
           /\ work' = [Touch(work, Numbered(v)) EXCEPT
                         ![r] = [op |-> "patch", num |-> v, text |-> n, touched |-> {}]]
  BY DEF PatchUpdate
<1>2. CASE \E a : Answer(r, a) /\ UNCHANGED invoices
  BY <1>2, AnswersKeepOwn DEF Answer
<1>3. CASE /\ invoices' = Patched(v, n)
           /\ work' = [Touch(work, Numbered(v)) EXCEPT
                         ![r] = [op |-> "patch", num |-> v, text |-> n, touched |-> {}]]
  <2> DEFINE w == [op |-> "patch", num |-> v, text |-> n, touched |-> {}]
  <2>1. w \in Works /\ Numbered(v) \in SUBSET Ids
    BY InvoicesAssumption DEF Works, Numbered
  <2>2. \A i \in Ids \ Numbered(v) : invoices'[i] = invoices[i]
    BY <1>3 DEF Patched
  <2>3. ASSUME NEW s \in Requests, s # r, Patching(s)' PROVE OwnOrTouchedBy(s)'
    BY <1>3, <2>1, <2>2, <2>3, OthersKeepOwn
  <2>4. work'[r].num = v /\ work'[r].text = n
    BY <1>3 DEF Touch
  <2>5. \A i \in Numbered(work[r].num)' : i \in Ids /\ invoices'[i] # NoRow /\ Num[invoices'[i]] = v
    BY <2>4 DEF Numbered, Live
  <2>6. \A i \in Numbered(work[r].num)' : invoices'[i] = n
    BY <1>3, <2>2, <2>5 DEF Patched, Numbered, Live
  <2>7. OwnOrTouchedBy(r)'
    BY <2>4, <2>6 DEF OwnOrTouchedBy
  <2> QED
    BY <2>3, <2>7 DEF OwnOrTouched, OwnOrTouchedBy, Patching
<1> QED
  BY <1>1, <1>2, <1>3

LEMMA CreateCommitOwn ==
  ASSUME IInv, OwnOrTouched, NEW r \in Requests, CreateCommit(r)
  PROVE  OwnOrTouched'
<1> DEFINE w == work[r]
<1>1. w \in [op : {"create"}, id : Ids, text : Texts]
  BY DEF IInv, TypeOK, CreateCommit, Works
<1>2. work' = [Touch(work, {w.id}) EXCEPT ![r] = None]
  BY DEF CreateCommit, Touch, IInv, TypeOK
<1>3. \A i \in Ids \ {w.id} : invoices'[i] = invoices[i]
  BY DEF CreateCommit, IInv, TypeOK
<1>4. ASSUME NEW s \in Requests, Patching(s)' PROVE OwnOrTouchedBy(s)'
  <2>1. s # r
    BY <1>2, <1>4 DEF Patching, Touch
  <2> QED
    BY <1>1, <1>2, <1>3, <1>4, <2>1, OthersKeepOwn
<1> QED
  BY <1>4 DEF OwnOrTouched, OwnOrTouchedBy, Patching

LEMMA DeleteOwn ==
  ASSUME IInv, OwnOrTouched, NEW r \in Requests, Delete(r)
  PROVE  OwnOrTouched'
<1>1. PICK v : invoices' = Deleted(v)
  BY DEF Delete
<1>2. work' = [work EXCEPT ![r] = None]
  BY DEF Delete, Answer
<1>3. ASSUME NEW s \in Requests, Patching(s)' PROVE OwnOrTouchedBy(s)'
  <2>1. work'[s] = work[s]
    BY <1>2, <1>3 DEF IInv, TypeOK, Patching
  <2>2. \A i \in Numbered(work[s].num)' : i \in Numbered(work[s].num) /\ invoices'[i] = invoices[i]
    BY <1>1, <2>1 DEF Deleted, Numbered, Live
  <2> QED
    BY <1>3, <2>1, <2>2 DEF OwnOrTouched, OwnOrTouchedBy, Patching
<1> QED
  BY <1>3 DEF OwnOrTouched, OwnOrTouchedBy, Patching

\* Answers of other requests than PATCH show no invoice set.
LEMMA OnlyPatchSets ==
  ASSUME NEW r \in Requests,
         Read(r) \/ CreateInsert(r) \/ CreateCommit(r) \/ PatchUpdate(r) \/ Delete(r) \/ Fail(r)
  PROVE  reply' = None \/ "set" \notin DOMAIN reply'.is
<1>1. CASE Refuse(r) \/ Listv3(r) \/ Fail(r)
  BY <1>1 DEF Refuse, Listv3, Fail, Answer
<1>2. CASE Get(r)
  BY <1>2 DEF Get, Answer
<1>3. CASE List(r)
  BY <1>3 DEF List, Answer
<1>4. CASE CreateInsert(r)
  BY <1>4 DEF CreateInsert, Silent
<1>5. CASE CreateCommit(r)
  BY <1>5 DEF CreateCommit
<1>6. CASE PatchUpdate(r)
  BY <1>6 DEF PatchUpdate, Silent, Answer
<1>7. CASE Delete(r)
  BY <1>7 DEF Delete, Answer
<1> QED
  BY <1>1, <1>2, <1>3, <1>4, <1>5, <1>6, <1>7 DEF Read

LEMMA PatchReadShows ==
  ASSUME IInv, OwnOrTouched, NEW r \in Requests, PatchRead(r)
  PROVE  RenameShowsItsWrite'
<1> DEFINE w == work[r]
           found == Numbered(w.num)
<1>1. Patching(r)
  BY DEF PatchRead, Patching
<1>2. CASE found = {}
  BY <1>2 DEF PatchRead, Answer, RenameShowsItsWrite
<1>3. CASE found # {}
  <2>1. First(found) \in found
    BY <1>3, FirstIsMember DEF Numbered
  <2>2. invoices[First(found)] = w.text \/ First(found) \in w.touched
    BY <1>1, <2>1 DEF OwnOrTouched, OwnOrTouchedBy
  <2> DEFINE a == [code |-> 200, id |-> First(found), text |-> invoices[First(found)],
                   set |-> w.text, touched |-> w.touched]
  <2>3. reply' = [req |-> r, is |-> a]
    BY <1>3 DEF PatchRead, Answer
  <2>4. reply'.is = a /\ a.text = invoices[First(found)] /\ a.set = w.text
        /\ a.id = First(found) /\ a.touched = w.touched
    BY <2>3
  <2> QED
    BY <2>2, <2>4 DEF RenameShowsItsWrite
<1> QED
  BY <1>2, <1>3

LEMMA NextPatch == PInv /\ [Next]_vars => PInv'
<1> SUFFICES ASSUME PInv, [Next]_vars PROVE PInv'
  OBVIOUS
<1>1. IInv'
  BY NextInv DEF PInv
<1>2. CASE UNCHANGED vars
  BY <1>1, <1>2 DEF vars, tableVars, PInv, OwnOrTouched, OwnOrTouchedBy, Patching, RenameShowsItsWrite,
     Numbered, Live
<1>3. ASSUME NEW r \in Requests, Read(r) \/ Write(r) PROVE OwnOrTouched' /\ RenameShowsItsWrite'
  <2>1. CASE Read(r) \/ PatchRead(r) \/ Fail(r)
    <3>1. OwnOrTouched'
      BY <2>1, ReadAnswers, AnswersKeepOwn DEF PInv, Answers, Answer
    <3>2. RenameShowsItsWrite'
      BY <2>1, OnlyPatchSets, PatchReadShows DEF PInv, RenameShowsItsWrite
    <3> QED
      BY <3>1, <3>2
  <2>2. CASE CreateInsert(r)
    <3>1. OwnOrTouched'
      BY <2>2, AnswersKeepOwn DEF PInv, CreateInsert
    <3> QED
      BY <2>2, <3>1, OnlyPatchSets DEF RenameShowsItsWrite
  <2>3. CASE CreateCommit(r) \/ PatchUpdate(r) \/ Delete(r)
    BY <2>3, CreateCommitOwn, PatchUpdateOwn, DeleteOwn, OnlyPatchSets DEF PInv, RenameShowsItsWrite
  <2> QED
    BY <1>3, <2>1, <2>2, <2>3 DEF Write
<1> QED
  BY <1>1, <1>2, <1>3 DEF Next, PInv

\* A 200 to PATCH shows the text it set or an invoice that another request
\* wrote meanwhile, for any overlap of any number of handlers.
THEOREM PatchesShowTheirWrites == Spec => []RenameShowsItsWrite
<1>1. Init => PInv
  BY InitInv DEF Init, PInv, OwnOrTouched, Patching, RenameShowsItsWrite
<1>2. PInv => RenameShowsItsWrite
  BY DEF PInv
<1> QED
  BY <1>1, <1>2, NextPatch, PTL DEF Spec

---------------------------------------------------------------------------
(* A walk through the pages, and the other client.                         *)

Rows == {i \in Ids : Live(i)}

\* The rows that every reply lists before i, and how many.
Above(i) == {j \in Rows : Rank[invoices[j]] > Rank[invoices[i]]}

Place(i) == Cardinality(Above(i))

\* While a walk is under way, MissesOnlyForMoved says nothing: what has to hold
\* is that the rows it will miss, those it has passed and not been given, are no
\* more than have lost their text, and that no tie hides one.
WalkInv ==
  /\ stayed \subseteq Ids /\ moved \in Nat
  /\ IF offset = None THEN Cardinality(stayed \ seen) <= moved
     ELSE /\ offset \in Nat /\ \A i \in stayed : Untied(i)
          /\ Cardinality({i \in stayed \ seen : Place(i) < offset}) <= moved

\* Sets of ids are finite.
LEMMA IdsCount ==
  ASSUME NEW S \in SUBSET Ids
  PROVE  /\ IsFiniteSet(S) /\ Cardinality(S) \in Nat
         /\ Cardinality(S) <= MaxInvoices
<1>1. IsFiniteSet(Ids) /\ Cardinality(Ids) = MaxInvoices
  BY InvoicesAssumption, FS_Interval DEF Ids
<1> QED
  BY <1>1, FS_Subset, FS_CardinalityType

LEMMA RankType ==
  ASSUME TypeOK, NEW i \in Rows
  PROVE  Rank[invoices[i]] \in Nat
<1>1. invoices[i] \in Texts
  BY DEF TypeOK, Rows, Live
<1> QED
  BY <1>1, InvoicesAssumption

LEMMA PlaceType ==
  ASSUME NEW i
  PROVE  /\ Above(i) \in SUBSET Ids /\ Above(i) \in SUBSET Rows
         /\ IsFiniteSet(Above(i)) /\ Place(i) \in Nat
<1>1. Above(i) \in SUBSET Ids /\ Above(i) \in SUBSET Rows
  BY DEF Above, Rows
<1> QED
  BY <1>1, IdsCount DEF Place

\* A row has one place more below it than the rows above it.
LEMMA PlaceCounts ==
  ASSUME TypeOK, NEW i \in Rows, NEW S \in SUBSET Ids, i \in S, Above(i) \subseteq S
  PROVE  Place(i) + 1 <= Cardinality(S)
<1>1. i \notin Above(i)
  <2>1. Rank[invoices[i]] \in Nat
    BY RankType
  <2> QED
    BY <2>1 DEF Above
<1>2. Cardinality(Above(i) \cup {i}) = Place(i) + 1
  BY <1>1, PlaceType, FS_AddElement DEF Place
<1>3. Above(i) \cup {i} \in SUBSET S
  OBVIOUS
<1>4. IsFiniteSet(S)
  BY IdsCount
<1> QED
  BY <1>2, <1>3, <1>4, FS_Subset

\* Rows whose texts no other row's text equals have places of their own.
LEMMA PlaceInjective ==
  ASSUME TypeOK, NEW i \in Ids, NEW j \in Ids, Untied(i), Untied(j), Place(i) = Place(j)
  PROVE  i = j
<1> SUFFICES ASSUME i # j PROVE FALSE
  OBVIOUS
<1>1. i \in Rows /\ j \in Rows /\ Rank[invoices[i]] # Rank[invoices[j]]
  BY DEF Untied, Rows
<1>2. Rank[invoices[i]] \in Nat /\ Rank[invoices[j]] \in Nat
  BY <1>1, RankType
<1>3. ASSUME NEW h \in Rows, NEW l \in Rows, Rank[invoices[h]] > Rank[invoices[l]]
      PROVE  Place(h) < Place(l)
  <2>1. h \in Above(l)
    BY <1>3 DEF Above
  <2>2. Above(h) \subseteq Above(l)
    <3> SUFFICES ASSUME NEW k \in Above(h) PROVE k \in Above(l)
      OBVIOUS
    <3>1. k \in Rows /\ Rank[invoices[k]] > Rank[invoices[h]]
      BY DEF Above
    <3>2. /\ Rank[invoices[k]] \in Nat /\ Rank[invoices[h]] \in Nat
          /\ Rank[invoices[l]] \in Nat
      BY <3>1, RankType
    <3> QED
      BY <1>3, <3>1, <3>2 DEF Above
  <2>3. Place(h) + 1 <= Place(l)
    BY <2>1, <2>2, PlaceType, PlaceCounts DEF Place
  <2>4. Place(h) \in Nat /\ Place(l) \in Nat
    BY PlaceType
  <2> QED
    BY <2>3, <2>4
<1>4. Place(i) \in Nat /\ Place(j) \in Nat
  BY PlaceType
<1>5. Place(i) < Place(j) \/ Place(j) < Place(i)
  BY <1>1, <1>2, <1>3
<1> QED
  BY <1>4, <1>5

\* Such rows in an interval of places are no more than the interval is long.
LEMMA PlacesBound ==
  ASSUME TypeOK, NEW D \in SUBSET Ids, NEW a \in Nat, NEW n \in Nat,
         \A i \in D : Untied(i) /\ a <= Place(i) /\ Place(i) < a + n
  PROVE  Cardinality(D) <= n
<1> DEFINE f == [i \in D |-> Place(i)]
<1>1. f \in [D -> a..(a + n - 1)]
  <2>1. \A i \in D : Place(i) \in Nat
    BY PlaceType
  <2>2. \A i \in D : Place(i) \in a..(a + n - 1)
    BY <2>1
  <2> QED
    BY <2>2
<1>2. \A i, j \in D : f[i] = f[j] => i = j
  BY PlaceInjective
<1>3. f \in Injection(D, a..(a + n - 1))
  BY <1>1, <1>2 DEF Injection, IsInjective
<1>4. IsFiniteSet(a..(a + n - 1)) /\ Cardinality(a..(a + n - 1)) = n
  BY FS_Interval
<1> QED
  BY <1>3, <1>4, FS_Injection

\* However ties are broken, the first k rows include an untied row if and only
\* if fewer than k rows are above it.
LEMMA TopsHold ==
  ASSUME TypeOK, NEW k \in Nat, NEW T \in Tops(Rows, k), NEW i \in Ids, Untied(i)
  PROVE  i \in T <=> Place(i) < k
<1>1. /\ T \in SUBSET Rows /\ T \in SUBSET Ids /\ Rows \in SUBSET Ids /\ i \in Rows
      /\ Cardinality(T) = IF k < Cardinality(Rows) THEN k ELSE Cardinality(Rows)
      /\ \A j \in T, l \in Rows \ T : Rank[invoices[j]] >= Rank[invoices[l]]
  BY DEF Tops, Rows, Untied
<1>2. /\ Cardinality(T) \in Nat /\ Cardinality(Rows) \in Nat /\ Place(i) \in Nat
      /\ IsFiniteSet(T) /\ IsFiniteSet(Rows)
  BY <1>1, IdsCount, PlaceType
<1>3. \A j \in Rows : Rank[invoices[j]] \in Nat
  BY RankType
<1>4. CASE i \in T
  <2>1. Above(i) \subseteq T
    <3> SUFFICES ASSUME NEW j \in Above(i), j \notin T PROVE FALSE
      OBVIOUS
    <3>1. j \in Rows /\ Rank[invoices[j]] > Rank[invoices[i]]
      BY DEF Above
    <3>2. Rank[invoices[i]] >= Rank[invoices[j]]
      BY <1>1, <1>4, <3>1
    <3>3. Rank[invoices[i]] \in Nat /\ Rank[invoices[j]] \in Nat
      BY <1>1, <1>3, <3>1
    <3> QED
      BY <3>1, <3>2, <3>3
  <2>2. Place(i) + 1 <= Cardinality(T)
    BY <1>1, <1>4, <2>1, PlaceCounts
  <2> QED
    BY <1>1, <1>2, <1>4, <2>2
<1>5. CASE i \notin T
  <2>1. T \in SUBSET Above(i)
    <3> SUFFICES ASSUME NEW j \in T PROVE j \in Above(i)
      OBVIOUS
    <3>1. j \in Rows /\ j # i /\ Rank[invoices[j]] >= Rank[invoices[i]]
      BY <1>1, <1>5
    <3>2. Rank[invoices[j]] # Rank[invoices[i]]
      BY <1>1, <3>1 DEF Untied, Rows
    <3>3. Rank[invoices[i]] \in Nat /\ Rank[invoices[j]] \in Nat
      BY <1>1, <1>3, <3>1
    <3> QED
      BY <3>1, <3>2, <3>3 DEF Above
  <2>2. Cardinality(T) <= Place(i)
    BY <2>1, PlaceType, FS_Subset DEF Place
  <2>3. Place(i) + 1 <= Cardinality(Rows)
    BY <1>1, PlaceType, PlaceCounts
  <2> QED
    BY <1>1, <1>2, <1>5, <2>2, <2>3
<1> QED
  BY <1>4, <1>5

\* A page holds the untied rows of its places, and a short page ends the list.
LEMMA PageHolds ==
  ASSUME TypeOK, NEW n \in Nat, NEW o \in Nat, NEW page \in Pages(Rows, n, o)
  PROVE  /\ \A i \in Ids : Untied(i) => (i \in page <=> o <= Place(i) /\ Place(i) < o + n)
         /\ Cardinality(page) < n => \A i \in Rows : Untied(i) => Place(i) < o + n
<1>1. PICK T \in Tops(Rows, o) :
        \E U \in Tops(Rows, o + n) : T \subseteq U /\ page = U \ T
  BY DEF Pages
<1>2. PICK U \in Tops(Rows, o + n) : T \subseteq U /\ page = U \ T
  BY <1>1
<1>3. /\ o + n \in Nat
      /\ U \in SUBSET Rows /\ Rows \in SUBSET Ids /\ U \in SUBSET Ids /\ T \in SUBSET Ids
      /\ Cardinality(T) = IF o < Cardinality(Rows) THEN o ELSE Cardinality(Rows)
      /\ Cardinality(U) = IF o + n < Cardinality(Rows) THEN o + n ELSE Cardinality(Rows)
  BY <1>1, <1>2 DEF Tops, Rows
<1>4. ASSUME NEW i \in Ids, Untied(i)
      PROVE  i \in page <=> o <= Place(i) /\ Place(i) < o + n
  <2>1. (i \in T <=> Place(i) < o) /\ (i \in U <=> Place(i) < o + n)
    BY <1>3, <1>4, TopsHold
  <2>2. Place(i) \in Nat
    BY PlaceType
  <2> QED
    BY <1>2, <2>1, <2>2
<1>5. ASSUME Cardinality(page) < n, NEW i \in Rows, Untied(i)
      PROVE  Place(i) < o + n
  <2>1. /\ IsFiniteSet(U) /\ IsFiniteSet(Rows)
        /\ Cardinality(U) \in Nat /\ Cardinality(T) \in Nat /\ Cardinality(Rows) \in Nat
        /\ Cardinality(page) \in Nat
    BY <1>2, <1>3, IdsCount
  <2>2. U \cap T = T
    BY <1>2
  <2>3. Cardinality(page) = Cardinality(U) - Cardinality(T)
    <3>1. Cardinality(U \ T) = Cardinality(U) - Cardinality(U \cap T)
      BY <2>1, FS_Difference, Zenon
    <3> QED
      BY <1>2, <2>2, <3>1
  <2>4. Cardinality(U) = Cardinality(Rows)
    BY <1>3, <1>5, <2>1, <2>3
  <2>5. U = Rows
    BY <1>3, <2>1, <2>4, FS_Subset
  <2> QED
    BY <1>3, <1>5, <2>5, TopsHold DEF Rows
<1> QED
  BY <1>4, <1>5

\* A full page passes its own untied rows, and the client is given them; a
\* short page has no untied row after it.
LEMMA WalkKeeps ==
  ASSUME TypeOK, WalkInv, Walk
  PROVE  WalkInv'
<1> DEFINE n == Limit(Size)
           passed == {i \in stayed \ seen : Place(i) < offset}
<1>1. Matching(Absent, Absent) = Rows
  BY DEF Matching, Rows
<1>2. n \in Nat \ {0}
  BY InvoicesAssumption, InvoiceClientsAssumption DEF Limit, IntWithDefault
<1>3. PICK page \in Pages(Rows, n, offset) :
        /\ seen' = seen \cup page
        /\ offset' = IF Cardinality(page) < n THEN None ELSE offset + n
  BY <1>1 DEF Walk
<1>4. offset # None /\ UNCHANGED <<invoices, stayed, moved>>
  BY DEF Walk, tableVars
<1>5. /\ offset \in Nat /\ stayed \subseteq Ids /\ moved \in Nat
      /\ \A i \in stayed : Untied(i)
      /\ Cardinality(passed) <= moved
  BY <1>4 DEF WalkInv
<1>6. \A i \in stayed : i \in page <=> offset <= Place(i) /\ Place(i) < offset + n
  BY <1>2, <1>3, <1>5, PageHolds
<1>7. \A i \in stayed : Place(i) \in Nat
  BY PlaceType
<1>8. ASSUME NEW D \in SUBSET passed PROVE Cardinality(D) <= moved
  <2>1. passed \in SUBSET Ids /\ D \in SUBSET Ids
    BY <1>5
  <2>2. IsFiniteSet(passed) /\ Cardinality(passed) \in Nat /\ Cardinality(D) \in Nat
    BY <2>1, IdsCount
  <2>3. Cardinality(D) <= Cardinality(passed)
    BY <2>2, FS_Subset
  <2> QED
    BY <1>5, <2>2, <2>3
<1>9. CASE Cardinality(page) < n
  <2>1. \A i \in stayed : Place(i) < offset + n
    BY <1>2, <1>3, <1>5, <1>9, PageHolds DEF Rows, Untied
  <2>2. stayed' \ seen' \in SUBSET passed
    <3> SUFFICES ASSUME NEW i \in stayed, i \notin seen, i \notin page
                 PROVE  Place(i) < offset
      BY <1>3, <1>4
    <3> HIDE DEF n
    <3> QED
      BY <1>2, <1>5, <1>6, <1>7, <2>1
  <2>3. Cardinality(stayed' \ seen') <= moved'
    BY <1>4, <1>8, <2>2
  <2> QED
    BY <1>3, <1>4, <1>5, <1>9, <2>3 DEF WalkInv
<1>10. CASE ~(Cardinality(page) < n)
  <2>1. offset' = offset + n /\ offset' \in Nat /\ offset' # None
    BY <1>2, <1>3, <1>5, <1>10, InvoiceClientsAssumption
  <2>2. {i \in stayed' \ seen' : Place(i) < offset'} \in SUBSET passed
    <3> SUFFICES ASSUME NEW i \in stayed, i \notin seen, i \notin page,
                        Place(i) < offset + n
                 PROVE  Place(i) < offset
      BY <1>3, <1>4, <2>1
    <3> HIDE DEF n
    <3> QED
      BY <1>2, <1>5, <1>6, <1>7
  <2>3. Cardinality({i \in stayed' \ seen' : Place(i) < offset'}) <= moved'
    BY <1>4, <1>8, <2>2
  <2>4. \A i : Place(i)' = Place(i) /\ (Untied(i)' <=> Untied(i))
    BY <1>4 DEF Place, Above, Rows, Live, Untied
  <2>5. Cardinality({i \in stayed' \ seen' : Place(i)' < offset'}) <= moved'
    BY <2>3, <2>4
  <2> QED
    BY <1>4, <1>5, <2>1, <2>4, <2>5 DEF WalkInv
<1> QED
  BY <1>9, <1>10

\* A row that keeps its text moves up by no more places than rows have lost
\* theirs.
LEMMA PlaceAfterLoss ==
  ASSUME NEW i, NEW left \in SUBSET Ids, Live(i), i \notin left,
         \A j \in Rows \ left : invoices'[j] = invoices[j], i \in Rows
  PROVE  /\ Place(i)' \in Nat
         /\ Place(i) <= Place(i)' + Cardinality(left)
<1>1. Above(i)' \in SUBSET Ids
  BY DEF Above, Rows
<1>2. Above(i) \in SUBSET (Above(i)' \cup left)
  BY DEF Above, Rows, Live
<1>3. /\ IsFiniteSet(Above(i)') /\ IsFiniteSet(left)
      /\ Cardinality(Above(i)') \in Nat /\ Cardinality(left) \in Nat /\ Place(i) \in Nat
  BY <1>1, IdsCount, PlaceType
<1>4. /\ IsFiniteSet(Above(i)' \cup left)
      /\ Cardinality(Above(i)' \cup left) =
           Cardinality(Above(i)') + Cardinality(left) - Cardinality(Above(i)' \cap left)
  BY <1>3, FS_Union
<1>5. Cardinality(Above(i)' \cap left) \in Nat
  BY <1>3, FS_Intersection, FS_CardinalityType
<1>6. Place(i) <= Cardinality(Above(i)' \cup left)
  BY <1>2, <1>4, FS_Subset DEF Place
<1>7. Place(i)' = Cardinality(Above(i)')
  BY DEF Place
<1> QED
  BY <1>3, <1>4, <1>5, <1>6, <1>7

\* When rows lose their text, the untied rows that move to places the walk has
\* passed are no more than those.
LEMMA NoteKeeps ==
  ASSUME TypeOK, WalkInv, Note
  PROVE  WalkInv'
<1>1. CASE offset = None
  BY <1>1 DEF Note, WalkInv, walkVars
<1>2. CASE offset # None
  <2> DEFINE left == {i \in Ids : Live(i) /\ invoices[i] # invoices'[i]}
             k == Cardinality(left)
             passed == {i \in stayed \ seen : Place(i) < offset}
             next == {i \in stayed' \ seen : Place(i)' < offset}
             skipped == {i \in next : offset <= Place(i)}
  <2>1. /\ stayed' = {i \in stayed \ left : Untied(i)'}
        /\ moved' = IF moved + k > MaxInvoices THEN MaxInvoices ELSE moved + k
        /\ UNCHANGED <<offset, seen>>
    BY <1>2 DEF Note
  <2>2. /\ offset \in Nat /\ stayed \subseteq Ids /\ moved \in Nat
        /\ \A i \in stayed : Untied(i) /\ i \in Rows /\ Live(i)
        /\ Cardinality(passed) <= moved
    BY <1>2 DEF WalkInv, Untied, Rows
  <2>3. left \in SUBSET Ids /\ \A j \in Rows \ left : invoices'[j] = invoices[j]
    BY DEF Rows
  <2> HIDE DEF left
  <2>4. \A i \in stayed' : /\ i \in stayed /\ Place(i) \in Nat /\ Place(i)' \in Nat
                           /\ Place(i) <= Place(i)' + k
    BY <2>1, <2>2, <2>3, PlaceType, PlaceAfterLoss
  <2>5. passed \in SUBSET Ids /\ skipped \in SUBSET Ids /\ next \in SUBSET Ids
    BY <2>2, <2>4
  <2>6. /\ IsFiniteSet(passed) /\ Cardinality(passed) \in Nat
        /\ IsFiniteSet(skipped) /\ Cardinality(skipped) \in Nat
        /\ Cardinality(next) \in Nat /\ Cardinality(next) <= MaxInvoices
        /\ k \in Nat /\ MaxInvoices \in Nat
    BY <2>3, <2>5, IdsCount, InvoicesAssumption
  <2>7. Cardinality(skipped) <= k
    <3>1. \A i \in skipped : Untied(i) /\ offset <= Place(i) /\ Place(i) < offset + k
      <4> HIDE DEF k
      <4> QED
        BY <2>2, <2>4, <2>6
    <3> HIDE DEF skipped, k
    <3> QED
      BY <2>2, <2>5, <2>6, <3>1, PlacesBound
  <2>8. next \in SUBSET (passed \cup skipped)
    BY <2>2, <2>4
  <2>9. Cardinality(next) <= moved + k
    <3> HIDE DEF passed, next, skipped, k
    <3>1. /\ IsFiniteSet(passed \cup skipped)
          /\ Cardinality(passed \cup skipped) =
               Cardinality(passed) + Cardinality(skipped) - Cardinality(passed \cap skipped)
      BY <2>6, FS_Union
    <3>2. Cardinality(passed \cap skipped) \in Nat /\ Cardinality(passed \cup skipped) \in Nat
      BY <2>6, <3>1, FS_Intersection, FS_CardinalityType
    <3>3. Cardinality(next) <= Cardinality(passed \cup skipped)
      BY <2>8, <3>1, FS_Subset
    <3> QED
      BY <2>2, <2>6, <2>7, <3>1, <3>2, <3>3
  <2>10. moved' \in Nat /\ Cardinality(next) <= moved'
    <3> HIDE DEF k, next
    <3> QED
      BY <2>1, <2>2, <2>6, <2>9
  <2>11. stayed' \subseteq Ids /\ \A i \in stayed' : Untied(i)'
    BY <2>1, <2>2
  <2> QED
    BY <1>2, <2>1, <2>2, <2>10, <2>11 DEF WalkInv
<1> QED
  BY <1>1, <1>2

\* The walk needs the types of the table, and those need DrawnIsFree.
CInv == IInv /\ WalkInv

\* A step of a client leaves the table alone.
LEMMA TableStays ==
  ASSUME IInv, UNCHANGED tableVars
  PROVE  IInv'
BY DEF tableVars, IInv, TypeOK, DrawnIsFree, Live, Creating

\* The walk is what it was as long as the rows are.
LEMMA WalkStays ==
  ASSUME WalkInv, UNCHANGED <<invoices, walkVars>>
  PROVE  WalkInv'
<1>1. \A i : Place(i)' = Place(i) /\ (Untied(i)' <=> Untied(i))
  BY DEF Place, Above, Rows, Live, Untied
<1> QED
  BY <1>1 DEF WalkInv, walkVars

\* A walk that begins has passed nothing.
LEMMA StartKeeps ==
  ASSUME Start
  PROVE  WalkInv'
<1>1. /\ offset' = 0 /\ seen' = {} /\ moved' = 0 /\ UNCHANGED invoices
      /\ stayed' = {i \in Ids : Untied(i)} /\ 0 # None
  BY InvoiceClientsAssumption DEF Start, tableVars
<1>2. \A i : Place(i)' = Place(i) /\ Place(i) \in Nat /\ (Untied(i)' <=> Untied(i))
  BY <1>1, PlaceType DEF Place, Above, Rows, Live, Untied
<1>3. {i \in stayed' \ seen' : Place(i)' < offset'} = {}
  BY <1>1, <1>2
<1>4. Cardinality({i \in stayed' \ seen' : Place(i)' < offset'}) = 0
  BY <1>3, FS_EmptySet
<1> QED
  BY <1>1, <1>2, <1>4 DEF WalkInv

LEMMA ClientsInvariance == ClientsSpec => []CInv
<1>1. ClientsInit => CInv
  <2> SUFFICES ASSUME ClientsInit PROVE CInv
    OBVIOUS
  <2>1. /\ stayed \ seen = {} /\ stayed \subseteq Ids /\ moved = 0 /\ offset = None
    BY DEF ClientsInit
  <2>2. Cardinality(stayed \ seen) <= moved
    BY <2>1, FS_EmptySet
  <2> QED
    BY <2>1, <2>2, InitInv DEF ClientsInit, CInv, WalkInv
<1>2. CInv /\ [ClientsNext]_clientVars => CInv'
  <2> SUFFICES ASSUME CInv, [ClientsNext]_clientVars PROVE CInv'
    OBVIOUS
  <2> USE DEF CInv
  <2>1. CASE UNCHANGED clientVars
    BY <2>1, TableStays, WalkStays DEF clientVars, vars, tableVars
  <2>2. CASE Other
    BY <2>2, NextInv, NoteKeeps DEF Other, IInv
  <2>3. CASE Start
    BY <2>3, TableStays, StartKeeps DEF Start
  <2>4. CASE Walk
    BY <2>4, TableStays, WalkKeeps DEF Walk, IInv
  <2>5. ASSUME NEW l \in Lookups, Lookup(l) \/ Serve(l) \/ Relay(l) \/ Timeout(l)
        PROVE  CInv'
    <3>1. UNCHANGED <<tableVars, walkVars>>
      BY <2>5 DEF Lookup, Serve, Relay, Timeout, Step
    <3> QED
      BY <3>1, TableStays, WalkStays DEF tableVars
  <2> QED
    BY <2>1, <2>2, <2>3, <2>4, <2>5 DEF ClientsNext
<1> QED
  BY <1>1, <1>2, PTL DEF ClientsSpec

\* A client that reads a list to its end, page by page, misses no more of the
\* invoices that kept a text of their own than rows that were deleted or renamed
\* meanwhile, for any table, page size and way of breaking ties.
THEOREM WalksMissOnlyMoved == ClientsSpec => []MissesOnlyForMoved
<1>1. CInv => MissesOnlyForMoved
  BY DEF CInv, WalkInv, MissesOnlyForMoved
<1> QED
  BY <1>1, ClientsInvariance, PTL

\* A step of a client keeps what PATCHes rely on.
LEMMA ClientsKeepPInv == PInv /\ [ClientsNext]_clientVars => PInv'
<1> SUFFICES ASSUME PInv, [ClientsNext]_clientVars PROVE PInv'
  OBVIOUS
<1>1. CASE [Next]_vars
  BY <1>1, NextPatch
<1>2. CASE UNCHANGED tableVars /\ reply' = None
  <2>1. IInv'
    BY <1>2, TableStays DEF PInv
  <2> QED
    BY <1>2, <2>1 DEF PInv, tableVars, OwnOrTouched, OwnOrTouchedBy, Patching, RenameShowsItsWrite,
       Numbered, Live
<1>3. [Next]_vars \/ (UNCHANGED tableVars /\ reply' = None)
  BY DEF ClientsNext, clientVars, Other, Start, Walk, Lookup, Serve, Relay, Timeout, Step, Silent
<1> QED
  BY <1>1, <1>2, <1>3

\* Whatever the clients do, a 200 to PATCH shows the text it set or an invoice
\* that another request wrote meanwhile, as it does without them.
THEOREM ClientsLeavePatchesAlone == ClientsSpec => []RenameShowsItsWrite
<1>1. ClientsInit => PInv
  BY InitInv DEF ClientsInit, Init, PInv, OwnOrTouched, Patching, RenameShowsItsWrite
<1>2. PInv => RenameShowsItsWrite
  BY DEF PInv
<1> QED
  BY <1>1, <1>2, ClientsKeepPInv, PTL DEF ClientsSpec

---------------------------------------------------------------------------
(* RateLimiter, in front of every handler: any number of clients, replicas *)
(* and goroutines, any rate and burst, a clock that runs arbitrarily long. *)

\* A goroutine past getLimiter has a bucket, and no time lies in the future.
InProgress ==
  \A h \in Handlers :
    /\ pc[h] # "idle" => client[h] \in Clients /\ clients[Bucket(h)] # NoLimiter
    /\ stamp[h] <= now

BucketsAreSane ==
  \A b \in Buckets :
    /\ clients[b] = NoLimiter => served[b] = 0
    /\ clients[b] # NoLimiter => clients[b].last <= now

LimiterInv == LimiterTypeOK /\ InProgress /\ BucketsAreSane /\ Balanced

---------------------------------------------------------------------------
(* Arithmetic of the bucket.                                               *)

LEMMA CapacityIsNat == Burst * Unit \in Nat /\ Unit \in Nat /\ Unit > 0
BY RateLimiterAssumption

\* Refilling keeps the capacity and adds no more than the elapsed time.
LEMMA RefillBounds ==
  ASSUME NEW l \in Limiters, NEW t \in Nat
  PROVE  /\ Refilled(l, t) \in 0..(Burst * Unit)
         /\ Refilled(l, t) <= l.tokens + (IF t > l.last THEN t - l.last ELSE 0)
<1> DEFINE cap == Burst * Unit
<1>1. cap \in Nat
  BY CapacityIsNat
<1>2. l.tokens \in 0..cap /\ l.last \in Nat
  BY DEF Limiters
<1>3. Refilled(l, t) = LET tokens == l.tokens + (IF t > l.last THEN t - l.last ELSE 0)
                       IN  IF tokens > cap THEN cap ELSE tokens
  BY DEF Refilled
<1> HIDE DEF cap
<1>4. Refilled(l, t) \in 0..cap /\ Refilled(l, t) <= l.tokens + (IF t > l.last THEN t - l.last ELSE 0)
  BY <1>1, <1>2, <1>3
<1> QED
  BY <1>4 DEF cap

LEMMA OneMore == ASSUME NEW n \in Nat PROVE Unit * (n + 1) = Unit * n + Unit /\ Unit * n \in Nat
BY CapacityIsNat

LEMMA FullIsLimiter == FullLimiter \in Limiters /\ FullLimiter # NoLimiter
BY CapacityIsNat, RateLimiterAssumption DEF FullLimiter, Limiters

LEMMA LimiterInitInv == LimiterInit => LimiterInv
BY RateLimiterAssumption
   DEF LimiterInit, LimiterInv, LimiterTypeOK, InProgress, BucketsAreSane, Balanced

LEMMA GetLimiterPreserves ==
  ASSUME LimiterInv, NEW h \in Handlers, GetLimiter(h)
  PROVE  LimiterInv'
<1> USE DEF LimiterInv
<1>1. PICK c \in Clients :
        /\ client' = [client EXCEPT ![h] = c]
        /\ clients' = [clients EXCEPT ![<<ReplicaOf[h], c>>] = LimiterOf(<<ReplicaOf[h], c>>)]
  BY DEF GetLimiter
<1> DEFINE b == <<ReplicaOf[h], c>>
<1>2. b \in Buckets /\ \A g \in Handlers : client[g] \in Clients => Bucket(g) \in Buckets
  BY RateLimiterAssumption DEF Buckets, Bucket
<1>3. UNCHANGED <<now, stamp, served, slip>> /\ pc' = [pc EXCEPT ![h] = "limiter"]
  BY DEF GetLimiter
<1>4. LimiterOf(b) \in Limiters /\ LimiterOf(b) # NoLimiter
  BY <1>2, FullIsLimiter DEF LimiterOf, LimiterTypeOK
<1> HIDE DEF b
<1>5. clients' = [clients EXCEPT ![b] = LimiterOf(b)]
  BY <1>1 DEF b
<1>6. LimiterTypeOK'
  BY <1>1, <1>2, <1>3, <1>4, <1>5 DEF LimiterTypeOK
<1>7. \A d \in Buckets : clients[d] # NoLimiter => clients'[d] = clients[d]
  BY <1>2, <1>5 DEF LimiterOf, LimiterTypeOK
<1>8. clients'[b] # NoLimiter /\ \A d \in Buckets \ {b} : clients'[d] = clients[d]
  BY <1>2, <1>4, <1>5 DEF LimiterTypeOK
<1>9. InProgress'
  <2> SUFFICES ASSUME NEW g \in Handlers
               PROVE  /\ pc'[g] # "idle" => client'[g] \in Clients /\ clients'[Bucket(g)'] # NoLimiter
                      /\ stamp'[g] <= now'
    BY DEF InProgress
  <2>1. CASE g = h
    <3>1. Bucket(g)' = b /\ client'[g] = c
      BY <1>1, <2>1 DEF Bucket, LimiterTypeOK, b
    <3> QED
      BY <1>3, <1>8, <2>1, <3>1 DEF InProgress
  <2>2. CASE g # h
    <3>1. Bucket(g)' = Bucket(g) /\ client'[g] = client[g] /\ pc'[g] = pc[g]
      BY <1>1, <1>3, <2>2 DEF Bucket, LimiterTypeOK
    <3> QED
      BY <1>2, <1>3, <1>7, <3>1 DEF InProgress
  <2> QED
    BY <2>1, <2>2
<1>10. clients[b] = NoLimiter => clients'[b] = FullLimiter
  BY <1>2, <1>5 DEF LimiterOf, LimiterTypeOK
<1>11. FullLimiter.last = 0 /\ FullLimiter.tokens = Burst * Unit
  BY DEF FullLimiter
<1>12. BucketsAreSane'
  BY <1>2, <1>3, <1>7, <1>8, <1>10, <1>11 DEF BucketsAreSane, LimiterTypeOK
<1>13. ASSUME NEW d \in Buckets, clients'[d] # NoLimiter
       PROVE  Unit * served'[d] + clients'[d].tokens <= Burst * Unit + clients'[d].last + slip'[d]
  <2>1. CASE clients[d] # NoLimiter
    BY <1>3, <1>7, <2>1 DEF Balanced
  <2>2. CASE clients[d] = NoLimiter
    <3>1. d = b /\ served'[d] = 0 /\ slip'[d] \in Nat
      BY <1>3, <1>8, <1>13, <2>2 DEF BucketsAreSane, LimiterTypeOK
    <3> QED
      BY <1>10, <1>11, <2>2, <3>1, CapacityIsNat
  <2> QED
    BY <2>1, <2>2
<1> QED
  BY <1>6, <1>9, <1>12, <1>13 DEF Balanced

LEMMA ReadClockPreserves ==
  ASSUME LimiterInv, NEW h \in Handlers, ReadClock(h)
  PROVE  LimiterInv'
<1> USE DEF LimiterInv
<1>1. LimiterTypeOK'
  BY DEF ReadClock, LimiterTypeOK
<1>2. InProgress'
  BY DEF ReadClock, InProgress, LimiterTypeOK, Bucket
<1>3. BucketsAreSane' /\ Balanced'
  BY DEF ReadClock, BucketsAreSane, Balanced
<1> QED
  BY <1>1, <1>2, <1>3

\* A grant spends one token and moves the bucket's time to the stamp, forward
\* or backward: the account of the bucket stays balanced.
LEMMA AllowPreserves ==
  ASSUME LimiterInv, NEW h \in Handlers, pc[h] = "stamped", Allow(h)
  PROVE  /\ clients' \in [Buckets -> Limiters \cup {NoLimiter}]
         /\ served' \in [Buckets -> Nat] /\ slip' \in [Buckets -> Nat]
         /\ \A b \in Buckets : clients'[b] = NoLimiter <=> clients[b] = NoLimiter
         /\ \A b \in Buckets : clients[b] = NoLimiter => served'[b] = 0
         /\ \A b \in Buckets : clients[b] # NoLimiter => clients'[b].last <= now
         /\ Balanced'
<1> USE DEF LimiterInv
<1> DEFINE b == Bucket(h)
           l == clients[b]
           t == stamp[h]
           tokens == Refilled(l, t)
           back == IF t < l.last THEN l.last - t ELSE 0
           new == [tokens |-> tokens - Unit, last |-> t]
           cap == Burst * Unit
<1>1. b \in Buckets /\ l \in Limiters
  BY RateLimiterAssumption DEF InProgress, LimiterTypeOK, Buckets, Bucket
<1>2. t \in Nat /\ t <= now /\ now \in Nat /\ cap \in Nat /\ Unit \in Nat /\ Unit > 0
  BY CapacityIsNat, RateLimiterAssumption DEF InProgress, LimiterTypeOK
<1>3. /\ clients' = [clients EXCEPT ![b] = new]
      /\ slip' = [slip EXCEPT ![b] = @ + back]
      /\ served' = [served EXCEPT ![b] = @ + 1]
      /\ tokens >= Unit
  BY DEF Allow, Enough
<1>4. /\ tokens \in 0..cap
      /\ tokens <= l.tokens + (IF t > l.last THEN t - l.last ELSE 0)
  BY <1>1, <1>2, RefillBounds
<1>5. l.tokens \in 0..cap /\ l.last \in Nat
  BY <1>1 DEF Limiters
<1> HIDE DEF tokens, cap
<1>6. back \in Nat /\ t = l.last + (IF t > l.last THEN t - l.last ELSE 0) - back
  BY <1>2, <1>5
<1> HIDE DEF l, b, t, back
<1>7. tokens - Unit \in 0..cap
  BY <1>2, <1>3, <1>4
<1>8. new \in Limiters /\ new # NoLimiter
  BY <1>2, <1>7, RateLimiterAssumption DEF Limiters, cap
<1>9. l # NoLimiter
  BY <1>1, RateLimiterAssumption DEF Limiters
<1>10. served[b] \in Nat /\ slip[b] \in Nat
  BY <1>1 DEF LimiterTypeOK
<1>11. Unit * served[b] + l.tokens <= cap + l.last + slip[b]
  BY <1>1, <1>9 DEF Balanced, l, cap
<1>12. Unit * (served[b] + 1) + (tokens - Unit) <= cap + t + (slip[b] + back)
  <2>1. Unit * (served[b] + 1) = Unit * served[b] + Unit /\ Unit * served[b] \in Nat
    BY <1>10, OneMore
  <2> DEFINE u == Unit * served[b]
  <2> HIDE DEF u
  <2>2. u + l.tokens <= cap + l.last + slip[b] /\ u \in Nat
    BY <1>11, <2>1 DEF u
  <2>3. u + Unit + (tokens - Unit) <= cap + t + (slip[b] + back)
    BY <1>2, <1>4, <1>5, <1>6, <1>10, <2>2
  <2> QED
    BY <2>1, <2>3 DEF u
<1> HIDE DEF new
<1>13. clients'[b] = new /\ served'[b] = served[b] + 1 /\ slip'[b] = slip[b] + back
  BY <1>1, <1>3 DEF LimiterTypeOK
<1>14. \A d \in Buckets \ {b} :
         clients'[d] = clients[d] /\ served'[d] = served[d] /\ slip'[d] = slip[d]
  BY <1>3 DEF LimiterTypeOK
<1>15. new.tokens = tokens - Unit /\ new.last = t
  BY DEF new
<1>16. Balanced'
  <2> SUFFICES ASSUME NEW d \in Buckets, clients'[d] # NoLimiter
               PROVE  Unit * served'[d] + clients'[d].tokens
                        <= Burst * Unit + clients'[d].last + slip'[d]
    BY DEF Balanced
  <2>1. CASE d = b
    BY <1>12, <1>13, <1>15, <2>1 DEF cap
  <2>2. CASE d # b
    BY <1>14, <2>2 DEF Balanced
  <2> QED
    BY <2>1, <2>2
<1>17. clients' \in [Buckets -> Limiters \cup {NoLimiter}]
  BY <1>3, <1>8 DEF LimiterTypeOK
<1>18. served' \in [Buckets -> Nat] /\ slip' \in [Buckets -> Nat]
  BY <1>1, <1>3, <1>6, <1>10 DEF LimiterTypeOK
<1>19. \A d \in Buckets : clients'[d] = NoLimiter <=> clients[d] = NoLimiter
  BY <1>8, <1>9, <1>13, <1>14 DEF l
<1>20. \A d \in Buckets : clients[d] = NoLimiter => served'[d] = 0
  BY <1>9, <1>14 DEF l, BucketsAreSane
<1>21. \A d \in Buckets : clients[d] # NoLimiter => clients'[d].last <= now
  BY <1>2, <1>13, <1>14, <1>15 DEF BucketsAreSane
<1> QED
  BY <1>16, <1>17, <1>18, <1>19, <1>20, <1>21

LEMMA ReservePreserves ==
  ASSUME LimiterInv, NEW h \in Handlers, Reserve(h)
  PROVE  LimiterInv'
<1> USE DEF LimiterInv
<1>1. /\ pc[h] = "stamped" /\ now' = now
      /\ pc' = [pc EXCEPT ![h] = "idle"]
      /\ client' = [client EXCEPT ![h] = NoClient]
      /\ stamp' = [stamp EXCEPT ![h] = 0]
  BY DEF Reserve
<1>2. /\ clients' \in [Buckets -> Limiters \cup {NoLimiter}]
      /\ served' \in [Buckets -> Nat] /\ slip' \in [Buckets -> Nat]
      /\ \A b \in Buckets : clients'[b] = NoLimiter <=> clients[b] = NoLimiter
      /\ \A b \in Buckets : clients[b] = NoLimiter => served'[b] = 0
      /\ \A b \in Buckets : clients[b] # NoLimiter => clients'[b].last <= now
      /\ Balanced'
  <2>1. CASE Allow(h)
    BY <1>1, <2>1, AllowPreserves
  <2>2. CASE Deny(h)
    BY <2>2 DEF Deny, LimiterTypeOK, BucketsAreSane, Balanced
  <2> QED
    BY <2>1, <2>2 DEF Reserve
<1>3. LimiterTypeOK'
  BY <1>1, <1>2, RateLimiterAssumption DEF LimiterTypeOK
<1>4. InProgress'
  <2> SUFFICES ASSUME NEW g \in Handlers
               PROVE  /\ pc'[g] # "idle" => client'[g] \in Clients /\ clients'[Bucket(g)'] # NoLimiter
                      /\ stamp'[g] <= now'
    BY DEF InProgress
  <2>1. CASE g = h
    BY <1>1, <2>1 DEF LimiterTypeOK
  <2>2. CASE g # h
    <3>1. /\ pc'[g] = pc[g] /\ client'[g] = client[g] /\ stamp'[g] = stamp[g]
          /\ Bucket(g)' = Bucket(g)
      BY <1>1, <2>2 DEF LimiterTypeOK, Bucket
    <3>2. client[g] \in Clients => Bucket(g) \in Buckets
      BY RateLimiterAssumption DEF Bucket, Buckets
    <3> QED
      BY <1>1, <1>2, <3>1, <3>2 DEF InProgress
  <2> QED
    BY <2>1, <2>2
<1>5. BucketsAreSane'
  BY <1>1, <1>2 DEF BucketsAreSane
<1> QED
  BY <1>2, <1>3, <1>4, <1>5

LEMMA TickPreserves == ASSUME LimiterInv, Tick PROVE LimiterInv'
<1> USE DEF LimiterInv
<1>1. LimiterTypeOK' /\ now <= now' /\ now \in Nat /\ now' \in Nat
  BY RateLimiterAssumption DEF Tick, LimiterTypeOK
<1>2. InProgress'
  BY <1>1 DEF Tick, InProgress, Bucket, LimiterTypeOK
<1>3. BucketsAreSane'
  <2>1. \A b \in Buckets : clients[b] # NoLimiter => clients[b].last \in Nat
    BY DEF LimiterTypeOK, Limiters
  <2> QED
    BY <1>1, <2>1 DEF Tick, BucketsAreSane
<1>4. Balanced'
  BY DEF Tick, Balanced
<1> QED
  BY <1>1, <1>2, <1>3, <1>4

LEMMA LimiterInvariance == LimiterSpec => []LimiterInv
<1>1. LimiterInv /\ [LimiterNext]_limiterVars => LimiterInv'
  <2>1. LimiterInv /\ UNCHANGED limiterVars => LimiterInv'
    BY DEF LimiterInv, limiterVars, LimiterTypeOK, InProgress, BucketsAreSane, Balanced, Bucket
  <2> QED
    BY <2>1, GetLimiterPreserves, ReadClockPreserves, ReservePreserves, TickPreserves DEF LimiterNext
<1> QED
  BY <1>1, LimiterInitInv, PTL DEF LimiterSpec

---------------------------------------------------------------------------
(* The results.                                                            *)

\* Every reachable state is well typed: no bucket exceeds its burst or goes
\* below zero.
THEOREM LimiterTypeCorrect == LimiterSpec => []LimiterTypeOK
<1>1. LimiterInv => LimiterTypeOK
  BY DEF LimiterInv
<1> QED
  BY <1>1, LimiterInvariance, PTL

\* A bucket never gives away more than its burst, the time that has passed and
\* the time that stamps out of order made it count twice.
THEOREM BucketsAreBalanced == LimiterSpec => []Balanced
<1>1. LimiterInv => Balanced
  BY DEF LimiterInv
<1> QED
  BY <1>1, LimiterInvariance, PTL

\* While its stamps arrive in order, a client is served at most the burst plus
\* one request per Unit of time on each replica.
THEOREM RateIsKept == LimiterSpec => []WithinRate
<1>1. LimiterInv => WithinRate
  <2> SUFFICES ASSUME LimiterInv, NEW b \in Buckets, slip[b] = 0
               PROVE  Unit * served[b] <= Burst * Unit + now
    BY DEF WithinRate
  <2>1. now \in Nat /\ served[b] \in Nat /\ Unit * served[b] \in Nat /\ Burst * Unit \in Nat
    BY OneMore, CapacityIsNat, RateLimiterAssumption DEF LimiterInv, LimiterTypeOK
  <2>2. CASE clients[b] = NoLimiter
    BY <2>1, <2>2, CapacityIsNat DEF LimiterInv, BucketsAreSane
  <2>3. CASE clients[b] # NoLimiter
    <3>1. clients[b].tokens \in 0..(Burst * Unit) /\ clients[b].last \in Nat /\ clients[b].last <= now
      BY <2>3 DEF LimiterInv, LimiterTypeOK, Limiters, BucketsAreSane
    <3>2. Unit * served[b] + clients[b].tokens <= Burst * Unit + clients[b].last + 0
      BY <2>3 DEF LimiterInv, Balanced
    <3> DEFINE u == Unit * served[b]
               cap == Burst * Unit
    <3> HIDE DEF u, cap
    <3>3. u + clients[b].tokens <= cap + clients[b].last /\ u \in Nat /\ cap \in Nat
          /\ clients[b].tokens \in Nat
      BY <2>1, <3>1, <3>2 DEF u, cap
    <3>4. u <= cap + now
      BY <2>1, <3>1, <3>3
    <3> QED
      BY <3>4 DEF u, cap
  <2> QED
    BY <2>2, <2>3
<1> QED
  BY <1>1, LimiterInvariance, PTL

\* A request stamped a refill interval after the last granted one is served.
THEOREM PatientClientsAreServed == LimiterSpec => PatientIsServed
<1> DEFINE Patient ==
      \A h \in Handlers :
        LET b == Bucket(h) IN
        pc[h] = "stamped" /\ pc'[h] = "idle" /\ stamp[h] >= clients[b].last + Unit
          => served'[b] = served[b] + 1
<1>1. LimiterInv /\ [LimiterNext]_limiterVars => [Patient]_limiterVars
  <2> SUFFICES ASSUME LimiterInv, LimiterNext, NEW h \in Handlers,
                      pc[h] = "stamped", pc'[h] = "idle",
                      stamp[h] >= clients[Bucket(h)].last + Unit
               PROVE  served'[Bucket(h)] = served[Bucket(h)] + 1
    OBVIOUS
  <2>1. Reserve(h)
    BY DEF LimiterNext, Tick, GetLimiter, ReadClock, Reserve, LimiterInv, LimiterTypeOK
  <2> DEFINE l == clients[Bucket(h)]
  <2>2. Bucket(h) \in Buckets /\ l \in Limiters /\ stamp[h] \in Nat
    BY RateLimiterAssumption DEF LimiterInv, InProgress, LimiterTypeOK, Buckets, Bucket
  <2>3. Refilled(l, stamp[h]) >= Unit
    <3> DEFINE cap == Burst * Unit
    <3>1. cap \in Nat /\ Unit \in Nat /\ cap >= Unit
      BY RateLimiterAssumption
    <3>2. l.tokens \in 0..cap /\ l.last \in Nat
      BY <2>2 DEF Limiters
    <3>3. Refilled(l, stamp[h])
            = LET tokens == l.tokens + (IF stamp[h] > l.last THEN stamp[h] - l.last ELSE 0)
              IN  IF tokens > cap THEN cap ELSE tokens
      BY DEF Refilled
    <3> HIDE DEF cap, l
    <3>4. stamp[h] >= l.last + Unit
      BY DEF l
    <3> QED
      BY <2>2, <3>1, <3>2, <3>3, <3>4
  <2>4. ~Deny(h)
    BY <2>3 DEF Deny, Enough
  <2> QED
    BY <2>1, <2>2, <2>4 DEF Reserve, Allow, LimiterInv, LimiterTypeOK
<1> QED
  BY <1>1, LimiterInvariance, PTL DEF LimiterSpec, PatientIsServed

=============================================================================
