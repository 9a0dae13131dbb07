--------------------------- MODULE CartApiProofs ---------------------------
(***************************************************************************)
(* Proofs about CartApi, for any requests, keys, payloads and carts, both  *)
(* handlers of a checkout and both isolation levels.  What a handler reads *)
(* without a lock is stale at worst: the owner and the currency of a cart  *)
(* never change, an id that was drawn stays free, and a row that NOCheckout *)
(* has locked stays as it was read.  The last part shows that, to clients, *)
(* the API implements IdempotentService.                                   *)
(***************************************************************************)
EXTENDS CartApi, TLAPS

\* Only the handlers that use keys get past the first step, each key is worked
\* on once, and a handler that writes has read nothing before.
WorkTrue ==
  \A r \in Requests :
    /\ pc[r] \notin {"idle", "done"} =>
         \/ Asks(r, "create")
         \/ Asks(r, "checkout") /\ CheckoutHandler = "NOCheckout"
    /\ pc[r] = "work" =>
         /\ idem[KeyOf[r]] = NoRow
         /\ \A s \in Requests \ {r} : pc[s] = "work" => KeyOf[s] # KeyOf[r]
    /\ pc[r] \notin {"work", "done"} /\ ~Asks(r, "get") => found[r] = Unread

\* The row of a key: its answer is the outcome of its payload.
RowTrue(k) ==
  LET row == idem[k] IN
  row # NoRow =>
    /\ row.state = "COMPLETED"
    /\ row.answer \in CreateAnswers =>
         /\ carts[row.answer.cart] # NoCart
         /\ row.hash.op = "create"
         /\ carts[row.answer.cart].owner = row.hash.owner
         /\ carts[row.answer.cart].currency = row.answer.currency

ReplyTrue(r) ==
  /\ reply[r] \in CreateAnswers =>
       /\ idem[KeyOf[r]] # NoRow
       /\ idem[KeyOf[r]].hash = Payload[r] /\ idem[KeyOf[r]].answer = reply[r]
  /\ Asks(r, "get") /\ reply[r] \in GetAnswers /\ reply[r].code = 200 => reply[r].totals

\* What a handler has read and what it may rely on.
FoundTrue(r) ==
  LET c == found[r].cart
      row == found[r].row IN
  found[r] # Unread =>
    /\ row # NoCart => /\ carts[c] # NoCart
                       /\ carts[c].owner = row.owner /\ carts[c].currency = row.currency
    /\ Asks(r, "get") => row # NoCart
    /\ pc[r] = "work" /\ Asks(r, "create") =>
         IF row = NoCart THEN carts[c] = NoCart ELSE row.owner = Payload[r].owner
    /\ pc[r] = "work" /\ Asks(r, "checkout") /\ row # NoCart => carts[c] = row

\* r is going to write the row of its cart.
Owns(r) ==
  /\ pc[r] = "work" /\ found[r] # Unread
  /\ Asks(r, "create") <=> found[r].row = NoCart

Apart == \A r, s \in Requests : r # s /\ Owns(r) /\ Owns(s) => found[r].cart # found[s].cart

CartTrue(c) ==
  /\ carts[c] # NoCart <=> c \in totals
  /\ creator[c] # NoReply => carts[c] # NoCart
  /\ carts[c] # NoCart =>
       /\ creator[c] \in Requests
       /\ idem[KeyOf[creator[c]]] # NoRow /\ idem[KeyOf[creator[c]]].answer.cart = c

EventsTrue == CheckoutHandler = "NOCheckout" => OneEventPerCheckedOutCart

IInv ==
  /\ TypeOK /\ WorkTrue /\ Apart /\ EventsTrue
  /\ \A k \in Idem!Keys : RowTrue(k)
  /\ \A r \in Requests : ReplyTrue(r) /\ FoundTrue(r)
  /\ \A c \in CartIds : CartTrue(c)

---------------------------------------------------------------------------
(* Types.                                                                  *)

LEMMA KeyTyped == \A r \in Requests : KeyOf[r] \in Idem!Keys /\ Payload[r] \in Idem!Hashes
BY DEF Idem!Keys, Idem!Hashes

LEMMA PayloadTyped ==
  ASSUME NEW r \in Requests
  PROVE  /\ Payload[r].op \in {"create", "checkout", "get", "edit"}
         /\ Asks(r, "create") => Payload[r].owner \in Owners /\ Payload[r].currency \in Currencies
         /\ ~Asks(r, "create") => Payload[r].cart \in CartIds
BY CartApiAssumption DEF Payloads, Asks

LEMMA RowTyped ==
  ASSUME TypeOK, NEW k \in Idem!Keys, idem[k] # NoRow
  PROVE  idem[k] \in Idem!Rows /\ idem[k].answer \in Answers /\ idem[k].hash \in Payloads
<1>1. idem[k] \in Idem!Rows
  BY DEF TypeOK, Idem!TypeOK
<1>2. idem[k].answer \in Answers /\ idem[k].hash \in Idem!Hashes
  BY <1>1 DEF Idem!Rows
<1>3. Idem!Hashes \subseteq Payloads
  BY CartApiAssumption DEF Idem!Hashes
<1> QED
  BY <1>1, <1>2, <1>3

LEMMA NoRowTyped == NoRow \notin Idem!Rows
<1>1. Idem!Hashes \subseteq Payloads
  BY CartApiAssumption DEF Idem!Hashes
<1> QED
  BY <1>1, CartApiAssumption DEF Idem!Rows

\* The answers of the other handlers are none of CreateOrGetActiveCart.
LEMMA AnswersDiffer ==
  /\ CreateAnswers \cap CheckoutAnswers = {}
  /\ CreateAnswers \cap GetAnswers = {}
  /\ Todo \notin CreateAnswers
<1>1. \A a \in CreateAnswers : DOMAIN a = {"code", "cart", "currency"}
  BY DEF CreateAnswers
<1>2. \A a \in CheckoutAnswers : DOMAIN a = {"code", "cart"}
  BY DEF CheckoutAnswers
<1>3. \A a \in GetAnswers : DOMAIN a = {"code", "row", "totals"} \/ DOMAIN a = {"code"}
  BY DEF GetAnswers
<1>4. DOMAIN Todo = {"code", "todo"}
  BY DEF Todo
<1> QED
  BY <1>1, <1>2, <1>3, <1>4

---------------------------------------------------------------------------
(* Steps of the protocol, replies and reads.                               *)

\* What a step of the protocol can do: the transaction of r goes on, or r is
\* answered without effect.
Moves(r) ==
  /\ UNCHANGED <<idem, reply>>
  /\ pc[r] \notin {"work", "done"}
  /\ \E l \in {"claim", "work"} \cup Idem!Refetching :
       /\ pc' = [pc EXCEPT ![r] = l]
       /\ l = "work" => ~Idem!InIndex(KeyOf[r])

IsAnswered(r) ==
  /\ UNCHANGED idem /\ pc[r] # "done"
  /\ \/ Idem!Reply(r, Error) \/ Idem!Reply(r, BadRequest)
     \/ /\ ~Asks(r, "get") /\ idem[KeyOf[r]] # NoRow
        /\ Idem!Reply(r, IF idem[KeyOf[r]].hash = Payload[r]
                           THEN idem[KeyOf[r]].answer ELSE Conflict)

LEMMA UseRowAnswers ==
  ASSUME IInv, NEW r \in Requests, idem[KeyOf[r]] # NoRow, Idem!UseRow(r, idem[KeyOf[r]]), UNCHANGED idem,
         ~Asks(r, "get"), pc[r] # "done"
  PROVE  IsAnswered(r)
<1>1. idem[KeyOf[r]].state = "COMPLETED"
  BY KeyTyped DEF IInv, RowTrue
<1> QED
  BY <1>1 DEF Idem!UseRow, IsAnswered

LEMMA ProtocolSteps ==
  ASSUME IInv, NEW r \in Requests, KeyStep(r)
  PROVE  \/ Moves(r) /\ \/ Asks(r, "create")
                        \/ Asks(r, "checkout") /\ CheckoutHandler = "NOCheckout"
         \/ IsAnswered(r)
<1>1. CASE Idem!Refuse(r) \/ Idem!Fail(r) \/ Idem!RefetchDeadlock(r)
  BY <1>1 DEF Idem!Refuse, Idem!Fail, Idem!RefetchDeadlock, IsAnswered
<1>2. CASE Idem!Lookup(r)
  BY <1>2, UseRowAnswers DEF Idem!Lookup, Idem!Goto, Moves, KeyStep, Keyed, Asks
<1>3. CASE Idem!Claim(r)
  BY <1>3 DEF Idem!Claim, Idem!InsertFree, Idem!Goto, Moves, IInv, WorkTrue
<1>4. CASE Idem!ClaimDuplicate(r) \/ Idem!ClaimTimeout(r) \/ Idem!ClaimDeadlock(r)
  BY <1>4 DEF Idem!ClaimDuplicate, Idem!ClaimTimeout, Idem!ClaimDeadlock, Idem!Goto, Moves,
     Idem!Refetching, IInv, WorkTrue
<1>5. CASE Idem!Refetch(r)
  BY <1>5, UseRowAnswers DEF Idem!Refetch, IsAnswered, Idem!Refetching, IInv, WorkTrue, Asks
<1> QED
  BY <1>1, <1>2, <1>3, <1>4, <1>5 DEF KeyStep, Idem!Protocol

LEMMA MovesKeeps ==
  ASSUME IInv, NEW r \in Requests, Moves(r), UNCHANGED <<carts, totals, events, found, creator>>,
         offered' \in [Requests -> SUBSET CartIds],
         Asks(r, "create") \/ (Asks(r, "checkout") /\ CheckoutHandler = "NOCheckout")
  PROVE  IInv'
<1>1. PICK l \in {"claim", "work"} \cup Idem!Refetching :
        pc' = [pc EXCEPT ![r] = l] /\ (l = "work" => ~Idem!InIndex(KeyOf[r]))
  BY DEF Moves
<1>2. UNCHANGED <<idem, reply>> /\ pc[r] \notin {"work", "done"}
  BY DEF Moves
<1>3. TypeOK'
  BY <1>1, <1>2 DEF IInv, TypeOK, Idem!TypeOK, Idem!Rows
<1>4. pc'[r] = l /\ \A s \in Requests \ {r} : pc'[s] = pc[s]
  BY <1>1 DEF IInv, TypeOK, Idem!TypeOK
<1>5. found[r] = Unread
  BY <1>2 DEF IInv, WorkTrue, Asks
<1>6. l = "work" => idem[KeyOf[r]] = NoRow /\ \A s \in Requests : pc[s] = "work" => KeyOf[s] # KeyOf[r]
  BY <1>1 DEF Idem!InIndex, Idem!Holds
<1>7. WorkTrue'
  BY <1>2, <1>4, <1>5, <1>6 DEF IInv, WorkTrue, Asks
<1>8. Apart' /\ EventsTrue'
  BY <1>4, <1>5 DEF IInv, Apart, Owns, EventsTrue, OneEventPerCheckedOutCart, Asks
<1>9. \A k \in Idem!Keys : RowTrue(k)'
  BY <1>2 DEF IInv, RowTrue
<1>10. \A s \in Requests : ReplyTrue(s)' /\ FoundTrue(s)'
  BY <1>2, <1>4, <1>5 DEF IInv, ReplyTrue, FoundTrue, Asks
<1>11. \A c \in CartIds : CartTrue(c)'
  BY <1>2 DEF IInv, CartTrue
<1> QED
  BY <1>3, <1>7, <1>8, <1>9, <1>10, <1>11 DEF IInv

\* r is answered; only the routed checkout writes meanwhile.
LEMMA AnswerKeeps ==
  ASSUME IInv, NEW r \in Requests, NEW a \in Answers \cup {BadRequest, Conflict, Error},
         Idem!Reply(r, a), UNCHANGED <<idem, carts, totals, found, creator>>,
         events' = events \/ CheckoutHandler = "Checkout", events' \in [CartIds -> Nat],
         offered' \in [Requests -> SUBSET CartIds],
         a \in CreateAnswers =>
           idem[KeyOf[r]] # NoRow /\ idem[KeyOf[r]].hash = Payload[r] /\ idem[KeyOf[r]].answer = a,
         Asks(r, "get") /\ a \in GetAnswers /\ a.code = 200 => a.totals
  PROVE  IInv'
<1>1. pc'[r] = "done" /\ \A s \in Requests \ {r} : pc'[s] = pc[s]
  BY DEF Idem!Reply, IInv, TypeOK, Idem!TypeOK
<1>2. reply'[r] = a /\ \A s \in Requests \ {r} : reply'[s] = reply[s]
  BY DEF Idem!Reply, IInv, TypeOK, Idem!TypeOK
<1>3. TypeOK'
  BY DEF Idem!Reply, IInv, TypeOK, Idem!TypeOK, Idem!Rows
<1>4. WorkTrue'
  BY <1>1 DEF IInv, WorkTrue, Asks
<1>5. Apart'
  BY <1>1 DEF IInv, Apart, Owns, Asks
<1>6. EventsTrue'
  BY DEF IInv, EventsTrue, OneEventPerCheckedOutCart
<1>7. \A k \in Idem!Keys : RowTrue(k)'
  BY DEF IInv, RowTrue
<1>8. \A s \in Requests : ReplyTrue(s)'
  BY <1>2 DEF IInv, ReplyTrue, Asks
<1>9. \A s \in Requests : FoundTrue(s)'
  BY <1>1 DEF IInv, FoundTrue, Asks
<1>10. \A c \in CartIds : CartTrue(c)'
  BY DEF IInv, CartTrue
<1> QED
  BY <1>3, <1>4, <1>5, <1>6, <1>7, <1>8, <1>9, <1>10 DEF IInv

\* A read that is not the first step of a transaction that is over.
LEMMA ReadKeeps ==
  ASSUME IInv, NEW r \in Requests, NEW c \in CartIds, Read(r, c),
         found[r] = Unread, pc[r] = "work" \/ (Asks(r, "get") /\ carts[c] # NoCart),
         Asks(r, "create") =>
           IF carts[c] = NoCart THEN c \in FreshIds ELSE carts[c].owner = Payload[r].owner,
         Asks(r, "checkout") => ~CartLocked(r, c),
         UNCHANGED <<pc, idem, reply, carts, totals, events, creator, offered>>
  PROVE  IInv'
<1>1. /\ found'[r] = [cart |-> c, row |-> carts[c]]
      /\ \A s \in Requests \ {r} : found'[s] = found[s]
  BY DEF Read, IInv, TypeOK
<1>2. found'[r].cart = c /\ found'[r].row = carts[c]
  BY <1>1
<1>3. TypeOK'
  BY DEF Read, IInv, TypeOK, Reads, Idem!TypeOK, Idem!Rows
<1>4. WorkTrue'
  BY <1>1 DEF IInv, WorkTrue, Asks
<1>5. ASSUME NEW s \in Requests \ {r}, Owns(r)', Owns(s), found[s].cart = c PROVE FALSE
  <2>1. pc[r] = "work" /\ pc[s] = "work" /\ found[s] # Unread
    BY <1>5 DEF Owns
  <2>2. CASE Asks(r, "create")
    BY <1>2, <1>5, <2>1, <2>2 DEF Owns, FreshIds, Asks
  <2>3. CASE ~Asks(r, "create")
    <3>1. carts[c] # NoCart /\ Asks(r, "checkout")
      BY <1>2, <1>5, <2>1, <2>3 DEF Owns, IInv, WorkTrue, Asks
    <3>2. CASE Asks(s, "create")
      BY <1>5, <2>1, <3>1, <3>2 DEF Owns, IInv, FoundTrue
    <3>3. CASE ~Asks(s, "create")
      BY <1>5, <2>1, <3>1, <3>3 DEF Owns, IInv, WorkTrue, CartLocked
    <3> QED
      BY <3>2, <3>3
  <2> QED
    BY <2>2, <2>3
<1>10. ASSUME NEW s \in Requests \ {r} PROVE Owns(s)' <=> Owns(s)
  BY <1>1 DEF Owns, Asks
<1>11. Apart'
  BY <1>1, <1>2, <1>5, <1>10 DEF IInv, Apart
<1>6. EventsTrue' /\ \A k \in Idem!Keys : RowTrue(k)'
  BY DEF IInv, EventsTrue, OneEventPerCheckedOutCart, RowTrue
<1>7. \A s \in Requests : ReplyTrue(s)'
  BY DEF IInv, ReplyTrue, Asks
<1>8. \A s \in Requests : FoundTrue(s)'
  <2>1. FoundTrue(r)'
    BY <1>2 DEF IInv, WorkTrue, FoundTrue, Asks
  <2>2. \A s \in Requests \ {r} : FoundTrue(s)'
    BY <1>1 DEF IInv, FoundTrue, Asks
  <2> QED
    BY <2>1, <2>2
<1>9. \A d \in CartIds : CartTrue(d)'
  BY DEF IInv, CartTrue
<1> QED
  BY <1>3, <1>4, <1>6, <1>7, <1>8, <1>9, <1>11 DEF IInv

---------------------------------------------------------------------------
(* Steps that commit.                                                      *)

\* COMMIT stores the answer under a key that had none.
LEMMA CompleteStores ==
  ASSUME IInv, NEW r \in Requests, NEW a \in Answers, Idem!Complete(r, a), UNCHANGED found
  PROVE  /\ Idem!TypeOK'
         /\ pc[r] = "work" /\ pc'[r] = "done" /\ \A s \in Requests \ {r} : pc'[s] = pc[s]
         /\ reply'[r] \in {a, Error} /\ \A s \in Requests \ {r} : reply'[s] = reply[s]
         /\ idem[KeyOf[r]] = NoRow /\ idem'[KeyOf[r]] # NoRow
         /\ idem'[KeyOf[r]] = [hash |-> Payload[r], state |-> "COMPLETED", answer |-> a]
         /\ \A k \in Idem!Keys \ {KeyOf[r]} : idem'[k] = idem[k]
         /\ WorkTrue' /\ Apart'
<1> DEFINE row == [hash |-> Payload[r], state |-> "COMPLETED", answer |-> a]
<1>1. pc[r] = "work" /\ idem' = [idem EXCEPT ![KeyOf[r]] = row]
  BY DEF Idem!Complete, Idem!CompletedRow
<1>2. PICK b \in {a, Error} : Idem!Reply(r, b)
  BY DEF Idem!Complete
<1>3. row \in Idem!Rows
  BY KeyTyped DEF Idem!Rows
<1>4. row # NoRow
  BY <1>3, NoRowTyped
<1>5. idem[KeyOf[r]] = NoRow /\ \A s \in Requests \ {r} : pc[s] = "work" => KeyOf[s] # KeyOf[r]
  BY <1>1 DEF IInv, WorkTrue
<1> HIDE DEF row
<1>6. Idem!TypeOK'
  <2>1. idem' \in [Idem!Keys -> Idem!Rows \cup {NoRow}]
    BY <1>1, <1>3, KeyTyped DEF IInv, TypeOK, Idem!TypeOK
  <2>2. pc' \in [Requests -> {"idle", "claim", "work", "done"} \cup Idem!Refetching]
    BY <1>2 DEF IInv, TypeOK, Idem!TypeOK, Idem!Reply
  <2>3. reply' \in [Requests -> Answers \cup {NoReply, BadRequest, Conflict, Error}]
    BY <1>2 DEF IInv, TypeOK, Idem!TypeOK, Idem!Reply
  <2> QED
    BY <2>1, <2>2, <2>3 DEF Idem!TypeOK, Idem!Keys, Idem!Rows, Idem!Hashes, Idem!Refetching
<1>7. /\ pc'[r] = "done" /\ \A s \in Requests \ {r} : pc'[s] = pc[s]
      /\ reply'[r] \in {a, Error} /\ \A s \in Requests \ {r} : reply'[s] = reply[s]
  BY <1>2 DEF Idem!Reply, IInv, TypeOK, Idem!TypeOK
<1>8. idem'[KeyOf[r]] = row /\ \A k \in Idem!Keys \ {KeyOf[r]} : idem'[k] = idem[k]
  BY <1>1, KeyTyped DEF IInv, TypeOK, Idem!TypeOK
<1>9. WorkTrue'
  BY <1>5, <1>7, <1>8, KeyTyped DEF IInv, WorkTrue, Asks
<1>10. Apart'
  BY <1>7 DEF IInv, Apart, Owns, Asks
<1> QED
  BY <1>1, <1>4, <1>5, <1>6, <1>7, <1>8, <1>9, <1>10 DEF row

LEMMA CreateCartKeeps ==
  ASSUME IInv, NEW r \in Requests, CreateCart(r)
  PROVE  IInv'
<1> DEFINE c   == found[r].cart
           new == found[r].row = NoCart
           row == IF new THEN NewCart(r) ELSE found[r].row
           a   == CreatedReply(r, c, row)
           k   == KeyOf[r]
<1>1. /\ pc[r] = "work" /\ Asks(r, "create") /\ found[r] # Unread
      /\ found[r] \in Reads /\ c \in CartIds
  BY DEF CreateCart, IInv, TypeOK, Reads
<1>2. NewCart(r) \in Carts /\ NewCart(r).status = "ACTIVE" /\ NewCart(r).owner = Payload[r].owner
  BY <1>1, PayloadTyped DEF NewCart, Carts
<1>3. /\ IF new THEN carts[c] = NoCart ELSE carts[c] # NoCart
      /\ row \in Carts /\ row.owner = Payload[r].owner
      /\ ~new => carts[c].owner = row.owner /\ carts[c].currency = row.currency
  BY <1>1, <1>2 DEF IInv, FoundTrue, Reads
<1>4. a \in CreateAnswers /\ a.cart = c /\ a.currency = row.currency
  BY <1>1, <1>3 DEF CreatedReply, CreateAnswers, Carts
<1>5. /\ Idem!Complete(r, a) /\ UNCHANGED <<events, found, offered>> /\ totals' = totals \cup {c}
      /\ carts' = [carts EXCEPT ![c] = IF new THEN row ELSE @]
      /\ creator' = [creator EXCEPT ![c] = IF new THEN r ELSE @]
  BY DEF CreateCart
<1>6. /\ carts' \in [CartIds -> Carts \cup {NoCart}]
      /\ carts'[c] = IF new THEN row ELSE carts[c]
      /\ \A d \in CartIds \ {c} : carts'[d] = carts[d]
  BY <1>1, <1>3, <1>5 DEF IInv, TypeOK
<1>7. /\ creator' \in [CartIds -> Requests \cup {NoReply}]
      /\ creator'[c] = IF new THEN r ELSE creator[c]
      /\ \A d \in CartIds \ {c} : creator'[d] = creator[d]
  BY <1>1, <1>5 DEF IInv, TypeOK
<1>8. /\ carts'[c] # NoCart /\ carts'[c].owner = Payload[r].owner /\ carts'[c].currency = row.currency
      /\ \A d \in CartIds : carts[d] # NoCart => carts'[d] = carts[d]
      /\ new => carts[c] = NoCart /\ carts'[c].status = "ACTIVE"
  BY <1>2, <1>3, <1>6, CartApiAssumption
<1>9. a \in Answers
  BY <1>4 DEF Answers
<1>10. /\ Idem!TypeOK'
       /\ pc'[r] = "done" /\ \A s \in Requests \ {r} : pc'[s] = pc[s]
       /\ reply'[r] \in {a, Error} /\ \A s \in Requests \ {r} : reply'[s] = reply[s]
       /\ idem[k] = NoRow /\ idem'[k] # NoRow
       /\ idem'[k].hash = Payload[r] /\ idem'[k].state = "COMPLETED" /\ idem'[k].answer = a
       /\ \A j \in Idem!Keys \ {k} : idem'[j] = idem[j]
       /\ WorkTrue' /\ Apart'
  <2> HIDE DEF a
  <2>1. Idem!Complete(r, a) /\ UNCHANGED found
    BY <1>5
  <2>2. idem'[k] = [hash |-> Payload[r], state |-> "COMPLETED", answer |-> a]
    BY <1>9, <2>1, CompleteStores
  <2>3. idem'[k].hash = Payload[r] /\ idem'[k].state = "COMPLETED" /\ idem'[k].answer = a
    BY <2>2
  <2>4. Idem!TypeOK' /\ WorkTrue' /\ Apart' /\ idem[k] = NoRow /\ idem'[k] # NoRow
    BY <1>9, <2>1, CompleteStores
  <2>5. /\ pc'[r] = "done" /\ \A s \in Requests \ {r} : pc'[s] = pc[s]
        /\ reply'[r] \in {a, Error} /\ \A s \in Requests \ {r} : reply'[s] = reply[s]
    BY <1>9, <2>1, CompleteStores
  <2>6. \A j \in Idem!Keys \ {k} : idem'[j] = idem[j]
    BY <1>9, <2>1, CompleteStores
  <2> QED
    BY <2>3, <2>4, <2>5, <2>6
<1>11. Owns(r) <=> new
  BY <1>1 DEF Owns
<1> HIDE DEF a, row, new, k
<1>12. TypeOK'
  BY <1>1, <1>5, <1>6, <1>7, <1>10 DEF IInv, TypeOK
<1>13. EventsTrue'
  BY <1>5, <1>6, <1>8 DEF IInv, EventsTrue, OneEventPerCheckedOutCart
<1>14. ASSUME NEW j \in Idem!Keys PROVE RowTrue(j)'
  <2>1. CASE j = k
    BY <1>1, <1>4, <1>8, <1>10, <2>1 DEF RowTrue, Asks
  <2>2. CASE j # k
    <3>1. idem'[j] = idem[j]
      BY <1>10, <2>2
    <3>2. idem[j] # NoRow /\ idem[j].answer \in CreateAnswers => idem[j].answer.cart \in CartIds
      BY DEF CreateAnswers
    <3> QED
      BY <1>8, <3>1, <3>2 DEF IInv, RowTrue
  <2> QED
    BY <2>1, <2>2
<1>15. ASSUME NEW s \in Requests PROVE ReplyTrue(s)'
  <2>1. CASE s = r
    BY <1>1, <1>10, <2>1, CartApiAssumption DEF ReplyTrue, Asks, Answers, k
  <2>2. CASE s # r
    BY <1>10, <2>2, KeyTyped DEF IInv, ReplyTrue, Asks
  <2> QED
    BY <2>1, <2>2
<1>16. ASSUME NEW s \in Requests PROVE FoundTrue(s)'
  <2>1. CASE found[s] = Unread
    BY <1>5, <2>1 DEF FoundTrue
  <2>2. CASE found[s] # Unread
    <3>1. found[s].cart \in CartIds
      BY <2>2 DEF IInv, TypeOK, Reads
    <3>2. pc'[s] = "work" /\ Asks(s, "create") /\ found[s].row = NoCart =>
            carts[found[s].cart] = NoCart /\ (new => found[s].cart # c)
      BY <1>10, <1>11, <2>2 DEF IInv, FoundTrue, Apart, Owns
    <3>3. pc'[s] = "work" => pc[s] = "work"
      BY <1>10
    <3> QED
      BY <1>3, <1>5, <1>6, <1>8, <2>2, <3>1, <3>2, <3>3 DEF IInv, FoundTrue, Asks
  <2> QED
    BY <2>1, <2>2
<1>17. ASSUME NEW d \in CartIds PROVE CartTrue(d)'
  <2>1. CASE d = c /\ new
    BY <1>4, <1>5, <1>7, <1>8, <1>10, <2>1 DEF CartTrue, k
  <2>2. CASE d # c \/ ~new
    <3>1. carts'[d] = carts[d] /\ creator'[d] = creator[d] /\ (d \in totals' <=> d \in totals \/ d = c)
      BY <1>5, <1>6, <1>7, <2>2
    <3>2. carts[d] # NoCart => idem'[KeyOf[creator[d]]] = idem[KeyOf[creator[d]]]
      BY <1>10, KeyTyped DEF IInv, CartTrue
    <3> QED
      BY <1>3, <2>2, <3>1, <3>2 DEF IInv, CartTrue, new
  <2> QED
    BY <2>1, <2>2
<1> QED
  BY <1>10, <1>12, <1>13, <1>14, <1>15, <1>16, <1>17 DEF IInv

LEMMA CheckoutCartKeeps ==
  ASSUME IInv, NEW r \in Requests, CheckoutCart(r)
  PROVE  IInv'
<1> DEFINE c == found[r].cart
           k == KeyOf[r]
           active == found[r].row # NoCart /\ found[r].row.status = "ACTIVE"
           a == [code |-> IF found[r].row = NoCart THEN 404 ELSE 200, cart |-> c]
<1>1. /\ pc[r] = "work" /\ Asks(r, "checkout") /\ found[r] # Unread
      /\ c \in CartIds /\ CheckoutHandler = "NOCheckout"
  BY DEF CheckoutCart, IInv, TypeOK, Reads, WorkTrue, Asks
<1>2. active => carts[c] = found[r].row /\ carts[c] \in Carts /\ carts[c].status = "ACTIVE"
  BY <1>1 DEF IInv, FoundTrue, TypeOK
<1>3. a \in CheckoutAnswers /\ a.cart = c
  BY <1>1 DEF CheckoutAnswers
<1>4. a \in Answers /\ a \notin CreateAnswers
  BY <1>3, AnswersDiffer DEF Answers
<1>5. /\ Idem!Complete(r, a) /\ UNCHANGED <<totals, creator, found, offered>>
      /\ carts' = [carts EXCEPT ![c] = IF active THEN CheckedOut(@) ELSE @]
      /\ events' = [events EXCEPT ![c] = IF active THEN @ + 1 ELSE @]
  BY DEF CheckoutCart
<1>6. active => /\ CheckedOut(carts[c]) \in Carts /\ CheckedOut(carts[c]) # NoCart
                /\ CheckedOut(carts[c]).owner = carts[c].owner
                /\ CheckedOut(carts[c]).currency = carts[c].currency
                /\ CheckedOut(carts[c]).status = "CHECKED_OUT"
  BY <1>2, CartApiAssumption DEF CheckedOut, Carts
<1>7. /\ carts'[c] = IF active THEN CheckedOut(carts[c]) ELSE carts[c]
      /\ events'[c] = IF active THEN events[c] + 1 ELSE events[c]
      /\ \A d \in CartIds \ {c} : carts'[d] = carts[d] /\ events'[d] = events[d]
  BY <1>1, <1>5 DEF IInv, TypeOK
<1>8. /\ carts' \in [CartIds -> Carts \cup {NoCart}] /\ events' \in [CartIds -> Nat]
      /\ \A d \in CartIds :
           /\ carts'[d] # NoCart <=> carts[d] # NoCart
           /\ carts[d] # NoCart =>
                carts'[d].owner = carts[d].owner /\ carts'[d].currency = carts[d].currency
  <2>1. carts' \in [CartIds -> Carts \cup {NoCart}]
    BY <1>1, <1>2, <1>5, <1>6 DEF IInv, TypeOK
  <2>2. events' \in [CartIds -> Nat]
    BY <1>1, <1>5 DEF IInv, TypeOK
  <2>3. active => carts[c] # NoCart
    BY <1>2, CartApiAssumption
  <2> QED
    BY <2>1, <2>2, <2>3, <1>6, <1>7
<1> HIDE DEF a
<1>9. Idem!TypeOK' /\ WorkTrue' /\ Apart' /\ idem[k] = NoRow /\ idem'[k] # NoRow
  BY <1>4, <1>5, CompleteStores
<1>10. /\ pc'[r] = "done" /\ \A s \in Requests \ {r} : pc'[s] = pc[s]
       /\ reply'[r] \in {a, Error} /\ \A s \in Requests \ {r} : reply'[s] = reply[s]
       /\ \A j \in Idem!Keys \ {k} : idem'[j] = idem[j]
  BY <1>4, <1>5, CompleteStores
<1>11. idem'[k].state = "COMPLETED" /\ idem'[k].answer = a
  <2>1. idem'[k] = [hash |-> Payload[r], state |-> "COMPLETED", answer |-> a]
    BY <1>4, <1>5, CompleteStores
  <2> QED
    BY <2>1
<1> HIDE DEF active, k
<1>12. TypeOK'
  BY <1>5, <1>8, <1>9 DEF IInv, TypeOK
<1>13. EventsTrue'
  <2>1. active => events[c] = 0
    BY <1>1, <1>2, CartApiAssumption DEF IInv, EventsTrue, OneEventPerCheckedOutCart
  <2>2. active => events'[c] = 1
    BY <1>7, <2>1
  <2> QED
    BY <1>1, <1>6, <1>7, <2>2 DEF IInv, EventsTrue, OneEventPerCheckedOutCart
<1>14. ASSUME NEW j \in Idem!Keys PROVE RowTrue(j)'
  <2>1. CASE j = k
    BY <1>4, <1>11, <2>1 DEF RowTrue
  <2>2. CASE j # k
    <3>1. idem'[j] = idem[j]
      BY <1>10, <2>2
    <3>2. idem[j].answer \in CreateAnswers => idem[j].answer.cart \in CartIds
      BY DEF CreateAnswers
    <3> QED
      BY <1>8, <3>1, <3>2 DEF IInv, RowTrue
  <2> QED
    BY <2>1, <2>2
<1>15. ASSUME NEW s \in Requests PROVE ReplyTrue(s)'
  <2>1. CASE s = r
    BY <1>1, <1>4, <1>10, <2>1, CartApiAssumption DEF ReplyTrue, Asks, Answers
  <2>2. CASE s # r
    BY <1>9, <1>10, <2>2, KeyTyped DEF IInv, ReplyTrue, Asks
  <2> QED
    BY <2>1, <2>2
<1>16. ASSUME NEW s \in Requests PROVE FoundTrue(s)'
  <2>1. CASE found[s] = Unread
    BY <1>5, <2>1 DEF FoundTrue
  <2>2. CASE found[s] # Unread
    <3>1. found[s].cart \in CartIds
      BY <2>2 DEF IInv, TypeOK, Reads
    <3>2. pc'[s] = "work" => pc[s] = "work" /\ s # r
      BY <1>10
    <3>3. pc'[s] = "work" /\ Asks(s, "checkout") /\ found[s].row # NoCart =>
            carts'[found[s].cart] = found[s].row
      <4>1. Asks(s, "checkout") /\ pc[s] = "work" /\ found[s].row # NoCart => Owns(s)
        BY <2>2 DEF Owns, Asks
      <4>2. active => Owns(r)
        BY <1>1 DEF Owns, Asks, active
      <4> QED
        BY <1>7, <2>2, <3>1, <3>2, <4>1, <4>2 DEF IInv, FoundTrue, Apart
    <3> QED
      BY <1>5, <1>8, <2>2, <3>1, <3>2, <3>3 DEF IInv, FoundTrue, Asks
  <2> QED
    BY <2>1, <2>2
<1>17. ASSUME NEW d \in CartIds PROVE CartTrue(d)'
  <2>1. carts[d] # NoCart => idem'[KeyOf[creator[d]]] = idem[KeyOf[creator[d]]]
    BY <1>9, <1>10, KeyTyped DEF IInv, CartTrue
  <2> QED
    BY <1>5, <1>8, <2>1 DEF IInv, CartTrue
<1> QED
  BY <1>9, <1>12, <1>13, <1>14, <1>15, <1>16, <1>17 DEF IInv

---------------------------------------------------------------------------
(* All steps.                                                              *)

LEMMA InitInv == Init => IInv
<1> SUFFICES ASSUME Init PROVE IInv
  OBVIOUS
<1>1. TypeOK
  BY DEF Init, TypeOK, Idem!Init, Idem!TypeOK
<1>2. WorkTrue /\ Apart /\ EventsTrue
  BY DEF Init, Idem!Init, WorkTrue, Apart, Owns, EventsTrue, OneEventPerCheckedOutCart
<1>3. \A k \in Idem!Keys : RowTrue(k)
  BY DEF Init, Idem!Init, RowTrue
<1>4. \A r \in Requests : ReplyTrue(r) /\ FoundTrue(r)
  BY CartApiAssumption DEF Init, Idem!Init, ReplyTrue, FoundTrue, Answers
<1>5. \A c \in CartIds : CartTrue(c)
  BY DEF Init, Idem!Init, CartTrue
<1> QED
  BY <1>1, <1>2, <1>3, <1>4, <1>5 DEF IInv

LEMMA KeyStepKeeps ==
  ASSUME IInv, NEW r \in Requests, KeyStep(r)
  PROVE  IInv'
<1>1. UNCHANGED <<carts, totals, events, found, creator>> /\ offered' \in [Requests -> SUBSET CartIds]
  BY DEF KeyStep, ActiveCarts, IInv, TypeOK
<1>2. CASE Moves(r) /\ \/ Asks(r, "create")
                       \/ Asks(r, "checkout") /\ CheckoutHandler = "NOCheckout"
  BY <1>1, <1>2, MovesKeeps
<1>3. CASE IsAnswered(r)
  <2>1. UNCHANGED <<idem, carts, totals, found, creator>> /\ events' = events
        /\ events' \in [CartIds -> Nat] /\ offered' \in [Requests -> SUBSET CartIds]
    BY <1>1, <1>3 DEF IsAnswered, IInv, TypeOK
  <2>2. CASE Idem!Reply(r, Error) \/ Idem!Reply(r, BadRequest) \/ Idem!Reply(r, Conflict)
    BY <2>1, <2>2, AnswerKeeps, CartApiAssumption DEF Answers
  <2>3. CASE /\ ~Asks(r, "get") /\ idem[KeyOf[r]] # NoRow /\ idem[KeyOf[r]].hash = Payload[r]
             /\ Idem!Reply(r, idem[KeyOf[r]].answer)
    <3>1. idem[KeyOf[r]].answer \in Answers
      BY <2>3, RowTyped, KeyTyped DEF IInv
    <3> QED
      BY <2>1, <2>3, <3>1, AnswerKeeps
  <2> QED
    BY <1>3, <2>2, <2>3 DEF IsAnswered
<1> QED
  BY <1>2, <1>3, ProtocolSteps

LEMMA ReadsKeep ==
  ASSUME IInv, NEW r \in Requests,
         FindCart(r) \/ LockCart(r) \/ (GetRow(r) /\ carts[Payload[r].cart] # NoCart)
  PROVE  IInv'
<1>1. CASE FindCart(r)
  <2>1. PICK c \in (IF ActiveCarts(Payload[r].owner) = {} THEN FreshIds
                                                       ELSE ActiveCarts(Payload[r].owner)) :
          Read(r, c)
    BY <1>1 DEF FindCart
  <2>2. c \in CartIds
    BY <2>1 DEF ActiveCarts, FreshIds
  <2>3. IF carts[c] = NoCart THEN c \in FreshIds ELSE carts[c].owner = Payload[r].owner
    BY <2>1 DEF ActiveCarts, FreshIds
  <2>4. /\ pc[r] = "work" /\ Asks(r, "create") /\ found[r] = Unread
        /\ UNCHANGED <<pc, idem, reply, carts, totals, events, creator, offered>>
    BY <1>1 DEF FindCart
  <2> QED
    BY <2>1, <2>2, <2>3, <2>4, ReadKeeps DEF Asks
<1>2. CASE LockCart(r)
  BY <1>2, ReadKeeps, PayloadTyped DEF LockCart, Asks
<1>3. CASE GetRow(r) /\ carts[Payload[r].cart] # NoCart
  BY <1>3, ReadKeeps, PayloadTyped DEF GetRow, Asks
<1> QED
  BY <1>1, <1>2, <1>3

LEMMA AnswersKeep ==
  ASSUME IInv, NEW r \in Requests,
         \/ Checkout(r) \/ UnkeyedError(r) \/ GetTotals(r) \/ Edit(r)
         \/ GetRow(r) /\ carts[Payload[r].cart] = NoCart
  PROVE  IInv'
<1>0. /\ events \in [CartIds -> Nat] /\ found \in [Requests -> Reads \cup {Unread}]
      /\ offered \in [Requests -> SUBSET CartIds] /\ UNCHANGED offered
  BY DEF IInv, TypeOK, Checkout, UnkeyedError, GetTotals, Edit, GetRow
<1>1. CASE Checkout(r)
  <2>1. Payload[r].cart \in CartIds
    BY <1>1, PayloadTyped DEF Checkout, Asks
  <2>2. /\ events' \in [CartIds -> Nat] /\ CheckoutHandler = "Checkout"
        /\ UNCHANGED <<idem, carts, totals, found, creator>> /\ ~Asks(r, "get")
    BY <1>0, <1>1, <2>1 DEF Checkout, Asks
  <2>3. PICK a \in {[code |-> 200, cart |-> Payload[r].cart], Error} : Idem!Reply(r, a)
    BY <1>1 DEF Checkout
  <2>4. [code |-> 200, cart |-> Payload[r].cart] \in CheckoutAnswers
    BY <2>1 DEF CheckoutAnswers
  <2>5. a \in Answers \cup {Error} /\ a \notin CreateAnswers
    BY <2>3, <2>4, AnswersDiffer, CartApiAssumption DEF Answers
  <2> QED
    BY <1>0, <2>2, <2>3, <2>5, AnswerKeeps
<1>2. CASE UnkeyedError(r)
  BY <1>0, <1>2, AnswerKeeps, CartApiAssumption DEF UnkeyedError, Idem!Fail, Answers
<1>3. CASE GetTotals(r)
  <2> DEFINE a == [code |-> 200, row |-> found[r].row, totals |-> found[r].cart \in totals]
  <2>1. /\ Idem!Reply(r, a) /\ UNCHANGED <<idem, carts, totals, events, found, creator>>
        /\ found[r] # Unread /\ Asks(r, "get")
    BY <1>3 DEF GetTotals
  <2>2. found[r].cart \in CartIds /\ found[r].row \in Carts /\ carts[found[r].cart] # NoCart
    BY <1>0, <2>1 DEF IInv, FoundTrue, Reads
  <2>3. found[r].cart \in totals
    BY <2>2 DEF IInv, CartTrue
  <2>4. a \in GetAnswers /\ a.totals
    BY <2>2, <2>3 DEF GetAnswers
  <2>5. a \in Answers /\ a \notin CreateAnswers
    BY <2>4, AnswersDiffer DEF Answers
  <2> HIDE DEF a
  <2> QED
    BY <1>0, <2>1, <2>4, <2>5, AnswerKeeps
<1>4. CASE Edit(r)
  <2>1. Todo \in Answers /\ Todo \notin CreateAnswers
    BY AnswersDiffer DEF Answers
  <2>2. ~Asks(r, "get") /\ Idem!Reply(r, Todo)
        /\ UNCHANGED <<idem, carts, totals, events, found, creator>>
    BY <1>4 DEF Edit, Asks
  <2> HIDE DEF Todo
  <2> QED
    BY <1>0, <2>1, <2>2, AnswerKeeps
<1>5. CASE GetRow(r) /\ carts[Payload[r].cart] = NoCart
  <2> DEFINE a == [code |-> 404]
  <2>1. a \in GetAnswers /\ a.code # 200
    BY DEF GetAnswers
  <2>2. Idem!Reply(r, a) /\ UNCHANGED <<idem, carts, totals, events, found, creator>>
    BY <1>5 DEF GetRow
  <2>3. a \in Answers /\ a \notin CreateAnswers
    BY <2>1, AnswersDiffer DEF Answers
  <2> HIDE DEF a
  <2> QED
    BY <1>0, <2>1, <2>2, <2>3, AnswerKeeps
<1> QED
  BY <1>1, <1>2, <1>3, <1>4, <1>5

LEMMA NextInv == IInv /\ [Next]_vars => IInv'
<1>1. ASSUME IInv, NEW r \in Requests,
             \/ KeyStep(r) \/ FindCart(r) \/ CreateCart(r) \/ Checkout(r) \/ UnkeyedError(r)
             \/ LockCart(r) \/ CheckoutCart(r) \/ GetRow(r) \/ GetTotals(r) \/ Edit(r)
      PROVE  IInv'
  BY <1>1, KeyStepKeeps, CreateCartKeeps, CheckoutCartKeeps, ReadsKeep, AnswersKeep
<1>2. ASSUME IInv, UNCHANGED vars PROVE IInv'
  <2>1. TypeOK'
    BY <1>2 DEF vars, IInv, TypeOK, Idem!TypeOK, Idem!Rows
  <2>2. WorkTrue' /\ Apart' /\ EventsTrue'
    BY <1>2 DEF vars, IInv, WorkTrue, Apart, Owns, EventsTrue, OneEventPerCheckedOutCart, Asks
  <2>3. \A k \in Idem!Keys : RowTrue(k)'
    BY <1>2 DEF vars, IInv, RowTrue
  <2>4. \A r \in Requests : ReplyTrue(r)' /\ FoundTrue(r)'
    BY <1>2 DEF vars, IInv, ReplyTrue, FoundTrue, Asks
  <2>5. \A c \in CartIds : CartTrue(c)'
    BY <1>2 DEF vars, IInv, CartTrue
  <2> QED
    BY <2>1, <2>2, <2>3, <2>4, <2>5 DEF IInv
<1> QED
  BY <1>1, <1>2 DEF Next

THEOREM Invariance == Spec => []IInv
BY InitInv, NextInv, PTL DEF Spec

---------------------------------------------------------------------------
(* The carts a creation was offered.                                       *)

CreatesCart(r) == Asks(r, "create") /\ found[r] # Unread /\ found[r].row = NoCart

\* They stay the owner's, and none is ACTIVE any more once the query has found
\* none.
OfferTrue ==
  /\ \A r \in Requests : \A d \in offered[r] :
       /\ carts[d] # NoCart /\ carts[d].owner = Payload[r].owner
       /\ CreatesCart(r) => carts[d].status = "CHECKED_OUT"
  /\ \A c \in CartIds : creator[c] # NoReply => CreatesCart(creator[c])

\* Carts are neither deleted nor given away nor opened again.
LEMMA CartsStay ==
  ASSUME IInv, NEW r \in Requests, CreateCart(r) \/ CheckoutCart(r),
         NEW d \in CartIds, carts[d] # NoCart
  PROVE  /\ carts'[d] # NoCart /\ carts'[d].owner = carts[d].owner
         /\ carts[d].status = "CHECKED_OUT" => carts'[d].status = "CHECKED_OUT"
<1>1. carts \in [CartIds -> Carts \cup {NoCart}] /\ carts[d] \in Carts
  BY DEF IInv, TypeOK
<1>2. CASE CreateCart(r)
  <2>1. found[r].row = NoCart => carts[found[r].cart] = NoCart
    BY <1>2 DEF CreateCart, IInv, FoundTrue
  <2>2. carts'[d] = carts[d]
    BY <1>1, <1>2, <2>1 DEF CreateCart
  <2> QED
    BY <2>2
<1>3. CASE CheckoutCart(r)
  <2>1. carts'[d] \in {carts[d], CheckedOut(carts[d])}
    BY <1>1, <1>3 DEF CheckoutCart
  <2>2. /\ CheckedOut(carts[d]) \in Carts /\ CheckedOut(carts[d]).owner = carts[d].owner
        /\ CheckedOut(carts[d]).status = "CHECKED_OUT"
    BY <1>1 DEF CheckedOut, Carts
  <2> QED
    BY <2>1, <2>2, CartApiAssumption
<1> QED
  BY <1>2, <1>3

LEMMA KeyStepOffers ==
  ASSUME IInv, OfferTrue, NEW r \in Requests, KeyStep(r)
  PROVE  OfferTrue'
<1>1. /\ UNCHANGED <<carts, creator, found>> /\ offered \in [Requests -> SUBSET CartIds]
      /\ \A q \in Requests \ {r} : offered'[q] = offered[q]
      /\ offered'[r] = IF pc[r] = "idle" /\ Asks(r, "create") THEN ActiveCarts(Payload[r].owner)
                                                             ELSE offered[r]
  BY DEF KeyStep, IInv, TypeOK
<1>2. pc[r] = "idle" => ~CreatesCart(r)
  BY DEF IInv, WorkTrue, CreatesCart, Asks
<1>3. \A d \in offered'[r] :
        /\ carts[d] # NoCart /\ carts[d].owner = Payload[r].owner
        /\ CreatesCart(r) => carts[d].status = "CHECKED_OUT"
  BY <1>1, <1>2 DEF ActiveCarts, OfferTrue
<1>4. ASSUME NEW q \in Requests, NEW d \in offered'[q]
      PROVE  /\ carts'[d] # NoCart /\ carts'[d].owner = Payload[q].owner
             /\ CreatesCart(q) => carts'[d].status = "CHECKED_OUT"
  <2>1. CASE q = r
    BY <1>1, <1>3, <1>4, <2>1
  <2>2. CASE q # r
    BY <1>1, <1>4, <2>2 DEF OfferTrue
  <2> QED
    BY <2>1, <2>2
<1>5. \A c \in CartIds : creator'[c] # NoReply => CreatesCart(creator'[c])
  BY <1>1 DEF OfferTrue
<1> QED
  BY <1>1, <1>4, <1>5 DEF OfferTrue, CreatesCart, Asks

LEMMA FindCartOffers ==
  ASSUME IInv, OfferTrue, NEW r \in Requests, FindCart(r)
  PROVE  OfferTrue'
<1> DEFINE active == ActiveCarts(Payload[r].owner)
<1>1. PICK c \in (IF active = {} THEN FreshIds ELSE active) : Read(r, c)
  BY DEF FindCart
<1>2. UNCHANGED <<carts, creator, offered>> /\ ~CreatesCart(r)
  BY DEF FindCart, CreatesCart
<1>3. /\ found'[r] = [cart |-> c, row |-> carts[c]]
      /\ \A q \in Requests \ {r} : found'[q] = found[q]
  BY <1>1 DEF Read, IInv, TypeOK
<1>4. found'[r].row = NoCart => active = {}
  BY <1>1, <1>3 DEF ActiveCarts
<1>5. ASSUME active = {}, NEW d \in offered[r] PROVE carts[d].status = "CHECKED_OUT"
  <2>1. d \in CartIds /\ carts[d] \in Carts /\ carts[d].owner = Payload[r].owner /\ carts[d] # NoCart
    BY DEF OfferTrue, IInv, TypeOK
  <2>2. carts[d].status \in {"ACTIVE", "CHECKED_OUT"}
    BY <2>1 DEF Carts
  <2> QED
    BY <1>5, <2>1, <2>2 DEF ActiveCarts
<1> HIDE DEF active
<1>6. \A q \in Requests \ {r} : CreatesCart(q)' <=> CreatesCart(q)
  BY <1>3 DEF CreatesCart, Asks
<1>7. \A k \in CartIds : creator[k] # NoReply => creator[k] \in Requests \ {r}
  BY <1>2 DEF OfferTrue, IInv, TypeOK
<1>8. CreatesCart(r)' => active = {}
  BY <1>4 DEF CreatesCart
<1> QED
  BY <1>2, <1>5, <1>6, <1>7, <1>8 DEF OfferTrue

LEMMA CommitOffers ==
  ASSUME IInv, OfferTrue, NEW r \in Requests, CreateCart(r) \/ CheckoutCart(r)
  PROVE  OfferTrue'
<1>1. UNCHANGED <<found, offered>> /\ offered \in [Requests -> SUBSET CartIds]
  BY DEF CreateCart, CheckoutCart, IInv, TypeOK
<1>2. \A c \in CartIds : creator'[c] = creator[c] \/ (creator'[c] = r /\ CreatesCart(r))
  BY DEF CreateCart, CheckoutCart, CreatesCart, IInv, TypeOK
<1>3. ASSUME NEW q \in Requests, NEW d \in offered'[q]
      PROVE  /\ carts'[d] # NoCart /\ carts'[d].owner = Payload[q].owner
             /\ CreatesCart(q) => carts'[d].status = "CHECKED_OUT"
  <2>1. /\ d \in CartIds /\ carts[d] # NoCart /\ carts[d].owner = Payload[q].owner
        /\ CreatesCart(q) => carts[d].status = "CHECKED_OUT"
    BY <1>1 DEF OfferTrue
  <2> QED
    BY <2>1, CartsStay
<1>4. \A c \in CartIds : creator'[c] # NoReply => CreatesCart(creator'[c])
  BY <1>2 DEF OfferTrue
<1> QED
  BY <1>1, <1>3, <1>4 DEF OfferTrue, CreatesCart, Asks

LEMMA NextOffers == IInv /\ OfferTrue /\ [Next]_vars => OfferTrue'
<1> SUFFICES ASSUME IInv, OfferTrue, [Next]_vars PROVE OfferTrue'
  OBVIOUS
<1>1. \A c \in CartIds : creator[c] # NoReply => creator[c] \in Requests
  BY DEF IInv, TypeOK
<1>2. ASSUME UNCHANGED <<carts, creator, offered>>,
             \A q \in Requests : found'[q] = found[q] \/ ~Asks(q, "create")
      PROVE  OfferTrue'
  BY <1>1, <1>2 DEF OfferTrue, CreatesCart, Asks
<1>3. ASSUME NEW r \in Requests,
             \/ Checkout(r) \/ UnkeyedError(r) \/ GetTotals(r) \/ Edit(r)
             \/ LockCart(r) \/ GetRow(r)
      PROVE  OfferTrue'
  <2>1. UNCHANGED <<carts, creator, offered>>
    BY <1>3 DEF Checkout, UnkeyedError, GetTotals, Edit, LockCart, GetRow
  <2>2. \A q \in Requests : found'[q] = found[q] \/ ~Asks(q, "create")
    BY <1>3 DEF Checkout, UnkeyedError, GetTotals, Edit, LockCart, GetRow, Read, Asks, IInv, TypeOK
  <2> QED
    BY <1>2, <2>1, <2>2
<1> QED
  BY <1>2, <1>3, KeyStepOffers, FindCartOffers, CommitOffers DEF Next, vars

---------------------------------------------------------------------------
(* Results.                                                                *)

\* The rows, the replies and what the handlers remember always have their
\* types (handlers_cart.go:56-343, 391-580).
THEOREM TypeCorrect == Spec => []TypeOK
<1>1. IInv => TypeOK
  BY DEF IInv
<1> QED
  BY <1>1, Invariance, PTL

\* However the tries of a client overlap, the requests with one key create one
\* cart at most (handlers_cart.go:99-222).
THEOREM RetriesCreateOneCart == Spec => []OneCartPerKey
<1>1. IInv => OneCartPerKey
  BY DEF IInv, CartTrue, OneCartPerKey
<1> QED
  BY <1>1, Invariance, PTL

\* A cart, its totals and the completed key of its creator appear together,
\* and GetCart shows no cart without its totals (handlers_cart.go:180-222,
\* 235-343).
THEOREM CartsAreWhole == Spec => []NoHalfWrittenCart
<1>1. IInv => NoHalfWrittenCart
  BY DEF IInv, CartTrue, ReplyTrue, NoHalfWrittenCart
<1> QED
  BY <1>1, Invariance, PTL

\* A 200 of CreateOrGetActiveCart, a replayed one too, is the state of a
\* stored cart of the owner who asked (handlers_cart.go:113-131, 200-221).
THEOREM CreateRepliesAreTrue == Spec => []CreatedIsStored
<1>1. ASSUME IInv PROVE CreatedIsStored
  <2> SUFFICES ASSUME NEW r \in Requests, reply[r] \in CreateAnswers
               PROVE  LET cart == carts[reply[r].cart] IN
                        /\ cart # NoCart
                        /\ cart.owner = Payload[r].owner /\ cart.currency = reply[r].currency
    BY DEF CreatedIsStored
  <2>1. ReplyTrue(r) /\ RowTrue(KeyOf[r])
    BY <1>1, KeyTyped DEF IInv
  <2> QED
    BY <2>1 DEF ReplyTrue, RowTrue
<1> QED
  BY <1>1, Invariance, PTL

\* An owner gets a second ACTIVE cart only from creations that overlap: what
\* was ACTIVE when a request began is CHECKED_OUT once it has created another
\* cart (handlers_cart.go:148-171).
THEOREM SecondCartsOverlap == Spec => []SecondCartOverlaps
<1>1. Init => OfferTrue
  BY DEF Init, OfferTrue
<1>2. IInv /\ OfferTrue => SecondCartOverlaps
  BY DEF IInv, TypeOK, OfferTrue, SecondCartOverlaps
<1> QED
  BY <1>1, <1>2, Invariance, NextOffers, PTL DEF Spec

\* NOCheckout, the handler no route reaches, would store one event for each
\* cart it checks out, whatever keys are used (handlers_cart.go:517-560).
THEOREM NOCheckoutStoresOneEvent ==
  ASSUME CheckoutHandler = "NOCheckout"
  PROVE  Spec => []OneEventPerCheckedOutCart
<1>1. IInv => OneEventPerCheckedOutCart
  BY DEF IInv, EventsTrue
<1> QED
  BY <1>1, Invariance, PTL

---------------------------------------------------------------------------
(* The replies of NOCheckout.                                              *)

IsCheckedOut(c) == carts[c] # NoCart /\ carts[c].status = "CHECKED_OUT"

Success(a) == a \in CheckoutAnswers /\ a.code = 200

\* What a key stores, what a reply says, and which row a checkout has locked.
CheckoutsTrue ==
  /\ \A k \in Idem!Keys :
       idem[k] # NoRow /\ idem[k].hash.op = "checkout" /\ Success(idem[k].answer)
         => IsCheckedOut(idem[k].hash.cart)
  /\ \A r \in Requests : Asks(r, "checkout") =>
       /\ Success(reply[r]) => IsCheckedOut(Payload[r].cart)
       /\ found[r] # Unread => found[r].cart = Payload[r].cart

\* CHECKED_OUT is final: a creation writes a row of its own only.
LEMMA CheckedOutStays ==
  ASSUME IInv, [Next]_vars, NEW c \in CartIds, IsCheckedOut(c)
  PROVE  IsCheckedOut(c)'
<1>1. CASE UNCHANGED carts
  BY <1>1 DEF IsCheckedOut
<1>2. ASSUME NEW r \in Requests, CreateCart(r) PROVE IsCheckedOut(c)'
  <2>1. pc[r] = "work" /\ Asks(r, "create") /\ found[r] # Unread
    BY <1>2 DEF CreateCart
  <2>2. found[r].row = NoCart => carts[found[r].cart] = NoCart
    BY <2>1 DEF IInv, FoundTrue
  <2>3. carts'[c] = carts[c]
    BY <1>2, <2>2 DEF CreateCart, IInv, TypeOK, IsCheckedOut
  <2> QED
    BY <2>3 DEF IsCheckedOut
<1>3. ASSUME NEW r \in Requests, CheckoutCart(r) PROVE IsCheckedOut(c)'
  <2>1. carts[c] \in Carts
    BY DEF IInv, TypeOK, IsCheckedOut
  <2>2. CheckedOut(carts[c]) \in Carts /\ CheckedOut(carts[c]).status = "CHECKED_OUT"
    BY <2>1 DEF CheckedOut, Carts
  <2>3. carts'[c] \in {carts[c], CheckedOut(carts[c])}
    BY <1>3 DEF CheckoutCart, IInv, TypeOK
  <2> QED
    BY <2>2, <2>3, CartApiAssumption DEF IsCheckedOut
<1> QED
  BY <1>1, <1>2, <1>3
     DEF Next, vars, KeyStep, FindCart, Checkout, UnkeyedError, LockCart, GetRow, GetTotals, Edit

\* What holds of the stored answers and of the replies stays true, as long as
\* the new ones are.
LEMMA NewCheckoutsTrue ==
  ASSUME IInv, CheckoutsTrue, [Next]_vars,
         \A k \in Idem!Keys : idem'[k] # idem[k] =>
           (idem'[k].hash.op = "checkout" /\ Success(idem'[k].answer) => IsCheckedOut(idem[k].hash.cart)'),
         \A r \in Requests : Asks(r, "checkout") =>
           /\ reply'[r] # reply[r] => (Success(reply'[r]) => IsCheckedOut(Payload[r].cart)')
           /\ found'[r] # found[r] => found'[r].cart = Payload[r].cart
  PROVE  CheckoutsTrue'
<1>1. ASSUME NEW k \in Idem!Keys, idem'[k] # NoRow, idem'[k].hash.op = "checkout",
             Success(idem'[k].answer)
      PROVE  IsCheckedOut(idem[k].hash.cart)'
  <2>1. CASE idem'[k] = idem[k]
    <3>1. idem[k].hash.cart \in CartIds
      BY <1>1, <2>1, RowTyped DEF IInv, Payloads
    <3> QED
      BY <1>1, <2>1, <3>1, CheckedOutStays DEF CheckoutsTrue
  <2> QED
    BY <1>1, <2>1
<1>2. ASSUME NEW r \in Requests, Asks(r, "checkout"), Success(reply'[r])
      PROVE  IsCheckedOut(Payload[r].cart)'
  <2>1. Payload[r].cart \in CartIds
    BY <1>2, PayloadTyped DEF Asks
  <2> QED
    BY <1>2, <2>1, CheckedOutStays DEF CheckoutsTrue
<1>3. ASSUME NEW r \in Requests, Asks(r, "checkout"), found'[r] # Unread
      PROVE  found'[r].cart = Payload[r].cart
  BY <1>3 DEF CheckoutsTrue
<1> QED
  BY <1>1, <1>2, <1>3 DEF CheckoutsTrue, Success, Asks

LEMMA CheckoutsKeep ==
  ASSUME IInv, CheckoutsTrue, [Next]_vars, CheckoutHandler = "NOCheckout"
  PROVE  CheckoutsTrue'
<1> USE DEF Success
<1>0. Error \notin CheckoutAnswers /\ BadRequest \notin CheckoutAnswers /\ Conflict \notin CheckoutAnswers
  BY CartApiAssumption DEF Answers
<1>1. CASE UNCHANGED <<idem, reply, found>>
  BY <1>1, NewCheckoutsTrue
<1>2. ASSUME NEW r \in Requests, NEW a, Idem!Reply(r, a), UNCHANGED <<idem, found>>,
             Asks(r, "checkout") /\ Success(a) => IsCheckedOut(Payload[r].cart)'
      PROVE  CheckoutsTrue'
  <2>1. reply'[r] = a /\ \A s \in Requests \ {r} : reply'[s] = reply[s]
    BY <1>2 DEF Idem!Reply, IInv, TypeOK, Idem!TypeOK
  <2> QED
    BY <1>2, <2>1, NewCheckoutsTrue
<1>3. ASSUME NEW r \in Requests, KeyStep(r) PROVE CheckoutsTrue'
  <2>1. UNCHANGED found
    BY <1>3 DEF KeyStep
  <2>2. CASE Moves(r)
    BY <1>1, <2>1, <2>2 DEF Moves
  <2>3. CASE Idem!Reply(r, Error) \/ Idem!Reply(r, BadRequest) \/ Idem!Reply(r, Conflict)
    BY <1>0, <1>2, <2>1, <2>3, <1>3, ProtocolSteps DEF IsAnswered, Moves
  <2>4. CASE /\ UNCHANGED idem /\ idem[KeyOf[r]] # NoRow /\ idem[KeyOf[r]].hash = Payload[r]
             /\ Idem!Reply(r, idem[KeyOf[r]].answer)
    <3>1. Asks(r, "checkout") /\ Success(idem[KeyOf[r]].answer) => IsCheckedOut(Payload[r].cart)
      BY <2>4, KeyTyped DEF CheckoutsTrue, Asks
    <3>2. Asks(r, "checkout") => Payload[r].cart \in CartIds
      BY PayloadTyped DEF Asks
    <3> QED
      BY <1>2, <2>1, <2>4, <3>1, <3>2, CheckedOutStays
  <2> QED
    BY <1>3, <2>2, <2>3, <2>4, ProtocolSteps DEF IsAnswered
<1>4. ASSUME NEW r \in Requests, NEW c \in CartIds, Read(r, c), UNCHANGED <<idem, reply>>,
             Asks(r, "checkout") => c = Payload[r].cart
      PROVE  CheckoutsTrue'
  <2>1. found'[r].cart = c /\ \A s \in Requests \ {r} : found'[s] = found[s]
    BY <1>4 DEF Read, IInv, TypeOK
  <2> QED
    BY <1>4, <2>1, NewCheckoutsTrue
<1>5. ASSUME NEW r \in Requests, FindCart(r) \/ LockCart(r) \/ GetRow(r) PROVE CheckoutsTrue'
  <2>1. CASE FindCart(r)
    <3>1. PICK c \in CartIds : Read(r, c)
      BY <2>1 DEF FindCart, ActiveCarts, FreshIds
    <3> QED
      BY <1>4, <2>1, <3>1 DEF FindCart, Asks
  <2>2. CASE LockCart(r)
    BY <1>4, <2>2, PayloadTyped DEF LockCart, Asks
  <2>3. CASE GetRow(r)
    <3>1. Payload[r].cart \in CartIds /\ ~Asks(r, "checkout")
      BY <2>3, PayloadTyped DEF GetRow, Asks
    <3> QED
      BY <1>2, <1>4, <2>3, <3>1 DEF GetRow
  <2> QED
    BY <1>5, <2>1, <2>2, <2>3
<1>6. ASSUME NEW r \in Requests, UnkeyedError(r) \/ GetTotals(r) \/ Edit(r) PROVE CheckoutsTrue'
  BY <1>0, <1>2, <1>6 DEF UnkeyedError, GetTotals, Edit, Idem!Fail, Asks
<1>7. ASSUME NEW r \in Requests, NEW a \in Answers, Idem!Complete(r, a), UNCHANGED found,
             Asks(r, "checkout") /\ Success(a) => IsCheckedOut(Payload[r].cart)'
      PROVE  CheckoutsTrue'
  <2>1. /\ reply'[r] \in {a, Error} /\ \A s \in Requests \ {r} : reply'[s] = reply[s]
        /\ idem'[KeyOf[r]] = [hash |-> Payload[r], state |-> "COMPLETED", answer |-> a]
        /\ \A k \in Idem!Keys \ {KeyOf[r]} : idem'[k] = idem[k]
    BY <1>7, CompleteStores
  <2>2. idem'[KeyOf[r]].hash = Payload[r] /\ idem'[KeyOf[r]].answer = a
    BY <2>1
  <2>3. ASSUME NEW k \in Idem!Keys, idem'[k] # idem[k],
               idem'[k].hash.op = "checkout", Success(idem'[k].answer)
        PROVE  IsCheckedOut(idem[k].hash.cart)'
    BY <1>7, <2>1, <2>2, <2>3 DEF Asks
  <2> QED
    BY <1>0, <1>7, <2>1, <2>3, NewCheckoutsTrue DEF Asks
<1>8. ASSUME NEW r \in Requests, CreateCart(r) PROVE CheckoutsTrue'
  <2>1. PICK a : Idem!Complete(r, a) /\ a = CreatedReply(r, found[r].cart,
                   IF found[r].row = NoCart THEN NewCart(r) ELSE found[r].row)
    BY <1>8 DEF CreateCart
  <2>2. Asks(r, "create") /\ found[r] # Unread /\ UNCHANGED found
    BY <1>8 DEF CreateCart
  <2>3. a \in Answers
    BY <2>1, <2>2, PayloadTyped
       DEF IInv, TypeOK, Reads, Carts, CreatedReply, NewCart, Answers, CreateAnswers
  <2> QED
    BY <1>7, <2>1, <2>2, <2>3 DEF Asks
<1>9. ASSUME NEW r \in Requests, CheckoutCart(r) PROVE CheckoutsTrue'
  <2> DEFINE c == found[r].cart
             row == found[r].row
             a == [code |-> IF row = NoCart THEN 404 ELSE 200, cart |-> c]
  <2>1. /\ pc[r] = "work" /\ Asks(r, "checkout") /\ found[r] # Unread /\ c \in CartIds
        /\ Idem!Complete(r, a) /\ UNCHANGED found /\ c = Payload[r].cart
    BY <1>9 DEF CheckoutCart, IInv, TypeOK, Reads, CheckoutsTrue
  <2>2. a \in Answers
    BY <2>1 DEF Answers, CheckoutAnswers
  <2>3. row # NoCart => row \in Carts /\ carts[c] = row
    BY <2>1 DEF IInv, TypeOK, Reads, FoundTrue
  <2>4. row # NoCart => IsCheckedOut(c)'
    <3>1. row # NoCart => CheckedOut(row) \in Carts /\ CheckedOut(row).status = "CHECKED_OUT"
      BY <2>3 DEF CheckedOut, Carts
    <3>2. row # NoCart => carts'[c] = IF row.status = "ACTIVE" THEN CheckedOut(row) ELSE row
      BY <1>9, <2>1, <2>3 DEF CheckoutCart, IInv, TypeOK
    <3>3. row # NoCart => row.status \in {"ACTIVE", "CHECKED_OUT"}
      BY <2>3 DEF Carts
    <3> QED
      BY <2>1, <2>3, <3>1, <3>2, <3>3, CartApiAssumption DEF IsCheckedOut
  <2>5. a.code = 200 => row # NoCart
    OBVIOUS
  <2> HIDE DEF a
  <2> QED
    BY <1>7, <2>1, <2>2, <2>4, <2>5
<1> QED
  BY <1>1, <1>3, <1>5, <1>6, <1>8, <1>9 DEF Next, vars, Checkout

\* With NOCheckout the reply that the run checkout_status finds false of the
\* routed handler is true: every 200 to a checkout, replays included, is about
\* a cart that is CHECKED_OUT (handlers_cart.go:517-577).
THEOREM NOCheckoutRepliesAreTrue ==
  ASSUME CheckoutHandler = "NOCheckout"
  PROVE  Spec => []CheckedOutReplyIsTrue
<1>1. Init => CheckoutsTrue
  BY CartApiAssumption DEF Init, Idem!Init, CheckoutsTrue, Success, Answers
<1>2. CheckoutsTrue => CheckedOutReplyIsTrue
  BY DEF CheckoutsTrue, CheckedOutReplyIsTrue, Success, IsCheckedOut
<1> QED
  BY <1>1, <1>2, CheckoutsKeep, Invariance, PTL DEF Spec

---------------------------------------------------------------------------
(* Refinement: what a client sees of the keyed requests is the service that *)
(* executes each key once, whatever the handlers' work and the other        *)
(* requests do.                                                             *)

\* A reply ends its request, and only valid requests are read for.
Pending ==
  \A r \in Requests :
    /\ pc[r] # "done" => reply[r] = NoReply
    /\ Asks(r, "get") /\ found[r] # Unread => r \notin Invalid

LEMMA PendingKeeps ==
  ASSUME IInv, Pending, [Next]_vars
  PROVE  Pending'
<1>1. CASE UNCHANGED vars
  BY <1>1 DEF vars, Pending, Asks
<1>2. ASSUME NEW r \in Requests, KeyStep(r)
      PROVE  Pending'
  <2>1. UNCHANGED found
    BY <1>2 DEF KeyStep
  <2>2. CASE Moves(r)
    <3>1. UNCHANGED reply /\ pc[r] # "done" /\ \A s \in Requests \ {r} : pc'[s] = pc[s]
      BY <2>2 DEF Moves, IInv, TypeOK, Idem!TypeOK
    <3> QED
      BY <2>1, <3>1 DEF Pending, Asks
  <2>3. CASE IsAnswered(r)
    <3>1. PICK a : Idem!Reply(r, a)
      BY <2>3 DEF IsAnswered
    <3> QED
      BY <2>1, <3>1 DEF Idem!Reply, Pending, Asks, IInv, TypeOK, Idem!TypeOK
  <2> QED
    BY <1>2, <2>2, <2>3, ProtocolSteps
<1>3. ASSUME NEW r \in Requests, NEW a, Idem!Reply(r, a), UNCHANGED found
      PROVE  Pending'
  BY <1>3 DEF Idem!Reply, Pending, Asks, IInv, TypeOK, Idem!TypeOK
<1>4. ASSUME NEW r \in Requests, NEW c, Read(r, c), UNCHANGED <<pc, reply>>,
             Asks(r, "get") => r \notin Invalid
      PROVE  Pending'
  BY <1>4 DEF Read, Pending, Asks, IInv, TypeOK
<1>5. ASSUME NEW r \in Requests, FindCart(r) \/ LockCart(r) \/ GetRow(r)
      PROVE  Pending'
  BY <1>3, <1>4, <1>5 DEF FindCart, LockCart, GetRow, Asks
<1>6. ASSUME NEW r \in Requests,
             Checkout(r) \/ UnkeyedError(r) \/ GetTotals(r) \/ Edit(r) \/ CreateCart(r) \/ CheckoutCart(r)
      PROVE  Pending'
  BY <1>3, <1>6 DEF Checkout, UnkeyedError, GetTotals, Edit, CreateCart, CheckoutCart,
     Idem!Fail, Idem!Complete
<1> QED
  BY <1>1, <1>2, <1>5, <1>6 DEF Next

LEMMA PendingInvariance == Spec => []Pending
<1>1. Init => Pending
  BY DEF Init, Idem!Init, Pending
<1> QED
  BY <1>1, PendingKeeps, Invariance, PTL DEF Spec

Stored  == [k \in Idem!Keys |-> StoredAnswer(k)]
Replies == [r \in Requests |-> KeyedReply(r)]

LEMMA StoredUnchanged ==
  ASSUME UNCHANGED idem
  PROVE  Stored' = Stored
BY DEF Stored, StoredAnswer

\* What a reply to r changes in the clients' view.
LEMMA RepliesStep ==
  ASSUME IInv, NEW r \in Requests, NEW a, Idem!Reply(r, a)
  PROVE  Replies' = IF Keyed(r) THEN [Replies EXCEPT ![r] = a] ELSE Replies
<1>1. reply'[r] = a /\ \A s \in Requests \ {r} : reply'[s] = reply[s]
  BY DEF Idem!Reply, IInv, TypeOK, Idem!TypeOK
<1>2. \A s \in Requests : Keyed(s)' = Keyed(s)
  BY DEF Keyed, Asks
<1>3. \A s \in Requests \ {r} : KeyedReply(s)' = KeyedReply(s)
  BY <1>1, <1>2 DEF KeyedReply
<1>4. KeyedReply(r)' = IF Keyed(r) THEN a ELSE NoReply
  BY <1>1, <1>2 DEF KeyedReply
<1>5. Replies' = [s \in Requests |-> KeyedReply(s)']
  BY DEF Replies
<1>6. ~Keyed(r) => KeyedReply(r) = NoReply
  BY DEF KeyedReply
<1> QED
  BY <1>3, <1>4, <1>5, <1>6 DEF Replies

LEMMA AnsweredRefines ==
  ASSUME IInv, Pending, NEW r \in Requests, Keyed(r), IsAnswered(r)
  PROVE  Service!Next
<1>1. UNCHANGED Stored /\ KeyOf[r] \in Idem!Keys
  BY StoredUnchanged, KeyTyped DEF IsAnswered
<1>2. Replies[r] = NoReply
  BY DEF IsAnswered, Pending, Replies, KeyedReply
<1>3. ASSUME NEW a, Idem!Reply(r, a) PROVE Service!Answer(r, a)
  <2>1. Replies' = [Replies EXCEPT ![r] = a]
    BY <1>3, RepliesStep
  <2> QED
    BY <1>2, <2>1 DEF Service!Answer, Replies
<1>4. CASE Idem!Reply(r, Error) \/ Idem!Reply(r, BadRequest)
  BY <1>1, <1>3, <1>4 DEF Service!Reject, Service!Next, Stored
<1>5. CASE /\ idem[KeyOf[r]] # NoRow
           /\ Idem!Reply(r, IF idem[KeyOf[r]].hash = Payload[r]
                              THEN idem[KeyOf[r]].answer ELSE Conflict)
  <2>1. Stored[KeyOf[r]] = [hash |-> idem[KeyOf[r]].hash, answer |-> idem[KeyOf[r]].answer]
    BY <1>1, <1>5 DEF Stored, StoredAnswer
  <2>2. Stored[KeyOf[r]] \in [hash : Payloads, answer : Answers]
    BY <1>1, <1>5, <2>1, RowTyped DEF IInv
  <2>3. Stored[KeyOf[r]] # NoRow
    BY <2>2, CartApiAssumption
  <2>4. Stored[KeyOf[r]].hash = idem[KeyOf[r]].hash /\ Stored[KeyOf[r]].answer = idem[KeyOf[r]].answer
    BY <2>1
  <2>5. Service!Answer(r, IF Stored[KeyOf[r]].hash = Payload[r]
                            THEN Stored[KeyOf[r]].answer ELSE Conflict)
    BY <1>3, <1>5, <2>4
  <2>6. Service!Replay(r)
    BY <1>1, <2>3, <2>5 DEF Service!Replay, Stored
  <2> QED
    BY <2>6 DEF Service!Next
<1> QED
  BY <1>4, <1>5 DEF IsAnswered

LEMMA CompleteRefines ==
  ASSUME IInv, Pending, NEW r \in Requests, Keyed(r), NEW a \in Answers, Idem!Complete(r, a),
         UNCHANGED found
  PROVE  Service!Next
<1>1. /\ idem[KeyOf[r]] = NoRow /\ idem'[KeyOf[r]] # NoRow /\ KeyOf[r] \in Idem!Keys
      /\ idem'[KeyOf[r]] = [hash |-> Payload[r], state |-> "COMPLETED", answer |-> a]
      /\ \A k \in Idem!Keys \ {KeyOf[r]} : idem'[k] = idem[k]
  BY CompleteStores, KeyTyped
<1>2. Stored[KeyOf[r]] = NoRow
  BY <1>1 DEF Stored, StoredAnswer
<1>3. Stored' = [Stored EXCEPT ![KeyOf[r]] = [hash |-> Payload[r], answer |-> a]]
  <2>1. StoredAnswer(KeyOf[r])' = [hash |-> Payload[r], answer |-> a]
    <3>1. idem'[KeyOf[r]].hash = Payload[r] /\ idem'[KeyOf[r]].answer = a
      BY <1>1
    <3> QED
      BY <1>1, <3>1 DEF StoredAnswer
  <2>2. \A k \in Idem!Keys \ {KeyOf[r]} : StoredAnswer(k)' = StoredAnswer(k)
    BY <1>1 DEF StoredAnswer
  <2>3. Stored' = [k \in Idem!Keys |-> StoredAnswer(k)']
    BY DEF Stored
  <2> QED
    BY <1>1, <2>1, <2>2, <2>3 DEF Stored
<1>4. PICK b \in {a, Error} : Idem!Reply(r, b)
  BY DEF Idem!Complete
<1>5. Replies' = [Replies EXCEPT ![r] = b]
  BY <1>4, RepliesStep
<1>6. Replies[r] = NoReply
  BY DEF Idem!Complete, Pending, Replies, KeyedReply
<1>7. Service!Answer(r, a) \/ Service!Answer(r, Error)
  BY <1>4, <1>5, <1>6 DEF Service!Answer, Replies
<1>8. Service!Execute(r)
  BY <1>2, <1>3, <1>7 DEF Service!Execute, Stored
<1> QED
  BY <1>8 DEF Service!Next

LEMMA RefinesInit == Init => Service!Init
<1> SUFFICES ASSUME Init PROVE Service!Init
  OBVIOUS
<1>1. \A k \in Idem!Keys : StoredAnswer(k) = NoRow
  BY DEF Init, Idem!Init, StoredAnswer
<1>2. \A r \in Requests : KeyedReply(r) = NoReply
  BY DEF Init, Idem!Init, KeyedReply
<1> QED
  BY <1>1, <1>2 DEF Service!Init

\* Requests without a key, and the reads of the others, are not seen.
LEMMA RefinesNext ==
  IInv /\ Pending /\ [Next]_vars => [Service!Next]_<<Stored, Replies>>
<1> SUFFICES ASSUME IInv, Pending, [Next]_vars
             PROVE  Service!Next \/ UNCHANGED <<Stored, Replies>>
  OBVIOUS
<1>1. ASSUME UNCHANGED <<idem, reply>> PROVE UNCHANGED <<Stored, Replies>>
  BY <1>1, StoredUnchanged DEF Replies, KeyedReply, Keyed, Asks
<1>2. ASSUME NEW r \in Requests, KeyStep(r)
      PROVE  Service!Next \/ UNCHANGED <<Stored, Replies>>
  BY <1>1, <1>2, ProtocolSteps, AnsweredRefines DEF Moves, KeyStep
<1>3. ASSUME NEW r \in Requests, CreateCart(r)
      PROVE  Service!Next
  <2> DEFINE row == IF found[r].row = NoCart THEN NewCart(r) ELSE found[r].row
             a   == CreatedReply(r, found[r].cart, row)
  <2>1. /\ Idem!Complete(r, a) /\ UNCHANGED found /\ Keyed(r)
        /\ Asks(r, "create") /\ found[r] \in Reads
    BY <1>3 DEF CreateCart, Keyed, IInv, TypeOK
  <2>2. row \in Carts /\ found[r].cart \in CartIds
    BY <2>1, PayloadTyped DEF Reads, NewCart, Carts
  <2>3. a \in Answers
    BY <2>2 DEF CreatedReply, CreateAnswers, Answers, Carts
  <2> HIDE DEF a
  <2> QED
    BY <2>1, <2>3, CompleteRefines
<1>4. ASSUME NEW r \in Requests, CheckoutCart(r)
      PROVE  Service!Next
  <2> DEFINE a == [code |-> IF found[r].row = NoCart THEN 404 ELSE 200, cart |-> found[r].cart]
  <2>1. /\ Idem!Complete(r, a) /\ UNCHANGED found /\ pc[r] = "work"
        /\ Asks(r, "checkout") /\ found[r] \in Reads
    BY <1>4 DEF CheckoutCart, IInv, TypeOK
  <2>2. Keyed(r)
    BY <2>1 DEF Keyed, IInv, WorkTrue, Asks
  <2>3. a \in Answers
    BY <2>1 DEF Reads, CheckoutAnswers, Answers
  <2> HIDE DEF a
  <2> QED
    BY <2>1, <2>2, <2>3, CompleteRefines
<1>5. ASSUME NEW r \in Requests, Checkout(r) \/ UnkeyedError(r) \/ GetTotals(r) \/ Edit(r) \/ GetRow(r)
      PROVE  UNCHANGED <<Stored, Replies>>
  <2>1. UNCHANGED idem
    BY <1>5 DEF Checkout, UnkeyedError, GetTotals, Edit, GetRow, Idem!Fail
  <2>2. ~Keyed(r)
    BY <1>5 DEF Checkout, UnkeyedError, GetTotals, Edit, GetRow, Keyed, Asks, Pending
  <2>3. UNCHANGED reply \/ \E a : Idem!Reply(r, a)
    BY <1>5 DEF Checkout, UnkeyedError, GetTotals, Edit, GetRow, Idem!Fail
  <2> QED
    BY <1>1, <2>1, <2>2, <2>3, StoredUnchanged, RepliesStep
<1>6. ASSUME NEW r \in Requests, FindCart(r) \/ LockCart(r)
      PROVE  UNCHANGED <<Stored, Replies>>
  BY <1>1, <1>6 DEF FindCart, LockCart
<1>7. CASE UNCHANGED vars
  BY <1>1, <1>7 DEF vars
<1> QED
  BY <1>2, <1>3, <1>4, <1>5, <1>6, <1>7 DEF Next

\* To its clients, whatever they send and however the tries overlap, the cart
\* API is the service that executes each key at most once and answers every
\* retry with the first answer (handlers_cart.go:99-222, 421-580).
THEOREM KeysAreServed == Spec => ImplementsService
BY RefinesInit, RefinesNext, Invariance, PendingInvariance, PTL
   DEF Spec, ImplementsService, Service!Spec, Stored, Replies
=============================================================================
