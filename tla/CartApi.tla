------------------------------ MODULE CartApi ------------------------------
(***************************************************************************)
(* cart-service's HTTP handlers: CreateOrGetActiveCart, the checkout of a  *)
(* cart and GetCart, on the tables carts, cart_totals, cart_outbox and     *)
(* cart_idempotency.  The last one, with its locks and errors, is          *)
(* IdempotencyKeys, whose "work" step the first two fill in.  The handlers *)
(* of items and promotions answer {"todo"} and write nothing, so the       *)
(* tables cart_items and cart_promotions stay empty.                       *)
(*                                                                         *)
(* router.go registers Checkout for POST /carts/:cartId/checkout.  The     *)
(* file also holds NOCheckout, a complete checkout that no route reaches;  *)
(* CheckoutHandler says which of the two answers.                          *)
(*                                                                         *)
(* A transaction's own writes are seen by nobody before COMMIT, and no     *)
(* handler reads carts or cart_totals with a lock except NOCheckout, so a  *)
(* handler's writes are made in the step that commits them.  Cart ids are  *)
(* numbers, the order of the primary key by which First picks a row.       *)
(***************************************************************************)
EXTENDS Integers

CONSTANTS
  Requests,
  KeyOf,            \* [Requests -> Nat]
  Payload,          \* what a request asks for, see Payloads
  Invalid,          \* requests refused with 400
  Owners,           \* (owner_type, user_id or guest_id, channel)
  Currencies,
  CartIds,          \* the UUIDs that new carts may draw
  CheckoutHandler,  \* "Checkout" as routed, or "NOCheckout"
  GapLocks,
  Unread, NoCart, NoRow, NoReply, BadRequest, Conflict, Error

Payloads ==
  [op : {"create"}, owner : Owners, currency : Currencies]
    \cup [op : {"checkout", "get", "edit"}, cart : CartIds]

Carts == [owner : Owners, currency : Currencies, status : {"ACTIVE", "CHECKED_OUT"}]

\* Response bodies; the currency of a reply is the cart's, not the request's.
CreateAnswers   == [code : {200}, cart : CartIds, currency : Currencies]
CheckoutAnswers == [code : {200, 404}, cart : CartIds]
GetAnswers      == [code : {200}, row : Carts, totals : BOOLEAN] \cup [code : {404}]
Todo            == [code |-> 200, todo |-> TRUE]
Answers         == CreateAnswers \cup CheckoutAnswers \cup GetAnswers \cup {Todo}

\* What a handler has read of a cart.
Reads == [cart : CartIds, row : Carts \cup {NoCart}]

ASSUME CartApiAssumption ==
  /\ KeyOf \in [Requests -> Nat]
  /\ Payload \in [Requests -> Payloads]
  /\ CartIds \subseteq Nat
  /\ CheckoutHandler \in {"Checkout", "NOCheckout"}
  /\ NoCart \notin Carts /\ Unread \notin Reads
  /\ {NoReply, BadRequest, Conflict, Error} \cap Answers = {}
  /\ NoRow \notin [hash : Payloads, state : {"IN_PROGRESS", "COMPLETED"}, answer : Answers]
                   \cup [hash : Payloads, answer : Answers]

VARIABLES
  pc, idem, reply,  \* of IdempotencyKeys
  carts,            \* committed rows of carts
  totals,           \* the carts with a committed row in cart_totals
  events,           \* committed rows of cart_outbox, by cart
  found,            \* the cart row a handler has read, or NoCart under a new id
  creator,          \* history: the request that inserted a cart
  offered           \* history: the owner's ACTIVE carts when a creation began

vars == <<pc, idem, reply, carts, totals, events, found, creator, offered>>

\* HashRequest: SHA-256 of the payload, different for different payloads.
Idem == INSTANCE IdempotencyKeys
          WITH HashOf <- Payload

TypeOK ==
  /\ Idem!TypeOK
  /\ carts \in [CartIds -> Carts \cup {NoCart}]
  /\ totals \subseteq CartIds
  /\ events \in [CartIds -> Nat]
  /\ found \in [Requests -> Reads \cup {Unread}]
  /\ creator \in [CartIds -> Requests \cup {NoReply}]
  /\ offered \in [Requests -> SUBSET CartIds]

Init ==
  /\ Idem!Init
  /\ carts = [c \in CartIds |-> NoCart]
  /\ totals = {}
  /\ events = [c \in CartIds |-> 0]
  /\ found = [r \in Requests |-> Unread]
  /\ creator = [c \in CartIds |-> NoReply]
  /\ offered = [r \in Requests |-> {}]

Asks(r, op) == Payload[r].op = op

---------------------------------------------------------------------------
(* CreateOrGetActiveCart.                                                  *)

NewCart(r) ==
  [owner |-> Payload[r].owner, currency |-> Payload[r].currency, status |-> "ACTIVE"]

\* SELECT ... WHERE owner, channel, status='ACTIVE': a plain read.
ActiveCarts(o) ==
  {c \in CartIds : carts[c] # NoCart /\ carts[c].owner = o /\ carts[c].status = "ACTIVE"}

\* UUIDs no committed or pending cart has.
FreshIds ==
  {c \in CartIds : /\ carts[c] = NoCart
                   /\ \A r \in Requests :
                        pc[r] = "work" /\ found[r] # Unread => found[r].cart # c}

Read(r, c) == found' = [found EXCEPT ![r] = [cart |-> c, row |-> carts[c]]]

\* Bug: a new cart is inserted outside the transaction.
FindCartOutsideTx(r) ==
  LET active == ActiveCarts(Payload[r].owner) IN
  /\ pc[r] = "work" /\ Asks(r, "create") /\ found[r] = Unread
  /\ \E c \in (IF active = {} THEN FreshIds ELSE active) :
       /\ Read(r, c)
       /\ carts' = [carts EXCEPT ![c] = IF @ = NoCart THEN NewCart(r) ELSE @]
  /\ UNCHANGED <<pc, idem, reply, totals, events, creator, offered>>

\* Bug: the query asks for the currency of the request, too.
FindCartByCurrency(r) ==
  LET active == {c \in ActiveCarts(Payload[r].owner) : carts[c].currency = Payload[r].currency} IN
  /\ pc[r] = "work" /\ Asks(r, "create") /\ found[r] = Unread
  /\ \E c \in (IF active = {} THEN FreshIds ELSE active) :
       /\ \A d \in active : c <= d
       /\ Read(r, c)
  /\ UNCHANGED <<pc, idem, reply, carts, totals, events, creator, offered>>

\* First orders by primary key; without a row a new cart is prepared.
FindCart(r) ==
  LET active == ActiveCarts(Payload[r].owner) IN
  /\ pc[r] = "work" /\ Asks(r, "create") /\ found[r] = Unread
  /\ \E c \in (IF active = {} THEN FreshIds ELSE active) :
       /\ \A d \in active : c <= d
       /\ Read(r, c)
  /\ UNCHANGED <<pc, idem, reply, carts, totals, events, creator, offered>>

\* Bug: the reply repeats the request.
CreatedReplyEcho(r, c, row) == [code |-> 200, cart |-> c, currency |-> Payload[r].currency]

CreatedReply(r, c, row) == [code |-> 200, cart |-> c, currency |-> row.currency]

\* The INSERT of a new cart, FirstOrCreate of its totals, the UPDATE of the
\* key's row, COMMIT and the reply.
CreateCart(r) ==
  LET c   == found[r].cart
      new == found[r].row = NoCart
      row == IF new THEN NewCart(r) ELSE found[r].row IN
  /\ pc[r] = "work" /\ Asks(r, "create") /\ found[r] # Unread
  /\ Idem!Complete(r, CreatedReply(r, c, row))
  /\ carts' = [carts EXCEPT ![c] = IF new THEN row ELSE @]
  /\ totals' = totals \cup {c}
  /\ creator' = [creator EXCEPT ![c] = IF new THEN r ELSE @]
  /\ UNCHANGED <<events, found, offered>>

---------------------------------------------------------------------------
(* Checkout, as routed: one transaction that inserts an outbox row, with   *)
(* no look at the cart or the key.  CartOutbox has its inner steps.        *)

Checkout(r) ==
  /\ CheckoutHandler = "Checkout" /\ Asks(r, "checkout")
  /\ pc[r] = "idle" /\ r \notin Invalid
  /\ events' = [events EXCEPT ![Payload[r].cart] = @ + 1]
  /\ \/ Idem!Reply(r, [code |-> 200, cart |-> Payload[r].cart])
     \/ Idem!Reply(r, Error)
  /\ UNCHANGED <<idem, carts, totals, found, creator, offered>>

---------------------------------------------------------------------------
(* NOCheckout.                                                             *)

\* Bug: the cart is read without FOR UPDATE.
CartLockedNever(r, c) == FALSE

\* Another checkout has locked the row of c.
CartLocked(r, c) ==
  \E s \in Requests \ {r} :
    /\ pc[s] = "work" /\ Asks(s, "checkout")
    /\ found[s] # Unread /\ found[s].cart = c /\ found[s].row # NoCart

\* SELECT ... WHERE cart_id FOR UPDATE.
LockCart(r) ==
  LET c == Payload[r].cart IN
  /\ pc[r] = "work" /\ Asks(r, "checkout") /\ found[r] = Unread
  /\ ~CartLocked(r, c)
  /\ Read(r, c)
  /\ UNCHANGED <<pc, idem, reply, carts, totals, events, creator, offered>>

CheckedOut(row) == [row EXCEPT !.status = "CHECKED_OUT"]

\* An ACTIVE cart changes status and gets its event; one CHECKED_OUT before
\* is a success without effect; a missing one is 404, stored like a success.
CheckoutCart(r) ==
  LET c == found[r].cart
      row == found[r].row
      active == row # NoCart /\ row.status = "ACTIVE" IN
  /\ pc[r] = "work" /\ Asks(r, "checkout") /\ found[r] # Unread
  /\ Idem!Complete(r, [code |-> IF row = NoCart THEN 404 ELSE 200, cart |-> c])
  /\ carts' = [carts EXCEPT ![c] = IF active THEN CheckedOut(@) ELSE @]
  /\ events' = [events EXCEPT ![c] = IF active THEN @ + 1 ELSE @]
  /\ UNCHANGED <<totals, found, creator, offered>>

---------------------------------------------------------------------------

(* GetCart: reads outside any transaction, first the cart, then the rest.  *)

GetRow(r) ==
  LET c == Payload[r].cart IN
  /\ pc[r] = "idle" /\ r \notin Invalid /\ Asks(r, "get") /\ found[r] = Unread
  /\ IF carts[c] = NoCart
       THEN Idem!Reply(r, [code |-> 404]) /\ UNCHANGED found
       ELSE Read(r, c) /\ UNCHANGED <<pc, reply>>
  /\ UNCHANGED <<idem, carts, totals, events, creator, offered>>

\* Missing totals are shown as zeros.
GetTotals(r) ==
  /\ pc[r] = "idle" /\ Asks(r, "get") /\ found[r] # Unread
  /\ Idem!Reply(r, [code |-> 200, row |-> found[r].row, totals |-> found[r].cart \in totals])
  /\ UNCHANGED <<idem, carts, totals, events, found, creator, offered>>

(* AddItem, UpdateQty, RemoveItem, ApplyPromotion.                         *)

Edit(r) ==
  /\ pc[r] = "idle" /\ r \notin Invalid /\ Asks(r, "edit")
  /\ Idem!Reply(r, Todo)
  /\ UNCHANGED <<idem, carts, totals, events, found, creator, offered>>

---------------------------------------------------------------------------

\* A request that takes part in the protocol of IdempotencyKeys, or is refused.
Keyed(r) ==
  \/ Asks(r, "create") \/ r \in Invalid
  \/ Asks(r, "checkout") /\ CheckoutHandler = "NOCheckout"

KeyStep(r) ==
  /\ Keyed(r)
  /\ Idem!Protocol(r)
  /\ offered' = [offered EXCEPT ![r] =
                   IF pc[r] = "idle" /\ Asks(r, "create") THEN ActiveCarts(Payload[r].owner) ELSE @]
  /\ UNCHANGED <<carts, totals, events, found, creator>>

\* Checkout's transaction is rolled back, or a read of GetCart fails.
UnkeyedError(r) ==
  /\ ~Keyed(r) /\ ~Asks(r, "edit")
  /\ Idem!Fail(r)
  /\ UNCHANGED <<carts, totals, events, found, creator, offered>>

Next ==
  \E r \in Requests :
    \/ KeyStep(r)
    \/ FindCart(r) \/ CreateCart(r)
    \/ Checkout(r) \/ UnkeyedError(r)
    \/ LockCart(r) \/ CheckoutCart(r)
    \/ GetRow(r) \/ GetTotals(r) \/ Edit(r)

Spec == Init /\ [][Next]_vars

---------------------------------------------------------------------------
(* Properties.                                                             *)

\* However often a client retries, and however the tries overlap, a key
\* creates one cart at most (handlers_cart.go:99-222).
OneCartPerKey ==
  \A c, d \in CartIds :
    c # d /\ creator[c] # NoReply /\ creator[d] # NoReply
      => KeyOf[creator[c]] # KeyOf[creator[d]]

\* Nothing is left half done: a cart exists only with its totals and with the
\* completed key of its creator, which replays that cart; and GetCart, whose
\* reads have no transaction, shows no cart without its totals.
NoHalfWrittenCart ==
  /\ \A r \in Requests :
       Asks(r, "get") /\ reply[r] \in GetAnswers /\ reply[r].code = 200 => reply[r].totals
  /\ \A c \in CartIds :
       /\ carts[c] # NoCart <=> c \in totals
       /\ carts[c] # NoCart =>
            LET row == idem[KeyOf[creator[c]]] IN row # NoRow /\ row.answer.cart = c

\* A 200 of CreateOrGetActiveCart, replays included, names a stored cart of
\* the owner who asked, in the currency it was created with.
CreatedIsStored ==
  \A r \in Requests :
    reply[r] \in CreateAnswers =>
      LET cart == carts[reply[r].cart] IN
        /\ cart # NoCart
        /\ cart.owner = Payload[r].owner /\ cart.currency = reply[r].currency

\* An owner gets a second ACTIVE cart only from creations that overlap, which
\* nothing prevents: of the carts that were ACTIVE for the owner when a request
\* began, none is any more once that request has created another
\* (handlers_cart.go:148-171).
SecondCartOverlaps ==
  \A c \in CartIds :
    creator[c] # NoReply =>
      \A d \in offered[creator[c]] : carts[d].status = "CHECKED_OUT"

\* With NOCheckout: a cart is checked out exactly when it has its one event,
\* whatever the keys of the requests and their overlaps.
OneEventPerCheckedOutCart ==
  \A c \in CartIds :
    events[c] = IF carts[c] # NoCart /\ carts[c].status = "CHECKED_OUT" THEN 1 ELSE 0

\* A checkout answered 200 {"status":"CHECKED_OUT"} has set the cart's status,
\* which the handler's comment lists as its step 2 (handlers_cart.go:402).
CheckedOutReplyIsTrue ==
  \A r \in Requests :
    Asks(r, "checkout") /\ reply[r] \in CheckoutAnswers /\ reply[r].code = 200 =>
      LET cart == carts[Payload[r].cart] IN cart # NoCart /\ cart.status = "CHECKED_OUT"

\* With the handlers' own work, and the unkeyed requests besides, the keyed
\* ones are still served as IdempotentService promises (handlers_cart.go:99-222,
\* 421-580).
StoredAnswer(k) ==
  IF idem[k] = NoRow THEN NoRow ELSE [hash |-> idem[k].hash, answer |-> idem[k].answer]
KeyedReply(r) == IF Keyed(r) THEN reply[r] ELSE NoReply

Service == INSTANCE IdempotentService
             WITH Keys <- Idem!Keys, HashOf <- Payload,
                  stored <- [k \in Idem!Keys |-> StoredAnswer(k)],
                  reply <- [r \in Requests |-> KeyedReply(r)]
ImplementsService == Service!Spec

=============================================================================
