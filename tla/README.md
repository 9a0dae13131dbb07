# Verification of golang-k8s-microservices

TLA+ models of the services in `src/`, TLC runs that check them on small
instances, and TLAPS proofs that hold for every value of the constants.

1. The system  2. Modules and code  3. Runs, bounds and what they show
4. Fairness  5. Proofs  6. Findings and observations  7. Not modelled
8. Plan

## 1. The system

The repository holds eight Go services. They are deployed separately (several
replicas each) and meet in MySQL tables, a Kafka broker, a RabbitMQ broker and
one HTTP call.

| Component | State it keeps | Operations | What is hard about it | What makes it correct |
|---|---|---|---|---|
| cart-service, creation (`internal/http/handlers_cart.go:33-233`) | tables `carts`, `cart_totals`, `cart_idempotency` | `CreateOrGetActiveCart`: one transaction that claims an idempotency key, finds or inserts a cart, completes the key | overlapping tries of one key, reuse of a key, deadlocks between inserts, lost replies, crashes inside the transaction | a key is executed once, all its answers agree, nothing is left half done, everybody is answered |
| cart-service, checkout (`:391-439`; `NOCheckout`, `:441-578`, is not routed) | `cart_outbox`; `NOCheckout` also `carts`, `cart_idempotency` | one INSERT of an event; `NOCheckout` also sets the status under a row lock | retries, two checkouts of one cart, a COMMIT whose answer is lost, waiting for the workers' locks | an accepted event is stored and will be settled; a checked out cart has one event |
| cart-service, reading and editing (`:235-389`) | none of their own | `GetCart`: four reads without a transaction; the four handlers of items and promotions answer `{todo}` | a creation that commits between two reads | a cart is shown with its totals or not at all |
| cart-service, outbox worker (`internal/outbox/publisher.go`) | rows of `cart_outbox`, the Kafka topic | `publishBatch` on a 500 ms ticker in any number of processes | overlapping batches, rollback after a send, ambiguous publish errors, order of events | nothing lost, nothing sent that was rolled back, duplicates only after failures, order per cart |
| payment-service and invoice-service, rate limiter (`internal/middleware/ratelimiterv2.go`) | in each replica a map from client to token bucket | `getLimiter`, `Allow`, the 429 reply | goroutines whose time stamps reach the bucket out of order, the bucket's boundaries | the rate is kept and a patient client is served |
| payment-service, orders (`internal/handlers/order_handler.go`) | table `orders` | create, read, three lists, PATCH, soft DELETE | PATCH is an UPDATE and a separate SELECT; rows-affected; paging over a table that changes | 404 is true, a deleted order stays hidden, a PATCH shows its write, a walk misses nothing that stayed |
| inventory-service, orders (`internal/handlers/invoice_handler.go:33-300`) | the same table `orders` (both deployments name the same database) | the same handlers, fewer columns in a PATCH | two services write one table | the same |
| inventory-service, invoice actions (`:302-527`) | a PDF file per order in the pod | preview and sendemail write the file and then read it | all requests for an order share one path | a reader gets the document of its request, and never another order's |
| inventory-service, `GetInventoryByID` (`:82-105`) | none | a call to invoice-service with a 10 s timeout | the other end refuses, fails or never responds | every lookup is answered |
| invoice-service, invoices (`internal/handlers/invoice_handler.go`) | table `invoices` | create, `GetByID`, three lists, PATCH and soft DELETE by invoice number | the number is not unique, is compared as a number, and is the column a PATCH changes, looks up by and the list is ordered by | a PATCH shows what was written, a walk misses only rows that moved, invoices of one number are treated alike |
| kafka-order-service | a topic, the offsets of a consumer group | POST publishes, every process also consumes | redelivery, evicted members that go on, retries that duplicate, order of a key, shutdown | no event lost to a commit, order per key, every event handled |
| order-service | a slice in memory, without a mutex | CRUD by a scan of the slice; a POST publishes one event | handlers that overlap; `Delete` shifts the array that readers hold; ids repeat after a delete | exact while one writer is at work at a time, also for those who read beside it |
| queue-service | a RabbitMQ queue | a consumer that acknowledges on delivery | deaths of either service and of the broker | events are received once at most, in the order of the POSTs, and those in the queue at last, unless a process dies with them |
| message-service | a MongoDB collection | insert, list by user | no uniqueness of `order_id` | not modelled (section 7) |

Interactions. Checkout and the workers meet in `cart_outbox` and its InnoDB
locks (`CartOutbox` composes the two). Creation and checkout share the tables of
the cart and the key protocol (`CartApi` composes the handlers with
`IdempotencyKeys`). payment-service and inventory-service share `orders`
(`Orders` has requests of both). An order that changes while its invoice is
printed is `Change` in `InvoiceFile`. inventory-service asks invoice-service
through its rate limiter (`InvoiceClients`). order-service's POST and
queue-service meet in RabbitMQ (`OrderQueue`). Producers and consumers of
kafka-order-service meet in the log of the partitions and in `main`'s shutdown
(`KafkaOrders`).

## 2. Modules and code

| Module | Stands for | State and actions |
|---|---|---|
| `CartOutbox` | `Checkout`, `Publisher.Run`, `publishBatch`, the topic | A row is named by the request that inserts it. `CheckoutStamp` is gorm's stamp before the INSERT, `CheckoutInsert` the INSERT (it waits for gap locks), `CheckoutCommit` COMMIT with or without its answer. `BatchSelect` is SELECT ... FOR UPDATE LIMIT, `PublishOk`/`PublishErr`/`MarkPublished` one turn of the loop, `BatchCommit`/`BatchAbort` the end of the transaction. `wire` holds copies that a failed `Publish` left in flight, `BrokerAppend` their arrival. |
| `OutboxDelivery` | what the outbox promises to the topic's consumers and to who reads `cart_outbox` | Abstract: `Commit`, `Send`, `Excuse` (an attempt failed), `Settle`. An event is sent after its COMMIT and after the earlier events of its cart unless they are excused; it is settled once, as PUBLISHED only if sent and as FAILED only if excused. `CartOutbox!ImplementsDelivery` is the refinement mapping; workers, batches, locks, copies in flight and faults are hidden. |
| `IdempotencyKeys` | the key protocol that `CreateOrGetActiveCart` and `NOCheckout` repeat line by line | One phase per statement; `Holds`, `SharedLock` and `GapLocked` are InnoDB's locks, `Deadlocked` its detection, `GapLocks` the isolation level. The handler's own work is a choice of an answer. |
| `IdempotentService` | what a client is promised | Abstract: a key is executed at most once, its answer never changes, every request is answered with it, 400, 409 or an error. `IdempotencyKeys!ImplementsService` is the refinement mapping of the protocol alone, `CartApi!ImplementsService` that of the handlers with their work. |
| `CartApi` | `CreateOrGetActiveCart`, `Checkout`, `NOCheckout`, `GetCart` and the four handlers of items and promotions on their tables | Instantiates `IdempotencyKeys` for the key and fills in its work step: `FindCart`, `CreateCart`, `LockCart`, `CheckoutCart`. `GetRow` and `GetTotals` are the two reads of `GetCart` that can differ. `CheckoutHandler` says which of the two checkouts the router would name. |
| `RateLimiter` | the middleware and `x/time/rate` as it uses it | `GetLimiter` under the map's mutex, `ReadClock` before the bucket's mutex, `Reserve` under it. Tokens are counted in clock ticks, so no fraction is lost. |
| `Orders` | the handlers of both services on `orders` | One action per statement: an INSERT draws its id before its row is visible (`CreateInsert`, `CreateCommit`); PATCH is `PatchUpdate` and `PatchRead`. `ServiceOf` says who answers and so which columns a PATCH may set and whether `Listv3` exists. |
| `OrderPages` | a client that walks a list by `limit` and `offset` | `Walk` reads the next page with `Orders`' `Page`, `Limit`, `Matching` and steps by the limit of the reply (`Echo`). |
| `KafkaOrders` | producer, consumer group, `main` | `Post`, `Ack`, `Retry`, `SendError` are `SendMessage`; `Claim`, `Handle`, `Mark`, `AutoCommit`, `Release` a member's session; `Evict` the coordinator; `Stop`, `Drain`, `Expire`, `Exit`, `Crash`, `Restart` a process. |
| `EventGroup` | what kafka-order-service promises about its events | Abstract: `Begin`, `Store` (a bounded number of copies, and 201 only with one), `Handle` without gaps, `Commit` forward and over handled events only, `Skip` while the group has no offset. `KafkaOrders!ImplementsGroup` is the refinement mapping; processes, claims, marks, evictions and copies in flight are hidden. |
| `InvoiceFile` | `InvoiceActions`, `sendmailInvoice` | `Load`, `Create` (truncates), `Write`, then `Serve` or `Mail`, `Read` and `ServeEnd` or `MailEnd`. A `Read` takes all there is at that moment (a PDF fits in one buffer), so a second one finds only what was written since. `Serve` may also answer 304, to a client that has a copy; `Fail` is the 500 of any call on the file system. A document is its blocks, each with the request that made it. |
| `Invoices` | the handlers of invoice-service | A row is its text. `Num` is the number MySQL reads in a text, which `Numbered` compares; `Rank` the collation. PATCH is `PatchUpdate` and `PatchRead` by the old number; a handler that is done is idle again, so that behaviours have no end. `Pages` is what `ORDER BY invoice_number DESC LIMIT OFFSET` may return. |
| `InvoiceClients` | `GetInventoryByID` with `GetJSON`; a client that walks the list | `Lookup`, `Serve` (rate limiter and `GetByID`), `Relay`, `Timeout`; `Start`, `Walk`, and `Note`, which records what moved. |
| `OrderSlice` | order-service's `service.go` | A step is one access to shared memory. The slice header is three words, array, length and capacity; `Extend`, `StoreCapacity`, `StoreArray`, `StoreLength`, `StoreOrder` are `append` in the order of the compiler's stores, `Move`, `CutLength`, `CutArray` the append that deletes; `Scan` is a range over a header copied before. An index beyond an array reads anything (`Wild`), one beyond the slice is a panic and a 500. |
| `OrderQueue` | `CreateOrder`'s publish, RabbitMQ, queue-service | Composes `OrderSlice` with `Publish` (or its dropped error), `Deliver` (autoAck), `Receive`, `Connect` and the deaths of the three processes. |
| `CartOutboxProofs`, `IdempotencyProofs`, `CartApiProofs`, `OrdersProofs`, `KafkaProofs`, `InvoiceFileProofs`, `InvoicesProofs` (with `RateLimiter`), `OrderQueueProofs` | | the theorems of section 5 |
| `MC*` | | values of the constants for TLC |

`PROJECT.json` maps every definition to the lines it stands for. Definitions
marked external model InnoDB, Kafka, sarama, `x/time/rate`, gorm's soft delete
and the file system, from how the code uses them; so are MySQL's comparison of a
text with an integer, Go's memory accesses and RabbitMQ. Formatting, logging and the
layout of the PDF are left out.

History variables (`disturbed`, `slip`, `served`, `born`, `gone`, `changed`,
`handled`, `skipped`, `before`, `creator`, `offered`, `stayed`, `removed`, `moved`, `touched`,
`alone`, `raced`, `ideal`, `values`, `lost`) are written only and appear in no
guard.

Operators that begin with "Bug:" are not part of a specification: each is what a
plausible mistake would make of the definition after it, and shows that a
property notices that mistake.

### Isolation and locks

No DSN of the repository sets `transaction_isolation`, so the server's default,
REPEATABLE READ, is what the deployments run. The choice matters: at that level
a locking read also locks gaps, new keys that are neighbours deadlock, and an
outbox batch shuts out every checkout; under READ COMMITTED inserts meet
duplicate keys instead and the second read of the key can deadlock on shared
locks. `outbox` runs REPEATABLE READ; `carts` runs the routed handlers at that level
and `NOCheckout` under READ COMMITTED; `keys` runs both. The theorems hold for both.

## 3. Runs, bounds and what they show

| Run | Instance | Distinct states | Shows |
|---|---|---|---|
| `outbox` | 2 workers, 2 stamps, LIMIT 2, 1 failure; 3 checkouts of 2 carts, or 2 of 1 cart and a copy that arrives late; fair | 0.37 M | A row is in one worker's hand and NEW there; PUBLISHED rows were sent; only committed events are sent; copies are bounded by failures; first copies of a cart's events are in stamp order; refinement of `OutboxDelivery`, so that a settled row stays so and says the truth; accepted events are settled and checkouts answered. |
| `keys` | 2 tries of a request, a reuse of its key with another payload, a neighbouring key, an invalid request; both isolation levels; fair | 37 k | One execution per key, equal answers, an answer to every request that is sent, also to one that still waits for its key's lock, through deadlocks; refinement of `IdempotentService`, for which no key may be visible before it is completed. |
| `carts` | 3 creations with 2 keys for one owner, a checkout, a read and an edit as routed; or 2 creations, checkouts of one cart with two keys and a retry with `NOCheckout` | 0.52 M | One cart per key, no half written cart, also for `GetCart`, every 200 names a stored cart, a second ACTIVE cart of an owner only from creations that overlap; one event per cart that `NOCheckout` checks out. |
| `rate_limit` | 3 goroutines, a bucket of 2 tokens, 2 ticks a token, 7 ticks | 0.13 M | The bucket's account balances, the rate is kept while stamps are in order, a patient client is served. |
| `orders` | 3 requests of both services (two of payment-service, symmetric) out of 12, 2 dumped orders and a new one, 2 seconds, a walk by pages of 1 | 2.5 M | 404 to GET and DELETE is true, deleted orders stay hidden, one DELETE wins, a PATCH shows its write, a walk misses at most one order for each that left the list. |
| `kafka` | 2 processes, 2 partitions, 2 events of one order, 2 attempts, 1 fault of any kind; fair | 0.11 M | Refinement of `EventGroup`, so that no event is lost to a commit and no offset goes back; the owner is never behind the offset, key order, every event handled. |
| `invoice_file` | 3 requests of any action for 2 orders, documents of 2 and 1 blocks, a row that changes, failing writes | 2.9 M | Undisturbed requests show whole documents; no order shows another's. |
| `invoices` | 2 handlers without end, 3 rows with texts "12", "012" and "7"; or one writer and a walk by pages of 1; or a lookup; fair | 54 k | Invoices of one number stay together, a renaming PATCH shows its text or a row written since, a walk misses at most one row for each that was deleted or renamed, every lookup is answered. |
| `order_queue` | requests out of POST, GET /, and GET, PUT, DELETE of two ids: 2 that do not overlap and then 2 that do, access by access; or 5 one after the other; or 4 one after the other with the queue and a death of any process; fair | 0.18 M | The slice is exact while writers do not overlap, readers or not; a request no writer overlaps gets the list's answer, also where two orders have one id; a GET beside one POST or PUT finds its order with a value it had meanwhile; events are received once at most, in the order of the POSTs, and at last. |
| `checkout_status`, `orders_patch`, `invoice_mail` | the instances above | | the findings of section 6 |

Four of the runs hold two or three questions about one component that share its
constants: a variable of the MC module (`lateCopies` of `MCCartOutbox`, `unrouted` of
`MCCartApi`, `mode` of `MCOrderQueue`, `focus` of `MCInvoiceClients`) is
chosen in the initial state, stays, and picks one. In `carts` it also sets
`CheckoutHandler` and `GapLocks`; for the rest such a variable only restricts the
steps of the specification, where the parts would multiply each other's states
and add no case that the other does not have.

Why the bounds are enough to see the interesting cases:

- Outbox. Two workers are what overlap needs, and a third adds no new kind of
  conflict, as a lock has one holder. Three rows with LIMIT 2 make a batch that
  leaves a row behind and one that stops after its first row. Two stamps are
  all that two events of a cart can be compared by; three checkouts may also
  share a stamp. `MaxFaults` bounds rolled back batches (errors, lock wait
  timeouts, crashes of a worker: InnoDB sees the same rollback) and lost FAILED
  marks; publish errors need no bound, as they settle a row. `MaxLate` bounds the
  copies a failed `Publish` may leave. The theorems have no bound on either.
- Keys. The cases of the code are: same key and payload, same key and other
  payload, another key in the same gap, and a refusal; the run has one request
  more of the first kind, for the retry. `sent`, chosen in the initial state, is any
  subset of them.
- Carts. Two cart ids are as many as the two creating keys may use, and two keys
  of one owner are what a second cart takes. The retry of a creation, the read and
  the edit run beside the routed checkout; several checkouts of a cart meet only in
  `NOCheckout`, which locks it.
- Rate limiter. A bucket is shared by nobody but the requests of a client in a
  replica, so one bucket is enough; three goroutines let a stamp be overtaken
  by two. Seven ticks empty and refill the bucket and go past both boundaries.
- Orders. The walk needs an order that is removed on a page already read, one
  that stays beyond it, and one created meanwhile. Requests r1 and r3 are of
  one service, so exchanging them is a symmetry. The page limits of the code (20 and
  100) are 1 and 1: the table cannot outgrow the real ones.
- Kafka. A fault is a crash, a stop, a rebalance, an eviction, or a failed attempt
  that leaves a copy on its way; the run checks each one at every point, not
  pairs of them.
- Invoice file. A document of two blocks over one of one block leaves a tail,
  which is what truncation is for; two requests that disturb a third are three.
- Invoices. Two texts of one number are what merging and a stale read by number
  need, a third text is what is renamed away. A second PATCH or DELETE between the
  two statements of a PATCH is two handlers; they never end, so a behaviour has
  any number of requests. Three rows let a walk by pages of one miss one in the
  middle. The page limits (20 and 100) are 2 and 2.
- Order queue. Two requests fill and grow the array (capacities 0, 1, 2), or shift
  it, and two more then overlap at every access. An id that two orders have takes five
  requests to see: POST, POST, DELETE 1, POST, GET 2. One fault, because a death
  empties what the process had.

`CHECK_DEADLOCK FALSE` stands in the configurations whose requests are finite:
when all have been answered nothing need happen (in `invoices`, the one lookup).
`rate_limit` has no such line,
as its goroutines go on for ever.

## 4. Fairness

- `CartOutbox!FairSpec`: a checkout whose transaction has begun goes on
  (`CheckoutInsert`, `CheckoutCommit`), as a goroutine does, and a worker takes
  its next step, because `Run` loops on a ticker and ignores errors
  (`publisher.go:21-33`). Weak fairness per worker and per request is enough for
  both liveness properties. Failures, late arrivals, new requests and lock wait
  timeouts are never forced: a checkout is answered because batches end.
- `IdempotencyKeys!FairSpec`: a request that was sent is taken up and goes on, a lock
  that stays free is granted and InnoDB breaks deadlocks at once. No error and no
  timeout is needed. The module's formula is about all requests, `MCSpec` about those
  in `sent`: clients need not send the others.
- `KafkaOrders!FairSpec`: the loops of a session go on, a session that was told to
  end does, and the coordinator removes members that are gone and assigns
  free partitions. Restarts, commits, new requests and faults are not forced, and
  `EveryEventIsHandled` therefore allows for no process being up.
- `OrderQueue!FairSpec`: the broker sends a connected consumer what is queued and the
  consumer's range prints it (`queue-service/main.go:50-52`). Nobody starts
  queue-service again by itself, so `Connect` is not forced and
  `QueuedIsReceived` allows for its being down; requests are not forced either.
- `InvoiceClients!FairSpec`: a response that arrived is read and the client's timer
  fires (`apicall.go:10-12`). That invoice-service responds is not assumed.

Faults are finite in each liveness run (`MaxFaults`): with failures for ever
nothing can be promised.

## 5. Proofs

All theorems are of the form `Spec => []P`, `Spec => [][A]_vars` or a refinement,
for every value of the constants under the module's ASSUME. Each module proves an
inductive invariant, one lemma per action, and its results from that.

`CartOutboxProofs`. Any number of workers, requests and faults, any LIMIT, both
isolation levels; Requests must be finite (a batch's Cardinality). The inductive
invariant is

    IInv == TypeOK /\ WorkInsideLocks /\ LocksAreExclusive /\ RowsAreCommitted
              /\ MarksAreTrue /\ PublishedWasSent /\ OnlyCommittedIsSent

`OnlyNewRowsInHand` is not inductive: that a row in hand is NEW follows from the
facts that a worker's work lies inside the rows it has locked, that locked rows
are NEW and committed, and that locks are exclusive, since nobody else can
then settle the row. `PublishedWasSent` becomes true at COMMIT, from marks made
before it, so the marks must be true first (`MarksAreTrue`). From it follow
`TypeCorrect`, `PublishedRowsWereSent`, `OnlyCommittedRowsAreSent`,
`BatchesAreDisjoint` and `StatusNeverGoesBack`.

Three more results stand on it. `DuplicatesAreBounded`: a row is handled from the end
of its `Publish` for good, unless its batch is rolled back, which is a fault; so
each fault, and the row's being handled, pays for one `Publish` and the copies it may
leave (`CopiesAreCounted`), and a row that waits in a batch has not been tried
(`TodoIsAhead`). `FirstCopiesKeepOrder`: with an earlier row that is neither failed nor
late, a later one is not out before the earlier was sent, and no batch takes the
later and leaves the earlier (`EarlierIsOut`). `WorkersDeliver`:
`Spec => ImplementsDelivery`. `CheckoutCommit` is its `Commit`, a `Publish` or an
arrival is its `Send`, a failed one its `Excuse`, and `BatchCommit` its `Settle`, for
which the marks must be true and the failures noted (`FailuresAreNoted`).

`IdempotencyProofs`. Any requests, keys, payloads and answers, both levels. The
invariant is `TypeOK /\ ExclusiveWork /\ RowsAreCompleted /\ RepliesAreStored`: the last
says that a reply that is an answer is the stored one, for the payload stored
with it. Every action of the protocol either moves a request or answers it
(`ProtocolSteps`), which leaves three cases instead of nine. From it follow
`TypeCorrect`, `WorkIsExclusive`, `AnswersAgree` and `Refinement`:
`Spec => ImplementsService`.

`CartApiProofs`. Any requests, keys, payloads, owners and cart ids, both checkouts,
both levels. The handlers read carts without a lock, so the invariant says what a
stale read is still good for: owner and currency of a cart never change, an id that
was drawn stays free, a row that `NOCheckout` has locked stays as it was read
(`FoundTrue`); no two handlers are about to write one cart (`Apart`); and the row of
a key, the cart it names, the cart's totals and its creator agree (`RowTrue`,
`CartTrue`). That a key is worked on once (`WorkTrue`) is proved here from
`IdempotencyKeys`' own steps, because the work step of this module refines its
choice of an answer. From it follow `TypeCorrect`, `RetriesCreateOneCart`,
`CartsAreWhole`, `CreateRepliesAreTrue`, `SecondCartsOverlap` (with `OfferTrue`, which knows
what a creation that has seen no ACTIVE cart may still find) and, for `CheckoutHandler = "NOCheckout"`,
`NOCheckoutStoresOneEvent` (the run `carts` checks it as `OneEvent`: the same
formula, where its variable says that this handler runs) and
`NOCheckoutRepliesAreTrue`. The second is what the run `checkout_status` finds violated
by the routed handler: with a checkout that locks the cart it holds, because the stored
answers, the replies and the cart a handler has locked agree (`CheckoutsTrue`) and
CHECKED_OUT is final (`CheckedOutStays`).
`KeysAreServed` says that the handlers implement `IdempotentService`: it adds that a
reply ends its request and that nothing is read for an invalid one (`Pending`), and maps the work of a handler, however many steps it takes, to
`Execute` at its COMMIT. TLC agreed on the instance of `carts`, for both handlers, but
takes as long as a run may, so no run repeats it.

`OrdersProofs`. Any requests of both services, ids, column values and clocks. A 404
or a 204 stays true because a deletion is final and a drawn id has no row before
its COMMIT (`DrawnIsFree`); what a reply says of the table stays true
(`ReplyIsTrue`); between its two statements a PATCH's columns are in the row but
for those others have set (`WriteIsThere`). From it follow `TypeCorrect`,
`NotFoundIsTrueForAll`, `DeletedOrdersStayGone`, `OneDeleteIsAnswered` and
`PatchesShowTheirWrites`; `WalksLeaveOrdersAlone` carries them all over to behaviours
with a client that pages. `WalksMissOnlyRemoved` is about that client, for any filter,
table and page limits. During a walk its property says nothing, so the invariant
speaks of the rows that will be missed: of those that were there all along, the ones
that are not seen and stand before the offset are no more than have left the list
(`WalkInv`). A removal moves one row at most over the offset, an insertion moves
rows away from it, and a page shows what it steps over. `NoReply` must be no number
(it also says that a walk has ended).

`KafkaProofs`. Any processes, partitions, requests, orders, hash function and
number of faults. A claim never stands beyond an event that was neither handled
nor lay before a claim without a commit (`ClaimTrue`), also for members that were
evicted; a mark is the position it was made at; so a commit covers handled events
only (`PastTrue`). For the order of a key the log has the events of an order after
those acknowledged before they were posted (`LogTrue`). From it follow `TypeCorrect`,
`CommitsCoverHandled`, `OwnersKeepUp` and `KeysKeepOrder`. `GroupIsImplemented` is the
refinement `Spec => ImplementsGroup`, one step at a time: `Ack`, and a copy that
arrives late, is a `Store`, for which the copies of an event in the log and on
their way must be paid for by attempts (`CopiesPaid`); that an evicted member's
`Handle` leaves no gap is `ClaimTrue`, and that the offset moves forward is
`OwnerIsNotBehind`. `CommitsCoverHandled` is what the guard of its `Commit` says, as an
invariant.

`InvoiceFileProofs`. Any requests, orders, versions of a row and lengths of
documents. The file of an order holds blocks of documents of that order only
(`FileTrue`), and the file of a request that nobody disturbed is, at each of its
statements, empty or its own document (`Whole`). From it follow `TypeCorrect`,
`UndisturbedFilesAreWhole` and `FilesStayApart`.

`InvoicesProofs`. Any handlers, texts, numbers and collation. An INSERT makes a row
live that was not (`DrawnIsFree`), a PATCH and a DELETE write all rows of a number
alike, hence `NeverSeparated`; between its two statements a PATCH's old number is
left to rows that have its own text or that others wrote (`OwnOrTouched`), hence
`PatchesShowTheirWrites`, `ClientsLeavePatchesAlone` beside the lookup and the walk, and
`TypeCorrect`. `WalksMissOnlyMoved` is the walk of orders with a list that is not
total: the place of a row is the number of rows that sort above it, and the rows
that were there all along are tied to none (`WalkInv`), so that a page by any
resolution of the ties shows each one at its place. `None` must be no number.

`InvoicesProofs` also holds the proofs about `RateLimiter`, the middleware in front of
these handlers: any clients, replicas, goroutines, rate and burst. The invariant is
`LimiterTypeOK /\ InProgress /\ BucketsAreSane /\ Balanced`; the proof of `Balanced`
counts what a stamp that goes back lets the bucket refill twice. From it follow
`LimiterTypeCorrect`, `BucketsAreBalanced`, `RateIsKept` and `PatientClientsAreServed`.

`OrderQueueProofs`. Any questions, any interleaving of memory accesses, any number of
deaths; Requests must be finite (it bounds the ids that stray memory may hold).
Four inductive invariants: the other three stand on the types, and `VInv` on `SInv` too.

- The types (`TInv`) know at which step a handler is. That a handler inside
  `append` asked to POST, or that an index is at least 1 inside a loop, is what keeps
  arrays and lists of orders well typed (`Ready`). From it follows `TypeCorrect`.
- `QInv` is about events: `ReceivedInOrder` is inductive only with the facts that
  an event received, delivered or queued has left its handler (`QueueTrue`) and that a
  request which was over when another began is over (`BeforeTrue`): what is put at the
  end of the queue comes from a handler that is not done. From it follows
  `EventsKeepOrder`.
- `SInv` compares the slice with the list `ideal`. While no two writers have overlapped
  (`OneWriter`), either no writer is at work and the slice is the list (`Steady`), or the
  one at work is at a known place: inside `append` its array holds the list and room for
  one more (`Growing`), inside PUT and DELETE its index is the first order with the id
  (`Changing`), and inside the loop that deletes the elements up to its index have moved
  and the others have not (`Cutting`, `Shifted`). A reader that no writer has overlapped
  has read a prefix of the list (`Scanned`). The three words of the header are known at
  each step of an `append`. From it follow `SerialWritesExact` and,
  for each way to reply, `AloneAnswersExact`.
- `VInv` is about a GET beside one POST or PUT: the array that it scans, the old one or
  the new one, holds at the first place of the id a value that the order had since the GET
  began, and the loop has not passed it (`Reading`); a header loaded in parts during a
  growth still covers the list. From it follows `ReadersFindOrders`.

TLC found these invariants true on the instance of `order_queue` before they were proved.

Every safety property that a passing run checks is proved. Only model-checked is
liveness, out of the prover's reach: `CheckedOutIsSettled`, `CheckoutAnswered`,
`SentIsAnswered`, `EveryEventIsHandled`, `LookupAnswered` and `QueuedIsReceived`.

## 6. Findings and observations

Disagreements of the code with its own texts, each with a run:

- `checkout_status`: the routed `Checkout` replies `CHECKED_OUT` and neither reads
  nor updates the cart, though the comment in its transaction lists both
  (`handlers_cart.go:401-403`).
- `orders_patch`: `RowsAffected == 0` is taken for "order not found"
  (`order_handler.go:164-165`), but MySQL counts changed rows and `updated_at` has
  whole seconds: a PATCH repeated within a second is answered 404.
- `invoice_mail`: "Send email using generated file" (`invoice_handler.go:455`), but the
  file is shared: where a preview and a sendemail overlap, or two of either, a mail may
  hold an empty or another request's document, and is answered 200.

What the models also show, where no text says otherwise:

- Two requests of one owner with different keys may both create an ACTIVE cart
  (`handlers_cart.go:148-171`), but only if they overlap (`SecondCartOverlaps`); the
  second cart is hidden by `First` from then on.
- A FAILED outbox row is never tried again: settled does not mean delivered
  (`publisher.go:51-55`).
- Under REPEATABLE READ the loser of a gap-lock deadlock, a new key unrelated to the
  other but for its place in the index, is answered 500 (`handlers_cart.go:129-135`).
- A retried routed checkout is a second event: its key is required and not used.
- A negative `limit` is not capped, and with an offset MySQL refuses it: 500
  (`order_handler.go:94-101`, the `ListPage` action).
- order-service's handlers race: of two POSTs that overlap one order may be lost or
  both have one id, a reader beside a DELETE may see an order twice or miss one, and a
  PUT may panic and answer 500 (`service.go:28-66`). Ids repeat after a
  DELETE even without a race, as an id is the length plus one (`:29`).
- An order whose event cannot be published is answered 200 (`controller.go:31`), and
  nothing publishes the event again; events of POSTs that overlap come in any order;
  events are transient in a durable queue, and autoAck loses what a dying
  consumer had been sent (`queue-service/main.go:38`).
- `GetInventoryByID` asks for `/v1/invoices/<id>`, and invoice-service's `GetByID`
  reads the id from the query string (`invoice_handler.go:46-60`): no lookup
  succeeds, and all are answered 500 (`Serve`, `Relay`).
- A PATCH that changes an invoice's number reads it back by the old one and is
  answered 500 after the change (`invoice_handler.go:133-137`). Where MySQL runs
  with a strict `sql_mode`, a text that is no number makes every PATCH and DELETE
  of any invoice fail while it is in the table (`Fail`).
- The lists of invoices have no second column to order by: equal numbers come in
  any order from page to page (`invoice_handler.go:86`).
- Events before the first claim or commit of a group are skipped
  (`kafka/consumer.go:20`, `skipped` in `KafkaOrders`).

## 7. Not modelled

- message-service: one insert and one query of a MongoDB collection, each atomic.
  It updates nothing, keeps nothing unique and shares nothing, so no order of
  requests can be told from another; a limit out of range means 50.
- The repositories and the consumer of cart-service, and the `service` and
  `repository` packages of inventory-, invoice- and payment-service: called by
  nothing, or empty.
- `IPRateLimiter`: never selected, and the same bucket with other numbers.
- Configuration, Kubernetes and Kong files, the generator script, S3 upload
  (called by nothing), the layout of the PDF.
- Two effects of Go's memory beyond the races modelled in `OrderSlice`: a torn order (it
  would mix the fields of two, and counts as one of them), and a DELETE that moves to a
  new array because racing POSTs have left a capacity below the length.
- Parts of a PDF: a preview with a Range header shows a part of what `Serve` shows.

## 8. Plan

Done, in this order: outbox, idempotency keys and their abstract service, the
cart API that composes them, the rate limiter, orders and paging, the Kafka
group, invoice files, invoices and their clients, the order slice and its queue;
the services that outbox and Kafka group implement; proofs for all of these
components.

What is left: the handlers of items and promotions, once they have code. They are to
change `cart_items` and `cart_totals` together, and `GetCart` reads the two apart.
