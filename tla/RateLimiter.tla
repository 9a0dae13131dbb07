---------------------------- MODULE RateLimiter ----------------------------
(***************************************************************************)
(* RateLimiterMiddleware of payment-service and invoice-service (the two   *)
(* files are the same): a token bucket per client in the memory of each    *)
(* replica, shared by the goroutines that serve its requests.              *)
(*                                                                         *)
(* The bucket is golang.org/x/time/rate.  Tokens are counted in ticks of   *)
(* the clock, Unit ticks to a token.  Allow reads the clock before it      *)
(* locks the bucket, so stamps may reach the bucket out of order, and a    *)
(* granted stamp becomes the bucket's last time even when it is earlier.   *)
(***************************************************************************)
EXTENDS Integers

CONSTANTS
  Clients,
  Replicas,
  Handlers,    \* goroutines serving requests
  ReplicaOf,   \* the replica a goroutine runs in: [Handlers -> Replicas]
  Unit,        \* ticks of the clock that refill one token
  Burst,       \* capacity of a bucket, in tokens (2)
  MaxTime,     \* bound on the clock
  NoLimiter, NoClient

Buckets == Replicas \X Clients

ASSUME RateLimiterAssumption ==
  /\ ReplicaOf \in [Handlers -> Replicas]
  /\ Unit \in Nat \ {0}
  /\ Burst \in Nat \ {0}
  /\ MaxTime \in Nat
  /\ NoLimiter \notin [tokens : 0..(Burst * Unit), last : Nat]
  /\ NoClient \notin Clients

VARIABLES
  now,      \* the clock
  clients,  \* the maps of the replicas
  pc,       \* a goroutine: no request, has the limiter, has read the clock
  client,   \* whose request it serves
  stamp,    \* the time it read
  served,   \* requests passed on to the handlers, by bucket
  slip      \* history: how far a bucket's last time was set back, in total

limiterVars == <<now, clients, pc, client, stamp, served, slip>>

Limiters == [tokens : 0..(Burst * Unit), last : Nat]

LimiterTypeOK ==
  /\ now \in 0..MaxTime
  /\ clients \in [Buckets -> Limiters \cup {NoLimiter}]
  /\ pc \in [Handlers -> {"idle", "limiter", "stamped"}]
  /\ client \in [Handlers -> Clients \cup {NoClient}]
  /\ stamp \in [Handlers -> 0..MaxTime]
  /\ served \in [Buckets -> Nat]
  /\ slip \in [Buckets -> Nat]

LimiterInit ==
  /\ now = 0
  /\ clients = [b \in Buckets |-> NoLimiter]
  /\ pc = [h \in Handlers |-> "idle"]
  /\ client = [h \in Handlers |-> NoClient]
  /\ stamp = [h \in Handlers |-> 0]
  /\ served = [b \in Buckets |-> 0]
  /\ slip = [b \in Buckets |-> 0]

Bucket(h) == <<ReplicaOf[h], client[h]>>

---------------------------------------------------------------------------
\* rate.NewLimiter(1, 2): full.
FullLimiter == [tokens |-> Burst * Unit, last |-> 0]

\* Bug: every request finds a fresh limiter, the map is never written.
LimiterOfFresh(b) == FullLimiter

LimiterOf(b) == IF clients[b] = NoLimiter THEN FullLimiter ELSE clients[b]

\* getLimiter, under the mutex of the map.
GetLimiter(h) ==
  /\ pc[h] = "idle"
  /\ \E c \in Clients :
       LET b == <<ReplicaOf[h], c>> IN
       /\ client' = [client EXCEPT ![h] = c]
       /\ clients' = [clients EXCEPT ![b] = LimiterOf(b)]
  /\ pc' = [pc EXCEPT ![h] = "limiter"]
  /\ UNCHANGED <<now, stamp, served, slip>>

\* time.Now() in Allow.
ReadClock(h) ==
  /\ pc[h] = "limiter"
  /\ stamp' = [stamp EXCEPT ![h] = now]
  /\ pc' = [pc EXCEPT ![h] = "stamped"]
  /\ UNCHANGED <<now, clients, client, served, slip>>

\* advance: what the bucket holds at time t.
Refilled(l, t) ==
  LET tokens == l.tokens + (IF t > l.last THEN t - l.last ELSE 0)
  IN  IF tokens > Burst * Unit THEN Burst * Unit ELSE tokens

\* Bug: a request is granted while any fraction of a token is left.
EnoughAny(tokens) == tokens > 0

Enough(tokens) == tokens >= Unit

Allow(h) ==
  LET l == clients[Bucket(h)]
      t == stamp[h]
      tokens == Refilled(l, t) IN
  /\ Enough(tokens)
  /\ clients' = [clients EXCEPT ![Bucket(h)] = [tokens |-> tokens - Unit, last |-> t]]
  /\ slip' = [slip EXCEPT ![Bucket(h)] = @ + (IF t < l.last THEN l.last - t ELSE 0)]
  /\ served' = [served EXCEPT ![Bucket(h)] = @ + 1]

\* Bug: Reserve() instead of Allow(), a refused request takes a token as well.
DenyReserves(h) ==
  LET b == Bucket(h)
      tokens == Refilled(clients[b], stamp[h]) IN
  /\ ~Enough(tokens)
  /\ clients' = [clients EXCEPT ![b] = [tokens |-> tokens - Unit, last |-> stamp[h]]]
  /\ UNCHANGED <<slip, served>>

\* 429: the bucket keeps its tokens and its time.
Deny(h) ==
  /\ ~Enough(Refilled(clients[Bucket(h)], stamp[h]))
  /\ UNCHANGED <<clients, slip, served>>

\* reserveN, under the lock of the bucket, and the reply or c.Next().
Reserve(h) ==
  /\ pc[h] = "stamped"
  /\ Allow(h) \/ Deny(h)
  /\ pc' = [pc EXCEPT ![h] = "idle"]
  /\ client' = [client EXCEPT ![h] = NoClient]
  /\ stamp' = [stamp EXCEPT ![h] = 0]
  /\ UNCHANGED now

Tick ==
  /\ now < MaxTime
  /\ now' = now + 1
  /\ UNCHANGED <<clients, pc, client, stamp, served, slip>>

LimiterNext == Tick \/ \E h \in Handlers : GetLimiter(h) \/ ReadClock(h) \/ Reserve(h)

LimiterSpec == LimiterInit /\ [][LimiterNext]_limiterVars

---------------------------------------------------------------------------
(* Properties.                                                             *)

\* The account of a bucket: what it served and what it holds never exceeds
\* the burst, the refill up to its last time, and what late stamps gave twice.
Balanced ==
  \A b \in Buckets : clients[b] # NoLimiter =>
    Unit * served[b] + clients[b].tokens <= Burst * Unit + clients[b].last + slip[b]

\* A replica serves a client no more than the burst plus the elapsed time
\* allows, as long as the client's stamps reached the bucket in order
\* (ratelimiterv2.go:34: one per second, burst of two).
WithinRate ==
  \A b \in Buckets : slip[b] = 0 => Unit * served[b] <= Burst * Unit + now

\* Concurrency never harms a client: a request stamped a whole refill interval
\* after the last one granted is not refused, whatever other requests of the
\* client were refused in between.
PatientIsServed ==
  [][\A h \in Handlers :
       LET b == Bucket(h) IN
       pc[h] = "stamped" /\ pc'[h] = "idle" /\ stamp[h] >= clients[b].last + Unit
         => served'[b] = served[b] + 1]_limiterVars

=============================================================================
