------------------------- MODULE MCIdempotencyKeys -------------------------
(* Values of IdempotencyKeys' constants for model checking.  The server's  *)
(* isolation level is set before the first request and stays: one run      *)
(* checks the two levels.  Clients send any of the requests; one that was  *)
(* sent is at work from then on, also while it waits for its first lock.   *)
EXTENDS IdempotencyKeys, TLC

CONSTANTS r1, r2, r3, r4, r5, h1, h2

VARIABLES repeatableRead, sent

instance == <<repeatableRead, sent>>

ReadCommitted == INSTANCE IdempotencyKeys WITH GapLocks <- FALSE

\* Two tries of one request, a reuse of its key with another payload, and a
\* request with the neighbouring key; and a request with no valid payload.
MCKeyOf  == (r1 :> 1) @@ (r2 :> 1) @@ (r3 :> 1) @@ (r4 :> 2) @@ (r5 :> 1)
MCHashOf == (r1 :> h1) @@ (r2 :> h1) @@ (r3 :> h2) @@ (r4 :> h1) @@ (r5 :> h1)

MCInit == Init /\ repeatableRead \in BOOLEAN /\ sent \in SUBSET Requests

MCNext ==
  /\ IF repeatableRead THEN Next ELSE ReadCommitted!Next
  /\ \A r \in Requests \ sent : pc'[r] = "idle"
  /\ UNCHANGED instance

MCProgress(r) ==
  /\ r \in sent
  /\ IF repeatableRead THEN Progress(r) ELSE ReadCommitted!Progress(r)
  /\ UNCHANGED instance

MCSpec ==
  /\ MCInit /\ [][MCNext]_<<keyVars, instance>>
  /\ \A r \in Requests : WF_keyVars(MCProgress(r))

\* Every request that is sent is answered, whatever fails on its way: a request
\* that waits for the lock of its key gets it, the deadlocks of neighbouring new
\* keys and of concurrent duplicates are broken, and neither a lock nor a row
\* survives a transaction that ends in between (handlers_cart.go:99-146).
SentIsAnswered == \A r \in Requests : r \in sent ~> reply[r] # NoReply
=============================================================================
