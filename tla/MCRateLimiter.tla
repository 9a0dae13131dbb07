--------------------------- MODULE MCRateLimiter ---------------------------
(* Values of RateLimiter's constants for model checking.                   *)
EXTENDS RateLimiter, TLC

CONSTANTS h1, h2, h3, p1

\* Three goroutines share the bucket of one client: what other clients and
\* other replicas do touches other buckets only.
MCReplicaOf == [h \in Handlers |-> p1]
MCSymmetry  == Permutations(Handlers)
=============================================================================
