---------------------------- MODULE MCCartOutbox ----------------------------
(* Values of CartOutbox's constants for model checking.  Late copies and   *)
(* further checkouts multiply each other's states, so a behaviour has one  *)
(* or the other: late copies, or a third checkout, of another cart, with   *)
(* the later stamp and never rolled back.  The two checkouts of one cart   *)
(* differ by name only and are named in the order in which they begin.     *)
EXTENDS CartOutbox, TLC

CONSTANTS q1, q2, q3, c1, c2, w1, w2

VARIABLE lateCopies

\* Two events of one cart and one of another.
MCCartOf == (q1 :> c1) @@ (q2 :> c1) @@ (q3 :> c2)

Bounded ==
  /\ rq[q1] = "idle" => rq[q2] = "idle"
  /\ createdAt[q3] # 1 /\ rq[q3] # "error"
  /\ IF lateCopies THEN rq[q3] = "idle" ELSE \A q \in Requests : wire[q] = 0

MCInit == Init /\ lateCopies \in BOOLEAN

MCNext == Next /\ UNCHANGED lateCopies /\ Bounded'

MCSpec ==
  /\ MCInit
  /\ [][MCNext]_<<vars, lateCopies>>
  /\ Fairness
=============================================================================
