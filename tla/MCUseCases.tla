----------------------------- MODULE MCUseCases -----------------------------
(***************************************************************************)
(* Model checking of UseCases: the sets are model values in the .cfg.      *)
(* Lost connections, aborting clients and deliveries are each explored     *)
(* beside all the requests, not with one another: the part an execution    *)
(* belongs to is chosen at its start.                                      *)
(***************************************************************************)
EXTENDS UseCases, TLC

VARIABLE part

mcVars == <<ucVars, part>>

Parts == {"losses", "aborts", "deliveries"}

\* A connection may be lost and every connection be replaced: valid messages, no abort,
\* and who connects sends nothing.
Losses ==
    /\ cancelled' = cancelled /\ count' = count
    /\ \A r \in Request : ~RejectMessage(r) /\ ~Send(r)
    /\ \A r \in LifecycleRequest : ~SendWithReplyCommand(r)

\* On one connection and with one subscription.
Confined ==
    /\ Cardinality(issued') <= 1 /\ drops' = 0
    /\ Cardinality({c \in Conn : connState'[c] # "unused"}) <= 1

Aborts     == Confined /\ count' = count
Deliveries == Confined /\ cancelled' = cancelled

MCInit == UCInit /\ part \in Parts

MCNext ==
    /\ UCNext
    /\ \/ part = "losses" /\ Losses
       \/ part = "aborts" /\ Aborts
       \/ part = "deliveries" /\ Deliveries
    /\ UNCHANGED part

MCSpec == MCInit /\ [][MCNext]_mcVars

Symmetry == Permutations(Conn) \cup Permutations(Channel) \cup Permutations(Handle)
=============================================================================
