----------------------------- MODULE MCLiveFeed -----------------------------
(* Model checking of LiveFeed: the sets are model values in the .cfg. *)
EXTENDS LiveFeed, TLC

\* Subscriptions are interchangeable.
Symmetry == Permutations(Sub)
=============================================================================
