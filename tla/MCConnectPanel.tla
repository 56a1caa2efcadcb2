---------------------------- MODULE MCConnectPanel ----------------------------
(* Model checking of ConnectPanel: the sets are model values in the .cfg. *)
EXTENDS ConnectPanel

\* Bound: reply queues, which the adapter treats like other subscriptions, are left to
\* the run usecases, and only a request whose client stays sends, while nothing is
\* subscribed.
MCNext ==
    /\ CPNext
    /\ \A r \in Request : op'[r] # "declareReply"
    /\ \A r \in Request : op'[r] = "send" => r \notin Cancellable /\ issued' = {}

MCFairSpec == CPInit /\ [][MCNext]_cpVars /\ CPFairness
=============================================================================
