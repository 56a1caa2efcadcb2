------------------------- MODULE MCRabbitMqAdapter -------------------------
(* Model checking of RabbitMqAdapter: the sets are model values in the .cfg. *)
EXTENDS RabbitMqAdapter, TLC

\* Connections, channels and handles are interchangeable, and so are requests that
\* belong to the same of the sets LifecycleRequest and Cancellable.
Symmetry ==
    UNION {Permutations(S) : S \in
        {Conn, Channel, Handle,
         LifecycleRequest \ Cancellable, LifecycleRequest \cap Cancellable,
         Cancellable \ LifecycleRequest, Request \ (LifecycleRequest \cup Cancellable)}}
=============================================================================
