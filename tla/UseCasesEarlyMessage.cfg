\* A message is waiting in the queue when it is subscribed to.
SPECIFICATION MCSpec
CONSTANTS
    Request = {r1, r2}
    LifecycleRequest = {r1}
    Cancellable = {}
    Conn = {c1}
    Channel = {k1}
    Handle = {h1}
    None = None
    MaxDrops = 0
    InvalidMessages = FALSE
    MaxMessages = 1
SYMMETRY Symmetry
INVARIANTS
    ConsumedIsBroadcast
