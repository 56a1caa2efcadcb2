\* A send-with-reply of a message BusMessage refuses.
SPECIFICATION MCSpec
CONSTANTS
    Request = {r1, r2}
    LifecycleRequest = {r1}
    Cancellable = {}
    Conn = {c1}
    Channel = {k1, k2}
    Handle = {h1, h2}
    None = None
    MaxDrops = 0
    InvalidMessages = TRUE
    MaxMessages = 0
SYMMETRY Symmetry
INVARIANTS
    FailedSendLeavesNoReplyQueue
