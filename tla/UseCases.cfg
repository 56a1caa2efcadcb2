\* Two requests with valid and refused messages, beside a lost connection, an
\* aborting client or two deliveries on each channel.
SPECIFICATION MCSpec
CONSTANTS
    Request = {r1, r2}
    LifecycleRequest = {r1}
    Cancellable = {r2}
    Conn = {c1, c2}
    Channel = {k1, k2}
    Handle = {h1, h2}
    None = None
    MaxDrops = 1
    InvalidMessages = TRUE
    MaxMessages = 2
SYMMETRY Symmetry
INVARIANTS
    CoordinatorKnowsSubscriptions
    ReplyRaceSafe
    CaughtSendLeavesNoReplyQueue
    FeedComesFromBuffer
    FeedInOrder
PROPERTIES
    RegisteredStaysOpen
