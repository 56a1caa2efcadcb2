\* One tab that connects, disconnects, reloads and loses answers, beside other requests.
SPECIFICATION MCFairSpec
CONSTANTS
    Request = {r1, r2}
    LifecycleRequest = {r1, r2}
    Cancellable = {r1}
    Conn = {c1}
    Channel = {k1}
    Handle = {h1}
    None = None
    MaxDrops = 1
INVARIANTS
    PendingMeansWaiting
    ConnectedHasConnection
    NoPartialConnection
PROPERTIES
    RequestReturns
