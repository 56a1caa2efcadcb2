\* Two requests connect or disconnect at the same time.
SPECIFICATION Spec
CONSTANTS
    Request = {r1, r2}
    LifecycleRequest = {r1, r2}
    Cancellable = {}
    Conn = {c1, c2}
    Channel = {}
    Handle = {}
    None = None
    MaxDrops = 0
INVARIANTS
    NoOrphanedConnection
