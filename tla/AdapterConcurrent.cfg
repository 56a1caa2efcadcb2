\* Both requests connect and disconnect, and their clients may abort.
SPECIFICATION Spec
CONSTANTS
    Request = {r1, r2}
    LifecycleRequest = {r1, r2}
    Cancellable = {r1, r2}
    Conn = {c1, c2}
    Channel = {k1}
    Handle = {h1}
    None = None
    MaxDrops = 1
SYMMETRY Symmetry
INVARIANTS
    IndInv
    OrphansAreRaced
    NoUntrackedConsumer
PROPERTIES
    EnumerationStable
