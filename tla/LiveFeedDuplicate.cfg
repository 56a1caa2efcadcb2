\* Two submits of one queue name; the hub connection holds.
SPECIFICATION LFSpec
CONSTANTS
    Sub = {s1, s2}
    Queue = {q1}
    None = None
    MaxMessages = 1
    MaxDeletes = 1
    MaxDrops = 0
SYMMETRY Symmetry
INVARIANT NoDuplicateChips
CHECK_DEADLOCK FALSE
