\* Whether a reconnected hub connection still serves the chips on the screen.
SPECIFICATION LFSpec
CONSTANTS
    Sub = {s1, s2}
    Queue = {q1}
    None = None
    MaxMessages = 1
    MaxDeletes = 1
    MaxDrops = 1
SYMMETRY Symmetry
INVARIANT JoinedListens
CHECK_DEADLOCK FALSE
