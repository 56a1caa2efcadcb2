\* Two subscriptions that may name the same queue, or expect a reply.
SPECIFICATION LFFairSpec
CONSTANTS
    Sub = {s1, s2}
    Queue = {q1}
    None = None
    MaxMessages = 2
    MaxDeletes = 1
    MaxDrops = 1
INVARIANTS
    LFTypeOK
    NewestFirst
    NoGapAfterFirst
    JoinNeverRacesStart
PROPERTIES
    JoinSettles
    ImplementsMessageList
CHECK_DEADLOCK FALSE
