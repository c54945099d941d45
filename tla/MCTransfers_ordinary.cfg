SPECIFICATION Spec
CONSTANTS
    FdSetSize = 4
    Nil = Nil
    Cell = {g1, g2}
    Key = {k1, k2}
    SentBound = 2
    AskBound = 1
    SendLimit = 1
    Limits = {0, 1}
    Happens = {"queue", "gone"}
INVARIANTS
    TypeOK
    MemorySound
    NoneLost
    SocketsMatch
    NoLeakedSocket
    ServerCounts
    SendsLimited
PROPERTIES
    LifeKept
CHECK_DEADLOCK FALSE
