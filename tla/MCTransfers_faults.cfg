SPECIFICATION Spec
CONSTANTS
    FdSetSize = 3
    Nil = Nil
    Cell = {g1, g2, g3}
    Key = {k1, k2}
    SentBound = 0
    AskBound = 1
    SendLimit = 1
    Limits = {0, 1}
    Happens = {"timeout", "command", "refused", "unopened", "offset", "accept"}
INVARIANTS
    MemorySound
    SocketsMatch
SYMMETRY Alike
CHECK_DEADLOCK FALSE
