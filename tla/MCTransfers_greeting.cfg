SPECIFICATION Spec
CONSTANTS
    FdSetSize = 4
    Nil = Nil
    Cell = {g1, g2}
    Key = {k1, k2}
    SentBound = 0
    AskBound = 1
    SendLimit = 1
    Limits = {0, 1}
    Happens = {"push"}
INVARIANTS
    PushReady
CHECK_DEADLOCK FALSE
