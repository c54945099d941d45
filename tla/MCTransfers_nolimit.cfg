SPECIFICATION FairSpec
CONSTANTS
    FdSetSize = 3
    Nil = Nil
    Cell = {g1, g2}
    Key = {k1, k2}
    SentBound = 0
    AskBound = 1
    SendLimit = 0
    Limits = {0}
    Happens = {"queue", "timeout"}
PROPERTIES
    QueueMoves
CHECK_DEADLOCK FALSE
