SPECIFICATION Spec
CONSTANTS
    FdSetSize = 3
    Nil = Nil
    Cell = {g1, g2}
    Key = {k1, k2}
    SentBound = 0
    AskBound = 1
    SendLimit = 1
    Limits = {0, 1}
    Happens = {"request", "again", "push", "lost", "offer", "unopened", "ungreeted"}
PROPERTIES
    OnlyGreetingLeaks
SYMMETRY Alike
CONSTRAINT NoRing
CHECK_DEADLOCK FALSE
