SPECIFICATION Spec
CONSTANTS
    FdSetSize = 4
    MaxTime = 1
    Nil = Nil
INVARIANTS
    TypeOK
    CountExact
    WithinBounds
    RegisteredIsOpen
    ClosedIsInert
    NothingSkipped
    AllClosedAtExit
CHECK_DEADLOCK FALSE
