SPECIFICATION LiveSpec
CONSTANTS
    Second = 2
    Waits = {0, 2, 3}
    Events <- MCEvents
    Short = FALSE
    Nested = {"add"}
    MaxPending = 2
    MaxRef = 2
    MaxTime = 3
    MaxRequests = 1
    MaxStarts = 1
    NFiles = 1
    Folder <- MCFolder
    Requested <- MCUpdate
    MaxShares = 1
    WalkApart = TRUE
    NWindows = 1
    Servers = {a}
    Channels = {}
    None = none
    LossAnytime = FALSE
    ConnectsTwice = FALSE
    MaxCommands = 1
    MaxLosses = 0
    NProcs = 1
    Talks <- MCTalks
    NPieces = 0
    MaxSegments = 1
    ShellLimit = 1
    HookCommands = 0
    HooksClose = FALSE
    Merged = FALSE
INVARIANTS
    RefsUnique
CHECK_DEADLOCK FALSE
