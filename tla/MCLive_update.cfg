SPECIFICATION LiveSpec
CONSTANTS
    Second = 2
    Waits = {2}
    Events <- MCEvents
    Short = FALSE
    Nested = {}
    MaxPending = 1
    MaxRef = 1
    MaxTime = 1
    MaxRequests = 1
    MaxStarts = 1
    NFiles = 2
    Folder <- MCFolder
    Requested <- MCUpdate
    MaxShares = 1
    WalkApart = TRUE
    NWindows = 1
    Servers = {a}
    Channels = {}
    None = none
    LossAnytime = FALSE
    ConnectsTwice = FALSE
    MaxCommands = 1
    MaxLosses = 0
    NProcs = 1
    Talks <- MCTalks
    NPieces = 0
    MaxSegments = 1
    ShellLimit = 1
    HookCommands = 0
    HooksClose = FALSE
    Merged = FALSE
PROPERTIES
    LoadingEnds
CHECK_DEADLOCK FALSE
