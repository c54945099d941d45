SPECIFICATION LiveSpec
CONSTANTS
    Second = 2
    Waits = {1, 2}
    Events <- MCEvents
    Short = FALSE
    Nested = {"add", "kill", "delete_all"}
    MaxPending = 2
    MaxRef = 2
    MaxTime = 4
    MaxRequests = 2
    MaxStarts = 2
    NFiles = 3
    Folder <- MCFolder
    Requested <- MCRequested
    MaxShares = 2
    WalkApart = TRUE
    NWindows = 2
    Servers = {a}
    Channels = {c}
    None = none
    LossAnytime = FALSE
    ConnectsTwice = FALSE
    MaxCommands = 6
    MaxLosses = 2
    NProcs = 2
    Talks <- MCTalks
    NPieces = 2
    MaxSegments = 1
    ShellLimit = 2
    HookCommands = 1
    HooksClose = FALSE
    Merged = FALSE
INVARIANTS
    LiveTypeOK
    InOrder
    RequestsSound
    ShareListSound
    ChannelsSound
    ExecSound
PROPERTIES
    PassEnds
    DueRuns
    AnsweredInTheEnd
    LoadingEnds
    Reconnects
    ProcessesGo
CHECK_DEADLOCK FALSE
