SPECIFICATION PartsSpec
CONSTANTS
    NMessages = 2
    Lengths = {0, 1, 3, 6}
    HeaderPieces = 2
    HandlersTurn = FALSE
    BufferSize = 6
    BigBuffer = 5
    MaxSegments = 2
    MaxConnects = 1
    FileSizes <- MCFileSizes
    Digits = 2
    Chunk = 2
    SizeSplit = FALSE
    Seekers = {"other"}
    MaxResumes = 2
    NEntries = 2
    NGets = 2
    NPanes = 3
    Careful = TRUE
    TermLines = {10}
    Styled = {1}
    LeastLines = 1
    Offsets <- MCOffsets
    Checksums = {c1, c2}
    MaxAppends = 4
    MaxSessions = 4
    Serials = {0, 1}
    Patterns = {1, 2}
    MatchValue <- MCMatch
    NHooks = 3
    NEvents = 2
    MaxPushes = 1
    Recursive = FALSE
    NextTwice = FALSE
    CodeDrops = "itself"
    Size = 5
    Columns = 7
    Margin = 2
    LeastZone = 2
    PromptLens = {1, 2}
    MaxPrompts = 1
    MaxCut = 2
    FullInserts = FALSE
    Typed = {l1, l2}
    NPrompts = 2
    Kinds = {"line", "key"}
    AsksNext = FALSE
    BrowseAnswers = FALSE
    HistorySizes = {1, 2}
    ShrinkAnywhere = FALSE
    Names <- MCNames
    HashLength = 2
    LetterBase = 8
    RefillSmall = FALSE
    AliasNames = {"a", "ab"}
    Abbreviates <- MCAbbreviates
    CacheSize = 2
    CmdFiles = {"defines"}
    VarFiles = {"defines", "deletes", "nothing", "replaces"}
    MaxAliases = 2
    MaxStacked = 1
    PushExisting = FALSE
    PurgeEarly = FALSE
    Constructs = {"alias", "function", "if", "while", "fe", "for", "foreach", "repeat", "switch",
                  "block", "wait"}
    MaxDepth = 6
    ThrowsAnywhere = FALSE
    Unbalanced = FALSE
    BinaryOps = {"*", "+", "-", "<<", ">>", "<", ">", "==", "!=", "&", "^", "|", "&&", "||", ",", "=", "+="}
    UnaryOps = {"!", "pre++", "pre--", "post++"}
    UnitsParens = TRUE
    BareMiddle = FALSE
    NTitles = 2
    NData = 2
    MaxItems = 3
    ArrayThreshold = 2
    NShared = 3
    PerTurn = 2
    SendBuffer = 3
    MaxBrowses = 2
    Crowded = FALSE
    Rescans = FALSE
    Forgets = FALSE
    NKeys = 3
    FirstStates = 4
    LowStates = 2
    MostStates = 6
    ViState = 9
    Defaults <- MCDefaults
    KeySequences <- MCSequences
    KeyFunctions = {2, 3}
    Vocabulary <- MCVocabulary
    Absent <- MCAbsent
    MostWords = 4
    MixesQuotes = FALSE
    KeepsFirst = FALSE
    Doubles = FALSE
    TextLetters = {"x", "_"}
    Wildcards = {"*", "%", "?", "b"}
    PatternSize = 3
    SetSize = 1
    TextSize = 3
    Flawed = FALSE
    TextChars <- MCTextChars
    DataSize = 3
    EmptySearch = FALSE
    MaxLines = 6
    BufferMax = 4
    DisplaySizes = {2, 3}
    ScrollLines = 1
    Ratios = {40, 100}
    Careless = {}
    Settings <- WrapSettings
    Sgr = {0, 1, 4, 5, 6, 7, 21, 24, 25, 27, 31, 32, 44}
    Colors <- ColorCodes
    Toggles = {"bold", "blink", "underline", "standout", "altcharset"}
    Following <- BehindCodes
    Mixed = FALSE
    Faulty = {}
    People = {"a"}
    NRooms = 2
    Visits <- MCVisits
    Themes = {1}
    MaxWire = 4
    MaxAsked = 1
    PartsEarly = FALSE
    FloodSources <- MCSources
    FloodSizes = {1, 2}
    FloodAfter = 3
    FloodRate = 4
    LastSecond = 1
    MaxHeard = 6
    Friends = {"a", "b"}
    Registered = {"a"}
    MaxPanes = 2
    MaxPushed = 1
    Intervals = {5, 10}
    Timeouts = {0, 20, 40}
    Speeds = {3, 5, 12, 108}
    Lists <- MCLists
    StatusTexts = {"f", "null"}
    Groups = {{"DISPLAY_ANSI", "REVERSE_STATUS"}, {"HOLD_INTERVAL"}, {"DEFAULT_SPEED"},
              {"PAD_CHAR", "PTEST_CONNECT_TIMEOUT"}, {"SHOW_NUMERICS_STR"},
              {"MANGLE_LOGFILES"}, {"LASTLOG_LEVEL"}, {"STATUS_FORMAT1"}, {"STATUS_FORMAT2"}}
    Reloads = FALSE
    LineWidth = 6
    TabStop = 4
    MaxExpandos = 3
    Format1 <- MCFormat1
    Format2 <- MCFormat2
    Situations <- MCSituations
    Displays <- MCDisplays
    FileCases <- MCFileCases
    ScriptTexts <- MCTexts
    NameCases <- MCNameCases
    Disks <- MCDisks
    StartDisks <- MCStartDisks
    Orders <- MCOrders
    MaxLoadDepth = 3
    TypedLines <- MCTypedLines
    MaxRequests = 2
    MaxRunning = 5
    Unsafe = {}
    Worlds <- MCWorlds
    TypedTexts <- MCTypedTexts
    Correspondents <- MCCorrespondents
    MaxRelm = 2
    MaxMsgs = 3
    MaxTabs = 3
INVARIANTS
    PartsTypeOK
    Framed
    BytesInPlace
    OthersSound
    ResumeKept
    TerminalSound
    InputSound
    ScriptsSound
CHECK_DEADLOCK FALSE
