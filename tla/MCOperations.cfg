SPECIFICATION MCSpec

CONSTANTS
    a1 = a1
    a2 = a2
    a3 = a3
    e1 = e1
    e2 = e2
    r1 = r1
    r2 = r2
    r3 = r3
    Lexemes <- MCLexemes
    Contexts <- MCContexts
    MaxLexemes = 5
    Workflows <- MCWorkflows
    ChannelLists <- MCChannelLists
    Requests = {r1, r2, r3}
    Limit = 2
    Minutes = 2
    Alerts = {a1, a2, a3}
    Entities = {e1, e2}
    Policy <- MCPolicy
    SlaTarget = 1
    ReportTarget = 1
    TableRows = 1
    Window = 1
    LastMinute = 2
    MaxTokens = 40
    Prompts = {30}
    Messages <- MCMessages
    Chunks <- MCChunks
    Results = {40}
    MaxPieces = 3
    Values = {0, 9}
    Lookback = 1
    RecentDays = 1
    LastDay = 2
    MaxReadings = 6
    Affected = "x"
    EventKinds <- MCEventKinds
    Decay <- MCDecay
    Listed = 2
    LastHour = 3
    MaxStory = 3
    DelayLookback = 2
    EndOfTime = 12
    LogEvents <- MCLogEvents
    OpenAlerts = {1, 5}
    MaxLog = 4

SYMMETRY MCSymmetry

INVARIANTS
    TypeOK
    ExpressionsMeanWhatTheySay
    WorkflowRecord
    ResultsTellWhatIsSafe
    LimitHolds
    AlertsFollowTime
    AssembledFits
    FindingsAreSound

CHECK_DEADLOCK FALSE
