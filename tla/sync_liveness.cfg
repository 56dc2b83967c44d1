SPECIFICATION FairSyncSpec
CONSTANTS
    Token = {w1, w2}
    NoToken = NoToken
    Dispatcher = {d1}
    Worker = {w1, w2}
    MaxRuns = 2
    TimeLimit = 1
    LockTtl = 3
    StaleAfter = 4
    Backlog = FALSE
    MaxFaults = 2
    Operator = {}
    MaxImports = 2
    MaxLayer = 3
    PageSize = 2
    Budget = 3
    MaxImportFaults = 1
PROPERTIES QueuedRunIsServed RunningRunIsRetired LockIsRecovered RunningImportIsRetired CursorNeverMovesBack
