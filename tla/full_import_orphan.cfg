SPECIFICATION FairImportSpec
CONSTANTS
    w1 = w1
    Token = {w1}
    NoToken = NoToken
    LockTtl = 3
    Worker = {w1}
    Operator = {}
    MaxRuns = 2
    MaxImports = 2
    MaxLayer = 2
    PageSize = 2
    Budget = 3
    TimeLimit = 1
    StaleAfter = 4
    MaxImportFaults = 1
PROPERTIES ActiveRunNeverBlocksForever
