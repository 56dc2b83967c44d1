SPECIFICATION FairImportSpec
CONSTANTS
    w1 = w1
    w2 = w2
    Token = {w1, w2}
    NoToken = NoToken
    LockTtl = 3
    Worker = {w1, w2}
    Operator = {}
    MaxRuns = 2
    MaxImports = 2
    MaxLayer = 4
    PageSize = 2
    Budget = 3
    TimeLimit = 1
    StaleAfter = 4
    MaxImportFaults = 0
PROPERTIES ChainReachesEof
