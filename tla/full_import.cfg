SPECIFICATION ImportSpec
CONSTANTS
    w1 = w1
    w2 = w2
    o1 = o1
    Token = {w1, w2}
    NoToken = NoToken
    LockTtl = 3
    Worker = {w1, w2}
    Operator = {o1}
    MaxRuns = 2
    MaxImports = 2
    MaxLayer = 3
    PageSize = 2
    Budget = 2
    TimeLimit = 1
    StaleAfter = 4
    MaxImportFaults = 1
SYMMETRY MCSymmetry
INVARIANTS ImportTypeOK CheckpointIsSound OneImporter EverySuccessHasItsImport
