CONSTANTS
    Editor = {e1, e2}
    MaxRelations = 2
    MaxEvents = 3
    PageSize = 1
    MaxPages = 2
    MaxFailures = 2
    Allocation = {a1, a2}
    MaxTime = 7
    Lookback = 3
    Overlap = 2
    TimeLimit = 2
    MaxFeature = 3
    Parcel = {p1, p2}
    Nowhere = Nowhere
    LayerPage = 2
    FeatureBudget = 3
    MinPercent = 25
    MaxMoves = 1
    Sweep = {s1, s2}
    Person = {u1, u2}
    MaxChanges = 1
    Clerk = {k1, k2}
    Heir = {h1, h2}
    MaxCaseVersion = 4
    Scanner = {c1, c2}
    Overseer = {o1}
    MaxEdits = 4
    Server = {w1}
    Worker = {}
    Viewer = {v1}
    Writer = {y1, y2}
    MaxWrites = 1
    MaxTileVersion = 3
    Admin = {m1, m2}
    Login = {l1}
    Role = {Member, Boss, Agent}
    Member = Member
    Legacy = {Agent}
    Offered = {{Boss}}
    Edited = {0, 1}
    Privileged = {0}
    MaxAccounts = 2
SPECIFICATION RecordsSpec
CHECK_DEADLOCK FALSE
INVARIANTS
    RecordsTypeOK
    OneActiveRelation
    ConfirmedIsStored
    NoRegistrationIsMissed
    EveryoneIsToldOnce
    ServerForgetsOldTiles
    RolesWereGranted
PROPERTIES
    EventsAreTaken
    SuccessMirrorsLayer
    CaseIsVersionedRecord
    ScanReopensNothing
    GoneProblemLeavesQueue
