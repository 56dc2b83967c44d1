CONSTANTS
    Server = {w1, w2}
    Worker = {b1}
    Viewer = {v1}
    Writer = {y1}
    MaxWrites = 1
    MaxTileVersion = 3
SPECIFICATION TileSpec
CHECK_DEADLOCK FALSE
INVARIANTS
    OldTilesAreUnreachable
