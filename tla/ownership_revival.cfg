CONSTANTS
    Editor = {e1, e2}
    MaxRelations = 2
SPECIFICATION OwnershipSpec
CHECK_DEADLOCK FALSE
PROPERTY ProtectedEndingIsNotRevived
