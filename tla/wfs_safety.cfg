CONSTANTS
    Actor = {a1, a2}
    MaxGenerations = 3
    Schema = {s1, s2, none}
    NoFields = none
    NoSchema = blank
    Nobody = nobody
    Keep = 1
SYMMETRY MCSymmetry
SPECIFICATION Spec
INVARIANTS
    TypeOK
    AtMostOneActive
    ActiveGenerationIsShown
    OnlyValidatedDataIsShown
