CONSTANTS
    Actor = {a1, a2}
    MaxGenerations = 2
    Schema = {s1, s2, none}
    NoFields = none
    NoSchema = blank
    Nobody = nobody
    Keep = 1
SPECIFICATION Spec
PROPERTY OnlyBlockedIsApproved
