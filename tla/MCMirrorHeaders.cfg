SPECIFICATION Spec
CONSTANTS
    Absent = Absent
    MaxSegments = 4
    Texts = {"x", "y", "bad x"}
    HttpTokens = {"*", "Origin", "x", "y"}
    Tokens <- MCTokens
CHECK_DEADLOCK FALSE
INVARIANTS
    TypeOK
    MirrorIsFilter
    AgreesWithPolicy
