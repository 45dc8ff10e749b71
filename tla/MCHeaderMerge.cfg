SPECIFICATION Spec
CONSTANTS
    Absent = Absent
    MaxMerges = 2
    HttpTokens = {}
    Tokens <- MCTokens
    Size <- MCSize
    Lower <- MCLower
    Responses <- MCResponses
    HeaderBufs <- MCHeaderBufs
CHECK_DEADLOCK FALSE
INVARIANTS
    TypeOK
    WrittenIsFiltered
    SpillsOnlyWhenFull
    MergeIsUnion
    VaryLinesDoNotRepeat
