SPECIFICATION Spec
CONSTANTS
    Absent = Absent
    MaxEdits = 4
    Origins = {"a", "*"}
    Methods = {"GET", "*"}
    Headers = {"*", "x"}
    Exposed = {"*", "x"}
    Seconds = {"600"}
    Varies = {"Accept"}
    Statuses = {403}
    Tokens <- MCTokens
    HttpTokens <- MCHttpTokens
    Requests <- MCRequests
    Tables <- MCTables
INVARIANT
    WildcardIsConfigError
