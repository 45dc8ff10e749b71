SPECIFICATION LiveSpec
CONSTANTS
    Absent = Absent
    Running = Running
    r1 = r1
    r2 = r2
    Clones = {"connection"}
    Req = {r1, r2}
    Services = {"s1"}
    Tokens <- MCTokens
    HttpTokens <- MCHttpTokens
    Requests <- TwoRequests
    Settings <- TwoSettings
    Tables <- MCTables
    Outcomes <- MCOutcomes
INVARIANT
    AnswerMatchesVerdict
PROPERTIES
    EveryCallResolves
    KeepsPromise
