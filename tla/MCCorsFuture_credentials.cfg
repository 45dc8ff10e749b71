SPECIFICATION Spec
CONSTANTS
    Absent = Absent
    Running = Running
    r1 = r1
    r2 = r2
    Clones = {"listener", "connection"}
    Req = {r1}
    Services = {"s1", "s2"}
    Tokens <- MCTokens
    HttpTokens <- MCHttpTokens
    Requests <- MCRequests
    Settings <- ExactSettings
    Tables <- MCTables
    Outcomes <- MCOutcomes
INVARIANT
    NoCredentialsWithoutOrigin
