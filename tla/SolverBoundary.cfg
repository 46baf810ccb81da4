\* A file changes at any moment of two calls; each call ends.
SPECIFICATION FairSpec
CONSTANTS
    Null = Null
    Versions = {"v1", "v2"}
    InitialFiles <- MCInitialFiles
    Challenges = {"c"}
    RequestLists <- MCRequestLists
    Hosts <- MCHosts
    Paths <- MCPaths
    Serves <- MCServes
    MaxCalls = 2
    MaxEdits = 1
INVARIANTS
    TypeOK
    RuntimeFreedLast
    AnswersInPlace
    PlayerIsTheOneMeant
PROPERTY EveryCallEnds
CHECK_DEADLOCK FALSE
