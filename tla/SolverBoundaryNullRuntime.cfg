\* JS_NewRuntime may fail.
SPECIFICATION Spec
CONSTANTS
    Null = Null
    Versions = {"v1", "v2"}
    InitialFiles <- MCInitialFiles
    Challenges = {"c"}
    RequestLists <- MCOneRequest
    Hosts <- MCHosts
    Paths <- MCPaths
    Serves <- MCServes
    MaxCalls = 1
    MaxEdits = 0
INVARIANTS
    NullRuntimeIsReported
CHECK_DEADLOCK FALSE
