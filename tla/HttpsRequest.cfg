\* Two requests in a row, up to two redirects, another thread's descriptors; each request ends.
SPECIFICATION FairSpec
CONSTANTS
    Null = Null
    p1 = p1
    p2 = p2
    Hosts <- MCHosts
    Paths <- MCPaths
    MaxRedirects = 2
    MaxAddrs = 2
    RequestLen = 2
    BodyLen = 2
    Fds = {3, 4, 5}
    Addresses <- MCAddresses
    MaxRequests = 2
INVARIANTS
    TypeOK
    HandlesOwned
    ConnectionBound
PROPERTY EveryRequestEnds
CHECK_DEADLOCK FALSE
