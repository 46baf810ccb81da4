\* Reactions, finally, combinators, the host loop, timers, descriptors and signals.
SPECIFICATION MCSpec
CONSTANTS
    t1 = t1
    t2 = t2
    None = None
    Toks <- MCToks
    Fds = {3}
    Sigs = {2, 15}
    MaxDelay = 1
    MaxSleep = 1
    MaxId = 2
    MaxOps = 2
    Ops = {"new", "settle", "static", "then", "finally", "await", "all", "allSettled", "any", "race", "collect"}
    Kinds = {"val", "prom", "thenable", "broken"}
    Vals = {1}
    MaxPromises = 5
    MaxPairs = 6
    MaxCombs = 1
    MaxItems = 2
    MaxJobs = 1
INVARIANTS
    SettlesAndReactsOnce
    NoneForgotten
    OutcomesPassOn
PROPERTY HandlersCalledRight
CHECK_DEADLOCK FALSE
