\* Calls return, collections end, messages arrive, sleepers wake, timers fire.
SPECIFICATION FairSpec
CONSTANTS
    t1 = t1
    t2 = t2
    cell = cell
    o1 = o1
    o2 = o2
    weak = weak
    NotStr = NotStr
    Null = Null
PROPERTIES
    CallsReturn
    EngineGoesOn
    NobodyWaitsForEver
CHECK_DEADLOCK FALSE
