\* Two threads share the cache of a1; a2 is the same player without a cache.
SPECIFICATION BoundedSpec
CONSTANTS
    t1 = t1
    t2 = t2
    a1 = a1
    a2 = a2
    p1 = p1
    p2 = p2
    c1 = c1
    c2 = c2
    Absent = Absent
    Threads = {t1, t2}
    Assets = {a1, a2}
    Players = {p1, p2}
    Challenges = {c1, c2}
    PlayerOf <- MCSamePlayer
    HasCache <- MCHasCache
    ServedBy <- MCServedBy
    ParamNames <- MCParamNames
    Once <- MCOnce
    Order <- MCOrder
    Originals <- MCOriginals
    Formats <- MCFormats
    ErrorTexts = {"", "unsolved"}
    Thrown = {"thrown", ""}
    MaxCalls = 2
INVARIANTS
    TypeOK
    RaceFree
    CacheFaithful
    ResultFaithful
    NoSilentDrop
    NoRepeatedWork
    SameAnswer
PROPERTIES
    ImplementsMemo
CHECK_DEADLOCK FALSE
