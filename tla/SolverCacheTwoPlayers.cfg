\* One thread is called with the assets of two players in turn.
SPECIFICATION Spec
CONSTANTS
    t1 = t1
    t2 = t2
    a1 = a1
    a2 = a2
    p1 = p1
    p2 = p2
    c1 = c1
    c2 = c2
    Absent = Absent
    Threads = {t1}
    Assets = {a1, a2}
    Players = {p1, p2}
    Challenges = {c1}
    PlayerOf <- MCPlayerOf
    HasCache <- MCAllHaveCache
    ServedBy <- MCServesAll
    ParamNames <- MCParamNames
    Once <- MCOnce
    Order <- MCOrder
    Originals <- MCOriginals
    Formats <- MCSingle
    ErrorTexts = {"unsolved"}
    Thrown = {"thrown"}
    MaxCalls = 2
INVARIANTS
    CacheFaithful
CHECK_DEADLOCK FALSE
