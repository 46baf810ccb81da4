\* Reference counts and collections, Maps that change under their iterators, waiters.
SPECIFICATION MCSpec
CONSTANTS
    o1 = o1
    o2 = o2
    var = var
    weak = weak
    reg = reg
    Null = Null
    Done = Done
    t1 = t1
    t2 = t2
    t3 = t3
    cell1 = cell1
    cell2 = cell2
    NoOne = NoOne
    Threads <- MCThreads
    Cells <- MCCells
    Counts = {1, 3}
VIEW MCView
INVARIANTS
    ReachableKept
    CountsExact
    CollectsGarbage
PROPERTIES
    CallbackForTheDead
    MapIsOrderedMap
    WaitersAnswerNotify
CHECK_DEADLOCK FALSE
