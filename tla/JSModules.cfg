\* Every graph of three modules, some of four, export tables of three, and generators.
SPECIFICATION MCSpec
CONSTANTS
    ma = ma
    mb = mb
    mc = mc
    md = md
    Null = Null
    MaxCalls = 5
    MaxStops = 4
SYMMETRY MCSymmetry
INVARIANTS
    ImportsRunInOrder
    ResolvesExactly
    GeneratorAnswers
CHECK_DEADLOCK FALSE
