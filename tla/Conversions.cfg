\* The command line, the Python boundary, the bridge, chunks and queries.
SPECIFICATION MCSpec
CONSTANTS
    Null = Null
    NotStr = NotStr
    t1 = t1
    t2 = t2
    text = text
    textNul = textNul
    other = other
    proto = proto
    empty = empty
    nul = nul
    blank = blank
    sig = sig
    sigSpace = sigSpace
    wordN = wordN
    dash = dash
    local = local
    localUpper = localUpper
    watch = watch
    Threads <- MCThreads
    Contents <- MCContents
    Texts <- MCTexts
    MaxCalls = 2
    MaxEdits = 1
INVARIANTS
    CallsAreClean
    RequestsKept
    LosesWhatIsKnown
PROPERTIES
    DecodesWholeChunks
    SetDecodesOthersOnce
CHECK_DEADLOCK FALSE
