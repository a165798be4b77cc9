SPECIFICATION Spec
CONSTANTS
    Idx = {i1, i2, i3}
    NullIdx = NullIdx
    WriteIdx = {}
    Buf = {b1, b2}
    NoBuf = NoBuf
    Ops = {"accept", "read", "write", "connect", "spawn"}
    FanOut = {}
    RingEntries = 3
    Budget = 4
    MaxShots = 1
    MULTIPLE_MASK = 2
SYMMETRY Symmetry
INVARIANTS OwnCompletion BufferLedger NoPanic RootCompletes
PROPERTIES FreedWhenComplete
