SPECIFICATION Spec
CONSTANTS
    Idx = {i1}
    NullIdx = NullIdx
    WriteIdx = {}
    Buf = {b1}
    NoBuf = NoBuf
    Ops = {"write_multiple"}
    FanOut = {2}
    RingEntries = 4
    Budget = 3
    MaxShots = 0
    MULTIPLE_MASK = 16
INVARIANTS RootCompletes
