SPECIFICATION Spec
CONSTANTS
    Idx = {i1}
    NullIdx = NullIdx
    WriteIdx = {}
    Buf = {b1}
    NoBuf = NoBuf
    Ops = {"read_stream"}
    FanOut = {}
    RingEntries = 4
    Budget = 4
    MaxShots = 2
    MULTIPLE_MASK = 16
INVARIANTS ReleasedOnce
