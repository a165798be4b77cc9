SPECIFICATION TSpec
CONSTANTS
    Idx = {i1, i2}
    NullIdx = NullIdx
    WriteIdx = {}
    Buf = {b1}
    NoBuf = NoBuf
    Ops = {"accept", "read", "write", "connect", "spawn"}
    FanOut = {}
    RingEntries = 4
    Budget = 4
    MaxShots = 1
    MULTIPLE_MASK = 16
INVARIANTS AllDropped
