SPECIFICATION FairSpec
CONSTANTS
    Idx = {i1, i2}
    NullIdx = NullIdx
    WriteIdx = {}
    Buf = {b1}
    NoBuf = NoBuf
    Ops = {"read", "connect", "spawn"}
    FanOut = {}
    RingEntries = 3
    Budget = 4
    MaxShots = 1
    MULTIPLE_MASK = 16
PROPERTIES BlockOnReturns ImplementsExecutor
