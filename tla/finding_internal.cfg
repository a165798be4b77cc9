SPECIFICATION Spec
CONSTANTS
    Idx = {i1}
    NullIdx = NullIdx
    WriteIdx = {w1}
    Buf = {b1}
    NoBuf = NoBuf
    Ops = {"read", "submit"}
    FanOut = {}
    RingEntries = 4
    Budget = 3
    MaxShots = 0
    MULTIPLE_MASK = 16
INVARIANTS InternalApart
