SPECIFICATION Spec
CONSTANTS
    Idx = {i1, i2}
    NullIdx = NullIdx
    WriteIdx = {w1}
    Buf = {b1}
    NoBuf = NoBuf
    Ops = {"read", "accept_stream", "read_stream", "commit", "write_multiple", "submit", "spawn", "foreign"}
    FanOut = {0, 1, 2}
    RingEntries = 2
    Budget = 4
    MaxShots = 1
    MULTIPLE_MASK = 16
SYMMETRY Symmetry
INVARIANTS TypeOK RcExact SqeOwnerLive NeverWaitsForNothing ReturnsClean TagsInStep OwnCompletion PanicCauses
