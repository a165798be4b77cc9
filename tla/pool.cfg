SPECIFICATION Spec
CONSTANTS
    read_count = 2
    write_count = 2
    Ops = {"clone", "write_slice", "write_multiple", "submit", "write"}
    Fut = {f1, f2}
    NoFut = NoFut
    NoSlot = NoSlot
    MaxFds = 2
    MaxHandles = 2
    MaxVersion = 2
INVARIANTS TypeOK RcExact FreeExact  
