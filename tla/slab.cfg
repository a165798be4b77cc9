SPECIFICATION Spec
CONSTANTS
    U32_MAX = 9
    Task = {8, 16, 24, 32}
    Capacity = 1
    MaxLen = 4
INVARIANTS TypeOK FreeListExact CountExact IndexExact
PROPERTIES ImplementsTable
