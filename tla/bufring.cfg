SPECIFICATION Spec
CONSTANTS
    ring_entries = 4
    U16 = 8
INVARIANTS TypeOK WindowSound
PROPERTIES ImplementsBag
