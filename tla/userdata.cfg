SPECIFICATION Spec
CONSTANTS
    IDX = 8
    GEN = 4
    NB = 8
INVARIANTS TypeOK RoundTrip
