SPECIFICATION Spec
CONSTANTS
    Nonces = {n1, n2, n3, n4}
    Callers = {c1}
    DefaultMaxEntries = 2
    MaxEntries = 3
    MaxAge = 1
    MaxTime = 4
SYMMETRY NonceSymmetry
INVARIANTS TypeOK DurableBeforeReturn Remembered
