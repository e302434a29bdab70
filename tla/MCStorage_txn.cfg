SPECIFICATION HistorySpec
CONSTANTS
    Conns = {c1, c2}
    n1 = n1
    n2 = n2
    n3 = n3
    Names = {n1, n2}
    Values = {v1, v2}
    NotFound = NotFound
    Decryption = Decryption
    None = None
    NamespaceOf <- MCNamespaceOf
    MaxDamage = 1
SYMMETRY Symmetry
INVARIANTS AckedIsStored ReadsAreTrue
PROPERTY AllOrNothing
CHECK_DEADLOCK FALSE
