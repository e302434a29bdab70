SPECIFICATION Spec
CONSTANTS
    Conns = {c1, c2}
    n1 = n1
    n2 = n2
    Names = {n1, n2}
    SessionName = n1
    SideName = n2
    Values = {}
    NotFound = NotFound
    Decryption = Decryption
    None = None
    NamespaceOf <- MCNamespaceOf
    Messages = {a, b}
    MaxGeneration = 1
    MaxSessions = 2
    MaxStaged = 2
    MaxDamage = 1
SYMMETRY Symmetry
INVARIANTS OneOutputPerGeneration ReleasedIsKept
PROPERTY ImplementsCheckpointStore
CHECK_DEADLOCK FALSE
