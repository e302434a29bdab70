SPECIFICATION Spec
CONSTANTS
    None = None
    Zeros = Zeros
    MaxSkip = 2
    MaxSkipped = 2
    U32Max = 6
    MaxSentA = 6
    MaxSentB = 3
    ForgedN = {0, 1, 4, 6}
INVARIANTS
    KeyUsedOnce
    OpensOnce
    OpensInAnyOrder
    ShapeTellsHistory
    Checkpointable
    CountersNeverWrap
