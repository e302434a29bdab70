SPECIFICATION FairSpec
CONSTANTS
    Envelope <- Mixed
    MaxMailbox = 3
    MaxFetch = 3
    Frame = 4
    MaxSize = 2
    U64Max = 4
    MaxRestart = 1
    MaxError = 1
INVARIANTS
    ScanCovers
    HandshakesFirst
    DeletesWhatWasRead
PROPERTY
    EveryEnvelopeProcessed
