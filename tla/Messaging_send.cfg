SPECIFICATION Spec
CONSTANTS
    p1 = p1
    p2 = p2
    h1 = h1
    h2 = h2
    None = None
    Instance = {i1, i2}
    Peer = {p1}
    Handle = {h1}
    HandleOf <- OneHandle
    Cid = {c1, c2}
    Handshakes <- OneFromP1
    LegacyPeer = {}
    MaxCreate = 2
    MaxIn = 1
    MaxPrekey = 2
SYMMETRY Symmetry
\* With the sessions created and removed that the bound allows, nobody calls
\* the device any more: it may stop.
CHECK_DEADLOCK FALSE
INVARIANTS
    NoFork
    EncryptedOnce
    SendOutcomeTruth
    HandleNamesSession
    ConsumedIsRecorded
    RecoveryMissesNothing
PROPERTIES
    SessionNeverReplaced
    ImplementsLifecycle
