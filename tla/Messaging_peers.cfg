SPECIFICATION Spec
CONSTANTS
    p1 = p1
    p2 = p2
    h1 = h1
    h2 = h2
    None = None
    Instance = {i1, i2}
    Peer = {p1, p2}
    Handle = {h1, h2}
    HandleOf <- TwoHandles
    Cid = {}
    Handshakes <- FromBoth
    LegacyPeer = {p1}
    MaxCreate = 0
    MaxIn = 1
    MaxPrekey = 3
SYMMETRY Symmetry
INVARIANTS
    PrekeyUsedOnce
PROPERTIES
    SessionNeverReplaced
