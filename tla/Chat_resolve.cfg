SPECIFICATION Spec
CONSTANTS
    App = {a, b}
    Incoming = {}
    Sync = sync
    Chatter = {u1}
    RawSender = {}
    Resolver = {u1, u2}
    None = None
    Faults = {}
    MaxFault = 0
INVARIANT NotDeliveredTruth
