SPECIFICATION FairSpec
CONSTANTS
    App = {a}
    Incoming = {m}
    Sync = sync
    Chatter = {u1}
    RawSender = {u2}
    Resolver = {u2}
    None = None
    Faults = {"crash", "network", "storage", "unknown"}
    MaxFault = 1
INVARIANTS DeliveredTruth NotDeliveredTruth ReceivedOnce OneOwner
PROPERTIES NeverBack SettleIfResolved
