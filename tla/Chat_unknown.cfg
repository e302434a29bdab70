SPECIFICATION FairSpec
CONSTANTS
    App = {a}
    Incoming = {m}
    Sync = sync
    Chatter = {u1}
    RawSender = {}
    Resolver = {u1}
    None = None
    Faults = {"unknown"}
    MaxFault = 1
PROPERTY EntriesSettle
