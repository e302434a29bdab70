SPECIFICATION Spec
CONSTANTS
    alice = alice
    bob = bob
    t1 = t1
    t2 = t2
    Device = {alice, bob}
    Threads <- MCThreads
    None = None
    Unreadable = Unreadable
    MaxPrekeys <- MCMaxPrekeys
    MaxStarts <- MCMaxStarts
    MaxAccepts <- MCMaxAccepts
    MaxAltered = 1
INVARIANTS BothEndsAgree NamedPrekeysAgree KeyedFromPinned
PROPERTY PublishedIsCurrent
CHECK_DEADLOCK FALSE
