SPECIFICATION FairSpec
CONSTANTS
    ann = ann
    bob = bob
    e1 = e1
    e2 = e2
    t1 = t1
    t2 = t2
    t3 = t3
    i1 = i1
    i2 = i2
    Entries = {e1}
    Tasks = {s1, s2}
    s1 = s1
    s2 = s2
    OwnerOf <- MCOwnerOf
    Users = {ann, bob}
    Tabs = {t2, t3}
    UserOf <- MCUserOf
    Instances = {i1}
    InstanceOf <- MCInstanceOf
    Capacity = 1
    MaxFaults = 1
    MaxGestures = 1
INVARIANTS
    SettledListHasFrames
    OwnRowsOnly
PROPERTIES
    StreamNeverRegresses
    ShownSpec
    NewEntryIsShown
    CompletionIsShown
CHECK_DEADLOCK FALSE
