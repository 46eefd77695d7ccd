\* Two clients and three directories: a packet in hand, one queued and one call
\* outstanding at once, with add and remove in between.
CONSTANTS
    c1 = c1
    c2 = c2
    ov1 = ov1
    ov2 = ov2
    ov3 = ov3
    Clients = {c1, c2}
    Ovs = {ov1, ov2, ov3}
    NullOv = NullOv
SPECIFICATION FairSpec
INVARIANTS
    TypeOK
    NoDangling
    OneCallPerEntry
    WaitsOnlyForCalls
    WatchedOrAlerted
    NoEventAfterRemove
PROPERTIES
    ErasedOnlyIfStoppedOrAlerted
    ShutdownTerminates
    StoppedIsErased
