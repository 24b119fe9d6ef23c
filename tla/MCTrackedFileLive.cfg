\* Liveness: no symmetry.
SPECIFICATION FairSpec
CONSTANTS
    i1 = i1
    i2 = i2
    i3 = i3
    Inodes = {i1, i2, i3}
    NoFile = NoFile
    MaxChunk = 2
    Faults = {"split", "lateWriter", "statErr", "openErr", "crash"}
PROPERTIES
    CatchesUp
    EventuallyDelivered
