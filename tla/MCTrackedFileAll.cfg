\* Every fault at once.
SPECIFICATION Spec
CONSTANTS
    i1 = i1
    i2 = i2
    i3 = i3
    Inodes = {i1, i2, i3}
    NoFile = NoFile
    MaxChunk = 3
    Faults = {"split", "huge", "lateWriter", "truncate",
              "readErr", "statErr", "openErr", "crash"}
SYMMETRY InodeSymmetry
INVARIANTS
    TypeOK
    InOrder
    NoLineLost
PROPERTY KeepsTheContract
