\* A line that reaches the file in two writes.
SPECIFICATION Spec
CONSTANTS
    i1 = i1
    i2 = i2
    i3 = i3
    Inodes = {i1, i2, i3}
    NoFile = NoFile
    MaxChunk = 2
    Faults = {"split"}
INVARIANT OnlyCompleteLines
