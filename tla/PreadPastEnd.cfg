CONSTANTS
    MAX_DEVICES = 2
    BUF_LEN = 2
    SizeBits = 3
    l1 = l1
    l2 = l2
    fwl = fwl
    Labels = {l1, l2, fwl}
    FwLabel = fwl
    FwNodes = {"wait", "nowait"}
    Trees <- MCTrees
    NoProp = NoProp
    Users = {u1, u2}
    Counts = {1, 3}
    PreadPos = {3}
    SeekOffsets <- MCSeekOffsets
    MapPages = {1, 2}
    MapPgoffs = {0, 1}
    Unbind = FALSE
    NoFile = NoFile
    NoLabel = NoLabel
SPECIFICATION Spec
INVARIANT AccessInBuffer
\* remove() stops at BUG() on a child without "reg": the rmmod task dies.
CHECK_DEADLOCK FALSE
