CONSTANTS
    MAX_DEVICES = 1
    BUF_LEN = 3
    TMP_LEN = 2
    NoOwner = NoOwner
    NoFile = NoFile
    NoLabel = NoLabel
    NoRet = NoRet
    NLetters = 2
    Labels = {l1}
    Users = {u1}
    Counts = {1}
    Modes = {TRUE}
    FaultyUserBuffers = TRUE
    UnbindWithOpenFiles = FALSE
    OpenBeforeInit = FALSE
SPECIFICATION Spec
INVARIANT ReturnMatchesDelivered
