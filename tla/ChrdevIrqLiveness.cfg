CONSTANTS
    MAX_DEVICES = 1
    BUF_LEN = 3
    TMP_LEN = 2
    NoOwner = NoOwner
    NoFile = NoFile
    NoLabel = NoLabel
    NoRet = NoRet
    NLetters = 1
    Labels = {l1, l2}
    Users = {u1, u2}
    Counts = {1}
    Modes = {FALSE}
    FaultyUserBuffers = FALSE
    UnbindWithOpenFiles = FALSE
    OpenBeforeInit = FALSE
SPECIFICATION FairSpec
VIEW BehaviourView
PROPERTY SyscallsComplete
