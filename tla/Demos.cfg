CONSTANTS
    CPUs = {c0, c1}
    InitCPU = c0
    MaxFires = 3
    None = None
    Threshold = 5
    MaxData = 7
    AtomicMaxFires = 12
    ListValues = {1, 5, 7}
    HashValues = {2, 5, 7}
    MaxEntries = 4
    LegacyUsers = {u1, u2}
    LegacyCounts = {1}
    LegacyMaxPos = 1
    FasyncCap = 2
SPECIFICATION FairSpec
INVARIANT MutexNoLostUpdate
INVARIANT ListIsStableSort
INVARIANT BucketsMatchReference
INVARIANT LegacyNoMethodAfterUnload
PROPERTY MutexInitReturns
PROPERTY WaitqInitReturns
PROPERTY CompletionInitReturns
PROPERTY FasyncEveryByteEchoed
\* Every Chapter05 demo stops: the module stays loaded or is unloaded with
\* nothing left to run, its init is refused, or the expiry bound is reached.
CHECK_DEADLOCK FALSE
