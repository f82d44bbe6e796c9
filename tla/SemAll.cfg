\* Every call, two slots that are recycled, two threads.
CONSTANTS
    t1 = t1  t2 = t2  t3 = t3
    Thread = {t1, t2}
    SemaphoreCount = 2
    InitCount = {0, 1, 2}
    Cap = 2
    Calls <- AllCalls
    SerialTable = TRUE
    Usages = {"ahead", "free"}
SPECIFICATION Spec
SYMMETRY Perms
VIEW Essence
CONSTRAINT Small
INVARIANTS TypeOK LiveIdsAreFresh MutualExclusion NoRaiseOnceWaited
PROPERTIES ImplementsBinaryLock SunkIsLost
CHECK_DEADLOCK FALSE
