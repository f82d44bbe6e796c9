\* Counts created at zero, no signal ahead of a wait, a fair scheduler.
CONSTANTS
    t1 = t1  t2 = t2  t3 = t3
    Thread = {t1, t2, t3}
    SemaphoreCount = 1
    InitCount = {0}
    Cap = 2
    Calls <- LockCalls
    SerialTable = TRUE
    Usages = {"lock"}
SPECIFICATION FairSpec
INVARIANTS ZeroNeverJams
PROPERTIES WaitersProgress
CHECK_DEADLOCK FALSE
