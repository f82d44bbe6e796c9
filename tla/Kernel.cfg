\* Threads that start at once, and quiet games that make every system call.
CONSTANTS
    Main = Main  h1 = h1  h2 = h2  h3 = h3
    f1 = f1  f2 = f2
    Host <- MCHost
    Fun = {f1}
    TableSize = 2
    Garbage = Garbage
    Disciplines <- MCDisciplines
    SemaphoreCount = 1
    InitCount = {0}
    MaxWaits = 2
    MaxIds = 2
    Calls = {"CREATE_SEMA", "DELETE_SEMA", "SIGNAL_SEMA", "WAIT_SEMA", "POLL_SEMA",
             "REFER_SEMA_STATUS", "SLEEP_THREAD"}
SPECIFICATION KernelSpec
INVARIANTS KernelTypeOK  HandlesKept ContextMatchesID CallsUntorn ExclusionPerContext
PROPERTIES StrandedForever
CHECK_DEADLOCK FALSE
