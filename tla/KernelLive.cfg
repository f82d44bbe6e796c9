\* The same, with fewer calls and a fair scheduler.
CONSTANTS
    Main = Main  h1 = h1  h2 = h2  h3 = h3
    f1 = f1  f2 = f2
    Host <- MCHost
    Fun = {f1}
    TableSize = 2
    Garbage = Garbage
    Disciplines <- MCFitting
    SemaphoreCount = 1
    InitCount = {0}
    MaxWaits = 2
    MaxIds = 2
    Calls = {"CREATE_SEMA", "WAIT_SEMA", "SIGNAL_SEMA"}
SPECIFICATION FairKernel
PROPERTIES StartsFinish WaitersServed
CHECK_DEADLOCK FALSE
