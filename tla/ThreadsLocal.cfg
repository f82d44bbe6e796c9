\* Two threads started one after the other.
CONSTANTS
    Main = Main  h1 = h1  h2 = h2
    f1 = f1  f2 = f2
    Host <- MCHost
    Fun = {f1, f2}
    TableSize = 2
    Garbage = Garbage
    Disciplines <- MCDisciplines
SPECIFICATION Spec
INVARIANTS ThreadLocal
CHECK_DEADLOCK FALSE
