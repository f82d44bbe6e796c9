\* Two modules, one of which calls a function of the other by name.
CONSTANTS
    Projects <- MCImports
    Word = 4
    HalfBits = 2
    Ident <- MCIdent
    Host <- MCHost
    None = None
    Nobody = Nobody
SPECIFICATION Spec
INVARIANTS ImportsReached
CHECK_DEADLOCK FALSE
