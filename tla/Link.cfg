\* An executable and a module, one call between or inside them.
CONSTANTS
    Projects <- MCProjects
    Word = 4
    HalfBits = 2
    Ident <- MCIdent
    Host <- MCHost
    None = None
    Nobody = Nobody
SPECIFICATION Spec
INVARIANTS TypeOK CallsResolved DirectAndIndirectAgree PointersReach StopsOnlyAtUnknown
CHECK_DEADLOCK FALSE
