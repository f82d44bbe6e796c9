\* Likely branches that the macros alias to ordinary ones.
CONSTANTS
    N = 4
    Kinds = {"plain", "alias", "jr"}
    Ops = {"inc", "swap"}
    Arg <- MCArg
    PatchCode = "patch"
    NoCall = "none"
    Reg <- MCReg
    Program <- MCProgram
    PatchSets <- NoPatches
    Exec <- MCExec
    Holds <- MCHolds
    Pointee <- MCPointee
    Leads <- MCLeads
    Value = {0, 1}
    V0 <- MCV0
    Typed <- MCTyped
SPECIFICATION Spec
PROPERTIES ImplementsR5900
