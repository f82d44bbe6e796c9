\* Every function of five instructions, at most one line patched.
CONSTANTS
    N = 5
    Kinds = {"plain", "branch", "likely", "always", "jal", "jalr", "j", "jr"}
    Ops = {"inc", "swap"}
    Arg <- MCArg
    PatchCode = "patch"
    NoCall = "none"
    Reg <- MCReg
    Program <- MCProgram
    PatchSets <- OnePatch
    Exec <- MCExec
    Holds <- MCHolds
    Pointee <- MCPointee
    Leads <- MCLeads
    Value = {0, 1}
    V0 <- MCV0
    Typed <- MCTyped
SPECIFICATION Spec
INVARIANTS TypeOK LabelsResolve HandsBackV0
PROPERTIES ImplementsR5900
