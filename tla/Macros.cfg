\* Multimedia macros, and pairs that interleave two registers; scalar macros on
\* registers of two words of two bits.
CONSTANTS
    Gpr <- MCGpr
    Zero = "zero"
    Contents <- MCContents
    Programs <- MCPrograms
    Combine <- MCCombine
    Merge <- MCMerge
    Width = 2
    General <- MCGeneral
    ZeroReg = "zero"
    Prepared <- MCPrepared
    Codes <- MCCodes
SPECIFICATION MacrosSpec
INVARIANTS TypeOK InPlaceExact OthersWrong NothingLost
           ScalarTypeOK PromisesKept BranchesAgree ExactlyPromised
CHECK_DEADLOCK FALSE
