SPECIFICATION Spec
CONSTANTS
    Functions <- MCFunctions
    AST <- MCAST
    Names <- MCNames
    Locals <- MCLocals
    Params <- MCParams
    Pointers <- MCPointers
    BaseOf <- MCBaseOf
    warn_arena_leaks = TRUE
    MaxIterations = 2
INVARIANTS
    StraightLineFreesFound
    FreeReportsReal
    NullReportsMatch
    StraightLineReturnsExact
    Balanced
