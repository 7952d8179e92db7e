SPECIFICATION FrontEndSpec
CONSTANTS
    Sources <- MCSources
    IntMax = 1100
    TabWidth = 4
    Names = {"a", "b", "f", "T"}
    Numbers = {"1"}
    Strings <- MCStrings
    MaxDepth = 255
INVARIANTS
    TokensExact
    LongestRead
    ReadAsWritten
    NothingDropped
    GroupedAlike
