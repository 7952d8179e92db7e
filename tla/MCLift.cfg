SPECIFICATION Spec
CONSTANTS
    Programs <- MCPrograms
    Calls = {1, 2, 3, 4}
    MaxCalls = 1
    MaxRounds = 2
INVARIANTS
    LiftedAsWritten
    CallsKeptOnce
