SPECIFICATION Spec
CONSTANTS
    Functions <- MCFunctions
    Statements <- MCStatements
    MaxDefers = 3
    MaxLoopIds = 2
    MaxChoices = 6
INVARIANTS
    CompiledAsWritten
    CodeWellFormed
    EmissionCompletes
    DeferredLoopsAndTries
