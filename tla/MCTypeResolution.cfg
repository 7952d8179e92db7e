SPECIFICATION FairSpec
CONSTANTS
    Programs <- MCPrograms
    MaxPasses = 5
INVARIANTS
    LayoutInv
    ValueCyclesRejected
    NoInternalError
    OneForwardStepExact
PROPERTIES
    CheckTerminates
