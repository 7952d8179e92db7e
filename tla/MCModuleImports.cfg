SPECIFICATION FairSpec
CONSTANTS
    main = main
    a = a
    b = b
    gone = gone
    nMain = nMain
    nA = nA
    nB = nB
    builtinFile = builtinFile
    Files <- MCFiles
    Root = main
    Names <- MCNames
    NameOf <- MCNameOf
    Programs <- MCPrograms
    BuiltinFile = builtinFile
INVARIANTS
    LoaderInv
    FailsOnlyWhenBroken
    AcyclicOrder
PROPERTIES
    Terminates
