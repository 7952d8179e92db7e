CONSTANTS
    Names <- MCNames
    HashOf <- MCHashOf
    Builtins <- MCBuiltins
    Null = Null
    current_module_ = main
    Builtin = builtin
    InitialBuckets = 2
    MaxScopes = 3
    MaxSymbols = 4
SPECIFICATION Spec
INVARIANTS TableInv
PROPERTY ImplementsNameScopes
