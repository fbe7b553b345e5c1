CONSTANTS
    static = static
    dyn1 = dyn1
    dyn2 = dyn2
    stat1 = stat1
    stat2 = stat2
    obj = obj
    Static <- static
    DynCrts <- MCDynCrts
    StaticOf <- MCStaticOf
    OtherArgs <- MCOtherArgs
    MaxTokens = 4
SPECIFICATION Spec
INVARIANT TypeOK
INVARIANT LinkedCommandIsRewritten
CHECK_DEADLOCK FALSE
