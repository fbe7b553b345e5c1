CONSTANTS
    W = W
    N = N
    lib1 = lib1
    lib2 = lib2
    obj = obj
    WholeArchive <- W
    NoWholeArchive <- N
    Implibs <- MCImplibs
    OtherArgs <- MCOtherArgs
    MaxTokens = 6
    MaxSections = 1
SPECIFICATION Spec
INVARIANT TypeOK
INVARIANT ImplibsRelocated
CHECK_DEADLOCK FALSE
