CONSTANTS
    W = W
    N = N
    lib1 = lib1
    lib2 = lib2
    obj = obj
    WholeArchive <- W
    NoWholeArchive <- N
    Implibs <- MCImplibs
    OtherArgs <- MCOtherArgs
    MaxTokens = 6
    MaxSections = 2
SPECIFICATION Spec
INVARIANT TokensPreserved
CHECK_DEADLOCK FALSE
