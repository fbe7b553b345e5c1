CONSTANTS
    s1 = s1
    s2 = s2
    i1 = i1
    i2 = i2
    W = W
    N = N
    lib1 = lib1
    lib2 = lib2
    obj = obj
    Surfaces <- MCSurfaces
    Impls <- MCImpls
    HasStrip = TRUE
    HasLibfile = TRUE
    MaxEdits = 2
    MaxRuns = 4
    DllKinds = {TRUE}
    RspContents <- MCRspContents
    WholeArchive <- W
    NoWholeArchive <- N
    Implibs <- MCImplibs
    OtherArgs <- MCOtherArgs
    MaxTokens = 6
    MaxSections = 1
SPECIFICATION Spec
INVARIANT UpToDateMeansCurrent
CHECK_DEADLOCK FALSE
