CONSTANTS
    c1 = c1  c2 = c2  c3 = c3
    f1 = f1  f2 = f2
    v1 = v1  v2 = v2
    Copiers <- MCCopiers
    Files <- MCFiles
    Contents <- MCContents
SYMMETRY CopierSymmetry
SPECIFICATION Spec
INVARIANT NoCopierRaises
CHECK_DEADLOCK FALSE
