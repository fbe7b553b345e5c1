--------------------------- MODULE MCCopyResource ---------------------------
EXTENDS CopyResource, TLC

CONSTANTS c1, c2, c3, f1, f2, v1, v2

MCCopiers == {c1, c2, c3}
MCFiles == {f1, f2}
MCContents == {v1, v2}

\* The copiers are interchangeable: each is given its arguments in Init.
CopierSymmetry == Permutations(MCCopiers)
=============================================================================
