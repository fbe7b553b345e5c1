--------------------------- MODULE MCResourceToCpp ---------------------------
EXTENDS ResourceToCpp

\* One- and two-digit renderings, the zero byte and the largest byte.
MCBytes == {0, 9, 16, 255}

\* Names with and without a dot.
MCNameTokens == {"r", "."}

\* A fresh output file and one left by an earlier build.
MCOldOutputs == {<<>>, <<"extern const uint32_t _binary_", "r_old", "_length = ", "4", ";">>}
=============================================================================
