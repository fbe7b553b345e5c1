CONSTANTS
    Bytes <- MCBytes
    MaxLen = 3
    NameTokens <- MCNameTokens
    MaxName = 2
    OldOutputs <- MCOldOutputs
SPECIFICATION Spec
INVARIANT TypeOK
INVARIANT FragmentRoundTrips
CHECK_DEADLOCK FALSE
