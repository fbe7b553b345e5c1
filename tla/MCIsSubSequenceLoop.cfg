CONSTANTS
    Fields <- MCFields
    MaxGroup = 3
SPECIFICATION LoopSpec
INVARIANT TypeOK
INVARIANT OperatorIsOrderedSubsequence
CHECK_DEADLOCK FALSE
