CONSTANTS
    Fields <- MCFields
    MaxGroup = 2
    Modes = {"output", "sub_output", "file", "gatetype", "none"}
    TestModes = {"output", "file", "none"}
    Codes = {0, 2}
    ExpectCodes = {0, 2}
    OutLines <- MCOutLines
    ExpectFiles <- MCExpectFiles
    ExpectLists <- MCExpectLists
    HeaderLines = 13
    TimeoutLimit = 1
    MaxWrites = 2
SPECIFICATION Spec
INVARIANT TypeOK
PROPERTY HarnessesRefineAbstract
CHECK_DEADLOCK FALSE
