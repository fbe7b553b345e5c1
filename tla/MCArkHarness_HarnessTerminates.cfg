CONSTANTS
    Fields <- MCFields
    MaxGroup = 2
    Modes = {"output", "file"}
    Codes = {0, 2}
    ExpectCodes = {0, 2}
    OutLines <- MCOutLines
    ExpectFiles <- MCExpectFiles
    ExpectLists <- MCExpectLists
    HeaderLines = 13
    TimeoutLimit = 1
    MaxWrites = 2
SPECIFICATION ForkedSpec
PROPERTY HarnessTerminates
CHECK_DEADLOCK FALSE
