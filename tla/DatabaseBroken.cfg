SPECIFICATION BrokenSpec
CONSTANTS
    CommonWords <- MCCommonWords
    Letters <- MCLetters
    Images <- MCAllImages
    MaxCrashes = 1
    MaxFaults = 0
    MaxResets = 1
PROPERTIES
    CallTerminates
CHECK_DEADLOCK FALSE
