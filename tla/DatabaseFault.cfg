SPECIFICATION FairSpec
CONSTANTS
    CommonWords <- MCCommonWords
    Letters <- MCLetters
    Images <- MCAllImages
    MaxCrashes = 1
    MaxFaults = 2
    MaxResets = 1
INVARIANTS
    WholeSets
    VersionHonest
    ColumnsSuffice
PROPERTIES
    NothingLost
    EventuallyPopulated
