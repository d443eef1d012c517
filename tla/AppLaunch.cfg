SPECIFICATION AppSpec
CONSTANTS
    CommonWords <- MCCommonWords
    Letters <- MCLetters
    Images <- MCInstalled
    MaxCrashes = 3
    MaxFaults = 0
    MaxResets = 0
    NoSet = NoSet
    NoWord = NoWord
    BATCH_SIZE = 2
INVARIANTS
    TypeOK
    SeededOnce
    ReadyPopulated
    NeverWithoutWords
PROPERTIES
    ImplementsStore
    ImplementsLesson
