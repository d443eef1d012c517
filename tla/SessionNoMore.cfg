CONSTANTS
    Sets <- MCSets
    NoSet = NoSet
    Words <- MCWords
    NoWord = NoWord
    BATCH_SIZE = 2
    Tables <- MCTables
    MaxEvents = 2
    MaxFaults = 0
SPECIFICATION Spec
PROPERTIES NoMoreWords
