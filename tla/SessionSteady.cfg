CONSTANTS
    Sets <- MCSets
    NoSet = NoSet
    Words <- MCWords
    NoWord = NoWord
    BATCH_SIZE = 2
    Tables <- MCTables
    MaxEvents = 1
    MaxFaults = 3
SPECIFICATION SteadySpec
PROPERTIES LastWordReached
