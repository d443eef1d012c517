CONSTANTS
    Sets <- MCSets
    NoSet = NoSet
    Words <- MCWords
    NoWord = NoWord
    BATCH_SIZE = 2
    Tables <- MCTables
    MaxEvents = 3
    MaxFaults = 1
SPECIFICATION FairSpec
INVARIANTS TypeOK OwnWords CurrentWordExists
PROPERTIES OneWordAtATime LoadingEnds
