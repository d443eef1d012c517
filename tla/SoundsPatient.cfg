CONSTANTS
    Sets <- MCSets
    NoSet = NoSet
    Words <- MCWords
    NoWord = NoWord
    BATCH_SIZE = 2
    Tables <- MCTables
    MaxEvents = 1
    MaxFaults = 0
    MaxRequests = 2
SPECIFICATION PatientSoundSpec
INVARIANTS SilentAtHome
PROPERTIES MatchIsHeard ImplementsWalk
