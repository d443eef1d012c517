CONSTANTS
    Words <- MCWords
    NoWord = NoWord
    FailingOps <- Harmless
    MaxEvents = 4
SPECIFICATION ReadySpec
PROPERTIES SpokenInOrder
CHECK_DEADLOCK FALSE
