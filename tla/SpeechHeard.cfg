CONSTANTS
    Words <- MCWords
    NoWord = NoWord
    FailingOps <- NotLast
    MaxEvents = 3
SPECIFICATION FairSpec
INVARIANTS TypeOK OnlyLaterStops
PROPERTIES OnlyShownIsAsked ShownIsHeard CallsEnd
CHECK_DEADLOCK FALSE
