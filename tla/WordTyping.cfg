SPECIFICATION FairTypingSpec
CONSTANTS
    Pressed <- MCAllKeys
    MaxText = 9
    Targets <- MCTargets
INVARIANTS
    WordTyped
PROPERTIES
    WordFinished
CHECK_DEADLOCK FALSE
