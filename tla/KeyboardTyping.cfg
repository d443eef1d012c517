SPECIFICATION Spec
CONSTANTS
    Pressed <- MCMixed
    MaxText = 3
INVARIANTS
    TextTypeOK
    OeNeverAlone
PROPERTIES
    NoStrokeLost
    PrefixKept
    BackspaceRemovesEnd
