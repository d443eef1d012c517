SPECIFICATION Spec
CONSTANTS
    Pressed <- MCFinals
    MaxText = 2
PROPERTIES
    VowelMovesFinal
