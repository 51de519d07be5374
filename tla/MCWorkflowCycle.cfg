CONSTANTS
    NoOne = NoOne
    People = {}
    Definitions <- MCDefinitions
    MaxSteps = 4
SPECIFICATION Spec
INVARIANT SearchDecides
PROPERTY SearchEnds
CHECK_DEADLOCK FALSE
