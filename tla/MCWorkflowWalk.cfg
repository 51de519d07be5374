CONSTANTS
    Boss = Boss
    NoOne = NoOne
    People = {Boss}
    Definitions <- MCDefinitions
    MaxSteps = 4
    MaxAttendees = 3
SPECIFICATION Spec
INVARIANT NeverRevisits
PROPERTY MovesAreJumps
CHECK_DEADLOCK FALSE
