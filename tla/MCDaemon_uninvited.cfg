CONSTANTS
    Manager = Manager
    Director = Director
    Mate = Mate
    NoOne = NoOne
    People = {Manager, Director, Mate}
    Boss = Manager
    Team = {Mate}
    MaxSteps = 6
    NoHold = NoHold
    Holds = {h1}
    Definitions <- OnlyTwoLevel
    MaxAge = 0
    MaxAnswers = 2
    MaxRefusals = 1
    MaxMishaps = 0
    InviteMayFail = TRUE
    DiskMayFail = FALSE
    ReportsGone = TRUE
    Prune = FALSE
SPECIFICATION Spec
INVARIANT SignedOff
CHECK_DEADLOCK FALSE
