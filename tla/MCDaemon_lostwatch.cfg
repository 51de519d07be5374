CONSTANTS
    Manager = Manager
    Director = Director
    Mate = Mate
    NoOne = NoOne
    People = {Manager, Director, Mate}
    Boss = Manager
    Team = {Mate}
    MaxSteps = 6
    NoHold = NoHold
    Holds = {h1, h2}
    Definitions <- OnlyOneLevel
    MaxAge = 0
    MaxAnswers = 0
    MaxRefusals = 0
    MaxMishaps = 0
    InviteMayFail = FALSE
    DiskMayFail = FALSE
    ReportsGone = TRUE
    Prune = FALSE
SPECIFICATION Spec
INVARIANT NoWatchLost
CHECK_DEADLOCK FALSE
