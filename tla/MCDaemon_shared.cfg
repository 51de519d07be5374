CONSTANTS
    Manager = Manager
    Director = Director
    Mate = Mate
    NoOne = NoOne
    People = {Manager, Director, Mate}
    Boss = Manager
    Team = {Mate}
    MaxSteps = 6
    NoHold = NoHold
    Holds = {h1, h2}
    Definitions <- Shared
    MaxAge = 1
    MaxAnswers = 1
    MaxRefusals = 1
    MaxMishaps = 1
    InviteMayFail = TRUE
    DiskMayFail = TRUE
    ReportsGone = FALSE
    Prune = TRUE
SPECIFICATION Spec
SYMMETRY HoldSymmetry
INVARIANTS NoStepLost CoverageKept
CHECK_DEADLOCK FALSE
