CONSTANTS
    Manager = Manager
    Director = Director
    Mate = Mate
    NoOne = NoOne
    People = {Manager, Director, Mate}
    Boss = Manager
    Team = {Mate}
    MaxSteps = 6
    NoHold = NoHold
    Holds = {h1}
    Definitions <- Chains
    MaxAge = 2
    MaxAnswers = 3
    MaxRefusals = 1
    MaxMishaps = 2
    InviteMayFail = FALSE
    DiskMayFail = FALSE
    ReportsGone = TRUE
    Prune = FALSE
SPECIFICATION FairSpec
INVARIANTS TypeOK SignedOff DecidedOnce OneRepeatPerMishap  GateAsked
PROPERTIES RunsInOrder Progress
CHECK_DEADLOCK FALSE
