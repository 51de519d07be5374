CONSTANTS
    Machine = Machine
    PerUser = PerUser
    Pto = Pto
    Focus = Focus
    Daemons = {d1, d2}
    NoDaemon = NoDaemon
    Files = {Machine}
    LockOf <- OneLock
    Once = {}
    Users = {u1, u2}
    Jobs = {Pto, Focus}
    Every <- Intervals
    MaxSchedules = 2
    MaxLate = 1
    MaxSpan = 1
    MaxCommands = 2
    MaxRefusals = 1
    MaxMishaps = 1
SPECIFICATION FairSpec
INVARIANTS ListSound SpacedFires KeptAsTold
CHECK_DEADLOCK FALSE
 
