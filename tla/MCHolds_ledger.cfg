CONSTANTS
    Backends = {"google"}
    Procs = {p1, p2}
    Owners = {ann, bob}
    Ids = {h1, h2}
    None = None
    Weekend <- MCWeekend
    Holidays = {10}
    Phrases = {"today", "tomorrow"}
    DateFlags = {}
    Portions = {}
    Shows = {"free"}
    MaxTeamOff = 1
    LastDay = 2
    MaxCommands = 3
    MaxAnswers = 0
    MaxCrashes = 1
SPECIFICATION FairSpec
INVARIANTS  CancelledForgotten
PROPERTIES LedgerAtomic CommandsEnd
CHECK_DEADLOCK FALSE
