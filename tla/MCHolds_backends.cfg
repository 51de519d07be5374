CONSTANTS
    Backends = {"google", "caldav", "graph", "icloud"}
    Procs = {p1, p2}
    Owners = {ann}
    Ids = {h1}
    None = None
    Weekend <- MCWeekend
    Holidays = {10}
    Phrases = {"today", "next week"}
    DateFlags <- MCDates
    Portions = {"am"}
    Shows = {"free", "tentative"}
    MaxTeamOff = 1
    LastDay = 1
    MaxCommands = 3
    MaxAnswers = 2
    MaxCrashes = 1
SPECIFICATION Spec
SYMMETRY MCSymmetry
INVARIANTS PhrasesRead LeaveCoversHold
PROPERTIES UpdatesOnlyAdd DeletedStaysGone NoDeclineOverruled
CHECK_DEADLOCK FALSE
