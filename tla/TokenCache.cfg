CONSTANTS
    Procs = {d1, c1}
    Daemons = {d1}
    Hosts = {"keychain", "file"}
    Replies = {"bare", "renewed"}
    MaxTokens = 3
    MaxCommands = 3
    MaxCalls = 1
    MaxMishaps = 1
SPECIFICATION FairSpec
INVARIANTS TypeOK SignedInKept AskedOnce
PROPERTIES CommandsEnd
CHECK_DEADLOCK FALSE
