CONSTANTS
    Users = {u1, u2}
    Handlers = {h1, h2}
    NoHandler = NoHandler
    Backings = {"file", "bolt"}
    TTL = 2
    MaxTime = 2
    MaxStates = 2
SPECIFICATION Spec
SYMMETRY MCSymmetry
INVARIANTS TypeOK LinksByRequest PendingBounded PollReachesAll
PROPERTIES OnlyOwnLink
CHECK_DEADLOCK FALSE
