SPECIFICATION Spec
CONSTANTS
    Workers = {w1, w2}
    Global = Global
    None = None
    Gone = Gone
    MaxQueue = 2
    MaxAdmissions = 2
    MaxTroubles = 2
    Replays = FALSE
SYMMETRY Symmetry
PROPERTY OwnersDoTheWork
INVARIANTS TypeOK KeysAgree QueuedIsAnnounced
CHECK_DEADLOCK FALSE
