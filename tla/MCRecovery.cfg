SPECIFICATION FairSpec
CONSTANTS
    Workers = {w1, w2}
    Global = Global
    None = None
    Gone = Gone
    MaxQueue = 1
    MaxAdmissions = 1
    MaxTroubles = 2
    Replays = TRUE
INVARIANT PurgedLeaseStaysFree
PROPERTY SessionRests
CHECK_DEADLOCK FALSE
