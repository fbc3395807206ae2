SPECIFICATION Spec
CONSTANTS
    Tasks = {t1, t2}
    Dispatchers = {d1, d2}
    Cycles = {c1, c2}
    Runs = {r1, r2}
    MaxTime = 3
    MaxEdits = 1
    MaxTroubles = 1
    None = None
CONSTRAINT Horizon
SYMMETRY Symmetry
INVARIANTS TypeOK OneLiveCycle OwedIsKept WorkHasFuture
PROPERTY StartedIsKept
CHECK_DEADLOCK FALSE
