SPECIFICATION Spec
CONSTANTS
    Tasks = {t1}
    Dispatchers = {d1, d2}
    Cycles = {c1, c2}
    Runs = {r1, r2}
    MaxTime = 2
    MaxEdits = 1
    MaxTroubles = 1
    None = None
PROPERTIES DueIsAdmitted AdmittedStarts TasksKeepPromise
CHECK_DEADLOCK FALSE
