SPECIFICATION Spec
CONSTANTS
    Workers = {w1}
    Inputs = {i1}
    Triggers = {}
    Runs = {r1, r2}
    NoRun = NoRun
    MaxGen = 2
    MaxInbox = 1
CONSTRAINT OneTrouble
CHECK_DEADLOCK FALSE
INVARIANTS IdleMeansNoWork SnapshotIsCurrent
PROPERTY RunsFormASequence
