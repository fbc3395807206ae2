SPECIFICATION Spec
CONSTANTS
    Workers = {w1}
    Inputs = {i1, i2}
    Triggers = {i2}
    Runs = {r1, r2}
    NoRun = NoRun
    MaxGen = 2
    MaxInbox = 1
CONSTRAINT MailboxOnly
CHECK_DEADLOCK FALSE
INVARIANT IdleLeavesNoPendingInput
