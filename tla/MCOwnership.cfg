SPECIFICATION Spec
CONSTANTS
    Workers = {w1, w2}
    Inputs = {i1, i2}
    Triggers = {i2}
    Runs = {r1, r2}
    NoRun = NoRun
    MaxGen = 2
    MaxInbox = 1
CONSTRAINT Ownership
SYMMETRY Symmetry
CHECK_DEADLOCK FALSE
INVARIANTS TypeOK AtMostOneActiveRun EngineOwnsItsRun
PROPERTIES BoundaryOpensAtCompletion PromotedIntoActiveRun OwnersDoTheWork
