SPECIFICATION Spec
CONSTANTS
    a1 = a1
    a2 = a2
    b1 = b1
    b2 = b2
    ingress = ingress
    scheduler = scheduler
    Keys = {a1, a2, b1, b2}
    HandlerOf <- MCHandlerOf
    Reruns = {ingress}
    Limited = {ingress}
    SlotLimit <- MCSlotLimit
    MaxConcurrency = 2
    MaxSubmits = 4
    MaxCancels = 2
CHECK_DEADLOCK FALSE
INVARIANTS TypeOK OneRunPerKey CapacityHolds HandlersOwned ClosedIsQuiet
PROPERTIES OutcomesInTime CoalescedRuns CloseReturns
