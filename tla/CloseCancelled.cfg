SPECIFICATION Spec
CONSTANTS
    a1 = a1
    a2 = a2
    b1 = b1
    b2 = b2
    ingress = ingress
    scheduler = scheduler
    Keys = {a1, b1}
    HandlerOf <- MCHandlerOf
    Reruns = {ingress}
    Limited = {ingress}
    SlotLimit <- MCSlotLimit
    MaxConcurrency = 1
    MaxSubmits = 2
    MaxCancels = 1
CHECK_DEADLOCK FALSE
INVARIANT CancelledCloseKeepsResources
