CONSTANTS
    Nodes = {1, 2, 3, 4}
    NSlots = 3
    Scenarios <- ElectionScenarios
    Failing = {1}
    Crashers = {1, 2}
    MaxEpoch = 4
SPECIFICATION Spec
CHECK_DEADLOCK FALSE
INVARIANT ElectedOnce
