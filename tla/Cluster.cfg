CONSTANTS
    Nodes = {1, 2, 3, 4}
    NSlots = 3
    Scenarios <- FailoverScenarios
    Failing = {1}
    Crashers = {1}
    MaxEpoch = 4
SPECIFICATION Spec
CHECK_DEADLOCK FALSE
INVARIANTS ElectedOnce SlaveServesNoSlots SettledAgreement
