CONSTANTS
    Sentinels = {a, b, c}
    Instances = {m, x}
    Master0 = m
    None = None
    quorum = 2
    parallel_syncs = 1
    Spurious = FALSE
    MaxEpoch = 2
    MaxDisturbances = 1
SPECIFICATION Spec
SYMMETRY Alike
CHECK_DEADLOCK FALSE
INVARIANT ElectionSafety
