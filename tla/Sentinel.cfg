CONSTANTS
    Sentinels = {a, b}
    Instances = {m, x, y}
    Master0 = m
    None = None
    quorum = 2
    parallel_syncs = 1
    Spurious = FALSE
    MaxEpoch = 1
    MaxDisturbances = 2
SPECIFICATION Spec
SYMMETRY Alike
CHECK_DEADLOCK FALSE
INVARIANTS VotesOnce OneLeaderOfTheCurrentEpoch PromotedWhileReconfiguring
PROPERTY ConfigurationsGetNewer
