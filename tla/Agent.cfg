SPECIFICATION Spec
CONSTANTS
    Commands = {Empty, app, script, missing}
    Empty = Empty
    None = None
    Files = {app, script}
    Runnable = {app}
    Configs <- MCConfigs
    Descendants = {c1}
    Loads = {1}
    Sizes = {1, 3}
    PacketMoves = {0, 1}
CHECK_DEADLOCK FALSE
INVARIANTS TypeOK RetainedWindow TotalPackets ReportOnlyFromACompleteRun
PROPERTY KeepsPromise
