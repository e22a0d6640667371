SPECIFICATION Spec
CONSTANTS
    p1 = p1
    p2 = p2
    job1 = job1
    job2 = job2
    Asked <- MCAsked
    Packages = {p1, p2}
    NoName = NoName
    Jobs = {EmptyJob, job1, job2}
    EmptyJob = EmptyJob
    Swallowed = Swallowed
    Runnable = {job1, job2}
    None = None
    NumCores = 4
    Project = "sampleagent"
    FaultSets <- MCFaultSets
    MaxLaunches = 2
CHECK_DEADLOCK FALSE
INVARIANTS ReportDelivered AnswerIsOwn NoForeignMessage
PROPERTY IterationEnds
