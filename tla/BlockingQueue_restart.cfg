SPECIFICATION Spec
CONSTANTS
    Job = {j, stopJob, breakJob1, breakJob2}
    StopJob = {stopJob}
    BreakJob = {breakJob1, breakJob2}
    NoJob = NoJob
    ThreadNum = 2
    MaxThreads = 4
INVARIANTS StopReachesAll NoLostWakeup JobsHaveWorkers
PROPERTIES ImplementsSafely EmptyHandOnlyAfterRestart
CHECK_DEADLOCK FALSE
