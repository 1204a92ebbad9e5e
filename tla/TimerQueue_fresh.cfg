SPECIFICATION Spec
CONSTANTS
    Task = {t1, t2, t3}
    NoTask = NoTask
    Caller = {main, worker}
    Scheduler = scheduler
    Accuracy = 2
    MaxTime = 4
INVARIANTS OnePlace WaitingIsArmed LatenessBound
PROPERTIES CalledUnlessStale
CHECK_DEADLOCK FALSE
