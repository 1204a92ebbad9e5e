SPECIFICATION Spec
CONSTANTS
    Task = {t1, t2}
    NoTask = NoTask
    Caller = {main}
    Scheduler = scheduler
    Accuracy = 2
    MaxTime = 3
PROPERTIES EveryTaskCalled
CHECK_DEADLOCK FALSE
