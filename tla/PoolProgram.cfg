SPECIFICATION ProgramSpec
CONSTANTS
    Job = {j1, j2, j3, stopJob}
    StopJob = {stopJob}
    BreakJob = {}
    SharedJob = {j1, j2}
    ThreadJob = {j3}
    NoJob = NoJob
    ThreadNum = 2
    MaxThreads = 2
INVARIANTS NoneStranded SingletonIsLive ThreadObjects
PROPERTIES Implements ShutdownCompletes LatchFreesMain
CHECK_DEADLOCK FALSE
