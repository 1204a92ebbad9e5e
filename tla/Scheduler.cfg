SPECIFICATION SSpec
CONSTANTS
    Timer = {t1, t2}
    NoTimer = NoTimer
    Nano = 2
    Delays = {1, 2}
    Intervals = {0, 1}
INVARIANTS BatchIsLive
PROPERTIES TimerFires CancelEnds
CHECK_DEADLOCK FALSE
