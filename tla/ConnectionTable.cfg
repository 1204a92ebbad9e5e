SPECIFICATION Spec
CONSTANTS
    Conn = {1, 2, 3}
    Fd = {1, 2}
    Job = {j1, j2}
    NoConn = NoConn
    Listener = Listener
INVARIANTS
    TableMatches
    PointersAreLive
    HeldIsLive
    AnswerToAsker
PROPERTIES
    EndIsFreed
CHECK_DEADLOCK FALSE
