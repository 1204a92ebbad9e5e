SPECIFICATION Spec
CONSTANTS
    BUFFER_SIZE = 11
    Garbage = 0
    HEADER = 2
    Digit = 3
    Writer = {w1, w2}
    Msg = {1, 2, 3, 4}
    Zeroed = {4}
    Chunk = 3
INVARIANTS
    FramesIntact
PROPERTIES
    Implements
CHECK_DEADLOCK FALSE
