SPECIFICATION Spec
CONSTANTS
    BUFFER_SIZE = 6
    Garbage = 0
    kBufferEachTimeSize = 3
    Block = 3
    CR = 13
    LF = 10
    Request = {1, 2, 5}
INVARIANTS
    WritesEstablished
PROPERTIES
    ImplementsSafely
    RequestIsTaken
    FullIsClosed
CHECK_DEADLOCK FALSE
