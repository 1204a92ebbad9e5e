SPECIFICATION Spec
CONSTANTS
    BUFFER_SIZE = 4
    Garbage = 0
    Sender = {s1}
    kBufferEachTimeSize = 1
    Window = 1
    MaxIn = 3
    MaxOut = 1
PROPERTIES ReadingDone
CHECK_DEADLOCK FALSE
