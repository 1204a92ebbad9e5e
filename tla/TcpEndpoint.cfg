SPECIFICATION Spec
CONSTANTS
    BUFFER_SIZE = 4
    Garbage = 0
    Sender = {s1, s2}
    kBufferEachTimeSize = 2
    Window = 2
    MaxIn = 4
    MaxOut = 4
INVARIANTS BufferAsserts StreamIntact PendingIsWatched LastInputSeen DrainedIsReset
PROPERTIES PendingIsSent InputIsRead
CHECK_DEADLOCK FALSE
