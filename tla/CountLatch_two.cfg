SPECIFICATION Spec
CONSTANTS
    Waiter = {w1, w2}
    Start = 3
    Vals = {1, 2}
    MaxBelow = 1
    NoWaiter = NoWaiter
PROPERTIES OpenLatchFrees
CHECK_DEADLOCK FALSE
