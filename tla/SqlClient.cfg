SPECIFICATION ClientSpec
CONSTANTS
    Thread = {t1, t2, t3}
    Number = 2
    Address = {a1, a2, a3}
SYMMETRY Symmetry
INVARIANTS UsesLive ResultIsOwn
PROPERTIES CleanHandout ImplementsPool
CHECK_DEADLOCK FALSE
