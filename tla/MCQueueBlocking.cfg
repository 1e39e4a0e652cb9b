\* Three threads block on, and abort, a queue of two elements.
SPECIFICATION Spec
CONSTANTS
    Threads = {t1, t2, t3}
    Elements = {zero, a}
    Zero = zero
    NULL = null
    Capacity = 2
    Calls = {"push", "pop", "abort"}
SYMMETRY Symmetry
INVARIANTS
    RingConsistent
    WaitersCounted
    NoLostWakeup
PROPERTIES
    PopFromFullReturnsOldest
