\* Two threads and every operation on a queue of two elements.
SPECIFICATION Spec
CONSTANTS
    Threads = {t1, t2}
    Elements = {zero, a}
    Zero = zero
    NULL = null
    Capacity = 2
    Calls = {"push", "pop", "try_push", "try_pop", "abort"}
PROPERTIES
    ImplementsFifo
