\* A pusher, a popper and a thread that aborts, on a queue of one element.
SPECIFICATION AbortSpec
CONSTANTS
    Threads = {t1, t2, t3}
    Elements = {zero}
    Zero = zero
    NULL = null
    Capacity = 1
    Calls = {"push", "pop", "abort"}
PROPERTIES
    AbortFailsBlocked
