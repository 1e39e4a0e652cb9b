\* One thread pushes and pops.
SPECIFICATION Spec
CONSTANTS
    Threads = {t1}
    Elements = {zero, a}
    Zero = zero
    NULL = null
    Capacity = 2
    Calls = {"push", "pop"}
PROPERTIES
    PopReturnsRemoved
