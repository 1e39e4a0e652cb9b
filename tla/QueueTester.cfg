\* Two producers of two elements each, and one consumer of three, capacity 1.
SPECIFICATION TesterSpec
CONSTANTS
    Producers = {p1, p2}
    Consumers = {c1}
    Main = m
    Threads = {p1, p2, c1, m}
    Elements = {zero}
    Zero = zero
    NULL = null
    Capacity = 1
    Pushes = 2
    Pops = 3
    Calls = {"push", "pop", "try_push", "try_pop", "abort"}
INVARIANT
    DestroyedAlone
PROPERTY
    TesterEnds
CHECK_DEADLOCK FALSE
