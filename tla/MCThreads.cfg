\* Three workers; three waiting threads; two producers of 2 and 3, two consumers;
\* two consumers of two commits, of numbers with roots 1 and 2; three threads with data
\* of their own.
\* The threads of the programs have the same names.
SPECIFICATION ThreadsSpec
CONSTANTS
    Workers = {t1, t2, t3}
    Waiters = {t1, t2, t3}
    Main = t4
    Producers = {t1, t2}
    Consumers = {t3, t4}
    First = 1
    Last = 4
    Numbers = {3, 4}
    Iterations = 2
    NULL = null
INVARIANTS
    ReportsWholeRun
    Conserved
    NoNumberSleptOn
    OwnData
    NoMismatch
    SharedOutlivesProducer
PROPERTIES
    BarrierEnds
    SleepersEnd
    ProducersEnd
    FinishedEnds
CHECK_DEADLOCK FALSE
