\* Two threads and three keys; three nodes; two blocks and four calls of the
\* allocator; ten numbers, as many turns, and up to three strategies; two
\* users, two groups and a change of them; a file of up to two bytes.
SPECIFICATION MemorySpec
CONSTANTS
    Threads = {t1, t2}
    KeysMax = 3
    Nodes = {n1, n2, n3}
    Values = {a, b}
    NULL = null
    Blocks = {b1, b2}
    Sizes = {1, 3}
    Nums = {2}
    Limits = {1, 3}
    Word = 1000
    MaxCalls = 4
    NONE = NONE
    Min = 0
    Max = 10
    Limit = 10
    MaxStrategies = 3
    MaxElapsed = 2
    Accounts = {0, 1}
    Gids = {0, 1}
    BUFFER_SIZE = 2
    MaxLength = 2
    MaxChanges = 1
INVARIANTS
    LeaksReported
    LimitsHold
    NumberInside
    FoundInTime
    CleanupComplete
    PrintsOneMoment
    VerdictsTrue
PROPERTIES
    ReleasedOnce
    IsSequence
CHECK_DEADLOCK FALSE
