\* Three logged signals, two numbers to add, five system calls; five children and
\* an array that starts with two elements; two files and two pipes with up to three
\* bytes; two processes, two with --stop and two objects in shared memory; two files
\* of up to two lines with up to two matches; four bytes through a
\* pipe that holds two; root and two users.
SPECIFICATION ProcessesSpec
CONSTANTS
    Logged = {"SIGTERM", "SIGUSR1", "SIGCONT"}
    Inherited = {{}, {"SIGUSR1"}}
    Numbers = {1, 2}
    NONE = NONE
    MaxCalls = 5
    MaxSignals = 2
    MaxSent = 3
    START_CAPACITY = 2
    MaxLines = 5
    BUFFER_SIZE = 2
    MaxFiles = 2
    MaxLength = 3
    MaxChanges = 1
    Pipes = 2
    MaxBytes = 3
    Users = {u1, u2}
    Stoppers = {s1, s2}
    MaxObjects = 2
    Searchers = 2
    LinesOfFile = 2
    MaxMatches = 2
    Capacity = 2
    MaxWritten = 4
    Uids = {0, 1, 2}
INVARIANTS
    TicksGoOn
    AddedOnce
    NotForgotten
    ChildrenReaped
    NothingDropped
    StopReaches
    DroppedForGood
PROPERTIES
    OnlyInSuspend
    CountsCalls
    TermEnds
    CopiesFaithfully
    StopEnds
    EndsWithResult
    PipeEnds
CHECK_DEADLOCK FALSE
