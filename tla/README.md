# TLA+ models of POSIX_C

The repository is a collection of homework and exercises in system programming:
small libraries and programs in C that have little in common except what is hard
about them, namely threads, signals, processes, shared memory, and system calls
that fail half-way. This directory models them in TLA+. TLC checks the models on
small instances; TLAPS proves the most important properties for every value of
the constants.

## The parts of the system

| part | state | operations | what is hard |
|---|---|---|---|
| `hw09/queue.c` | ring buffer, size, two pointers, mutex, two condition variables, waiting counters, abort flag, per-thread error | create, destroy, push, pop, try_push, try_pop, abort, forecast, strerror | wakeups, rings, abort against blocked calls, unlocked reads, cleanup after a failing call |
| `hw09/tester_*.c` | producers, consumers, main | the threads' loops, abort, join, destroy | nobody may use a destroyed queue |
| `hw03` (memgrind) | guard, limits, statistics, headers in front of blocks | malloc, calloc, realloc, free, constructor, destructor | re-entry through syslog, failing calls, pointers shifted by a header |
| `hw06` (siglogd) | mask, pending signals, handlers, alarm, statistics | logger, two handlers | signals at any moment, merged signals |
| `ex06/sigcalc` | counter, mask, pending signals with values | server, add, get, two handlers | merged signals lose their value |
| `ex06/signals` | flag, mask | three ways of waiting for a signal | a signal between test and wait |
| `ex06/syscount` | phase and counter of the tracer; the child | fork, ptrace, wait | stops that are not what they seem, a child killed between two calls |
| `hw02` (guess) | arrays of handles, functions and strategies; the strategies' bounds | loading, three strategies, the game, cleanup | a set-up that fails half-way, bounds that are off by one |
| `ex09/sqrt` | two rwlocks, pair of numbers, flag | consumers, a detached producer, main | torn reads, starvation, data on main's stack |
| `ex09/power` | barrier, mutex, counter | workers, main | lost updates, a barrier for threads that do not exist |
| `ex09/primes` | list, mutex, condition variable, flag | producers, consumers, main | wakeups, a flag set without the mutex |
| `ex09/condvar` | flag, mutex, condition variable | threads, main | a wait without a test before it |
| `hw08` (ptgrep) | results of the searching threads | one thread per file, main | a loop that must pass every match, results read after joins |
| `ex05/tasks` | an array that grows, children | fork, add, wait | growing at the right size, no child forgotten |
| `ex10/copy`, `ex10/cat` | offsets, buffer | read, write, sendfile | short and failing calls, files that change |
| `ex11/werecat` | descriptors, what poll said | poll, read, write | pipes that end with data in them |
| `ex10/pipe`, `ex10/pipes` | a pipe, the ends each process has | fork, close, dup2, exec, read, write, wait | an end of file that needs every copy of an end closed |
| `ex08/tls`, `keys`, `libstopwatch` | a key, each thread's block, a static variable, a barrier | the threads, the destructor, main | whose data it is, and until when |
| `ex05/drop_priv` | real, effective and saved user | dropping privileges in two ways, trying to get them back | calls that mean something else to root |
| `hw05` (id) | the data base of groups, what has been allocated | two ways of collecting, printing, freeing | lists that change between two calls, cleanup by hand |
| `hw01` (crc) | the hash, the files, the bundle | hashing, crc32sum, crc32check | short reads, files that change, a status for many lines |
| `ex13/shm`, `ex13/mmap` | a name, shared memory, a mark, file locks | show a message, `--stop` | names that are removed and made again |

The other directories (ex01 to ex04, ex12, and the rest of ex05 to ex13) are listed in
`PROJECT.json` with the reason why they are left out. The parts do not call each other, apart from the testers, which use the
queue (`QueueTester` composes them), and primes.c, which uses list.c (there the
list is a sequence, which `List` shows it to be).

## Modules

### The queue (hw09)

* `Queue` has one variable for each field of the struct: `memory`, `size`, `read`,
  `write`, `waitingForPush`, `waitingForPop`, `aborted`, the owner of the mutex, and
  for each thread its place in the code and its arguments. A step is what a thread
  does between two points where another thread can matter: a call, taking the mutex,
  the test of the loop, going to sleep inside `pthread_cond_wait` (which releases the
  mutex), waking up (by a signal, a broadcast or for no reason), taking the mutex
  again, storing or copying the element, signalling, unlocking. `queue_create` is the
  initial state.
* `BoundedFifo` is what a queue promises: a bounded sequence to which elements are
  appended and from which the oldest is removed. `Queue` maps the slots between the
  two pointers to that sequence (`Contents`, `ImplementsFifo`).
* `QueueObserved` adds an observer: a history variable, the operations that were
  blocked when `queue_abort` ran, or a thread inside `queue_forecast`, which reads
  three fields without the mutex, in any order.
* `QueueTester` is `tester_mult_thread.c`: producers, consumers and a main that aborts
  at any moment (`sleep` orders nothing), joins and destroys.
* `QueueLifetime` is `queue_create` and `queue_destroy` with every call they make able
  to fail, and the table of thread-specific keys that all queues share.
* `QueueStrerror` is the contract of `queue_strerror` and `snprintf` about sizes. A
  message is its length.

### Threads (ex08, ex09)

`Sqrt`, `Power`, `Primes` and `Condvar` have one action per step between two
accesses to shared data; `++*counter` and the reading of a pair of numbers are
two steps each. Creating a thread may fail wherever the code looks at that.
`List` is `list.c` with its pointers: addresses, what `malloc` gives again after
`free`, and what is left in a node from its earlier use. `ThreadData` is three
programs with thread-specific data: which threads have a block, and of which the key
knows; `pthread_exit`, the destructor and the end of a stack are what takes a block
away. A thread that fails before the barrier of tls.c never arrives.

### Memory, libraries and signals (hw01, hw02, hw03, hw05, hw06, ex06)

* `Memgrind`: the blocks of the real allocator, with or without a service block;
  the guard; the limits from the environment; the statistics. A call of the program
  is two steps (entering guarded space, and the rest), between which syslog may
  allocate and free on its own. `overshot` is a history variable: a calloc was granted
  more than `can_alloc` was asked about.
* `Guess`: main's set-up with every call that may fail, the strategies' own data, the
  game loop and `cleanup`. `rand` gives any number, except that the oracle, which
  seeds it as main did, draws main's number when the seconds agree.
* `Id`: `get_process_info` and `get_user_info`, one action per call that looks something
  up or allocates, so that the data base can change and any call can fail in between.
  A name is the number it belongs to, so that a wrong one shows; `heap` holds what was
  allocated and `twice` remembers a block that was freed without being there.
* `Crc`: a word is the set of its bits. `crc32_update` and the others are translated
  operation by operation, and `CRC` is the definition they are compared with: what is
  left of the message, as a polynomial, after division. Around them are the loop of
  `get_crc32`, `crc32sum` and `crc32check`, whose second input is the first one's
  output; files change and vanish, and a line of the bundle is spoilt, at any moment.
* `Siglogd`, `Sigcalc`: the mask, the pending signals, the handlers that run on top of
  each other, and the program under them. A pending signal outside the mask is
  delivered at any moment; a standard signal is pending at most once.
* `SigWait`: `await.c`, `suspend.c` and `syncsig.c`.
* `Syscount`: the parent's loop and the child's stops. A successful `execve` of a
  traced process adds a SIGTRAP, because the parent sets no options that would
  replace it. `forked` is the set of calls by which the child has got children: `fork`
  (which stands for `vfork` too), `clone`, and `clone3`, which the switch does not name.
  `write` stands for all calls that neither fork nor end or replace the program.

### Processes, files and threads around them (hw08, ex05, ex10, ex11, ex13)

* `Copy`: `slow.c`, `fast.c` and `cat.c`. A byte is its file and its offset, so a lost,
  repeated or misplaced one shows. Every call may move any smaller number of bytes, or
  fail; another process may append to a file or truncate it at any moment.
* `Werecat`: the poll loop and the writers of the pipes. `revents` is kept from poll
  until it is looked at, while the writers go on.
* `Tasks`: main, the children, and `dynarray.c`; `memory` is what realloc really gave,
  which is less than `capacity` after a call of it has failed.
* `Shm`: `shm.c` and `mmap.c`, whose names are a key and a path. Steps are the calls;
  finding, attaching, marking and removing are apart. Each of them may fail: before
  the memory is attached this ends the process, a failing `flock` leads to `munmap`, and a
  failing `shmctl` or `remove` is reported and leaves the name.
* `Pipe`: `child.c`, `dup.c` and `pipe.c`. Each process has a set of descriptors that are
  ends of the pipe; reading gives 0 only when no set has a writing end.
* `DropPrivileges`: the three users of the process and the two system calls that change
  them. Every user may have started the program, and every user may own it. A call
  succeeds exactly when it is permitted.
* `Ptgrep`: a line is the number of matches in it; on a terminal `line_copy` passes
  one per turn of the loop, otherwise none.

The kernel, the thread library and the C library are external: they are modelled
by what the code relies on, and marked so in the map.

### Programs side by side, and modules for TLC

Several programs have names in common (`pc`, `main`, `Init`). `Threads` (power.c,
primes.c, sqrt.c, thread-specific data), `Memory` (the game and `QueueLifetime`), `Heap` (the
allocator and the list), `Identity` (`Id`), `Signals` (`Siglogd`, `Sigcalc`, `SigWait`,
`Syscount`, `Ptgrep`), `Processes` (`Tasks`, `Shm`, `DropPrivileges`) and `Files`
(`Werecat`, `Copy`, `Pipe`) declare variables of their own for each program, instantiate its module with them, and name what is required
of it. The runs and the proofs both use these modules, so that they are about the same
definitions.

`MCQueue` adds the symmetry of threads. `MCThreads`, `MCMemory` and `MCProcesses` extend the modules above, add the programs that
are only model-checked, and put them all into one run: a variable says which program
runs, and the others stay in an initial state. So the number of states is the sum, not
the product, and every property is about the program it names.

## What is checked

| run | what it shows | instance |
|---|---|---|
| `queue_blocking` | the ring is consistent; the waiting counters are exact; no wakeup is lost; a pop from a full queue returns the oldest element | 3 threads, capacity 2, 2 elements; push, pop, abort |
| `queue_all` | with `queue_try_push` and `queue_try_pop` as well, the queue implements a bounded FIFO | 2 threads, capacity 2 |
| `queue_test` | the test program ends, for which every operation has to return after `queue_abort`, and the queue is destroyed when no thread uses it | 2 producers, 1 consumer, main; capacity 1 |
| `queue_pop` (violation) | `queue_pop` returns the slot at `write_pointer`: on a queue that is not full this is not the element that is removed | 1 thread is enough |
| `queue_abort` (violation) | an operation that was blocked when `queue_abort` ran may succeed | 3 threads |
| `queue_forecast_race` (violation) | `queue_forecast` may return a number that was right at no moment | 2 threads |
| `queue_strerror_size` (violation) | a buffer of the size `queue_strerror` gives is one byte too small | all codes |
| `id_name` (violation) | `id -un` prints the name of the real user | 2 users |
| `threads` | `Power`: a report is about a whole run (`ReportsWholeRun`). `ThreadData`: everybody's data is their own and is freed (`OwnData`); both barriers are passed (`BarrierEnds`). `Condvar`: sleepers see the flag and end. `Primes`: nothing lost, taken twice or slept upon; producers end. `Sqrt`: consumers see a number with its root; the detached producer does not outlive its data; the program ends once the flag is set | 3 workers; 2 threads and main; 3 threads; 2 producers, 2 consumers; 2 consumers, 2 commits |
| `primes_signal` (violation) | a consumer may miss main's broadcast and sleep for ever | 1 producer, 1 consumer |
| `memory` | `QueueLifetime`: only what is held is released, and only two paths leak (`ReleasedOnce`). `List`: a sequence, without leaks. `Memgrind`: headers describe their blocks and the reported leak is what the program still has (`LeaksReported`); never more allocations than allowed and, as long as no calloc got more than it was judged by, never more bytes or a longer block (`LimitsHold`). `Guess`: the number stays inside the bounds and is found in time; cleanup is complete. `Id`: numbers go with their names, the groups are those of one moment, everything is freed once (`PrintsOneMoment`). `Crc`: the hash is the CRC, OK means equal, success means all OK (`VerdictsTrue`) | 2 threads, 3 keys; 3 nodes; 2 blocks, 4 calls; 10 numbers, up to 3 strategies; 2 users, 2 groups, 1 change; 2 files of up to 2 bytes, 1 change |
| `processes` | `Siglogd`: handlers interrupt only `sigsuspend` and no other signal kills the daemon (`OnlyInSuspend`), the ticks go on, SIGTERM ends it. `Sigcalc`: a number that is not dropped is added once. `SigWait`: no SIGINT is forgotten where it is blocked. `Syscount`: the printed number is that of the calls if at most one program was executed, and a child that forked by a call of the switch makes no other call (`CountsCalls`). `Tasks`: every child is waited for. `Copy`: all bytes in order. `Werecat`: no pipe is given up early. `Pipe`: both processes end, with all bytes received in order (`PipeEnds`). `DropPrivileges`: success is reported exactly when the way back is closed (`DroppedForGood`). `Shm`: whoever shows the message can be stopped, and `--stop` ends them. `Ptgrep`: on a terminal it ends with the right status | 3 signals sent; 2 numbers; 5 calls; 5 children; 2 files or pipes of 3 bytes; 4 bytes through a pipe of 2; 3 users of whom one is root; 2 users of shared memory, 2 stops, 2 objects; 2 files of 2 lines |

Deadlock is checked in the runs of `Queue`, where somebody can always call an
operation. The test program, the programs of ex09 and those of the suites come to
an end, so there the check is off, and the liveness properties say that the end is
the right one.

### The findings

Six pieces of documentation or comment do not agree with the code. Each is a run
that TLC ends with a counterexample, and an entry of `findings` that quotes the
line: `queue_pop` and `queue_try_pop` copy from `write_pointer` (queue.c:244, 307);
a blocked operation may succeed after `queue_abort`; `queue_forecast` reads without
the mutex; `queue_strerror` does not count the null byte; the consumers of primes.c
may miss the broadcast; `id -un` prints the real user's name, since only that one is
looked up (hw05/utils.c:53, 338).

### What the properties leave out

Some properties hold only under a condition, because outside it the code does not do
what one would wish. Their comments say so, and so do the notes in `hazards`:

* `LimitsHold`: `calloc` asks `can_alloc` about one element (libmemgrind.c:84), so it may
  exceed `MEMGRIND_MEM_MAX` and `MEMGRIND_ALLOC_MAX`; only `MEMGRIND_ALLOC_COUNT` binds it.
* `CountsCalls`: every second `execve` of the child makes the number that main prints as
  the calls performed (syscount.c:184) one too high, and a SIGTRAP from elsewhere puts it
  out as well. A child that forks by `clone3` is not found out (syscount.c:103).
* `Conserved`: numbers may be left in the list of primes.c when the consumers end.
* `SleepersEnd`: a thread of condvar.c that takes the mutex after the broadcast sleeps for
  ever (condvar.c:25).
* `TicksGoOn`: a SIGALRM from a process that is pending when the alarm ends stops the ticks
  (hw06/utils.c:130).
* `AddedOnce`: a number sent while another is pending is dropped (sigcalc.c:125).
* `NotForgotten`: not true of await.c, which does not block the signal (await.c:41).
* `EndsWithResult`: when standard output is not a terminal, a thread of ptgrep.c that finds
  a match does not end (ptgrep.c:84).
* `ChildrenReaped`: after a `realloc` that failed, the next child is stored outside the array
  (dynarray.c:41).
* `StopReaches`: of two `--stop` of mmap.c that overlap the second may remove by its path
  what a later process has made (mmap.c:65). `StopEnds` has no such exception; it begins
  where the memory is about to be marked.

No property says which program of `pipe.c` writes and which reads. The comments in it
(pipe.c:32, 49) call the child's program the first and the parent's the second, whereas
main gives the child the second one (pipe.c:92).

### Bounds

Three threads are enough for a waker, a sleeper and one that overtakes, which is
what the wakeup and FIFO properties are about; capacity 2 lets the pointers differ,
be equal on an empty and on a full queue, and wrap around, and two elements tell
slots apart. In `Primes` two producers push the primes of 1..3, so that two numbers,
two signals and two sleepers meet. `KeysMax = 3` lets leaked keys exhaust the table
with two threads. `List` needs three nodes to have a first, a middle and a last one,
with one reused. In `Memgrind` sizes 1 and 3 and the limits 1 and 3 make requests that fit
once, just fit, and do not, and each limit the one that refuses; four calls are enough to allocate, move, shrink and free;
`Word` stands for 2^64 and only matters for "no limit" (-1 as a `size_t`). The game has as many turns as there are numbers, as in the code (100 of
each), so the linear strategy's last number is just out of reach. In the
signal programs `MaxSent = 3` lets a signal be merged, nested and sent again;
`MaxCalls = 5` lets the child of `Syscount` execute twice, fork in two ways and exit. An array that
starts with 2 elements (16 in the code) grows twice for five children. Three bytes and a
buffer of two give whole, short and last reads, for which one change of a length is
enough. Two stops and two objects let one remove what the other has found, and a new
object take the name. A list of groups that grows or shrinks by one between two calls is
all that `get_user_info` can notice, and with two groups it does both. Two bytes of the
two kinds used (none and half of the bits set) and a buffer of two give one whole read,
two short ones, and every pair of contents that differ in a byte or in the length; the
usual test vector, the nine characters `123456789`, is too long for the run, but the
operators evaluated on it by themselves give CBF43926, as they should. A
pipe that holds two of four bytes fills, empties and blocks both sides.

### Fairness

A thread that can run is scheduled (weak fairness of its steps), and a thread that
finds a mutex free again and again gets it (strong fairness of taking it), which is
what a fair scheduler and futex-based mutexes give. No client has to call, nothing
has to be woken for no reason, no signal has to be sent, no alarm has to end and no
call has to fail. A reader-writer lock is weaker: `Sqrt` assumes nothing for the
writer, since the default lock prefers readers, and so it is not claimed that the
producer finishes when there are two consumers. In `Siglogd` a signal that can be
delivered again and again is (strong fairness): the alarm takes at least a second,
so SIGALRM cannot keep SIGTERM away. In the
runs of several programs the fairness is that of the one that runs. In `Pipe` both processes are scheduled, and a program that has been executed
does not run for ever without reading or writing. In `Shm` a process that has begun is scheduled, and
nothing is assumed of the exclusive lock: two processes that share the lock in turns may
keep a `--stop` of mmap.c from it, so `StopEnds` begins where the memory is marked.

## What is proved

Every theorem says `Spec => []P` or `Spec => P`, where `Spec` is the program's specification
without the other programs of its run and `P` is the property that the run checks, for
every value of the constants. Each rests on an inductive invariant.

**`QueueProofs` (hw09).** For any finite set of threads, any positive capacity and any
elements:

* type correctness, mutual exclusion, the ring, the counters, and that no wakeup is lost.
  The inductive invariant is their conjunction. None is inductive alone: the ring needs
  the mutex (between the test and the store nobody else changes the size), the counters
  need the places of the threads, and that no wakeup is lost is an inequality between
  the number of free slots (or elements) and the number of threads on their way to take
  them. Its strength is what makes it inductive: while somebody sleeps there are at
  least as many threads on the way as there is something to take, so the one that is
  signalled may be overtaken without harm. The proofs count threads at places with
  cardinalities (lemmas on how a count changes when one thread moves).
* the queue implements `BoundedFifo`: a store appends to `Contents` and a copy with its
  removal takes the tail, by arithmetic on the ring. Also that a pop from a full queue
  returns the element it removes, the case in which the two pointers agree.
* `DestroyedAlone` of the test program. `TesterCalls` shows that whatever its threads do
  is a step of the queue, so the queue's invariant holds here too; to it is added that
  whom main has joined has returned.

**`MemoryProofs` (hw02, hw09).**

* The game: for any range, any strategies in any order and any limit, `NumberInside` and
  `CleanupComplete`. The invariant adds that the strategies are initialised in order,
  each with its library's data, which arrays exist at each place of the set-up, and that
  the handles and functions are those of the first libraries, without a gap.
* `FoundInTime`, for the same. Its invariant says how wide a strategy's bounds can be after
  so many turns: the numbers a binary one has left but one, times the power of two of its
  turns, are fewer than the range has; a linear one has moved its two ends in turn. What
  is used about powers of two is that one more element doubles the number of subsets.
* `ReleasedOnce`, for any threads and any number of keys. The invariant says exactly what
  a queue has before each call of `queue_create` (what the calls before it acquired) and
  of `queue_destroy` (what those after it release). That the labels of `queue_create`
  release just that is then shown for each of the seven calls.

**`HeapProofs` (hw03).** For any blocks, requests and limits: `LeaksReported` and
`LimitsHold`. The invariant is a balance: what was allocated minus what was freed is what
the program has, up to failed calls, where bytes are counted as a set of pairs (block,
offset), so that `realloc` exchanges the pairs of one block. It needs that the block named
by a call in guarded space is still the program's after syslog has allocated and freed,
that headers are right, and a bound on the statistics by the calls made, without which
they could wrap around. For the limits `WithinLimits` is added: unless a calloc overshot,
what was ever allocated is within `MEMGRIND_MEM_MAX` and every block of the program within
`MEMGRIND_ALLOC_MAX`. By the balance the program has no more bytes than were allocated.

For the list of ex09, any nodes and any values: `IsSequence`. The invariant is the existence
of a sequence of nodes, `list->size` long, that contains the allocated nodes once each,
begins at `head`, follows `next`, and ends at `tail` with NULL. `list_push` appends its node
to that sequence and changes no `next` in it but the last one's; `list_pop` drops the first.
The contents are read along the sequence from `head`, of which there is only one: two would
differ at a first place, and the node before it has one `next`.

**`ThreadsProofs` (ex08, ex09).** For any number of threads:

* power.c reports a square or nothing. The invariant counts the increments as a set of
  pairs (worker, iteration), whose cardinality is the counter.
* `OwnData`. From `pthread_setspecific` on a thread's block exists and is the key's, and
  once anybody has passed the barrier nobody is before it, so that `id_static` does not
  change any more.
* sqrt.c: no consumer ever counts an error, and main does not return before the detached
  producer has made its last access. The invariant relates the rwlock, the places and
  the pair: outside the producer's two stores the pair is a number and its root.

**`PrimesProofs` (ex09).** For any producers, finitely many consumers and any range:
`Conserved`, where what is counted is a set of pairs (thread, count), to which one step
adds one pair, and `NoNumberSleptOn`. The second
is, as in the queue, an inequality: while somebody sleeps the list is not longer than the
consumers on the way to it are many. It needs who has the mutex, since a consumer that
has tested the list holds it until it sleeps or has popped.

**`SignalsProofs` (hw06, hw08, ex06).**

* `OnlyInSuspend` and `TicksGoOn` of siglogd, for any logged signals but SIGALRM. The
  invariant gives the mask and the handlers installed at each place; the alarm's chain
  is followed from the alarm to the pending signal to the handler that sets the next.
* `AddedOnce` of sigcalc, for any integers: what was requested minus what was merged is
  the counter plus what is pending plus what the running handler holds.
* `NotForgotten` of suspend.c and syncsig.c, from where the signal is blocked.
* `CountsCalls` of syscount. The invariant is an equation between twice the tracer's
  count and twice the calls entered, with a correction for each `execve` and for each stop
  not yet seen; with at most one `execve` the corrections cancel at the exit.
* `StatusRight` of ptgrep, the safety part of `EndsWithResult`, for any number of files:
  a thread that has not found the string has passed no match in the lines it has
  finished, one at its end has finished all of them, and main has put together the
  results of just the threads it has joined, each at its end.

**`ProcessesProofs` (hw05, ex05, ex13).**

* `ChildrenReaped`, for any positive start capacity: the array has the numbers of all
  children in order and is not longer than its memory.
* `StopReaches`, for any users, stoppers and objects: who shows the message has an object
  that the name leads to, that is marked, or that a `--stop`, past every call whose failure
  would end it, is about to mark. For mmap.c this needs that at most one `--stop` has the file.
* `DroppedForGood`, for any users: which of the three users is which before each call.
* `PrintsOneMoment`, for any users, groups and changes. The invariant says what is
  allocated before each call (the names found so far among it), that `groups_ids` has the
  groups of the process, or those the user was in when `getgrouplist` filled it, once
  each, and that the first of them have their names. The printed line is then three
  parts put together, of which the last is the groups.

**`FilesProofs` (ex10, ex11).**

* `NothingDropped`, for any number of pipes and any buffer: what poll reported of a pipe's
  end is still true when it is used (a pipe stays closed, so nothing is added to it),
  what was read is out or in the buffer, and the reading loop ends empty.
* `CopiesFaithfully`, for any files and lengths: the output is the earlier files' bytes,
  then those of the current file up to the offset less what is in the buffer. The
  invariant splits it at the byte where the current file begins.
* `AllReceived` of `child.c`, `dup.c` and `pipe.c`, the safety part of `PipeEnds`, for any
  capacity: what was read followed by what is in the pipe is what was written, and from
  the end of file on nobody has an end to write to. That needs that the writer keeps its
  end until its last byte, and that after the fork a process that has no writing end gets
  none: `dup2` gives a second one only to the writer, while it has the first.

### Assumptions

The named assumptions about the constants, which TLC evaluates on every run, are in
`Queue`, `Power`, `Threads` (for sqrt.c), `Guess`, `Werecat`, `Heap` (for the list),
`Signals` (for ptgrep) and `Identity`: natural numbers of files, lines and matches, finite
sets of threads, at least one consumer, worker or pipe, a positive capacity or buffer, a
range that is not empty and not negative, lists of groups that have a length, and that
NULL is no thread, element, node or group. Other theorems state theirs:

* threads with different parts are different, and finitely many where they are counted
  (`PrimesAssumption`, `TesterAssumption`, `Main \notin Producers`);
* the numbers of sigcalc are integers and NONE is not one; START_CAPACITY is positive (16
  in the code);
* SIGALRM is not logged (siglogd logs a fixed list without it);
* `MemgrindAssumption(big)`: no request is for more than `big` bytes, and the program's
  calls times `big` are less than 2^64. Beyond that the statistics wrap around, and
  the code does not guard against it.

### Only model-checked

* Liveness, which needs fairness and ENABLED, which the prover does not handle:
  `TesterEnds`, `FinishedEnds`, `BarrierEnds`, `SleepersEnd`, `ProducersEnd`, `TermEnds`,
  `StopEnds`, `EndsWithResult`, `PipeEnds`. Of the last two the part that is not about
  time, `StatusRight` and `AllReceived`, is proved.
* `VerdictsTrue`. That the hash is the CRC compares two folds over the bytes, which is
  induction over data. That OK means equal contents is not true for all files at all: there
  are longer ones with the same CRC. It holds for the contents of the run, no
  two of which have the same CRC.

## What is not modelled, and why

Argument parsing, printing and logging are left out, except where a choice depends
on them. `Memgrind` has one thread (the library's guard is a plain flag). Errors of
`pthread_mutex_lock` and `pthread_cond_wait` on valid objects do not happen, nor does
`pipe` fail where its result is not looked at (dup.c, pipe.c). In `Id` the users do not
change, only the groups.

Whole programs that are left out:

* those that parse, compute once, and print: ex01 to ex04, getent.c, spooky.c,
  vidlicky.c (ex05), size.c, ftw.c, fsfence.c (ex10), resolvip.c (ex12), mmap0.c and
  mmapfill.c (ex13). They have no state from one step to the next.
* single library calls around a signal or a filter (abort, alarm, seccomp in ex06) and
  threads that share nothing (gettid.c, threads.c in ex08).
* programs whose behaviour is outside the source: eject.c (the drive), sha_utils.c (a
  library for hashes), pwnam.c (its threads meet only in the static buffer of the C
  library's `getpwuid`).
* shmcounter.c (ex13): processes change a counter without a lock, and neither code nor
  comment promises anything of the outcome.
* files that are not finished or do not compile: flock.c, nettime.c, roftpd.c.
