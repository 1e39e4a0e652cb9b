------------------------------- MODULE Queue -------------------------------
(***************************************************************************)
(* hw09/queue.c: a fixed-size queue shared by threads.  One mutex guards   *)
(* the ring buffer; queue_push sleeps on cond_push while the queue is      *)
(* full, queue_pop on cond_pop while it is empty, and queue_abort wakes    *)
(* everybody.  A thread that is in no operation may call any of them.      *)
(*                                                                         *)
(* pthread_cond_wait is three steps of the caller: *_wait (asleep, mutex   *)
(* released), *_wake (woken, must take the mutex again) and *_woken (call  *)
(* returned, mutex held).  The set of sleepers of a condition variable is  *)
(* the set of threads at its *_wait.                                       *)
(***************************************************************************)
EXTENDS Integers, FiniteSets

CONSTANTS
    Threads,    \* the threads that use the queue
    Elements,   \* the values an element of elem_size bytes can have
    Zero,       \* the element whose bytes are all 0, what calloc leaves
    Capacity,   \* queue_capacity
    NULL,       \* the null pointer
    Calls       \* the operations the clients of a model call

Operations == {"push", "pop", "try_push", "try_pop", "abort"}

ASSUME CapacityAssumption == Capacity \in Nat \ {0}
ASSUME ElementAssumption == Zero \in Elements /\ NULL \notin Elements
ASSUME ThreadAssumption == IsFiniteSet(Threads) /\ NULL \notin Threads
ASSUME CallAssumption == Calls \subseteq Operations

VARIABLES
    memory, size, read, write,    \* struct queue_memory
    mutex,                        \* the owner of queue_mutex, or NULL
    aborted,
    waitingForPop, waitingForPush,
    errno,                        \* the value of key lib_errno in each thread
    pc,                           \* where each thread is
    elem                          \* what the parameter elem points to, or NULL

buffer == <<memory, size, read, write>>
waiting == <<waitingForPop, waitingForPush>>
vars == <<memory, size, read, write, mutex, aborted, waitingForPop,
          waitingForPush, errno, pc, elem>>

Slots == 0 .. Capacity - 1

Errors == {"QUEUE_SUCCESS", "WRONG_QUEUE_ARG", "CANT_LOCK", "QUEUE_FULL",
           "QUEUE_EMPTY", "QUEUE_ABORT"}

\* The places inside queue_push and queue_try_push before the element is stored.
Pushing == {"push_lock", "push_test", "push_wait", "push_wake", "push_woken",
            "try_push_test", "push_store"}

\* The places at which a thread is counted as waiting for a push or for a pop.
PushCounted == {"push_wait", "push_wake", "push_woken"}
PopCounted == {"pop_wait", "pop_wake", "pop_woken"}

\* The places at which a thread owns queue_mutex.
Holding == {"push_test", "push_woken", "push_store", "push_signal",
            "try_push_test", "pop_test", "pop_woken", "pop_copy", "pop_signal",
            "try_pop_test", "abort_set", "unlock", "fail"}

Places == Holding \cup {"idle", "push_lock", "push_wait", "push_wake",
                        "pop_lock", "pop_wait", "pop_wake", "abort_lock"}

\* queue_create, when everything succeeds.
Init ==
    /\ memory = [i \in Slots |-> Zero]
    /\ size = 0
    /\ read = 0
    /\ write = 0
    /\ mutex = NULL
    /\ aborted = FALSE
    /\ waitingForPop = 0
    /\ waitingForPush = 0
    /\ errno = [t \in Threads |-> "QUEUE_SUCCESS"]
    /\ pc = [t \in Threads |-> "idle"]
    /\ elem = [t \in Threads |-> NULL]

queue_is_empty == size = 0
queue_is_full == size = Capacity

-----------------------------------------------------------------------------
(* Steps several operations share. *)

Goto(t, place) == pc' = [pc EXCEPT ![t] = place]

\* return_error_state: the code is stored under the calling thread's key.
SetError(t, code) == errno' = [errno EXCEPT ![t] = code]

\* pthread_mutex_lock: the thread goes from one place to the next when the
\* mutex is free.
Acquire(t, from, to) ==
    /\ pc[t] = from
    /\ mutex = NULL
    /\ mutex' = t
    /\ Goto(t, to)
    /\ UNCHANGED <<buffer, aborted, waiting, errno, elem>>

\* A failing return taken while the mutex is held; Unlock releases it.  The
\* code calls return_error_state after the unlock, but errno[t] is read by t only.
Fail(t, code) == SetError(t, code) /\ Goto(t, "fail")

\* pthread_cond_signal: one sleeper, if there is one, is woken, and the
\* caller goes on to release the mutex.
SignalAndGo(t, asleep, awake) ==
    \/ \E u \in Threads :
         /\ pc[u] = asleep
         /\ pc' = [pc EXCEPT ![u] = awake, ![t] = "unlock"]
    \/ /\ \A u \in Threads : pc[u] # asleep
       /\ Goto(t, "unlock")

\* The last pthread_mutex_unlock of an operation, and its return.  Place
\* "unlock" returns QUEUE_SUCCESS, "fail" returns errno[t].
Unlock(t) ==
    /\ pc[t] \in {"unlock", "fail"}
    /\ mutex' = NULL
    /\ Goto(t, "idle")
    /\ elem' = [elem EXCEPT ![t] = NULL]
    /\ UNCHANGED <<buffer, aborted, waiting, errno>>

\* POSIX lets pthread_cond_wait return without a signal.
SpuriousWakeup(t) ==
    /\ \/ pc[t] = "push_wait" /\ Goto(t, "push_wake")
       \/ pc[t] = "pop_wait" /\ Goto(t, "pop_wake")
    /\ UNCHANGED <<buffer, mutex, aborted, waiting, errno, elem>>

-----------------------------------------------------------------------------
(* queue_push and queue_try_push *)

\* A NULL elem is refused before the mutex is touched.
CallPush(t, e) ==
    /\ "push" \in Calls
    /\ pc[t] = "idle"
    /\ \/ /\ e = NULL
          /\ SetError(t, "WRONG_QUEUE_ARG")
          /\ UNCHANGED <<pc, elem>>
       \/ /\ e # NULL
          /\ elem' = [elem EXCEPT ![t] = e]
          /\ Goto(t, "push_lock")
          /\ UNCHANGED errno
    /\ UNCHANGED <<buffer, mutex, aborted, waiting>>

PushLock(t) == Acquire(t, "push_lock", "push_test")

\* One evaluation of the while loop's condition, and of its body up to
\* pthread_cond_wait, when count threads are counted as waiting for push.
PushLoop(t, count) ==
    \/ /\ queue_is_full
       /\ aborted
       /\ Fail(t, "QUEUE_ABORT")
       /\ waitingForPush' = count
       /\ UNCHANGED mutex
    \/ /\ queue_is_full
       /\ ~aborted
       /\ waitingForPush' = count + 1
       /\ mutex' = NULL
       /\ Goto(t, "push_wait")
       /\ UNCHANGED errno
    \/ /\ ~queue_is_full
       /\ waitingForPush' = count
       /\ Goto(t, "push_store")
       /\ UNCHANGED <<mutex, errno>>

PushTest(t) ==
    /\ pc[t] = "push_test"
    /\ PushLoop(t, waitingForPush)
    /\ UNCHANGED <<buffer, aborted, waitingForPop, elem>>

PushWake(t) == Acquire(t, "push_wake", "push_woken")

\* Variant: the while loop is an if, so the condition is not tested again.
PushWokenIf(t) ==
    /\ pc[t] = "push_woken"
    /\ waitingForPush' = waitingForPush - 1
    /\ Goto(t, "push_store")
    /\ UNCHANGED <<buffer, mutex, aborted, waitingForPop, errno, elem>>

\* Variant: waiting_for_push is not decremented.
PushWokenStillCounted(t) ==
    /\ pc[t] = "push_woken"
    /\ PushLoop(t, waitingForPush)
    /\ UNCHANGED <<buffer, aborted, waitingForPop, elem>>

\* pthread_cond_wait has returned: waiting_for_push-- and the loop again.
PushWoken(t) ==
    /\ pc[t] = "push_woken"
    /\ PushLoop(t, waitingForPush - 1)
    /\ UNCHANGED <<buffer, aborted, waitingForPop, elem>>

PushStore(t) ==
    /\ pc[t] = "push_store"
    /\ memory' = [memory EXCEPT ![write] = elem[t]]
    /\ write' = (write + 1) % Capacity
    /\ size' = size + 1
    /\ Goto(t, "push_signal")
    /\ UNCHANGED <<read, mutex, aborted, waiting, errno, elem>>

PushSignal(t) ==
    /\ pc[t] = "push_signal"
    /\ SignalAndGo(t, "pop_wait", "pop_wake")
    /\ UNCHANGED <<buffer, mutex, aborted, waiting, errno, elem>>

\* The argument check and pthread_mutex_trylock, which never waits.
CallTryPush(t, e) ==
    /\ "try_push" \in Calls
    /\ pc[t] = "idle"
    /\ \/ /\ e = NULL
          /\ SetError(t, "WRONG_QUEUE_ARG")
          /\ UNCHANGED <<mutex, pc, elem>>
       \/ /\ e # NULL
          /\ mutex # NULL
          /\ SetError(t, "CANT_LOCK")
          /\ UNCHANGED <<mutex, pc, elem>>
       \/ /\ e # NULL
          /\ mutex = NULL
          /\ mutex' = t
          /\ elem' = [elem EXCEPT ![t] = e]
          /\ Goto(t, "try_push_test")
          /\ UNCHANGED errno
    /\ UNCHANGED <<buffer, aborted, waiting>>

\* Variant: queue_try_push does not look whether the queue is full.
TryPushNoTest(t) ==
    /\ pc[t] = "try_push_test"
    /\ Goto(t, "push_store")
    /\ UNCHANGED <<buffer, mutex, aborted, waiting, errno, elem>>

TryPushTest(t) ==
    /\ pc[t] = "try_push_test"
    /\ \/ queue_is_full /\ Fail(t, "QUEUE_FULL")
       \/ ~queue_is_full /\ Goto(t, "push_store") /\ UNCHANGED errno
    /\ UNCHANGED <<buffer, mutex, aborted, waiting, elem>>

-----------------------------------------------------------------------------
(* queue_pop and queue_try_pop.  The parameter e is NULL to discard the    *)
(* element, or the caller's buffer, which is overwritten: its contents     *)
(* before the call do not matter and are Zero.                             *)

PopArguments == {NULL, Zero}

CallPop(t, e) ==
    /\ "pop" \in Calls
    /\ pc[t] = "idle"
    /\ elem' = [elem EXCEPT ![t] = e]
    /\ Goto(t, "pop_lock")
    /\ UNCHANGED <<buffer, mutex, aborted, waiting, errno>>

PopLock(t) == Acquire(t, "pop_lock", "pop_test")

\* One evaluation of the while loop's condition, and of its body up to
\* pthread_cond_wait, when count threads are counted as waiting for pop.
PopLoop(t, count) ==
    \/ /\ queue_is_empty
       /\ aborted
       /\ Fail(t, "QUEUE_ABORT")
       /\ waitingForPop' = count
       /\ UNCHANGED mutex
    \/ /\ queue_is_empty
       /\ ~aborted
       /\ waitingForPop' = count + 1
       /\ mutex' = NULL
       /\ Goto(t, "pop_wait")
       /\ UNCHANGED errno
    \/ /\ ~queue_is_empty
       /\ waitingForPop' = count
       /\ Goto(t, "pop_copy")
       /\ UNCHANGED <<mutex, errno>>

PopTest(t) ==
    /\ pc[t] = "pop_test"
    /\ PopLoop(t, waitingForPop)
    /\ UNCHANGED <<buffer, aborted, waitingForPush, elem>>

PopWake(t) == Acquire(t, "pop_wake", "pop_woken")

\* pthread_cond_wait has returned: waiting_for_pop-- and the loop again.
PopWoken(t) ==
    /\ pc[t] = "pop_woken"
    /\ PopLoop(t, waitingForPop - 1)
    /\ UNCHANGED <<buffer, aborted, waitingForPush, elem>>

\* Variant: the newest element is returned.
PopCopyNewest(t) ==
    /\ pc[t] = "pop_copy"
    /\ elem' = [elem EXCEPT ![t] =
                  IF @ = NULL THEN NULL ELSE memory[(write + Capacity - 1) % Capacity]]
    /\ read' = (read + 1) % Capacity
    /\ size' = size - 1
    /\ Goto(t, "pop_signal")
    /\ UNCHANGED <<memory, write, mutex, aborted, waiting, errno>>

\* The element is copied from the slot at write_pointer, then the slot at
\* read_pointer is given up.
PopCopy(t) ==
    /\ pc[t] = "pop_copy"
    /\ elem' = [elem EXCEPT ![t] = IF @ = NULL THEN NULL ELSE memory[write]]
    /\ read' = (read + 1) % Capacity
    /\ size' = size - 1
    /\ Goto(t, "pop_signal")
    /\ UNCHANGED <<memory, write, mutex, aborted, waiting, errno>>

\* Variant: nobody is told that there is room.
PopSignalMissing(t) ==
    /\ pc[t] = "pop_signal"
    /\ Goto(t, "unlock")
    /\ UNCHANGED <<buffer, mutex, aborted, waiting, errno, elem>>

PopSignal(t) ==
    /\ pc[t] = "pop_signal"
    /\ SignalAndGo(t, "push_wait", "push_wake")
    /\ UNCHANGED <<buffer, mutex, aborted, waiting, errno, elem>>

CallTryPop(t, e) ==
    /\ "try_pop" \in Calls
    /\ pc[t] = "idle"
    /\ \/ /\ mutex # NULL
          /\ SetError(t, "CANT_LOCK")
          /\ UNCHANGED <<mutex, pc, elem>>
       \/ /\ mutex = NULL
          /\ mutex' = t
          /\ elem' = [elem EXCEPT ![t] = e]
          /\ Goto(t, "try_pop_test")
          /\ UNCHANGED errno
    /\ UNCHANGED <<buffer, aborted, waiting>>

TryPopTest(t) ==
    /\ pc[t] = "try_pop_test"
    /\ \/ queue_is_empty /\ Fail(t, "QUEUE_EMPTY")
       \/ ~queue_is_empty /\ Goto(t, "pop_copy") /\ UNCHANGED errno
    /\ UNCHANGED <<buffer, mutex, aborted, waiting, elem>>

-----------------------------------------------------------------------------
(* queue_abort *)

CallAbort(t) ==
    /\ "abort" \in Calls
    /\ pc[t] = "idle"
    /\ Goto(t, "abort_lock")
    /\ UNCHANGED <<buffer, mutex, aborted, waiting, errno, elem>>

AbortLock(t) == Acquire(t, "abort_lock", "abort_set")

\* Variant: queue_abort forgets cond_push.
WokenPoppers(place) == IF place = "pop_wait" THEN "pop_wake" ELSE place

\* pthread_cond_broadcast on both condition variables.
Woken(place) ==
    CASE place = "push_wait" -> "push_wake"
      [] place = "pop_wait" -> "pop_wake"
      [] OTHER -> place

AbortSet(t) ==
    /\ pc[t] = "abort_set"
    /\ aborted' = TRUE
    /\ pc' = [u \in Threads |-> IF u = t THEN "unlock" ELSE Woken(pc[u])]
    /\ UNCHANGED <<buffer, mutex, waiting, errno, elem>>

-----------------------------------------------------------------------------

Call(t) ==
    \/ \E e \in Elements \cup {NULL} : CallPush(t, e) \/ CallTryPush(t, e)
    \/ \E e \in PopArguments : CallPop(t, e) \/ CallTryPop(t, e)
    \/ CallAbort(t)

\* The steps a thread inside an operation takes when it is scheduled, apart
\* from those that take the mutex.
Run(t) ==
    \/ PushTest(t) \/ PushWoken(t) \/ PushStore(t) \/ PushSignal(t)
    \/ TryPushTest(t)
    \/ PopTest(t) \/ PopWoken(t) \/ PopCopy(t) \/ PopSignal(t)
    \/ TryPopTest(t)
    \/ AbortSet(t)
    \/ Unlock(t)

TakeMutex(t) ==
    \/ PushLock(t) \/ PushWake(t) \/ PopLock(t) \/ PopWake(t) \/ AbortLock(t)

Next ==
    \E t \in Threads : Call(t) \/ Run(t) \/ TakeMutex(t) \/ SpuriousWakeup(t)

Spec == Init /\ [][Next]_vars

\* A thread that can run is scheduled, and a thread that asks for the mutex
\* again and again finds it free is not passed over for ever.  Nothing says
\* that a client calls, or that a sleeper is woken without a signal.
Fairness ==
    \A t \in Threads : WF_vars(Run(t)) /\ SF_vars(TakeMutex(t))

FairSpec == Spec /\ Fairness

-----------------------------------------------------------------------------
(* Properties *)

\* Every field has its type; queue_size and the two pointers stay in range.
TypeOK ==
    /\ memory \in [Slots -> Elements]
    /\ size \in 0 .. Capacity
    /\ read \in Slots
    /\ write \in Slots
    /\ mutex \in Threads \cup {NULL}
    /\ aborted \in BOOLEAN
    /\ waitingForPop \in Nat
    /\ waitingForPush \in Nat
    /\ errno \in [Threads -> Errors]
    /\ pc \in [Threads -> Places]
    /\ elem \in [Threads -> Elements \cup {NULL}]

\* Mutual exclusion: the threads between a pthread_mutex_lock (or a successful
\* trylock, or a return from pthread_cond_wait) and the unlock that follows are
\* exactly the owner of queue_mutex.
MutexOwned == \A t \in Threads : pc[t] \in Holding <=> mutex = t

\* The ring buffer is consistent after any interleaving of pushes, pops and
\* aborts: write_pointer is queue_size slots ahead of read_pointer, a thread
\* about to copy an element in (or out) has room (or an element) for it, and
\* a push that may still store something has something to store.
RingConsistent ==
    /\ write = (read + size) % Capacity
    /\ \A t \in Threads :
         /\ pc[t] = "push_store" => size < Capacity
         /\ pc[t] = "pop_copy" => size > 0
         /\ pc[t] \in Pushing => elem[t] \in Elements

\* The threads that are at one of the given places.
At(places) == {t \in Threads : pc[t] \in places}

\* The counters that queue_forecast reads: waiting_for_push and waiting_for_pop
\* are the numbers of threads inside pthread_cond_wait, those that were woken
\* and do not have the mutex back included.
WaitersCounted ==
    /\ waitingForPush = Cardinality(At(PushCounted))
    /\ waitingForPop = Cardinality(At(PopCounted))

\* A thread here is on its way to store (to remove) an element, or is about to
\* signal that there is room for one (that there is one).
ToStore == {"push_wake", "push_woken", "push_store", "pop_signal"}
ToRemove == {"pop_wake", "pop_woken", "pop_copy", "push_signal"}

\* No wakeup is lost: while a pusher sleeps on cond_push there is, for every
\* free slot, a thread that is about to fill it or to signal that it is free,
\* and while a popper sleeps on cond_pop there is one for every element.
\* After queue_abort nobody sleeps.
NoLostWakeup ==
    /\ At({"push_wait"}) # {} => Capacity - size <= Cardinality(At(ToStore))
    /\ At({"pop_wait"}) # {} => size <= Cardinality(At(ToRemove))
    /\ aborted => At({"push_wait", "pop_wait"}) = {}

\* The doc of queue_push and queue_pop, "blocks until": when nobody is on the
\* way, a pusher sleeps only on a full queue and a popper only on an empty one,
\* so pushers and poppers never sleep on each other.
SleepOnlyWhenBlocked ==
    At({"idle", "push_wait", "pop_wait"}) = Threads =>
        /\ At({"push_wait"}) # {} => queue_is_full
        /\ At({"pop_wait"}) # {} => queue_is_empty

\* The elements in the queue, oldest first.
Contents == [i \in 1 .. size |-> memory[(read + i - 1) % Capacity]]

Fifo == INSTANCE BoundedFifo WITH contents <- Contents, stopped <- aborted

\* The ring buffer under the mutex implements the bounded FIFO: queue_push and
\* queue_try_push append, queue_pop and queue_try_pop take the oldest element
\* away, and no other step changes what is stored.
ImplementsFifo == Fifo!FifoSpec

\* From a full queue (write_pointer = read_pointer) queue_pop and queue_try_pop
\* give the caller the element they remove.
PopFromFullReturnsOldest ==
    [][\A t \in Threads :
         pc[t] = "pop_copy" /\ pc'[t] = "pop_signal" /\ queue_is_full =>
            elem'[t] \in {NULL, Contents[1]}]_vars

\* queue.h of queue_pop: "Removes and returns an element from the queue", and
\* copies "the memory contents of the removed element".
PopReturnsRemoved ==
    [][\A t \in Threads :
         pc[t] = "pop_copy" /\ pc'[t] = "pop_signal" =>
            elem'[t] \in {NULL, Contents[1]}]_vars

=============================================================================
