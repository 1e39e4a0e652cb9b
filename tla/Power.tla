------------------------------- MODULE Power -------------------------------
(***************************************************************************)
(* ex09/power/power.c: as many workers as the argument says wait for each  *)
(* other at a barrier, then each increments a shared counter that many     *)
(* times under a mutex.  ++*counter is a load and a store.  main creates   *)
(* the workers, joins those it created and compares the counter with the   *)
(* square of the number of workers.                                        *)
(***************************************************************************)
EXTENDS Integers, FiniteSets

CONSTANTS Workers, NULL

ASSUME PowerAssumption == IsFiniteSet(Workers) /\ Workers # {} /\ NULL \notin Workers

\* The argument of the program, what shared_data.threads keeps.
Threads == Cardinality(Workers)

VARIABLES
    counter,
    mutex,      \* the worker that has thread_mutex, or NULL
    pc,         \* the workers
    loaded,     \* the value of counter a worker has loaded
    done,       \* a worker's variable i: the increments it has finished
    main,       \* "create", "join" or "report"
    status

vars == <<counter, mutex, pc, loaded, done, main, status>>

Init ==
    /\ counter = 0
    /\ mutex = NULL
    /\ pc = [w \in Workers |-> "none"]
    /\ loaded = [w \in Workers |-> 0]
    /\ done = [w \in Workers |-> 0]
    /\ main = "create"
    /\ status = "EXIT_FAILURE"

Goto(w, place) == pc' = [pc EXCEPT ![w] = place]

-----------------------------------------------------------------------------
(* worker_run *)

\* Variant: the barrier is for one thread.
ArriveAlone(w) ==
    /\ pc[w] = "start"
    /\ Goto(w, "loop")
    /\ UNCHANGED <<counter, mutex, loaded, done, main, status>>

\* pthread_barrier_wait: a worker arrives and sleeps; the one that completes the
\* number given to pthread_barrier_init lets all of them go.
Arrive(w) ==
    /\ pc[w] = "start"
    /\ pc' = IF \A v \in Workers \ {w} : pc[v] = "barrier"
             THEN [v \in Workers |-> "loop"]
             ELSE [pc EXCEPT ![w] = "barrier"]
    /\ UNCHANGED <<counter, mutex, loaded, done, main, status>>

\* The for loop's test, and pthread_mutex_lock.
Lock(w) ==
    /\ pc[w] = "loop"
    /\ done[w] < Threads
    /\ mutex = NULL
    /\ mutex' = w
    /\ Goto(w, "load")
    /\ UNCHANGED <<counter, loaded, done, main, status>>

Load(w) ==
    /\ pc[w] = "load"
    /\ loaded' = [loaded EXCEPT ![w] = counter]
    /\ Goto(w, "store")
    /\ UNCHANGED <<counter, mutex, done, main, status>>

Store(w) ==
    /\ pc[w] = "store"
    /\ counter' = loaded[w] + 1
    /\ Goto(w, "unlock")
    /\ UNCHANGED <<mutex, loaded, done, main, status>>

\* Variant: the mutex is not released.
UnlockForgotten(w) ==
    /\ pc[w] = "unlock"
    /\ done' = [done EXCEPT ![w] = @ + 1]
    /\ Goto(w, "loop")
    /\ UNCHANGED <<counter, mutex, loaded, main, status>>

Unlock(w) ==
    /\ pc[w] = "unlock"
    /\ mutex' = NULL
    /\ done' = [done EXCEPT ![w] = @ + 1]
    /\ Goto(w, "loop")
    /\ UNCHANGED <<counter, loaded, main, status>>

Exit(w) ==
    /\ pc[w] = "loop"
    /\ done[w] = Threads
    /\ Goto(w, "exit")
    /\ UNCHANGED <<counter, mutex, loaded, done, main, status>>

-----------------------------------------------------------------------------
(* main *)

Create(w) ==
    /\ main = "create"
    /\ pc[w] = "none"
    /\ Goto(w, "start")
    /\ UNCHANGED <<counter, mutex, loaded, done, main, status>>

\* pthread_create fails: threads = tx, so only the workers that exist are joined.
CreateFails ==
    /\ main = "create"
    /\ \E w \in Workers : pc[w] = "none"
    /\ main' = "join"
    /\ UNCHANGED <<counter, mutex, pc, loaded, done, status>>

AllCreated ==
    /\ main = "create"
    /\ \A w \in Workers : pc[w] # "none"
    /\ main' = "join"
    /\ UNCHANGED <<counter, mutex, pc, loaded, done, status>>

Report ==
    /\ main = "join"
    /\ \A w \in Workers : pc[w] \in {"none", "exit"}
    /\ status' = IF counter = Threads * Threads THEN "EXIT_SUCCESS" ELSE status
    /\ main' = "report"
    /\ UNCHANGED <<counter, mutex, pc, loaded, done>>

WorkerRuns(w) == Arrive(w) \/ Load(w) \/ Store(w) \/ Unlock(w) \/ Exit(w)

Next ==
    \/ \E w \in Workers : WorkerRuns(w) \/ Lock(w) \/ Create(w)
    \/ CreateFails \/ AllCreated \/ Report

Spec == Init /\ [][Next]_vars

\* Every thread that can run is scheduled, and a worker that finds the mutex free
\* again and again gets it.
Fairness ==
    /\ \A w \in Workers : WF_vars(WorkerRuns(w)) /\ SF_vars(Lock(w))
    /\ WF_vars(AllCreated \/ Report)

FairSpec == Spec /\ Fairness

-----------------------------------------------------------------------------
(* Properties *)

Places == {"none", "start", "barrier", "loop", "load", "store", "unlock", "exit"}

\* Every variable has its type.
TypeOK ==
    /\ counter \in Nat
    /\ mutex \in Workers \cup {NULL}
    /\ pc \in [Workers -> Places]
    /\ loaded \in [Workers -> Nat]
    /\ done \in [Workers -> 0 .. Threads]
    /\ main \in {"create", "join", "report"}
    /\ status \in {"EXIT_SUCCESS", "EXIT_FAILURE"}

\* What main reports on is a whole run or none: either every worker ran, no
\* increment was lost and the status is success, or no thread could be created
\* at all and the status is failure.  A partly created crew never gets there.
ReportsWholeRun ==
    main = "report" =>
        \/ /\ counter = Threads * Threads
           /\ status = "EXIT_SUCCESS"
           /\ \A w \in Workers : pc[w] = "exit"
        \/ /\ counter = 0
           /\ status = "EXIT_FAILURE"
           /\ \A w \in Workers : pc[w] = "none"

\* If every pthread_create succeeds, the workers pass the barrier, finish their
\* loops and main reports.
CreatedReports == (\A w \in Workers : pc[w] # "none") ~> main = "report"
=============================================================================
