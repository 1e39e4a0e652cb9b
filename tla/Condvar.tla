------------------------------ MODULE Condvar ------------------------------
(***************************************************************************)
(* ex09/condvar/condvar.c: threads wait on a condition variable until main *)
(* sets a flag.  A thread looks at the flag only after pthread_cond_wait   *)
(* has returned, never before the first wait.  How long main sleeps is     *)
(* left open: sleep(5) orders nothing.                                     *)
(***************************************************************************)
EXTENDS Naturals

CONSTANTS Threads, Main, NULL

VARIABLES
    flag,     \* GLOBAL_FLAG
    mutex,    \* the owner of flag_mutex, or NULL
    pc,       \* the threads
    main

vars == <<flag, mutex, pc, main>>

Init ==
    /\ flag = FALSE
    /\ mutex = NULL
    /\ pc = [t \in Threads |-> "none"]
    /\ main = "create"

Goto(t, place) == pc' = [pc EXCEPT ![t] = place]

\* pthread_mutex_lock, and the one pthread_cond_wait does before it returns.
Lock(t) ==
    /\ mutex = NULL
    /\ mutex' = t
    /\ \/ pc[t] = "lock" /\ Goto(t, "wait_call")
       \/ pc[t] = "wake" /\ Goto(t, "test")
    /\ UNCHANGED <<flag, main>>

\* pthread_cond_wait releases the mutex and sleeps.
Wait(t) ==
    /\ pc[t] = "wait_call"
    /\ mutex' = NULL
    /\ Goto(t, "asleep")
    /\ UNCHANGED <<flag, main>>

SpuriousWakeup(t) == pc[t] = "asleep" /\ Goto(t, "wake") /\ UNCHANGED <<flag, mutex, main>>

\* flag_is_set = GLOBAL_FLAG, and the loop's test.
Test(t) ==
    /\ pc[t] = "test"
    /\ Goto(t, IF flag THEN "unlock" ELSE "wait_call")
    /\ UNCHANGED <<flag, mutex, main>>

Unlock(t) ==
    /\ pc[t] = "unlock"
    /\ mutex' = NULL
    /\ Goto(t, "exit")
    /\ UNCHANGED <<flag, main>>

Create(t) ==
    /\ main = "create"
    /\ pc[t] = "none"
    /\ Goto(t, "lock")
    /\ UNCHANGED <<flag, mutex, main>>

\* A pthread_create that fails ends the process: error(EXIT_FAILURE, ...).
CreateFails ==
    /\ main = "create"
    /\ \E t \in Threads : pc[t] = "none"
    /\ main' = "failed"
    /\ pc' = [t \in Threads |-> "none"]
    /\ mutex' = NULL
    /\ UNCHANGED flag

MainLock ==
    /\ main = "create"
    /\ \A t \in Threads : pc[t] # "none"
    /\ mutex = NULL
    /\ mutex' = Main
    /\ main' = "set"
    /\ UNCHANGED <<flag, pc>>

Set ==
    /\ main = "set"
    /\ flag' = TRUE
    /\ main' = "broadcast"
    /\ UNCHANGED <<mutex, pc>>

\* Variant: pthread_cond_signal.
SignalOne ==
    /\ main = "broadcast"
    /\ \/ \E t \in Threads : pc[t] = "asleep" /\ Goto(t, "wake")
       \/ (\A t \in Threads : pc[t] # "asleep") /\ UNCHANGED pc
    /\ mutex' = NULL
    /\ main' = "join"
    /\ UNCHANGED flag

\* pthread_cond_broadcast and pthread_mutex_unlock.
Broadcast ==
    /\ main = "broadcast"
    /\ pc' = [t \in Threads |-> IF pc[t] = "asleep" THEN "wake" ELSE pc[t]]
    /\ mutex' = NULL
    /\ main' = "join"
    /\ UNCHANGED flag

Return ==
    /\ main = "join"
    /\ \A t \in Threads : pc[t] = "exit"
    /\ main' = "returned"
    /\ UNCHANGED <<flag, mutex, pc>>

ThreadRuns(t) == Wait(t) \/ Test(t) \/ Unlock(t)
MainRuns == Set \/ Broadcast \/ Return

Next ==
    \/ \E t \in Threads : ThreadRuns(t) \/ Lock(t) \/ SpuriousWakeup(t) \/ Create(t)
    \/ CreateFails \/ MainLock \/ MainRuns

\* Every thread that can run is scheduled, and gets a mutex that is free again
\* and again.  No spurious wakeup is counted on.
Fairness ==
    /\ \A t \in Threads : WF_vars(ThreadRuns(t)) /\ SF_vars(Lock(t))
    /\ WF_vars(MainRuns) /\ SF_vars(MainLock)

Spec == Init /\ [][Next]_vars /\ Fairness

-----------------------------------------------------------------------------

\* A thread that sleeps when main broadcasts ends.  One that takes the mutex
\* after the broadcast does not have to: it never looks at the flag before it
\* sleeps, and only a spurious wakeup ends that sleep.
SleepersEnd == \A t \in Threads : main = "broadcast" /\ pc[t] = "asleep" ~> pc[t] = "exit"
=============================================================================
