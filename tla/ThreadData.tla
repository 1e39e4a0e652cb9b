----------------------------- MODULE ThreadData -----------------------------
(***************************************************************************)
(* Thread-specific data in ex08: tls.c, where every thread, main included, *)
(* stores its number into four kinds of variables, waits at a barrier and  *)
(* prints them; keys.c; and stopwatch.c with its test.c.  A thread's       *)
(* number is the thread.  A thread has at most one block: what malloc gave *)
(* it, or in keys.c the array on its stack.                                *)
(***************************************************************************)
EXTENDS FiniteSets

CONSTANTS Threads, Main, NULL

VARIABLES
    file,         \* "tls", "keys" or "stopwatch"
    pc,
    id_static,    \* the variable with static storage, of tls.c
    blocks,       \* the threads whose block exists
    specific,     \* the threads whose block the key has
    printed,      \* what a thread printed: id_static and what the key gave it
    key,          \* the key exists
    main,
    failed        \* a call has failed

vars == <<file, pc, id_static, blocks, specific, printed, key, main, failed>>

\* Those the barrier of tls.c waits for.
Runners == IF file = "tls" THEN Threads \cup {Main} ELSE Threads

Init ==
    /\ file \in {"tls", "keys", "stopwatch"}
    /\ pc = [t \in Threads \cup {Main} |-> "none"]
    /\ id_static = NULL
    /\ blocks = {} /\ specific = {}
    /\ printed = [t \in Threads \cup {Main} |-> <<>>]
    /\ key = TRUE /\ main = "create" /\ failed = FALSE

\* A thread that runs: the process has not ended.
At(t, place) == pc[t] = place /\ main \notin {"returned", "exit"}
Goto(t, place) == pc' = [pc EXCEPT ![t] = place]

\* A thread ends: the destructor frees what the key has (tls.c, stopwatch.c), an
\* array on the stack goes with the thread, a block the key does not have stays.
\* After pthread_exit in main nobody joins anybody.
Ends(t) ==
    /\ Goto(t, "exit")
    /\ blocks' = IF file = "keys" \/ t \in specific THEN blocks \ {t} ELSE blocks
    /\ specific' = specific \ {t}

-----------------------------------------------------------------------------
(* run_thread, thread_entry, thread_run *)

\* id_static = data->id
StoreStatic(t) ==
    /\ At(t, "start") /\ file = "tls"
    /\ id_static' = t
    /\ Goto(t, "malloc")
    /\ UNCHANGED <<file, blocks, specific, printed, key, main, failed>>

\* The array of keys.c; the call of stopwatch_reset.
Begin(t) ==
    /\ At(t, "start") /\ file # "tls"
    /\ IF file = "keys" THEN blocks' = blocks \cup {t} /\ Goto(t, "set")
                        ELSE Goto(t, "malloc") /\ UNCHANGED blocks
    /\ UNCHANGED <<file, id_static, specific, printed, key, main, failed>>

Malloc(t) ==
    /\ At(t, "malloc")
    /\ blocks' = blocks \cup {t}
    /\ Goto(t, "set")
    /\ UNCHANGED <<file, id_static, specific, printed, key, main, failed>>

\* malloc fails: pthread_exit in tls.c, error(EXIT_FAILURE) in stopwatch_reset.
MallocFails(t) ==
    /\ At(t, "malloc")
    /\ failed' = TRUE
    /\ \/ file = "tls" /\ Ends(t) /\ UNCHANGED main
       \/ file = "stopwatch" /\ main' = "exit" /\ UNCHANGED <<pc, blocks, specific>>
    /\ UNCHANGED <<file, id_static, printed, key>>

SetSpecific(t) ==
    /\ At(t, "set")
    /\ specific' = specific \cup {t}
    /\ Goto(t, IF file = "tls" THEN "barrier_wait" ELSE "print")
    /\ UNCHANGED <<file, id_static, blocks, printed, key, main, failed>>

SetSpecificFails(t) ==
    /\ At(t, "set")
    /\ failed' = TRUE
    /\ Ends(t)
    /\ UNCHANGED <<file, id_static, printed, key, main>>

\* Variant: a barrier that lets everybody pass.
ArriveAlone(t) ==
    /\ At(t, "barrier_wait")
    /\ Goto(t, "print")
    /\ UNCHANGED <<file, id_static, blocks, specific, printed, key, main, failed>>

\* pthread_barrier_wait, initialised for the threads and main.
Arrive(t) ==
    /\ At(t, "barrier_wait")
    /\ pc' = IF \A u \in Runners \ {t} : pc[u] = "barrier"
             THEN [u \in Threads \cup {Main} |-> "print"]
             ELSE [pc EXCEPT ![t] = "barrier"]
    /\ UNCHANGED <<file, id_static, blocks, specific, printed, key, main, failed>>

\* printf with what pthread_getspecific gives; stopwatch_elapsed.
PrintData(t) ==
    /\ At(t, "print")
    /\ printed' = [printed EXCEPT
         ![t] = <<id_static, IF t \in specific \cap blocks THEN t ELSE NULL>>]
    /\ Goto(t, "return")
    /\ UNCHANGED <<file, id_static, blocks, specific, key, main, failed>>

\* A thread returns and ends.  In main run_thread returns to main.
Return(t) ==
    /\ At(t, "return") /\ t # Main
    /\ Ends(t)
    /\ UNCHANGED <<file, id_static, printed, key, main, failed>>

-----------------------------------------------------------------------------
(* main *)

Create(t) ==
    /\ main = "create" /\ pc[t] = "none"
    /\ Goto(t, "start")
    /\ UNCHANGED <<file, id_static, blocks, specific, printed, key, main, failed>>

\* keys.c joins those that exist, tls.c and test.c exit.
CreateFails ==
    /\ main = "create" /\ \E t \in Threads : pc[t] = "none"
    /\ failed' = TRUE
    /\ main' = IF file = "keys" THEN "join" ELSE "exit"
    /\ UNCHANGED <<file, pc, id_static, blocks, specific, printed, key>>

\* In tls.c main calls run_thread.
AllCreated ==
    /\ main = "create" /\ \A t \in Threads : pc[t] # "none"
    /\ main' = "join"
    /\ IF file = "tls" THEN Goto(Main, "start") ELSE UNCHANGED pc
    /\ UNCHANGED <<file, id_static, blocks, specific, printed, key, failed>>

\* The joins, pthread_key_delete, which frees nothing, and return.
JoinAll ==
    /\ main = "join" /\ (file = "tls" => pc[Main] = "return")
    /\ \A t \in Threads : pc[t] \in {"none", "exit"}
    /\ main' = "returned" /\ key' = FALSE
    /\ UNCHANGED <<file, pc, id_static, blocks, specific, printed, failed>>

ThreadRuns(t) ==
    \/ StoreStatic(t) \/ Begin(t) \/ Malloc(t) \/ MallocFails(t)
    \/ SetSpecific(t) \/ SetSpecificFails(t) \/ Arrive(t) \/ PrintData(t) \/ Return(t)

MainRuns == (\E t \in Threads : Create(t)) \/ CreateFails \/ AllCreated \/ JoinAll

Next == (\E t \in Threads \cup {Main} : ThreadRuns(t)) \/ MainRuns

Spec == Init /\ [][Next]_vars

-----------------------------------------------------------------------------
(* Properties *)

\* A thread finds its own data under the key, never another thread's or freed data,
\* while all of them print the same id_static, the number of the last that stored it:
\* after the barrier nobody stores any more (run_thread).  And when main returns from
\* joining them, only main's own block was not freed, unless a call failed.
OwnData ==
    /\ \A t \in Threads \cup {Main} : printed[t] # <<>> =>
         /\ printed[t][2] = t
         /\ file = "tls" => printed[t][1] = id_static
    /\ main = "returned" /\ ~failed => blocks \subseteq {Main}

\* Unless a call fails all threads pass the barrier and print, and main returns.
DataEnds == <>(failed \/ (main = "returned" /\ \A t \in Runners : printed[t] # <<>>))
=============================================================================
