---------------------------- MODULE QueueTester ----------------------------
(***************************************************************************)
(* hw09/tester_mult_thread.c: producers and consumers share a queue; after *)
(* a while main aborts it, joins the consumers, then the producers, and    *)
(* destroys the queue.  How long main sleeps is left open: it may abort at *)
(* any moment.                                                             *)
(***************************************************************************)
EXTENDS Queue

CONSTANTS
    Producers, Consumers, Main,
    Pushes,   \* queue_push calls of a producer, before its queue_try_push
    Pops      \* queue_pop calls of a consumer, before its two queue_try_pop

VARIABLES
    step,     \* how many operations each worker has called
    main,     \* where main is
    result    \* what queue_destroy returned, or NULL

testerVars == <<step, main, result>>

Workers == Producers \cup Consumers

TesterInit ==
    /\ Init
    /\ step = [t \in Workers |-> 0]
    /\ main = "sleep"
    /\ result = NULL

Counts(t) == step' = [step EXCEPT ![t] = @ + 1] /\ UNCHANGED <<main, result>>

\* run_prod
ProducerCalls(t) ==
    /\ \/ step[t] < Pushes /\ \E e \in Elements : CallPush(t, e)
       \/ step[t] = Pushes /\ CallTryPush(t, Zero)
    /\ Counts(t)

\* run_cons
ConsumerCalls(t) ==
    /\ \/ step[t] < Pops /\ CallPop(t, Zero)
       \/ step[t] \in Pops .. Pops + 1 /\ CallTryPop(t, Zero)
    /\ Counts(t)

Done(t) == pc[t] = "idle" /\ step[t] = IF t \in Producers THEN Pushes + 1 ELSE Pops + 2

MainAborts ==
    /\ main = "sleep"
    /\ CallAbort(Main)
    /\ main' = "join_consumers"
    /\ UNCHANGED <<step, result>>

\* pthread_join returns when the thread has returned.
JoinConsumers ==
    /\ main = "join_consumers"
    /\ pc[Main] = "idle"
    /\ \A t \in Consumers : Done(t)
    /\ main' = "join_producers"
    /\ UNCHANGED <<vars, step, result>>

\* Variant: the producers are not joined.
JoinNoProducers ==
    /\ main = "join_producers"
    /\ main' = "destroy"
    /\ UNCHANGED <<vars, step, result>>

JoinProducers ==
    /\ main = "join_producers"
    /\ \A t \in Producers : Done(t)
    /\ main' = "destroy"
    /\ UNCHANGED <<vars, step, result>>

\* queue_destroy aborts first ...
DestroyAborts ==
    /\ main = "destroy"
    /\ CallAbort(Main)
    /\ main' = "release"
    /\ UNCHANGED <<step, result>>

\* ... then destroys the mutex, which fails when it is locked, and the condition
\* variables, which fails when somebody waits, and frees the rest.
DestroyReleases ==
    /\ main = "release"
    /\ pc[Main] = "idle"
    /\ result' = IF mutex # NULL THEN "MUTEX_DESTROY_FAIL"
                 ELSE IF waitingForPush + waitingForPop > 0 THEN "COND_DESTROY_FAIL"
                 ELSE "QUEUE_SUCCESS"
    /\ main' = "exit"
    /\ UNCHANGED <<vars, step>>

MainStep ==
    MainAborts \/ JoinConsumers \/ JoinProducers \/ DestroyAborts \/ DestroyReleases

WorkerCalls(t) ==
    \/ t \in Producers /\ ProducerCalls(t)
    \/ t \in Consumers /\ ConsumerCalls(t)

LibraryStep(t) ==
    /\ Run(t) \/ TakeMutex(t) \/ SpuriousWakeup(t)
    /\ UNCHANGED testerVars

TesterNext ==
    \/ MainStep
    \/ \E t \in Workers : WorkerCalls(t)
    \/ \E t \in Threads : LibraryStep(t)

\* Every thread that can run is scheduled; sleep(5) returns.
TesterFairness ==
    /\ WF_<<vars, testerVars>>(MainStep)
    /\ \A t \in Workers : WF_<<vars, testerVars>>(WorkerCalls(t))
    /\ \A t \in Threads : /\ WF_<<vars, testerVars>>(Run(t) /\ UNCHANGED testerVars)
                          /\ SF_<<vars, testerVars>>(TakeMutex(t) /\ UNCHANGED testerVars)

TesterSpec == TesterInit /\ [][TesterNext]_<<vars, testerVars>> /\ TesterFairness

-----------------------------------------------------------------------------

\* "The calling thread should make sure there are no other threads waiting on
\* this queue": when main calls queue_destroy every worker has returned, and
\* when the queue is gone its destruction has succeeded.
DestroyedAlone ==
    /\ main \in {"destroy", "release", "exit"} => \A t \in Workers : Done(t)
    /\ main = "exit" => result = "QUEUE_SUCCESS"

\* The test ends however the threads are scheduled, whenever main aborts: no
\* worker stays blocked on a queue that nobody will fill or drain any more.
TesterEnds == <>(main = "exit")
=============================================================================
