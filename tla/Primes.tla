------------------------------- MODULE Primes -------------------------------
(***************************************************************************)
(* ex09/primes/primes.c: producers push the primes of a range to a list,   *)
(* consumers pop them, both under list_mutex; a consumer that finds the    *)
(* list empty sleeps on a condition variable that producers signal.  When  *)
(* the producers are joined, main sets finished and broadcasts, without    *)
(* the mutex.  The list is a sequence (module List has its pointers).      *)
(***************************************************************************)
EXTENDS Integers, Sequences, FiniteSets

CONSTANTS
    Producers, Consumers,
    First, Last,    \* the range of a producer's loop, 1000 and 5000 in the code
    NULL

is_prime(n) == n \notin {0, 1} /\ \A k \in 2 .. n - 1 : n % k # 0

Threads == Producers \cup Consumers

VARIABLES
    list,
    finished,
    mutex,      \* the owner of list_mutex, or NULL
    pc,         \* the threads
    k,          \* a producer's loop variable
    counter,    \* data->counter of each thread
    main        \* where main is

vars == <<list, finished, mutex, pc, k, counter, main>>

Init ==
    /\ list = <<>>
    /\ finished = FALSE
    /\ mutex = NULL
    /\ pc = [t \in Threads |-> "none"]
    /\ k = [p \in Producers |-> First]
    /\ counter = [t \in Threads |-> 0]
    /\ main = "create_consumers"

Goto(t, place) == pc' = [pc EXCEPT ![t] = place]
Count(t) == counter' = [counter EXCEPT ![t] = @ + 1]

\* pthread_mutex_lock, and what pthread_cond_wait does before it returns.
Lock(t) ==
    /\ mutex = NULL
    /\ mutex' = t
    /\ \/ pc[t] = "push_lock" /\ Goto(t, "push")
       \/ pc[t] = "pop_lock" /\ Goto(t, "test")
       \/ pc[t] = "wake" /\ Goto(t, "woken")
    /\ UNCHANGED <<list, finished, k, counter, main>>

-----------------------------------------------------------------------------
(* run_producer *)

NextNumber(p) ==
    /\ pc[p] = "search"
    /\ k[p] < Last
    /\ \/ is_prime(k[p]) /\ Goto(p, "push_lock") /\ UNCHANGED k
       \/ ~is_prime(k[p]) /\ k' = [k EXCEPT ![p] = @ + 1] /\ UNCHANGED pc
    /\ UNCHANGED <<list, finished, mutex, counter, main>>

\* Variant: a number that could not be pushed is counted.
PushFailsCounted(p) ==
    /\ pc[p] = "push"
    /\ Count(p)
    /\ Goto(p, "push_unlock")
    /\ UNCHANGED <<list, finished, mutex, k, main>>

\* list_push may fail, and then nobody is signalled and nothing counted.
PushFails(p) ==
    /\ pc[p] = "push"
    /\ Goto(p, "push_unlock")
    /\ UNCHANGED <<list, finished, mutex, k, counter, main>>

\* Variant: a signal only when the list was not empty.
PushSignalsLate(p) ==
    /\ pc[p] = "push"
    /\ list' = Append(list, k[p])
    /\ Count(p)
    /\ IF list # <<>> /\ \E c \in Consumers : pc[c] = "asleep"
       THEN \E c \in Consumers : /\ pc[c] = "asleep"
                                 /\ pc' = [pc EXCEPT ![p] = "push_unlock", ![c] = "wake"]
       ELSE Goto(p, "push_unlock")
    /\ UNCHANGED <<finished, mutex, k, main>>

\* list_push, pthread_cond_signal and ++counter.
Push(p) ==
    /\ pc[p] = "push"
    /\ list' = Append(list, k[p])
    /\ Count(p)
    /\ \/ \E c \in Consumers : /\ pc[c] = "asleep"
                               /\ pc' = [pc EXCEPT ![p] = "push_unlock", ![c] = "wake"]
       \/ (\A c \in Consumers : pc[c] # "asleep") /\ Goto(p, "push_unlock")
    /\ UNCHANGED <<finished, mutex, k, main>>

\* Variant: the mutex is not released.
PushKeepsMutex(p) ==
    /\ pc[p] = "push_unlock"
    /\ k' = [k EXCEPT ![p] = @ + 1]
    /\ Goto(p, "search")
    /\ UNCHANGED <<list, finished, mutex, counter, main>>

PushUnlock(p) ==
    /\ pc[p] = "push_unlock"
    /\ mutex' = NULL
    /\ k' = [k EXCEPT ![p] = @ + 1]
    /\ Goto(p, "search")
    /\ UNCHANGED <<list, finished, counter, main>>

ProducerExits(p) ==
    /\ pc[p] = "search"
    /\ k[p] = Last
    /\ Goto(p, "exit")
    /\ UNCHANGED <<list, finished, mutex, k, counter, main>>

-----------------------------------------------------------------------------
(* run_consumer *)

\* while (list_is_empty(...))
Test(c) ==
    /\ pc[c] = "test"
    /\ Goto(c, IF list = <<>> THEN "wait_call" ELSE "pop")
    /\ UNCHANGED <<list, finished, mutex, k, counter, main>>

\* pthread_cond_wait releases the mutex and sleeps.
Wait(c) ==
    /\ pc[c] = "wait_call"
    /\ mutex' = NULL
    /\ Goto(c, "asleep")
    /\ UNCHANGED <<list, finished, k, counter, main>>

SpuriousWakeup(c) ==
    /\ pc[c] = "asleep"
    /\ Goto(c, "wake")
    /\ UNCHANGED <<list, finished, mutex, k, counter, main>>

\* The test of finished after pthread_cond_wait: the thread exits even when
\* there is something in the list.
Woken(c) ==
    /\ pc[c] = "woken"
    /\ \/ finished /\ mutex' = NULL /\ Goto(c, "exit")
       \/ ~finished /\ Goto(c, "test") /\ UNCHANGED mutex
    /\ UNCHANGED <<list, finished, k, counter, main>>

\* list_pop and pthread_mutex_unlock.  The mutex was held since the loop found
\* the list not empty, so list_pop does not fail (Conserved).
Pop(c) ==
    /\ pc[c] = "pop"
    /\ list' = Tail(list)
    /\ mutex' = NULL
    /\ Goto(c, "popped")
    /\ UNCHANGED <<finished, k, counter, main>>

Popped(c) ==
    /\ pc[c] = "popped"
    /\ Count(c)
    /\ Goto(c, "pop_lock")
    /\ UNCHANGED <<list, finished, mutex, k, main>>

-----------------------------------------------------------------------------
(* main *)

\* _run_bulk: one pthread_create; a failure ends the creating.
CreateOne(threads, place, failed) ==
    /\ \E t \in threads :
         /\ pc[t] = "none"
         /\ \/ Goto(t, place) /\ UNCHANGED main
            \/ main' = failed /\ UNCHANGED pc
    /\ UNCHANGED <<list, finished, mutex, k, counter>>

CreateConsumers == main = "create_consumers" /\ CreateOne(Consumers, "pop_lock", "finish")
CreateProducers == main = "create_producers" /\ CreateOne(Producers, "search", "join_producers")

MainGoes(from, to) == main = from /\ main' = to

AllCreated ==
    /\ \/ /\ MainGoes("create_consumers", "create_producers")
          /\ \A c \in Consumers : pc[c] # "none"
       \/ /\ MainGoes("create_producers", "join_producers")
          /\ \A p \in Producers : pc[p] # "none"
    /\ UNCHANGED <<list, finished, mutex, pc, k, counter>>

JoinProducers ==
    /\ MainGoes("join_producers", "finish")
    /\ \A p \in Producers : pc[p] \in {"none", "exit"}
    /\ UNCHANGED <<list, finished, mutex, pc, k, counter>>

\* shared.finished = true, without the mutex.
Finish ==
    /\ MainGoes("finish", "broadcast")
    /\ finished' = TRUE
    /\ UNCHANGED <<list, mutex, pc, k, counter>>

Broadcast ==
    /\ MainGoes("broadcast", "join_consumers")
    /\ pc' = [t \in Threads |-> IF pc[t] = "asleep" THEN "wake" ELSE pc[t]]
    /\ UNCHANGED <<list, finished, mutex, k, counter>>

\* The consumers are joined; list_destroy pops what is left.
Return ==
    /\ MainGoes("join_consumers", "returned")
    /\ \A c \in Consumers : pc[c] \in {"none", "exit"}
    /\ list' = <<>>
    /\ UNCHANGED <<finished, mutex, pc, k, counter>>

ProducerRuns(p) ==
    NextNumber(p) \/ PushFails(p) \/ Push(p) \/ PushUnlock(p) \/ ProducerExits(p)
ConsumerRuns(c) == Test(c) \/ Wait(c) \/ Woken(c) \/ Pop(c) \/ Popped(c)
MainRuns ==
    \/ CreateConsumers \/ CreateProducers \/ AllCreated
    \/ JoinProducers \/ Finish \/ Broadcast \/ Return

Next ==
    \/ \E p \in Producers : ProducerRuns(p)
    \/ \E c \in Consumers : ConsumerRuns(c) \/ SpuriousWakeup(c)
    \/ \E t \in Threads : Lock(t)
    \/ MainRuns

Spec == Init /\ [][Next]_vars

\* Every thread that can run is scheduled, and gets a mutex that is free again
\* and again.  No spurious wakeup is counted on.
Fairness ==
    /\ \A p \in Producers : WF_vars(ProducerRuns(p))
    /\ \A c \in Consumers : WF_vars(ConsumerRuns(c))
    /\ \A t \in Threads : SF_vars(Lock(t))
    /\ WF_vars(MainRuns)

FairSpec == Spec /\ Fairness

-----------------------------------------------------------------------------
(* Properties *)

\* Every variable has its type, and a loop variable stays in its range.
TypeOK ==
    /\ list \in Seq(First .. Last - 1)
    /\ finished \in BOOLEAN
    /\ mutex \in Threads \cup {NULL}
    /\ pc \in [Threads -> {"none", "search", "push_lock", "push", "push_unlock",
                          "pop_lock", "test", "wait_call", "asleep", "wake", "woken",
                          "pop", "popped", "exit"}]
    /\ k \in [Producers -> First .. Last]
    /\ counter \in [Threads -> Nat]
    /\ main \in {"create_consumers", "create_producers", "join_producers", "finish",
                 "broadcast", "join_consumers", "returned"}

\* What some threads have counted, as many numbers as the sum of their counters: the
\* j-th of thread t is <<t, j>>.
Counted(threads) == UNION {{t} \X (1 .. counter[t]) : t \in threads}

At(place) == {c \in Consumers : pc[c] = place}

\* Every number in the list has exactly two divisors, and list_pop is never called
\* on an empty list although consumers are woken spuriously and overtaken.
PopFinds ==
    /\ \A c \in Consumers : pc[c] = "pop" => list # <<>>
    /\ \A j \in DOMAIN list : Cardinality({d \in 1 .. list[j] : list[j] % d = 0}) = 2

\* Nothing is lost or taken twice: what the producers counted is in the list, or
\* counted by a consumer, or in the hands of one, as long as the list exists.
\* And list_pop finds a prime whenever it is called.
Conserved ==
    /\ main # "returned" =>
         Cardinality(Counted(Producers)) =
             Len(list) + Cardinality(Counted(Consumers)) + Cardinality(At("popped"))
    /\ PopFinds

\* While a consumer sleeps and main has not finished, there is for every number
\* in the list a consumer on its way to it; after the broadcast a consumer
\* sleeps only on an empty list.  So no number is ever slept upon.
NoNumberSleptOn ==
    At("asleep") # {} =>
        IF finished THEN main = "broadcast" \/ list = <<>>
        ELSE Len(list) <= Cardinality({c \in Consumers : pc[c] \in {"wake", "woken", "test", "pop"}})

\* Producers are never stopped by consumers: they end, and main tells everybody.
ProducersEnd == <>(main = "join_consumers")

\* The comment at the broadcast: "I want to make sure, that all consumers get
\* this \"signal\"": every consumer ends.
AllConsumersGetSignal == finished ~> \A c \in Consumers : pc[c] \in {"none", "exit"}
=============================================================================
