--------------------------- MODULE QueueLifetime ---------------------------
(***************************************************************************)
(* queue_create and queue_destroy when any call they make may fail.  Each  *)
(* thread creates and destroys queues of its own, as the threads of        *)
(* hw09/tester_thread_safe.c do; what they share is the process's table of *)
(* thread-specific keys, which has KeysMax entries.  A thread that drops   *)
(* its pointer to a queue loses what the queue still has.                  *)
(***************************************************************************)
EXTENDS Naturals, FiniteSets, Sequences

CONSTANTS Threads, KeysMax

\* What queue_create acquires, in order.  "value" is pthread_setspecific.
Order == <<"struct", "buffer", "key", "value", "mutex", "cond_pop", "cond_push">>

Resources == {Order[i] : i \in DOMAIN Order} \ {"value"}

\* Variant: label mutex_init does not delete the key.
ReleasedKeepingKey(r) ==
    CASE r = "cond_push" -> {"cond_pop", "mutex", "buffer", "struct"}
      [] r = "cond_pop" -> {"mutex", "buffer", "struct"}
      [] r \in {"mutex", "key", "value"} -> {"buffer", "struct"}
      [] r = "buffer" -> {"struct"}
      [] r = "struct" -> {}

\* Variant: a failing pthread_key_create or pthread_setspecific jumps to mutex_init.
ReleasedWithKey(r) ==
    CASE r = "cond_push" -> {"cond_pop", "mutex", "key", "buffer", "struct"}
      [] r = "cond_pop" -> {"mutex", "key", "buffer", "struct"}
      [] r \in {"mutex", "key", "value"} -> {"key", "buffer", "struct"}
      [] r = "buffer" -> {"struct"}
      [] r = "struct" -> {}

\* What the labels queue_create jumps to when the call for r fails release.
ReleasedOnFailure(r) ==
    CASE r = "cond_push" -> {"cond_pop", "mutex", "key", "buffer", "struct"}
      [] r = "cond_pop" -> {"mutex", "key", "buffer", "struct"}
      [] r = "mutex" -> {"key", "buffer", "struct"}
      [] r \in {"key", "value"} -> {"buffer", "struct"}
      [] r = "buffer" -> {"struct"}
      [] r = "struct" -> {}

\* What queue_create or queue_destroy returns when its call for r fails.
CreateError(r) ==
    CASE r \in {"struct", "buffer"} -> "ALLOC_FAILURE"
      [] r \in {"key", "value"} -> "KEY_ERROR"
      [] r = "mutex" -> "MUTEX_INIT_FAIL"
      [] r \in {"cond_pop", "cond_push"} -> "COND_INIT_FAIL"

DestroyError(r) ==
    CASE r = "mutex" -> "MUTEX_DESTROY_FAIL"
      [] r \in {"cond_pop", "cond_push"} -> "COND_DESTROY_FAIL"
      [] r = "key" -> "KEY_ERROR"

\* What queue_destroy releases, in order; the last two are free(), which
\* cannot fail.
DestroyOrder == <<"mutex", "cond_push", "cond_pop", "key", "buffer", "struct">>

VARIABLES
    place,    \* "none", "create", "ready" or "destroy", for each thread
    next,     \* index in Order or DestroyOrder of the next call
    held,     \* the resources of the thread's queue
    retval,   \* what the thread's last call returned
    lost      \* for each resource, how many nobody has a pointer to

vars == <<place, next, held, retval, lost>>

KeysUsed == lost["key"] + Cardinality({t \in Threads : "key" \in held[t]})

Init ==
    /\ place = [t \in Threads |-> "none"]
    /\ next = [t \in Threads |-> 1]
    /\ held = [t \in Threads |-> {}]
    /\ retval = [t \in Threads |-> "QUEUE_SUCCESS"]
    /\ lost = [r \in Resources |-> 0]

Become(t, p) == place' = [place EXCEPT ![t] = p] /\ next' = [next EXCEPT ![t] = 1]

Return(t, code) == retval' = [retval EXCEPT ![t] = code]

\* The thread has no queue any more; what that queue still had is lost.
Abandon(t, remaining) ==
    /\ Become(t, "none")
    /\ held' = [held EXCEPT ![t] = {}]
    /\ lost' = [r \in Resources |-> lost[r] + (IF r \in remaining THEN 1 ELSE 0)]

\* A NULL qptr is refused before anything is acquired.
BeginCreate(t) ==
    /\ place[t] = "none"
    /\ \/ Become(t, "create") /\ UNCHANGED retval
       \/ Return(t, "WRONG_QUEUE_ARG") /\ UNCHANGED <<place, next>>
    /\ UNCHANGED <<held, lost>>

CreateStep(t) ==
    LET r == Order[next[t]] IN
    /\ place[t] = "create"
    /\ r = "key" => KeysUsed < KeysMax
    /\ held' = [held EXCEPT ![t] = @ \cup ({r} \ {"value"})]
    /\ \/ /\ next[t] < Len(Order)
          /\ next' = [next EXCEPT ![t] = @ + 1]
          /\ UNCHANGED <<place, retval>>
       \/ /\ next[t] = Len(Order)
          /\ Become(t, "ready")
          /\ Return(t, "QUEUE_SUCCESS")
    /\ UNCHANGED lost

\* A call fails: cleanup in reverse order, *qptr = NULL.
CreateFails(t) ==
    /\ place[t] = "create"
    /\ Return(t, CreateError(Order[next[t]]))
    /\ Abandon(t, held[t] \ ReleasedOnFailure(Order[next[t]]))

\* queue_abort, which comes first, finds nobody asleep on a queue that only
\* this thread uses (Queue and QueueTester model it).
BeginDestroy(t) ==
    /\ place[t] = "ready"
    /\ Become(t, "destroy")
    /\ UNCHANGED <<held, retval, lost>>

DestroyStep(t) ==
    LET r == DestroyOrder[next[t]] IN
    /\ place[t] = "destroy"
    /\ \/ /\ next[t] < Len(DestroyOrder)
          /\ held' = [held EXCEPT ![t] = @ \ {r}]
          /\ next' = [next EXCEPT ![t] = @ + 1]
          /\ UNCHANGED <<place, retval, lost>>
       \/ /\ next[t] = Len(DestroyOrder)
          /\ Return(t, "QUEUE_SUCCESS")
          /\ Abandon(t, held[t] \ {r})

\* The early returns: nothing that comes later is released, and the caller
\* drops the pointer, as run_thread does, which ignores the result.
DestroyFails(t) ==
    /\ place[t] = "destroy"
    /\ DestroyOrder[next[t]] \in {"mutex", "cond_push", "cond_pop", "key"}
    /\ Return(t, DestroyError(DestroyOrder[next[t]]))
    /\ Abandon(t, held[t])

Next ==
    \E t \in Threads :
        \/ BeginCreate(t) \/ CreateStep(t) \/ CreateFails(t)
        \/ BeginDestroy(t) \/ DestroyStep(t) \/ DestroyFails(t)

Spec == Init /\ [][Next]_vars

-----------------------------------------------------------------------------

\* A queue handed to the caller is complete; neither the cleanup labels of queue_create
\* nor queue_destroy release what the queue does not have at that moment, by a double
\* free or by a destroy of what was never initialised; and only two things leak.  A
\* queue_create whose pthread_setspecific fails leaks the key it has just made, and a
\* queue_destroy that returns early leaks the buffer and the struct with whatever else
\* it did not reach.  A call that reports success leaks nothing.
ReleasedOnce ==
    /\ [](\A t \in Threads :
            /\ place[t] = "ready" => held[t] = Resources
            /\ place[t] = "create" =>
                  ReleasedOnFailure(Order[next[t]]) \subseteq held[t]
            /\ place[t] = "destroy" => DestroyOrder[next[t]] \in held[t])
    /\ [][\A t \in Threads :
            place[t] \in {"create", "destroy"} /\ place'[t] = "none" =>
               LET leaked == {r \in Resources : lost'[r] # lost[r]} IN
               /\ place[t] = "create" => leaked \subseteq {"key"}
               /\ place[t] = "create" /\ leaked # {} => Order[next[t]] = "value"
               /\ place[t] = "destroy" =>
                     IF retval'[t] = "QUEUE_SUCCESS" THEN leaked = {}
                     ELSE {"key", "buffer", "struct"} \subseteq leaked]_vars
=============================================================================
