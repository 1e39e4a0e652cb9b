--------------------------- MODULE QueueObserved ---------------------------
(***************************************************************************)
(* Queue with an observer: it records the threads that were blocked when   *)
(* the queue was aborted, or it is a thread that calls queue_forecast      *)
(* while the others use the queue.  queue_forecast reads three fields      *)
(* without the mutex: a data race, which the build resolves to three loads *)
(* in whatever order the compiler chose.                                   *)
(***************************************************************************)
EXTENDS Queue

VARIABLES
    blocked,  \* the threads asleep when queue_abort set the flag
    unread,   \* the fields the call in progress has still to read
    sum,      \* what it has computed so far
    seen      \* the values the expression had since the call began

forecastVars == <<unread, sum, seen>>
observer == <<blocked, forecastVars>>

ObservedInit == Init /\ blocked = {} /\ unread = {} /\ sum = 0 /\ seen = {}

AbortNext ==
    /\ Next
    /\ blocked' = IF aborted' /\ ~aborted THEN At({"push_wait", "pop_wait"}) ELSE blocked
    /\ UNCHANGED forecastVars

AbortSpec == ObservedInit /\ [][AbortNext]_<<vars, observer>>

-----------------------------------------------------------------------------
(* queue_forecast *)

Fields == {"queue_size", "waiting_for_pop", "waiting_for_push"}

\* The expression queue_forecast returns.
Forecast == size - waitingForPop + waitingForPush

Term(field) ==
    CASE field = "queue_size" -> size
      [] field = "waiting_for_pop" -> -waitingForPop
      [] field = "waiting_for_push" -> waitingForPush

BeginForecast ==
    /\ unread = {}
    /\ unread' = Fields
    /\ sum' = 0
    /\ seen' = {Forecast}
    /\ UNCHANGED <<vars, blocked>>

\* One load; the last one completes the call, whose result is sum'.
ReadField(field) ==
    /\ field \in unread
    /\ unread' = unread \ {field}
    /\ sum' = sum + Term(field)
    /\ seen' = IF unread' = {} THEN {} ELSE seen
    /\ UNCHANGED <<vars, blocked>>

OtherThread ==
    /\ Next
    /\ seen' = IF unread = {} THEN {} ELSE seen \cup {Forecast'}
    /\ UNCHANGED <<unread, sum, blocked>>

ForecastNext ==
    \/ BeginForecast
    \/ \E field \in Fields : ReadField(field)
    \/ OtherThread

ForecastSpec == ObservedInit /\ [][ForecastNext]_<<vars, observer>>

-----------------------------------------------------------------------------
(* Properties *)

\* queue.h of queue_abort: it "wakes up all threads waiting on queue_push() or
\* queue_pop() and causes the blocked operations to fail": when the wait of a
\* thread that was blocked ends, its operation takes the failing return.
AbortFailsBlocked ==
    [][\A t \in blocked :
         pc[t] \in {"push_woken", "pop_woken"} => pc'[t] \in {pc[t], "fail"}]_<<vars, observer>>

\* queue.h of queue_forecast: it "returns the number of elements stored with
\* waiting pushes and pops counted in": the number at some moment of the call.
ForecastWasTrue ==
    [][unread # {} /\ unread' = {} => sum' \in seen]_<<vars, observer>>
=============================================================================
