------------------------------ MODULE Sigcalc ------------------------------
(***************************************************************************)
(* ex06/sigcalc/sigcalc.c: a counter in a server process.  A client adds a *)
(* number with sigqueue(SIGUSR1), whose value carries the number, or asks  *)
(* for the counter with sigqueue(SIGUSR2).  The server blocks both signals *)
(* and handles them in sigsuspend.                                         *)
(*                                                                         *)
(* The kernel is external: both are standard signals, so one that is sent  *)
(* while the same one is pending is dropped, its value with it.            *)
(***************************************************************************)
EXTENDS Integers, Sequences

CONSTANTS Numbers, MaxSent, NONE

Signals == {"ADD", "GET"}

VARIABLES
    pc,          \* the server: "start", "install", "loop", "suspended", "ended"
    mask,
    pending,     \* for each signal its value, or NONE
    installed,
    frames,      \* the handlers that are running, the innermost last
    counter,
    shown,       \* what the last GET printed, or NONE
    sent,
    requested,   \* the sum of the numbers clients have added
    dropped      \* the sum of those that were dropped

vars == <<pc, mask, pending, installed, frames, counter, shown, sent, requested, dropped>>

Init ==
    /\ pc = "start" /\ mask = {} /\ installed = {} /\ frames = <<>>
    /\ pending = [s \in Signals |-> NONE]
    /\ counter = 0 /\ shown = NONE
    /\ sent = 0 /\ requested = 0 /\ dropped = 0

Goes(from, to) == pc = from /\ frames = <<>> /\ pc' = to

\* add and get: a client, with its sigqueue.
add(number) ==
    /\ sent < MaxSent /\ pc # "ended"
    /\ sent' = sent + 1
    /\ requested' = requested + number
    /\ \/ /\ pending["ADD"] = NONE
          /\ pending' = [pending EXCEPT !["ADD"] = number]
          /\ UNCHANGED dropped
       \/ /\ pending["ADD"] # NONE
          /\ dropped' = dropped + number
          /\ UNCHANGED pending
    /\ UNCHANGED <<pc, mask, installed, frames, counter, shown>>

get ==
    /\ sent < MaxSent /\ pc # "ended"
    /\ sent' = sent + 1
    /\ pending' = [pending EXCEPT !["GET"] = 100]
    /\ UNCHANGED <<pc, mask, installed, frames, counter, shown, requested, dropped>>

SaMask == Signals

\* The saved mask is the one sigsuspend will restore.
Deliver(s) ==
    /\ pending[s] # NONE /\ s \notin mask /\ pc # "ended"
    /\ pending' = [pending EXCEPT ![s] = NONE]
    /\ \/ /\ s \in installed
          /\ frames' = Append(frames, [sig |-> s, value |-> pending[s],
                                       saved |-> IF frames = <<>> THEN Signals ELSE mask])
          /\ mask' = mask \cup SaMask \cup {s}
          /\ UNCHANGED pc
       \/ s \notin installed /\ pc' = "ended" /\ UNCHANGED <<mask, frames>>
    /\ UNCHANGED <<installed, counter, shown, sent, requested, dropped>>

Block ==
    /\ Goes("start", "install")
    /\ mask' = Signals
    /\ UNCHANGED <<pending, installed, frames, counter, shown, sent, requested, dropped>>

\* The handler of GET, then that of ADD.
Install(s) ==
    /\ \/ s = "GET" /\ s \notin installed /\ Goes("install", "install")
       \/ s = "ADD" /\ "GET" \in installed /\ Goes("install", "loop")
    /\ installed' = installed \cup {s}
    /\ UNCHANGED <<mask, pending, frames, counter, shown, sent, requested, dropped>>

\* sigprocmask or sigaction fails: error(EXIT_FAILURE, ...).
Fail ==
    /\ Goes("start", "ended") \/ Goes("install", "ended")
    /\ UNCHANGED <<mask, pending, installed, frames, counter, shown, sent, requested, dropped>>

Suspend ==
    /\ Goes("loop", "suspended")
    /\ mask' = {}
    /\ UNCHANGED <<pending, installed, frames, counter, shown, sent, requested, dropped>>

Running == frames[Len(frames)]

Return ==
    /\ frames' = SubSeq(frames, 1, Len(frames) - 1)
    /\ mask' = Running.saved
    /\ pc' = IF Len(frames) = 1 THEN "loop" ELSE pc
    /\ UNCHANGED <<pending, installed, sent, requested, dropped>>

\* Variant: the number replaces the counter.
UsrsigaddAssigns ==
    /\ frames # <<>> /\ Running.sig = "ADD"
    /\ counter' = Running.value
    /\ Return
    /\ UNCHANGED shown

usrsigadd ==
    /\ frames # <<>> /\ Running.sig = "ADD"
    /\ counter' = counter + Running.value
    /\ Return
    /\ UNCHANGED shown

usrsigget ==
    /\ frames # <<>> /\ Running.sig = "GET"
    /\ shown' = counter
    /\ Return
    /\ UNCHANGED counter

ServerRuns ==
    Block \/ (\E s \in Signals : Install(s)) \/ Suspend \/ usrsigadd \/ usrsigget

Next ==
    \/ (\E number \in Numbers : add(number)) \/ get
    \/ \E s \in Signals : Deliver(s)
    \/ ServerRuns \/ Fail

Spec == Init /\ [][Next]_vars

-----------------------------------------------------------------------------

\* A number that is not dropped because another one is pending is added exactly
\* once: it is in the counter, pending, or in the hands of the handler.
AddedOnce ==
    LET waiting == IF pending["ADD"] = NONE THEN 0 ELSE pending["ADD"]
        handled == IF frames # <<>> /\ Running.sig = "ADD" THEN Running.value ELSE 0
    IN pc # "ended" => requested - dropped = counter + waiting + handled
=============================================================================
