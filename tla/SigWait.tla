------------------------------ MODULE SigWait ------------------------------
(***************************************************************************)
(* ex06/signals: three programs that wait for SIGINT.  await.c pauses with *)
(* the signal unblocked, suspend.c blocks it except in sigsuspend, and     *)
(* syncsig.c blocks it and takes it with sigwaitinfo.  The kernel, which   *)
(* delivers the signal and interrupts pause and sigsuspend, is external.   *)
(***************************************************************************)
EXTENDS Naturals

CONSTANT MaxSent   \* bound on the signals that are sent

VARIABLES
    file,        \* the program: "await", "suspend" or "syncsig"
    pc,          \* "start", "install", "loop", "waiting", "check", "sleep", "ended"
    blocked, pending, installed,
    received,    \* sig_received
    sent,
    unlogged     \* whether a signal was sent since the last log message

vars == <<file, pc, blocked, pending, installed, received, sent, unlogged>>

Init ==
    /\ file \in {"await", "suspend", "syncsig"}
    /\ pc = IF file = "await" THEN "install" ELSE "start"
    /\ blocked = FALSE /\ pending = FALSE /\ installed = FALSE /\ received = FALSE
    /\ sent = 0 /\ unlogged = FALSE

Send ==
    /\ sent < MaxSent /\ pc # "ended"
    /\ pending' = TRUE /\ unlogged' = TRUE
    /\ sent' = sent + 1
    /\ UNCHANGED <<file, pc, blocked, installed, received>>

\* handler sets sig_received, and pause, sigsuspend and sleep return when it does;
\* sigsuspend blocks the signal again.  Without a handler the process ends.
Deliver ==
    /\ pending /\ ~blocked /\ pc # "ended"
    /\ pending' = FALSE
    /\ received' = (received \/ installed)
    /\ pc' = IF ~installed THEN "ended" ELSE IF pc = "waiting" THEN "check" ELSE pc
    /\ blocked' = (file = "suspend" /\ pc = "waiting")
    /\ UNCHANGED <<file, installed, sent, unlogged>>

Goes(from, to) == pc = from /\ pc' = to

\* Variant: the signal is not blocked.
BlockNothing ==
    /\ Goes("start", IF file = "suspend" THEN "install" ELSE "loop")
    /\ UNCHANGED <<file, blocked, pending, installed, received, sent, unlogged>>

\* sigprocmask, in suspend.c and syncsig.c.
Block ==
    /\ Goes("start", IF file = "suspend" THEN "install" ELSE "loop")
    /\ blocked' = TRUE
    /\ UNCHANGED <<file, pending, installed, received, sent, unlogged>>

\* sigaction, in await.c and suspend.c.
Install ==
    /\ Goes("install", "loop")
    /\ installed' = TRUE
    /\ UNCHANGED <<file, blocked, pending, received, sent, unlogged>>

\* sigprocmask of suspend.c or sigaction fails: error(EXIT_FAILURE, ...).
Fail ==
    /\ Goes("install", "ended") \/ (file = "suspend" /\ Goes("start", "ended"))
    /\ UNCHANGED <<file, blocked, pending, installed, received, sent, unlogged>>

\* pause, sigsuspend with the old mask, or sigwaitinfo.
Wait ==
    /\ Goes("loop", "waiting")
    /\ blocked' = (blocked /\ file # "suspend")
    /\ UNCHANGED <<file, pending, installed, received, sent, unlogged>>

\* sigwaitinfo returns with the signal, which is logged.
Take ==
    /\ file = "syncsig"
    /\ pending
    /\ Goes("waiting", "loop")
    /\ pending' = FALSE /\ unlogged' = FALSE
    /\ UNCHANGED <<file, blocked, installed, received, sent>>

\* if (sig_received) syslog(...), and sleep(1).
Check ==
    /\ Goes("check", "sleep")
    /\ unlogged' = (unlogged /\ (~received \/ pending))
    /\ UNCHANGED <<file, blocked, pending, installed, received, sent>>

Reset ==
    /\ Goes("sleep", "loop")
    /\ received' = FALSE
    /\ UNCHANGED <<file, blocked, pending, installed, sent, unlogged>>

Next == Send \/ Deliver \/ Block \/ Install \/ Fail \/ Wait \/ Take \/ Check \/ Reset

Spec == Init /\ [][Next]_vars

-----------------------------------------------------------------------------

\* suspend.c and syncsig.c forget no signal: until it is logged it is pending, or
\* the program is about to log it.  In await.c a signal that comes between the
\* log message and the end of sleep is forgotten when sig_received is reset.
NotForgotten ==
    file # "await" /\ unlogged /\ pc # "ended" => pending \/ (received /\ pc = "check")
=============================================================================
