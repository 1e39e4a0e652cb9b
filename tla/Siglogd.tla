------------------------------ MODULE Siglogd ------------------------------
(***************************************************************************)
(* hw06: a daemon that logs and counts signals.  logger blocks its signals *)
(* and SIGALRM, installs its handlers, and then calls sigsuspend for ever  *)
(* with the mask it was started with.  With an interval an alarm makes it  *)
(* log its statistics again and again.                                     *)
(*                                                                         *)
(* The kernel is external: a standard signal is pending once, however      *)
(* often it is sent; a pending signal outside the mask is delivered at any *)
(* moment; a handler runs with sa_mask added to the mask and may itself be *)
(* interrupted.                                                            *)
(***************************************************************************)
EXTENDS Naturals, Sequences

CONSTANTS
    Logged,       \* the signals of signals_to_log
    Inherited,    \* the masks the daemon may be started with
    MaxSent       \* bound on the signals other processes send

Signals == Logged \cup {"SIGALRM"}

VARIABLES
    pc,            \* "start", "install", "alarm", "loop", "suspended", "exited", "killed"
    timer,         \* whether the interval is not 0
    oldset,        \* sig_oldset
    mask, pending, \* of the process
    installed,     \* the signals that have a handler
    armed,         \* whether an alarm is running
    fromTimer,     \* whether the pending SIGALRM comes from the alarm (si_pid = 0)
    frames,        \* the handlers that are running, the innermost last
    statistics,
    sent,          \* how many signals were sent
    overlapped     \* whether an alarm ended while a process's SIGALRM was pending

kernel == <<mask, pending, fromTimer, frames>>
vars == <<pc, timer, oldset, kernel, installed, armed, statistics, sent, overlapped>>

Alive == pc \notin {"exited", "killed"}

Init ==
    /\ pc = "start"
    /\ timer \in BOOLEAN
    /\ oldset \in Inherited
    /\ mask = oldset /\ pending = {} /\ fromTimer = FALSE /\ frames = <<>>
    /\ installed = {} /\ armed = FALSE
    /\ statistics = [s \in Logged |-> 0]
    /\ sent = 0 /\ overlapped = FALSE

-----------------------------------------------------------------------------
(* The other processes and the kernel *)

Send(s) ==
    /\ sent < MaxSent /\ Alive
    /\ pending' = pending \cup {s}
    /\ fromTimer' = (fromTimer /\ "SIGALRM" \in pending)
    /\ sent' = sent + 1
    /\ UNCHANGED <<pc, timer, oldset, mask, frames, installed, armed, statistics, overlapped>>

\* The signal of the alarm is merged with one that is already pending.
AlarmEnds ==
    /\ armed /\ Alive
    /\ armed' = FALSE
    /\ pending' = pending \cup {"SIGALRM"}
    /\ fromTimer' = ("SIGALRM" \notin pending \/ fromTimer)
    /\ overlapped' = (overlapped \/ ~fromTimer')
    /\ UNCHANGED <<pc, timer, oldset, mask, frames, installed, statistics, sent>>

\* Variant: the handlers block only their own signal.
SaMaskEmpty == {}

\* sa_mask of both handlers is sig_intset.
SaMask == Signals

\* The default action of SIGCONT is to go on, of the others to end the process.
Deliver(s) ==
    /\ s \in pending \ mask /\ Alive
    /\ pending' = pending \ {s}
    /\ \/ /\ s \in installed
          /\ frames' = Append(frames, [sig |-> s, byTimer |-> s = "SIGALRM" /\ fromTimer,
                                       saved |-> IF pc = "suspended" /\ frames = <<>>
                                                 THEN Signals \cup oldset ELSE mask])
          /\ mask' = mask \cup SaMask \cup {s}
          /\ UNCHANGED pc
       \/ /\ s \notin installed
          /\ pc' = IF s = "SIGCONT" THEN pc ELSE "killed"
          /\ UNCHANGED <<frames, mask>>
    /\ UNCHANGED <<timer, oldset, fromTimer, installed, armed, statistics, sent, overlapped>>

-----------------------------------------------------------------------------
(* logger *)

\* Variant: SIGALRM is not blocked.
BlockLogged ==
    /\ pc = "start" /\ frames = <<>>
    /\ mask' = mask \cup Logged
    /\ pc' = "install"
    /\ UNCHANGED <<timer, oldset, pending, fromTimer, frames, installed, armed, statistics,
                   sent, overlapped>>

\* sigprocmask(SIG_BLOCK, ...)
Block ==
    /\ pc = "start" /\ frames = <<>>
    /\ mask' = mask \cup Signals
    /\ pc' = "install"
    /\ UNCHANGED <<timer, oldset, pending, fromTimer, frames, installed, armed, statistics,
                   sent, overlapped>>

\* One sigaction; the logged signals come before SIGALRM.
Install ==
    /\ pc = "install" /\ frames = <<>>
    /\ \E s \in IF Logged \subseteq installed THEN Signals \ installed ELSE Logged \ installed :
         /\ installed' = installed \cup {s}
         /\ pc' = IF installed' = Signals THEN "alarm" ELSE pc
    /\ UNCHANGED <<timer, oldset, kernel, armed, statistics, sent, overlapped>>

\* daemon, sigprocmask or sigaction fails: error(EXIT_FAILURE, ...).
Fail ==
    /\ pc \in {"start", "install"} /\ frames = <<>>
    /\ pc' = "exited"
    /\ UNCHANGED <<timer, oldset, kernel, installed, armed, statistics, sent, overlapped>>

SetAlarm ==
    /\ pc = "alarm" /\ frames = <<>>
    /\ armed' = timer
    /\ pc' = "loop"
    /\ UNCHANGED <<timer, oldset, kernel, installed, statistics, sent, overlapped>>

Suspend ==
    /\ pc = "loop" /\ frames = <<>>
    /\ mask' = oldset
    /\ pc' = "suspended"
    /\ UNCHANGED <<timer, oldset, pending, fromTimer, frames, installed, armed, statistics,
                   sent, overlapped>>

Running == frames[Len(frames)]

\* The handler returns, and with it sigsuspend, if that was interrupted.
Return ==
    /\ mask' = Running.saved
    /\ frames' = SubSeq(frames, 1, Len(frames) - 1)
    /\ pc' = IF pc = "suspended" /\ Len(frames) = 1 THEN "loop" ELSE pc

\* Variant: no signal ends the daemon.
SignalHandlerStays ==
    /\ Alive /\ frames # <<>>
    /\ Running.sig \in Logged
    /\ statistics' = [statistics EXCEPT ![Running.sig] = @ + 1]
    /\ Return
    /\ UNCHANGED <<timer, oldset, pending, fromTimer, installed, armed, sent, overlapped>>

signal_handler ==
    /\ Alive /\ frames # <<>>
    /\ Running.sig \in Logged
    /\ statistics' = [statistics EXCEPT ![Running.sig] = @ + 1]
    /\ \/ /\ Running.sig \in {"SIGTERM", "SIGINT"}
          /\ pc' = "exited"
          /\ UNCHANGED <<mask, frames>>
       \/ /\ Running.sig \notin {"SIGTERM", "SIGINT"}
          /\ Return
    /\ UNCHANGED <<timer, oldset, pending, fromTimer, installed, armed, sent, overlapped>>

\* Variant: the alarm is not set again.
AlarmHandlerOnce ==
    /\ Alive /\ frames # <<>>
    /\ Running.sig = "SIGALRM"
    /\ Return
    /\ UNCHANGED <<timer, oldset, pending, fromTimer, installed, armed, statistics, sent, overlapped>>

\* A SIGALRM that a process sent is ignored.
alarm_handler ==
    /\ Alive /\ frames # <<>>
    /\ Running.sig = "SIGALRM"
    /\ armed' = (armed \/ (Running.byTimer /\ timer))
    /\ Return
    /\ UNCHANGED <<timer, oldset, pending, fromTimer, installed, statistics, sent, overlapped>>

DaemonRuns == Block \/ Install \/ SetAlarm \/ Suspend \/ signal_handler \/ alarm_handler

Next ==
    \/ DaemonRuns \/ Fail \/ AlarmEnds
    \/ \E s \in Signals : Send(s) \/ Deliver(s)

Spec == Init /\ [][Next]_vars

-----------------------------------------------------------------------------

\* A signal reaches the daemon in sigsuspend only.  The handlers call syslog and exit,
\* which must not interrupt themselves: a handler never interrupts logger's own syslog
\* calls or another handler.  And from sigprocmask on none of the signals kills the
\* daemon: they wait until there is a handler for them.
OnlyInSuspend ==
    /\ [](Len(frames) <= 1 /\ (frames # <<>> => pc \in {"suspended", "exited"}))
    /\ [][pc' = "killed" => pc = "start"]_vars

\* The statistics are logged for ever: an alarm is running, or its signal is on
\* its way to the handler that sets the next one.  The only thing that ends this
\* is a SIGALRM sent by a process that is pending when the alarm ends.
TicksGoOn ==
    timer /\ pc \in {"loop", "suspended"} =>
        \/ armed
        \/ "SIGALRM" \in pending /\ fromTimer
        \/ \E j \in DOMAIN frames : frames[j].byTimer
        \/ overlapped

\* SIGTERM ends the daemon once it has blocked its signals, unless it was
\* started with SIGTERM blocked.
TermEnds == (pc # "start" /\ "SIGTERM" \in pending \ oldset) ~> pc \in {"exited", "killed"}
=============================================================================
