------------------------------ MODULE Signals ------------------------------
(***************************************************************************)
(* The programs about signals, siglogd of hw06 and sigcalc, the programs   *)
(* that wait for a signal and syscount of ex06, and ptgrep of hw08, side   *)
(* by side, each with variables of its own, and what is required of them.  *)
(***************************************************************************)
EXTENDS Integers, Sequences, FiniteSets

CONSTANTS
    Logged, Inherited,      \* of Siglogd
    Numbers, NONE,          \* of Sigcalc
    MaxCalls, MaxSignals,   \* of Syscount
    MaxSent,                \* of the programs about signals
    Searchers, LinesOfFile, MaxMatches      \* of Ptgrep

\* Numbers of threads, lines and matches.
ASSUME PtgrepAssumption == Searchers \in Nat /\ LinesOfFile \in Nat /\ MaxMatches \in Nat

VARIABLES
    daemon, timer, oldset, mask, pending, installed, armed, fromTimer, frames, statistics,
    sent, overlapped,
    calc_pc, calc_mask, calc_pending, calc_installed, calc_frames, counter, shown,
    calc_sent, requested, dropped,
    file, wait_pc, blocked, wait_pending, wait_installed, received, wait_sent, unlogged,
    child, stopsig, call, orig_rax, execs, trap, tracer, seen, syscall_enter, calls, entered,
    forked, signals, stray,
    tty, lines, opened, found, line_num, passed, grep_pc, main, joined, all_opened, any_found,
    grep_status

siglogd == <<daemon, timer, oldset, mask, pending, installed, armed, fromTimer, frames,
             statistics, sent, overlapped>>
sigcalc == <<calc_pc, calc_mask, calc_pending, calc_installed, calc_frames, counter, shown,
             calc_sent, requested, dropped>>
sigwait == <<file, wait_pc, blocked, wait_pending, wait_installed, received, wait_sent,
             unlogged>>
syscount == <<child, stopsig, call, orig_rax, execs, trap, tracer, seen, syscall_enter, calls,
              entered, forked, signals, stray>>
ptgrep == <<tty, lines, opened, found, line_num, passed, grep_pc, main, joined, all_opened,
            any_found, grep_status>>

Siglogd == INSTANCE Siglogd WITH pc <- daemon
Sigcalc == INSTANCE Sigcalc WITH
    pc <- calc_pc, mask <- calc_mask, pending <- calc_pending,
    installed <- calc_installed, frames <- calc_frames, sent <- calc_sent
SigWait == INSTANCE SigWait WITH
    pc <- wait_pc, pending <- wait_pending, installed <- wait_installed, sent <- wait_sent
Syscount == INSTANCE Syscount WITH pc <- tracer, counter <- calls
Ptgrep == INSTANCE Ptgrep WITH
    MaxLines <- LinesOfFile, seen <- passed, pc <- grep_pc, i <- joined, status <- grep_status

-----------------------------------------------------------------------------

\* siglogd: a signal reaches the daemon in sigsuspend only (logger, signal_handler).
OnlyInSuspend == Siglogd!OnlyInSuspend

\* siglogd: the alarm chain goes on, unless a process's SIGALRM hides the alarm's.
TicksGoOn == Siglogd!TicksGoOn

\* siglogd: SIGTERM ends the daemon (signal_handler).
TermEnds == Siglogd!TermEnds

\* sigcalc: a number that is not dropped is added exactly once (usrsigadd).
AddedOnce == Sigcalc!AddedOnce

\* suspend, syncsig: a SIGINT is remembered until it is logged.
NotForgotten == SigWait!NotForgotten

\* syscount: the number that main prints is that of the calls of a child that exits and
\* executed at most one program, and a child that has forked by a call of the switch
\* performs no other (count_syscalls).
CountsCalls == Syscount!CountsCalls
=============================================================================
