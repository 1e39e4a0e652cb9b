------------------------------ MODULE Syscount ------------------------------
(***************************************************************************)
(* ex06/syscount/syscount.c: a process that counts the system calls of its *)
(* child with ptrace.  The child stops with SIGTRAP when it enters and     *)
(* when it leaves a system call, and the parent tells the two apart only   *)
(* by counting the stops (syscall_enter).                                  *)
(*                                                                         *)
(* The kernel and the program the child runs are external.  The parent     *)
(* sets no PTRACE_O_TRACESYSGOOD and no PTRACE_O_TRACEEXEC, so the kernel  *)
(* adds to a successful execve a SIGTRAP of its own.                       *)
(***************************************************************************)
EXTENDS Naturals

CONSTANTS
    MaxCalls,    \* bound on the system calls of the child
    MaxSignals   \* bound on the signals it gets

VARIABLES
    child,       \* "new", "running", "stopped", "exited", "killed"
    stopsig,     \* WSTOPSIG of a stopped child
    call,        \* the system call the child is in, or "none": it runs its own code
    orig_rax,    \* the number of a system call in its registers
    execs,       \* how many execve have succeeded
    trap,        \* whether the SIGTRAP of execve is pending
    pc,          \* the parent: "setup", "count", "returned", "failed"
    seen,        \* what waitpid has told it: "none", "stopped", "exited", "killed"
    syscall_enter, counter,
    entered,     \* how many system calls the child has entered
    forked,      \* the system calls by which the child has got children of its own
    signals,     \* how many signals the child got
    stray        \* whether one of them was a SIGTRAP

vars == <<child, stopsig, call, orig_rax, execs, trap, pc, seen, syscall_enter, counter,
          entered, forked, signals, stray>>

\* fork stands for vfork as well, and write for every call that neither forks nor ends
\* nor replaces the program.
Calls == {"execve", "exit_group", "fork", "clone", "clone3", "write"}

Init ==
    /\ child = "new" /\ stopsig = "none" /\ call = "none"
    /\ orig_rax = "none" /\ seen = "none" /\ execs = 0 /\ trap = FALSE /\ forked = {}
    /\ pc = "setup" /\ syscall_enter = TRUE /\ counter = 0 /\ entered = 0
    /\ signals = 0 /\ stray = FALSE

-----------------------------------------------------------------------------
(* The child *)

Stop(sig) == child' = "stopped" /\ stopsig' = sig

\* PTRACE_TRACEME and raise(SIGSTOP), or error(EXIT_FAILURE, ...).
run_tracee ==
    /\ child = "new"
    /\ Stop("SIGSTOP") \/ (child' = "exited" /\ UNCHANGED stopsig)
    /\ UNCHANGED <<call, orig_rax, execs, trap, pc, seen, syscall_enter, counter, entered, forked,
                   signals, stray>>

\* execvp is the first thing the child does after it stopped, and the program
\* may do anything; a child whose execvp fails writes a message and exits.
Enter(name) ==
    /\ child = "running" /\ call = "none" /\ ~trap
    /\ entered < MaxCalls
    /\ name = "execve" \/ execs > 0 \/ (entered > 0 /\ name \in {"write", "exit_group"})
    /\ entered' = entered + 1
    /\ call' = name /\ orig_rax' = name
    /\ Stop("SIGTRAP")
    /\ UNCHANGED <<execs, trap, pc, seen, syscall_enter, counter, forked, signals, stray>>

\* exit_group does not return.
Leave ==
    /\ child = "running" /\ call \notin {"none", "exit_group"}
    /\ \/ call = "execve" /\ execs' = execs + 1 /\ trap' = TRUE /\ UNCHANGED forked
       \/ /\ call \in {"fork", "clone", "clone3"} /\ forked' = forked \cup {call}
          /\ UNCHANGED <<execs, trap>>
       \/ UNCHANGED <<execs, trap, forked>>      \* the call fails, or is another one
    /\ call' = "none"
    /\ Stop("SIGTRAP")
    /\ UNCHANGED <<orig_rax, pc, seen, syscall_enter, counter, entered, signals, stray>>

Exit ==
    /\ child = "running" /\ call = "exit_group"
    /\ child' = "exited"
    /\ UNCHANGED <<stopsig, call, orig_rax, execs, trap, pc, seen, syscall_enter, counter, entered,
                   forked, signals, stray>>

\* The SIGTRAP that a successful execve leaves behind.
ExecTrap ==
    /\ child = "running" /\ call = "none" /\ trap
    /\ trap' = FALSE
    /\ Stop("SIGTRAP")
    /\ UNCHANGED <<call, orig_rax, execs, pc, seen, syscall_enter, counter, entered, forked, signals,
                   stray>>

\* A signal stops the child first, and the parent never passes it on.
Signal(sig) ==
    /\ child = "running" /\ call = "none"
    /\ signals < MaxSignals
    /\ signals' = signals + 1
    /\ stray' = (stray \/ sig = "SIGTRAP")
    /\ orig_rax' \in {orig_rax, "none"}
    /\ Stop(sig)
    /\ UNCHANGED <<call, execs, trap, pc, seen, syscall_enter, counter, entered, forked>>

Kill ==
    /\ child \in {"new", "running", "stopped"}
    /\ child' = "killed"
    /\ UNCHANGED <<stopsig, call, orig_rax, execs, trap, pc, seen, syscall_enter, counter, entered,
                   forked, signals, stray>>

-----------------------------------------------------------------------------
(* The parent *)

Wait ==
    /\ pc \in {"setup", "count"} /\ seen = "none"
    /\ child \in {"stopped", "exited", "killed"}
    /\ seen' = child
    /\ UNCHANGED <<child, stopsig, call, orig_rax, execs, trap, pc, syscall_enter, counter,
                   entered, forked, signals, stray>>

\* PTRACE_SYSCALL, which fails when the child is dead, or the end of the loop.
ResumeOrReturn ==
    /\ seen' = "none"
    /\ IF child = "stopped" THEN child' = "running" /\ UNCHANGED pc
                            ELSE pc' = "returned" /\ UNCHANGED child

\* With PTRACE_O_EXITKILL the child does not outlive the parent.
Ends(how) ==
    /\ pc' = how
    /\ child' = IF child = "exited" THEN child ELSE "killed"
    /\ UNCHANGED seen

run_tracer ==
    /\ pc = "setup" /\ seen # "none"
    /\ \/ seen = "stopped" /\ child = "stopped" /\ child' = "running"
          /\ pc' = "count" /\ seen' = "none"
       \/ Ends("failed")      \* not stopped, or ptrace failed: kill(child, SIGKILL)
    /\ UNCHANGED <<stopsig, call, orig_rax, execs, trap, syscall_enter, counter, entered,
                   forked, signals, stray>>

\* Variant: clone is not recognised.
FewInvalid == {"fork"}
\* The switch has no clone3, by which a child can fork as well.
Invalid == {"fork", "clone"}

\* PTRACE_GETREGS fails when the child has died: regs keeps some earlier call.
Registers == IF child = "stopped" THEN {orig_rax} ELSE Calls \cup {"none"}

\* Variant: every stop is taken for one at a system call.
AnyStop == stopsig # "none"
SyscallStop == stopsig = "SIGTRAP"

\* One round of the loop of count_syscalls.
count_syscalls ==
    /\ pc = "count" /\ seen # "none"
    /\ \/ /\ seen = "exited" /\ pc' = "returned"
          /\ UNCHANGED <<child, seen, counter, syscall_enter>>
       \/ /\ seen = "stopped" /\ SyscallStop /\ syscall_enter
          /\ \E nr \in Registers :
               \/ /\ nr \in Invalid
                  /\ Ends("returned")
                  /\ UNCHANGED <<counter, syscall_enter>>
               \/ /\ nr \notin Invalid
                  /\ counter' = counter + 1 /\ syscall_enter' = FALSE
                  /\ ResumeOrReturn
       \/ /\ seen = "stopped" /\ SyscallStop /\ ~syscall_enter
          /\ syscall_enter' = TRUE
          /\ ResumeOrReturn
          /\ UNCHANGED counter
       \/ /\ seen = "killed" \/ (seen = "stopped" /\ ~SyscallStop)
          /\ ResumeOrReturn
          /\ UNCHANGED <<counter, syscall_enter>>
    /\ UNCHANGED <<stopsig, call, orig_rax, execs, trap, entered, forked, signals, stray>>

Next ==
    \/ run_tracee \/ (\E name \in Calls : Enter(name)) \/ Leave \/ Exit \/ ExecTrap
    \/ (\E sig \in {"SIGTRAP", "other"} : Signal(sig)) \/ Kill
    \/ Wait \/ run_tracer \/ count_syscalls

Spec == Init /\ [][Next]_vars

-----------------------------------------------------------------------------

\* The parent counts every second stop, and main prints the sum as the calls performed.
\* That is true of a child that ran to its end, executed at most one program and got no
\* SIGTRAP from elsewhere: the SIGTRAP of the execve is taken for the entry of a call, from
\* then on the calls that return are counted, and the one too many makes up for
\* exit_group, which does not.  (A second execve brings the phase back and the sum is one
\* too high.)  Whatever the phase and whatever signals came, a child that has forked by a
\* call the switch names performs no other system call: it is found out at the latest when
\* it leaves the one that forked.  (A child that forks by clone3 is not found out.)
CountsCalls ==
    /\ [](pc = "returned" /\ seen = "exited" /\ execs <= 1 /\ ~stray => counter = entered)
    /\ [][forked \cap {"fork", "clone"} # {} => entered' = entered]_vars
=============================================================================
