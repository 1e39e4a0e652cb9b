---------------------------- MODULE MCProcesses ----------------------------
(***************************************************************************)
(* Programs about signals (hw06, ex06), child processes and privileges     *)
(* (ex05, ex06), files and pipes (ex10, ex11), shared memory (ex13), and   *)
(* ptgrep.c of hw08, for TLC: a run of the one that program names.  The    *)
(* others stay in an initial state.                                        *)
(***************************************************************************)
EXTENDS Files, Signals, Processes

VARIABLE program

all == <<program, siglogd, sigcalc, sigwait, syscount, tasks, copy, vars, shm, ptgrep,
         pipes, drop>>

ProcessesInit ==
    /\ program \in {"siglogd", "sigcalc", "sigwait", "syscount", "tasks", "copy", "werecat",
                    "shm", "ptgrep", "pipe", "drop"}
    /\ Siglogd!Init /\ (program # "siglogd" => ~timer /\ oldset = {})
    /\ Sigcalc!Init
    /\ SigWait!Init /\ (program # "sigwait" => file = "await")
    /\ Syscount!Init
    /\ Tasks!Init
    /\ Copy!Init /\ (program # "copy" => copier = "slow" /\ lengths = <<0>>)
    /\ Init
    /\ Shm!Init /\ (program # "shm" => kind = "shm")
    /\ Ptgrep!Init
    /\ program # "ptgrep" => tty /\ \A t \in Ptgrep!Thread : lines[t] = <<>>
    /\ Pipe!Init /\ (program # "pipe" => ends_of = "pipe")
    /\ DropPrivileges!Init /\ (program # "drop" => correct /\ ruid = 0 /\ euid = 0)

\* The programs that do not run do not change.
Frame ==
    /\ UNCHANGED program
    /\ program # "siglogd" => UNCHANGED siglogd
    /\ program # "sigcalc" => UNCHANGED sigcalc
    /\ program # "sigwait" => UNCHANGED sigwait
    /\ program # "syscount" => UNCHANGED syscount
    /\ program # "tasks" => UNCHANGED tasks
    /\ program # "copy" => UNCHANGED copy
    /\ program # "werecat" => UNCHANGED vars
    /\ program # "shm" => UNCHANGED shm
    /\ program # "ptgrep" => UNCHANGED ptgrep
    /\ program # "pipe" => UNCHANGED pipes
    /\ program # "drop" => UNCHANGED drop

ProcessesNext ==
    \/ program = "siglogd" /\ Siglogd!Next /\ Frame
    \/ program = "sigcalc" /\ Sigcalc!Next /\ Frame
    \/ program = "sigwait" /\ SigWait!Next /\ Frame
    \/ program = "syscount" /\ Syscount!Next /\ Frame
    \/ program = "tasks" /\ Tasks!Next /\ Frame
    \/ program = "copy" /\ Copy!Next /\ Frame
    \/ program = "werecat" /\ Next /\ Frame
    \/ program = "shm" /\ Shm!Next /\ Frame
    \/ program = "ptgrep" /\ Ptgrep!Next /\ Frame
    \/ program = "pipe" /\ Pipe!Next /\ Frame
    \/ program = "drop" /\ DropPrivileges!Next /\ Frame

\* A process that can run is scheduled, and a signal that can be delivered again
\* and again is: an alarm takes at least a second, so its SIGALRM cannot keep the
\* others away.  Nobody has to send anything, and no alarm has to end.
ProcessesSpec ==
    /\ ProcessesInit /\ [][ProcessesNext]_all
    /\ WF_siglogd(program = "siglogd" /\ Siglogd!DaemonRuns)
    /\ \A s \in Siglogd!Signals :
         SF_siglogd(program = "siglogd" /\ Siglogd!Deliver(s))
    /\ \A p \in Users \cup Stoppers : WF_shm(program = "shm" /\ Shm!Runs(p))
    /\ \A t \in Ptgrep!Thread : WF_ptgrep(program = "ptgrep" /\ Ptgrep!ThreadRuns(t))
    /\ WF_ptgrep(program = "ptgrep" /\ Ptgrep!MainRuns)
    /\ \A p \in Pipe!Process : WF_pipes(program = "pipe" /\ Pipe!Runs(p))

-----------------------------------------------------------------------------

\* shm, mmap: --stop ends those that show the message.
StopEnds == program = "shm" => Shm!StopEnds

\* ptgrep: on a terminal the program ends, with the right status.
EndsWithResult == program = "ptgrep" => Ptgrep!EndsWithResult

\* child, dup, pipe: the reader gets everything and the end of file, and both end.
PipeEnds == program = "pipe" => Pipe!PipeEnds
=============================================================================
