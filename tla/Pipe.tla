-------------------------------- MODULE Pipe --------------------------------
(***************************************************************************)
(* Two processes and a pipe, in ex10: child.c, where the parent writes to  *)
(* its child, dup.c, where it reads what ls writes, and pipe.c, which runs *)
(* two programs, the child writing to the pipe and the parent reading from *)
(* it.  The bytes are numbered as they are written.                        *)
(***************************************************************************)
EXTENDS Naturals, Sequences

CONSTANTS
    Capacity,     \* of the pipe
    MaxWritten    \* bound: bytes written

VARIABLES
    file,         \* "child", "dup" or "pipe"
    pc,           \* of "writer" and of "reader"
    open,         \* the descriptors of a process that are ends of the pipe
    pipe,         \* the bytes in it
    written,      \* how many have been written
    received,     \* those that were read
    eof           \* the reader has seen the end

vars == <<file, pc, open, pipe, written, received, eof>>

Process == {"writer", "reader"}
Parent == IF file = "child" THEN "writer" ELSE "reader"

\* A process that becomes another program with a standard stream of the pipe.
Execs(p) == file = "pipe" \/ (file = "dup" /\ p = "writer")
Stream(p) == IF p = "writer" THEN "stdout" ELSE "stdin"

\* Some process can still write to, or read from, the pipe.
CanWrite == \E p \in Process : open[p] \cap {"pipefd[1]", "stdout"} # {}
CanRead == \E p \in Process : open[p] \cap {"pipefd[0]", "stdin"} # {}

Init ==
    /\ file \in {"child", "dup", "pipe"}
    /\ pc = [p \in Process |-> IF p = Parent THEN "main" ELSE "none"]
    /\ open = [p \in Process |-> {}]
    /\ pipe = <<>> /\ written = 0 /\ received = <<>> /\ eof = FALSE

Goto(p, place) == pc' = [pc EXCEPT ![p] = place]

\* A process ends, and its descriptors are closed.
Exit(p) == Goto(p, "exit") /\ open' = [open EXCEPT ![p] = {}]

-----------------------------------------------------------------------------
(* main *)

\* There is no ":" between the two programs of pipe.c, or a calloc fails.
SplitFails ==
    /\ file = "pipe" /\ pc[Parent] = "main"
    /\ pc' = [p \in Process |-> "exit"]
    /\ UNCHANGED <<file, open, pipe, written, received, eof>>

\* pipe (tested in child.c only) or fork fails.
MainFails ==
    /\ pc[Parent] = "main"
    /\ pc' = [p \in Process |-> "exit"]
    /\ UNCHANGED <<file, open, pipe, written, received, eof>>

\* pipe and fork: both processes have both ends.
Fork ==
    /\ pc[Parent] = "main"
    /\ pc' = [p \in Process |-> "close"]
    /\ open' = [p \in Process |-> {"pipefd[0]", "pipefd[1]"}]
    /\ UNCHANGED <<file, pipe, written, received, eof>>

-----------------------------------------------------------------------------
(* child and parent *)

\* Variant: the reader keeps its writing end.
KeepOther(p) ==
    /\ pc[p] = "close"
    /\ Goto(p, IF Execs(p) THEN "dup2" ELSE "run")
    /\ UNCHANGED <<file, open, pipe, written, received, eof>>

\* "we don't need the writing handle"
CloseOther(p) ==
    /\ pc[p] = "close"
    /\ open' = [open EXCEPT ![p] = @ \ {IF p = "writer" THEN "pipefd[0]" ELSE "pipefd[1]"}]
    /\ Goto(p, IF Execs(p) THEN "dup2" ELSE "run")
    /\ UNCHANGED <<file, pipe, written, received, eof>>

Dup2(p) ==
    /\ pc[p] = "dup2"
    /\ open' = [open EXCEPT ![p] = @ \cup {Stream(p)}]
    /\ Goto(p, "exec")
    /\ UNCHANGED <<file, pipe, written, received, eof>>

Exec(p) ==
    /\ pc[p] = "exec"
    /\ Goto(p, "run")
    /\ UNCHANGED <<file, open, pipe, written, received, eof>>

\* err(EXIT_FAILURE, ...) after dup2 or exec.
Err(p) ==
    /\ pc[p] \in {"dup2", "exec"}
    /\ Exit(p)
    /\ UNCHANGED <<file, pipe, written, received, eof>>

\* A write that fits the pipe; in child.c it is the only one.  Without a reader
\* SIGPIPE ends the writer.
Write ==
    /\ pc["writer"] = "run" /\ written < MaxWritten
    /\ IF CanRead
       THEN /\ Len(pipe) < Capacity
            /\ written' = written + 1
            /\ pipe' = Append(pipe, written + 1)
            /\ IF file = "child" THEN Goto("writer", "close_end") ELSE UNCHANGED pc
            /\ UNCHANGED open
       ELSE Exit("writer") /\ UNCHANGED <<written, pipe>>
    /\ UNCHANGED <<file, received, eof>>

\* A program that another process became ends when it likes.
ProgramEnds(p) ==
    /\ pc[p] = "run" /\ Execs(p)
    /\ Exit(p)
    /\ UNCHANGED <<file, pipe, written, received, eof>>

\* read returns a byte, or 0 when nobody can write: the loop ends.
Read ==
    /\ pc["reader"] = "run" /\ ~eof
    /\ \/ /\ pipe # <<>>
          /\ received' = Append(received, Head(pipe))
          /\ pipe' = Tail(pipe)
          /\ UNCHANGED <<pc, eof>>
       \/ /\ pipe = <<>> /\ ~CanWrite
          /\ eof' = TRUE
          /\ IF file = "pipe" THEN UNCHANGED pc ELSE Goto("reader", "close_end")
          /\ UNCHANGED <<received, pipe>>
    /\ UNCHANGED <<file, open, written>>

\* The process closes the end it has used; the parent then waits.
CloseEnd(p) ==
    /\ pc[p] = "close_end"
    /\ open' = [open EXCEPT ![p] = {}]
    /\ Goto(p, IF p = Parent THEN "wait" ELSE "exit")
    /\ UNCHANGED <<file, pipe, written, received, eof>>

\* wait(NULL) returns when the child has ended.
Wait ==
    /\ pc[Parent] = "wait" /\ \A p \in Process \ {Parent} : pc[p] = "exit"
    /\ Exit(Parent)
    /\ UNCHANGED <<file, pipe, written, received, eof>>

Runs(p) ==
    \/ p = Parent /\ (SplitFails \/ MainFails \/ Fork \/ Wait)
    \/ CloseOther(p) \/ Dup2(p) \/ Exec(p) \/ Err(p) \/ ProgramEnds(p) \/ CloseEnd(p)
    \/ p = "writer" /\ Write
    \/ p = "reader" /\ Read

Next == \E p \in Process : Runs(p)

Spec == Init /\ [][Next]_vars /\ \A p \in Process : WF_vars(Runs(p))

-----------------------------------------------------------------------------
(* Properties *)

\* A reader that sees the end of file has received all that was written, in order: nobody
\* writes any more.
AllReceived == eof => received = [n \in 1..written |-> n]

\* Both processes end, whatever call fails and whichever of them is first: the reader
\* sees the end of file because no process, itself included, has kept the writing end,
\* and then it has received all that was written, in order.  Only a program run by
\* pipe.c may stop reading before, and its writer ends too.
PipeEnds ==
    <>[](/\ \A p \in Process : pc[p] = "exit" /\ open[p] = {}
         /\ AllReceived
         /\ written > 0 /\ file # "pipe" => eof)
=============================================================================
