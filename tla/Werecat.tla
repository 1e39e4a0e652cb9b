------------------------------ MODULE Werecat ------------------------------
(***************************************************************************)
(* werecat.c of ex11: pipes are watched with poll, and what comes from any *)
(* of them is written to the standard output.  Writers write to the pipes  *)
(* and close them at any moment, also between poll and the reads; a pipe   *)
(* that its last writer has closed is not opened for writing again.        *)
(***************************************************************************)
EXTENDS Integers

CONSTANTS
    Pipes,         \* argc - 1, at most 9
    BUFFER_SIZE,
    MaxBytes       \* bound: what is written to a pipe

ASSUME PipesAssumption == Pipes \in Nat \ {0}
ASSUME SizesAssumption == BUFFER_SIZE \in Nat \ {0} /\ MaxBytes \in Nat

VARIABLES
    written,     \* the bytes ever written to a pipe
    taken,       \* those that werecat has read
    output,      \* those that it has written
    closed,      \* the pipes without a writer
    fds,         \* the pipes whose fd is not -1
    revents,     \* what poll said of every pipe
    i, rd,
    failed,      \* wt < 0
    pc

vars == <<written, taken, output, closed, fds, revents, i, rd, failed, pc>>

Index == 1..Pipes

Smaller(m, n) == IF m < n THEN m ELSE n

Init ==
    /\ written = [p \in Index |-> 0]
    /\ taken = [p \in Index |-> 0]
    /\ output = [p \in Index |-> 0]
    /\ closed = {} /\ fds = Index
    /\ revents = [p \in Index |-> {}]
    /\ i = 1 /\ rd = 0 /\ failed = FALSE
    /\ pc = "poll"

-----------------------------------------------------------------------------
(* The writers *)

WriterWrites(p) ==
    /\ p \notin closed /\ written[p] < MaxBytes
    /\ written' = [written EXCEPT ![p] = @ + 1]
    /\ UNCHANGED <<taken, output, closed, fds, revents, i, rd, failed, pc>>

WriterCloses(p) ==
    /\ p \notin closed
    /\ closed' = closed \cup {p}
    /\ UNCHANGED <<written, taken, output, fds, revents, i, rd, failed, pc>>

-----------------------------------------------------------------------------
(* main *)

Events(p) ==
    {e \in {"POLLIN", "POLLHUP"} :
        \/ e = "POLLIN" /\ taken[p] < written[p]
        \/ e = "POLLHUP" /\ p \in closed}

\* poll sleeps until something has happened; descriptors -1 have no events.
Poll ==
    /\ pc = "poll"
    /\ \E p \in fds : Events(p) # {}
    /\ revents' = [p \in Index |-> IF p \in fds THEN Events(p) ELSE {}]
    /\ i' = 1 /\ pc' = "fd"
    /\ UNCHANGED <<written, taken, output, closed, fds, rd, failed>>

\* A signal ends poll, and main.
PollFails ==
    /\ pc = "poll"
    /\ pc' = "exit"
    /\ UNCHANGED <<written, taken, output, closed, fds, revents, i, rd, failed>>

TestPollin ==
    /\ pc = "fd"
    /\ pc' = IF "POLLIN" \in revents[i] THEN "read" ELSE "hangup"
    /\ UNCHANGED <<written, taken, output, closed, fds, revents, i, rd, failed>>

ReadSome ==
    /\ pc = "read" /\ ~failed /\ taken[i] < written[i]
    /\ \E n \in 1..Smaller(BUFFER_SIZE, written[i] - taken[i]) :
         /\ rd' = n
         /\ taken' = [taken EXCEPT ![i] = @ + n]
    /\ pc' = "write"
    /\ UNCHANGED <<written, output, closed, fds, revents, i, failed>>

\* A write has failed before, or the pipe is empty: read returns -1 with EAGAIN,
\* or 0 if the writer has closed it.
ReadNothing ==
    /\ pc = "read" /\ (failed \/ taken[i] = written[i])
    /\ pc' = "hangup"
    /\ UNCHANGED <<written, taken, output, closed, fds, revents, i, rd, failed>>

\* Variant: one read for every POLLIN.
WriteReadOnce ==
    /\ pc = "write"
    /\ \E n \in 1..rd :
         /\ output' = [output EXCEPT ![i] = @ + n]
         /\ rd' = rd - n
         /\ pc' = IF n = rd THEN "hangup" ELSE "write"
    /\ UNCHANGED <<written, taken, closed, fds, revents, i, failed>>

Write ==
    /\ pc = "write"
    /\ \E n \in 1..rd :
         /\ output' = [output EXCEPT ![i] = @ + n]
         /\ rd' = rd - n
         /\ pc' = IF n = rd THEN "read" ELSE "write"
    /\ UNCHANGED <<written, taken, closed, fds, revents, i, failed>>

\* wt stays negative, so nothing is read any more.
WriteFails ==
    /\ pc = "write"
    /\ failed' = TRUE
    /\ pc' = "hangup"
    /\ UNCHANGED <<written, taken, output, closed, fds, revents, i, rd>>

\* Nothing is done for POLLOUT; a pipe open for reading has neither POLLERR nor
\* POLLNVAL.
Hangup ==
    /\ pc = "hangup"
    /\ fds' = IF "POLLHUP" \in revents[i] THEN fds \ {i} ELSE fds
    /\ IF i = Pipes
       THEN pc' = "poll" /\ i' = i
       ELSE pc' = "fd" /\ i' = i + 1
    /\ UNCHANGED <<written, taken, output, closed, revents, rd, failed>>

Next ==
    \/ \E p \in Index : WriterWrites(p) \/ WriterCloses(p)
    \/ Poll \/ PollFails \/ TestPollin
    \/ ReadSome \/ ReadNothing \/ Write \/ WriteFails \/ Hangup

Spec == Init /\ [][Next]_vars

-----------------------------------------------------------------------------

TypeOK ==
    /\ written \in [Index -> Nat] /\ taken \in [Index -> Nat] /\ output \in [Index -> Nat]
    /\ closed \subseteq Index /\ fds \subseteq Index
    /\ revents \in [Index -> SUBSET {"POLLIN", "POLLHUP"}]
    /\ i \in Index /\ rd \in Nat /\ failed \in BOOLEAN
    /\ pc \in {"poll", "fd", "read", "write", "hangup", "exit"}

\* A pipe is given up only when all that was ever written to it is out, although
\* POLLIN and POLLHUP may come together and revents is old when it is looked at;
\* the exception is an output that has failed (the loop over fds).
NothingDropped ==
    \A p \in Index \ fds : ~failed => output[p] = written[p]
=============================================================================
