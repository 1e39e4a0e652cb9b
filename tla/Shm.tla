-------------------------------- MODULE Shm --------------------------------
(***************************************************************************)
(* shm.c and mmap.c of ex13: processes show a message from memory that     *)
(* they share under a name, until one called with --stop sets the first    *)
(* byte of that memory and removes the name.  Under the name of shm.c (a   *)
(* key) is a segment, under that of mmap.c (a path) a file; both are called*)
(* objects here, and a new one is full of zeros.  A removed object lives   *)
(* on while somebody uses it.  The message itself is left out.             *)
(***************************************************************************)
EXTENDS Integers

CONSTANTS
    Users, Stoppers,     \* processes without and with --stop
    MaxObjects           \* bound: objects that are ever made

Processes == Users \cup Stoppers

\* Objects are numbered from 1 as they are made.
NoObject == 0

VARIABLES
    file,          \* "shm" or "mmap"
    name,          \* the object under the name, or NoObject
    made,          \* the number of objects so far
    stop,          \* those with *mem # 0
    shmid,         \* the object a process has found (shmid, or fd)
    attached,      \* the processes with mem
    shared,        \* those that have LOCK_SH
    exclusive,     \* those that have LOCK_EX
    overlapped,    \* two processes with --stop were at work at the same time
    pc

vars == <<file, name, made, stop, shmid, attached, shared, exclusive, overlapped, pc>>

Init ==
    /\ file \in {"shm", "mmap"}
    /\ name = NoObject /\ made = 0 /\ stop = {}
    /\ shmid = [p \in Processes |-> NoObject]
    /\ attached = {} /\ shared = {} /\ exclusive = {}
    /\ overlapped = FALSE
    /\ pc = [p \in Processes |-> IF file = "shm" THEN "shmget" ELSE "open"]

Goto(p, place) == pc' = [pc EXCEPT ![p] = place]

\* The processes that have the object of p mapped.
Sharing(p) == {q \in attached : shmid[q] = shmid[p]}

\* p now has the object o; overlapped is kept for the stoppers.
Found(p, o) ==
    /\ shmid' = [shmid EXCEPT ![p] = o]
    /\ overlapped' =
         \/ overlapped
         \/ p \in Stoppers /\ \E q \in Stoppers \ {p} : shmid[q] # NoObject /\ pc[q] # "exit"

Makes(p) ==
    /\ made < MaxObjects
    /\ made' = made + 1 /\ name' = made'
    /\ Found(p, made')

\* An error ends the process; one of flock by way of munmap.
Fails(p) ==
    /\ \/ pc[p] \in {"shmget", "shmget2", "shmat", "open", "mmap"} /\ Goto(p, "exit")
       \/ pc[p] \in {"lock_ex", "lock_sh", "unlock"} /\ Goto(p, "detach")
    /\ UNCHANGED <<file, name, made, stop, shmid, attached, shared, exclusive, overlapped>>

-----------------------------------------------------------------------------
(* shm.c *)

\* shmget with IPC_CREAT | IPC_EXCL.
Create(p) ==
    /\ pc[p] = "shmget"
    /\ \/ name = NoObject /\ Makes(p) /\ Goto(p, "shmat")
       \/ name # NoObject /\ Goto(p, "shmget2") /\ UNCHANGED <<name, made, shmid, overlapped>>
    /\ UNCHANGED <<file, stop, attached, shared, exclusive>>

\* shmget of what exists; it may be gone by now.
Access(p) ==
    /\ pc[p] = "shmget2"
    /\ \/ name # NoObject /\ Found(p, name) /\ Goto(p, "shmat")
       \/ name = NoObject /\ Goto(p, "exit") /\ UNCHANGED <<shmid, overlapped>>
    /\ UNCHANGED <<file, name, made, stop, attached, shared, exclusive>>

\* shmat fails for a segment that was removed and that nobody uses any more.
Shmat(p) ==
    /\ pc[p] = "shmat"
    /\ \/ /\ name = shmid[p] \/ Sharing(p) # {}
          /\ attached' = attached \cup {p}
          /\ Goto(p, IF p \in Stoppers THEN "remove" ELSE "look")
       \/ /\ name # shmid[p] /\ Sharing(p) = {}
          /\ attached' = attached
          /\ Goto(p, "exit")
    /\ UNCHANGED <<file, name, made, stop, shmid, shared, exclusive, overlapped>>

\* Variant: the segment that has the key now is removed.
RmidByKey(p) ==
    /\ file = "shm" /\ pc[p] = "remove"
    /\ name' = NoObject
    /\ Goto(p, "set")
    /\ UNCHANGED <<file, made, stop, shmid, attached, shared, exclusive, overlapped>>

\* shmctl with IPC_RMID.  When it fails, or this segment is removed already, it changes
\* nothing, and main goes on.
Rmid(p) ==
    /\ file = "shm" /\ pc[p] = "remove"
    /\ \/ name = shmid[p] /\ name' = NoObject
       \/ UNCHANGED name
    /\ Goto(p, "set")
    /\ UNCHANGED <<file, made, stop, shmid, attached, shared, exclusive, overlapped>>

-----------------------------------------------------------------------------
(* mmap.c *)

\* open with O_CREAT.
Open(p) ==
    /\ pc[p] = "open"
    /\ \/ name = NoObject /\ Makes(p)
       \/ name # NoObject /\ Found(p, name) /\ UNCHANGED <<name, made>>
    /\ Goto(p, "mmap")
    /\ UNCHANGED <<file, stop, attached, shared, exclusive>>

\* ftruncate, which changes nothing in a file that has its length, and mmap.
Mmap(p) ==
    /\ pc[p] = "mmap"
    /\ attached' = attached \cup {p}
    /\ Goto(p, IF p \in Stoppers THEN "lock_ex" ELSE "lock_sh")
    /\ UNCHANGED <<file, name, made, stop, shmid, shared, exclusive, overlapped>>

LockEx(p) ==
    /\ pc[p] = "lock_ex"
    /\ Sharing(p) \cap (shared \cup exclusive) = {}
    /\ exclusive' = exclusive \cup {p}
    /\ Goto(p, "set")
    /\ UNCHANGED <<file, name, made, stop, shmid, attached, shared, overlapped>>

LockSh(p) ==
    /\ pc[p] = "lock_sh"
    /\ Sharing(p) \cap exclusive = {}
    /\ shared' = shared \cup {p}
    /\ Goto(p, "look")
    /\ UNCHANGED <<file, name, made, stop, shmid, attached, exclusive, overlapped>>

\* flock with LOCK_UN, and sleep.
Unlock(p) ==
    /\ pc[p] = "unlock"
    /\ shared' = shared \ {p} /\ exclusive' = exclusive \ {p}
    /\ Goto(p, IF p \in Stoppers THEN "remove" ELSE "lock_sh")
    /\ UNCHANGED <<file, name, made, stop, shmid, attached, overlapped>>

\* remove of the path, whatever file it names now; it may fail.
Remove(p) ==
    /\ file = "mmap" /\ pc[p] = "remove"
    /\ name' \in {NoObject, name}
    /\ Goto(p, "detach")
    /\ UNCHANGED <<file, made, stop, shmid, attached, shared, exclusive, overlapped>>

-----------------------------------------------------------------------------
(* Both *)

\* *mem = 1.
SetStop(p) ==
    /\ pc[p] = "set"
    /\ stop' = stop \cup {shmid[p]}
    /\ Goto(p, IF file = "shm" THEN "detach" ELSE "unlock")
    /\ UNCHANGED <<file, name, made, shmid, attached, shared, exclusive, overlapped>>

\* Variant: mmap.c does not test *mem.
LookWithoutTest(p) ==
    /\ pc[p] = "look"
    /\ \/ shmid[p] \in stop /\ file = "shm" /\ Goto(p, "detach")
       \/ file = "mmap" /\ Goto(p, "unlock")
       \/ shmid[p] \notin stop /\ file = "shm" /\ pc' = pc
    /\ UNCHANGED <<file, name, made, stop, shmid, attached, shared, exclusive, overlapped>>

\* The message is shown, and *mem tested; the loop of shm.c sleeps and comes back here.
Look(p) ==
    /\ pc[p] = "look"
    /\ \/ shmid[p] \in stop /\ Goto(p, "detach")
       \/ shmid[p] \notin stop /\ file = "mmap" /\ Goto(p, "unlock")
       \/ shmid[p] \notin stop /\ file = "shm" /\ pc' = pc
    /\ UNCHANGED <<file, name, made, stop, shmid, attached, shared, exclusive, overlapped>>

\* shmdt, or munmap and close, which releases the lock.
Detach(p) ==
    /\ pc[p] = "detach"
    /\ attached' = attached \ {p}
    /\ shared' = shared \ {p} /\ exclusive' = exclusive \ {p}
    /\ Goto(p, "exit")
    /\ UNCHANGED <<file, name, made, stop, shmid, overlapped>>

\* What a process does once it has begun.
Runs(p) ==
    \/ Access(p) \/ Shmat(p) \/ Rmid(p)
    \/ Mmap(p) \/ LockEx(p) \/ LockSh(p) \/ Unlock(p) \/ Remove(p)
    \/ SetStop(p) \/ Look(p) \/ Detach(p)

Next == \E p \in Processes : Create(p) \/ Open(p) \/ Fails(p) \/ Runs(p)

\* A process that has begun is scheduled.  Nothing is assumed of the exclusive lock:
\* processes that share it in turns may keep others from it.
Spec == Init /\ [][Next]_vars /\ \A p \in Processes : WF_vars(Runs(p))

-----------------------------------------------------------------------------

\* A process that shows the message can be stopped: its memory is what the name leads
\* to, or is marked, or a process with --stop has it and will mark it.  Two of those
\* at the same time do no harm to shm.c, which removes by identifier, but mmap.c
\* removes by name and may hit a newer file (main).
StopReaches ==
    (file = "mmap" => ~overlapped) =>
        \A p \in Users \cap attached :
            \/ name = shmid[p]
            \/ shmid[p] \in stop
            \/ \E s \in Stoppers \cap Sharing(p) : pc[s] \in {"remove", "set"}

\* When a process with --stop comes to marking the memory, every process that shows the
\* message from it ends (main).
StopEnds ==
    \A s \in Stoppers, p \in Users :
        (pc[s] = "set" /\ p \in Sharing(s)) ~> pc[p] = "exit"
=============================================================================
