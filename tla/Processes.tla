----------------------------- MODULE Processes -----------------------------
(***************************************************************************)
(* tasks.c and drop.c of ex05 and the programs of ex13 with shared         *)
(* memory side by side, each with variables of its own, and what is        *)
(* required of them.                                                       *)
(***************************************************************************)
EXTENDS Integers, Sequences, FiniteSets

CONSTANTS
    START_CAPACITY, MaxLines,               \* of Tasks
    Users, Stoppers, MaxObjects,            \* of Shm
    Uids                                    \* of DropPrivileges

VARIABLES
    capacity, size, array, memory, refused, outside, children, running, waited, tasks_pc, line,
    tasks_status,
    kind, name, made, stop, shmid, attached, shared, exclusive, stops_overlapped, shm_pc,
    correct, ruid, euid, suid, old_euid, drop_pc

tasks == <<capacity, size, array, memory, refused, outside, children, running, waited, tasks_pc,
           line, tasks_status>>
shm == <<kind, name, made, stop, shmid, attached, shared, exclusive, stops_overlapped, shm_pc>>
drop == <<correct, ruid, euid, suid, old_euid, drop_pc>>

Tasks == INSTANCE Tasks WITH
    forked <- children, pc <- tasks_pc, i <- line, status <- tasks_status
Shm == INSTANCE Shm WITH file <- kind, overlapped <- stops_overlapped, pc <- shm_pc
DropPrivileges == INSTANCE DropPrivileges WITH pc <- drop_pc

-----------------------------------------------------------------------------

\* tasks: every child is waited for, and the array of their numbers grows in time.
ChildrenReaped == Tasks!ChildrenReaped

\* shm, mmap: whoever shows the message can be stopped.
StopReaches == Shm!StopReaches

\* drop: what is reported to be dropped cannot be had back.
DroppedForGood == DropPrivileges!DroppedForGood
=============================================================================
