---------------------------- MODULE BoundedFifo ----------------------------
(***************************************************************************)
(* What queue.h promises of the storage behind a queue: a first-in         *)
(* first-out sequence of at most Capacity elements, and an abort flag that *)
(* is raised and never lowered.  Who waits for what is not part of it.     *)
(***************************************************************************)
EXTENDS Naturals, Sequences

CONSTANTS Elements, Capacity

VARIABLES contents, stopped

fifoVars == <<contents, stopped>>

FifoInit == contents = << >> /\ stopped = FALSE

Enqueue(e) ==
    /\ Len(contents) < Capacity
    /\ contents' = Append(contents, e)
    /\ UNCHANGED stopped

Dequeue ==
    /\ contents # << >>
    /\ contents' = Tail(contents)
    /\ UNCHANGED stopped

Stop == stopped' = TRUE /\ UNCHANGED contents

FifoNext ==
    \/ \E e \in Elements : Enqueue(e)
    \/ Dequeue
    \/ Stop

FifoSpec == FifoInit /\ [][FifoNext]_fifoVars
=============================================================================
