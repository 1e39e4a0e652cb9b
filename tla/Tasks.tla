------------------------------- MODULE Tasks -------------------------------
(***************************************************************************)
(* tasks.c of ex05: one child for every line of the input, all of which    *)
(* are waited for at the end; their process numbers are kept in the array  *)
(* of dynarray.c, which grows.  A child is the number of its line.  A      *)
(* write outside what realloc gave is undefined: here it only shows in     *)
(* outside, and the element is lost.                                       *)
(***************************************************************************)
EXTENDS Integers, Sequences

CONSTANTS
    START_CAPACITY,
    MaxLines         \* bound: lines of the input

VARIABLES
    capacity, size, array,     \* array_state; array is what it holds, by position
    memory,                    \* the elements realloc gave room for
    refused,                   \* realloc has returned NULL
    outside,                   \* something was written beyond memory
    forked,                    \* the children so far
    running, waited,           \* children
    pc, i, status

vars == <<capacity, size, array, memory, refused, outside, forked, running, waited, pc, i,
          status>>

dynarray == <<capacity, size, array, memory, refused, outside>>

Init ==
    /\ capacity = 0 /\ size = 0 /\ array = <<>> /\ memory = 0
    /\ refused = FALSE /\ outside = FALSE
    /\ forked = 0 /\ running = {} /\ waited = {}
    /\ pc = "getline" /\ i = 0 /\ status = "none"

-----------------------------------------------------------------------------
(* dynarray.c *)

Doubled == IF capacity = 0 THEN START_CAPACITY ELSE 2 * capacity

\* Variant: the array grows when position is beyond capacity.
MustExpandBeyond == capacity = 0 \/ size > capacity

\* push_loc, where position is size: whether expand is called.  With a capacity of 0
\* the first test calls it, after which the second cannot hold.
MustExpand == capacity = 0 \/ size = capacity

\* array[position] = value, with room for n elements.
Store(value, n) ==
    /\ size' = size + 1
    /\ array' = Append(array, IF size < n THEN value ELSE 0)
    /\ outside' = (outside \/ size >= n)

add(value) ==
    \/ /\ ~MustExpand
       /\ Store(value, memory)
       /\ UNCHANGED <<capacity, memory, refused>>
    \/ /\ MustExpand
       /\ capacity' = Doubled /\ memory' = Doubled
       /\ Store(value, memory')
       /\ UNCHANGED refused
    \/ /\ MustExpand                    \* expand fails, with the capacity raised
       /\ capacity' = Doubled
       /\ refused' = TRUE
       /\ UNCHANGED <<size, array, memory, outside>>

-----------------------------------------------------------------------------
(* main *)

\* A line, and fork in the parent.
Fork ==
    /\ pc = "getline" /\ forked < MaxLines
    /\ forked' = forked + 1
    /\ running' = running \cup {forked'}
    /\ add(forked')
    /\ UNCHANGED <<waited, pc, i, status>>

ForkFails ==
    /\ pc = "getline" /\ forked < MaxLines
    /\ pc' = "exit" /\ status' = "EXIT_FAILURE"
    /\ UNCHANGED <<dynarray, forked, running, waited, i>>

\* The child's execv replaces it or fails; either way it ends some time.
ChildEnds(c) ==
    /\ c \in running
    /\ running' = running \ {c}
    /\ UNCHANGED <<dynarray, forked, waited, pc, i, status>>

\* Without a line pid is not initialised, and the test of it may go either way: the
\* array is empty then.
EndOfInput ==
    /\ pc = "getline"
    /\ pc' = "wait" /\ i' = 0
    /\ UNCHANGED <<dynarray, forked, running, waited, status>>

\* waitpid sleeps until this child has ended; 0, which stands for any value found
\* where nothing was stored, is no child.
Wait ==
    /\ pc = "wait" /\ i < size
    /\ array[i + 1] \notin running
    /\ waited' = waited \cup {array[i + 1]}
    /\ i' = i + 1
    /\ UNCHANGED <<dynarray, forked, running, pc, status>>

Return ==
    /\ pc = "wait" /\ i = size
    /\ pc' = "exit" /\ status' = "EXIT_SUCCESS"
    /\ UNCHANGED <<dynarray, forked, running, waited, i>>

Next ==
    \/ Fork \/ ForkFails \/ EndOfInput \/ Wait \/ Return
    \/ \E c \in running : ChildEnds(c)

Spec == Init /\ [][Next]_vars

-----------------------------------------------------------------------------

\* Unless realloc has failed, no element is written outside the array, at none of the
\* sizes at which it grows, and main returns when every child has ended and was waited
\* for (push_loc, expand, main).
ChildrenReaped ==
    ~refused =>
        /\ ~outside
        /\ status = "EXIT_SUCCESS" => running = {} /\ waited = 1..forked
=============================================================================
