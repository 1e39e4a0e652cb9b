-------------------------------- MODULE Heap --------------------------------
(***************************************************************************)
(* The allocator of hw03 and the list of ex09 side by side, each with      *)
(* variables of its own, and what is required of them.                     *)
(***************************************************************************)
EXTENDS Integers, Sequences, FiniteSets

CONSTANTS
    Blocks, Sizes, Nums, Limits, Word, MaxCalls,    \* of Memgrind
    Nodes, Values,                                  \* of List
    NONE                                            \* no call, and no node

\* NULL is no address that malloc gives.
ASSUME ListAssumption == NONE \notin Nodes

VARIABLES
    phase, guard, settings, used, freed, allocs, deallocs, errors, declined,
    owner, header, blockSize, length, call, calls, overshot,
    head, tail, list_size, link, value, allocated

memgrind == <<phase, guard, settings, used, freed, allocs, deallocs, errors, declined,
              owner, header, blockSize, length, call, calls, overshot>>
list == <<head, tail, list_size, link, value, allocated>>

Memgrind == INSTANCE Memgrind
List == INSTANCE List WITH next <- link, size <- list_size, NULL <- NONE

-----------------------------------------------------------------------------

\* hw03: what library_destroy reports as lost is what the program still has.
LeaksReported == Memgrind!LeaksReported

\* hw03: the program makes no more allocations, and, as long as no calloc was judged by
\* one of several elements, has no more bytes and no longer block than the MEMGRIND_
\* variables allow (can_alloc).
LimitsHold == Memgrind!LimitsHold

\* ex09: the list behaves as a sequence, without leaks (list_push, list_pop).
IsSequence == List!IsSequence
=============================================================================
