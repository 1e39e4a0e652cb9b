------------------------------ MODULE Memgrind ------------------------------
(***************************************************************************)
(* hw03/libmemgrind.c: a preloaded library that replaces the allocation    *)
(* functions of a program.  Every block it hands out is preceded by a      *)
(* service block with its size.  While libc_guard is set, calls go         *)
(* straight to the real functions: so do those that syslog, which the      *)
(* library calls all the time, makes.                                      *)
(*                                                                         *)
(* A call is two steps, entering the guarded space and the rest, so that   *)
(* the allocations of syslog come in between.  The program has one thread. *)
(***************************************************************************)
EXTENDS Integers, FiniteSets

CONSTANTS
    Blocks,      \* the addresses the real functions give
    Sizes,       \* the sizes the program asks for
    Nums,        \* the first argument of calloc
    Limits,      \* the numbers in the MEMGRIND_ variables
    Word,        \* 2^64: how many values a size_t has
    MaxCalls,    \* bound on the calls of the program
    NONE

Settings == {"mem_max", "alloc_max", "alloc_count"}

VARIABLES
    phase,        \* "unloaded", "running", "exited" (by _Exit), "destroyed", "crashed"
    guard,        \* libc_guard
    settings,     \* allocation_setting
    used, freed, allocs, deallocs, errors, declined,    \* statistics
    owner,        \* who has a block: "nobody", "program" or "syslog"
    header,       \* whether the block begins with a service block
    blockSize,    \* struct service_info of a block
    length,       \* the size the program may use
    call,         \* the call in guarded space, or NONE
    calls,        \* how many calls the program has made
    overshot      \* whether a calloc was granted more than can_alloc was asked about

stats == <<used, freed, allocs, deallocs, errors, declined>>
heap == <<owner, header, blockSize, length>>
vars == <<phase, guard, settings, stats, heap, call, calls, overshot>>

Init ==
    /\ phase = "unloaded" /\ guard = TRUE
    /\ settings = [v \in Settings |-> 0]
    /\ used = 0 /\ freed = 0 /\ allocs = 0 /\ deallocs = 0
    /\ errors = 0 /\ declined = 0
    /\ owner = [b \in Blocks |-> "nobody"]
    /\ header = [b \in Blocks |-> FALSE]
    /\ blockSize = [b \in Blocks |-> 0]
    /\ length = [b \in Blocks |-> 0]
    /\ call = NONE /\ calls = 0 /\ overshot = FALSE

Held(who) == {b \in Blocks : owner[b] = who}

-----------------------------------------------------------------------------
(* library_init and library_destroy *)

\* get_value returns -1 as a size_t, no limit, for a variable that is not set.
get_value(value) == value % Word

Environments == [Settings -> Limits \cup {-1}]

library_init ==
    /\ phase = "unloaded"
    /\ \E env \in Environments : settings' = [v \in Settings |-> get_value(env[v])]
    /\ phase' = "running"
    /\ guard' = FALSE
    /\ UNCHANGED <<stats, heap, call, calls, overshot>>

\* A log level or a number that does not parse, or a negative number: _Exit.
InitExits ==
    /\ phase = "unloaded"
    /\ phase' = "exited"
    /\ UNCHANGED <<guard, settings, stats, heap, call, calls, overshot>>

\* The guard goes up for good.
library_destroy ==
    /\ phase = "running"
    /\ call = NONE
    /\ phase' = "destroyed"
    /\ guard' = TRUE
    /\ UNCHANGED <<settings, stats, heap, call, calls, overshot>>

-----------------------------------------------------------------------------
(* Calls while libc_guard is set *)

GuardedMalloc(b, who) ==
    /\ guard
    /\ owner[b] = "nobody"
    /\ owner' = [owner EXCEPT ![b] = who]
    /\ header' = [header EXCEPT ![b] = FALSE]
    /\ UNCHANGED <<phase, guard, settings, stats, blockSize, length, call, calls, overshot>>

\* real_free gets the pointer as it is: inside a block, if it has a header.
GuardedFree(b, who) ==
    /\ guard
    /\ owner[b] = who
    /\ IF header[b]
       THEN phase' = "crashed" /\ UNCHANGED owner
       ELSE owner' = [owner EXCEPT ![b] = "nobody"] /\ UNCHANGED phase
    /\ UNCHANGED <<guard, settings, stats, header, blockSize, length, call, calls, overshot>>

\* syslog allocates and frees while a call is in guarded space; the program does
\* when the library is already destroyed.
Guarded ==
    \E b \in Blocks :
        \/ call # NONE /\ (GuardedMalloc(b, "syslog") \/ GuardedFree(b, "syslog"))
        \/ phase = "destroyed" /\ (GuardedMalloc(b, "program") \/ GuardedFree(b, "program"))

-----------------------------------------------------------------------------
(* Calls of the program *)

\* realloc(NULL, size) is malloc(size); a pointer that no block has is "foreign".
Requests ==
    [op : {"malloc"}, size : Sizes]
        \cup [op : {"calloc"}, num : Nums, size : Sizes]
        \cup [op : {"realloc"}, ptr : Held("program") \cup {"foreign"}, size : Sizes]
        \cup [op : {"free"}, ptr : Held("program") \cup {"foreign", "NULL"}]

Enter ==
    /\ phase = "running"
    /\ ~guard
    /\ calls < MaxCalls
    /\ call' \in Requests
    /\ guard' = TRUE
    /\ calls' = calls + 1
    /\ UNCHANGED <<phase, settings, stats, heap, overshot>>

\* Variant: the request alone is compared with MEMGRIND_MEM_MAX.
can_alloc_alone(size) ==
    /\ settings["alloc_max"] >= size
    /\ settings["mem_max"] >= size
    /\ settings["alloc_count"] >= (allocs + 1) % Word

\* Variant: this allocation is not counted in.
can_alloc_late(size) ==
    /\ settings["alloc_max"] >= size
    /\ settings["mem_max"] >= (used + size) % Word
    /\ settings["alloc_count"] >= allocs

can_alloc(size) ==
    /\ settings["alloc_max"] >= size
    /\ settings["mem_max"] >= (used + size) % Word
    /\ settings["alloc_count"] >= (allocs + 1) % Word

\* RETURN_FROM_GUARDED
Return == guard' = FALSE /\ call' = NONE /\ UNCHANGED <<phase, settings, calls>>

\* Variant: a plain return, with libc_guard still set.
DeclineGuarded ==
    /\ call # NONE
    /\ call.op # "free"
    /\ ~can_alloc(call.size)
    /\ declined' = declined + 1
    /\ call' = NONE
    /\ UNCHANGED <<phase, guard, settings, calls, used, freed, allocs, deallocs, errors, heap,
                   overshot>>

Decline ==
    /\ call # NONE
    /\ call.op # "free"
    /\ ~can_alloc(call.size)
    /\ declined' = declined + 1
    /\ Return
    /\ UNCHANGED <<used, freed, allocs, deallocs, errors, heap, overshot>>

\* The size malloc or calloc asks for; can_alloc is asked about call.size.
Wanted == IF call.op = "calloc" THEN (call.num * call.size) % Word ELSE call.size

\* malloc and calloc: the statistics are updated before the real function is
\* called, and stay so when it fails.
Allocate ==
    /\ call # NONE
    /\ call.op \in {"malloc", "calloc"}
    /\ can_alloc(call.size)
    /\ allocs' = allocs + 1
    /\ used' = (used + Wanted) % Word
    /\ overshot' = (overshot \/ Wanted > call.size)
    /\ \/ /\ \E b \in Held("nobody") :
               /\ owner' = [owner EXCEPT ![b] = "program"]
               /\ header' = [header EXCEPT ![b] = TRUE]
               /\ blockSize' = [blockSize EXCEPT ![b] = Wanted]
               /\ length' = [length EXCEPT ![b] = Wanted]
          /\ UNCHANGED errors
       \/ errors' = errors + 1 /\ UNCHANGED heap
    /\ Return
    /\ UNCHANGED <<freed, deallocs, declined>>

\* The service block is not there, or the real realloc fails: nothing happens to
\* the block.
Fail ==
    /\ call # NONE
    /\ \/ call.op = "realloc" /\ can_alloc(call.size)
       \/ call.op = "free" /\ call.ptr = "foreign"
    /\ errors' = errors + 1
    /\ Return
    /\ UNCHANGED <<used, freed, allocs, deallocs, declined, heap, overshot>>

\* The block is extended or shortened where it is.
ReallocInPlace ==
    /\ call # NONE
    /\ call.op = "realloc"
    /\ can_alloc(call.size)
    /\ call.ptr \in Blocks
    /\ LET old == blockSize[call.ptr] IN
       \/ /\ call.size >= old
          /\ used' = (used + call.size - old) % Word
          /\ UNCHANGED freed
       \/ /\ call.size < old
          /\ freed' = (freed + old - call.size) % Word
          /\ UNCHANGED used
    /\ blockSize' = [blockSize EXCEPT ![call.ptr] = call.size]
    /\ length' = [length EXCEPT ![call.ptr] = call.size]
    /\ Return
    /\ UNCHANGED <<allocs, deallocs, errors, declined, owner, header, overshot>>

\* The real realloc gives another block, with what the old one had in it.
ReallocMoves ==
    /\ call # NONE
    /\ call.op = "realloc"
    /\ can_alloc(call.size)
    /\ call.ptr \in Blocks
    /\ \E b \in Held("nobody") :
         /\ owner' = [owner EXCEPT ![call.ptr] = "nobody", ![b] = "program"]
         /\ header' = [header EXCEPT ![b] = header[call.ptr]]
         /\ blockSize' = [blockSize EXCEPT ![b] = call.size]
         /\ length' = [length EXCEPT ![b] = call.size]
    /\ allocs' = allocs + 1
    /\ deallocs' = deallocs + 1
    /\ used' = (used + call.size) % Word
    /\ freed' = (freed + blockSize[call.ptr]) % Word
    /\ Return
    /\ UNCHANGED <<errors, declined, overshot>>

FreeNull ==
    /\ call # NONE
    /\ call.op = "free"
    /\ call.ptr = "NULL"
    /\ Return
    /\ UNCHANGED <<stats, heap, overshot>>

\* Variant: the deallocation is not counted.
FreeUncounted ==
    /\ call # NONE
    /\ call.op = "free"
    /\ call.ptr \in Blocks
    /\ freed' = (freed + blockSize[call.ptr]) % Word
    /\ owner' = [owner EXCEPT ![call.ptr] = "nobody"]
    /\ Return
    /\ UNCHANGED <<used, allocs, deallocs, errors, declined, header, blockSize, length, overshot>>

Free ==
    /\ call # NONE
    /\ call.op = "free"
    /\ call.ptr \in Blocks
    /\ deallocs' = deallocs + 1
    /\ freed' = (freed + blockSize[call.ptr]) % Word
    /\ owner' = [owner EXCEPT ![call.ptr] = "nobody"]
    /\ Return
    /\ UNCHANGED <<used, allocs, errors, declined, header, blockSize, length, overshot>>

Next ==
    \/ library_init \/ InitExits \/ library_destroy \/ Guarded
    \/ Enter \/ Decline \/ Allocate \/ Fail \/ ReallocInPlace \/ ReallocMoves
    \/ FreeNull \/ Free

Spec == Init /\ [][Next]_vars

-----------------------------------------------------------------------------
(* Properties *)

\* The bytes of some blocks, as pairs of a block and an offset.
BytesOf(blocks) == UNION {{b} \X (1 .. length[b]) : b \in blocks}

\* What print_final calls a leak: the blocks and bytes that the program still has, and,
\* for each error at most, one block that could not be allocated.  Without errors the
\* numbers are exact.  This rests on the service blocks: while the library runs the
\* program's blocks have one with the right size and those of syslog have none, so that
\* no pointer is ever shifted the wrong way, and whatever a call returns the guard is
\* down for the next one.
LeaksReported ==
    phase = "running" =>
        LET bytes == Cardinality(BytesOf(Held("program")))
            blocks == Cardinality(Held("program"))
        IN /\ allocs - deallocs \in blocks .. blocks + errors
           /\ used - freed >= bytes
           /\ errors = 0 => used - freed = bytes
           /\ \A b \in Held("program") : header[b] /\ blockSize[b] = length[b]
           /\ \A b \in Held("syslog") : ~header[b]
           /\ guard <=> call # NONE

\* What can_alloc is there for.  MEMGRIND_ALLOC_COUNT bounds the allocations, moving
\* reallocs included.  The other two limits bind a program whose callocs never got more
\* than can_alloc was asked about: it has no more bytes than MEMGRIND_MEM_MAX and no block
\* longer than MEMGRIND_ALLOC_MAX, however its blocks were allocated, moved, resized and
\* freed.  They do not bind calloc: it asks about one element only.
LimitsHold ==
    phase = "running" =>
        /\ allocs <= settings["alloc_count"]
        /\ ~overshot =>
             /\ Cardinality(BytesOf(Held("program"))) <= settings["mem_max"]
             /\ \A b \in Held("program") : length[b] <= settings["alloc_max"]
=============================================================================
