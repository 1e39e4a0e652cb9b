----------------------------- MODULE HeapProofs -----------------------------
(***************************************************************************)
(* Proofs about the allocator of hw03 (the instance Memgrind of Heap), for *)
(* any blocks, any requests and any limits, as long as no size wraps       *)
(* around, and about the list of ex09 (the instance List), for any nodes.  *)
(***************************************************************************)
EXTENDS Heap, FiniteSetTheorems, TLAPS

AllRequests ==
    [op : {"malloc"}, size : Sizes]
        \cup [op : {"calloc"}, num : Nums, size : Sizes]
        \cup [op : {"realloc"}, ptr : Blocks \cup {"foreign"}, size : Sizes]
        \cup [op : {"free"}, ptr : Blocks \cup {"foreign", "NULL"}]

\* No call asks for more than big bytes, and all of them together for less than a size_t
\* can count.
MemgrindAssumption(big) ==
    /\ IsFiniteSet(Blocks) /\ "foreign" \notin Blocks /\ "NULL" \notin Blocks
    /\ NONE \notin AllRequests
    /\ Limits \subseteq Int /\ Nums \subseteq Nat /\ Sizes \subseteq 0 .. big
    /\ \A num \in Nums, size \in Sizes : num * size <= big
    /\ big \in Nat /\ MaxCalls \in Nat /\ Word \in Nat \ {0}
    /\ MaxCalls * big < Word /\ MaxCalls < Word

MemgrindTypes ==
    /\ phase \in {"unloaded", "running", "exited", "destroyed", "crashed"}
    /\ guard \in BOOLEAN
    /\ settings \in [Memgrind!Settings -> Nat]
    /\ used \in Nat /\ freed \in Nat /\ allocs \in Nat /\ deallocs \in Nat /\ errors \in Nat
    /\ owner \in [Blocks -> {"nobody", "program", "syslog"}]
    /\ header \in [Blocks -> BOOLEAN]
    /\ blockSize \in [Blocks -> Nat] /\ length \in [Blocks -> Nat]
    /\ calls \in 0 .. MaxCalls

\* The call in guarded space is the running program's, and a block it names is one the
\* program has.
InGuardedSpace ==
    call # NONE =>
        /\ phase = "running" /\ calls > 0
        /\ call.op \in {"malloc", "calloc", "realloc", "free"}
        /\ call.op # "free" => call.size \in Sizes
        /\ call.op = "calloc" => call.num \in Nums
        /\ call.op \in {"realloc", "free"} /\ call.ptr \in Blocks => owner[call.ptr] = "program"

\* The calls that are over.
Over == IF call = NONE THEN calls ELSE calls - 1

\* Nothing has been allocated before library_init, nor more than the calls could.
Counted(big) ==
    /\ phase = "unloaded" => used = 0 /\ freed = 0 /\ allocs = 0 /\ deallocs = 0
    /\ allocs <= Over /\ used <= Over * big
    /\ phase = "running" => allocs <= settings["alloc_count"]

\* The bytes of the blocks in S, if their lengths are len.
BytesIn(S, len) == UNION {{b} \X (1 .. len[b]) : b \in S}

Program == Memgrind!Held("program")
ProgramBytes == BytesIn(Program, length)

\* The statistics and the blocks of the program agree, except for calls that failed.
Balanced ==
    phase = "running" =>
        /\ IsFiniteSet(ProgramBytes)
        /\ allocs - deallocs \in Cardinality(Program) .. Cardinality(Program) + errors
        /\ used - freed >= Cardinality(ProgramBytes)
        /\ errors = 0 => used - freed = Cardinality(ProgramBytes)

\* Who has a header, and when the guard is up.
Headed ==
    /\ phase = "unloaded" => call = NONE /\ \A b \in Blocks : owner[b] = "nobody"
    /\ phase = "running" =>
         /\ \A b \in Program : header[b] /\ blockSize[b] = length[b]
         /\ \A b \in Memgrind!Held("syslog") : ~header[b]
         /\ guard <=> call # NONE

MemgrindInv(big) == MemgrindTypes /\ InGuardedSpace /\ Counted(big) /\ Balanced /\ Headed

\* The statistics cannot overflow: what a call may still add fits.
LEMMA Fits ==
  ASSUME NEW big, MemgrindAssumption(big), MemgrindTypes, InGuardedSpace, Counted(big),
         call # NONE, NEW more \in 0 .. big
  PROVE  /\ used + more < Word /\ used + more <= calls * big /\ allocs + 1 <= calls
         /\ (used + more) % Word = used + more /\ (allocs + 1) % Word = allocs + 1
<1>1. calls \in 1 .. MaxCalls /\ big \in Nat /\ Over = calls - 1
  BY DEF MemgrindAssumption, MemgrindTypes, InGuardedSpace, Over
<1>2. (calls - 1) * big + big = calls * big /\ calls * big <= MaxCalls * big
  <2>1. (calls - 1) * big = calls * big - big
    BY <1>1
  <2>2. \A d \in Nat : (calls + d) * big = calls * big + d * big /\ d * big \in Nat
    BY <1>1
  <2>3. MaxCalls - calls \in Nat /\ calls + (MaxCalls - calls) = MaxCalls
    BY <1>1 DEF MemgrindAssumption
  <2> QED
    BY <1>1, <2>1, <2>2, <2>3
<1>3. used + more <= calls * big
  BY <1>1, <1>2 DEF Counted, MemgrindTypes
<1>4. used + more < Word /\ allocs + 1 <= calls /\ allocs + 1 < Word
  BY <1>1, <1>2, <1>3 DEF MemgrindAssumption, MemgrindTypes, Counted
<1>5. \A x \in Nat : x < Word => x % Word = x
  BY DEF MemgrindAssumption
<1> QED
  BY <1>1, <1>3, <1>4, <1>5 DEF MemgrindTypes


\* A block more, with its bytes.
LEMMA BlockAdded ==
  ASSUME NEW S, NEW len, NEW b, b \notin S, len[b] \in Nat, IsFiniteSet(BytesIn(S, len))
  PROVE  /\ IsFiniteSet(BytesIn(S \cup {b}, len))
         /\ Cardinality(BytesIn(S \cup {b}, len)) = Cardinality(BytesIn(S, len)) + len[b]
<1> DEFINE B == {b} \X (1 .. len[b])
<1>1. BytesIn(S \cup {b}, len) = BytesIn(S, len) \cup B
  BY DEF BytesIn
<1>2. BytesIn(S, len) \cap B = {}
  BY DEF BytesIn
<1>3. IsFiniteSet(B) /\ Cardinality(B) = len[b]
  <2>1. IsFiniteSet({b}) /\ Cardinality({b}) = 1
    BY FS_Singleton, ZenonT(30)
  <2>2. IsFiniteSet(1 .. len[b]) /\ Cardinality(1 .. len[b]) = len[b]
    BY FS_Interval, SMTT(30)
  <2>3. IsFiniteSet(B) /\ Cardinality(B) = Cardinality({b}) * Cardinality(1 .. len[b])
    BY <2>1, <2>2, FS_Product, ZenonT(30)
  <2>4. 1 * len[b] = len[b]
    OBVIOUS
  <2> QED
    BY <2>1, <2>2, <2>3, <2>4, ZenonT(30)
<1> HIDE DEF B
<1>4. /\ IsFiniteSet(BytesIn(S, len) \cup B)
      /\ Cardinality(BytesIn(S, len) \cup B) =
            Cardinality(BytesIn(S, len)) + Cardinality(B) - Cardinality(BytesIn(S, len) \cap B)
  BY <1>3, FS_Union
<1>5. Cardinality(BytesIn(S, len)) \in Nat /\ Cardinality({}) = 0
  BY FS_CardinalityType, FS_EmptySet
<1>6. Cardinality(BytesIn(S \cup {b}, len)) = Cardinality(BytesIn(S, len)) + len[b] - 0
  BY <1>1, <1>2, <1>3, <1>4, <1>5, ZenonT(30)
<1>7. Cardinality(BytesIn(S, len)) + len[b] - 0 = Cardinality(BytesIn(S, len)) + len[b]
  BY <1>5
<1> QED
  BY <1>1, <1>4, <1>6, <1>7, ZenonT(30)

\* A block less.
LEMMA BlockDropped ==
  ASSUME NEW S, NEW len, NEW b \in S, len[b] \in Nat, IsFiniteSet(BytesIn(S, len))
  PROVE  /\ IsFiniteSet(BytesIn(S \ {b}, len))
         /\ Cardinality(BytesIn(S \ {b}, len)) = Cardinality(BytesIn(S, len)) - len[b]
         /\ Cardinality(BytesIn(S, len)) \in Nat /\ len[b] <= Cardinality(BytesIn(S, len))
<1>1. BytesIn(S \ {b}, len) \subseteq BytesIn(S, len)
  BY DEF BytesIn
<1>2. IsFiniteSet(BytesIn(S \ {b}, len))
  BY <1>1, FS_Subset, ZenonT(30)
<1>3. (S \ {b}) \cup {b} = S /\ b \notin S \ {b}
  OBVIOUS
<1>4. Cardinality(BytesIn(S, len)) = Cardinality(BytesIn(S \ {b}, len)) + len[b]
  BY <1>2, <1>3, BlockAdded
<1>5. Cardinality(BytesIn(S, len)) \in Nat /\ Cardinality(BytesIn(S \ {b}, len)) \in Nat
  BY <1>2, FS_CardinalityType
<1> QED
  BY <1>2, <1>4, <1>5

\* Only the lengths of the blocks in S matter.
LEMMA SameBytes ==
  ASSUME NEW S, NEW len, NEW other, \A b \in S : other[b] = len[b]
  PROVE  BytesIn(S, other) = BytesIn(S, len)
  BY DEF BytesIn

LEMMA ProgramFinite ==
  ASSUME NEW big, MemgrindAssumption(big)
  PROVE  IsFiniteSet(Program) /\ Cardinality(Program) \in Nat
<1>1. Program \subseteq Blocks
  BY DEF Program, Memgrind!Held
<1> QED
  BY <1>1, FS_Subset, FS_CardinalityType DEF MemgrindAssumption

\* What the heap and the statistics of a call that returns have to be.
HeapTypes ==
    /\ owner \in [Blocks -> {"nobody", "program", "syslog"}]
    /\ header \in [Blocks -> BOOLEAN]
    /\ blockSize \in [Blocks -> Nat] /\ length \in [Blocks -> Nat]
StatTypes == used \in Nat /\ freed \in Nat /\ allocs \in Nat /\ deallocs \in Nat /\ errors \in Nat
HeadersRight ==
    /\ \A b \in Program : header[b] /\ blockSize[b] = length[b]
    /\ \A b \in Memgrind!Held("syslog") : ~header[b]

\* RETURN_FROM_GUARDED, after statistics and heap were changed as they should.
LEMMA Returned ==
  ASSUME NEW big, MemgrindAssumption(big), MemgrindInv(big), call # NONE, Memgrind!Return,
         HeapTypes', StatTypes', HeadersRight', Balanced',
         used' <= calls * big, allocs' <= calls, allocs' <= settings["alloc_count"]
  PROVE  MemgrindInv(big)'
<1> USE DEF MemgrindInv, Memgrind!Return
<1>1. phase = "running" /\ phase' = "running" /\ call' = NONE /\ guard' = FALSE
  BY DEF InGuardedSpace
<1>2. MemgrindTypes'
  <2>1. guard' \in BOOLEAN /\ phase' \in {"unloaded", "running", "exited", "destroyed", "crashed"}
    BY <1>1, ZenonT(30)
  <2> QED
    BY <2>1 DEF MemgrindTypes, HeapTypes, StatTypes
<1>3. InGuardedSpace'
  BY <1>1 DEF InGuardedSpace
<1>4. Counted(big)'
  BY <1>1 DEF Counted, Over
<1>5. Headed'
  BY <1>1 DEF Headed, HeadersRight
<1> QED
  BY <1>2, <1>3, <1>4, <1>5

\* A call that leaves the heap alone keeps everything about it.
LEMMA HeapStays ==
  ASSUME NEW big, MemgrindInv(big), call # NONE, UNCHANGED Memgrind!heap
  PROVE  HeapTypes' /\ HeadersRight' /\ Program' = Program /\ ProgramBytes' = ProgramBytes
<1>1. phase = "running"
  BY DEF MemgrindInv, InGuardedSpace
<1> QED
  BY <1>1 DEF MemgrindInv, MemgrindTypes, HeapTypes, HeadersRight, Headed, Program, ProgramBytes,
     Memgrind!Held, Memgrind!heap

\* Unless a calloc has overshot, all that was ever allocated is within MEMGRIND_MEM_MAX and
\* every block within MEMGRIND_ALLOC_MAX.
WithinLimits ==
    phase = "running" /\ ~overshot =>
        /\ used <= settings["mem_max"]
        /\ \A b \in Program : length[b] <= settings["alloc_max"]

LimitStep == WithinLimits => WithinLimits'

\* Calls that neither allocate nor free.
LEMMA NothingMoves ==
  ASSUME NEW big, MemgrindAssumption(big), MemgrindInv(big),
         Memgrind!Decline \/ Memgrind!Fail \/ Memgrind!FreeNull
  PROVE  MemgrindInv(big)' /\ LimitStep
<1>1. /\ call # NONE /\ Memgrind!Return /\ UNCHANGED Memgrind!heap
      /\ UNCHANGED <<used, freed, allocs, deallocs, overshot>>
      /\ errors' = errors \/ errors' = errors + 1
  BY DEF Memgrind!Decline, Memgrind!Fail, Memgrind!FreeNull, Memgrind!stats
<1>2. phase = "running" /\ phase' = "running" /\ calls \in 1 .. MaxCalls
  BY <1>1 DEF MemgrindInv, InGuardedSpace, MemgrindTypes, Memgrind!Return, MemgrindAssumption
<1>3. HeapTypes' /\ HeadersRight' /\ Program' = Program /\ ProgramBytes' = ProgramBytes
  BY <1>1, HeapStays
<1>4. StatTypes'
  BY <1>1 DEF MemgrindInv, MemgrindTypes, StatTypes
<1>5. Cardinality(Program) \in Nat
  BY ProgramFinite
<1>6. Balanced'
  BY <1>1, <1>2, <1>3, <1>5 DEF MemgrindInv, MemgrindTypes, Balanced
<1>7. 0 \in 0 .. big
  BY DEF MemgrindAssumption
<1>8. used + 0 <= calls * big /\ allocs + 1 <= calls
  BY <1>1, <1>7, Fits DEF MemgrindInv
<1>9. used' <= calls * big /\ allocs' <= calls /\ allocs' <= settings["alloc_count"]
  BY <1>1, <1>2, <1>8 DEF MemgrindInv, MemgrindTypes, Counted
<1>10. MemgrindInv(big)'
  BY <1>1, <1>3, <1>4, <1>6, <1>9, Returned
<1>11. LimitStep
  BY <1>1, <1>2, <1>3, ZenonT(30) DEF LimitStep, WithinLimits, Memgrind!Return, Memgrind!heap
<1> QED
  BY <1>10, <1>11

\* What can_alloc has compared is what it should be.
LEMMA MayAllocate ==
  ASSUME NEW big, MemgrindAssumption(big), MemgrindInv(big), call # NONE, call.op # "free",
         Memgrind!can_alloc(call.size)
  PROVE  /\ call.size \in 0 .. big /\ call.size \in Nat /\ call.size <= settings["alloc_max"]
         /\ allocs + 1 <= settings["alloc_count"] /\ used + call.size <= settings["mem_max"]
         /\ used + call.size < Word /\ used + call.size <= calls * big /\ allocs + 1 <= calls
<1>1. call.size \in 0 .. big
  BY ZenonT(30) DEF MemgrindInv, InGuardedSpace, MemgrindAssumption
<1> QED
  BY <1>1, Fits DEF MemgrindInv, Memgrind!can_alloc, MemgrindAssumption

\* malloc and calloc.
LEMMA AllocateStep ==
  ASSUME NEW big, MemgrindAssumption(big), MemgrindInv(big), Memgrind!Allocate
  PROVE  MemgrindInv(big)' /\ LimitStep
<1> DEFINE wanted == Memgrind!Wanted
<1>1. /\ call # NONE /\ call.op \in {"malloc", "calloc"} /\ Memgrind!can_alloc(call.size)
      /\ allocs' = allocs + 1 /\ used' = (used + wanted) % Word
      /\ overshot' = (overshot \/ wanted > call.size)
      /\ Memgrind!Return /\ UNCHANGED <<freed, deallocs>>
  BY DEF Memgrind!Allocate
<1>2. phase = "running" /\ phase' = "running" /\ calls \in 1 .. MaxCalls
  BY <1>1 DEF MemgrindInv, InGuardedSpace, MemgrindTypes, Memgrind!Return, MemgrindAssumption
<1>3. /\ call.size \in 0 .. big /\ call.size \in Nat /\ allocs + 1 <= settings["alloc_count"]
      /\ call.size <= settings["alloc_max"] /\ used + call.size <= settings["mem_max"]
      /\ allocs + 1 <= calls
  BY <1>1, MayAllocate
<1>4. wanted \in 0 .. big
  <2>1. CASE call.op = "malloc"
    BY <1>3, <2>1 DEF Memgrind!Wanted
  <2>2. CASE call.op = "calloc"
    <3>1. call.num \in Nums /\ call.size \in Sizes /\ call.num * call.size <= big
      BY <1>1, <2>2, ZenonT(30) DEF MemgrindInv, InGuardedSpace, MemgrindAssumption
    <3>2. call.num * call.size \in Nat
      <4>1. \A x, y \in Nat : x * y \in Nat
        OBVIOUS
      <4>2. call.num \in Nat /\ call.size \in Nat
        BY <1>3, <3>1, ZenonT(30) DEF MemgrindAssumption
      <4> QED
        BY <4>1, <4>2, ZenonT(30)
    <3>3. call.num * call.size \in 0 .. big /\ used + call.num * call.size < Word
      BY <1>1, <3>1, <3>2, Fits DEF MemgrindInv, MemgrindAssumption
    <3>4. (call.num * call.size) % Word = call.num * call.size
      <4>1. \A x \in Nat : \A u \in Nat : u + x < Word => x % Word = x
        BY DEF MemgrindAssumption
      <4>2. used \in Nat
        BY DEF MemgrindInv, MemgrindTypes
      <4> QED
        BY <3>2, <3>3, <4>1, <4>2, ZenonT(30)
    <3> QED
      BY <2>2, <3>3, <3>4 DEF Memgrind!Wanted
  <2> QED
    BY <1>1, <2>1, <2>2
<1> HIDE DEF wanted
<1>5. used' = used + wanted /\ used' <= calls * big
  BY <1>1, <1>4, Fits DEF MemgrindInv
<1>6. allocs' <= calls /\ allocs' <= settings["alloc_count"]
  BY <1>1, <1>3
<1>7. ~overshot' =>
         ~overshot /\ wanted <= settings["alloc_max"] /\ used' <= settings["mem_max"]
  <2>1. ~overshot' => ~overshot /\ ~(wanted > call.size)
    BY <1>1, ZenonT(30)
  <2>2. /\ wanted \in Nat /\ used \in Nat
        /\ settings["alloc_max"] \in Nat /\ settings["mem_max"] \in Nat
    BY <1>4 DEF MemgrindInv, MemgrindTypes, MemgrindAssumption, Memgrind!Settings
  <2>3. ~(wanted > call.size) => wanted <= settings["alloc_max"] /\ used' <= settings["mem_max"]
    BY <1>3, <1>5, <2>2
  <2> QED
    BY <2>1, <2>3, ZenonT(30)
<1>8. used \in Nat /\ freed \in Nat /\ allocs \in Nat /\ deallocs \in Nat /\ errors \in Nat
      /\ wanted \in Nat /\ Cardinality(Program) \in Nat
  <2>1. wanted \in Nat
    BY <1>4 DEF MemgrindAssumption
  <2>2. Cardinality(Program) \in Nat
    BY ProgramFinite
  <2> QED
    BY <2>1, <2>2 DEF MemgrindInv, MemgrindTypes
<1>9. CASE errors' = errors + 1 /\ UNCHANGED Memgrind!heap
  <2>1. HeapTypes' /\ HeadersRight' /\ Program' = Program /\ ProgramBytes' = ProgramBytes
    BY <1>1, <1>9, HeapStays
  <2>2. StatTypes'
    BY <1>1, <1>5, <1>8, <1>9 DEF StatTypes
  <2>3. Cardinality(ProgramBytes) \in Nat
    BY <1>2, FS_CardinalityType DEF MemgrindInv, Balanced
  <2>4. Balanced'
    BY <1>1, <1>2, <1>5, <1>8, <1>9, <2>1, <2>3 DEF MemgrindInv, Balanced
  <2>5. LimitStep
    BY <1>1, <1>2, <1>7, <1>9, <2>1, ZenonT(30)
       DEF LimitStep, WithinLimits, Memgrind!Return, Memgrind!heap
  <2> QED
    BY <1>1, <1>5, <1>6, <2>1, <2>2, <2>4, <2>5, Returned
<1>10. ASSUME NEW b \in Memgrind!Held("nobody"), UNCHANGED errors,
              owner' = [owner EXCEPT ![b] = "program"], header' = [header EXCEPT ![b] = TRUE],
              blockSize' = [blockSize EXCEPT ![b] = wanted], length' = [length EXCEPT ![b] = wanted]
       PROVE  MemgrindInv(big)' /\ LimitStep
  <2>1. b \in Blocks /\ owner[b] = "nobody"
    BY <1>10 DEF Memgrind!Held
  <2>2. HeapTypes'
    BY <1>8, <1>10, <2>1 DEF MemgrindInv, MemgrindTypes, HeapTypes
  <2>3. /\ Program' = Program \cup {b}
        /\ b \notin Program
        /\ Memgrind!Held("syslog")' = Memgrind!Held("syslog")
    BY <1>10, <2>1 DEF MemgrindInv, MemgrindTypes, Program, Memgrind!Held
  <2>4. length'[b] = wanted /\ \A c \in Program : length'[c] = length[c]
    BY <1>10, <2>1, <2>3 DEF MemgrindInv, MemgrindTypes, Program, Memgrind!Held
  <2>5. HeadersRight'
    <3>1. header'[b] /\ blockSize'[b] = length'[b]
      BY <1>10, <2>1 DEF MemgrindInv, MemgrindTypes
    <3>2. \A c \in Blocks : c # b => header'[c] = header[c] /\ blockSize'[c] = blockSize[c]
      BY <1>10, <2>1 DEF MemgrindInv, MemgrindTypes
    <3>3. /\ \A c \in Program : header[c] /\ blockSize[c] = length[c]
          /\ \A c \in Memgrind!Held("syslog") : ~header[c]
      BY <1>2 DEF MemgrindInv, Headed
    <3>4. Program \subseteq Blocks /\ Memgrind!Held("syslog") \subseteq Blocks \ {b}
      BY <2>1 DEF Program, Memgrind!Held
    <3> QED
      BY <2>3, <2>4, <3>1, <3>2, <3>3, <3>4 DEF HeadersRight
  <2>6. /\ IsFiniteSet(ProgramBytes) /\ Cardinality(ProgramBytes) \in Nat
        /\ IsFiniteSet(ProgramBytes') /\ Cardinality(ProgramBytes') = Cardinality(ProgramBytes) + wanted
    <3>1. IsFiniteSet(ProgramBytes) /\ Cardinality(ProgramBytes) \in Nat
      BY <1>2, FS_CardinalityType DEF MemgrindInv, Balanced
    <3>2. BytesIn(Program, length') = ProgramBytes
      BY <2>4, SameBytes DEF ProgramBytes
    <3>3. ProgramBytes' = BytesIn(Program \cup {b}, length')
      BY <2>3 DEF ProgramBytes
    <3> QED
      BY <1>8, <2>3, <2>4, <3>1, <3>2, <3>3, BlockAdded
  <2>7. Cardinality(Program') = Cardinality(Program) + 1
    BY <2>3, ProgramFinite, FS_AddElement
  <2>8. StatTypes'
    BY <1>1, <1>5, <1>8, <1>10 DEF StatTypes
  <2>9. Balanced'
    BY <1>1, <1>2, <1>5, <1>8, <1>10, <2>6, <2>7 DEF MemgrindInv, Balanced
  <2>10. LimitStep
    BY <1>1, <1>2, <1>7, <2>3, <2>4, ZenonT(30) DEF LimitStep, WithinLimits, Memgrind!Return
  <2> QED
    BY <1>1, <1>5, <1>6, <2>2, <2>5, <2>8, <2>9, <2>10, Returned
<1>11. \/ errors' = errors + 1 /\ UNCHANGED Memgrind!heap
       \/ /\ \E b \in Memgrind!Held("nobody") :
               /\ owner' = [owner EXCEPT ![b] = "program"]
               /\ header' = [header EXCEPT ![b] = TRUE]
               /\ blockSize' = [blockSize EXCEPT ![b] = wanted]
               /\ length' = [length EXCEPT ![b] = wanted]
          /\ UNCHANGED errors
  BY ZenonT(30) DEF Memgrind!Allocate, wanted
<1> QED
  BY <1>9, <1>10, <1>11

\* free of a block.
LEMMA FreeStep ==
  ASSUME NEW big, MemgrindAssumption(big), MemgrindInv(big), Memgrind!Free
  PROVE  MemgrindInv(big)' /\ LimitStep
<1> DEFINE p == call.ptr
<1>1. /\ call # NONE /\ call.op = "free" /\ p \in Blocks
      /\ deallocs' = deallocs + 1 /\ freed' = (freed + blockSize[p]) % Word
      /\ owner' = [owner EXCEPT ![p] = "nobody"]
      /\ Memgrind!Return
      /\ UNCHANGED <<used, allocs, errors, header, blockSize, length, overshot>>
  BY DEF Memgrind!Free
<1>2. phase = "running" /\ phase' = "running" /\ calls \in 1 .. MaxCalls /\ owner[p] = "program"
  BY <1>1 DEF MemgrindInv, InGuardedSpace, MemgrindTypes, Memgrind!Return, MemgrindAssumption
<1> HIDE DEF p
<1>3. /\ p \in Program /\ Program' = Program \ {p}
      /\ Memgrind!Held("syslog")' = Memgrind!Held("syslog") /\ Program \subseteq Blocks
  BY <1>1, <1>2 DEF MemgrindInv, MemgrindTypes, Program, Memgrind!Held
<1>4. HeapTypes'
  BY <1>1 DEF MemgrindInv, MemgrindTypes, HeapTypes
<1>5. HeadersRight'
  BY <1>1, <1>2, <1>3 DEF MemgrindInv, Headed, HeadersRight
<1>6. length[p] \in Nat /\ blockSize[p] = length[p]
  BY <1>1, <1>2, <1>3 DEF MemgrindInv, MemgrindTypes, Headed
<1>7. /\ IsFiniteSet(ProgramBytes') /\ Cardinality(ProgramBytes) \in Nat
      /\ Cardinality(ProgramBytes') = Cardinality(ProgramBytes) - length[p]
      /\ length[p] <= Cardinality(ProgramBytes)
  <2>1. IsFiniteSet(BytesIn(Program, length)) /\ ProgramBytes' = BytesIn(Program \ {p}, length)
    BY <1>1, <1>2, <1>3 DEF MemgrindInv, Balanced, ProgramBytes
  <2> QED
    BY <1>3, <1>6, <2>1, BlockDropped, ZenonT(30) DEF ProgramBytes
<1>8. Cardinality(Program') = Cardinality(Program) - 1 /\ Cardinality(Program) \in Nat
  BY <1>3, ProgramFinite, FS_RemoveElement, ZenonT(30)
<1>9. used \in Nat /\ freed \in Nat /\ allocs \in Nat /\ deallocs \in Nat /\ errors \in Nat
  BY DEF MemgrindInv, MemgrindTypes
<1>10. used - freed >= Cardinality(ProgramBytes)
  BY <1>2 DEF MemgrindInv, Balanced
<1>11. used <= calls * big /\ used < Word /\ allocs + 1 <= calls
  <2>1. 0 \in 0 .. big
    BY DEF MemgrindAssumption
  <2>2. used + 0 <= calls * big /\ used + 0 < Word /\ allocs + 1 <= calls
    BY <1>1, <2>1, Fits DEF MemgrindInv
  <2> QED
    BY <1>9, <2>2
<1>12. freed' = freed + length[p]
  <2>1. freed + length[p] \in Nat /\ freed + length[p] < Word
    BY <1>6, <1>7, <1>9, <1>10, <1>11 DEF MemgrindAssumption
  <2>2. \A x \in Nat : x < Word => x % Word = x
    BY DEF MemgrindAssumption
  <2> QED
    BY <1>1, <1>6, <2>1, <2>2
<1>13. StatTypes'
  BY <1>1, <1>6, <1>9, <1>12 DEF StatTypes
<1>14. Balanced'
  BY <1>1, <1>2, <1>6, <1>7, <1>8, <1>9, <1>12 DEF MemgrindInv, Balanced
<1>15. used' <= calls * big /\ allocs' <= calls /\ allocs' <= settings["alloc_count"]
  BY <1>1, <1>2, <1>9, <1>11 DEF MemgrindInv, Counted, MemgrindTypes
<1>16. MemgrindInv(big)'
  BY <1>1, <1>4, <1>5, <1>13, <1>14, <1>15, Returned
<1>17. LimitStep
  BY <1>1, <1>2, <1>3, ZenonT(30) DEF LimitStep, WithinLimits, Memgrind!Return
<1> QED
  BY <1>16, <1>17

\* realloc that extends or shortens a block where it is.
LEMMA InPlaceStep ==
  ASSUME NEW big, MemgrindAssumption(big), MemgrindInv(big), Memgrind!ReallocInPlace
  PROVE  MemgrindInv(big)' /\ LimitStep
<1> DEFINE p == call.ptr
           old == blockSize[call.ptr]
           new == call.size
<1>1. /\ call # NONE /\ call.op = "realloc" /\ Memgrind!can_alloc(new) /\ p \in Blocks
      /\ \/ new >= old /\ used' = (used + new - old) % Word /\ UNCHANGED freed
         \/ new < old /\ freed' = (freed + old - new) % Word /\ UNCHANGED used
      /\ blockSize' = [blockSize EXCEPT ![p] = new] /\ length' = [length EXCEPT ![p] = new]
      /\ Memgrind!Return /\ UNCHANGED <<allocs, deallocs, errors, owner, header, overshot>>
  BY DEF Memgrind!ReallocInPlace
<1>2. phase = "running" /\ phase' = "running" /\ calls \in 1 .. MaxCalls /\ owner[p] = "program"
  BY <1>1 DEF MemgrindInv, InGuardedSpace, MemgrindTypes, Memgrind!Return, MemgrindAssumption
<1>3. /\ new \in Nat /\ new <= settings["alloc_max"]
      /\ allocs + 1 <= settings["alloc_count"] /\ used + new <= settings["mem_max"]
      /\ used + new < Word /\ used + new <= calls * big /\ allocs + 1 <= calls
  BY <1>1, MayAllocate
<1>4. old = length[p] /\ old \in Nat
  BY <1>1, <1>2 DEF MemgrindInv, MemgrindTypes, Headed, Program, Memgrind!Held
<1> HIDE DEF p, old, new
<1>5. /\ p \in Program /\ Program' = Program
      /\ Memgrind!Held("syslog")' = Memgrind!Held("syslog") /\ Program \subseteq Blocks
  BY <1>1, <1>2 DEF Program, Memgrind!Held
<1>6. HeapTypes'
  BY <1>1, <1>3 DEF MemgrindInv, MemgrindTypes, HeapTypes
<1>7. /\ length'[p] = new /\ blockSize'[p] = new
      /\ \A c \in Blocks : c # p => length'[c] = length[c] /\ blockSize'[c] = blockSize[c]
  BY <1>1 DEF MemgrindInv, MemgrindTypes
<1>8. HeadersRight'
  <2>1. /\ \A c \in Program : header[c] /\ blockSize[c] = length[c]
        /\ \A c \in Memgrind!Held("syslog") : ~header[c]
    BY <1>2 DEF MemgrindInv, Headed
  <2> QED
    BY <1>1, <1>5, <1>7, <2>1 DEF HeadersRight
<1>9. /\ IsFiniteSet(ProgramBytes') /\ Cardinality(ProgramBytes) \in Nat
      /\ Cardinality(ProgramBytes') = Cardinality(ProgramBytes) - old + new
      /\ old <= Cardinality(ProgramBytes)
  <2>1. /\ IsFiniteSet(BytesIn(Program \ {p}, length)) /\ Cardinality(ProgramBytes) \in Nat
        /\ Cardinality(BytesIn(Program \ {p}, length)) = Cardinality(ProgramBytes) - old
        /\ old <= Cardinality(ProgramBytes)
    BY <1>2, <1>4, <1>5, BlockDropped DEF MemgrindInv, Balanced, ProgramBytes
  <2>2. BytesIn(Program \ {p}, length') = BytesIn(Program \ {p}, length)
    BY <1>5, <1>7, SameBytes
  <2>3. (Program \ {p}) \cup {p} = Program /\ p \notin Program \ {p}
    BY <1>5
  <2>4. /\ IsFiniteSet(BytesIn(Program, length'))
        /\ Cardinality(BytesIn(Program, length')) = Cardinality(BytesIn(Program \ {p}, length)) + new
    <3>1. length'[p] \in Nat /\ IsFiniteSet(BytesIn(Program \ {p}, length'))
      BY <1>3, <1>7, <2>1, <2>2
    <3>2. /\ IsFiniteSet(BytesIn((Program \ {p}) \cup {p}, length'))
          /\ Cardinality(BytesIn((Program \ {p}) \cup {p}, length')) =
                Cardinality(BytesIn(Program \ {p}, length')) + length'[p]
      BY <2>3, <3>1, BlockAdded, ZenonT(30)
    <3> QED
      BY <1>7, <2>2, <2>3, <3>2, ZenonT(30)
  <2> QED
    BY <1>5, <2>1, <2>4 DEF ProgramBytes
<1>10. used \in Nat /\ freed \in Nat /\ allocs \in Nat /\ deallocs \in Nat /\ errors \in Nat
  BY DEF MemgrindInv, MemgrindTypes
<1>11. used - freed >= Cardinality(ProgramBytes)
  BY <1>2 DEF MemgrindInv, Balanced
<1>12. Word \in Nat /\ \A x \in Nat : x < Word => x % Word = x
  BY DEF MemgrindAssumption
<1>13. \/ new >= old /\ used' = used + new - old /\ freed' = freed
       \/ new < old /\ freed' = freed + old - new /\ used' = used
  <2>1. CASE new >= old
    <3>1. used + new - old \in Nat /\ used + new - old < Word
      BY <1>3, <1>4, <1>10, <1>12, <2>1
    <3> QED
      BY <1>1, <1>3, <1>4, <1>12, <2>1, <3>1
  <2>2. CASE new < old
    <3>1. freed + old - new \in Nat /\ freed + old - new < Word
      <4>1. freed + old <= used
        BY <1>4, <1>9, <1>10, <1>11
      <4> QED
        BY <1>3, <1>4, <1>10, <1>12, <2>2, <4>1
    <3> QED
      BY <1>1, <1>3, <1>4, <1>12, <2>2, <3>1
  <2> QED
    BY <1>3, <1>4, <2>1, <2>2
<1>14. StatTypes'
  BY <1>1, <1>3, <1>4, <1>10, <1>13 DEF StatTypes
<1>15. Balanced'
  BY <1>1, <1>2, <1>3, <1>4, <1>5, <1>9, <1>10, <1>13 DEF MemgrindInv, Balanced
<1>16. calls * big \in Int /\ settings["alloc_count"] \in Nat /\ settings["mem_max"] \in Nat
  BY <1>2 DEF MemgrindInv, MemgrindTypes, Memgrind!Settings, MemgrindAssumption
<1>17. used' <= calls * big /\ allocs' <= calls /\ allocs' <= settings["alloc_count"]
  BY <1>1, <1>2, <1>3, <1>4, <1>10, <1>13, <1>16
<1>18. MemgrindInv(big)'
  BY <1>1, <1>6, <1>8, <1>14, <1>15, <1>17, Returned
<1>19. LimitStep
  <2>1. used' <= settings["mem_max"]
    BY <1>3, <1>4, <1>10, <1>13, <1>16
  <2> QED
    BY <1>1, <1>2, <1>3, <1>5, <1>7, <2>1, ZenonT(30) DEF LimitStep, WithinLimits, Memgrind!Return
<1> QED
  BY <1>18, <1>19

\* realloc that gets another block.
LEMMA MoveStep ==
  ASSUME NEW big, MemgrindAssumption(big), MemgrindInv(big), Memgrind!ReallocMoves
  PROVE  MemgrindInv(big)' /\ LimitStep
<1> DEFINE p == call.ptr
           old == blockSize[call.ptr]
           new == call.size
<1>1. /\ call # NONE /\ call.op = "realloc" /\ Memgrind!can_alloc(new) /\ p \in Blocks
      /\ allocs' = allocs + 1 /\ deallocs' = deallocs + 1
      /\ used' = (used + new) % Word /\ freed' = (freed + old) % Word
      /\ Memgrind!Return /\ UNCHANGED <<errors, overshot>>
  BY DEF Memgrind!ReallocMoves
<1>2. PICK b \in Memgrind!Held("nobody") :
        /\ owner' = [owner EXCEPT ![p] = "nobody", ![b] = "program"]
        /\ header' = [header EXCEPT ![b] = header[p]]
        /\ blockSize' = [blockSize EXCEPT ![b] = new] /\ length' = [length EXCEPT ![b] = new]
  BY ZenonT(30) DEF Memgrind!ReallocMoves
<1>3. phase = "running" /\ phase' = "running" /\ calls \in 1 .. MaxCalls /\ owner[p] = "program"
  BY <1>1 DEF MemgrindInv, InGuardedSpace, MemgrindTypes, Memgrind!Return, MemgrindAssumption
<1>4. /\ new \in Nat /\ new <= settings["alloc_max"]
      /\ allocs + 1 <= settings["alloc_count"] /\ used + new <= settings["mem_max"]
      /\ used + new < Word /\ used + new <= calls * big /\ allocs + 1 <= calls
  BY <1>1, MayAllocate
<1>5. old = length[p] /\ old \in Nat /\ header[p]
  BY <1>1, <1>3 DEF MemgrindInv, MemgrindTypes, Headed, Program, Memgrind!Held
<1> HIDE DEF p, old, new
<1>6. b \in Blocks /\ owner[b] = "nobody" /\ b # p
  BY <1>3 DEF Memgrind!Held
<1>7. /\ p \in Program /\ b \notin Program /\ Program \subseteq Blocks
      /\ Program' = (Program \ {p}) \cup {b} /\ Memgrind!Held("syslog")' = Memgrind!Held("syslog")
  <2>1. /\ owner'[p] = "nobody" /\ owner'[b] = "program"
        /\ \A c \in Blocks : c # p /\ c # b => owner'[c] = owner[c]
    BY <1>1, <1>2, <1>6 DEF MemgrindInv, MemgrindTypes
  <2> QED
    BY <1>1, <1>3, <1>6, <2>1 DEF Program, Memgrind!Held
<1>8. HeapTypes'
  <2>1. owner' \in [Blocks -> {"nobody", "program", "syslog"}]
    BY <1>1, <1>2, <1>6 DEF MemgrindInv, MemgrindTypes
  <2>2. header' \in [Blocks -> BOOLEAN]
    BY <1>1, <1>2, <1>6 DEF MemgrindInv, MemgrindTypes
  <2>3. blockSize' \in [Blocks -> Nat] /\ length' \in [Blocks -> Nat]
    BY <1>2, <1>4, <1>6 DEF MemgrindInv, MemgrindTypes
  <2> QED
    BY <2>1, <2>2, <2>3 DEF HeapTypes
<1>9. /\ length'[b] = new /\ blockSize'[b] = new /\ header'[b] = header[p]
      /\ \A c \in Blocks : c # b => /\ length'[c] = length[c] /\ blockSize'[c] = blockSize[c]
                                   /\ header'[c] = header[c]
  BY <1>2, <1>6 DEF MemgrindInv, MemgrindTypes
<1>10. HeadersRight'
  <2>1. /\ \A c \in Program : header[c] /\ blockSize[c] = length[c]
        /\ \A c \in Memgrind!Held("syslog") : ~header[c]
    BY <1>3 DEF MemgrindInv, Headed
  <2>2. Memgrind!Held("syslog") \subseteq Blocks \ {b}
    BY <1>6, ZenonT(30) DEF Memgrind!Held
  <2> QED
    BY <1>5, <1>7, <1>9, <2>1, <2>2, ZenonT(30) DEF HeadersRight
<1>11. /\ IsFiniteSet(ProgramBytes') /\ Cardinality(ProgramBytes) \in Nat
       /\ Cardinality(ProgramBytes') = Cardinality(ProgramBytes) - old + new
       /\ old <= Cardinality(ProgramBytes)
  <2>1. /\ IsFiniteSet(BytesIn(Program \ {p}, length)) /\ Cardinality(ProgramBytes) \in Nat
        /\ Cardinality(BytesIn(Program \ {p}, length)) = Cardinality(ProgramBytes) - old
        /\ old <= Cardinality(ProgramBytes)
    BY <1>3, <1>5, <1>7, BlockDropped, ZenonT(30)
       DEF MemgrindInv, Balanced, ProgramBytes
  <2>2. BytesIn(Program \ {p}, length') = BytesIn(Program \ {p}, length)
    BY <1>7, <1>9, SameBytes, SMTT(30)
  <2>3. b \notin Program \ {p} /\ length'[b] \in Nat /\ IsFiniteSet(BytesIn(Program \ {p}, length'))
    BY <1>4, <1>7, <1>9, <2>1, <2>2, ZenonT(30)
  <2>4. /\ IsFiniteSet(BytesIn((Program \ {p}) \cup {b}, length'))
        /\ Cardinality(BytesIn((Program \ {p}) \cup {b}, length')) =
              Cardinality(BytesIn(Program \ {p}, length')) + length'[b]
    BY <2>3, BlockAdded, ZenonT(30)
  <2> QED
    BY <1>7, <1>9, <2>1, <2>2, <2>4 DEF ProgramBytes
<1>12. Cardinality(Program') = Cardinality(Program) /\ Cardinality(Program) \in Nat
  <2>1. IsFiniteSet(Program) /\ Cardinality(Program) \in Nat
    BY ProgramFinite
  <2>2. IsFiniteSet(Program \ {p}) /\ Cardinality(Program \ {p}) = Cardinality(Program) - 1
    BY <1>7, <2>1, FS_RemoveElement, ZenonT(30)
  <2>3. b \notin Program \ {p}
    BY <1>7
  <2>4. Cardinality((Program \ {p}) \cup {b}) = Cardinality(Program \ {p}) + 1
    BY <2>2, <2>3, FS_AddElement, ZenonT(30)
  <2> QED
    BY <1>7, <2>1, <2>2, <2>4
<1>13. used \in Nat /\ freed \in Nat /\ allocs \in Nat /\ deallocs \in Nat /\ errors \in Nat
  BY DEF MemgrindInv, MemgrindTypes
<1>14. used - freed >= Cardinality(ProgramBytes)
  BY <1>3 DEF MemgrindInv, Balanced
<1>15. Word \in Nat /\ \A x \in Nat : x < Word => x % Word = x
  BY DEF MemgrindAssumption
<1>16. used' = used + new /\ freed' = freed + old
  <2>1. freed + old <= used
    BY <1>5, <1>11, <1>13, <1>14
  <2>2. freed + old \in Nat /\ freed + old < Word /\ used + new \in Nat
    BY <1>4, <1>5, <1>13, <1>15, <2>1
  <2> QED
    BY <1>1, <1>4, <1>15, <2>2
<1>17. StatTypes'
  BY <1>1, <1>4, <1>5, <1>13, <1>16 DEF StatTypes
<1>18. Balanced'
  <2>1. /\ allocs - deallocs \in Cardinality(Program) .. Cardinality(Program) + errors
        /\ errors = 0 => used - freed = Cardinality(ProgramBytes)
    BY <1>3 DEF MemgrindInv, Balanced
  <2>2. allocs' - deallocs' \in Cardinality(Program') .. Cardinality(Program') + errors'
    BY <1>1, <1>12, <1>13, <2>1
  <2>3. /\ used' - freed' >= Cardinality(ProgramBytes')
        /\ errors' = 0 => used' - freed' = Cardinality(ProgramBytes')
    BY <1>1, <1>4, <1>5, <1>11, <1>13, <1>14, <1>16, <2>1
  <2> QED
    BY <1>11, <2>2, <2>3 DEF Balanced
<1>19. used' <= calls * big /\ allocs' <= calls /\ allocs' <= settings["alloc_count"]
  BY <1>1, <1>4, <1>16
<1>20. MemgrindInv(big)'
  BY <1>1, <1>8, <1>10, <1>17, <1>18, <1>19, Returned
<1>21. LimitStep
  BY <1>1, <1>3, <1>4, <1>7, <1>9, <1>16, ZenonT(30) DEF LimitStep, WithinLimits, Memgrind!Return
<1> QED
  BY <1>20, <1>21

\* Steps outside guarded space, or of syslog in it.
LEMMA OtherSteps ==
  ASSUME NEW big, MemgrindAssumption(big), MemgrindInv(big),
         \/ Memgrind!library_init \/ Memgrind!InitExits \/ Memgrind!library_destroy
         \/ Memgrind!Guarded \/ Memgrind!Enter \/ UNCHANGED Memgrind!vars
  PROVE  MemgrindInv(big)' /\ LimitStep
<1> USE DEF MemgrindInv
<1>1. CASE Memgrind!library_init
  <2>1. /\ phase = "unloaded" /\ phase' = "running" /\ guard' = FALSE /\ call' = NONE /\ call = NONE
        /\ UNCHANGED <<used, freed, allocs, deallocs, errors, owner, header, blockSize, length, calls>>
    BY <1>1, ZenonT(30) DEF Memgrind!library_init, Memgrind!stats, Memgrind!heap, Headed
  <2>2. settings' \in [Memgrind!Settings -> Nat]
    <3>1. PICK env \in Memgrind!Environments :
            settings' = [v \in Memgrind!Settings |-> Memgrind!get_value(env[v])]
      BY <1>1 DEF Memgrind!library_init
    <3>2. \A v \in Memgrind!Settings : env[v] \in Int
      <4>1. Limits \cup {-1} \subseteq Int
        BY DEF MemgrindAssumption
      <4> QED
        BY <4>1 DEF Memgrind!Environments
    <3>3. \A x \in Int : x % Word \in Nat
      BY DEF MemgrindAssumption
    <3> QED
      BY <3>1, <3>2, <3>3 DEF Memgrind!get_value
  <2>3. guard' \in BOOLEAN
    BY <2>1, ZenonT(30)
  <2>4. MemgrindTypes'
    BY <2>1, <2>2, <2>3, ZenonT(30) DEF MemgrindTypes
  <2>5. InGuardedSpace'
    BY <2>1, ZenonT(30) DEF InGuardedSpace
  <2>6. "alloc_count" \in Memgrind!Settings /\ used = 0 /\ freed = 0 /\ allocs = 0 /\ deallocs = 0
    BY <2>1 DEF Memgrind!Settings, Counted
  <2>7. Counted(big)'
    BY <2>1, <2>2, <2>6 DEF Counted, Over
  <2>8. Program' = {} /\ Memgrind!Held("syslog")' = {}
    BY <2>1 DEF Headed, Program, Memgrind!Held
  <2>9. Headed'
    BY <2>1, <2>8 DEF Headed
  <2>10. ProgramBytes' = {}
    BY <2>8 DEF ProgramBytes, BytesIn
  <2>11. IsFiniteSet({}) /\ Cardinality({}) = 0
    BY FS_EmptySet
  <2>12. Balanced'
    BY <2>1, <2>6, <2>8, <2>10, <2>11 DEF Balanced, MemgrindTypes
  <2>13. LimitStep
    <3>1. used' <= settings'["mem_max"]
      BY <2>1, <2>2, <2>6 DEF Memgrind!Settings
    <3> QED
      BY <2>8, <3>1, ZenonT(30) DEF LimitStep, WithinLimits
  <2> QED
    BY <2>4, <2>5, <2>7, <2>9, <2>12, <2>13, ZenonT(30)
<1>2. CASE Memgrind!InitExits \/ Memgrind!library_destroy
  <2>1. /\ phase' \in {"exited", "destroyed"} /\ (guard' = guard \/ guard' = TRUE)
        /\ call = NONE /\ call' = NONE
        /\ UNCHANGED <<settings, used, freed, allocs, deallocs, errors, owner, header, blockSize,
                       length, calls>>
    BY <1>2 DEF Memgrind!InitExits, Memgrind!library_destroy, Memgrind!stats, Memgrind!heap, Headed
  <2>2. guard' \in BOOLEAN
    BY <2>1, ZenonT(30) DEF MemgrindTypes
  <2>3. MemgrindTypes'
    BY <2>1, <2>2, SMTT(30) DEF MemgrindTypes
  <2>4. InGuardedSpace' /\ Counted(big)' /\ Balanced' /\ Headed'
    BY <2>1, ZenonT(30) DEF InGuardedSpace, Counted, Over, Balanced, Headed
  <2>5. LimitStep
    BY <2>1, ZenonT(30) DEF LimitStep, WithinLimits
  <2> QED
    BY <2>3, <2>4, <2>5, ZenonT(30)
<1>3. CASE Memgrind!Enter
  <2>1. /\ phase = "running" /\ ~guard /\ calls < MaxCalls /\ call' \in Memgrind!Requests
        /\ guard' = TRUE /\ calls' = calls + 1
        /\ UNCHANGED <<phase, settings, used, freed, allocs, deallocs, errors, owner, header,
                       blockSize, length, overshot>>
    BY <1>3, ZenonT(30) DEF Memgrind!Enter, Memgrind!stats, Memgrind!heap
  <2>2. call = NONE
    BY <2>1, ZenonT(30) DEF Headed
  <2>3. call' \in AllRequests
    BY <2>1, ZenonT(30) DEF Memgrind!Requests, AllRequests, Memgrind!Held
  <2>4. call' # NONE
    BY <2>3 DEF MemgrindAssumption
  <2>5. /\ call'.op \in {"malloc", "calloc", "realloc", "free"}
        /\ call'.op # "free" => call'.size \in Sizes
        /\ call'.op = "calloc" => call'.num \in Nums
    BY <2>3, ZenonT(30) DEF AllRequests
  <2>6. call'.op \in {"realloc", "free"} /\ call'.ptr \in Blocks => owner'[call'.ptr] = "program"
    BY <2>1, ZenonT(30) DEF Memgrind!Requests, Memgrind!Held, MemgrindAssumption
  <2>7. calls' \in 0 .. MaxCalls /\ calls' > 0
    BY <2>1 DEF MemgrindTypes, MemgrindAssumption
  <2>8. guard' \in BOOLEAN
    BY <2>1, ZenonT(30)
  <2>9. MemgrindTypes'
    BY <2>1, <2>7, <2>8 DEF MemgrindTypes
  <2>10. InGuardedSpace'
    BY <2>1, <2>5, <2>6, <2>7 DEF InGuardedSpace
  <2>11. Over' = Over
    BY <2>1, <2>2, <2>4 DEF Over, MemgrindTypes
  <2>12. /\ Program' = Program
         /\ ProgramBytes' = ProgramBytes
         /\ Memgrind!Held("syslog")' = Memgrind!Held("syslog")
    BY <2>1 DEF Program, ProgramBytes, Memgrind!Held
  <2>13. Counted(big)' /\ Balanced' /\ Headed'
    BY <2>1, <2>4, <2>11, <2>12 DEF Counted, Balanced, Headed
  <2>14. LimitStep
    BY <2>1, <2>12, ZenonT(30) DEF LimitStep, WithinLimits
  <2> QED
    BY <2>9, <2>10, <2>13, <2>14
<1>4. ASSUME NEW b \in Blocks, call # NONE,
             Memgrind!GuardedMalloc(b, "syslog") \/ Memgrind!GuardedFree(b, "syslog")
      PROVE  MemgrindInv(big)' /\ LimitStep
  <2>1. phase = "running"
    BY <1>4, ZenonT(30) DEF InGuardedSpace
  <2>2. /\ owner[b] \in {"nobody", "syslog"} /\ phase' = phase
        /\ owner' = [owner EXCEPT ![b] = owner'[b]] /\ owner'[b] \in {"nobody", "syslog"}
        /\ UNCHANGED <<guard, settings, used, freed, allocs, deallocs, errors, blockSize, length,
                       call, calls, overshot>>
        /\ \/ owner'[b] = "syslog" /\ header' = [header EXCEPT ![b] = FALSE]
           \/ owner'[b] = "nobody" /\ header' = header
    BY <1>4, <2>1 DEF Memgrind!GuardedMalloc, Memgrind!GuardedFree, Memgrind!stats, Headed,
       Memgrind!Held, MemgrindTypes
  <2>3. Program' = Program /\ ProgramBytes' = ProgramBytes
    BY <2>2, ZenonT(30) DEF Program, ProgramBytes, Memgrind!Held, MemgrindTypes
  <2>4. owner' \in [Blocks -> {"nobody", "program", "syslog"}] /\ header' \in [Blocks -> BOOLEAN]
    BY <2>2, ZenonT(30) DEF MemgrindTypes
  <2>5. MemgrindTypes'
    BY <2>2, <2>4 DEF MemgrindTypes
  <2>6. InGuardedSpace'
    BY <2>2 DEF InGuardedSpace, MemgrindTypes
  <2>7. Counted(big)' /\ Balanced'
    BY <2>2, <2>3, SMTT(30) DEF Counted, Over, Balanced
  <2>8. Headed'
    <3>1. \A c \in Blocks : c # b => owner'[c] = owner[c] /\ header'[c] = header[c]
      BY <2>2 DEF MemgrindTypes
    <3>2. owner'[b] = "syslog" => ~header'[b]
      BY <2>2 DEF MemgrindTypes
    <3>3. b \notin Program
      BY <2>2 DEF Program, Memgrind!Held
    <3> QED
      BY <2>1, <2>2, <2>3, <3>1, <3>2, <3>3, ZenonT(30) DEF Headed, Program, Memgrind!Held
  <2>9. LimitStep
    BY <2>2, <2>3, ZenonT(30) DEF LimitStep, WithinLimits
  <2> QED
    BY <2>5, <2>6, <2>7, <2>8, <2>9, ZenonT(30)
<1>5. ASSUME NEW b \in Blocks, phase = "destroyed",
             Memgrind!GuardedMalloc(b, "program") \/ Memgrind!GuardedFree(b, "program")
      PROVE  MemgrindInv(big)' /\ LimitStep
  <2>1. call = NONE
    BY <1>5 DEF InGuardedSpace
  <2>2. /\ phase' \in {"destroyed", "crashed"}
        /\ owner' \in [Blocks -> {"nobody", "program", "syslog"}]
        /\ header' \in [Blocks -> BOOLEAN]
        /\ UNCHANGED <<guard, settings, used, freed, allocs, deallocs, errors, blockSize, length,
                       call, calls, overshot>>
    BY <1>5, ZenonT(30) DEF Memgrind!GuardedMalloc, Memgrind!GuardedFree, Memgrind!stats,
       MemgrindTypes
  <2>3. MemgrindTypes'
    BY <2>2, ZenonT(30) DEF MemgrindTypes
  <2>4. InGuardedSpace' /\ Counted(big)' /\ Balanced' /\ Headed'
    BY <2>1, <2>2, ZenonT(30) DEF InGuardedSpace, Counted, Over, Balanced, Headed
  <2>5. LimitStep
    BY <2>2, ZenonT(30) DEF LimitStep, WithinLimits
  <2> QED
    BY <2>3, <2>4, <2>5
<1>6. CASE UNCHANGED Memgrind!vars
  <2>1. UNCHANGED <<phase, guard, settings, used, freed, allocs, deallocs, errors, owner, header,
                    blockSize, length, call, calls, overshot>>
    BY <1>6 DEF Memgrind!vars, Memgrind!stats, Memgrind!heap
  <2>2. /\ Program' = Program
        /\ ProgramBytes' = ProgramBytes
        /\ Memgrind!Held("syslog")' = Memgrind!Held("syslog")
    BY <2>1, ZenonT(30) DEF Program, ProgramBytes, Memgrind!Held
  <2>3. MemgrindTypes' /\ InGuardedSpace' /\ Counted(big)'
    BY <2>1, ZenonT(30) DEF MemgrindTypes, InGuardedSpace, Counted, Over
  <2>4. Balanced' /\ Headed'
    BY <2>1, <2>2 DEF Balanced, Headed
  <2>5. LimitStep
    BY <2>1, <2>2, ZenonT(30) DEF LimitStep, WithinLimits
  <2> QED
    BY <2>3, <2>4, <2>5
<1> QED
  BY <1>1, <1>2, <1>3, <1>4, <1>5, <1>6 DEF Memgrind!Guarded

LEMMA MemgrindStep ==
  ASSUME NEW big, MemgrindAssumption(big)
  PROVE  MemgrindInv(big) /\ [Memgrind!Next]_Memgrind!vars => MemgrindInv(big)' /\ LimitStep
  BY NothingMoves, AllocateStep, FreeStep, InPlaceStep, MoveStep, OtherSteps DEF Memgrind!Next

LEMMA MemgrindStarts ==
  ASSUME NEW big, MemgrindAssumption(big)
  PROVE  Memgrind!Init => MemgrindInv(big)
<1> SUFFICES ASSUME Memgrind!Init PROVE MemgrindInv(big)
  OBVIOUS
<1> USE DEF Memgrind!Init
<1>1. header \in [Blocks -> BOOLEAN] /\ guard \in BOOLEAN
  BY ZenonT(30)
<1>2. calls \in 0 .. MaxCalls /\ settings \in [Memgrind!Settings -> Nat]
  BY DEF MemgrindAssumption
<1>3. MemgrindTypes
  BY <1>1, <1>2 DEF MemgrindTypes
<1>4. 0 * big = 0
  BY DEF MemgrindAssumption
<1>5. Counted(big)
  BY <1>4 DEF Counted, Over
<1>6. InGuardedSpace /\ Balanced /\ Headed
  BY DEF InGuardedSpace, Balanced, Headed
<1> QED
  BY <1>3, <1>5, <1>6 DEF MemgrindInv

\* For any blocks, sizes and limits: as long as the program asks for fewer bytes than a
\* size_t can count, what library_destroy reports as lost is what the program still has,
\* the blocks that could not be allocated apart, and the service blocks are where free and
\* realloc look for them (malloc, calloc, realloc, free, print_final).
THEOREM LeaksAreReported ==
  ASSUME NEW big, MemgrindAssumption(big)
  PROVE  Memgrind!Spec => []LeaksReported
<1>1. \A S : Memgrind!Cardinality(S) = Cardinality(S)
  BY DEF Memgrind!Cardinality, Cardinality
<1>2. Memgrind!BytesOf(Program) = ProgramBytes
  BY DEF Memgrind!BytesOf, ProgramBytes, BytesIn
<1>3. MemgrindInv(big) => LeaksReported
  BY <1>1, <1>2 DEF MemgrindInv, Balanced, Headed, LeaksReported, Memgrind!LeaksReported, Program
<1>4. MemgrindInv(big) /\ [Memgrind!Next]_Memgrind!vars => MemgrindInv(big)'
  BY MemgrindStep, ZenonT(30)
<1> QED
  BY <1>3, <1>4, MemgrindStarts, PTL DEF Memgrind!Spec

\* For the same: MEMGRIND_ALLOC_COUNT bounds the allocations, and as long as no calloc got
\* more than can_alloc was asked about, MEMGRIND_MEM_MAX bounds the bytes the program has
\* and MEMGRIND_ALLOC_MAX each of its blocks (can_alloc and its callers).
THEOREM LimitsKept ==
  ASSUME NEW big, MemgrindAssumption(big)
  PROVE  Memgrind!Spec => []LimitsHold
<1>1. MemgrindInv(big) /\ WithinLimits /\ [Memgrind!Next]_Memgrind!vars
        => MemgrindInv(big)' /\ WithinLimits'
  BY MemgrindStep, ZenonT(30) DEF LimitStep
<1>2. Memgrind!Init => WithinLimits
  BY ZenonT(30) DEF Memgrind!Init, WithinLimits
<1>3. MemgrindInv(big) /\ WithinLimits => LimitsHold
  <2> SUFFICES ASSUME MemgrindInv(big), WithinLimits, phase = "running"
               PROVE  /\ allocs <= settings["alloc_count"]
                      /\ ~overshot =>
                           /\ Cardinality(ProgramBytes) <= settings["mem_max"]
                           /\ \A b \in Program : length[b] <= settings["alloc_max"]
    <3>1. Memgrind!BytesOf(Program) = ProgramBytes
      BY DEF Memgrind!BytesOf, ProgramBytes, BytesIn
    <3>2. \A S : Memgrind!Cardinality(S) = Cardinality(S)
      BY DEF Memgrind!Cardinality, Cardinality
    <3> QED
      BY <3>1, <3>2, ZenonT(30) DEF LimitsHold, Memgrind!LimitsHold, Program
  <2>1. allocs <= settings["alloc_count"]
    BY DEF MemgrindInv, Counted
  <2>2. Cardinality(ProgramBytes) <= used
    <3>1. IsFiniteSet(ProgramBytes) /\ used - freed >= Cardinality(ProgramBytes)
      BY DEF MemgrindInv, Balanced
    <3>2. Cardinality(ProgramBytes) \in Nat /\ used \in Nat /\ freed \in Nat
      BY <3>1, FS_CardinalityType DEF MemgrindInv, MemgrindTypes
    <3> QED
      BY <3>1, <3>2
  <2>3. Cardinality(ProgramBytes) \in Nat /\ used \in Nat /\ settings["mem_max"] \in Nat
    BY FS_CardinalityType DEF MemgrindInv, MemgrindTypes, Balanced, Memgrind!Settings
  <2>4. ~overshot => Cardinality(ProgramBytes) <= settings["mem_max"]
    BY <2>2, <2>3 DEF WithinLimits
  <2> QED
    BY <2>1, <2>4, ZenonT(30) DEF WithinLimits
<1> QED
  BY <1>1, <1>2, <1>3, MemgrindStarts, PTL DEF Memgrind!Spec

-----------------------------------------------------------------------------
(* list *)

ListTypes ==
    /\ list_size \in Nat /\ allocated \subseteq Nodes
    /\ link \in [Nodes -> Nodes \cup {NONE}]
    /\ value \in [Nodes -> Values]

\* The nodes from head on are the allocated ones, each once, and end with tail.
Holds(nodes) ==
    /\ nodes \in [1 .. list_size -> allocated]
    /\ List!Linked(nodes)
    /\ \A n \in allocated : \E j \in 1 .. list_size : nodes[j] = n
    /\ \A j, k \in 1 .. list_size : nodes[j] = nodes[k] => j = k
    /\ tail = IF list_size = 0 THEN NONE ELSE nodes[list_size]

ListInv == ListTypes /\ List!WellFormed

\* A set of numbers that is not empty has a smallest one.
LEMMA Smallest ==
    ASSUME NEW T \in SUBSET Nat, T # {}
    PROVE  \E x \in T : \A y \in T : x <= y
<1> DEFINE R == OpToRel(<, Nat)
<1>1. \E x \in T : \A y \in T : ~(<<y, x>> \in R)
  <2>1. IsWellFoundedOn(R, Nat)
    BY NatLessThanWellFounded, ZenonT(30)
  <2> HIDE DEF R
  <2> QED
    BY <2>1, WFMin, Zenon
<1>2. \A x, y \in Nat : ~(<<y, x>> \in R) => x <= y
  BY DEF OpToRel
<1> HIDE DEF R
<1> QED
  BY <1>1, <1>2, ZenonT(30)

\* The pointers lead from head to one sequence of nodes only.
LEMMA OneWay ==
    ASSUME list_size \in Nat,
           NEW c \in [1 .. list_size -> allocated], NEW d \in [1 .. list_size -> allocated],
           List!Linked(c), List!Linked(d)
    PROVE  c = d
<1> DEFINE T == {j \in 1 .. list_size : c[j] # d[j]}
<1>1. SUFFICES ASSUME T # {}
               PROVE  FALSE
  OBVIOUS
<1>2. T \in SUBSET Nat
  OBVIOUS
<1>3. PICK j \in T : \A k \in T : j <= k
  BY <1>1, <1>2, Smallest, ZenonT(30)
<1>4. j # 1
  BY <1>3 DEF List!Linked
<1>5. j - 1 \in 1 .. list_size /\ j - 1 # list_size /\ (j - 1) + 1 = j
  BY <1>3, <1>4
<1>6. c[j - 1] = d[j - 1]
  BY <1>3, <1>5
<1>7. c[j] = link[c[j - 1]] /\ d[j] = link[d[j - 1]]
  BY <1>5 DEF List!Linked
<1> QED
  BY <1>3, <1>6, <1>7

\* So what the list contains is what any way from head on shows.
WayShows ==
    \A nodes \in [1 .. list_size -> allocated] :
        list_size \in Nat /\ List!Linked(nodes) =>
            List!Contents = [j \in 1 .. list_size |-> value[nodes[j]]]

LEMMA Shown == WayShows
<1>1. SUFFICES ASSUME NEW nodes \in [1 .. list_size -> allocated], list_size \in Nat,
                      List!Linked(nodes)
               PROVE  List!Contents = [j \in 1 .. list_size |-> value[nodes[j]]]
  BY DEF WayShows
<1> DEFINE way == CHOOSE c \in [1 .. list_size -> allocated] : List!Linked(c)
<1>2. way \in [1 .. list_size -> allocated] /\ List!Linked(way)
  BY <1>1
<1>3. List!Contents = [j \in 1 .. list_size |-> value[way[j]]]
  BY DEF List!Contents
<1> HIDE DEF way
<1> QED
  BY <1>1, <1>2, <1>3, OneWay

\* Sequences with the same elements are the same.
LEMMA SameSequence ==
    ASSUME NEW S, NEW s \in Seq(S), NEW t \in Seq(S), Len(s) = Len(t),
           \A j \in 1 .. Len(s) : s[j] = t[j]
    PROVE  s = t
OBVIOUS

\* list_push puts its node behind the others.
LEMMA Pushed ==
    ASSUME ListTypes, NEW nodes, Holds(nodes), NEW v \in Values, List!list_push(v)
    PROVE  /\ ListTypes' /\ List!WellFormed'
           /\ List!Contents' = Append(List!Contents, v)
<1>1. PICK node \in Nodes \ allocated :
        /\ allocated' = allocated \cup {node}
        /\ value' = [value EXCEPT ![node] = v]
        /\ IF head = NONE
           THEN head' = node /\ link' = [link EXCEPT ![node] = NONE]
           ELSE head' = head /\ link' = [link EXCEPT ![node] = NONE, ![tail] = node]
        /\ tail' = node
        /\ list_size' = list_size + 1
  BY ZenonT(30) DEF List!list_push
<1>0. PICK len \in Nat : len = list_size
  BY DEF ListTypes
<1> DEFINE more == [j \in 1 .. len + 1 |-> IF j = len + 1 THEN node ELSE nodes[j]]
<1>2. /\ list_size \in Nat /\ allocated \subseteq Nodes
      /\ nodes \in [1 .. list_size -> allocated] /\ List!Linked(nodes)
      /\ node \in Nodes /\ node \notin allocated /\ NONE \notin Nodes
  BY <1>1, ListAssumption DEF ListTypes, Holds
<1>3. head = NONE <=> list_size = 0
  BY <1>2 DEF List!Linked
<1>4. /\ more \in [1 .. len + 1 -> allocated']
      /\ more[len + 1] = node
      /\ \A j \in 1 .. list_size : more[j] = nodes[j]
  BY <1>0, <1>1, <1>2
<1> HIDE DEF more
<1>5. list_size # 0 => tail = nodes[list_size] /\ tail \in allocated /\ tail \in Nodes
  BY <1>0, <1>2 DEF Holds
<1>6. /\ link'[node] = NONE /\ (list_size # 0 => link'[tail] = node)
      /\ \A n \in allocated : (list_size # 0 => n # tail) => link'[n] = link[n]
      /\ link' \in [Nodes -> Nodes \cup {NONE}]
  BY <1>0, <1>1, <1>2, <1>3, <1>5, ZenonT(30) DEF ListTypes
<1>7. ListTypes'
  BY <1>0, <1>1, <1>2, <1>6 DEF ListTypes
<1>8. head' = more[1]
  BY <1>0, <1>1, <1>2, <1>3, <1>4 DEF List!Linked
<1>9. ASSUME NEW j \in 1 .. len + 1
      PROVE  link'[more[j]] = IF j = len + 1 THEN NONE ELSE more[j + 1]
  <2>1. CASE j = len + 1
    BY <1>0, <2>1, <1>4, <1>6, ZenonT(30)
  <2>2. CASE j = list_size
    BY <1>0, <2>2, <1>2, <1>4, <1>5, <1>6, SMTT(30)
  <2>3. CASE j \in 1 .. list_size /\ j # list_size
    <3>1. nodes[j] \in allocated /\ nodes[j] # tail /\ list_size # 0
      BY <1>0, <2>3, <1>2, <1>5, SMTT(30) DEF Holds
    <3>2. link[nodes[j]] = nodes[j + 1] /\ j + 1 \in 1 .. list_size /\ j # len + 1
      BY <1>0, <2>3, <1>2, SMTT(30) DEF List!Linked
    <3> QED
      BY <1>0, <2>3, <3>1, <3>2, <1>4, <1>6, ZenonT(30)
  <2> QED
    BY <1>0, <1>2, <2>1, <2>2, <2>3
<1>10. List!Linked(more)'
  BY <1>0, <1>1, <1>2, <1>8, <1>9, SMTT(30) DEF List!Linked
<1>11. List!WellFormed'
  <2>1. \A n \in allocated' : \E j \in 1 .. len + 1 : more[j] = n
    BY <1>0, <1>1, <1>2, <1>4 DEF Holds
  <2>2. \A j, k \in 1 .. len + 1 : more[j] = more[k] => j = k
    BY <1>0, <1>2, <1>4 DEF Holds
  <2>3. tail' = more[len + 1] /\ len + 1 # 0
    BY <1>0, <1>1, <1>2, <1>4
  <2> QED
    BY <1>0, <1>1, <1>4, <1>10, <2>1, <2>2, <2>3, ZenonT(30) DEF List!WellFormed
<1>12. List!Contents = [j \in 1 .. list_size |-> value[nodes[j]]]
  BY <1>0, <1>2, Shown, ZenonT(30) DEF WayShows
<1>13. List!Contents' = [j \in 1 .. len + 1 |-> value'[more[j]]]
  <2>1. (list_size \in Nat)' /\ more \in [1 .. list_size' -> allocated']
    BY <1>0, <1>1, <1>2, <1>4
  <2>2. WayShows'
    BY Shown, PTL
  <2> QED
    BY <1>0, <2>1, <2>2, <1>1, <1>10, ZenonT(30) DEF WayShows
<1>14. List!Contents \in Seq(Values) /\ Len(List!Contents) = len
  BY <1>0, <1>2, <1>12, SMTT(30) DEF ListTypes
<1>15. \A j \in 1 .. len : value'[more[j]] = value[nodes[j]]
  BY <1>0, <1>1, <1>2, <1>4, SMTT(30) DEF ListTypes
<1>16. value'[more[len + 1]] = v
  BY <1>0, <1>1, <1>2, <1>4 DEF ListTypes
<1>17. List!Contents' = Append(List!Contents, v)
  <2> DEFINE old == List!Contents
             new == List!Contents'
  <2>1. old \in Seq(Values) /\ Len(old) = len /\ \A j \in 1 .. len : old[j] = value[nodes[j]]
    BY <1>0, <1>12, <1>14, ZenonT(30)
  <2>2. new = [j \in 1 .. len + 1 |-> IF j = len + 1 THEN v ELSE old[j]]
    BY <1>0, <1>13, <1>15, <1>16, <2>1, SMTT(30)
  <2> HIDE DEF old, new
  <2>3. /\ Append(old, v) \in Seq(Values) /\ Len(Append(old, v)) = len + 1
        /\ \A j \in 1 .. len + 1 : Append(old, v)[j] = IF j = len + 1 THEN v ELSE old[j]
    BY <1>0, <2>1
  <2>4. new \in Seq(Values) /\ Len(new) = len + 1
    BY <1>0, <2>1, <2>2
  <2>5. \A j \in 1 .. Len(new) : new[j] = Append(old, v)[j]
    BY <1>0, <2>2, <2>3, <2>4
  <2>6. new = Append(old, v)
    BY <2>3, <2>4, <2>5, SameSequence
  <2> QED
    BY <2>6, SMTT(30) DEF old, new
<1> QED
  BY <1>7, <1>11, <1>17

\* list_pop takes the first node away.
LEMMA Popped ==
    ASSUME ListTypes, NEW nodes, Holds(nodes), List!list_pop
    PROVE  /\ ListTypes' /\ List!WellFormed'
           /\ List!Contents # <<>> /\ List!Contents' = Tail(List!Contents)
<1>0. PICK len \in Nat : list_size = len + 1
  <2>1. list_size \in Nat /\ list_size # 0
    BY DEF ListTypes, List!list_pop
  <2>2. list_size - 1 \in Nat /\ list_size = (list_size - 1) + 1
    BY <2>1
  <2> QED
    BY <2>2
<1> DEFINE less == [j \in 1 .. len |-> nodes[j + 1]]
<1>1. /\ head' = link[head] /\ tail' = (IF head' = NONE THEN NONE ELSE tail)
      /\ allocated' = allocated \ {head} /\ list_size' = len
      /\ UNCHANGED <<link, value>>
  BY <1>0 DEF List!list_pop
<1>2. /\ allocated \subseteq Nodes /\ NONE \notin Nodes
      /\ nodes \in [1 .. len + 1 -> allocated] /\ List!Linked(nodes)
      /\ head = nodes[1] /\ tail = nodes[len + 1]
      /\ \A j, k \in 1 .. len + 1 : nodes[j] = nodes[k] => j = k
      /\ \A n \in allocated : \E j \in 1 .. len + 1 : nodes[j] = n
  BY <1>0, ListAssumption DEF ListTypes, Holds, List!Linked
<1>3. /\ less \in [1 .. len -> allocated']
      /\ \A j \in 1 .. len : less[j] = nodes[j + 1]
  BY <1>0, <1>1, <1>2
<1> HIDE DEF less
<1>4. ListTypes'
  BY <1>0, <1>1 DEF ListTypes
<1>5. \A j \in 1 .. len + 1 : link[nodes[j]] = IF j = len + 1 THEN NONE ELSE nodes[j + 1]
  BY <1>0, <1>2, ZenonT(30) DEF List!Linked
<1>6. head' = IF len = 0 THEN NONE ELSE less[1]
  BY <1>0, <1>1, <1>2, <1>3, <1>5, SMTT(30)
<1>7. \A j \in 1 .. len : link'[less[j]] = IF j = len THEN NONE ELSE less[j + 1]
  <2> TAKE j \in 1 .. len
  <2>1. j + 1 \in 1 .. len + 1 /\ less[j] = nodes[j + 1]
    BY <1>0, <1>3
  <2>2. link[less[j]] = IF j + 1 = len + 1 THEN NONE ELSE nodes[(j + 1) + 1]
    BY <2>1, <1>5
  <2>3. j # len => less[j + 1] = nodes[(j + 1) + 1]
    BY <1>0, <1>3
  <2> QED
    BY <2>2, <2>3, <1>0, <1>1, SMTT(30)
<1>8. List!Linked(less)'
  BY <1>1, <1>6, <1>7, ZenonT(30) DEF List!Linked
<1>9. List!WellFormed'
  <2>1. \A n \in allocated' : \E j \in 1 .. len : less[j] = n
    <3> TAKE n \in allocated'
    <3>1. PICK k \in 1 .. len + 1 : nodes[k] = n
      BY <1>1, <1>2, ZenonT(30)
    <3>2. k # 1
      BY <1>1, <1>2, <3>1
    <3>3. k - 1 \in 1 .. len /\ (k - 1) + 1 = k
      BY <1>0, <3>1, <3>2
    <3> QED
      BY <1>3, <3>1, <3>3, ZenonT(30)
  <2>2. \A j, k \in 1 .. len : less[j] = less[k] => j = k
    BY <1>0, <1>2, <1>3, SMTT(30)
  <2>3. tail' = IF len = 0 THEN NONE ELSE less[len]
    BY <1>0, <1>1, <1>2, <1>3, <1>6
  <2> QED
    BY <1>1, <1>3, <1>8, <2>1, <2>2, <2>3 DEF List!WellFormed
<1>10. List!Contents = [j \in 1 .. len + 1 |-> value[nodes[j]]]
  BY <1>0, <1>2, Shown, SMTT(30) DEF WayShows
<1>11. List!Contents' = [j \in 1 .. len |-> value[less[j]]]
  <2>1. WayShows'
    BY Shown, PTL
  <2> QED
    BY <2>1, <1>0, <1>1, <1>3, <1>8 DEF WayShows
<1>12. List!Contents # <<>> /\ List!Contents' = Tail(List!Contents)
  <2> DEFINE old == List!Contents
             new == List!Contents'
  <2>1. /\ old \in Seq(Values) /\ Len(old) = len + 1
        /\ \A j \in 1 .. len + 1 : old[j] = value[nodes[j]]
    BY <1>0, <1>2, <1>10 DEF ListTypes
  <2>2. new = [j \in 1 .. len |-> old[j + 1]]
    BY <1>0, <1>3, <1>11, <2>1, SMTT(30)
  <2> HIDE DEF old, new
  <2>3. /\ Tail(old) \in Seq(Values) /\ Len(Tail(old)) = len /\ old # <<>>
        /\ \A j \in 1 .. len : Tail(old)[j] = old[j + 1]
    BY <1>0, <2>1
  <2>4. new \in Seq(Values) /\ Len(new) = len /\ \A j \in 1 .. len : new[j] = old[j + 1]
    BY <1>0, <2>1, <2>2
  <2>5. new = Tail(old)
    BY <2>3, <2>4, SameSequence
  <2> QED
    BY <2>3, <2>5, ZenonT(30) DEF old, new
<1> QED
  BY <1>4, <1>9, <1>12

\* Every call changes what the list contains as it changes a sequence.
LEMMA ListStep ==
    ASSUME ListInv, List!Next
    PROVE  /\ ListInv'
           /\ \/ \E v \in Values : List!Contents' = Append(List!Contents, v)
              \/ List!Contents # <<>> /\ List!Contents' = Tail(List!Contents)
<1>1. PICK nodes : Holds(nodes)
  BY ZenonT(30) DEF ListInv, List!WellFormed, Holds
<1>2. CASE \E v \in Values : List!list_push(v)
  BY <1>1, <1>2, Pushed DEF ListInv
<1>3. CASE List!list_pop
  BY <1>1, <1>3, Popped DEF ListInv
<1> QED
  BY <1>2, <1>3 DEF List!Next

\* list.c is a sequence for any number of nodes: whatever malloc gives, also the nodes
\* that were freed before, list_push appends its value, list_pop takes the first one
\* away, and the pointers lead from head to tail through exactly the allocated nodes.
THEOREM ListIsSequence == List!Spec => IsSequence
<1>1. List!Init => ListInv
  <2> SUFFICES ASSUME List!Init
               PROVE  ListInv
    OBVIOUS
  <2>1. head = NONE /\ tail = NONE /\ list_size = 0 /\ allocated = {} /\ ListTypes
    BY DEF List!Init, ListTypes
  <2>2. <<>> \in [1 .. list_size -> allocated] /\ List!Linked(<<>>)
    BY <2>1 DEF List!Linked
  <2> QED
    BY <2>1, <2>2, ZenonT(30) DEF ListInv, List!WellFormed
<1>2. ListInv /\ [List!Next]_List!vars => ListInv'
  <2>1. CASE List!Next
    BY <2>1, ListStep, ZenonT(30)
  <2>2. CASE UNCHANGED List!vars
    BY <2>2 DEF List!vars, ListInv, ListTypes, List!WellFormed, List!Linked
  <2> QED
    BY <2>1, <2>2
<1>3. ListInv /\ [List!Next]_List!vars =>
        [/\ List!WellFormed'
         /\ \/ \E v \in Values : List!Contents' = Append(List!Contents, v)
            \/ List!Contents # <<>> /\ List!Contents' = Tail(List!Contents)]_List!vars
  BY ListStep DEF ListInv
<1> QED
  BY <1>1, <1>2, <1>3, PTL DEF List!Spec, IsSequence, List!IsSequence
=============================================================================
