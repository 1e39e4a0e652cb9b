---------------------------- MODULE QueueProofs ----------------------------
(***************************************************************************)
(* Proofs about Queue and its test for any number of threads, any capacity *)
(* and any set of elements.                                                *)
(***************************************************************************)
EXTENDS QueueTester, FiniteSetTheorems, SequenceTheorems, TLAPS

\* The inductive invariant: the ring needs the mutex, the counters need the
\* places, and that no wakeup is lost needs all of them.
IInv == TypeOK /\ MutexOwned /\ RingConsistent /\ WaitersCounted /\ NoLostWakeup

-----------------------------------------------------------------------------
(* Arithmetic of the ring and counting of threads. *)

\* Moving a pointer one slot on stays in the buffer.
LEMMA NextSlot ==
  ASSUME NEW r \in Slots
  PROVE  /\ (r + 1) % Capacity \in Slots
         /\ (r + 1) % Capacity = IF r + 1 = Capacity THEN 0 ELSE r + 1
  BY CapacityAssumption DEF Slots

\* The slot a number of places ahead of a pointer.
LEMMA SlotAhead ==
  ASSUME NEW r \in Slots, NEW i \in 0 .. Capacity
  PROVE  (r + i) % Capacity = IF r + i < Capacity THEN r + i ELSE r + i - Capacity
  BY CapacityAssumption DEF Slots

\* Storing at write_pointer, or leaving the slot at read_pointer, keeps the two
\* pointers queue_size slots apart.
LEMMA PushedRing ==
  ASSUME NEW r \in Slots, NEW n \in 0 .. Capacity, n < Capacity
  PROVE  (((r + n) % Capacity) + 1) % Capacity = (r + (n + 1)) % Capacity
<1>1. (r + n) % Capacity = IF r + n < Capacity THEN r + n ELSE r + n - Capacity
  BY SlotAhead
<1>2. (r + (n + 1)) % Capacity
        = IF r + (n + 1) < Capacity THEN r + (n + 1) ELSE r + (n + 1) - Capacity
  <2>1. n + 1 \in 0 .. Capacity
    BY CapacityAssumption
  <2>2. QED
    BY <2>1, SlotAhead
<1>3. (r + n) % Capacity \in Slots
  BY <1>1, CapacityAssumption DEF Slots
<1>4. (((r + n) % Capacity) + 1) % Capacity
        = IF ((r + n) % Capacity) + 1 = Capacity THEN 0 ELSE ((r + n) % Capacity) + 1
  BY <1>3, NextSlot
<1>5. QED
  BY <1>1, <1>2, <1>4, CapacityAssumption DEF Slots

\* Giving up a slot keeps the ring consistent: the pop of a non-empty queue leaves
\* the two pointers queue_size slots apart.
LEMMA PoppedRing ==
  ASSUME NEW r \in Slots, NEW n \in 0 .. Capacity, n > 0
  PROVE  (((r + 1) % Capacity) + (n - 1)) % Capacity = (r + n) % Capacity
<1>1. (r + 1) % Capacity \in Slots
  BY NextSlot
<1>2. (((r + 1) % Capacity) + (n - 1)) % Capacity
        = IF ((r + 1) % Capacity) + (n - 1) < Capacity
          THEN ((r + 1) % Capacity) + (n - 1)
          ELSE ((r + 1) % Capacity) + (n - 1) - Capacity
  BY <1>1, SlotAhead, CapacityAssumption
<1>3. (r + n) % Capacity = IF r + n < Capacity THEN r + n ELSE r + n - Capacity
  BY SlotAhead
<1>4. QED
  BY <1>2, <1>3, NextSlot, CapacityAssumption DEF Slots

Count(f, places) == Cardinality({u \in Threads : f[u] \in places})

In(place, places) == IF place \in places THEN 1 ELSE 0

\* The number of threads at some places, what the waiting counters count, is a
\* natural number.
LEMMA CountType ==
  ASSUME NEW f, NEW places
  PROVE  Count(f, places) \in Nat
  BY ThreadAssumption, FS_Subset, FS_CardinalityType DEF Count

\* One thread moves.
OneMove(f, g, t) == t \in Threads /\ \A u \in Threads \ {t} : g[u] = f[u]

\* How the number of threads at some places changes when one thread moves.
LEMMA MoveCount ==
  ASSUME NEW f, NEW g, NEW places, NEW t, OneMove(f, g, t)
  PROVE  Count(g, places) = Count(f, places) + In(g[t], places) - In(f[t], places)
<1> USE DEF OneMove
<1> DEFINE S == {u \in Threads : f[u] \in places}
           R == {u \in Threads : g[u] \in places}
<1>1. IsFiniteSet(S) /\ Cardinality(S) \in Nat
  BY ThreadAssumption, FS_Subset, FS_CardinalityType
<1>2. t \in S <=> f[t] \in places
  OBVIOUS
<1>3. CASE g[t] \in places
  <2>1. R = S \cup {t}
    BY <1>3
  <2>2. Cardinality(R) = IF t \in S THEN Cardinality(S) ELSE Cardinality(S) + 1
    BY <1>1, <2>1, FS_AddElement, ZenonT(30)
  <2> HIDE DEF R, S
  <2>3. Cardinality(R) = Cardinality(S) + 1 - In(f[t], places)
    BY <1>1, <1>2, <2>2 DEF In
  <2>4. QED
    BY <1>1, <1>3, <2>3 DEF Count, In, R, S
<1>4. CASE g[t] \notin places
  <2>1. R = S \ {t}
    BY <1>4
  <2>2. Cardinality(R) = IF t \in S THEN Cardinality(S) - 1 ELSE Cardinality(S)
    BY <1>1, <2>1, FS_RemoveElement, ZenonT(30)
  <2> HIDE DEF R, S
  <2>3. Cardinality(R) = Cardinality(S) - In(f[t], places)
    BY <1>1, <1>2, <2>2 DEF In
  <2>4. QED
    BY <1>1, <1>4, <2>3 DEF Count, In, R, S
<1>5. QED  BY <1>3, <1>4

\* Moves among the places, or among the others, do not change the number.
LEMMA SameCount ==
  ASSUME NEW f, NEW g, NEW places,
         \A u \in Threads : f[u] \in places <=> g[u] \in places
  PROVE  Count(g, places) = Count(f, places)
<1>1. {u \in Threads : f[u] \in places} = {u \in Threads : g[u] \in places}
  OBVIOUS
<1>2. QED
  BY <1>1 DEF Count

\* Two threads move, as in pthread_cond_signal.
TwoMove(f, g, t, u) ==
  /\ t \in Threads /\ u \in Threads /\ u # t
  /\ \A v \in Threads : v # t /\ v # u => g[v] = f[v]

\* The same for pthread_cond_signal, which moves the caller and one sleeper.
LEMMA MoveTwoCount ==
  ASSUME NEW f, NEW g, NEW places, NEW t, NEW u, TwoMove(f, g, t, u)
  PROVE  Count(g, places) = Count(f, places) + In(g[t], places) - In(f[t], places)
                                + In(g[u], places) - In(f[u], places)
<1> DEFINE mid == [v \in Threads |-> IF v = u THEN g[u] ELSE f[v]]
<1>1. mid[u] = g[u] /\ mid[t] = f[t]
  BY DEF TwoMove
<1>2. OneMove(f, mid, u) /\ OneMove(mid, g, t)
  BY DEF TwoMove, OneMove
<1> HIDE DEF mid
<1>3. Count(mid, places) = Count(f, places) + In(mid[u], places) - In(f[u], places)
  BY <1>2, MoveCount
<1>4. Count(g, places) = Count(mid, places) + In(g[t], places) - In(mid[t], places)
  BY <1>2, MoveCount
<1>5. /\ Count(f, places) \in Nat /\ Count(mid, places) \in Nat
      /\ In(g[t], places) \in Nat /\ In(g[u], places) \in Nat
      /\ In(f[t], places) \in Nat /\ In(f[u], places) \in Nat
  BY CountType DEF In
<1>6. QED
  BY <1>1, <1>3, <1>4, <1>5

\* A thread that pthread_cond_wait has just returned to is still counted.
LEMMA WokenCounted ==
  ASSUME IInv, NEW t \in Threads
  PROVE  /\ pc[t] = "push_woken" => waitingForPush - 1 \in Nat
         /\ pc[t] = "pop_woken" => waitingForPop - 1 \in Nat
<1>1. \A places : IsFiniteSet(At(places)) /\ Cardinality(At(places)) \in Nat
  BY ThreadAssumption, FS_Subset, FS_CardinalityType DEF At
<1>2. \A places : pc[t] \in places => Cardinality(At(places)) # 0
  BY <1>1, FS_EmptySet DEF At
<1>3. QED
  BY <1>1, <1>2 DEF IInv, WaitersCounted, PushCounted, PopCounted

-----------------------------------------------------------------------------
(* Each conjunct of the invariant is preserved by every step. *)

\* Every step of every operation keeps the fields of the queue well typed.
LEMMA TypeStep ==
  ASSUME IInv, [Next]_vars
  PROVE  TypeOK'
<1> USE DEF IInv, TypeOK, Errors, Places, Holding
<1>1. CASE UNCHANGED vars
  BY <1>1 DEF vars
<1>2. ASSUME NEW t \in Threads, Call(t)
      PROVE  TypeOK'
  BY <1>2, ElementAssumption DEF Call, CallPush, CallTryPush, CallPop, CallTryPop,
     CallAbort, PopArguments, Goto, SetError, buffer, waiting
<1>3. ASSUME NEW t \in Threads, TakeMutex(t) \/ SpuriousWakeup(t)
      PROVE  TypeOK'
  BY <1>3, ZenonT(30) DEF TakeMutex, PushLock, PushWake, PopLock, PopWake, AbortLock, Acquire,
     SpuriousWakeup, Goto, buffer, waiting
<1>4. ASSUME NEW t \in Threads, Run(t)
      PROVE  TypeOK'
  <2>1. CASE PushTest(t) \/ PushWoken(t)
    BY <2>1, WokenCounted DEF PushTest, PushWoken, PushLoop, Fail, Goto, SetError, buffer
  <2>2. CASE PopTest(t) \/ PopWoken(t)
    BY <2>2, WokenCounted DEF PopTest, PopWoken, PopLoop, Fail, Goto, SetError, buffer
  <2>3. CASE PushStore(t)
    <3>1. size' \in 0 .. Capacity /\ write' \in Slots
      BY <2>3, NextSlot, CapacityAssumption DEF PushStore, RingConsistent
    <3>2. memory' \in [Slots -> Elements]
      BY <2>3 DEF PushStore, RingConsistent, Pushing
    <3>3. QED
      BY <2>3, <3>1, <3>2 DEF PushStore, Goto, waiting
  <2>4. CASE PopCopy(t)
    <3>1. size' \in 0 .. Capacity /\ read' \in Slots
      BY <2>4, NextSlot, CapacityAssumption DEF PopCopy, RingConsistent
    <3>2. elem' \in [Threads -> Elements \cup {NULL}]
      BY <2>4 DEF PopCopy
    <3>3. QED
      BY <2>4, <3>1, <3>2 DEF PopCopy, Goto, waiting
  <2>5. CASE PushSignal(t) \/ PopSignal(t)
    BY <2>5 DEF PushSignal, PopSignal, SignalAndGo, Goto, buffer, waiting
  <2>6. CASE TryPushTest(t) \/ TryPopTest(t)
    BY <2>6 DEF TryPushTest, TryPopTest, Fail, Goto, SetError, buffer, waiting
  <2>7. CASE AbortSet(t)
    BY <2>7 DEF AbortSet, Woken, buffer, waiting
  <2>8. CASE Unlock(t)
    BY <2>8 DEF Unlock, Goto, buffer, waiting
  <2>9. QED
    BY <1>4, <2>1, <2>2, <2>3, <2>4, <2>5, <2>6, <2>7, <2>8, ZenonT(30) DEF Run
<1>5. QED
  BY <1>1, <1>2, <1>3, <1>4 DEF Next

\* Every lock, trylock, wait and unlock keeps the owner of queue_mutex the thread
\* that is inside a critical section.
LEMMA MutexStep ==
  ASSUME IInv, [Next]_vars
  PROVE  MutexOwned'
<1> USE ThreadAssumption DEF IInv, TypeOK, MutexOwned, Holding
<1>1. CASE UNCHANGED vars
  BY <1>1 DEF vars
<1>2. ASSUME NEW t \in Threads, Call(t)
      PROVE  MutexOwned'
  BY <1>2 DEF Call, CallPush, CallTryPush, CallPop, CallTryPop, CallAbort, Goto
<1>3. ASSUME NEW t \in Threads, TakeMutex(t) \/ SpuriousWakeup(t)
      PROVE  MutexOwned'
  BY <1>3 DEF TakeMutex, PushLock, PushWake, PopLock, PopWake, AbortLock, Acquire,
     SpuriousWakeup, Goto
<1>4. ASSUME NEW t \in Threads, Run(t)
      PROVE  MutexOwned'
  <2>1. CASE PushTest(t) \/ PushWoken(t)
    BY <2>1 DEF PushTest, PushWoken, PushLoop, Fail, Goto
  <2>2. CASE PopTest(t) \/ PopWoken(t)
    BY <2>2 DEF PopTest, PopWoken, PopLoop, Fail, Goto
  <2>3. CASE PushStore(t) \/ PopCopy(t)
    BY <2>3 DEF PushStore, PopCopy, Goto
  <2>4. CASE PushSignal(t) \/ PopSignal(t)
    BY <2>4 DEF PushSignal, PopSignal, SignalAndGo, Goto
  <2>5. CASE TryPushTest(t) \/ TryPopTest(t)
    BY <2>5 DEF TryPushTest, TryPopTest, Fail, Goto
  <2>6. CASE AbortSet(t)
    BY <2>6 DEF AbortSet, Woken
  <2>7. CASE Unlock(t)
    BY <2>7 DEF Unlock, Goto
  <2>8. QED
    BY <1>4, <2>1, <2>2, <2>3, <2>4, <2>5, <2>6, <2>7, ZenonT(30) DEF Run
<1>5. QED
  BY <1>1, <1>2, <1>3, <1>4 DEF Next

\* Only the owner of the mutex changes the ring, and it moves write_pointer or
\* read_pointer by one exactly when it changes queue_size by one.
LEMMA RingStep ==
  ASSUME IInv, [Next]_vars
  PROVE  RingConsistent'
<1> USE DEF IInv, TypeOK, MutexOwned, RingConsistent, Holding, Pushing
<1>1. CASE UNCHANGED vars
  BY <1>1 DEF vars
<1>2. ASSUME NEW t \in Threads, Call(t)
      PROVE  RingConsistent'
  BY <1>2 DEF Call, CallPush, CallTryPush, CallPop, CallTryPop, CallAbort, Goto, buffer
<1>3. ASSUME NEW t \in Threads, TakeMutex(t) \/ SpuriousWakeup(t)
      PROVE  RingConsistent'
  BY <1>3, ZenonT(30) DEF TakeMutex, PushLock, PushWake, PopLock, PopWake, AbortLock, Acquire,
     SpuriousWakeup, Goto, buffer
<1>4. ASSUME NEW t \in Threads, Run(t)
      PROVE  RingConsistent'
  <2>1. CASE PushTest(t) \/ PushWoken(t)
    BY <2>1, CapacityAssumption DEF PushTest, PushWoken, PushLoop, Fail, Goto, buffer,
       queue_is_full
  <2>2. CASE PopTest(t) \/ PopWoken(t)
    BY <2>2 DEF PopTest, PopWoken, PopLoop, Fail, Goto, buffer, queue_is_empty
  <2>3. CASE PushStore(t)
    <3>1. write' = (read' + size') % Capacity
      BY <2>3, PushedRing DEF PushStore
    <3>2. QED
      BY <2>3, <3>1 DEF PushStore, Goto
  <2>4. CASE PopCopy(t)
    <3>1. write' = (read' + size') % Capacity
      BY <2>4, PoppedRing DEF PopCopy
    <3>2. QED
      BY <2>4, <3>1 DEF PopCopy, Goto
  <2>5. CASE PushSignal(t) \/ PopSignal(t)
    BY <2>5 DEF PushSignal, PopSignal, SignalAndGo, Goto, buffer
  <2>6. CASE TryPushTest(t) \/ TryPopTest(t)
    BY <2>6, CapacityAssumption DEF TryPushTest, TryPopTest, Fail, Goto, buffer,
       queue_is_full, queue_is_empty
  <2>7. CASE AbortSet(t)
    BY <2>7 DEF AbortSet, Woken, buffer
  <2>8. CASE Unlock(t)
    BY <2>8 DEF Unlock, Goto, buffer
  <2>9. QED
    BY <1>4, <2>1, <2>2, <2>3, <2>4, <2>5, <2>6, <2>7, <2>8, ZenonT(30) DEF Run
<1>5. QED
  BY <1>1, <1>2, <1>3, <1>4 DEF Next

\* The counters are exact: a thread is counted in the same step as it enters or
\* leaves pthread_cond_wait.
LEMMA CountStep ==
  ASSUME IInv, [Next]_vars
  PROVE  WaitersCounted'
<1> DEFINE Counted == /\ waitingForPush' = Count(pc', PushCounted)
                      /\ waitingForPop' = Count(pc', PopCounted)
<1>1. /\ waitingForPush = Count(pc, PushCounted)
      /\ waitingForPop = Count(pc, PopCounted)
  BY DEF IInv, WaitersCounted, Count, At
<1>2. /\ waitingForPush \in Nat /\ waitingForPop \in Nat
      /\ pc \in [Threads -> Places]
  BY DEF IInv, TypeOK
<1>3. SUFFICES Counted
  BY DEF WaitersCounted, Count, At
<1>4. ASSUME NEW t \in Threads, NEW q, pc' = [pc EXCEPT ![t] = q]
      PROVE  /\ Count(pc', PushCounted)
                  = waitingForPush + In(q, PushCounted) - In(pc[t], PushCounted)
             /\ Count(pc', PopCounted)
                  = waitingForPop + In(q, PopCounted) - In(pc[t], PopCounted)
  <2>1. pc'[t] = q /\ OneMove(pc, pc', t)
    BY <1>2, <1>4 DEF OneMove
  <2>2. \A places : Count(pc', places)
                       = Count(pc, places) + In(pc'[t], places) - In(pc[t], places)
    BY <2>1, MoveCount
  <2>3. QED
    BY <1>1, <2>1, <2>2
<1> USE DEF PushCounted, PopCounted, In
<1>5. CASE UNCHANGED vars
  BY <1>1, <1>5 DEF vars
<1>6. ASSUME NEW t \in Threads, Call(t)
      PROVE  Counted
  BY <1>1, <1>2, <1>4, <1>6
  DEF Call, CallPush, CallTryPush, CallPop, CallTryPop, CallAbort, Goto, waiting
<1>7. ASSUME NEW t \in Threads, TakeMutex(t) \/ SpuriousWakeup(t)
      PROVE  Counted
  BY <1>1, <1>2, <1>4, <1>7
  DEF TakeMutex, PushLock, PushWake, PopLock, PopWake, AbortLock, Acquire,
      SpuriousWakeup, Goto, waiting
<1>8. ASSUME NEW t \in Threads, Run(t)
      PROVE  Counted
  <2>1. CASE PushTest(t) \/ PushWoken(t)
    BY <1>1, <1>2, <1>4, <2>1 DEF PushTest, PushWoken, PushLoop, Fail, Goto
  <2>2. CASE PopTest(t) \/ PopWoken(t)
    BY <1>1, <1>2, <1>4, <2>2 DEF PopTest, PopWoken, PopLoop, Fail, Goto
  <2>3. CASE PushStore(t) \/ PopCopy(t) \/ TryPushTest(t) \/ TryPopTest(t) \/ Unlock(t)
    BY <1>1, <1>2, <1>4, <2>3
    DEF PushStore, PopCopy, TryPushTest, TryPopTest, Unlock, Fail, Goto, waiting
  <2>4. CASE PushSignal(t) \/ PopSignal(t)
    <3>1. UNCHANGED waiting /\ pc[t] \in {"push_signal", "pop_signal"}
      BY <2>4 DEF PushSignal, PopSignal
    <3>2. CASE pc' = [pc EXCEPT ![t] = "unlock"]
      <4>1. /\ In(pc[t], PushCounted) = 0 /\ In(pc[t], PopCounted) = 0
            /\ In("unlock", PushCounted) = 0 /\ In("unlock", PopCounted) = 0
        BY <3>1
      <4> HIDE DEF PushCounted, PopCounted, In
      <4>2. /\ Count(pc', PushCounted) = waitingForPush + 0 - 0
            /\ Count(pc', PopCounted) = waitingForPop + 0 - 0
        BY <1>4, <3>2, <4>1, ZenonT(30)
      <4>3. QED
        BY <1>2, <3>1, <4>2 DEF waiting
    <3>3. ASSUME NEW u \in Threads, NEW awake \in {"push_wake", "pop_wake"},
                 pc[u] = IF awake = "push_wake" THEN "push_wait" ELSE "pop_wait",
                 pc' = [pc EXCEPT ![u] = awake, ![t] = "unlock"]
          PROVE  Counted
      <4>1. /\ In(pc[t], PushCounted) = 0 /\ In(pc[t], PopCounted) = 0
            /\ In("unlock", PushCounted) = 0 /\ In("unlock", PopCounted) = 0
            /\ In(pc[u], PushCounted) = In(awake, PushCounted)
            /\ In(pc[u], PopCounted) = In(awake, PopCounted)
            /\ In(awake, PushCounted) \in Nat /\ In(awake, PopCounted) \in Nat
        BY <3>1, <3>3
      <4> HIDE DEF PushCounted, PopCounted, In
      <4>2. u # t /\ pc'[t] = "unlock" /\ pc'[u] = awake
        BY <1>2, <3>1, <3>3
      <4>3. TwoMove(pc, pc', t, u)
        BY <1>2, <3>3, <4>2 DEF TwoMove
      <4>4. \A places : Count(pc', places)
               = Count(pc, places) + In(pc'[t], places) - In(pc[t], places)
                   + In(pc'[u], places) - In(pc[u], places)
        BY <4>3, MoveTwoCount
      <4>5. QED
        BY <1>1, <1>2, <3>1, <4>1, <4>2, <4>4 DEF waiting
    <3>4. QED
      BY <2>4, <3>2, <3>3 DEF PushSignal, PopSignal, SignalAndGo, Goto
  <2>5. CASE AbortSet(t)
    <3>1. \A u \in Threads : pc[u] \in PushCounted <=> pc'[u] \in PushCounted
      BY <1>2, <2>5 DEF AbortSet, Woken
    <3>2. \A u \in Threads : pc[u] \in PopCounted <=> pc'[u] \in PopCounted
      BY <1>2, <2>5 DEF AbortSet, Woken
    <3> HIDE DEF PushCounted, PopCounted, In
    <3>3. Count(pc', PushCounted) = Count(pc, PushCounted)
      BY <3>1, SameCount
    <3>4. Count(pc', PopCounted) = Count(pc, PopCounted)
      BY <3>2, SameCount
    <3>5. QED
      BY <1>1, <2>5, <3>3, <3>4 DEF AbortSet, waiting
  <2>6. QED
    BY <1>8, <2>1, <2>2, <2>3, <2>4, <2>5 DEF Run
<1>9. QED
  BY <1>5, <1>6, <1>7, <1>8 DEF Next

\* No wakeup is lost: a slot is freed (an element is stored) in the same step as
\* the thread that will signal it joins ToStore (ToRemove); the signal hands that
\* place to a sleeper if there is one; and a thread leaves without using the slot
\* (the element) only when there is none.
LEMMA WakeStep ==
  ASSUME IInv, [Next]_vars
  PROVE  NoLostWakeup'
<1> DEFINE
      PushOwed == (\E u \in Threads : pc[u] = "push_wait") =>
                     Capacity - size <= Count(pc, ToStore)
      PopOwed == (\E u \in Threads : pc[u] = "pop_wait") => size <= Count(pc, ToRemove)
      Awake == aborted => \A u \in Threads : pc[u] \notin {"push_wait", "pop_wait"}
      Owed == PushOwed /\ PopOwed /\ Awake
<1>1. Owed
  BY DEF IInv, NoLostWakeup, Count, At
<1>2. SUFFICES Owed'
  BY DEF NoLostWakeup, Count, At
<1>3. /\ pc \in [Threads -> Places] /\ size \in 0 .. Capacity /\ Capacity \in Nat
      /\ Count(pc, ToStore) \in Nat /\ Count(pc, ToRemove) \in Nat
  BY CountType, CapacityAssumption DEF IInv, TypeOK
\* The change of the two counts is that of the moving thread alone.
<1>4. ASSUME NEW t \in Threads, NEW q, pc' = [pc EXCEPT ![t] = q]
      PROVE  /\ Count(pc', ToStore)
                  = Count(pc, ToStore) + In(q, ToStore) - In(pc[t], ToStore)
             /\ Count(pc', ToRemove)
                  = Count(pc, ToRemove) + In(q, ToRemove) - In(pc[t], ToRemove)
  <2>1. pc'[t] = q /\ OneMove(pc, pc', t)
    BY <1>3, <1>4 DEF OneMove
  <2>2. \A places : Count(pc', places)
                       = Count(pc, places) + In(pc'[t], places) - In(pc[t], places)
    BY <2>1, MoveCount
  <2>3. QED
    BY <2>1, <2>2
<1>5. CASE UNCHANGED vars
  BY <1>1, <1>5, ZenonT(30) DEF vars
<1>6. ASSUME NEW t \in Threads, Call(t)
      PROVE  Owed'
  BY <1>1, <1>3, <1>4, <1>6
  DEF Call, CallPush, CallTryPush, CallPop, CallTryPop, CallAbort, Goto, buffer,
      ToStore, ToRemove, In
<1>7. ASSUME NEW t \in Threads, TakeMutex(t) \/ SpuriousWakeup(t)
      PROVE  Owed'
  BY <1>1, <1>3, <1>4, <1>7
  DEF TakeMutex, PushLock, PushWake, PopLock, PopWake, AbortLock, Acquire,
      SpuriousWakeup, Goto, buffer, ToStore, ToRemove, In
<1>8. ASSUME NEW t \in Threads, Run(t)
      PROVE  Owed'
  <2>1. CASE PushTest(t) \/ PushWoken(t)
    <3>1. PICK q \in {"fail", "push_wait", "push_store"} :
             /\ pc' = [pc EXCEPT ![t] = q]
             /\ q # "push_store" => size = Capacity
             /\ q = "push_wait" => ~aborted
      BY <2>1 DEF PushTest, PushWoken, PushLoop, Fail, Goto, queue_is_full
    <3>2. /\ pc[t] \in {"push_test", "push_woken"}
          /\ size' = size /\ aborted' = aborted
      BY <2>1 DEF PushTest, PushWoken, buffer
    <3>3. /\ In(q, ToRemove) = 0 /\ In(pc[t], ToRemove) = 0
          /\ In(q, ToStore) \in 0 .. 1 /\ In(pc[t], ToStore) \in 0 .. 1
          /\ q = "push_store" => In(q, ToStore) = 1
      BY <3>1, <3>2 DEF ToStore, ToRemove, In
    <3>4. /\ Count(pc', ToRemove) = Count(pc, ToRemove)
          /\ Count(pc', ToStore) = Count(pc, ToStore) + In(q, ToStore) - In(pc[t], ToStore)
      <4>1. pc'[t] = q /\ OneMove(pc, pc', t)
        BY <1>3, <3>1 DEF OneMove
      <4>2. QED
        BY <1>3, <3>3, <4>1, MoveCount
    <3>5. Count(pc', ToStore) \in Nat
      BY CountType
    <3>6. PushOwed'
      BY <1>1, <1>3, <3>1, <3>2, <3>3, <3>4, <3>5
    <3>7. PopOwed' /\ Awake'
      BY <1>1, <1>3, <3>1, <3>2, <3>4
    <3>8. QED
      BY <3>6, <3>7
  <2>2. CASE PopTest(t) \/ PopWoken(t)
    <3>1. PICK q \in {"fail", "pop_wait", "pop_copy"} :
             /\ pc' = [pc EXCEPT ![t] = q]
             /\ q # "pop_copy" => size = 0
             /\ q = "pop_wait" => ~aborted
      BY <2>2 DEF PopTest, PopWoken, PopLoop, Fail, Goto, queue_is_empty
    <3>2. /\ pc[t] \in {"pop_test", "pop_woken"}
          /\ size' = size /\ aborted' = aborted
      BY <2>2 DEF PopTest, PopWoken, buffer
    <3>3. /\ In(q, ToStore) = 0 /\ In(pc[t], ToStore) = 0
          /\ In(q, ToRemove) \in 0 .. 1 /\ In(pc[t], ToRemove) \in 0 .. 1
          /\ q = "pop_copy" => In(q, ToRemove) = 1
      BY <3>1, <3>2 DEF ToStore, ToRemove, In
    <3>4. /\ Count(pc', ToStore) = Count(pc, ToStore)
          /\ Count(pc', ToRemove) = Count(pc, ToRemove) + In(q, ToRemove) - In(pc[t], ToRemove)
      <4>1. pc'[t] = q /\ OneMove(pc, pc', t)
        BY <1>3, <3>1 DEF OneMove
      <4>2. QED
        BY <1>3, <3>3, <4>1, MoveCount
    <3>5. Count(pc', ToRemove) \in Nat
      BY CountType
    <3>6. PopOwed'
      BY <1>1, <1>3, <3>1, <3>2, <3>3, <3>4, <3>5
    <3>7. PushOwed' /\ Awake'
      BY <1>1, <1>3, <3>1, <3>2, <3>4
    <3>8. QED
      BY <3>6, <3>7
  <2>3. CASE PushStore(t)
    <3>1. /\ pc' = [pc EXCEPT ![t] = "push_signal"] /\ pc[t] = "push_store"
          /\ size' = size + 1 /\ aborted' = aborted
      BY <2>3 DEF PushStore, Goto
    <3>2. /\ In("push_store", ToStore) = 1 /\ In("push_signal", ToStore) = 0
          /\ In("push_store", ToRemove) = 0 /\ In("push_signal", ToRemove) = 1
      BY DEF ToStore, ToRemove, In
    <3>3. /\ Count(pc', ToStore) = Count(pc, ToStore) - 1
          /\ Count(pc', ToRemove) = Count(pc, ToRemove) + 1
      <4>1. pc[t] = "push_store" /\ pc'[t] = "push_signal" /\ OneMove(pc, pc', t)
        BY <1>3, <3>1 DEF OneMove
      <4>2. QED
        BY <1>3, <3>2, <4>1, MoveCount
    <3>4. QED
      BY <1>1, <1>3, <3>1, <3>3
  <2>4. CASE PopCopy(t)
    <3>1. /\ pc' = [pc EXCEPT ![t] = "pop_signal"] /\ pc[t] = "pop_copy"
          /\ size' = size - 1 /\ aborted' = aborted
      BY <2>4 DEF PopCopy, Goto
    <3>2. /\ In("pop_copy", ToStore) = 0 /\ In("pop_signal", ToStore) = 1
          /\ In("pop_copy", ToRemove) = 1 /\ In("pop_signal", ToRemove) = 0
      BY DEF ToStore, ToRemove, In
    <3>3. /\ Count(pc', ToStore) = Count(pc, ToStore) + 1
          /\ Count(pc', ToRemove) = Count(pc, ToRemove) - 1
      <4>1. pc[t] = "pop_copy" /\ pc'[t] = "pop_signal" /\ OneMove(pc, pc', t)
        BY <1>3, <3>1, ZenonT(30) DEF OneMove
      <4>2. QED
        BY <1>3, <3>2, <4>1, MoveCount
    <3>4. QED
      BY <1>1, <1>3, <3>1, <3>3
  <2>5. CASE TryPushTest(t) \/ TryPopTest(t) \/ Unlock(t)
    BY <1>1, <1>3, <1>4, <2>5
    DEF TryPushTest, TryPopTest, Unlock, Fail, Goto, buffer, ToStore, ToRemove, In
  <2>6. CASE AbortSet(t)
    BY <1>3, <2>6 DEF AbortSet, Woken
  <2>7. CASE PushSignal(t) \/ PopSignal(t)
    <3>1. /\ size' = size /\ aborted' = aborted
          /\ pc[t] \in {"push_signal", "pop_signal"}
      BY <2>7 DEF PushSignal, PopSignal, buffer
    <3>2. CASE /\ pc' = [pc EXCEPT ![t] = "unlock"]
               /\ pc[t] = "push_signal" => \A u \in Threads : pc[u] # "pop_wait"
               /\ pc[t] = "pop_signal" => \A u \in Threads : pc[u] # "push_wait"
      <4>1. /\ In("unlock", ToStore) = 0 /\ In("unlock", ToRemove) = 0
            /\ pc[t] = "pop_signal" => In(pc[t], ToRemove) = 0
            /\ pc[t] = "push_signal" => In(pc[t], ToStore) = 0
        BY DEF ToStore, ToRemove, In
      <4>2. /\ pc[t] = "pop_signal" => Count(pc', ToRemove) = Count(pc, ToRemove)
            /\ pc[t] = "push_signal" => Count(pc', ToStore) = Count(pc, ToStore)
        <5>1. pc'[t] = "unlock" /\ OneMove(pc, pc', t)
          BY <1>3, <3>2 DEF OneMove
        <5>2. QED
          BY <1>3, <4>1, <5>1, MoveCount
      <4>3. QED
        BY <1>1, <1>3, <3>1, <3>2, <4>2
    <3>3. ASSUME NEW u \in Threads, NEW awake,
                 \/ pc[t] = "push_signal" /\ pc[u] = "pop_wait" /\ awake = "pop_wake"
                 \/ pc[t] = "pop_signal" /\ pc[u] = "push_wait" /\ awake = "push_wake",
                 pc' = [pc EXCEPT ![u] = awake, ![t] = "unlock"]
          PROVE  Owed'
      <4>1. u # t /\ pc'[t] = "unlock" /\ pc'[u] = awake
        BY <1>3, <3>3
      <4>2. TwoMove(pc, pc', t, u)
        BY <1>3, <3>3, <4>1 DEF TwoMove
      <4>3. \A places : Count(pc', places)
               = Count(pc, places) + In(pc'[t], places) - In(pc[t], places)
                   + In(pc'[u], places) - In(pc[u], places)
        BY <4>2, MoveTwoCount
      <4>4. /\ In(pc'[t], ToStore) = 0 /\ In(pc'[t], ToRemove) = 0
            /\ In(pc[u], ToStore) = 0 /\ In(pc[u], ToRemove) = 0
            /\ In(pc[t], ToStore) = In(pc'[u], ToStore)
            /\ In(pc[t], ToRemove) = In(pc'[u], ToRemove)
            /\ In(pc[t], ToStore) \in Nat /\ In(pc[t], ToRemove) \in Nat
        BY <3>3, <4>1 DEF ToStore, ToRemove, In
      <4>5. /\ Count(pc', ToStore) = Count(pc, ToStore)
            /\ Count(pc', ToRemove) = Count(pc, ToRemove)
        BY <1>3, <4>3, <4>4
      <4>6. QED
        BY <1>1, <1>3, <3>1, <3>3, <4>5
    <3>4. QED
      BY <2>7, <3>2, <3>3 DEF PushSignal, PopSignal, SignalAndGo, Goto
  <2>8. QED
    BY <1>8, <2>1, <2>2, <2>3, <2>4, <2>5, <2>6, <2>7 DEF Run
<1>9. QED
  BY <1>5, <1>6, <1>7, <1>8 DEF Next

-----------------------------------------------------------------------------
(* The theorems. *)

\* The queue that queue_create returns satisfies the invariant.
LEMMA InitIInv == Init => IInv
<1> SUFFICES ASSUME Init PROVE IInv
  OBVIOUS
<1> USE CapacityAssumption, ElementAssumption, ThreadAssumption DEF Init
<1>1. TypeOK
  <2>1. size \in 0 .. Capacity /\ read \in Slots /\ write \in Slots
    BY DEF Slots
  <2>2. memory \in [Slots -> Elements] /\ elem \in [Threads -> Elements \cup {NULL}]
    OBVIOUS
  <2>3. errno \in [Threads -> Errors] /\ pc \in [Threads -> Places]
    BY DEF Errors, Places
  <2>4. QED
    BY <2>1, <2>2, <2>3, ZenonT(30) DEF TypeOK
<1>2. MutexOwned
  BY DEF MutexOwned, Holding
<1>3. RingConsistent
  BY DEF RingConsistent, Pushing
<1>4. \A places : "idle" \notin places => At(places) = {}
  BY DEF At
<1>5. WaitersCounted
  BY <1>4, FS_EmptySet DEF WaitersCounted, PushCounted, PopCounted
<1>6. NoLostWakeup
  BY <1>4 DEF NoLostWakeup
<1>7. QED
  BY <1>1, <1>2, <1>3, <1>5, <1>6 DEF IInv

\* Every step of every operation preserves the invariant.
LEMMA NextIInv == IInv /\ [Next]_vars => IInv'
  BY TypeStep, MutexStep, RingStep, CountStep, WakeStep DEF IInv

\* The inductive invariant holds in every behaviour of the queue.
LEMMA Invariance == Spec => []IInv
  BY InitIInv, NextIInv, PTL DEF Spec

\* Every field of struct queue keeps its type, in particular the two unsigned
\* counters never go below zero and queue_size never exceeds the capacity.
THEOREM TypeCorrect == Spec => []TypeOK
  BY Invariance, PTL DEF IInv

\* queue_mutex gives mutual exclusion to the code between lock and unlock, and
\* no path through the operations returns with the mutex held.
THEOREM MutualExclusion == Spec => []MutexOwned
  BY Invariance, PTL DEF IInv

\* The ring buffer's pointers and size agree at every moment.
THEOREM RingCorrect == Spec => []RingConsistent
  BY Invariance, PTL DEF IInv

\* waiting_for_push and waiting_for_pop count the threads in pthread_cond_wait.
THEOREM CountersCorrect == Spec => []WaitersCounted
  BY Invariance, PTL DEF IInv

\* One pthread_cond_signal per operation is enough: no wakeup is ever lost.
THEOREM WakeupsCorrect == Spec => []NoLostWakeup
  BY Invariance, PTL DEF IInv

\* When every thread is idle or asleep, the pushers sleep on a full queue and the
\* poppers on an empty one.
THEOREM BlockedCorrect == Spec => []SleepOnlyWhenBlocked
<1>1. IInv => SleepOnlyWhenBlocked
  <2> SUFFICES ASSUME IInv, At({"idle", "push_wait", "pop_wait"}) = Threads
               PROVE  /\ At({"push_wait"}) # {} => queue_is_full
                      /\ At({"pop_wait"}) # {} => queue_is_empty
    BY DEF SleepOnlyWhenBlocked
  <2>1. At(ToStore) = {} /\ At(ToRemove) = {}
    BY DEF At, ToStore, ToRemove
  <2>2. Cardinality(At(ToStore)) = 0 /\ Cardinality(At(ToRemove)) = 0
    BY <2>1, FS_EmptySet
  <2>3. QED
    BY <2>2, CapacityAssumption DEF IInv, NoLostWakeup, TypeOK, queue_is_full, queue_is_empty
<1>2. QED
  BY <1>1, Invariance, PTL

-----------------------------------------------------------------------------
(* Queue implements BoundedFifo, and what queue_pop gives its caller. *)

\* What the ring buffer holds between read_pointer and write_pointer is a sequence
\* of queue_size elements.
LEMMA ContentsIsSeq ==
  ASSUME TypeOK
  PROVE  Contents \in Seq(Elements) /\ Len(Contents) = size /\ DOMAIN Contents = 1 .. size
<1>1. \A i \in 1 .. size : (read + i - 1) % Capacity \in Slots
  BY CapacityAssumption DEF TypeOK, Slots
<1>2. \A i \in 1 .. size : memory[(read + i - 1) % Capacity] \in Elements
  BY <1>1 DEF TypeOK
<1>3. size \in Nat
  BY CapacityAssumption DEF TypeOK
<1>4. Contents \in [1 .. size -> Elements]
  BY <1>2 DEF Contents
<1>5. QED
  BY <1>3, <1>4

\* A stored element becomes the youngest: the slot at write_pointer is the one
\* after the youngest, and no other slot changes.
LEMMA StoreAppends ==
  ASSUME IInv, IInv', NEW t \in Threads, PushStore(t)
  PROVE  Contents' = Append(Contents, elem[t]) /\ elem[t] \in Elements /\ size < Capacity
<1>1. /\ size \in 0 .. Capacity /\ read \in Slots /\ write \in Slots
      /\ memory \in [Slots -> Elements] /\ Capacity \in Nat \ {0}
      /\ write = (read + size) % Capacity
  BY CapacityAssumption DEF IInv, TypeOK, RingConsistent
<1>2. elem[t] \in Elements /\ size < Capacity
  BY DEF IInv, RingConsistent, PushStore, Pushing
<1>3. size' = size + 1 /\ read' = read /\ memory' = [memory EXCEPT ![write] = elem[t]]
  BY DEF PushStore
<1>4. ASSUME NEW i \in 1 .. size
      PROVE  (read + i - 1) % Capacity \in Slots \ {write}
  <2>1. i - 1 \in 0 .. Capacity /\ read + (i - 1) = read + i - 1
    BY <1>1 DEF Slots
  <2>2. (read + (i - 1)) % Capacity
          = IF read + (i - 1) < Capacity THEN read + (i - 1) ELSE read + (i - 1) - Capacity
    BY <1>1, <2>1, SlotAhead, ZenonT(30)
  <2>3. write = IF read + size < Capacity THEN read + size ELSE read + size - Capacity
    BY <1>1, SlotAhead, ZenonT(30)
  <2>4. QED
    BY <1>1, <1>2, <2>1, <2>2, <2>3 DEF Slots
<1>5. \A i \in 1 .. size : memory'[(read + i - 1) % Capacity] = memory[(read + i - 1) % Capacity]
  BY <1>1, <1>3, <1>4, ZenonT(30)
<1>6. memory'[(read + (size + 1) - 1) % Capacity] = elem[t]
  BY <1>1, <1>3 DEF Slots
<1>7. Contents' = [i \in 1 .. size + 1 |-> memory'[(read + i - 1) % Capacity]]
  BY <1>3 DEF Contents
<1>8. Contents' = [i \in 1 .. size + 1 |-> IF i = size + 1 THEN elem[t] ELSE Contents[i]]
  <2>1. ASSUME NEW i \in 1 .. size + 1
        PROVE  memory'[(read + i - 1) % Capacity] = IF i = size + 1 THEN elem[t] ELSE Contents[i]
    <3>1. CASE i = size + 1
      BY <1>6, <3>1
    <3>2. CASE i # size + 1
      <4>1. i \in 1 .. size
        BY <1>1, <3>2
      <4>2. QED
        BY <1>5, <3>2, <4>1 DEF Contents
    <3>3. QED
      BY <3>1, <3>2
  <2>2. QED
    BY <1>7, <2>1
<1>9. QED
  BY <1>1, <1>2, <1>8, ContentsIsSeq DEF IInv

\* The slot given up is that of the oldest element.
LEMMA CopyTails ==
  ASSUME IInv, IInv', NEW t \in Threads, PopCopy(t)
  PROVE  Contents # << >> /\ Contents' = Tail(Contents)
<1>1. /\ size \in 0 .. Capacity /\ read \in Slots /\ Capacity \in Nat \ {0}
      /\ size > 0
  BY CapacityAssumption DEF IInv, TypeOK, RingConsistent, PopCopy
<1>2. size' = size - 1 /\ read' = (read + 1) % Capacity /\ memory' = memory
  BY DEF PopCopy
<1>3. ASSUME NEW i \in 1 .. size - 1
      PROVE  (((read + 1) % Capacity) + i - 1) % Capacity = (read + (i + 1) - 1) % Capacity
  <2>1. i \in 0 .. Capacity /\ i > 0
    BY <1>1
  <2>2. (((read + 1) % Capacity) + (i - 1)) % Capacity = (read + i) % Capacity
    BY <1>1, <2>1, PoppedRing
  <2>3. (read + 1) % Capacity \in Nat
    BY <1>1, NextSlot DEF Slots
  <2>4. /\ ((read + 1) % Capacity) + i - 1 = ((read + 1) % Capacity) + (i - 1)
        /\ read + (i + 1) - 1 = read + i
    BY <1>1, <2>3 DEF Slots
  <2>5. QED
    BY <2>2, <2>4
<1>4. Contents' = [i \in 1 .. size - 1 |-> memory[(((read + 1) % Capacity) + i - 1) % Capacity]]
  BY <1>2 DEF Contents
<1>5. Contents' = [i \in 1 .. size - 1 |-> Contents[i + 1]]
  <2>1. ASSUME NEW i \in 1 .. size - 1
        PROVE  memory[(((read + 1) % Capacity) + i - 1) % Capacity] = Contents[i + 1]
    <3>1. i + 1 \in 1 .. size
      BY <1>1
    <3>2. Contents[i + 1] = memory[(read + (i + 1) - 1) % Capacity]
      BY <3>1 DEF Contents
    <3>3. QED
      BY <1>3, <3>2
  <2>2. QED
    BY <1>4, <2>1
<1>6. Contents \in Seq(Elements) /\ Len(Contents) = size
  BY ContentsIsSeq DEF IInv
<1> HIDE DEF Contents
<1>7. Contents # << >> /\ Tail(Contents) = [i \in 1 .. size - 1 |-> Contents[i + 1]]
  <2>1. Contents # << >>
    BY <1>1, <1>6
  <2> DEFINE rest == [i \in 1 .. size - 1 |-> Contents[i + 1]]
  <2>2. /\ Tail(Contents) \in Seq(Elements) /\ Len(Tail(Contents)) = size - 1
        /\ \A i \in 1 .. Len(Tail(Contents)) : Tail(Contents)[i] = Contents[i + 1]
    BY <1>6, <2>1, HeadTailProperties
  <2>3. rest \in Seq(Elements) /\ Len(rest) = size - 1
    <3>1. size - 1 \in Nat /\ \A i \in 1 .. size - 1 : Contents[i + 1] \in Elements
      BY <1>1, <1>6
    <3>2. QED
      BY <3>1
  <2>4. \A i \in 1 .. Len(Tail(Contents)) : Tail(Contents)[i] = rest[i]
    BY <2>2
  <2>5. Len(Tail(Contents)) = Len(rest)
    BY <2>2, <2>3
  <2> HIDE DEF rest
  <2>6. Tail(Contents) = rest
    BY <2>2, <2>3, <2>4, <2>5, SeqEqual
  <2>7. QED
    BY <2>1, <2>6 DEF rest
<1>8. QED
  BY <1>5, <1>7, ZenonT(30)

\* A step that leaves the ring and the flag alone is a stutter.
LEMMA OthersStutter ==
  ASSUME UNCHANGED <<buffer, aborted>>
  PROVE  UNCHANGED Fifo!fifoVars
  BY DEF buffer, Contents, Fifo!fifoVars

\* Every step of every operation is a step of the bounded FIFO or leaves it alone.
LEMMA FifoStep ==
  ASSUME IInv, IInv', [Next]_vars
  PROVE  [Fifo!FifoNext]_(Fifo!fifoVars)
<1>1. CASE UNCHANGED vars
  BY <1>1, OthersStutter, ZenonT(30) DEF vars, buffer
<1>2. ASSUME NEW t \in Threads, Call(t) \/ TakeMutex(t) \/ SpuriousWakeup(t)
      PROVE  UNCHANGED <<buffer, aborted>>
  BY <1>2
  DEF Call, CallPush, CallTryPush, CallPop, CallTryPop, CallAbort, TakeMutex, PushLock,
      PushWake, PopLock, PopWake, AbortLock, Acquire, SpuriousWakeup
<1>3. ASSUME NEW t \in Threads, Run(t)
      PROVE  [Fifo!FifoNext]_(Fifo!fifoVars)
  <2>1. CASE PushStore(t)
    <3>1. Contents' = Append(Contents, elem[t]) /\ elem[t] \in Elements /\ Len(Contents) < Capacity
      BY <2>1, StoreAppends, ContentsIsSeq DEF IInv
    <3>2. Fifo!Enqueue(elem[t])
      BY <2>1, <3>1 DEF Fifo!Enqueue, PushStore
    <3>3. QED
      BY <3>1, <3>2 DEF Fifo!FifoNext
  <2>2. CASE PopCopy(t)
    <3>1. Fifo!Dequeue
      BY <2>2, CopyTails, ZenonT(30) DEF Fifo!Dequeue, PopCopy
    <3>2. QED
      BY <3>1 DEF Fifo!FifoNext
  <2>3. CASE AbortSet(t)
    <3>1. Fifo!Stop
      BY <2>3 DEF Fifo!Stop, AbortSet, buffer, Contents
    <3>2. QED
      BY <3>1 DEF Fifo!FifoNext
  <2>4. CASE \/ PushTest(t) \/ PushWoken(t) \/ PushSignal(t) \/ TryPushTest(t)
             \/ PopTest(t) \/ PopWoken(t) \/ PopSignal(t) \/ TryPopTest(t) \/ Unlock(t)
    <3>1. UNCHANGED <<buffer, aborted>>
      BY <2>4 DEF PushTest, PushWoken, PushSignal, TryPushTest, PopTest, PopWoken, PopSignal,
         TryPopTest, Unlock
    <3>2. QED
      BY <3>1, OthersStutter, ZenonT(30)
  <2>5. QED
    BY <1>3, <2>1, <2>2, <2>3, <2>4 DEF Run
<1>4. QED
  BY <1>1, <1>2, <1>3, OthersStutter DEF Next

\* The queue that queue_create returns is an empty FIFO.
LEMMA FifoInitial ==
  ASSUME Init
  PROVE  Fifo!FifoInit
  BY DEF Init, Contents, Fifo!FifoInit

\* The ring buffer under the mutex is a bounded first-in first-out queue: what
\* queue_push and queue_try_push store is appended, what queue_pop and
\* queue_try_pop remove is the oldest element, and the abort flag only rises.
THEOREM Refinement == Spec => ImplementsFifo
<1>1. Init => Fifo!FifoInit
  BY FifoInitial
<1>2. IInv /\ IInv' /\ [Next]_vars => [Fifo!FifoNext]_(Fifo!fifoVars)
  BY FifoStep
<1>3. QED
  BY <1>1, <1>2, Invariance, PTL DEF Spec, ImplementsFifo, Fifo!FifoSpec

\* queue_pop and queue_try_pop read the slot at write_pointer; on a full queue it
\* is the slot at read_pointer, so there the caller gets the element removed.
THEOREM FullPopCorrect == Spec => PopFromFullReturnsOldest
<1> DEFINE Good == \A t \in Threads :
                     pc[t] = "pop_copy" /\ pc'[t] = "pop_signal" /\ queue_is_full =>
                        elem'[t] \in {NULL, Contents[1]}
<1>1. IInv /\ [Next]_vars => [Good]_vars
  <2> SUFFICES ASSUME IInv, [Next]_vars, NEW t \in Threads, pc[t] = "pop_copy",
                      pc'[t] = "pop_signal", queue_is_full
               PROVE  elem'[t] \in {NULL, Contents[1]}
    OBVIOUS
  <2>1. /\ size = Capacity /\ Capacity \in Nat \ {0} /\ read \in Slots
        /\ write = (read + size) % Capacity /\ elem \in [Threads -> Elements \cup {NULL}]
        /\ pc \in [Threads -> Places]
    BY CapacityAssumption DEF IInv, TypeOK, RingConsistent, queue_is_full
  <2>2. write = read
    <3>1. Capacity \in 0 .. Capacity
      BY <2>1
    <3>2. (read + Capacity) % Capacity
            = IF read + Capacity < Capacity THEN read + Capacity ELSE read + Capacity - Capacity
      BY <2>1, <3>1, SlotAhead
    <3>3. QED
      BY <2>1, <3>2 DEF Slots
  <2>3. Contents[1] = memory[read]
    <3>1. 1 \in 1 .. size /\ (read + 1 - 1) % Capacity = read
      BY <2>1 DEF Slots
    <3>2. QED
      BY <3>1 DEF Contents
  <2>4. PopCopy(t)
    <3>1. ASSUME NEW u \in Threads, Call(u) \/ TakeMutex(u) \/ SpuriousWakeup(u) \/ Run(u)
          PROVE  PopCopy(t)
      BY <2>1, <3>1, ZenonT(30)
      DEF Call, CallPush, CallTryPush, CallPop, CallTryPop, CallAbort, TakeMutex, PushLock,
          PushWake, PopLock, PopWake, AbortLock, Acquire, SpuriousWakeup, Run, PushTest,
          PushWoken, PushLoop, PushStore, PushSignal, TryPushTest, PopTest, PopWoken, PopLoop,
          PopCopy, PopSignal, TryPopTest, AbortSet, Woken, Unlock, SignalAndGo, Fail, Goto
    <3>2. QED
      BY <3>1, ZenonT(30) DEF Next, vars
  <2>5. QED
    BY <2>1, <2>2, <2>3, <2>4 DEF PopCopy
<1>2. QED
  BY <1>1, Invariance, PTL DEF Spec, PopFromFullReturnsOldest

-----------------------------------------------------------------------------
(* tester_mult_thread.c *)

\* The producers, the consumers and main are different threads, and they are all.
TesterAssumption ==
    /\ Threads = Workers \cup {Main} /\ Main \notin Workers /\ Producers \cap Consumers = {}
    /\ Pushes \in Nat /\ Pops \in Nat

\* Those that main has joined have returned, and main is inside queue_abort only after
\* it has called it.
Joined ==
    /\ step \in [Workers -> Nat]
    /\ main \in {"sleep", "join_consumers", "join_producers", "destroy", "release", "exit"}
    /\ main \in {"join_producers", "destroy", "release", "exit"} => \A t \in Consumers : Done(t)

TesterInv == IInv /\ Joined /\ DestroyedAlone

\* What the test's threads do to the queue are operations of the queue.
LEMMA TesterCalls ==
  ASSUME TesterAssumption, [TesterNext]_<<vars, testerVars>>
  PROVE  [Next]_vars
<1>1. Zero \in Elements \cup {NULL} /\ Zero \in PopArguments
  BY ElementAssumption, ZenonT(30) DEF PopArguments
<1>2. CASE MainStep
  BY <1>2 DEF MainStep, MainAborts, JoinConsumers, JoinProducers, DestroyAborts, DestroyReleases,
              TesterAssumption, Next, Call
<1>3. ASSUME NEW t \in Workers, WorkerCalls(t) PROVE Next
  <2>1. Call(t)
    BY <1>1, <1>3 DEF WorkerCalls, ProducerCalls, ConsumerCalls, Call
  <2> QED
    BY <2>1 DEF TesterAssumption, Next
<1>4. ASSUME NEW t \in Threads, LibraryStep(t) PROVE Next
  BY <1>4 DEF LibraryStep, Next
<1>5. CASE UNCHANGED <<vars, testerVars>>
  BY <1>5
<1> QED
  BY <1>2, <1>3, <1>4, <1>5 DEF TesterNext

\* Nobody but the thread itself makes it enter the library: a step inside an operation,
\* with the wakeups it causes, leaves a thread outside where it is.
LEMMA IdleStays ==
  ASSUME TypeOK, NEW t \in Threads, pc[t] = "idle",
         NEW u \in Threads, Run(u) \/ TakeMutex(u) \/ SpuriousWakeup(u)
  PROVE  pc'[t] = "idle"
<1> USE DEF TypeOK, Goto, Fail
<1>1. ASSUME NEW place, Goto(u, place), pc[u] # "idle" PROVE pc'[t] = "idle"
  BY <1>1, ZenonT(30)
<1>2. CASE PushTest(u) \/ PushWoken(u)
  BY <1>2, <1>1, ZenonT(30) DEF PushTest, PushWoken, PushLoop
<1>3. CASE PopTest(u) \/ PopWoken(u)
  BY <1>3, <1>1, ZenonT(30) DEF PopTest, PopWoken, PopLoop
<1>4. CASE PushStore(u) \/ PopCopy(u) \/ TryPushTest(u) \/ TryPopTest(u) \/ Unlock(u)
  BY <1>4, <1>1, ZenonT(30) DEF PushStore, PopCopy, TryPushTest, TryPopTest, Unlock
<1>5. CASE PushSignal(u) \/ PopSignal(u)
  BY <1>5 DEF PushSignal, PopSignal, SignalAndGo
<1>6. CASE AbortSet(u)
  <2>1. Woken("idle") = "idle"
    BY Zenon DEF Woken
  <2>2. t # u
    BY <1>6, ZenonT(30) DEF AbortSet
  <2> QED
    BY <1>6, <2>1, <2>2 DEF AbortSet
<1>7. CASE TakeMutex(u)
  BY <1>7, <1>1, ZenonT(30) DEF TakeMutex, PushLock, PushWake, PopLock, PopWake, AbortLock, Acquire
<1>8. CASE SpuriousWakeup(u)
  BY <1>8, <1>1 DEF SpuriousWakeup
<1> QED
  BY <1>2, <1>3, <1>4, <1>5, <1>6, <1>7, <1>8, ZenonT(30) DEF Run

\* A worker that has returned stays so, whatever step is taken.
LEMMA DoneStays ==
  ASSUME TesterAssumption, TypeOK, Joined, NEW t \in Workers, Done(t),
         [TesterNext]_<<vars, testerVars>>
  PROVE  Done(t)'
<1>1. t \in Threads /\ t # Main /\ pc[t] = "idle"
  BY DEF TesterAssumption, Done
<1>2. CASE MainStep
  <2>1. CASE CallAbort(Main) /\ UNCHANGED step
    BY <1>1, <2>1, ZenonT(30) DEF CallAbort, Goto, TypeOK, Done
  <2>2. CASE UNCHANGED <<vars, step>>
    BY <2>2 DEF vars, Done
  <2> QED
    BY <1>2, <2>1, <2>2 DEF MainStep, MainAborts, JoinConsumers, JoinProducers, DestroyAborts,
                            DestroyReleases
<1>3. ASSUME NEW u \in Workers, WorkerCalls(u) PROVE Done(t)'
  <2>1. u # t
    <3>1. \/ u \in Producers /\ (step[u] < Pushes \/ step[u] = Pushes)
          \/ u \in Consumers /\ (step[u] < Pops \/ step[u] \in Pops .. Pops + 1)
      BY <1>3, ZenonT(30) DEF WorkerCalls, ProducerCalls, ConsumerCalls
    <3>2. step[t] = IF t \in Producers THEN Pushes + 1 ELSE Pops + 2
      BY Zenon DEF Done
    <3>3. Pushes \in Nat /\ Pops \in Nat /\ Producers \cap Consumers = {}
      BY Zenon DEF TesterAssumption
    <3> QED
      BY <3>1, <3>2, <3>3
  <2>2. step' = [step EXCEPT ![u] = @ + 1]
    BY <1>3, SMTT(30) DEF WorkerCalls, ProducerCalls, ConsumerCalls, Counts
  <2>3. pc' = pc \/ \E place : Goto(u, place)
    BY <1>3, ZenonT(30) DEF WorkerCalls, ProducerCalls, ConsumerCalls, CallPush, CallTryPush,
       CallPop, CallTryPop
  <2> QED
    BY <1>1, <2>1, <2>2, <2>3, ZenonT(30) DEF Goto, Done, Joined, TypeOK
<1>4. ASSUME NEW u \in Threads, LibraryStep(u) PROVE Done(t)'
  <2>1. pc'[t] = "idle" /\ step' = step
    BY <1>1, <1>4, IdleStays, ZenonT(30) DEF LibraryStep, testerVars
  <2> QED
    BY <2>1, ZenonT(30) DEF Done
<1>5. CASE UNCHANGED <<vars, testerVars>>
  BY <1>5 DEF vars, testerVars, Done
<1> QED
  BY <1>2, <1>3, <1>4, <1>5 DEF TesterNext

\* With nobody inside the library the mutex is free and nobody is counted as waiting, so
\* neither pthread_mutex_destroy nor pthread_cond_destroy fails.
LEMMA AllIdle ==
  ASSUME IInv, \A t \in Threads : pc[t] = "idle"
  PROVE  mutex = NULL /\ waitingForPush + waitingForPop = 0
<1>1. mutex = NULL
  BY DEF IInv, TypeOK, MutexOwned, Holding
<1>2. At(PushCounted) = {} /\ At(PopCounted) = {}
  BY DEF At, PushCounted, PopCounted
<1>3. Cardinality({}) = 0
  BY FS_EmptySet
<1>4. waitingForPush = 0 /\ waitingForPop = 0
  BY <1>2, <1>3 DEF IInv, WaitersCounted
<1> QED
  BY <1>1, <1>4

LEMMA TesterStep ==
  ASSUME TesterAssumption PROVE TesterInv /\ [TesterNext]_<<vars, testerVars>> => TesterInv'
<1> SUFFICES ASSUME TesterInv, [TesterNext]_<<vars, testerVars>> PROVE TesterInv'
  OBVIOUS
<1>1. IInv'
  BY TesterCalls, NextIInv DEF TesterInv
<1>2. \A t \in Workers : Done(t) => Done(t)'
  BY DoneStays DEF TesterInv, IInv
<1>3. step' \in [Workers -> Nat]
  <2>1. step \in [Workers -> Nat]
    BY ZenonT(30) DEF TesterInv, Joined
  <2>2. step' = step \/ \E t \in Workers : step' = [step EXCEPT ![t] = @ + 1]
    BY DEF TesterNext, MainStep, MainAborts, JoinConsumers, JoinProducers, DestroyAborts,
           DestroyReleases, WorkerCalls, ProducerCalls, ConsumerCalls, Counts, LibraryStep,
              testerVars
  <2> QED
    BY <2>1, <2>2
<1>4. ASSUME UNCHANGED <<main, result>> PROVE TesterInv'
  BY <1>1, <1>2, <1>3, <1>4 DEF TesterInv, Joined, DestroyedAlone, Workers
<1>5. CASE MainStep
  <2>1. CASE MainAborts
    BY <1>1, <1>3, <2>1 DEF MainAborts, TesterInv, Joined, DestroyedAlone
  <2>2. CASE JoinConsumers
    BY <1>1, <1>2, <1>3, <2>2 DEF JoinConsumers, TesterInv, Joined, DestroyedAlone, Workers
  <2>3. CASE JoinProducers
    BY <1>1, <1>2, <1>3, <2>3 DEF JoinProducers, TesterInv, Joined, DestroyedAlone, Workers
  <2>4. CASE DestroyAborts
    BY <1>1, <1>2, <1>3, <2>4 DEF DestroyAborts, TesterInv, Joined, DestroyedAlone, Workers
  <2>5. CASE DestroyReleases
    <3>1. \A t \in Threads : pc[t] = "idle"
      BY <2>5 DEF DestroyReleases, TesterInv, DestroyedAlone, Done, TesterAssumption
    <3>2. result' = "QUEUE_SUCCESS" /\ main' = "exit" /\ main = "release"
      BY <2>5, <3>1, AllIdle DEF DestroyReleases, TesterInv
    <3> QED
      BY <1>1, <1>2, <1>3, <3>2, ZenonT(30) DEF TesterInv, Joined, DestroyedAlone, Workers
  <2> QED
    BY <1>5, <2>1, <2>2, <2>3, <2>4, <2>5, ZenonT(30) DEF MainStep
<1>6. CASE ~MainStep
  BY <1>4, <1>6 DEF TesterNext, WorkerCalls, ProducerCalls, ConsumerCalls, Counts, LibraryStep,
                    testerVars
<1> QED
  BY <1>5, <1>6

\* Whatever main's sleep is worth, however many threads there are: when main calls
\* queue_destroy every worker has returned from the library, and queue_destroy succeeds.
THEOREM DestroyFindsNobody ==
  ASSUME TesterAssumption PROVE TesterSpec => []DestroyedAlone
<1>1. TesterInit => TesterInv
  <2> SUFFICES ASSUME TesterInit PROVE TesterInv
    OBVIOUS
  <2>1. IInv
    BY InitIInv DEF TesterInit
  <2> QED
    BY <2>1 DEF TesterInit, TesterInv, Joined, DestroyedAlone
<1>2. TesterInv => DestroyedAlone
  BY DEF TesterInv
<1> QED
  BY <1>1, <1>2, TesterStep, PTL DEF TesterSpec
=============================================================================
