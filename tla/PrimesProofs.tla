---------------------------- MODULE PrimesProofs ----------------------------
(***************************************************************************)
(* Proofs about primes.c of ex09, the instance Primes of Threads: no       *)
(* number is lost, and none is slept upon, for any number of threads.      *)
(***************************************************************************)
EXTENDS Threads, Sequences, FiniteSetTheorems, TLAPS

\* The producers and the consumers are different threads; the range is not empty.
PrimesAssumption ==
    /\ Producers \cap Consumers = {} /\ NULL \notin Producers \cup Consumers
    /\ IsFiniteSet(Consumers)
    /\ First \in Nat /\ Last \in Nat /\ First <= Last

\* Where a thread has list_mutex.
HoldsList == {"push", "push_unlock", "test", "wait_call", "woken", "pop"}

PrimesTypes ==
    /\ list \in Seq(Nat) /\ finished \in BOOLEAN
    /\ list_pc \in [Primes!Threads -> {"none", "search", "push_lock", "push", "push_unlock", "exit",
                       "pop_lock", "test", "wait_call", "asleep", "wake", "woken", "pop", "popped"}]
    /\ \A p \in Producers :
         list_pc[p] \in {"none", "search", "push_lock", "push", "push_unlock", "exit"}
    /\ \A c \in Consumers : list_pc[c] \notin {"search", "push_lock", "push", "push_unlock"}
    /\ k \in [Producers -> First .. Last]
    /\ counters \in [Primes!Threads -> Nat]
    /\ list_main \in {"create_consumers", "create_producers", "join_producers", "finish",
                      "broadcast", "join_consumers", "returned"}

\* list_mutex is owned between lock and unlock, and what a consumer has found in the list
\* is still true when it acts on it.
ListMutex ==
    /\ \A t \in Primes!Threads : list_pc[t] \in HoldsList <=> list_mutex = t
    /\ \A c \in Consumers : /\ list_pc[c] = "wait_call" => list = <<>>
                            /\ list_pc[c] = "pop" => list # <<>>

\* The producers have ended when main says so.
ProducersDone ==
    /\ finished <=> list_main \in {"broadcast", "join_consumers", "returned"}
    /\ list_main = "create_consumers" => \A p \in Producers : list_pc[p] = "none"
    /\ list_main \in {"finish", "broadcast", "join_consumers", "returned"} =>
         \A p \in Producers : list_pc[p] \in {"none", "exit"}

\* Numbers are primes on their way and in the list.
OnlyPrimes ==
    /\ \A p \in Producers :
         /\ list_pc[p] \in {"push_lock", "push"} => Primes!is_prime(k[p])
         /\ list_pc[p] \in {"push_lock", "push", "push_unlock"} => k[p] < Last
    /\ \A j \in 1 .. Len(list) : Primes!is_prime(list[j])

\* No number is lost, and none taken twice.
NumbersConserved ==
    /\ IsFiniteSet(Primes!Counted(Producers)) /\ IsFiniteSet(Primes!Counted(Consumers))
    /\ list_main # "returned" =>
         Cardinality(Primes!Counted(Producers)) =
             Len(list) + Cardinality(Primes!Counted(Consumers)) + Cardinality(Primes!At("popped"))

\* The consumers on the way to a number, and those that sleep.
OnWay == {c \in Consumers : list_pc[c] \in {"wake", "woken", "test", "pop"}}
Asleep == {c \in Consumers : list_pc[c] = "asleep"}

\* NoNumberSleptOn, with these sets.
NotSleptOn ==
    Asleep # {} => IF finished THEN list_main = "broadcast" \/ list = <<>>
                               ELSE Len(list) <= Cardinality(OnWay)

PrimesInv ==
    /\ PrimesTypes /\ ListMutex /\ ProducersDone /\ OnlyPrimes
    /\ NotSleptOn /\ NumbersConserved

\* A thread goes to another place, and the others stay.
LEMMA ListGoto ==
    ASSUME PrimesTypes, NEW t \in Primes!Threads, NEW place, Primes!Goto(t, place)
    PROVE  /\ list_pc'[t] = place
           /\ \A u \in Primes!Threads : u # t => list_pc'[u] = list_pc[u]
           /\ DOMAIN list_pc' = Primes!Threads
           /\ list_pc' = [u \in Primes!Threads |-> list_pc'[u]]
  BY ZenonT(30) DEF PrimesTypes, Primes!Goto

\* ++counter adds one to what is counted.
LEMMA CountsOne ==
    ASSUME PrimesTypes, NEW t \in Primes!Threads, Primes!Count(t),
           NEW T \in SUBSET Primes!Threads, IsFiniteSet(Primes!Counted(T))
    PROVE  /\ counters' \in [Primes!Threads -> Nat]
           /\ IsFiniteSet(Primes!Counted(T)')
           /\ Cardinality(Primes!Counted(T)') =
                Cardinality(Primes!Counted(T)) + (IF t \in T THEN 1 ELSE 0)
<1>1. /\ counters' \in [Primes!Threads -> Nat] /\ counters[t] \in Nat /\ counters'[t] = counters[t] + 1
      /\ \A u \in Primes!Threads : u # t => counters'[u] = counters[u]
  BY DEF PrimesTypes, Primes!Count
<1>2. CASE t \notin T
  <2>1. Primes!Counted(T)' = Primes!Counted(T)
    BY <1>1, <1>2 DEF Primes!Counted
  <2>2. Cardinality(Primes!Counted(T)) \in Nat
    BY FS_CardinalityType
  <2> QED
    BY <1>1, <1>2, <2>1, <2>2
<1>3. CASE t \in T
  <2> DEFINE new == <<t, counters[t] + 1>>
  <2>1. Primes!Counted(T)' = Primes!Counted(T) \cup {new}
    <3>1. \A e : e \in Primes!Counted(T) <=> \E u \in T : e \in {u} \X (1 .. counters[u])
      BY DEF Primes!Counted
    <3>2. \A e : e \in Primes!Counted(T)' <=> \E u \in T : e \in {u} \X (1 .. counters'[u])
      BY DEF Primes!Counted
    <3>3. 1 .. counters'[t] = (1 .. counters[t]) \cup {counters[t] + 1}
      BY <1>1
    <3>4. \A u \in T : u # t => counters'[u] = counters[u]
      BY <1>1
    <3> QED
      BY <1>3, <3>1, <3>2, <3>3, <3>4
  <2>2. new \notin Primes!Counted(T)
    BY <1>1 DEF Primes!Counted
  <2> HIDE DEF new
  <2>3. /\ IsFiniteSet(Primes!Counted(T) \cup {new})
        /\ Cardinality(Primes!Counted(T) \cup {new}) = Cardinality(Primes!Counted(T)) + 1
    BY <2>2, FS_AddElement
  <2> QED
    BY <1>1, <1>3, <2>1, <2>3
<1> QED
  BY <1>2, <1>3

\* What a step that wakes nobody up and takes no number does to the sleepers.
LEMMA SleepersKept ==
    ASSUME PrimesAssumption, PrimesTypes, NotSleptOn, Asleep' \subseteq Asleep,
       OnWay \subseteq OnWay',
           list' = list, finished' = finished, finished => list_main' = list_main
    PROVE  NotSleptOn'
<1>1. IsFiniteSet(OnWay') /\ Cardinality(OnWay) <= Cardinality(OnWay')
      /\ Cardinality(OnWay) \in Nat /\ Cardinality(OnWay') \in Nat
  <2>1. OnWay' \subseteq Consumers
    BY DEF OnWay
  <2>2. IsFiniteSet(OnWay') /\ IsFiniteSet(OnWay)
    BY <2>1, FS_Subset DEF PrimesAssumption
  <2> QED
    BY <2>2, FS_Subset, FS_CardinalityType
<1>2. Len(list) \in Nat
  BY DEF PrimesTypes
<1> QED
  BY <1>1, <1>2 DEF NotSleptOn

\* A step that counts nothing and takes no number conserves them.
LEMMA ConservedKept ==
    ASSUME NumbersConserved, counters' = counters, list' = list,
           list_main' # "returned" => list_main # "returned",
           Primes!At("popped")' = Primes!At("popped")
    PROVE  NumbersConserved'
<1>1. /\ Primes!Counted(Producers)' = Primes!Counted(Producers)
      /\ Primes!Counted(Consumers)' = Primes!Counted(Consumers)
  BY DEF Primes!Counted
<1> QED
  BY <1>1 DEF NumbersConserved

\* A step of a thread that moves alone, between places that neither sleep nor hold a
\* number, or that wakes up: it leaves the list as it is.
LEMMA ThreadMoves ==
    ASSUME PrimesAssumption, PrimesInv, NEW t \in Primes!Threads, NEW place, Primes!Goto(t, place),
           list' = list, finished' = finished, list_main' = list_main, counters' = counters,
           place # "asleep", place # "popped", list_pc[t] # "popped",
           t \in Consumers /\ list_pc[t] \in {"wake", "woken", "test", "pop"} =>
              place \in {"wake", "woken", "test", "pop"} \/ finished
    PROVE  NotSleptOn' /\ NumbersConserved'
<1>1. /\ list_pc'[t] = place
      /\ \A u \in Primes!Threads : u # t => list_pc'[u] = list_pc[u]
  BY ListGoto DEF PrimesInv
<1>2. Consumers \subseteq Primes!Threads
  BY DEF Primes!Threads
<1>3. Asleep' \subseteq Asleep
  BY <1>1, <1>2 DEF Asleep
<1>4. Primes!At("popped")' = Primes!At("popped")
  BY <1>1, <1>2 DEF Primes!At
<1>5. NumbersConserved'
  BY <1>4, ConservedKept DEF PrimesInv
<1>6. CASE finished
  BY <1>3, <1>5, <1>6 DEF NotSleptOn, PrimesInv
<1>7. CASE ~finished
  <2>1. OnWay \subseteq OnWay'
    BY <1>1, <1>2, <1>7 DEF OnWay
  <2>2. NotSleptOn'
    BY <1>3, <2>1, SleepersKept, ZenonT(30) DEF PrimesInv
  <2> QED
    BY <1>5, <2>2
<1> QED
  BY <1>6, <1>7

\* No step of a thread or of main breaks the invariant.
LEMMA PrimesStep ==
    ASSUME PrimesAssumption, PrimesInv, [Primes!Next]_Primes!vars
    PROVE  PrimesInv'
<1> USE DEF PrimesInv
<1> Producers \subseteq Primes!Threads /\ Consumers \subseteq Primes!Threads
  BY DEF Primes!Threads
<1>1. ASSUME NEW t \in Primes!Threads, Primes!Lock(t) PROVE PrimesInv'
  <2> DEFINE place == IF list_pc[t] = "push_lock" THEN "push"
                      ELSE IF list_pc[t] = "pop_lock" THEN "test" ELSE "woken"
  <2>1. Primes!Goto(t, place) /\ UNCHANGED <<list, finished, counters, list_main>>
    BY <1>1 DEF Primes!Lock
  <2>2. /\ list_pc'[t] = place /\ \A u \in Primes!Threads : u # t => list_pc'[u] = list_pc[u]
        /\ list_pc' = [u \in Primes!Threads |-> list_pc'[u]]
    BY <2>1, ListGoto
  <2>3. PrimesTypes'
    BY <1>1, <2>1, <2>2, ZenonT(30) DEF Primes!Lock, PrimesTypes, PrimesAssumption
  <2>4. ListMutex'
    BY <1>1, <2>1, <2>2 DEF Primes!Lock, PrimesTypes, PrimesAssumption, ListMutex, HoldsList,
       Primes!Threads
  <2>5. ProducersDone' /\ OnlyPrimes'
    <3>1. ProducersDone'
      BY <1>1, <2>1, <2>2, SMTT(30) DEF Primes!Lock, PrimesTypes, PrimesAssumption, ProducersDone
    <3>2. OnlyPrimes'
      BY <1>1, <2>1, <2>2 DEF Primes!Lock, PrimesTypes, PrimesAssumption, OnlyPrimes
    <3> QED
      BY <3>1, <3>2
  <2>6. NotSleptOn' /\ NumbersConserved'
    BY <1>1, <2>1, ThreadMoves, ZenonT(30) DEF Primes!Lock, PrimesTypes, PrimesAssumption
  <2> QED
    BY <2>3, <2>4, <2>5, <2>6
<1>2. ASSUME NEW t \in Producers, Primes!PushFails(t) PROVE PrimesInv'
  <2> DEFINE place == "push_unlock"
  <2>1. Primes!Goto(t, place) /\ UNCHANGED <<list, finished, counters, list_main>>
    BY <1>2 DEF Primes!PushFails
  <2>2. /\ list_pc'[t] = place /\ \A u \in Primes!Threads : u # t => list_pc'[u] = list_pc[u]
        /\ list_pc' = [u \in Primes!Threads |-> list_pc'[u]]
    BY <2>1, ListGoto
  <2>3. PrimesTypes'
    BY <1>2, <2>1, <2>2, ZenonT(30) DEF Primes!PushFails, PrimesTypes, PrimesAssumption
  <2>4. ListMutex'
    BY <1>2, <2>1, <2>2, ZenonT(30) DEF Primes!PushFails, PrimesTypes, PrimesAssumption, ListMutex,
       HoldsList, Primes!Threads
  <2>5. ProducersDone' /\ OnlyPrimes'
    BY <1>2, <2>1, <2>2 DEF Primes!PushFails, PrimesTypes, PrimesAssumption, ProducersDone,
       OnlyPrimes
  <2>6. NotSleptOn' /\ NumbersConserved'
    BY <1>2, <2>1, ThreadMoves, ZenonT(30) DEF Primes!PushFails, PrimesTypes, PrimesAssumption
  <2> QED
    BY <2>3, <2>4, <2>5, <2>6
<1>3. ASSUME NEW t \in Producers, Primes!PushUnlock(t) PROVE PrimesInv'
  <2> DEFINE place == "search"
  <2>1. Primes!Goto(t, place) /\ UNCHANGED <<list, finished, counters, list_main>>
    BY <1>3 DEF Primes!PushUnlock
  <2>2. /\ list_pc'[t] = place /\ \A u \in Primes!Threads : u # t => list_pc'[u] = list_pc[u]
        /\ list_pc' = [u \in Primes!Threads |-> list_pc'[u]]
    BY <2>1, ListGoto
  <2>3. PrimesTypes'
    <3>1. k[t] \in First .. Last /\ k[t] < Last /\ k' = [k EXCEPT ![t] = @ + 1]
      BY <1>3 DEF Primes!PushUnlock, PrimesTypes, OnlyPrimes
    <3>2. k' \in [Producers -> First .. Last]
      BY <3>1 DEF PrimesTypes, PrimesAssumption
    <3> QED
      BY <1>3, <2>1, <2>2, <3>2, ZenonT(30) DEF Primes!PushUnlock, PrimesTypes, PrimesAssumption
  <2>4. ListMutex'
    BY <1>3, <2>1, <2>2, ZenonT(30) DEF Primes!PushUnlock, PrimesTypes, PrimesAssumption,
       ListMutex, HoldsList, Primes!Threads
  <2>5. ProducersDone' /\ OnlyPrimes'
    BY <1>3, <2>1, <2>2 DEF Primes!PushUnlock, PrimesTypes, PrimesAssumption, ProducersDone,
       OnlyPrimes
  <2>6. NotSleptOn' /\ NumbersConserved'
    BY <1>3, <2>1, ThreadMoves, ZenonT(30) DEF Primes!PushUnlock, PrimesTypes, PrimesAssumption
  <2> QED
    BY <2>3, <2>4, <2>5, <2>6
<1>4. ASSUME NEW t \in Producers, Primes!ProducerExits(t) PROVE PrimesInv'
  <2> DEFINE place == "exit"
  <2>1. Primes!Goto(t, place) /\ UNCHANGED <<list, finished, counters, list_main>>
    BY <1>4 DEF Primes!ProducerExits
  <2>2. /\ list_pc'[t] = place /\ \A u \in Primes!Threads : u # t => list_pc'[u] = list_pc[u]
        /\ list_pc' = [u \in Primes!Threads |-> list_pc'[u]]
    BY <2>1, ListGoto
  <2>3. PrimesTypes'
    BY <1>4, <2>1, <2>2, ZenonT(30) DEF Primes!ProducerExits, PrimesTypes, PrimesAssumption
  <2>4. ListMutex'
    BY <1>4, <2>1, <2>2 DEF Primes!ProducerExits, PrimesTypes, PrimesAssumption, ListMutex,
       HoldsList, Primes!Threads
  <2>5. ProducersDone' /\ OnlyPrimes'
    BY <1>4, <2>1, <2>2, SMTT(30) DEF Primes!ProducerExits, PrimesTypes, PrimesAssumption,
       ProducersDone, OnlyPrimes
  <2>6. NotSleptOn' /\ NumbersConserved'
    BY <1>4, <2>1, ThreadMoves, ZenonT(30) DEF Primes!ProducerExits, PrimesTypes, PrimesAssumption
  <2> QED
    BY <2>3, <2>4, <2>5, <2>6
<1>5. ASSUME NEW t \in Consumers, Primes!SpuriousWakeup(t) PROVE PrimesInv'
  <2> DEFINE place == "wake"
  <2>1. Primes!Goto(t, place) /\ UNCHANGED <<list, finished, counters, list_main>>
    BY <1>5 DEF Primes!SpuriousWakeup
  <2>2. /\ list_pc'[t] = place /\ \A u \in Primes!Threads : u # t => list_pc'[u] = list_pc[u]
        /\ list_pc' = [u \in Primes!Threads |-> list_pc'[u]]
    BY <2>1, ListGoto
  <2>3. PrimesTypes'
    BY <1>5, <2>1, <2>2, ZenonT(30) DEF Primes!SpuriousWakeup, PrimesTypes, PrimesAssumption
  <2>4. ListMutex'
    BY <1>5, <2>1, <2>2, ZenonT(30) DEF Primes!SpuriousWakeup, PrimesTypes, PrimesAssumption,
       ListMutex,
       HoldsList, Primes!Threads
  <2>5. ProducersDone' /\ OnlyPrimes'
    BY <1>5, <2>1, <2>2, SMTT(30) DEF Primes!SpuriousWakeup, PrimesTypes, PrimesAssumption,
       ProducersDone, OnlyPrimes
  <2>6. NotSleptOn' /\ NumbersConserved'
    BY <1>5, <2>1, ThreadMoves, ZenonT(30) DEF Primes!SpuriousWakeup, PrimesTypes, PrimesAssumption
  <2> QED
    BY <2>3, <2>4, <2>5, <2>6
<1>6. ASSUME NEW t \in Consumers, Primes!Woken(t) PROVE PrimesInv'
  <2> DEFINE place == IF finished THEN "exit" ELSE "test"
  <2>1. Primes!Goto(t, place) /\ UNCHANGED <<list, finished, counters, list_main>>
    BY <1>6 DEF Primes!Woken
  <2>2. /\ list_pc'[t] = place /\ \A u \in Primes!Threads : u # t => list_pc'[u] = list_pc[u]
        /\ list_pc' = [u \in Primes!Threads |-> list_pc'[u]]
    BY <2>1, ListGoto
  <2>3. PrimesTypes'
    BY <1>6, <2>1, <2>2, ZenonT(30) DEF Primes!Woken, PrimesTypes, PrimesAssumption
  <2>4. ListMutex'
    BY <1>6, <2>1, <2>2, ZenonT(30) DEF Primes!Woken, PrimesTypes, PrimesAssumption, ListMutex,
       HoldsList, Primes!Threads
  <2>5. ProducersDone' /\ OnlyPrimes'
    BY <1>6, <2>1, <2>2, SMTT(30) DEF Primes!Woken, PrimesTypes, PrimesAssumption, ProducersDone,
       OnlyPrimes
  <2>6. NotSleptOn' /\ NumbersConserved'
    BY <1>6, <2>1, ThreadMoves, ZenonT(30) DEF Primes!Woken, PrimesTypes, PrimesAssumption
  <2> QED
    BY <2>3, <2>4, <2>5, <2>6
<1>7. ASSUME NEW t \in Producers, Primes!NextNumber(t) PROVE PrimesInv'
  <2>1. /\ UNCHANGED <<list, finished, counters, list_main, list_mutex>>
        /\ list_pc[t] = "search" /\ k[t] < Last
    BY <1>7, ZenonT(30) DEF Primes!NextNumber
  <2>2. CASE Primes!is_prime(k[t]) /\ Primes!Goto(t, "push_lock") /\ UNCHANGED k
    <3>1. /\ list_pc'[t] = "push_lock" /\ \A u \in Primes!Threads : u # t => list_pc'[u] = list_pc[u]
          /\ list_pc' = [u \in Primes!Threads |-> list_pc'[u]]
      BY <2>2, ListGoto
    <3>2. PrimesTypes'
      BY <2>1, <2>2, <3>1, ZenonT(30) DEF PrimesTypes, PrimesAssumption
    <3>3. ListMutex'
      BY <2>1, <3>1 DEF PrimesAssumption, ListMutex, HoldsList
    <3>4. ProducersDone' /\ OnlyPrimes'
      BY <2>1, <2>2, <3>1 DEF ProducersDone, OnlyPrimes
    <3>5. NotSleptOn' /\ NumbersConserved'
      BY <2>1, <2>2, ThreadMoves DEF PrimesAssumption
    <3> QED
      BY <3>2, <3>3, <3>4, <3>5
  <2>3. CASE k' = [k EXCEPT ![t] = @ + 1] /\ UNCHANGED list_pc
    <3>1. PrimesTypes'
      BY <2>1, <2>3 DEF PrimesTypes, PrimesAssumption
    <3>2. ListMutex' /\ ProducersDone'
      BY <2>1, <2>3 DEF ListMutex, ProducersDone
    <3>3. OnlyPrimes'
      BY <2>1, <2>3 DEF PrimesTypes, OnlyPrimes
    <3>4. NotSleptOn'
      BY <2>1, <2>3 DEF NotSleptOn, Asleep, OnWay
    <3>5. NumbersConserved'
      BY <2>1, <2>3, ConservedKept, ZenonT(30) DEF Primes!At
    <3> QED
      BY <3>1, <3>2, <3>3, <3>4, <3>5, ZenonT(30)
  <2> QED
    BY <1>7, <2>2, <2>3 DEF Primes!NextNumber
<1>8. ASSUME NEW t \in Producers, Primes!Push(t) PROVE PrimesInv'
  <2>1. /\ list_pc[t] = "push" /\ UNCHANGED <<finished, list_mutex, k, list_main>>
        /\ list' = Append(list, k[t]) /\ Primes!Count(t)
    BY <1>8 DEF Primes!Push
  <2>2. /\ k[t] \in Nat /\ Primes!is_prime(k[t]) /\ list \in Seq(Nat) /\ t \notin Consumers
        /\ ~finished /\ list_main # "returned"
    BY <2>1, SMTT(30) DEF PrimesTypes, PrimesAssumption, OnlyPrimes, ProducersDone
  <2>3. /\ list' \in Seq(Nat) /\ Len(list') = Len(list) + 1 /\ list' # <<>>
        /\ \A j \in 1 .. Len(list') : Primes!is_prime(list'[j])
    BY <2>1, <2>2, SMTT(30) DEF OnlyPrimes
  <2>4. /\ counters' \in [Primes!Threads -> Nat]
        /\ IsFiniteSet(Primes!Counted(Producers)') /\ IsFiniteSet(Primes!Counted(Consumers)')
        /\ Cardinality(Primes!Counted(Producers)') = Cardinality(Primes!Counted(Producers)) + 1
        /\ Cardinality(Primes!Counted(Consumers)') = Cardinality(Primes!Counted(Consumers)) + 0
    BY <2>1, <2>2, CountsOne DEF NumbersConserved
  <2>5. \A c \in Consumers : list_pc[c] \notin HoldsList
    BY <2>1, <2>2 DEF ListMutex, HoldsList
  <2>6. ASSUME NEW woken \in SUBSET Asleep,
               \A u \in Primes!Threads : list_pc'[u] = IF u = t THEN "push_unlock"
                                              ELSE IF u \in woken THEN "wake" ELSE list_pc[u],
               list_pc' = [u \in Primes!Threads |-> list_pc'[u]],
               OnWay' = OnWay \cup woken,
                  Cardinality(OnWay') = Cardinality(OnWay) + 1 \/ Asleep = {}
        PROVE  PrimesInv'
    <3>1. PrimesTypes'
      BY <2>1, <2>2, <2>3, <2>4, <2>6, ZenonT(30) DEF PrimesTypes, PrimesAssumption, Asleep
    <3>2. ListMutex'
      BY <2>1, <2>2, <2>3, <2>5, <2>6, ZenonT(30)
         DEF PrimesTypes, PrimesAssumption, ListMutex, HoldsList, Asleep
    <3>3. ProducersDone' /\ OnlyPrimes'
      BY <2>1, <2>2, <2>3, <2>6, ZenonT(30) DEF PrimesAssumption, ProducersDone, OnlyPrimes, Asleep
    <3>4. Asleep' \subseteq Asleep
      BY <2>2, <2>6 DEF Asleep
    <3>5. NotSleptOn'
      <4>1. Cardinality(OnWay) \in Nat /\ Len(list) \in Nat
        <5>1. IsFiniteSet(OnWay)
          BY FS_Subset DEF OnWay, PrimesAssumption
        <5> QED
          BY <5>1, <2>2, FS_CardinalityType
      <4> QED
        BY <2>1, <2>2, <2>3, <2>6, <3>4, <4>1, SMTT(30) DEF NotSleptOn
    <3>6. Primes!At("popped")' = Primes!At("popped")
      BY <2>2, <2>6, ZenonT(30) DEF Primes!At, Asleep
    <3>7. NumbersConserved'
      <4>1. /\ Cardinality(Primes!Counted(Producers)) \in Nat
            /\ Cardinality(Primes!Counted(Consumers)) \in Nat
            /\ Cardinality(Primes!At("popped")) \in Nat /\ Len(list) \in Nat
        <5>1. IsFiniteSet(Primes!At("popped"))
          BY FS_Subset DEF Primes!At, PrimesAssumption
        <5> QED
          BY <5>1, <2>2, FS_CardinalityType DEF NumbersConserved
      <4> QED
        BY <2>1, <2>2, <2>3, <2>4, <3>6, <4>1, SMTT(30) DEF NumbersConserved
    <3> QED
      BY <3>1, <3>2, <3>3, <3>5, <3>7, ZenonT(30)
  <2>7. CASE \E c \in Consumers : /\ list_pc[c] = "asleep"
                                  /\ list_pc' = [list_pc EXCEPT ![t] = "push_unlock", ![c] = "wake"]
    <3>1. PICK c \in Consumers : /\ list_pc[c] = "asleep"
                                 /\ list_pc' = [list_pc EXCEPT ![t] = "push_unlock", ![c] = "wake"]
      BY <2>7, ZenonT(30)
    <3>2. {c} \in SUBSET Asleep
      BY <3>1 DEF Asleep
    <3>3. /\ \A u \in Primes!Threads : list_pc'[u] = IF u = t THEN "push_unlock"
                                             ELSE IF u \in {c} THEN "wake" ELSE list_pc[u]
          /\ list_pc' = [u \in Primes!Threads |-> list_pc'[u]]
      BY <2>2, <3>1, ZenonT(30) DEF PrimesTypes
    <3>4. OnWay' = OnWay \cup {c} /\ c \notin OnWay
      BY <2>2, <3>1, <3>3, ZenonT(30) DEF OnWay
    <3>5. Cardinality(OnWay') = Cardinality(OnWay) + 1
      <4>1. IsFiniteSet(OnWay)
        BY FS_Subset DEF OnWay, PrimesAssumption
      <4> QED
        BY <3>4, <4>1, FS_AddElement, ZenonT(30)
    <3> QED
      BY <2>6, <3>2, <3>3, <3>4, <3>5, ZenonT(30)
  <2>8. CASE (\A c \in Consumers : list_pc[c] # "asleep") /\ Primes!Goto(t, "push_unlock")
    <3>1. Asleep = {} /\ {} \in SUBSET Asleep
      BY <2>8 DEF Asleep
    <3>2. /\ \A u \in Primes!Threads : list_pc'[u] = IF u = t THEN "push_unlock"
                                             ELSE IF u \in {} THEN "wake" ELSE list_pc[u]
          /\ list_pc' = [u \in Primes!Threads |-> list_pc'[u]]
      BY <2>8, ListGoto
    <3>3. OnWay' = OnWay \cup {}
      BY <2>2, <3>2 DEF OnWay
    <3> QED
      BY <2>6, <3>1, <3>2, <3>3, ZenonT(30)
  <2> QED
    BY <1>8, <2>7, <2>8, ZenonT(30) DEF Primes!Push
<1>9. ASSUME NEW t \in Consumers, Primes!Test(t) PROVE PrimesInv'
  <2> DEFINE place == IF list = <<>> THEN "wait_call" ELSE "pop"
  <2>1. /\ Primes!Goto(t, place) /\ list_pc[t] = "test"
        /\ UNCHANGED <<list, finished, list_mutex, k, counters, list_main>>
    BY <1>9 DEF Primes!Test
  <2>2. /\ list_pc'[t] = place /\ \A u \in Primes!Threads : u # t => list_pc'[u] = list_pc[u]
        /\ list_pc' = [u \in Primes!Threads |-> list_pc'[u]]
    BY <2>1, ListGoto
  <2>3. PrimesTypes'
    BY <2>1, <2>2, ZenonT(30) DEF PrimesTypes, PrimesAssumption
  <2>4. ListMutex'
    BY <2>1, <2>2 DEF PrimesTypes, PrimesAssumption, ListMutex, HoldsList
  <2>5. ProducersDone' /\ OnlyPrimes'
    BY <2>1, <2>2 DEF PrimesAssumption, ProducersDone, OnlyPrimes
  <2>6. CASE list # <<>>
    BY <2>1, <2>3, <2>4, <2>5, <2>6, ThreadMoves, ZenonT(30)
  <2>7. CASE list = <<>>
    <3>1. Len(list) = 0
      BY <2>7
    <3>2. IsFiniteSet(OnWay')
      BY FS_Subset DEF OnWay, PrimesAssumption
    <3>3. Cardinality(OnWay') >= 0
      BY <3>2, FS_CardinalityType
    <3>4. NotSleptOn'
      BY <2>1, <2>7, <3>1, <3>3, ZenonT(30) DEF NotSleptOn
    <3>5. Primes!At("popped")' = Primes!At("popped")
      BY <2>1, <2>2 DEF Primes!At
    <3>6. NumbersConserved'
      BY <2>1, <3>5, ConservedKept
    <3> QED
      BY <2>3, <2>4, <2>5, <3>4, <3>6, ZenonT(30)
  <2> QED
    BY <2>6, <2>7
<1>10. ASSUME NEW t \in Consumers, Primes!Wait(t) PROVE PrimesInv'
  <2>1. /\ Primes!Goto(t, "asleep") /\ list_pc[t] = "wait_call" /\ list_mutex' = NULL
        /\ UNCHANGED <<list, finished, k, counters, list_main>>
    BY <1>10 DEF Primes!Wait
  <2>2. /\ list_pc'[t] = "asleep" /\ \A u \in Primes!Threads : u # t => list_pc'[u] = list_pc[u]
        /\ list_pc' = [u \in Primes!Threads |-> list_pc'[u]]
    BY <2>1, ListGoto
  <2>3. PrimesTypes'
    BY <2>1, <2>2, ZenonT(30) DEF PrimesTypes, PrimesAssumption
  <2>4. ListMutex' /\ list = <<>> /\ Len(list) = 0
    BY <2>1, <2>2, SMTT(30) DEF PrimesTypes, PrimesAssumption, ListMutex, HoldsList, Primes!Threads
  <2>5. ProducersDone' /\ OnlyPrimes'
    BY <2>1, <2>2 DEF PrimesAssumption, ProducersDone, OnlyPrimes
  <2>6. NotSleptOn'
    <3>1. IsFiniteSet(OnWay')
      BY FS_Subset DEF OnWay, PrimesAssumption
    <3>2. Cardinality(OnWay') >= 0
      BY <3>1, FS_CardinalityType
    <3> QED
      BY <2>1, <2>4, <3>2, ZenonT(30) DEF NotSleptOn
  <2>7. Primes!At("popped")' = Primes!At("popped")
    BY <2>1, <2>2 DEF Primes!At
  <2>8. NumbersConserved'
    BY <2>1, <2>7, ConservedKept, ZenonT(30)
  <2> QED
    BY <2>3, <2>4, <2>5, <2>6, <2>8
<1>11. ASSUME NEW t \in Consumers, Primes!Pop(t) PROVE PrimesInv'
  <2>1. /\ Primes!Goto(t, "popped") /\ list_pc[t] = "pop" /\ list_mutex' = NULL
        /\ list' = Tail(list) /\ UNCHANGED <<finished, k, counters, list_main>>
    BY <1>11 DEF Primes!Pop
  <2>2. /\ list_pc'[t] = "popped" /\ \A u \in Primes!Threads : u # t => list_pc'[u] = list_pc[u]
        /\ list_pc' = [u \in Primes!Threads |-> list_pc'[u]]
    BY <2>1, ListGoto, ZenonT(30)
  <2>3. list # <<>> /\ list \in Seq(Nat)
    BY <2>1 DEF PrimesTypes, ListMutex
  <2>4. /\ list' \in Seq(Nat) /\ Len(list') = Len(list) - 1 /\ Len(list) \in Nat \ {0}
        /\ \A j \in 1 .. Len(list') : list'[j] = list[j + 1]
    BY <2>1, <2>3
  <2>5. PrimesTypes'
    BY <2>1, <2>2, <2>4, ZenonT(30) DEF PrimesTypes, PrimesAssumption
  <2>6. ListMutex'
    BY <2>1, <2>2, ZenonT(30) DEF PrimesTypes, PrimesAssumption, ListMutex, HoldsList,
       Primes!Threads
  <2>7. ProducersDone' /\ OnlyPrimes'
    BY <2>1, <2>2, <2>4, SMTT(30) DEF PrimesAssumption, ProducersDone, OnlyPrimes
  <2>8. /\ IsFiniteSet(OnWay) /\ IsFiniteSet(Primes!At("popped"))
        /\ IsFiniteSet(Primes!Counted(Producers)) /\ IsFiniteSet(Primes!Counted(Consumers))
    BY FS_Subset DEF OnWay, Primes!At, PrimesAssumption, NumbersConserved
  <2>9. NotSleptOn'
    <3>1. OnWay' = OnWay \ {t} /\ t \in OnWay
      BY <2>1, <2>2 DEF OnWay
    <3>2. Cardinality(OnWay') = Cardinality(OnWay) - 1 /\ Cardinality(OnWay) \in Nat
      BY <2>8, <3>1, FS_RemoveElement, FS_CardinalityType, ZenonT(30)
    <3>3. Asleep' = Asleep
      BY <2>1, <2>2, ZenonT(30) DEF Asleep
    <3> QED
      BY <2>1, <2>3, <2>4, <3>2, <3>3 DEF NotSleptOn
  <2>10. NumbersConserved'
    <3>1. Primes!At("popped")' = Primes!At("popped") \cup {t} /\ t \notin Primes!At("popped")
      BY <2>1, <2>2 DEF Primes!At
    <3>2. Cardinality(Primes!At("popped")') = Cardinality(Primes!At("popped")) + 1
      BY <2>8, <3>1, FS_AddElement, ZenonT(30)
    <3>3. /\ Cardinality(Primes!At("popped")) \in Nat /\ Cardinality(Primes!Counted(Producers)) \in Nat
          /\ Cardinality(Primes!Counted(Consumers)) \in Nat
      BY <2>8, FS_CardinalityType
    <3>4. /\ Primes!Counted(Producers)' = Primes!Counted(Producers)
          /\ Primes!Counted(Consumers)' = Primes!Counted(Consumers)
      BY <2>1, ZenonT(30) DEF Primes!Counted
    <3> QED
      BY <2>1, <2>4, <3>2, <3>3, <3>4, SMTT(30) DEF NumbersConserved
  <2> QED
    BY <2>5, <2>6, <2>7, <2>9, <2>10
<1>12. ASSUME NEW t \in Consumers, Primes!Popped(t) PROVE PrimesInv'
  <2>1. /\ Primes!Goto(t, "pop_lock") /\ list_pc[t] = "popped" /\ Primes!Count(t)
        /\ UNCHANGED <<list, finished, list_mutex, k, list_main>> /\ t \notin Producers
    BY <1>12 DEF Primes!Popped, PrimesAssumption
  <2>2. /\ list_pc'[t] = "pop_lock" /\ \A u \in Primes!Threads : u # t => list_pc'[u] = list_pc[u]
        /\ list_pc' = [u \in Primes!Threads |-> list_pc'[u]]
    BY <2>1, ListGoto
  <2>3. /\ counters' \in [Primes!Threads -> Nat]
        /\ IsFiniteSet(Primes!Counted(Producers)') /\ IsFiniteSet(Primes!Counted(Consumers)')
        /\ Cardinality(Primes!Counted(Producers)') = Cardinality(Primes!Counted(Producers)) + 0
        /\ Cardinality(Primes!Counted(Consumers)') = Cardinality(Primes!Counted(Consumers)) + 1
    BY <2>1, CountsOne DEF NumbersConserved
  <2>4. PrimesTypes'
    BY <2>1, <2>2, <2>3, ZenonT(30) DEF PrimesTypes, PrimesAssumption
  <2>5. ListMutex'
    BY <2>1, <2>2 DEF PrimesTypes, PrimesAssumption, ListMutex, HoldsList
  <2>6. ProducersDone' /\ OnlyPrimes'
    BY <2>1, <2>2 DEF PrimesAssumption, ProducersDone, OnlyPrimes
  <2>7. Asleep' = Asleep /\ OnWay' = OnWay
    BY <2>1, <2>2 DEF Asleep, OnWay
  <2>8. NotSleptOn'
    BY <2>1, <2>7 DEF NotSleptOn
  <2>9. NumbersConserved'
    <3>1. /\ IsFiniteSet(Primes!At("popped"))
          /\ IsFiniteSet(Primes!Counted(Producers)) /\ IsFiniteSet(Primes!Counted(Consumers))
      BY FS_Subset DEF Primes!At, PrimesAssumption, NumbersConserved
    <3>2. Primes!At("popped")' = Primes!At("popped") \ {t} /\ t \in Primes!At("popped")
      BY <2>1, <2>2 DEF Primes!At
    <3>3. Cardinality(Primes!At("popped")') = Cardinality(Primes!At("popped")) - 1
      BY <3>1, <3>2, FS_RemoveElement
    <3>4. /\ Cardinality(Primes!At("popped")) \in Nat /\ Cardinality(Primes!Counted(Producers)) \in Nat
          /\ Cardinality(Primes!Counted(Consumers)) \in Nat /\ Len(list) \in Nat
      BY <3>1, FS_CardinalityType DEF PrimesTypes
    <3> QED
      BY <2>1, <2>3, <3>3, <3>4, SMTT(30) DEF NumbersConserved
  <2> QED
    BY <2>4, <2>5, <2>6, <2>8, <2>9
<1>13. CASE Primes!CreateConsumers \/ Primes!CreateProducers
  <2>1. ASSUME NEW t \in Primes!Threads, list_pc[t] = "none", NEW place, Primes!Goto(t, place),
               \/ t \in Consumers /\ place = "pop_lock"
               \/ t \in Producers /\ place = "search" /\ list_main = "create_producers",
               UNCHANGED <<list, finished, list_mutex, k, counters, list_main>>
        PROVE  PrimesInv'
    <3>1. /\ list_pc'[t] = place /\ \A u \in Primes!Threads : u # t => list_pc'[u] = list_pc[u]
          /\ list_pc' = [u \in Primes!Threads |-> list_pc'[u]]
      BY <2>1, ListGoto
    <3>2. PrimesTypes'
      BY <2>1, <3>1, ZenonT(30) DEF PrimesTypes, PrimesAssumption
    <3>3. ListMutex'
      BY <2>1, <3>1 DEF PrimesTypes, PrimesAssumption, ListMutex, HoldsList
    <3>4. ProducersDone' /\ OnlyPrimes'
      BY <2>1, <3>1 DEF PrimesAssumption, ProducersDone, OnlyPrimes
    <3>5. NotSleptOn' /\ NumbersConserved'
      BY <2>1, ThreadMoves
    <3> QED
      BY <3>2, <3>3, <3>4, <3>5
  <2>2. ASSUME \/ list_main = "create_consumers" /\ list_main' = "finish"
               \/ list_main = "create_producers" /\ list_main' = "join_producers",
               UNCHANGED <<list, finished, list_mutex, k, counters, list_pc>>
        PROVE  PrimesInv'
    <3>1. PrimesTypes' /\ ListMutex' /\ ProducersDone' /\ OnlyPrimes'
      BY <2>2 DEF PrimesTypes, ListMutex, ProducersDone, OnlyPrimes
    <3>2. NotSleptOn'
      BY <2>2 DEF NotSleptOn, Asleep, OnWay, ProducersDone
    <3>3. NumbersConserved'
      BY <2>2, ConservedKept, ZenonT(30) DEF Primes!At
    <3> QED
      BY <3>1, <3>2, <3>3, ZenonT(30)
  <2> QED
    BY <1>13, <2>1, <2>2, ZenonT(30) DEF Primes!CreateConsumers, Primes!CreateProducers,
       Primes!CreateOne
<1>14. CASE Primes!AllCreated \/ Primes!JoinProducers
  <2>1. PrimesTypes' /\ ListMutex' /\ ProducersDone' /\ OnlyPrimes'
    BY <1>14, SMTT(30) DEF Primes!AllCreated, Primes!JoinProducers, Primes!MainGoes, PrimesTypes,
       ListMutex, ProducersDone, OnlyPrimes
  <2>2. NotSleptOn'
    <3>1. ~finished /\ UNCHANGED <<finished, list, list_pc>>
      BY <1>14 DEF Primes!AllCreated, Primes!JoinProducers, Primes!MainGoes, ProducersDone
    <3>2. Asleep' = Asleep /\ OnWay' = OnWay
      BY <3>1 DEF Asleep, OnWay
    <3> QED
      BY <3>1, <3>2 DEF NotSleptOn
  <2>3. NumbersConserved'
    BY <1>14, ConservedKept DEF Primes!AllCreated, Primes!JoinProducers, Primes!MainGoes, Primes!At
  <2> QED
    BY <2>1, <2>2, <2>3
<1>15. CASE Primes!Finish
  <2>1. /\ list_main = "finish" /\ list_main' = "broadcast" /\ finished' = TRUE
        /\ UNCHANGED <<list, list_mutex, list_pc, k, counters>>
    BY <1>15 DEF Primes!Finish, Primes!MainGoes
  <2>2. PrimesTypes' /\ ListMutex' /\ OnlyPrimes'
    BY <2>1 DEF PrimesTypes, ListMutex, OnlyPrimes
  <2>3. ProducersDone'
    BY <2>1 DEF ProducersDone
  <2>4. NotSleptOn'
    BY <2>1 DEF NotSleptOn
  <2>5. NumbersConserved'
    BY <2>1, ConservedKept DEF Primes!At
  <2> QED
    BY <2>2, <2>3, <2>4, <2>5
<1>16. CASE Primes!Broadcast
  <2>1. /\ list_main = "broadcast" /\ list_main' = "join_consumers"
        /\ list_pc' = [t \in Primes!Threads |-> IF list_pc[t] = "asleep" THEN "wake" ELSE list_pc[t]]
        /\ UNCHANGED <<list, finished, list_mutex, k, counters>>
    BY <1>16 DEF Primes!Broadcast, Primes!MainGoes
  <2>2. PrimesTypes'
    BY <2>1 DEF PrimesTypes
  <2>3. ListMutex'
    BY <2>1, ZenonT(30) DEF PrimesTypes, ListMutex, HoldsList
  <2>4. ProducersDone' /\ OnlyPrimes'
    BY <2>1 DEF ProducersDone, OnlyPrimes
  <2>5. NotSleptOn'
    BY <2>1 DEF NotSleptOn, Asleep
  <2>6. Primes!At("popped")' = Primes!At("popped")
    BY <2>1 DEF Primes!At
  <2>7. NumbersConserved'
    BY <2>1, <2>6, ConservedKept, ZenonT(30)
  <2> QED
    BY <2>2, <2>3, <2>4, <2>5, <2>7, ZenonT(30)
<1>17. CASE Primes!Return
  <2>1. /\ list_main = "join_consumers" /\ list_main' = "returned" /\ list' = <<>>
        /\ \A c \in Consumers : list_pc[c] \in {"none", "exit"}
        /\ UNCHANGED <<finished, list_mutex, list_pc, k, counters>>
    BY <1>17 DEF Primes!Return, Primes!MainGoes
  <2>2. PrimesTypes'
    BY <2>1 DEF PrimesTypes
  <2>3. ListMutex'
    BY <2>1, ZenonT(30) DEF ListMutex
  <2>4. ProducersDone' /\ OnlyPrimes'
    BY <2>1, SMTT(30) DEF ProducersDone, OnlyPrimes
  <2>5. NotSleptOn'
    BY <2>1 DEF NotSleptOn, Asleep
  <2>6. NumbersConserved'
    BY <2>1, ZenonT(30) DEF NumbersConserved, Primes!Counted
  <2> QED
    BY <2>2, <2>3, <2>4, <2>5, <2>6
<1>18. CASE UNCHANGED Primes!vars
  <2>1. PrimesTypes' /\ ListMutex' /\ ProducersDone' /\ OnlyPrimes'
    BY <1>18 DEF Primes!vars, PrimesTypes, ListMutex, ProducersDone, OnlyPrimes
  <2>2. NotSleptOn'
    BY <1>18 DEF Primes!vars, NotSleptOn, Asleep, OnWay
  <2>3. NumbersConserved'
    BY <1>18, ConservedKept DEF Primes!vars, Primes!At
  <2> QED
    BY <2>1, <2>2, <2>3
<1> QED
  BY <1>1, <1>2, <1>3, <1>4, <1>5, <1>6, <1>7, <1>8, <1>9, <1>10, <1>11, <1>12, <1>13, <1>14,
     ZenonT(30),
     <1>15, <1>16, <1>17, <1>18, SMTT(30)
     DEF Primes!Next, Primes!ProducerRuns, Primes!ConsumerRuns, Primes!MainRuns

\* A prime has two divisors.
LEMMA PrimeDivisors ==
    ASSUME NEW m \in Nat, Primes!is_prime(m)
    PROVE  Cardinality({d \in 1 .. m : m % d = 0}) = 2
<1>1. m > 1
  BY DEF Primes!is_prime
<1>2. ASSUME NEW d \in 2 .. m - 1 PROVE (m % d) # 0
  BY DEF Primes!is_prime
<1>3. (m % 1) = 0 /\ (m % m) = 0
  BY <1>1
<1>4. {d \in 1 .. m : m % d = 0} = {1, m}
  BY <1>1, <1>2, <1>3
<1>5. Cardinality({1, m}) = 2
  <2>1. IsFiniteSet({1}) /\ Cardinality({1}) = 1
    BY FS_Singleton, ZenonT(30)
  <2>2. {1, m} = {1} \cup {m} /\ m \notin {1}
    BY <1>1
  <2> QED
    BY <2>1, <2>2, FS_AddElement
<1> QED
  BY <1>4, <1>5

\* The Cardinality that Primes extends is the one of this module.
LEMMA SameCardinality == \A S : Primes!Cardinality(S) = Cardinality(S)
  BY DEF Primes!Cardinality, Cardinality

\* The invariant holds from the beginning.
LEMMA PrimesHolds ==
    ASSUME PrimesAssumption
    PROVE  Primes!Spec => []PrimesInv
<1>1. Primes!Init => PrimesInv
  <2> SUFFICES ASSUME Primes!Init PROVE PrimesInv
    OBVIOUS
  <2> USE DEF Primes!Init
  <2>1. PrimesTypes
    <3>1. list \in Seq(Nat)
      OBVIOUS
    <3>2. finished \in BOOLEAN
      BY ZenonT(30)
    <3>3. k \in [Producers -> First .. Last]
      BY DEF PrimesAssumption
    <3> QED
      BY <3>1, <3>2, <3>3 DEF PrimesTypes, Primes!Threads
  <2>2. ListMutex /\ OnlyPrimes
    BY DEF ListMutex, HoldsList, OnlyPrimes, Primes!Threads, PrimesAssumption
  <2>3. ProducersDone
    BY DEF ProducersDone, Primes!Threads
  <2>4. NotSleptOn
    BY DEF NotSleptOn, Asleep, Primes!Threads
  <2>5. NumbersConserved
    <3>1. Primes!Counted(Producers) = {} /\ Primes!Counted(Consumers) = {} /\ Primes!At("popped") = {}
      BY DEF Primes!Counted, Primes!At, Primes!Threads
    <3> QED
      BY <3>1, FS_EmptySet DEF NumbersConserved
  <2> QED
    BY <2>1, <2>2, <2>3, <2>4, <2>5 DEF PrimesInv
<1>2. PrimesInv /\ [Primes!Next]_Primes!vars => PrimesInv'
  BY PrimesStep
<1> QED
  BY <1>1, <1>2, PTL DEF Primes!Spec

\* For any producers, finitely many consumers and any range: no number is lost or taken
\* twice, and a consumer that calls list_pop finds a prime (run_producer, run_consumer).
THEOREM NoPrimeLost ==
    ASSUME PrimesAssumption
    PROVE  Primes!Spec => []Conserved
<1>1. PrimesInv => Conserved
  <2> SUFFICES ASSUME PrimesInv PROVE Conserved
    OBVIOUS
  <2>1. DOMAIN list = 1 .. Len(list) /\ \A j \in 1 .. Len(list) : list[j] \in Nat
    BY DEF PrimesInv, PrimesTypes
  <2>2. \A j \in DOMAIN list : Cardinality({d \in 1 .. list[j] : list[j] % d = 0}) = 2
    BY <2>1, PrimeDivisors DEF PrimesInv, OnlyPrimes
  <2>3. Primes!PopFinds
    BY <2>2, SameCardinality, ZenonT(30) DEF PrimesInv, ListMutex, Primes!PopFinds
  <2> QED
    BY <2>3, SameCardinality DEF PrimesInv, NumbersConserved, Conserved, Primes!Conserved
<1> QED
  BY <1>1, PrimesHolds, PTL

\* For the same: while a consumer sleeps there is for every number in the list one on its
\* way, and after the broadcast a consumer sleeps only on an empty list.
THEOREM NoPrimeSleptOn ==
    ASSUME PrimesAssumption
    PROVE  Primes!Spec => []NoNumberSleptOn
<1>1. PrimesInv => NoNumberSleptOn
  <2>1. Primes!At("asleep") = Asleep
    BY DEF Primes!At, Asleep
  <2> QED
    BY <2>1, SameCardinality DEF PrimesInv, NotSleptOn, OnWay, NoNumberSleptOn,
       Primes!NoNumberSleptOn
<1> QED
  BY <1>1, PrimesHolds, PTL
=============================================================================
