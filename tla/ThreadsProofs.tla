---------------------------- MODULE ThreadsProofs ----------------------------
(***************************************************************************)
(* Proofs about programs with threads of ex08 and ex09, for any number of  *)
(* threads: those with thread-specific data and sqrt.c, as instances of    *)
(* Threads, and power.c.                                                   *)
(***************************************************************************)
EXTENDS Threads, FiniteSetTheorems, TLAPS

-----------------------------------------------------------------------------
(* Thread-specific data *)

DataThreads == Producers \cup {Main}
DataPlaces == {"none", "start", "malloc", "set", "barrier_wait", "barrier", "print", "return", "exit"}
Items == {<<>>} \cup ((DataThreads \cup {NULL}) \X (DataThreads \cup {NULL}))

DataTypes ==
    /\ file \in {"tls", "keys", "stopwatch"}
    /\ data_pc \in [DataThreads -> DataPlaces]
    /\ id_static \in DataThreads \cup {NULL}
    /\ blocks \subseteq DataThreads /\ specific \subseteq blocks
    /\ printed \in [DataThreads -> Items]
    /\ data_main \in {"create", "join", "returned", "exit"} /\ failed \in BOOLEAN

\* main does not run run_thread before all threads exist; only tls.c has a barrier.
MainWaits == data_main = "create" => data_pc[Main] = "none"
OnlyTls == \A t \in DataThreads : data_pc[t] \in {"barrier_wait", "barrier"} => file = "tls"

\* From pthread_setspecific until its end a thread's block exists and the key has it.
HasData ==
    \A t \in DataThreads :
        /\ data_pc[t] = "set" => t \in blocks
        /\ data_pc[t] \in {"barrier_wait", "barrier", "print", "return"} => t \in specific

\* Once somebody has passed the barrier of tls.c nobody is before it any more.
Passed ==
    file = "tls" => \A t, u \in DataThreads :
        data_pc[t] \in {"print", "return"} \/ printed[t] # <<>> =>
            data_pc[u] \in {"print", "return", "exit"}

\* What has been printed is the thread's own, and id_static has not changed since.
Own ==
    \A t \in DataThreads : printed[t] # <<>> =>
        printed[t][2] = t /\ (file = "tls" => printed[t][1] = id_static)

\* A thread that has not begun, or has ended without a failing call, has no block.
NoneLeft ==
    /\ \A t \in DataThreads : data_pc[t] = "none" => t \notin blocks
    /\ ~failed => \A t \in Producers : data_pc[t] = "exit" => t \notin blocks
    /\ data_main = "returned" /\ ~failed => blocks \subseteq {Main}

DataInv == DataTypes /\ MainWaits /\ OnlyTls /\ HasData /\ Passed /\ Own /\ NoneLeft

\* The end of a thread, with its destructor, keeps all but NoneLeft; for a thread that
\* has begun.
LEMMA EndKeeps ==
    ASSUME DataInv, NEW t \in DataThreads, ThreadData!At(t, data_pc[t]), data_pc[t] # "none",
           ThreadData!Ends(t),
           UNCHANGED <<file, id_static, printed, data_main>>, failed' \in BOOLEAN
    PROVE  DataTypes' /\ MainWaits' /\ OnlyTls' /\ HasData' /\ Passed' /\ Own'
<1> USE DEF DataInv, ThreadData!Ends, ThreadData!Goto, DataPlaces
<1>1. DataTypes'
  BY DEF DataTypes
<1>2. MainWaits'
  BY DEF DataTypes, MainWaits, DataThreads
<1>3. OnlyTls'
  BY DEF DataTypes, OnlyTls
<1>4. HasData'
  BY DEF DataTypes, HasData
<1>5. Passed'
  BY DEF DataTypes, Passed
<1>6. Own'
  BY DEF DataTypes, Own
<1> QED
  BY <1>1, <1>2, <1>3, <1>4, <1>5, <1>6

\* A step of run_thread, thread_entry or thread_run keeps the invariant.
LEMMA ThreadKeeps ==
    ASSUME Main \notin Producers, DataInv, NEW t \in DataThreads, ThreadData!ThreadRuns(t)
    PROVE  DataInv'
<1> USE DEF DataInv
<1>1. CASE ThreadData!StoreStatic(t)
  <2> USE <1>1 DEF ThreadData!StoreStatic, ThreadData!At, ThreadData!Goto
  <2>1. DataTypes'
    BY DEF DataTypes, DataPlaces
  <2>2. MainWaits' /\ OnlyTls' /\ HasData'
    BY DEF DataTypes, DataPlaces, MainWaits, OnlyTls, HasData, DataThreads
  <2>3. \A u \in DataThreads : printed[u] = <<>> /\ data_pc[u] \notin {"print", "return"}
    BY DEF DataTypes, Passed
  <2>4. Passed' /\ Own'
    BY <2>3 DEF DataTypes, DataPlaces, Passed, Own
  <2>5. NoneLeft'
    BY DEF DataTypes, DataPlaces, NoneLeft, DataThreads
  <2> QED
    BY <2>1, <2>2, <2>4, <2>5
<1>2. CASE ThreadData!Begin(t)
  <2> USE <1>2 DEF ThreadData!Begin, ThreadData!At, ThreadData!Goto
  <2>1. DataTypes'
    BY DEF DataTypes, DataPlaces
  <2>2. MainWaits' /\ OnlyTls' /\ HasData'
    BY DEF DataTypes, DataPlaces, MainWaits, OnlyTls, HasData, DataThreads
  <2>3. Passed' /\ Own'
    BY DEF DataTypes, DataPlaces, Passed, Own
  <2>4. NoneLeft'
    BY DEF DataTypes, DataPlaces, NoneLeft, DataThreads
  <2> QED
    BY <2>1, <2>2, <2>3, <2>4
<1>3. CASE ThreadData!Malloc(t)
  <2> USE <1>3 DEF ThreadData!Malloc, ThreadData!At, ThreadData!Goto
  <2>1. DataTypes'
    BY DEF DataTypes, DataPlaces
  <2>2. MainWaits' /\ OnlyTls' /\ HasData'
    BY DEF DataTypes, DataPlaces, MainWaits, OnlyTls, HasData, DataThreads
  <2>3. Passed' /\ Own'
    BY DEF DataTypes, DataPlaces, Passed, Own
  <2>4. NoneLeft'
    BY DEF DataTypes, DataPlaces, NoneLeft, DataThreads
  <2> QED
    BY <2>1, <2>2, <2>3, <2>4
<1>4. CASE ThreadData!MallocFails(t)
  <2> USE <1>4 DEF ThreadData!MallocFails, ThreadData!At
  <2>1. CASE ThreadData!Ends(t) /\ UNCHANGED data_main
    <3>1. DataTypes' /\ MainWaits' /\ OnlyTls' /\ HasData' /\ Passed' /\ Own'
      BY <2>1, EndKeeps
    <3>2. NoneLeft'
      BY <2>1 DEF DataTypes, DataPlaces, NoneLeft, ThreadData!Ends, ThreadData!Goto, DataThreads
    <3> QED
      BY <3>1, <3>2
  <2>2. CASE data_main' = "exit" /\ UNCHANGED <<data_pc, blocks, specific>>
    <3>1. DataTypes'
      BY <2>2 DEF DataTypes
    <3>2. MainWaits' /\ OnlyTls' /\ HasData' /\ Passed' /\ Own' /\ NoneLeft'
      BY <2>2 DEF MainWaits, OnlyTls, HasData, Passed, Own, NoneLeft
    <3> QED
      BY <3>1, <3>2
  <2> QED
    BY <2>1, <2>2
<1>5. CASE ThreadData!SetSpecific(t)
  <2> USE <1>5 DEF ThreadData!SetSpecific, ThreadData!At, ThreadData!Goto
  <2>1. t \in blocks
    BY DEF HasData
  <2>2. DataTypes'
    BY <2>1 DEF DataTypes, DataPlaces
  <2>3. MainWaits' /\ OnlyTls' /\ HasData'
    BY DEF DataTypes, DataPlaces, MainWaits, OnlyTls, HasData, DataThreads
  <2>4. Passed' /\ Own'
    BY DEF DataTypes, DataPlaces, Passed, Own
  <2>5. NoneLeft'
    BY DEF DataTypes, DataPlaces, NoneLeft, DataThreads
  <2> QED
    BY <2>2, <2>3, <2>4, <2>5
<1>6. CASE ThreadData!SetSpecificFails(t)
  <2> USE <1>6 DEF ThreadData!SetSpecificFails, ThreadData!At
  <2>1. DataTypes' /\ MainWaits' /\ OnlyTls' /\ HasData' /\ Passed' /\ Own'
    BY EndKeeps
  <2>2. NoneLeft'
    BY DEF DataTypes, DataPlaces, NoneLeft, ThreadData!Ends, ThreadData!Goto, DataThreads
  <2> QED
    BY <2>1, <2>2
<1>7. CASE ThreadData!Arrive(t)
  <2> USE <1>7 DEF ThreadData!Arrive, ThreadData!At
  <2>1. file = "tls" /\ ThreadData!Runners = DataThreads
    BY DEF OnlyTls, ThreadData!Runners, DataThreads
  <2>2. CASE \A u \in ThreadData!Runners \ {t} : data_pc[u] = "barrier"
    <3>1. data_pc' = [u \in DataThreads |-> "print"]
      BY <2>2 DEF DataThreads
    <3>2. \A u \in DataThreads : u \in specific /\ data_pc[u] \notin {"none", "exit"}
      BY <2>1, <2>2 DEF HasData
    <3>3. DataTypes' /\ OnlyTls' /\ HasData' /\ Passed' /\ Own'
      BY <3>1, <3>2 DEF DataTypes, DataPlaces, OnlyTls, HasData, Passed, Own
    <3>4. MainWaits' /\ NoneLeft'
      BY <3>1, <3>2 DEF MainWaits, NoneLeft, DataThreads
    <3> QED
      BY <3>3, <3>4
  <2>3. CASE ~(\A u \in ThreadData!Runners \ {t} : data_pc[u] = "barrier")
    <3>1. data_pc' = [data_pc EXCEPT ![t] = "barrier"]
      BY <2>3
    <3>2. DataTypes'
      BY <3>1 DEF DataTypes, DataPlaces
    <3>3. MainWaits' /\ OnlyTls' /\ HasData'
      BY <3>1, <2>1 DEF DataTypes, MainWaits, OnlyTls, HasData, DataThreads
    <3>4. Passed' /\ Own'
      BY <3>1 DEF DataTypes, Passed, Own
    <3>5. NoneLeft'
      BY <3>1 DEF DataTypes, NoneLeft, DataThreads
    <3> QED
      BY <3>2, <3>3, <3>4, <3>5
  <2> QED
    BY <2>2, <2>3
<1>8. CASE ThreadData!PrintData(t)
  <2> USE <1>8 DEF ThreadData!PrintData, ThreadData!At, ThreadData!Goto
  <2>1. t \in specific \cap blocks
    BY DEF HasData, DataTypes
  <2>2. printed' = [printed EXCEPT ![t] = <<id_static, t>>]
    BY <2>1
  <2>3. DataTypes'
    BY <2>2 DEF DataTypes, DataPlaces, Items
  <2>4. MainWaits' /\ OnlyTls' /\ HasData'
    BY DEF DataTypes, MainWaits, OnlyTls, HasData, DataThreads
  <2>5. Passed'
    BY <2>2 DEF DataTypes, Passed
  <2>6. Own'
    BY <2>2 DEF DataTypes, Own
  <2>7. NoneLeft'
    BY DEF DataTypes, NoneLeft, DataThreads
  <2> QED
    BY <2>3, <2>4, <2>5, <2>6, <2>7
<1>9. CASE ThreadData!Return(t)
  <2> USE <1>9 DEF ThreadData!Return, ThreadData!At
  <2>1. DataTypes' /\ MainWaits' /\ OnlyTls' /\ HasData' /\ Passed' /\ Own'
    BY EndKeeps DEF DataTypes
  <2>2. t \in specific
    BY DEF HasData
  <2>3. NoneLeft'
    BY <2>2 DEF DataTypes, NoneLeft, ThreadData!Ends, ThreadData!Goto, DataThreads
  <2> QED
    BY <2>1, <2>3, ZenonT(30)
<1> QED
  BY <1>1, <1>2, <1>3, <1>4, <1>5, <1>6, <1>7, <1>8, <1>9, ZenonT(30) DEF ThreadData!ThreadRuns

\* A step of main keeps the invariant.
LEMMA MainKeeps ==
    ASSUME Main \notin Producers, DataInv, ThreadData!MainRuns
    PROVE  DataInv'
<1> USE DEF DataInv
<1>1. ASSUME NEW t \in Producers, ThreadData!Create(t) PROVE DataInv'
  <2> USE <1>1 DEF ThreadData!Create, ThreadData!Goto
  <2>1. DataTypes'
    BY DEF DataTypes, DataPlaces, DataThreads
  <2>2. MainWaits' /\ OnlyTls' /\ HasData'
    BY DEF DataTypes, MainWaits, OnlyTls, HasData, DataThreads
  <2>3. Passed' /\ Own'
    BY DEF DataTypes, Passed, Own, DataThreads
  <2>4. NoneLeft'
    BY DEF DataTypes, NoneLeft, DataThreads
  <2> QED
    BY <2>1, <2>2, <2>3, <2>4, ZenonT(30)
<1>2. CASE ThreadData!CreateFails
  <2> USE <1>2 DEF ThreadData!CreateFails
  <2>1. DataTypes'
    BY DEF DataTypes
  <2>2. MainWaits' /\ OnlyTls' /\ HasData' /\ Passed' /\ Own' /\ NoneLeft'
    BY SMTT(30) DEF MainWaits, OnlyTls, HasData, Passed, Own, NoneLeft
  <2> QED
    BY <2>1, <2>2
<1>3. CASE ThreadData!AllCreated
  <2> USE <1>3 DEF ThreadData!AllCreated, ThreadData!Goto
  <2>1. data_pc[Main] = "none"
    BY DEF MainWaits
  <2>2. DataTypes'
    BY DEF DataTypes, DataPlaces, DataThreads
  <2>3. MainWaits' /\ OnlyTls' /\ HasData'
    BY DEF DataTypes, MainWaits, OnlyTls, HasData, DataThreads
  <2>4. Passed' /\ Own'
    BY <2>1 DEF DataTypes, Passed, Own, DataThreads
  <2>5. NoneLeft'
    BY <2>1 DEF DataTypes, NoneLeft, DataThreads
  <2> QED
    BY <2>2, <2>3, <2>4, <2>5, SMTT(30)
<1>4. CASE ThreadData!JoinAll
  <2> USE <1>4 DEF ThreadData!JoinAll
  <2>1. DataTypes'
    BY DEF DataTypes
  <2>2. MainWaits' /\ OnlyTls' /\ HasData' /\ Passed' /\ Own'
    BY DEF MainWaits, OnlyTls, HasData, Passed, Own
  <2>3. NoneLeft'
    BY DEF DataTypes, NoneLeft, DataThreads
  <2> QED
    BY <2>1, <2>2, <2>3
<1> QED
  BY <1>1, <1>2, <1>3, <1>4 DEF ThreadData!MainRuns

\* For any set of threads main is not one of: in tls.c, keys.c and stopwatch.c a thread
\* prints its own data and the id_static everybody prints, and main leaves no block of
\* another thread behind unless a call failed.
THEOREM DataStaysOwn ==
    ASSUME Main \notin Producers
    PROVE  ThreadData!Spec => []OwnData
<1>1. ThreadData!Init => DataInv
  BY ZenonT(30) DEF ThreadData!Init, DataInv, DataTypes, DataPlaces, Items, MainWaits, OnlyTls,
     HasData, Passed, Own, NoneLeft, DataThreads
<1>2. DataInv /\ [ThreadData!Next]_ThreadData!vars => DataInv'
  <2> SUFFICES ASSUME DataInv, [ThreadData!Next]_ThreadData!vars PROVE DataInv'
    OBVIOUS
  <2>1. ASSUME NEW t \in DataThreads, ThreadData!ThreadRuns(t) PROVE DataInv'
    BY <2>1, ThreadKeeps
  <2>2. CASE ThreadData!MainRuns
    BY <2>2, MainKeeps, ZenonT(30)
  <2>3. CASE UNCHANGED ThreadData!vars
    BY <2>3 DEF ThreadData!vars, DataInv, DataTypes, MainWaits, OnlyTls, HasData, Passed, Own,
                NoneLeft
  <2> QED
    BY <2>1, <2>2, <2>3 DEF ThreadData!Next, DataThreads
<1>3. DataInv => OwnData
  BY DEF DataInv, Own, NoneLeft, OwnData, ThreadData!OwnData, DataThreads
<1> QED
  BY <1>1, <1>2, <1>3, PTL DEF ThreadData!Spec

-----------------------------------------------------------------------------
(* power.c *)

\* The places after the barrier, and those where a worker has the mutex.
Released == {"loop", "load", "store", "unlock", "exit"}
Holding == {"load", "store", "unlock"}

\* The increments made so far: the j-th of worker w is made when w stores.
Grid == Workers \X (1 .. Threads)
Made(w) == IF pc[w] = "unlock" THEN done[w] + 1 ELSE done[w]
Increments == {p \in Grid : p[2] <= Made(p[1])}

\* thread_mutex is owned by the worker between its lock and its unlock, which
\* has loaded the counter's value by the time it stores.
MutexInv ==
    \A w \in Workers :
        /\ pc[w] \in Holding <=> mutex = w
        /\ pc[w] = "store" => loaded[w] = counter

\* Nobody passes the barrier before all have arrived; before it nothing is done,
\* inside the loop's body something is left, at the end nothing.
BarrierInv ==
    /\ (\E w \in Workers : pc[w] \in Released) => \A w \in Workers : pc[w] \in Released
    /\ \A w \in Workers :
         /\ pc[w] \notin Released => done[w] = 0
         /\ pc[w] \in Holding => done[w] < Threads
         /\ pc[w] = "exit" => done[w] = Threads

\* No increment is lost.
CountInv == counter = Cardinality(Increments)

StatusInv == main # "report" => status = "EXIT_FAILURE"

PowerInv == TypeOK /\ MutexInv /\ BarrierInv /\ CountInv /\ StatusInv /\ ReportsWholeRun

\* The number of workers is a positive natural number, and the grid of all
\* increments has its square as size.
LEMMA GridSize ==
    /\ Threads \in Nat /\ Threads > 0
    /\ IsFiniteSet(Grid)
    /\ Cardinality(Grid) = Threads * Threads
  <1>1. Threads \in Nat
    BY PowerAssumption, FS_CardinalityType DEF Threads
  <1>2. Threads # 0
    BY PowerAssumption, FS_EmptySet DEF Threads
  <1>3. IsFiniteSet(1 .. Threads) /\ Cardinality(1 .. Threads) = Threads
    BY <1>1, FS_Interval
  <1>4. IsFiniteSet(Grid) /\ Cardinality(Grid) = Cardinality(Workers) * Cardinality(1 .. Threads)
    BY PowerAssumption, <1>3, FS_Product, ZenonT(30) DEF Grid
  <1> QED
    BY <1>1, <1>2, <1>3, <1>4 DEF Threads

\* The increments made are a finite set.
LEMMA IncrementsFinite == IsFiniteSet(Increments) /\ Cardinality(Increments) \in Nat
  <1>1. Increments \subseteq Grid
    BY DEF Increments
  <1> QED
    BY <1>1, GridSize, FS_Subset, FS_CardinalityType

\* main starts with nothing counted and nothing done.
LEMMA PowerInitial == Init => PowerInv
  <1> SUFFICES ASSUME Init PROVE PowerInv
    OBVIOUS
  <1>1. TypeOK
    BY GridSize DEF Init, TypeOK, Places
  <1>2. MutexInv /\ BarrierInv /\ StatusInv /\ ReportsWholeRun
    BY PowerAssumption DEF Init, MutexInv, BarrierInv, StatusInv, ReportsWholeRun, Holding,
                           Released
  <1>3. Increments = {}
    <2>1. ASSUME NEW p \in Grid PROVE ~(p[2] <= Made(p[1]))
      BY GridSize DEF Init, Grid, Made
    <2> QED
      BY <2>1 DEF Increments
  <1>4. CountInv
    BY <1>3, FS_EmptySet, ZenonT(30) DEF Init, CountInv
  <1> QED
    BY <1>1, <1>2, <1>4 DEF PowerInv

\* Every step keeps the variables well typed.
LEMMA PowerTypeStep == PowerInv /\ [Next]_vars => TypeOK'
  <1> SUFFICES ASSUME PowerInv, [Next]_vars PROVE TypeOK'
    BY ZenonT(30)
  <1> USE GridSize DEF PowerInv, TypeOK, Places
  <1>1. ASSUME NEW w \in Workers, WorkerRuns(w) \/ Lock(w) \/ Create(w) PROVE TypeOK'
    BY <1>1 DEF WorkerRuns, Arrive, Load, Store, Unlock, Exit, Lock, Create, Goto,
                BarrierInv, Holding
  <1>2. ASSUME CreateFails \/ AllCreated \/ Report PROVE TypeOK'
    BY <1>2 DEF CreateFails, AllCreated, Report
  <1>3. ASSUME UNCHANGED vars PROVE TypeOK'
    BY <1>3, ZenonT(30) DEF vars
  <1> QED
    BY <1>1, <1>2, <1>3 DEF Next

\* The mutex is held by the worker inside the loop's body only.
LEMMA PowerMutexStep == PowerInv /\ [Next]_vars => MutexInv'
  <1> SUFFICES ASSUME PowerInv, [Next]_vars PROVE MutexInv'
    OBVIOUS
  <1> USE PowerAssumption DEF PowerInv, TypeOK, Places, MutexInv, Holding
  <1>1. ASSUME NEW w \in Workers, Arrive(w) PROVE MutexInv'
    BY <1>1 DEF Arrive
  <1>2. ASSUME NEW w \in Workers, Load(w) \/ Store(w) \/ Unlock(w) PROVE MutexInv'
    BY <1>2 DEF Load, Store, Unlock, Goto
  <1>3. ASSUME NEW w \in Workers, Exit(w) \/ Lock(w) \/ Create(w) PROVE MutexInv'
    BY <1>3 DEF Exit, Lock, Create, Goto
  <1>4. ASSUME CreateFails \/ AllCreated \/ Report PROVE MutexInv'
    BY <1>4 DEF CreateFails, AllCreated, Report
  <1>5. ASSUME UNCHANGED vars PROVE MutexInv'
    BY <1>5, SMTT(30) DEF vars
  <1> QED
    BY <1>1, <1>2, <1>3, <1>4, <1>5, ZenonT(30) DEF Next, WorkerRuns

\* Only the last worker to arrive lets anybody past the barrier.
LEMMA PowerBarrierStep == PowerInv /\ [Next]_vars => BarrierInv'
  <1> SUFFICES ASSUME PowerInv, [Next]_vars PROVE BarrierInv'
    OBVIOUS
  <1> USE GridSize DEF PowerInv, TypeOK, Places, BarrierInv, Holding, Released
  <1>1. ASSUME NEW w \in Workers, Arrive(w) PROVE BarrierInv'
    BY <1>1 DEF Arrive
  <1>2. ASSUME NEW w \in Workers, Load(w) \/ Store(w) PROVE BarrierInv'
    BY <1>2 DEF Load, Store, Goto
  <1>3. ASSUME NEW w \in Workers, Unlock(w) PROVE BarrierInv'
    BY <1>3 DEF Unlock, Goto
  <1>4. ASSUME NEW w \in Workers, Exit(w) \/ Lock(w) \/ Create(w) PROVE BarrierInv'
    BY <1>4, ZenonT(30) DEF Exit, Lock, Create, Goto
  <1>5. ASSUME CreateFails \/ AllCreated \/ Report PROVE BarrierInv'
    BY <1>5 DEF CreateFails, AllCreated, Report
  <1>6. ASSUME UNCHANGED vars PROVE BarrierInv'
    BY <1>6 DEF vars
  <1> QED
    BY <1>1, <1>2, <1>3, <1>4, <1>5, <1>6, ZenonT(30) DEF Next, WorkerRuns

\* A step that leaves counter and what every worker has made alone leaves the
\* count right.
LEMMA SameIncrements ==
    ASSUME CountInv, counter' = counter, \A w \in Workers : Made(w)' = Made(w)
    PROVE  CountInv'
  <1>1. Increments' = Increments
    BY DEF Increments, Grid, Threads
  <1> QED
    BY <1>1 DEF CountInv

\* The counter is the number of increments made: the store of a worker adds its
\* next increment to the set, and 1 to the value it loaded, which nobody else
\* could change since.
LEMMA PowerCountStep == PowerInv /\ [Next]_vars => CountInv'
  <1> SUFFICES ASSUME PowerInv, [Next]_vars PROVE CountInv'
    OBVIOUS
  <1> USE GridSize DEF PowerInv, TypeOK, Places
  <1>1. ASSUME NEW w \in Workers, Store(w) PROVE CountInv'
    <2> DEFINE p == <<w, done[w] + 1>>
    <2>1. counter' = Cardinality(Increments) + 1
      BY <1>1, ZenonT(30) DEF Store, MutexInv, CountInv
    <2>2. done[w] \in 0 .. Threads /\ done[w] < Threads /\ pc[w] = "store"
      BY <1>1 DEF Store, BarrierInv, Holding
    <2>3. p \in Grid /\ p \notin Increments
      BY <2>2 DEF Grid, Increments, Made
    <2>4. \A v \in Workers : Made(v)' = IF v = w THEN done[w] + 1 ELSE Made(v)
      BY <1>1, <2>2 DEF Store, Goto, Made
    <2>5. Made(w) = done[w]
      BY <2>2 DEF Made
    <2>6. ASSUME NEW q \in Grid PROVE q \in Increments' <=> q \in Increments \/ q = p
      <3>1. PICK v \in Workers, j \in 1 .. Threads : q = <<v, j>>
        BY DEF Grid
      <3>2. q[1] = v /\ q[2] = j
        BY <3>1
      <3>3. q \in Increments <=> j <= Made(v)
        BY <3>2 DEF Increments
      <3>4. q \in Increments' <=> j <= Made(v)'
        BY <3>2 DEF Increments, Grid, Threads
      <3>5. q = p <=> v = w /\ j = done[w] + 1
        BY <3>1
      <3> QED
        BY <3>3, <3>4, <3>5, <2>2, <2>4, <2>5
    <2>7. Increments' = Increments \cup {p}
      <3>1. Increments \subseteq Grid
        BY DEF Increments
      <3>2. Increments' \subseteq Grid
        BY DEF Increments, Grid, Threads
      <3> QED
        BY <2>3, <2>6, <3>1, <3>2, ZenonT(30)
    <2> QED
      BY <2>1, <2>3, <2>7, IncrementsFinite, FS_AddElement, ZenonT(30) DEF CountInv
  <1>2. ASSUME NEW w \in Workers, Arrive(w) PROVE CountInv'
    BY <1>2, SameIncrements, ZenonT(30) DEF Arrive, Made
  <1>3. ASSUME NEW w \in Workers, Unlock(w) PROVE CountInv'
    BY <1>3, SameIncrements, ZenonT(30) DEF Unlock, Goto, Made
  <1>4. ASSUME NEW w \in Workers, Load(w) \/ Exit(w) \/ Lock(w) \/ Create(w) PROVE CountInv'
    BY <1>4, SameIncrements, ZenonT(30) DEF Load, Exit, Lock, Create, Goto, Made
  <1>5. ASSUME CreateFails \/ AllCreated \/ Report \/ UNCHANGED vars PROVE CountInv'
    BY <1>5, SameIncrements, ZenonT(30) DEF CreateFails, AllCreated, Report, vars, Made
  <1> QED
    BY <1>1, <1>2, <1>3, <1>4, <1>5, ZenonT(30) DEF Next, WorkerRuns

\* When main compares, either nobody ever started or everybody is done: one
\* worker that was left out keeps the others at the barrier.
LEMMA PowerReportStep ==
    PowerInv /\ [Next]_vars => StatusInv' /\ ReportsWholeRun'
  <1> SUFFICES ASSUME PowerInv, [Next]_vars PROVE StatusInv' /\ ReportsWholeRun'
    BY ZenonT(30)
  <1> USE GridSize DEF PowerInv, TypeOK, Places
  <1>1. ASSUME Report PROVE StatusInv' /\ ReportsWholeRun'
    <2>1. CASE \E w \in Workers : pc[w] = "exit"
      <3>1. \A w \in Workers : pc[w] = "exit" /\ done[w] = Threads
        BY <1>1, <2>1 DEF Report, BarrierInv, Released
      <3>2. Increments = Grid
        BY <3>1 DEF Increments, Grid, Made
      <3>3. counter = Threads * Threads
        BY <3>2 DEF CountInv
      <3> QED
        BY <1>1, <3>1, <3>3, ZenonT(30) DEF Report, StatusInv, ReportsWholeRun, Threads
    <2>2. CASE \A w \in Workers : pc[w] = "none"
      <3>1. \A w \in Workers : Made(w) = 0
        BY <2>2 DEF BarrierInv, Released, Made
      <3>2. Increments = {}
        BY <3>1 DEF Increments, Grid
      <3>3. counter = 0
        BY <3>2, FS_EmptySet DEF CountInv
      <3>4. Threads * Threads # 0
        BY GridSize
      <3>5. status = "EXIT_FAILURE"
        BY <1>1 DEF Report, StatusInv
      <3> QED
        BY <1>1, <2>2, <3>3, <3>4, <3>5, ZenonT(30) DEF Report, StatusInv, ReportsWholeRun
    <2> QED
      BY <1>1, <2>1, <2>2, ZenonT(30) DEF Report
  <1>2. ASSUME NEW w \in Workers, WorkerRuns(w) \/ Lock(w) \/ Create(w)
        PROVE StatusInv' /\ ReportsWholeRun'
    <2>1. main # "report"
      BY <1>2, ZenonT(30) DEF ReportsWholeRun, WorkerRuns, Arrive, Load, Store, Unlock, Exit, Lock,
         Create
    <2>2. main' = main /\ status' = status
      BY <1>2, ZenonT(30) DEF WorkerRuns, Arrive, Load, Store, Unlock, Exit, Lock, Create
    <2> QED
      BY <2>1, <2>2, ZenonT(30) DEF StatusInv, ReportsWholeRun
  <1>3. ASSUME CreateFails \/ AllCreated PROVE StatusInv' /\ ReportsWholeRun'
    BY <1>3, ZenonT(30) DEF CreateFails, AllCreated, StatusInv, ReportsWholeRun
  <1>4. ASSUME UNCHANGED vars PROVE StatusInv' /\ ReportsWholeRun'
    BY <1>4 DEF vars, StatusInv, ReportsWholeRun, Threads
  <1> QED
    BY <1>1, <1>2, <1>3, <1>4, ZenonT(30) DEF Next

\* PowerInv is an inductive invariant of the program.
THEOREM PowerInvariance == Spec => []PowerInv
  <1>1. PowerInv /\ [Next]_vars => PowerInv'
    BY PowerTypeStep, PowerMutexStep, PowerBarrierStep, PowerCountStep, PowerReportStep, ZenonT(30)
       DEF PowerInv
  <1> QED
    BY PowerInitial, <1>1, PTL DEF Spec

\* For any number of workers, what main reports on is a whole run, with the
\* counter the square of that number, or a run in which no thread was created.
THEOREM WholeRuns == Spec => []ReportsWholeRun
  <1>1. PowerInv => ReportsWholeRun
    BY DEF PowerInv
  <1> QED
    BY PowerInvariance, <1>1, PTL

-----------------------------------------------------------------------------
(* sqrt.c *)

\* The lock of n and s: its readers are the consumers between their rdlock and
\* unlock, its writer the producer between its own, and they exclude each other.
LockInv ==
    /\ \A c \in Consumers : sqrt_pc[c] \in {"read_s", "read_n"} <=> c \in readers
    /\ writing <=> prod \in {"store_n", "store_s"}
    /\ writing => readers = {}

\* The producer's loop never passes the root, and stops at it; the shared pair
\* is a number and its root except between the two stores; what a consumer has
\* loaded is part of that pair.
PairInv ==
    /\ prod = "descend" => newN < (newS + 1) * (newS + 1)
    /\ prod \in {"lock", "store_n", "store_s"} => Sqrt!IsRoot(newS, newN)
    /\ prod = "store_s" => n = newN
    /\ prod # "store_s" => Sqrt!IsRoot(s, n)
    /\ \A c \in Consumers : sqrt_pc[c] = "read_n" => tempS[c] = s
    /\ \A c \in Consumers : sqrt_pc[c] = "verify" => Sqrt!IsRoot(tempS[c], tempN[c])

\* A consumer exits only after finished was set, which is the producer's last
\* access to the shared data; the producer starts after all consumers, and has
\* commits left while it is inside its loop.
EndInv ==
    /\ prod \in {"descend", "lock", "store_n", "store_s"} => i < Iterations
    /\ \A c \in Consumers : sqrt_pc[c] = "exit" => sqrt_finished
    /\ sqrt_finished => prod \in {"unlock", "exit"}
    /\ prod # "none" => sqrt_main # "create" /\ \A c \in Consumers : sqrt_pc[c] # "none"
    /\ sqrt_main = "returned" => \A c \in Consumers : sqrt_pc[c] \in {"none", "exit"}

SqrtInv == Sqrt!TypeOK /\ LockInv /\ PairInv /\ EndInv /\ NoMismatch

\* The first value of temp_s, temp_n itself, is not below the root.
LEMMA StartAboveRoot == \A m \in Nat : m < (m + 1) * (m + 1)
  <1>1. TAKE m \in Nat
  <1>2. (m + 1) * (m + 1) = m * m + 2 * m + 1
    OBVIOUS
  <1>3. m * m >= 0
    OBVIOUS
  <1> QED
    BY <1>2, <1>3

\* All the variables are well typed after main has initialised them, and the
\* pair 0, 0 is a number and its root.
LEMMA SqrtInitial == Sqrt!Init => SqrtInv
  <1> SUFFICES ASSUME Sqrt!Init PROVE SqrtInv
    OBVIOUS
  <1>1. Sqrt!TypeOK
    <2>1. sqrt_pc \in [Consumers -> Sqrt!ConsumerPlaces] /\ prod \in Sqrt!ProducerPlaces
      BY DEF Sqrt!Init, Sqrt!ConsumerPlaces, Sqrt!ProducerPlaces
    <2>2. n \in Nat /\ s \in Int /\ newN \in Nat /\ newS \in Int /\ i \in 0 .. Iterations
      BY SqrtAssumption DEF Sqrt!Init
    <2>3. /\ tempN \in [Consumers -> Nat] /\ tempS \in [Consumers -> Int]
          /\ errors \in [Consumers -> Nat]
      BY DEF Sqrt!Init
    <2>4. sqrt_finished \in BOOLEAN /\ writing \in BOOLEAN /\ flagWriting \in BOOLEAN
      BY Zenon DEF Sqrt!Init
    <2>5. /\ readers \subseteq Consumers /\ flagReaders \subseteq Consumers
          /\ sqrt_main \in {"create", "join", "returned"}
      BY DEF Sqrt!Init
    <2> QED
      BY <2>1, <2>2, <2>3, <2>4, <2>5, ZenonT(30) DEF Sqrt!TypeOK
  <1>2. LockInv /\ EndInv
    BY DEF Sqrt!Init, LockInv, EndInv
  <1>3. Sqrt!IsRoot(0, 0)
    BY DEF Sqrt!IsRoot
  <1>4. PairInv
    BY <1>3 DEF Sqrt!Init, PairInv
  <1>5. NoMismatch
    BY ZenonT(30) DEF Sqrt!Init, NoMismatch, Sqrt!NoMismatch
  <1> QED
    BY <1>1, <1>2, <1>4, <1>5, ZenonT(30) DEF SqrtInv

\* Every step of every thread keeps the variables well typed.
LEMMA SqrtTypeStep == SqrtInv /\ [Sqrt!Next]_Sqrt!vars => Sqrt!TypeOK'
  <1> SUFFICES ASSUME SqrtInv, [Sqrt!Next]_Sqrt!vars PROVE Sqrt!TypeOK'
    OBVIOUS
  <1> USE SqrtAssumption DEF SqrtInv, Sqrt!TypeOK, Sqrt!ConsumerPlaces, Sqrt!ProducerPlaces
  <1>1. ASSUME NEW c \in Consumers, Sqrt!ConsumerRuns(c) PROVE Sqrt!TypeOK'
    BY <1>1 DEF Sqrt!ConsumerRuns, Sqrt!FlagRead, Sqrt!ReadS, Sqrt!ReadN, Sqrt!Verify, Sqrt!Goto,
       Sqrt!producerVars
  <1>2. ASSUME NEW c \in Consumers, Sqrt!ConsumerLocks(c) PROVE Sqrt!TypeOK'
    BY <1>2, SMTT(30) DEF Sqrt!ConsumerLocks, Sqrt!FlagLock, Sqrt!ReadLock, Sqrt!Goto,
       Sqrt!producerVars
  <1>3. ASSUME Sqrt!ProducerRuns PROVE Sqrt!TypeOK'
    <2>1. CASE Sqrt!Generate /\ UNCHANGED <<Sqrt!consumerVars, sqrt_main>>
      <3>1. newN' \in Nat /\ newS' \in Int
        BY <2>1 DEF Sqrt!Generate
      <3> QED
        BY <2>1, <3>1 DEF Sqrt!Generate, Sqrt!consumerVars
    <2>2. CASE Sqrt!Descend /\ UNCHANGED <<Sqrt!consumerVars, sqrt_main>>
      <3>1. newS' \in Int /\ prod' \in Sqrt!ProducerPlaces
        BY <2>2, SMTT(30) DEF Sqrt!Descend
      <3> QED
        BY <2>2, <3>1 DEF Sqrt!Descend, Sqrt!consumerVars
    <2>3. CASE Sqrt!StoreN /\ UNCHANGED <<Sqrt!consumerVars, sqrt_main>>
      BY <2>3 DEF Sqrt!StoreN, Sqrt!consumerVars
    <2>4. CASE Sqrt!StoreS /\ UNCHANGED <<Sqrt!consumerVars, sqrt_main>>
      <3>1. i' \in 0 .. Iterations
        BY <2>4 DEF Sqrt!StoreS, EndInv
      <3> QED
        BY <2>4, <3>1, ZenonT(30) DEF Sqrt!StoreS, Sqrt!consumerVars
    <2>5. CASE (Sqrt!Finish \/ Sqrt!FlagUnlock) /\ UNCHANGED <<Sqrt!consumerVars, sqrt_main>>
      BY <2>5, ZenonT(30) DEF Sqrt!Finish, Sqrt!FlagUnlock, Sqrt!consumerVars
    <2> QED
      BY <1>3, <2>1, <2>2, <2>3, <2>4, <2>5, ZenonT(30) DEF Sqrt!ProducerRuns
  <1>4. ASSUME Sqrt!ProducerLocks PROVE Sqrt!TypeOK'
    BY <1>4, ZenonT(30) DEF Sqrt!ProducerLocks, Sqrt!WriteLock, Sqrt!FlagWriteLock,
       Sqrt!consumerVars
  <1>5. ASSUME Sqrt!CreateConsumer \/ Sqrt!CreateProducer \/ Sqrt!Return PROVE Sqrt!TypeOK'
    BY <1>5, ZenonT(30) DEF Sqrt!CreateConsumer, Sqrt!CreateProducer, Sqrt!Return, Sqrt!Goto,
       Sqrt!consumerVars, Sqrt!producerVars
  <1>6. ASSUME UNCHANGED Sqrt!vars PROVE Sqrt!TypeOK'
    BY <1>6, ZenonT(30) DEF Sqrt!vars
  <1> QED
    BY <1>1, <1>2, <1>3, <1>4, <1>5, <1>6, ZenonT(30) DEF Sqrt!Next

\* Readers and the writer of the lock exclude each other at every step.
LEMMA SqrtLockStep == SqrtInv /\ [Sqrt!Next]_Sqrt!vars => LockInv'
  <1> SUFFICES ASSUME SqrtInv, [Sqrt!Next]_Sqrt!vars PROVE LockInv'
    OBVIOUS
  <1> USE DEF SqrtInv, Sqrt!TypeOK, LockInv
  <1>1. ASSUME NEW c \in Consumers, Sqrt!ConsumerRuns(c) PROVE LockInv'
    BY <1>1, ZenonT(30) DEF Sqrt!ConsumerRuns, Sqrt!FlagRead, Sqrt!ReadS, Sqrt!ReadN, Sqrt!Verify,
       Sqrt!Goto,
       Sqrt!producerVars
  <1>2. ASSUME NEW c \in Consumers, Sqrt!ConsumerLocks(c) PROVE LockInv'
    BY <1>2, ZenonT(30) DEF Sqrt!ConsumerLocks, Sqrt!FlagLock, Sqrt!ReadLock, Sqrt!Goto,
       Sqrt!producerVars
  <1>3. ASSUME Sqrt!ProducerRuns PROVE LockInv'
    BY <1>3, SMTT(30) DEF Sqrt!ProducerRuns, Sqrt!Generate, Sqrt!Descend, Sqrt!StoreN, Sqrt!StoreS,
       Sqrt!Finish, Sqrt!FlagUnlock,
                Sqrt!consumerVars
  <1>4. ASSUME Sqrt!ProducerLocks PROVE LockInv'
    BY <1>4, SMTT(30) DEF Sqrt!ProducerLocks, Sqrt!WriteLock, Sqrt!FlagWriteLock, Sqrt!consumerVars
  <1>5. ASSUME Sqrt!CreateConsumer \/ Sqrt!Return PROVE LockInv'
    BY <1>5 DEF Sqrt!CreateConsumer, Sqrt!Return, Sqrt!Goto, Sqrt!consumerVars, Sqrt!producerVars
  <1>6. ASSUME Sqrt!CreateProducer PROVE LockInv'
    <2>1. prod = "none"
      BY <1>6 DEF Sqrt!CreateProducer, EndInv
    <2> QED
      BY <1>6, <2>1 DEF Sqrt!CreateProducer, Sqrt!consumerVars
  <1>7. ASSUME UNCHANGED Sqrt!vars PROVE LockInv'
    BY <1>7, ZenonT(30) DEF Sqrt!vars
  <1> QED
    BY <1>1, <1>2, <1>3, <1>4, <1>5, <1>6, <1>7, ZenonT(30) DEF Sqrt!Next

\* The pair stays a number and its root for everyone who may look at it: a
\* consumer between its loads holds the lock, so the producer is not storing.
LEMMA SqrtPairStep == SqrtInv /\ [Sqrt!Next]_Sqrt!vars => PairInv'
  <1> SUFFICES ASSUME SqrtInv, [Sqrt!Next]_Sqrt!vars PROVE PairInv'
    OBVIOUS
  <1> USE DEF SqrtInv, Sqrt!TypeOK, PairInv
  <1>1. ASSUME NEW c \in Consumers, Sqrt!ConsumerRuns(c) PROVE PairInv'
    BY <1>1, ZenonT(30) DEF Sqrt!ConsumerRuns, Sqrt!FlagRead, Sqrt!ReadS, Sqrt!ReadN, Sqrt!Verify,
       Sqrt!Goto,
       Sqrt!producerVars, LockInv
  <1>2. ASSUME NEW c \in Consumers, Sqrt!ConsumerLocks(c) PROVE PairInv'
    BY <1>2, ZenonT(30) DEF Sqrt!ConsumerLocks, Sqrt!FlagLock, Sqrt!ReadLock, Sqrt!Goto,
       Sqrt!producerVars
  <1>3. ASSUME Sqrt!ProducerRuns PROVE PairInv'
    <2>1. CASE Sqrt!Generate /\ UNCHANGED Sqrt!consumerVars
      <3>1. newN' \in Nat /\ newS' = newN'
        BY <2>1, SqrtAssumption DEF Sqrt!Generate
      <3>2. newN' < (newS' + 1) * (newS' + 1)
        BY <3>1, StartAboveRoot, ZenonT(30)
      <3> QED
        BY <2>1, <3>2, ZenonT(30) DEF Sqrt!Generate, Sqrt!consumerVars
    <2>2. CASE Sqrt!Descend /\ newS * newS > newN /\ UNCHANGED Sqrt!consumerVars
      <3>1. newS' + 1 = newS
        BY <2>2 DEF Sqrt!Descend
      <3>2. newN' < (newS' + 1) * (newS' + 1)
        BY <2>2, <3>1, ZenonT(30) DEF Sqrt!Descend
      <3> QED
        BY <2>2, <3>2, ZenonT(30) DEF Sqrt!Descend, Sqrt!consumerVars
    <2>3. CASE Sqrt!Descend /\ ~(newS * newS > newN) /\ UNCHANGED Sqrt!consumerVars
      <3>1. newS * newS <= newN
        BY <2>3
      <3>2. Sqrt!IsRoot(newS, newN)
        BY <2>3, <3>1, ZenonT(30) DEF Sqrt!Descend, Sqrt!IsRoot
      <3> QED
        BY <2>3, <3>2 DEF Sqrt!Descend, Sqrt!consumerVars
    <2>4. CASE (Sqrt!StoreN \/ Sqrt!StoreS) /\ UNCHANGED Sqrt!consumerVars
      BY <2>4, ZenonT(30) DEF Sqrt!StoreN, Sqrt!StoreS, Sqrt!consumerVars, LockInv
    <2>5. CASE (Sqrt!Finish \/ Sqrt!FlagUnlock) /\ UNCHANGED Sqrt!consumerVars
      BY <2>5, ZenonT(30) DEF Sqrt!Finish, Sqrt!FlagUnlock, Sqrt!consumerVars
    <2> QED
      BY <1>3, <2>1, <2>2, <2>3, <2>4, <2>5, ZenonT(30) DEF Sqrt!ProducerRuns
  <1>4. ASSUME Sqrt!ProducerLocks PROVE PairInv'
    BY <1>4, ZenonT(30) DEF Sqrt!ProducerLocks, Sqrt!WriteLock, Sqrt!FlagWriteLock,
       Sqrt!consumerVars
  <1>5. ASSUME Sqrt!CreateConsumer \/ Sqrt!CreateProducer \/ Sqrt!Return PROVE PairInv'
    BY <1>5, ZenonT(30) DEF Sqrt!CreateConsumer, Sqrt!CreateProducer, Sqrt!Return, Sqrt!Goto,
       Sqrt!consumerVars, Sqrt!producerVars,
                EndInv
  <1>6. ASSUME UNCHANGED Sqrt!vars PROVE PairInv'
    BY <1>6, ZenonT(30) DEF Sqrt!vars
  <1> QED
    BY <1>1, <1>2, <1>3, <1>4, <1>5, <1>6, ZenonT(30) DEF Sqrt!Next

\* The order in which the threads start and end is kept by every step.
LEMMA SqrtEndStep == SqrtInv /\ [Sqrt!Next]_Sqrt!vars => EndInv'
  <1> SUFFICES ASSUME SqrtInv, [Sqrt!Next]_Sqrt!vars PROVE EndInv'
    OBVIOUS
  <1> USE DEF SqrtInv, Sqrt!TypeOK, EndInv
  <1>1. ASSUME NEW c \in Consumers, Sqrt!ConsumerRuns(c) PROVE EndInv'
    BY <1>1, ZenonT(30) DEF Sqrt!ConsumerRuns, Sqrt!FlagRead, Sqrt!ReadS, Sqrt!ReadN, Sqrt!Verify,
       Sqrt!Goto,
       Sqrt!producerVars
  <1>2. ASSUME NEW c \in Consumers, Sqrt!ConsumerLocks(c) PROVE EndInv'
    BY <1>2, ZenonT(30) DEF Sqrt!ConsumerLocks, Sqrt!FlagLock, Sqrt!ReadLock, Sqrt!Goto,
       Sqrt!producerVars
  <1>3. ASSUME Sqrt!ProducerRuns PROVE EndInv'
    BY <1>3, SqrtAssumption, SMTT(30) DEF Sqrt!ProducerRuns, Sqrt!Generate, Sqrt!Descend,
       Sqrt!StoreN,
       Sqrt!StoreS, Sqrt!Finish,
                Sqrt!FlagUnlock, Sqrt!consumerVars
  <1>4. ASSUME Sqrt!ProducerLocks PROVE EndInv'
    BY <1>4, SMTT(30) DEF Sqrt!ProducerLocks, Sqrt!WriteLock, Sqrt!FlagWriteLock, Sqrt!consumerVars
  <1>5. ASSUME Sqrt!CreateConsumer \/ Sqrt!CreateProducer \/ Sqrt!Return PROVE EndInv'
    BY <1>5 DEF Sqrt!CreateConsumer, Sqrt!CreateProducer, Sqrt!Return, Sqrt!Goto,
       Sqrt!consumerVars, Sqrt!producerVars
  <1>6. ASSUME UNCHANGED Sqrt!vars PROVE EndInv'
    BY <1>6 DEF Sqrt!vars
  <1> QED
    BY <1>1, <1>2, <1>3, <1>4, <1>5, <1>6, ZenonT(30) DEF Sqrt!Next

\* No step counts an error: Verify looks at a number and its root.
LEMMA SqrtErrorStep == SqrtInv /\ [Sqrt!Next]_Sqrt!vars => NoMismatch'
  <1> SUFFICES ASSUME SqrtInv, [Sqrt!Next]_Sqrt!vars PROVE NoMismatch'
    OBVIOUS
  <1> USE DEF SqrtInv, Sqrt!TypeOK, NoMismatch, Sqrt!NoMismatch
  <1>1. ASSUME NEW c \in Consumers, Sqrt!Verify(c) PROVE NoMismatch'
    BY <1>1 DEF Sqrt!Verify, PairInv
  <1>2. ASSUME UNCHANGED errors PROVE NoMismatch'
    BY <1>2, ZenonT(30)
  <1>3. (\E c \in Consumers : Sqrt!Verify(c)) \/ UNCHANGED errors
    BY ZenonT(30) DEF Sqrt!Next, Sqrt!ConsumerRuns, Sqrt!ConsumerLocks, Sqrt!FlagRead, Sqrt!ReadS,
       Sqrt!ReadN, Sqrt!FlagLock, Sqrt!ReadLock,
           Sqrt!ProducerRuns, Sqrt!ProducerLocks, Sqrt!CreateConsumer, Sqrt!CreateProducer,
              Sqrt!Return,
           Sqrt!consumerVars, Sqrt!vars
  <1> QED
    BY <1>1, <1>2, <1>3, ZenonT(30)

\* SqrtInv is an inductive invariant of the program.
THEOREM SqrtInvariance == Sqrt!Spec => []SqrtInv
  <1>1. SqrtInv /\ [Sqrt!Next]_Sqrt!vars => SqrtInv'
    BY SqrtTypeStep, SqrtLockStep, SqrtPairStep, SqrtEndStep, SqrtErrorStep, ZenonT(30) DEF SqrtInv
  <1> QED
    BY SqrtInitial, <1>1, PTL DEF Sqrt!Spec

\* However many consumers there are, none of them ever counts an error: the lock
\* around the two loads and the two stores, and the descent to the root, are
\* enough.
THEOREM ConsumersSeeRoots == Sqrt!Spec => []NoMismatch
  <1>1. SqrtInv => NoMismatch
    BY ZenonT(30) DEF SqrtInv
  <1> QED
    BY SqrtInvariance, <1>1, PTL

\* main may return without joining the detached producer: whenever it does, the
\* producer has made its last access to the data on main's stack.
THEOREM DetachIsSafe == Sqrt!Spec => []SharedOutlivesProducer
  <1>1. SqrtInv => SharedOutlivesProducer
    BY SqrtAssumption DEF SqrtInv, Sqrt!TypeOK, EndInv, SharedOutlivesProducer,
       Sqrt!SharedOutlivesProducer
  <1> QED
    BY SqrtInvariance, <1>1, PTL
==============================================================================
