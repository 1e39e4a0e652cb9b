--------------------------- MODULE ProcessesProofs ---------------------------
(***************************************************************************)
(* The programs about child processes, shared memory and users, for        *)
(* any number of tasks, any sets of processes and any users: tasks.c reaps *)
(* every child it forked, a process that uses the memory of shm.c or       *)
(* mmap.c is reached by the next --stop, what drop.c says of its           *)
(* privileges is right, and id prints the groups of one moment.  The       *)
(* specifications are the instances of Processes and Identity.             *)
(***************************************************************************)
EXTENDS Processes, Identity, TLAPS
-----------------------------------------------------------------------------
(* tasks *)

TasksTypes ==
    /\ capacity \in Nat /\ size \in Nat /\ memory \in Nat /\ children \in Nat /\ line \in Nat
    /\ refused \in BOOLEAN /\ outside \in BOOLEAN
    /\ array \in Seq(Nat)
    /\ tasks_pc \in {"getline", "wait", "exit"}
    /\ tasks_pc # "exit" => tasks_status = "none"

\* The array holds the children in their order, within what realloc gave.
Stored ==
    /\ memory = capacity /\ size <= capacity /\ ~outside
    /\ Len(array) = size /\ size = children
    /\ \A j \in 1..size : array[j] = j

\* Those that main has waited for are the first ones, and have ended.
Reaped ==
    /\ running \subseteq 1..children
    /\ waited = 1..line /\ line <= size
    /\ running \cap 1..line = {}
    /\ tasks_pc = "getline" => line = 0
    /\ tasks_status = "EXIT_SUCCESS" => line = size

TasksInv == TasksTypes /\ (~refused => Stored /\ Reaped)

\* add stores the number behind the others, growing the array when it is full.
LEMMA AddStores ==
    ASSUME START_CAPACITY \in Nat \ {0}, TasksTypes, ~refused => Stored,
           children' = children + 1, Tasks!add(children + 1)
    PROVE  /\ capacity' \in Nat /\ size' \in Nat /\ memory' \in Nat
           /\ refused' \in BOOLEAN /\ outside' \in BOOLEAN /\ array' \in Seq(Nat)
           /\ ~refused' => ~refused /\ Stored' /\ size' = size + 1
<1> USE DEF TasksTypes, Stored, Tasks!MustExpand, Tasks!Doubled
<1>1. ASSUME NEW n \in Nat, Tasks!Store(children + 1, n), ~refused => size < n
      PROVE  /\ size' = size + 1 /\ array' \in Seq(Nat) /\ Len(array') = Len(array) + 1
             /\ outside' \in BOOLEAN
             /\ ~refused => ~outside' /\ \A j \in 1..size' : array'[j] = j
  <2> DEFINE v == IF size < n THEN children + 1 ELSE 0
  <2>1. v \in Nat /\ (~refused => v = size + 1)
    BY <1>1
  <2>2. size' = size + 1 /\ array' = Append(array, v)
    BY <1>1 DEF Tasks!Store
  <2>3. outside' <=> outside \/ size >= n
    BY <1>1, Zenon DEF Tasks!Store
  <2>4. outside' \in BOOLEAN
    BY <1>1 DEF Tasks!Store
  <2> HIDE DEF v
  <2>5. array' \in Seq(Nat) /\ Len(array') = Len(array) + 1
    BY <2>1, <2>2
  <2>6. ~refused => \A j \in 1..size' : array'[j] = j
    BY <2>1, <2>2
  <2> QED
    BY <1>1, <2>2, <2>3, <2>4, <2>5, <2>6
<1>2. CASE /\ ~Tasks!MustExpand /\ Tasks!Store(children + 1, memory)
           /\ UNCHANGED <<capacity, memory, refused>>
  <2>1. ~refused => size < memory
    BY <1>2
  <2> QED
    BY <1>1, <1>2, <2>1
<1>3. CASE /\ Tasks!MustExpand /\ capacity' = Tasks!Doubled /\ memory' = Tasks!Doubled
           /\ Tasks!Store(children + 1, memory') /\ UNCHANGED refused
  <2>1. memory' \in Nat /\ (~refused => size < memory')
    BY <1>3
  <2> QED
    BY <1>1, <1>3, <2>1
<1>4. CASE /\ Tasks!MustExpand /\ capacity' = Tasks!Doubled /\ refused' = TRUE
           /\ UNCHANGED <<size, array, memory, outside>>
  BY <1>4
<1> QED
  BY <1>2, <1>3, <1>4, ZenonT(30) DEF Tasks!add

\* No step of main or of a child breaks the invariant.
LEMMA TasksStep ==
    ASSUME START_CAPACITY \in Nat \ {0}, TasksInv, [Tasks!Next]_Tasks!vars
    PROVE  TasksInv'
<1> USE DEF TasksInv
<1>1. CASE Tasks!Fork
  <2>1. /\ tasks_pc = "getline" /\ children' = children + 1 /\ running' = running \cup {children + 1}
        /\ Tasks!add(children + 1) /\ UNCHANGED <<waited, tasks_pc, line, tasks_status>>
    BY <1>1 DEF Tasks!Fork
  <2>2. /\ capacity' \in Nat /\ size' \in Nat /\ memory' \in Nat
        /\ refused' \in BOOLEAN /\ outside' \in BOOLEAN /\ array' \in Seq(Nat)
        /\ ~refused' => ~refused /\ Stored' /\ size' = size + 1
    BY <2>1, AddStores
  <2>3. TasksTypes'
    BY <2>1, <2>2 DEF TasksTypes
  <2>4. ~refused' => Reaped'
    BY <2>1, <2>2 DEF TasksTypes, Stored, Reaped
  <2> QED
    BY <2>2, <2>3, <2>4
<1>2. CASE Tasks!ForkFails
  BY <1>2 DEF Tasks!ForkFails, Tasks!dynarray, TasksTypes, Stored, Reaped
<1>3. ASSUME NEW c \in running, Tasks!ChildEnds(c) PROVE TasksInv'
  BY <1>3 DEF Tasks!ChildEnds, Tasks!dynarray, TasksTypes, Stored, Reaped
<1>4. CASE Tasks!EndOfInput
  BY <1>4 DEF Tasks!EndOfInput, Tasks!dynarray, TasksTypes, Stored, Reaped
<1>5. CASE Tasks!Wait
  <2>1. TasksTypes' /\ (~refused => Stored')
    BY <1>5 DEF Tasks!Wait, Tasks!dynarray, TasksTypes, Stored
  <2>2. ~refused => array[line + 1] = line + 1
    BY <1>5 DEF Tasks!Wait, TasksTypes, Stored
  <2>3. ~refused => Reaped'
    BY <1>5, <2>2 DEF Tasks!Wait, Tasks!dynarray, TasksTypes, Stored, Reaped
  <2> QED
    BY <1>5, <2>1, <2>3 DEF Tasks!Wait, Tasks!dynarray
<1>6. CASE Tasks!Return
  BY <1>6 DEF Tasks!Return, Tasks!dynarray, TasksTypes, Stored, Reaped
<1>7. CASE UNCHANGED Tasks!vars
  BY <1>7 DEF Tasks!vars, TasksTypes, Stored, Reaped
<1> QED
  BY <1>1, <1>2, <1>3, <1>4, <1>5, <1>6, <1>7 DEF Tasks!Next

\* For any capacity to start with and any number of lines: unless realloc failed, nothing
\* is written outside the array, and main succeeds only when every child has ended and
\* was waited for (main, push_loc, expand).
THEOREM EveryChildReaped ==
    ASSUME START_CAPACITY \in Nat \ {0}
    PROVE  Tasks!Spec => []ChildrenReaped
<1>1. Tasks!Init => TasksInv
  <2> SUFFICES ASSUME Tasks!Init PROVE TasksInv
    OBVIOUS
  <2> USE DEF Tasks!Init
  <2>1. TasksTypes
    <3>1. array \in Seq(Nat)
      OBVIOUS
    <3>2. refused \in BOOLEAN /\ outside \in BOOLEAN
      BY ZenonT(30)
    <3> QED
      BY <3>1, <3>2 DEF TasksTypes
  <2>2. Stored
    BY DEF Stored
  <2>3. Reaped
    BY DEF Reaped
  <2> QED
    BY <2>1, <2>2, <2>3 DEF TasksInv
<1>2. TasksInv /\ [Tasks!Next]_Tasks!vars => TasksInv'
  BY TasksStep
<1>3. TasksInv => ChildrenReaped
  BY DEF TasksInv, TasksTypes, Stored, Reaped, ChildrenReaped, Tasks!ChildrenReaped
<1> QED
  BY <1>1, <1>2, <1>3, PTL DEF Tasks!Spec

-----------------------------------------------------------------------------
(* shm and mmap *)

\* Where a process has the memory mapped.
Mapped == {"remove", "set", "detach", "look", "lock_ex", "lock_sh", "unlock"}

ShmPlaces ==
    {"exit"} \cup Mapped \cup
    (IF kind = "shm" THEN {"shmget", "shmget2", "shmat"} ELSE {"open", "mmap"})

ShmTypes ==
    /\ kind \in {"shm", "mmap"} /\ name \in Nat /\ made \in Nat /\ stops_overlapped \in BOOLEAN
    /\ shmid \in [Shm!Processes -> Nat] /\ shm_pc \in [Shm!Processes -> ShmPlaces]

\* What the place of a process says of it.
ShmControl ==
    /\ attached = {p \in Shm!Processes : shm_pc[p] \in Mapped}
    /\ \A p \in Shm!Processes :
         /\ shm_pc[p] \in Mapped \cup {"shmat", "mmap"} => shmid[p] # 0
         /\ shm_pc[p] \in {"remove", "set", "lock_ex"} => p \in Stoppers
         /\ shm_pc[p] \in {"look", "lock_sh"} => p \notin Stoppers

\* A process with --stop has the memory of p and will mark it.
WillStop(p) ==
    \E s \in Stoppers : /\ s \in attached /\ shmid[s] = shmid[p]
                        /\ shm_pc[s] \in {"remove", "set"}

\* shm.c: every process that has a segment can be stopped.
SegmentsReached ==
    \A p \in attached : name = shmid[p] \/ shmid[p] \in stop \/ WillStop(p)

\* mmap.c, with one process with --stop at a time: the path leads to its file until it
\* removes it, and to the file of any other process, unless that is marked.
FilesReached ==
    /\ \A p \in Shm!Processes : shmid[p] # 0 => name = shmid[p] \/ shmid[p] \in stop
    /\ \A s \in Stoppers :
         /\ shm_pc[s] \in {"mmap", "lock_ex", "set", "unlock", "remove"} => name = shmid[s]
         /\ shm_pc[s] \in {"unlock", "remove"} => shmid[s] \in stop
    /\ \A s, t \in Stoppers :
         shmid[s] # 0 /\ shm_pc[s] # "exit" /\ shmid[t] # 0 /\ shm_pc[t] # "exit" => s = t

ShmInv ==
    /\ ShmTypes /\ ShmControl
    /\ kind = "shm" => SegmentsReached
    /\ kind = "mmap" /\ ~stops_overlapped => FilesReached

\* A process goes to another place, and the others stay.
LEMMA ShmGoto ==
    ASSUME ShmTypes, NEW p \in Shm!Processes, NEW place, Shm!Goto(p, place), kind' = kind,
           place \in ShmPlaces
    PROVE  /\ shm_pc' \in [Shm!Processes -> ShmPlaces'] /\ shm_pc'[p] = place
           /\ \A q \in Shm!Processes : q # p => shm_pc'[q] = shm_pc[q]
<1>1. ShmPlaces' = ShmPlaces
  BY DEF ShmPlaces, Mapped
<1> QED
  BY <1>1 DEF ShmTypes, Shm!Goto

\* A process finds an object; two processes with --stop then overlap, or one is alone.
LEMMA ShmFound ==
    ASSUME ShmTypes, NEW p \in Shm!Processes, NEW o \in Nat, Shm!Found(p, o)
    PROVE  /\ shmid' \in [Shm!Processes -> Nat] /\ shmid'[p] = o
           /\ \A q \in Shm!Processes : q # p => shmid'[q] = shmid[q]
           /\ stops_overlapped' \in BOOLEAN
           /\ ~stops_overlapped' =>
                /\ ~stops_overlapped
                /\ p \in Stoppers => \A q \in Stoppers : q = p \/ shmid[q] = 0 \/ shm_pc[q] = "exit"
<1>1. stops_overlapped' <=>
        \/ stops_overlapped
        \/ p \in Stoppers /\ \E q \in Stoppers \ {p} : shmid[q] # 0 /\ shm_pc[q] # "exit"
  BY Zenon DEF Shm!Found, Shm!NoObject
<1>2. stops_overlapped' \in BOOLEAN
  BY DEF Shm!Found
<1> QED
  BY <1>1, <1>2 DEF ShmTypes, Shm!Found

\* No step of a process breaks the invariant.
LEMMA ShmStep ==
    ASSUME ShmInv, [Shm!Next]_Shm!vars
    PROVE  ShmInv'
<1> USE DEF ShmInv, Shm!Processes
<1>1. ASSUME NEW p \in Shm!Processes, shm_pc[p] \in {"shmget", "open"}, name = 0, Shm!Makes(p),
             NEW place \in {"shmat", "mmap"}, place \in ShmPlaces, Shm!Goto(p, place),
             UNCHANGED <<kind, stop, attached>>
      PROVE  ShmInv'
  <2>1. made' \in Nat /\ made' # 0 /\ name' = made' /\ Shm!Found(p, made')
    BY <1>1 DEF Shm!Makes, ShmTypes
  <2>2. /\ shm_pc' \in [Shm!Processes -> ShmPlaces'] /\ shm_pc'[p] = place
        /\ \A q \in Shm!Processes : q # p => shm_pc'[q] = shm_pc[q]
    BY <1>1, ShmGoto
  <2>3. /\ shmid' \in [Shm!Processes -> Nat] /\ shmid'[p] = made'
        /\ \A q \in Shm!Processes : q # p => shmid'[q] = shmid[q]
        /\ stops_overlapped' \in BOOLEAN
        /\ ~stops_overlapped' =>
             /\ ~stops_overlapped
             /\ p \in Stoppers => \A q \in Stoppers : q = p \/ shmid[q] = 0 \/ shm_pc[q] = "exit"
    BY <2>1, ShmFound
  <2>4. ShmTypes'
    BY <1>1, <2>1, <2>2, <2>3 DEF ShmTypes
  <2>5. ShmControl' /\ p \notin attached
    BY <1>1, <2>1, <2>2, <2>3 DEF ShmControl, Mapped
  <2>6. SegmentsReached => SegmentsReached'
    BY <1>1, <2>1, <2>2, <2>3, <2>5 DEF SegmentsReached, WillStop, ShmControl, Mapped
  <2>7. kind = "mmap" /\ ~stops_overlapped' => FilesReached'
    BY <1>1, <2>1, <2>2, <2>3, <2>5 DEF FilesReached, ShmControl, Mapped
  <2> QED
    BY <1>1, <2>4, <2>5, <2>6, <2>7
<1>2. ASSUME NEW p \in Shm!Processes, shm_pc[p] \in {"shmget2", "open"}, name # 0, Shm!Found(p, name),
             NEW place \in {"shmat", "mmap"}, place \in ShmPlaces, Shm!Goto(p, place),
             UNCHANGED <<kind, name, made, stop, attached>>
      PROVE  ShmInv'
  <2>2. /\ shm_pc' \in [Shm!Processes -> ShmPlaces'] /\ shm_pc'[p] = place
        /\ \A q \in Shm!Processes : q # p => shm_pc'[q] = shm_pc[q]
    BY <1>2, ShmGoto
  <2>3. /\ shmid' \in [Shm!Processes -> Nat] /\ shmid'[p] = name
        /\ \A q \in Shm!Processes : q # p => shmid'[q] = shmid[q]
        /\ stops_overlapped' \in BOOLEAN
        /\ ~stops_overlapped' =>
             /\ ~stops_overlapped
             /\ p \in Stoppers => \A q \in Stoppers : q = p \/ shmid[q] = 0 \/ shm_pc[q] = "exit"
    BY <1>2, ShmFound DEF ShmTypes
  <2>4. ShmTypes'
    BY <1>2, <2>2, <2>3 DEF ShmTypes
  <2>5. ShmControl' /\ p \notin attached
    BY <1>2, <2>2, <2>3 DEF ShmControl, Mapped
  <2>6. SegmentsReached => SegmentsReached'
    BY <1>2, <2>2, <2>3, <2>5 DEF SegmentsReached, WillStop, ShmControl, Mapped
  <2>7. kind = "mmap" /\ ~stops_overlapped' => FilesReached'
    BY <1>2, <2>2, <2>3, <2>5, SMTT(30) DEF FilesReached, ShmControl, Mapped
  <2> QED
    BY <1>2, <2>4, <2>5, <2>6, <2>7
<1>3. ASSUME NEW p \in Shm!Processes, NEW place, Shm!Goto(p, place),
             UNCHANGED <<kind, name, made, stop, shmid, attached, stops_overlapped>>,
             shm_pc[p] \notin Mapped,
             place = "exit" \/ (place = "shmget2" /\ kind = "shm")
      PROVE  ShmInv'
  <2>1. /\ shm_pc' \in [Shm!Processes -> ShmPlaces'] /\ shm_pc'[p] = place
        /\ \A q \in Shm!Processes : q # p => shm_pc'[q] = shm_pc[q]
    BY <1>3, ShmGoto DEF ShmPlaces, Mapped
  <2>2. ShmTypes'
    BY <1>3, <2>1 DEF ShmTypes
  <2>3. ShmControl'
    BY <1>3, <2>1 DEF ShmControl, Mapped, ShmTypes, ShmPlaces
  <2>4. kind = "shm" => SegmentsReached'
    BY <1>3, <2>1, <2>3 DEF SegmentsReached, WillStop, ShmControl, Mapped
  <2>5. kind = "mmap" /\ ~stops_overlapped => FilesReached'
    BY <1>3, <2>1 DEF FilesReached, ShmControl, Mapped
  <2> QED
    BY <1>3, <2>2, <2>3, <2>4, <2>5
<1>4. ASSUME NEW p \in Shm!Processes, NEW place, Shm!Goto(p, place), attached' = attached \cup {p},
             shm_pc[p] = "shmat", place = IF p \in Stoppers THEN "remove" ELSE "look",
             name = shmid[p] \/ Shm!Sharing(p) # {},
             UNCHANGED <<kind, name, made, stop, shmid, stops_overlapped>>
      PROVE  ShmInv'
  <2>1. /\ shm_pc' \in [Shm!Processes -> ShmPlaces'] /\ shm_pc'[p] = place
        /\ \A q \in Shm!Processes : q # p => shm_pc'[q] = shm_pc[q]
    BY <1>4, ShmGoto DEF ShmPlaces, Mapped
  <2>2. ShmTypes'
    BY <1>4, <2>1 DEF ShmTypes
  <2>3. ShmControl'
    BY <1>4, <2>1 DEF ShmControl, Mapped, ShmTypes, ShmPlaces
  <2>4. kind = "shm" => SegmentsReached'
    BY <1>4, <2>1, <2>3, SMTT(30) DEF Shm!Sharing, SegmentsReached, WillStop, ShmControl, Mapped
  <2>5. kind = "mmap" /\ ~stops_overlapped => FilesReached'
    BY <1>4, <2>1 DEF ShmTypes, ShmPlaces, Mapped
  <2> QED
    BY <1>4, <2>2, <2>3, <2>4, <2>5
<1>5. ASSUME NEW p \in Shm!Processes, NEW place, Shm!Goto(p, place), attached' = attached \cup {p},
             shm_pc[p] = "mmap", place = IF p \in Stoppers THEN "lock_ex" ELSE "lock_sh",
             UNCHANGED <<kind, name, made, stop, shmid, stops_overlapped>>
      PROVE  ShmInv'
  <2>1. /\ shm_pc' \in [Shm!Processes -> ShmPlaces'] /\ shm_pc'[p] = place
        /\ \A q \in Shm!Processes : q # p => shm_pc'[q] = shm_pc[q]
    BY <1>5, ShmGoto DEF ShmPlaces, Mapped
  <2>2. ShmTypes'
    BY <1>5, <2>1 DEF ShmTypes
  <2>3. ShmControl'
    BY <1>5, <2>1 DEF ShmControl, Mapped, ShmTypes, ShmPlaces
  <2>4. kind = "shm" => SegmentsReached'
    BY <1>5, <2>1, <2>3 DEF ShmTypes, ShmPlaces, Mapped
  <2>5. kind = "mmap" /\ ~stops_overlapped => FilesReached'
    BY <1>5, <2>1, ZenonT(30) DEF FilesReached, ShmControl, Mapped
  <2> QED
    BY <1>5, <2>2, <2>3, <2>4, <2>5
<1>6. ASSUME NEW p \in Shm!Processes, Shm!Rmid(p)
      PROVE  ShmInv'
  <2>1. /\ shm_pc' \in [Shm!Processes -> ShmPlaces'] /\ shm_pc'[p] = "set"
        /\ \A q \in Shm!Processes : q # p => shm_pc'[q] = shm_pc[q]
    BY <1>6, ShmGoto DEF Shm!Rmid, ShmPlaces, Mapped
  <2>2. ShmTypes'
    BY <1>6, <2>1 DEF Shm!Rmid, Shm!NoObject, ShmTypes
  <2>3. ShmControl'
    BY <1>6, <2>1 DEF Shm!Rmid, Shm!NoObject, ShmControl, Mapped, ShmTypes, ShmPlaces
  <2>4. kind = "shm" => SegmentsReached'
    BY <1>6, <2>1, <2>3, SMTT(30) DEF Shm!Rmid, Shm!NoObject, SegmentsReached, WillStop,
       ShmControl, Mapped
  <2>5. kind = "mmap" /\ ~stops_overlapped => FilesReached'
    BY <1>6, <2>1 DEF Shm!Rmid, Shm!NoObject, FilesReached, ShmControl, Mapped
  <2> QED
    BY <1>6, <2>2, <2>3, <2>4, <2>5 DEF Shm!Rmid
<1>7. ASSUME NEW p \in Shm!Processes, Shm!Remove(p)
      PROVE  ShmInv'
  <2>1. /\ shm_pc' \in [Shm!Processes -> ShmPlaces'] /\ shm_pc'[p] = "detach"
        /\ \A q \in Shm!Processes : q # p => shm_pc'[q] = shm_pc[q]
    BY <1>7, ShmGoto DEF Shm!Remove, ShmPlaces, Mapped
  <2>2. ShmTypes'
    BY <1>7, <2>1 DEF Shm!Remove, Shm!NoObject, ShmTypes
  <2>3. ShmControl'
    BY <1>7, <2>1, ZenonT(30) DEF Shm!Remove, Shm!NoObject, ShmControl, Mapped, ShmTypes, ShmPlaces
  <2>4. kind = "shm" => SegmentsReached'
    BY <1>7, <2>1, <2>3, ZenonT(30) DEF Shm!Remove, Shm!NoObject, SegmentsReached, WillStop,
       ShmControl, Mapped
  <2>5. kind = "mmap" /\ ~stops_overlapped => FilesReached'
    BY <1>7, <2>1 DEF Shm!Remove, Shm!NoObject, FilesReached, ShmControl, Mapped
  <2> QED
    BY <1>7, <2>2, <2>3, <2>4, <2>5 DEF Shm!Remove
<1>8. ASSUME NEW p \in Shm!Processes, NEW place, Shm!Goto(p, place),
             UNCHANGED <<kind, name, made, stop, shmid, attached, stops_overlapped>>,
             \/ shm_pc[p] = "lock_ex" /\ place = "set"
             \/ shm_pc[p] = "lock_sh" /\ place = "look"
             \/ shm_pc[p] = "look" /\ place = "unlock"
             \/ shm_pc[p] = "look" /\ place = "detach" /\ shmid[p] \in stop
             \/ shm_pc[p] = "unlock" /\ place = IF p \in Stoppers THEN "remove" ELSE "lock_sh"
             \/ shm_pc[p] \in {"lock_ex", "lock_sh", "unlock"} /\ place = "detach"
      PROVE  ShmInv'
  <2>1. /\ shm_pc' \in [Shm!Processes -> ShmPlaces'] /\ shm_pc'[p] = place
        /\ \A q \in Shm!Processes : q # p => shm_pc'[q] = shm_pc[q]
    BY <1>8, ShmGoto DEF ShmPlaces, Mapped
  <2>2. ShmTypes'
    BY <1>8, <2>1 DEF ShmTypes
  <2>3. ShmControl'
    BY <1>8, <2>1 DEF ShmControl, Mapped, ShmTypes, ShmPlaces
  <2>4. kind = "shm" => SegmentsReached'
    BY <1>8, <2>1, <2>3, SMTT(30), SMTT(30) DEF SegmentsReached, WillStop, ShmControl, Mapped
  <2>5. kind = "mmap" /\ ~stops_overlapped => FilesReached'
    BY <1>8, <2>1, ZenonT(30) DEF FilesReached, ShmControl, Mapped
  <2> QED
    BY <1>8, <2>2, <2>3, <2>4, <2>5
<1>9. ASSUME NEW p \in Shm!Processes, Shm!SetStop(p)
      PROVE  ShmInv'
  <2>1. /\ shm_pc' \in [Shm!Processes -> ShmPlaces']
        /\ shm_pc'[p] = (IF kind = "shm" THEN "detach" ELSE "unlock")
        /\ \A q \in Shm!Processes : q # p => shm_pc'[q] = shm_pc[q]
    BY <1>9, ShmGoto DEF Shm!SetStop, ShmPlaces, Mapped
  <2>2. ShmTypes'
    BY <1>9, <2>1 DEF Shm!SetStop, ShmTypes
  <2>3. ShmControl'
    BY <1>9, <2>1, SMTT(30) DEF Shm!SetStop, ShmControl, Mapped, ShmTypes, ShmPlaces
  <2>4. kind = "shm" => SegmentsReached'
    BY <1>9, <2>1, <2>3, ZenonT(30)
       DEF Shm!SetStop, SegmentsReached, WillStop, ShmControl, Mapped
  <2>5. kind = "mmap" /\ ~stops_overlapped => FilesReached'
    BY <1>9, <2>1 DEF Shm!SetStop, FilesReached, ShmControl, Mapped
  <2> QED
    BY <1>9, <2>2, <2>3, <2>4, <2>5 DEF Shm!SetStop
<1>10. ASSUME NEW p \in Shm!Processes, Shm!Detach(p)
      PROVE  ShmInv'
  <2>1. /\ shm_pc' \in [Shm!Processes -> ShmPlaces'] /\ shm_pc'[p] = "exit"
        /\ \A q \in Shm!Processes : q # p => shm_pc'[q] = shm_pc[q]
    BY <1>10, ShmGoto DEF Shm!Detach, ShmPlaces, Mapped
  <2>2. ShmTypes'
    BY <1>10, <2>1 DEF Shm!Detach, ShmTypes
  <2>3. ShmControl'
    BY <1>10, <2>1, ZenonT(30) DEF Shm!Detach, ShmControl, Mapped, ShmTypes, ShmPlaces
  <2>4. kind = "shm" => SegmentsReached'
    BY <1>10, <2>1, <2>3, SMTT(30), SMTT(30)
       DEF Shm!Detach, SegmentsReached, WillStop, ShmControl, Mapped
  <2>5. kind = "mmap" /\ ~stops_overlapped => FilesReached'
    BY <1>10, <2>1 DEF Shm!Detach, FilesReached, ShmControl, Mapped
  <2> QED
    BY <1>10, <2>2, <2>3, <2>4, <2>5 DEF Shm!Detach
<1>11. CASE UNCHANGED Shm!vars
  <2>1. ShmTypes' /\ ShmControl'
    BY <1>11 DEF Shm!vars, ShmTypes, ShmControl, ShmPlaces, Mapped
  <2>2. SegmentsReached => SegmentsReached'
    BY <1>11 DEF Shm!vars, SegmentsReached, WillStop
  <2>3. FilesReached => FilesReached'
    BY <1>11 DEF Shm!vars, FilesReached
  <2> QED
    BY <1>11, <2>1, <2>2, <2>3 DEF Shm!vars
<1>12. ASSUME NEW p \in Shm!Processes, Shm!Create(p) PROVE ShmInv'
  BY <1>1, <1>3, <1>12 DEF Shm!Create, Shm!NoObject, ShmTypes, ShmPlaces, Mapped
<1>13. ASSUME NEW p \in Shm!Processes, Shm!Open(p) PROVE ShmInv'
  BY <1>1, <1>2, <1>13 DEF Shm!Open, Shm!NoObject, ShmTypes, ShmPlaces, Mapped
<1>14. ASSUME NEW p \in Shm!Processes, Shm!Fails(p) PROVE ShmInv'
  BY <1>3, <1>8, <1>14, ZenonT(30) DEF Shm!Fails, Mapped
<1>15. ASSUME NEW p \in Shm!Processes, Shm!Access(p) \/ Shm!Shmat(p) \/ Shm!Mmap(p) PROVE ShmInv'
  BY <1>2, <1>3, <1>4, <1>5, <1>15, ZenonT(30)
     DEF Shm!Access, Shm!Shmat, Shm!Mmap, Shm!NoObject, ShmTypes,
     ShmPlaces, Mapped
<1>16. ASSUME NEW p \in Shm!Processes, Shm!LockEx(p) \/ Shm!LockSh(p) \/ Shm!Unlock(p) PROVE ShmInv'
  BY <1>8, <1>16 DEF Shm!LockEx, Shm!LockSh, Shm!Unlock
<1>17. ASSUME NEW p \in Shm!Processes, Shm!Look(p) PROVE ShmInv'
  <2>1. CASE shm_pc' = shm_pc
    BY <1>11, <1>17, <2>1, ZenonT(30) DEF Shm!Look, Shm!vars
  <2>2. CASE \E place \in {"detach", "unlock"} :
                Shm!Goto(p, place) /\ (place = "detach" => shmid[p] \in stop)
    BY <1>8, <1>17, <2>2, ZenonT(30) DEF Shm!Look
  <2> QED
    BY <1>17, <2>1, <2>2, ZenonT(30) DEF Shm!Look
<1> QED
  BY <1>6, <1>7, <1>9, <1>10, <1>11, <1>12, <1>13, <1>14, <1>15, <1>16, <1>17 DEF Shm!Next, Shm!Runs

\* For any processes and any number of objects: a process of shm.c that shows the message
\* can be stopped, and so can one of mmap.c while no two processes with --stop are at work
\* at the same time (main of both).
THEOREM EveryUserReached == Shm!Spec => []StopReaches
<1>1. Shm!Init => ShmInv
  <2> SUFFICES ASSUME Shm!Init PROVE ShmInv
    OBVIOUS
  <2> USE DEF Shm!Init, Shm!NoObject, Shm!Processes
  <2>1. ShmTypes
    BY ZenonT(30) DEF ShmTypes, ShmPlaces
  <2>2. ShmControl
    BY DEF ShmControl, Mapped
  <2>3. SegmentsReached /\ FilesReached
    BY DEF SegmentsReached, FilesReached
  <2> QED
    BY <2>1, <2>2, <2>3 DEF ShmInv
<1>2. ShmInv /\ [Shm!Next]_Shm!vars => ShmInv'
  BY ShmStep
<1>3. ShmInv => StopReaches
  BY DEF ShmInv, ShmTypes, ShmControl, Mapped, SegmentsReached, WillStop, FilesReached,
     StopReaches, Shm!StopReaches, Shm!Sharing, Shm!Processes
<1> QED
  BY <1>1, <1>2, <1>3, PTL DEF Shm!Spec

-----------------------------------------------------------------------------
(* drop *)

\* Which user is which before each of the calls of drop_privileges.
AtCheck == drop_pc = "check_privileges" => suid = euid /\ old_euid = euid
AtTemporarily == drop_pc = "temporarily" => suid = euid /\ ruid # euid
AtRegain == drop_pc = "regain" => correct /\ suid = old_euid /\ euid = ruid /\ ruid # old_euid
AtPermanently ==
    drop_pc = "permanently" =>
        suid = old_euid /\ ruid # old_euid /\ euid = IF correct THEN old_euid ELSE ruid

\* The saved user is gone only on the correct way out of root's privileges; else it is
\* the old one still, or the program is run by root.
AtTry ==
    drop_pc = "try" =>
        /\ ruid # old_euid /\ euid = ruid
        /\ IF correct /\ old_euid = 0 THEN suid = ruid ELSE suid = old_euid \/ ruid = 0

DropPlaces == {"check_privileges", "temporarily", "regain", "permanently", "try", "EXIT_SUCCESS",
           "EXIT_FAILURE"}

DropInv ==
    /\ correct \in BOOLEAN /\ drop_pc \in DropPlaces
    /\ AtCheck /\ AtTemporarily /\ AtRegain /\ AtPermanently /\ AtTry /\ DroppedForGood

\* Before each call of drop_privileges the three users are as DropInv says.
LEMMA StepKeepsUsers == DropInv /\ [DropPrivileges!Next]_DropPrivileges!vars => DropInv'
<1> SUFFICES ASSUME DropInv, [DropPrivileges!Next]_DropPrivileges!vars PROVE DropInv'
  OBVIOUS
<1> USE DEF DropInv, DropPlaces
<1>1. CASE DropPrivileges!CheckPrivileges
  BY <1>1 DEF DropPrivileges!CheckPrivileges, AtCheck, AtTemporarily, AtRegain, AtPermanently,
     AtTry,
              DroppedForGood, DropPrivileges!DroppedForGood
<1>2. CASE DropPrivileges!DropTemporarily
  BY <1>2, SMTT(30) DEF DropPrivileges!DropTemporarily, DropPrivileges!seteuid,
     DropPrivileges!Permitted,
     AtCheck, AtTemporarily, AtRegain,
              AtPermanently, AtTry, DroppedForGood, DropPrivileges!DroppedForGood
<1>3. CASE DropPrivileges!Regain
  BY <1>3 DEF DropPrivileges!Regain, DropPrivileges!seteuid, DropPrivileges!Permitted, AtCheck,
     AtTemporarily, AtRegain, AtPermanently,
              AtTry, DroppedForGood, DropPrivileges!DroppedForGood
<1>4. CASE DropPrivileges!DropPermanently
  BY <1>4 DEF DropPrivileges!DropPermanently, DropPrivileges!setuid, DropPrivileges!Permitted,
     AtCheck, AtTemporarily, AtRegain,
              AtPermanently, AtTry, DroppedForGood, DropPrivileges!DroppedForGood
<1>5. CASE DropPrivileges!TryOld
  BY <1>5 DEF DropPrivileges!TryOld, DropPrivileges!setuid, DropPrivileges!Permitted, AtCheck,
     AtTemporarily, AtRegain, AtPermanently,
              AtTry, DroppedForGood, DropPrivileges!DroppedForGood
<1>6. CASE UNCHANGED DropPrivileges!vars
  BY <1>6 DEF DropPrivileges!vars, AtCheck, AtTemporarily, AtRegain, AtPermanently, AtTry,
     DroppedForGood, DropPrivileges!DroppedForGood,
              DropPrivileges!Permitted
<1> QED
  BY <1>1, <1>2, <1>3, <1>4, <1>5, <1>6, ZenonT(30) DEF DropPrivileges!Next

\* For any set of users: "privileges dropped correctly" is printed for the correct way out
\* of root's privileges and for nothing else, and then there is no way back.
THEOREM DropIsFinal == DropPrivileges!Spec => []DroppedForGood
<1>1. DropPrivileges!Init => DropInv
  BY DEF DropPrivileges!Init, DropInv, DropPlaces, AtCheck, AtTemporarily, AtRegain,
     AtPermanently, AtTry,
         DroppedForGood, DropPrivileges!DroppedForGood
<1>2. DropInv => DroppedForGood
  BY DEF DropInv
<1> QED
  BY <1>1, <1>2, StepKeepsUsers, PTL DEF DropPrivileges!Spec

-----------------------------------------------------------------------------
(* id *)

Entries == [real : Gids, effective : Gids, name : Gids \cup {NULL}]

\* A number has its own name or none.
OwnName(e) == e.name \in {e.real, NULL}

\* While get_user_info works, the groups that the user is in now are those of a moment
\* of the call.
IdTypes ==
    /\ mode \in {"process", "user"}
    /\ id_pc \in {"user", "group", "count", "fill", "name", "printed", "exit", "crash"}
    /\ group \in Entries /\ OwnName(group)
    /\ user \in [real : Accounts, effective : Accounts, name : Accounts \cup {NULL}] /\ OwnName(user)
    /\ id_pc \in {"user", "group"} => group.name = NULL
    /\ id_pc = "count" => mode = "user"
    /\ supplementary \in SUBSET Gids /\ named \in SUBSET Gids /\ member \in SUBSET Gids
    /\ mode = "user" /\ id_pc \in {"group", "count", "fill"} => Id!GroupList \in memberships

\* What is allocated where id is.
HeapOfId ==
    /\ id_pc \in {"user", "group", "printed", "exit"} => heap = {}
    /\ id_pc = "count" \/ (id_pc = "fill" /\ mode = "process") => heap = Id!GroupName
    /\ id_pc = "fill" /\ mode = "user" => heap = Id!GroupName \cup Id!Ids
    /\ id_pc = "name" => heap = Id!Ids \cup Id!Data
    /\ ~twice

\* The groups of the process, or those the user was in at some moment of the call.
OneMoment(list) ==
    IF mode = "user" THEN list \in memberships ELSE list = supplementary \cup {group.effective}

\* groups_ids has the groups of one moment, each of them once, and groups_data the entries
\* of the first ones.
Collected ==
    /\ \E list \in SUBSET Gids :
          ngroups = Cardinality(list) /\ groups_ids \in Id!Orders(list) /\ OneMoment(list)
    /\ groups_data \in Seq(Entries) /\ Len(groups_data) <= ngroups
    /\ \A j \in 1 .. Len(groups_data) :
          groups_data[j].real = groups_ids[j] /\ OwnName(groups_data[j])

\* The groups are the last items of the line, and these are their numbers.
Groups(shown) == SubSeq(shown, Len(shown) - ngroups + 1, Len(shown))
Numbers(shown) == {Groups(shown)[k].id : k \in DOMAIN Groups(shown)}

LineTrue(shown) ==
    /\ \A k \in DOMAIN shown : shown[k].name \in {shown[k].id, NULL}
    /\ Cardinality(Numbers(shown)) = Len(Groups(shown))
    /\ OneMoment(Numbers(shown))

IdInv ==
    /\ IdTypes /\ HeapOfId
    /\ id_pc = "name" => Collected
    /\ id_pc = "printed" /\ options.what = "all" => LineTrue(printed)

\* An order of a list is a sequence of all its elements.
LEMMA OrdersAre ==
  ASSUME NEW list \in SUBSET Gids
  PROVE  /\ Cardinality(list) \in Nat /\ Id!Cardinality(list) = Cardinality(list)
         /\ \A order \in Id!Orders(list) :
               /\ order \in [1 .. Cardinality(list) -> list]
               /\ \A g \in list : \E k \in 1 .. Cardinality(list) : order[k] = g
<1>1. Cardinality(list) \in Nat
  BY IdAssumption, ZenonT(30)
<1>2. Id!Cardinality(list) = Cardinality(list)
  BY DEF Id!Cardinality, Cardinality
<1> QED
  BY <1>1, <1>2 DEF Id!Orders

\* Nothing is allocated and no name is known in the initial state.
LEMMA IdInitial == Id!Init => IdInv
<1> SUFFICES ASSUME Id!Init PROVE IdInv
  OBVIOUS
<1>1. user \in [real : Accounts, effective : Accounts, name : Accounts \cup {NULL}] /\ user.name = NULL
  BY DEF Id!Init, Id!Entry
<1>2. group \in Entries /\ group.name = NULL
  BY DEF Id!Init, Id!Entry, Entries
<1>3. supplementary \in SUBSET Gids /\ named \in SUBSET Gids /\ member \in SUBSET Gids
  BY DEF Id!Init
<1>4. id_pc = "user" /\ heap = {} /\ ~twice /\ mode \in {"process", "user"}
  BY DEF Id!Init
<1> QED
  BY <1>1, <1>2, <1>3, <1>4 DEF IdInv, IdTypes, OwnName, HeapOfId

\* A call that fails after everything allocated so far has been freed.
LEMMA ExitsFreeing ==
  ASSUME IdInv, NEW blocks, heap = blocks, Id!ExitFreeing(blocks)
  PROVE  IdInv'
<1>1. heap' = {} /\ twice' = FALSE /\ id_pc' = "exit"
  BY ZenonT(30) DEF Id!ExitFreeing, Id!Free, IdInv, HeapOfId
<1>2. IdTypes'
  BY <1>1 DEF IdInv, IdTypes, OwnName, Id!ExitFreeing, Id!process, Id!database
<1> QED
  BY <1>1, <1>2 DEF IdInv, HeapOfId

\* The groups of a list of one moment are collected.
LEMMA Collects ==
  ASSUME IdInv, NEW list \in SUBSET Gids, OneMoment(list), Id!Collect(list),
         heap \in {Id!GroupName, Id!GroupName \cup Id!Ids}
  PROVE  IdInv'
<1>1. /\ groups_ids' \in Id!Orders(list) /\ ngroups' = Cardinality(list) /\ groups_data' = <<>>
      /\ id_pc' = "name" /\ twice' = twice
      /\ UNCHANGED <<mode, supplementary, user, group, named, member, memberships>>
  BY OrdersAre, ZenonT(30) DEF Id!Collect, Id!process, Id!database
<1>2. IdTypes'
  BY <1>1, ZenonT(30) DEF IdInv, IdTypes, OwnName
<1>3. Collected'
  <2>1. Id!Orders(list)' = Id!Orders(list)
    OBVIOUS
  <2>2. <<>> \in Seq(Entries) /\ Len(<<>>) = 0 /\ Cardinality(list) \in Nat
    BY OrdersAre
  <2>3. OneMoment(list)'
    BY <1>1, ZenonT(30) DEF OneMoment
  <2> QED
    BY <1>1, <2>2, <2>3 DEF Collected
<1>4. heap' = Id!Ids \cup Id!Data'
  <2>1. Id!GroupName' = Id!GroupName
    BY <1>1 DEF Id!GroupName
  <2>2. Id!Data' = Id!GroupName \cup {<<"groups_data", 0>>}
    BY <1>1, <2>1 DEF Id!Data
  <2> QED
    BY <2>2, ZenonT(30) DEF Id!Collect
<1> QED
  BY <1>1, <1>2, <1>3, <1>4 DEF IdInv, HeapOfId, Id!Ids

\* The name of one more group is found.
LEMMA NamesOneMore ==
  ASSUME IdInv, id_pc = "name", Len(groups_data) < ngroups, Id!NamesGroup
  PROVE  IdInv'
<1> DEFINE j == Len(groups_data) + 1
           g == groups_ids[j]
<1>1. PICK list \in SUBSET Gids :
        ngroups = Cardinality(list) /\ groups_ids \in Id!Orders(list) /\ OneMoment(list)
  BY DEF IdInv, Collected
<1>2. /\ groups_data \in Seq(Entries) /\ Len(groups_data) \in Nat /\ ngroups \in Nat
      /\ j \in 1 .. ngroups /\ g \in Gids
      /\ \A k \in 1 .. Len(groups_data) :
            groups_data[k].real = groups_ids[k] /\ OwnName(groups_data[k])
  <2>1. groups_data \in Seq(Entries) /\ Len(groups_data) \in Nat
    BY DEF IdInv, Collected
  <2>2. ngroups \in Nat /\ groups_ids \in [1 .. ngroups -> list]
    BY <1>1, OrdersAre
  <2> QED
    BY <2>1, <2>2 DEF IdInv, Collected
<1>3. PICK found \in {g, NULL} :
        /\ groups_data' = Append(groups_data, Id!Entry(g, g, found))
        /\ heap' = heap \cup (IF found = NULL THEN {} ELSE {<<"name", j>>})
  BY DEF Id!NamesGroup
<1>4. UNCHANGED <<mode, supplementary, user, group, named, member, memberships, ngroups,
                  groups_ids, twice, id_pc>>
  BY DEF Id!NamesGroup, Id!process, Id!database
<1> DEFINE e == Id!Entry(g, g, found)
<1>5. e \in Entries /\ e.real = g /\ e.name = found /\ OwnName(e)
  BY <1>2, ZenonT(30) DEF Id!Entry, Entries, OwnName
<1> HIDE DEF e
<1>6. /\ groups_data' \in Seq(Entries) /\ Len(groups_data') = j /\ groups_data'[j] = e
      /\ \A k \in 1 .. Len(groups_data) : groups_data'[k] = groups_data[k]
  BY <1>2, <1>3, <1>5, SMTT(30) DEF e
<1>7. IdTypes'
  BY <1>4, ZenonT(30) DEF IdInv, IdTypes, OwnName, Id!GroupList
<1>8. Collected'
  <2>1. OneMoment(list)'
    BY <1>1, <1>4 DEF OneMoment
  <2>2. \A k \in 1 .. j : groups_data'[k].real = groups_ids[k] /\ OwnName(groups_data'[k])
    <3> SUFFICES ASSUME NEW k \in 1 .. j
                 PROVE  groups_data'[k].real = groups_ids[k] /\ OwnName(groups_data'[k])
      OBVIOUS
    <3>1. CASE k = j
      BY <1>5, <1>6, <3>1
    <3>2. CASE k # j
      <4>1. k \in 1 .. Len(groups_data)
        BY <1>2, <3>2
      <4> QED
        BY <1>2, <1>6, <4>1
    <3> QED
      BY <3>1, <3>2, ZenonT(30)
  <2>3. \A k \in 1 .. j : groups_data'[k].name \in {groups_data'[k].real, NULL}
    BY <2>2 DEF OwnName
  <2> QED
    BY <1>1, <1>2, <1>4, <1>6, <2>1, <2>2, <2>3 DEF Collected, OwnName
<1>9. heap' = Id!Ids \cup Id!Data'
  <2>1. heap = Id!Ids \cup Id!Data
    BY DEF IdInv, HeapOfId
  <2>2. Id!GroupName' = Id!GroupName
    BY <1>4 DEF Id!GroupName
  <2>3. DOMAIN groups_data' = (DOMAIN groups_data) \cup {j} /\ DOMAIN groups_data = 1 .. Len(groups_data)
    BY <1>2, <1>6
  <2>4. {<<"name", k>> : k \in {m \in DOMAIN groups_data' : groups_data'[m].name # NULL}}
          = {<<"name", k>> : k \in {m \in DOMAIN groups_data : groups_data[m].name # NULL}}
              \cup (IF found = NULL THEN {} ELSE {<<"name", j>>})
    BY <1>5, <1>6, <2>3, ZenonT(30)
  <2> HIDE DEF j
  <2>5. Id!Data' = Id!Data \cup (IF found = NULL THEN {} ELSE {<<"name", j>>})
    BY <2>2, <2>4 DEF Id!Data
  <2> QED
    BY <1>3, <2>1, <2>5
<1> QED
  BY <1>4, <1>7, <1>8, <1>9 DEF IdInv, HeapOfId, Id!Ids

\* The end of a sequence made of two.
LEMMA Ending ==
  ASSUME NEW S, NEW a \in Seq(S), NEW b \in Seq(S)
  PROVE  /\ a \o b \in Seq(S)
         /\ SubSeq(a \o b, Len(a \o b) - Len(b) + 1, Len(a \o b)) = b
<1> DEFINE s == a \o b
           end == SubSeq(s, Len(s) - Len(b) + 1, Len(s))
<1>1. /\ s \in Seq(S) /\ Len(s) = Len(a) + Len(b) /\ Len(a) \in Nat /\ Len(b) \in Nat
      /\ \A k \in 1 .. Len(b) : s[Len(a) + k] = b[k]
  OBVIOUS
<1> HIDE DEF s
<1>2. Len(s) - Len(b) + 1 = Len(a) + 1
  BY <1>1
<1>3. end \in Seq(S) /\ Len(end) = Len(b) /\ \A k \in 1 .. Len(b) : end[k] = s[Len(a) + k]
  BY <1>1, <1>2
<1> HIDE DEF end
<1>4. end = b
  BY <1>1, <1>3, SMTT(30)
<1> QED
  BY <1>1, <1>4 DEF s, end

\* The line of id without options is true of one moment.
LEMMA LineShown ==
  ASSUME IdInv, id_pc = "name", Len(groups_data) = ngroups, options.what = "all"
  PROVE  LineTrue(Id!print_data)
<1> DEFINE Items == {item \in [id : Gids \cup Accounts, name : Gids \cup Accounts \cup {NULL}] :
                        item.name \in {item.id, NULL}}
           effective == [id |-> user.effective, name |-> Id!NameIn(known, user.effective)]
           first == <<Id!Both(user), Id!Both(group)>>
           second == IF user.real = user.effective THEN <<>> ELSE <<effective>>
           third == [k \in 1 .. ngroups |-> Id!Both(groups_data[k])]
           shown == Id!print_data
<1>1. PICK list \in SUBSET Gids :
        ngroups = Cardinality(list) /\ groups_ids \in Id!Orders(list) /\ OneMoment(list)
  BY DEF IdInv, Collected
<1>2. /\ ngroups \in Nat /\ groups_ids \in [1 .. ngroups -> list]
      /\ \A g \in list : \E k \in 1 .. ngroups : groups_ids[k] = g
  BY <1>1, OrdersAre
<1>3. \A k \in 1 .. ngroups :
        groups_data[k] \in Entries /\ groups_data[k].real = groups_ids[k] /\ OwnName(groups_data[k])
  BY <1>2 DEF IdInv, Collected
<1>4. first \in Seq(Items)
  <2>1. Id!Both(user) \in Items /\ Id!Both(group) \in Items
    BY ZenonT(30) DEF IdInv, IdTypes, Entries, OwnName, Id!Both
  <2> HIDE DEF Items
  <2> QED
    BY <2>1
<1>5. second \in Seq(Items)
  <2>1. user.effective \in Accounts
    BY DEF IdInv, IdTypes
  <2>2. effective \in Items
    BY <2>1 DEF Id!NameIn
  <2> HIDE DEF effective, Items
  <2> QED
    BY <2>2, SMTT(30)
<1>6. /\ third \in Seq(Items) /\ Len(third) = ngroups /\ DOMAIN third = 1 .. ngroups
      /\ \A k \in 1 .. ngroups : third[k].id = groups_ids[k]
  <2>1. \A k \in 1 .. ngroups :
          Id!Both(groups_data[k]) \in Items /\ Id!Both(groups_data[k]).id = groups_ids[k]
    BY <1>3 DEF Id!Both, Entries, OwnName
  <2> HIDE DEF Items
  <2> QED
    BY <1>2, <2>1, SMTT(30)
<1>7. shown = (first \o second) \o third
  BY DEF Id!print_data
<1> HIDE DEF first, second, third, Items, shown
<1>8. first \o second \in Seq(Items)
  BY <1>4, <1>5
<1>9. shown \in Seq(Items) /\ Groups(shown) = third
  <2> DEFINE head == first \o second
  <2>1. head \in Seq(Items) /\ shown = head \o third
    BY <1>7, <1>8
  <2> HIDE DEF head
  <2>2. shown \in Seq(Items) /\ SubSeq(shown, Len(shown) - Len(third) + 1, Len(shown)) = third
    <3>1. /\ head \o third \in Seq(Items)
          /\ SubSeq(head \o third, Len(head \o third) - Len(third) + 1, Len(head \o third)) = third
      BY <1>6, <2>1, Ending, ZenonT(30)
    <3> QED
      BY <2>1, <3>1
  <2>3. Groups(shown) = SubSeq(shown, Len(shown) - Len(third) + 1, Len(shown))
    BY <1>6 DEF Groups
  <2> QED
    BY <2>2, <2>3
<1>10. Numbers(shown) = list
  <2>1. Numbers(shown) = {third[k].id : k \in 1 .. ngroups}
    BY <1>6, <1>9, Zenon DEF Numbers
  <2>2. \A k \in 1 .. ngroups : third[k].id = groups_ids[k] /\ groups_ids[k] \in list
    BY <1>2, <1>6
  <2> QED
    BY <1>2, <2>1, <2>2
<1>11. \A k \in DOMAIN shown : shown[k].name \in {shown[k].id, NULL}
  <2>1. \A k \in DOMAIN shown : shown[k] \in Items
    BY <1>9, SMTT(30)
  <2> QED
    BY <2>1 DEF Items
<1>12. LineTrue(shown)
  BY <1>1, <1>6, <1>9, <1>10, <1>11 DEF LineTrue
<1> QED
  BY <1>12 DEF shown

\* Every call of id, and every change of the data bases between two of them, keeps it.
LEMMA IdStep == IdInv /\ [Id!Next]_Id!vars => IdInv'
<1> SUFFICES ASSUME IdInv, [Id!Next]_Id!vars PROVE IdInv'
  OBVIOUS
<1>1. /\ mode \in {"process", "user"} /\ group \in Entries /\ OwnName(group)
      /\ supplementary \in SUBSET Gids /\ named \in SUBSET Gids /\ member \in SUBSET Gids
  BY DEF IdInv, IdTypes
<1>2. CASE Id!Change
  <2>1. /\ UNCHANGED <<options, mode, supplementary, known, user, group, ngroups, groups_ids,
                       groups_data, heap, twice, printed, id_pc>>
        /\ memberships' = memberships \cup {{group.real} \cup member'}
        /\ named' \in SUBSET Gids /\ member' \in SUBSET Gids
    BY <1>1, <1>2, ZenonT(30) DEF Id!Change, Id!process
  <2>2. IdTypes'
    BY <2>1, ZenonT(30) DEF IdInv, IdTypes, OwnName, Id!GroupList
  <2>3. HeapOfId'
    BY <2>1, ZenonT(30) DEF IdInv, HeapOfId, Id!GroupName, Id!Data, Id!Ids
  <2>4. \A list : OneMoment(list) => OneMoment(list)'
    BY <2>1, SMTT(30) DEF OneMoment
  <2>5. (id_pc = "name" => Collected)'
    BY <2>1, <2>4, ZenonT(30) DEF IdInv, Collected, OwnName
  <2>6. LineTrue(printed) => LineTrue(printed)'
    <3>1. Groups(printed)' = Groups(printed)
      BY <2>1 DEF Groups
    <3>2. Numbers(printed)' = Numbers(printed)
      BY <3>1 DEF Numbers
    <3> QED
      BY <2>1, <2>4, <3>1, <3>2, ZenonT(30) DEF LineTrue
  <2> QED
    BY <2>1, <2>2, <2>3, <2>5, <2>6, ZenonT(30) DEF IdInv
<1>3. CASE Id!ProcessUser
  BY <1>3 DEF Id!ProcessUser, Id!process, Id!database, Id!NameIn, IdInv, IdTypes, OwnName, HeapOfId,
     Id!GroupList
<1>4. CASE Id!ProcessGroup
  <2>1. CASE Id!ExitFreeing({})
    BY <1>4, <2>1, ExitsFreeing DEF Id!ProcessGroup, IdInv, HeapOfId
  <2>2. CASE /\ group' = [group EXCEPT !.name = Id!NameIn(named, group.real)]
             /\ heap' = heap \cup (IF group.real \in named THEN {<<"group_data", 0>>} ELSE {})
             /\ id_pc' = "fill"
             /\ UNCHANGED <<options, mode, supplementary, known, named, member, memberships, user, twice>>
    <3>1. /\ group' \in Entries /\ group'.real = group.real /\ group'.name \in {group.real, NULL}
          /\ group'.name = NULL <=> group.real \notin named
      BY <1>1, <2>2, IdAssumption DEF Entries, Id!NameIn
    <3>2. heap = {} /\ ~twice /\ mode = "process"
      BY <1>4 DEF Id!ProcessGroup, IdInv, HeapOfId
    <3>3. heap' = Id!GroupName'
      BY <2>2, <3>1, <3>2 DEF Id!GroupName
    <3>4. IdTypes'
      BY <2>2, <3>1, <3>2 DEF IdInv, IdTypes, OwnName
    <3> QED
      BY <2>2, <3>2, <3>3, <3>4 DEF IdInv, HeapOfId
  <2> QED
    BY <1>4, <2>1, <2>2 DEF Id!ProcessGroup, Id!process, Id!database
<1>5. CASE Id!ProcessGroups
  <2>1. heap = Id!GroupName /\ mode = "process"
    BY <1>5 DEF Id!ProcessGroups, IdInv, HeapOfId
  <2>2. CASE Id!ExitFreeing(Id!GroupName)
    BY <2>1, <2>2, ExitsFreeing
  <2>3. CASE Id!Collect(supplementary \cup {group.effective})
    <3>1. supplementary \cup {group.effective} \in SUBSET Gids
      BY <1>1 DEF Entries
    <3>2. OneMoment(supplementary \cup {group.effective})
      BY <2>1 DEF OneMoment
    <3> QED
      BY <2>1, <2>3, <3>1, <3>2, Collects
  <2> QED
    BY <1>5, <2>2, <2>3 DEF Id!ProcessGroups
<1>6. CASE Id!NameProcessGroup
  <2>1. CASE Id!NamesGroup
    BY <1>6, <2>1, NamesOneMore, ZenonT(30) DEF Id!NameProcessGroup
  <2>2. CASE /\ id_pc' = "crash"
             /\ UNCHANGED <<options, mode, supplementary, known, named, member, memberships, user, group, twice>>
    BY <2>2, ZenonT(30) DEF IdInv, IdTypes, OwnName, HeapOfId
  <2> QED
    BY <1>6, <2>1, <2>2 DEF Id!NameProcessGroup, Id!process, Id!database
<1>7. CASE Id!UserUser
  <2>1. CASE Id!ExitFreeing({})
    BY <1>7, <2>1, ExitsFreeing DEF Id!UserUser, IdInv, HeapOfId
  <2>2. CASE /\ user' = [user EXCEPT !.name = user.real]
             /\ id_pc' = "group"
             /\ memberships' = {Id!GroupList}
             /\ UNCHANGED <<mode, supplementary, named, member, group, heap, twice>>
    BY <1>7, <2>2 DEF Id!UserUser, IdInv, IdTypes, OwnName, HeapOfId, Id!GroupList
  <2> QED
    BY <1>7, <2>1, <2>2 DEF Id!UserUser, Id!process
<1>8. CASE Id!UserGroup
  <2>1. CASE Id!ExitFreeing({})
    BY <1>8, <2>1, ExitsFreeing DEF Id!UserGroup, IdInv, HeapOfId
  <2>2. ASSUME NEW found \in {group.real, NULL},
               group' = [group EXCEPT !.name = found],
               heap' = heap \cup (IF found = NULL THEN {} ELSE {<<"group_data", 0>>}),
               id_pc' = "count",
               UNCHANGED <<mode, supplementary, named, member, memberships, user, twice>>
        PROVE  IdInv'
    <3>1. group' \in Entries /\ group'.real = group.real /\ group'.name = found
      BY <1>1, <2>2 DEF Entries
    <3>2. heap = {} /\ ~twice /\ mode = "user" /\ Id!GroupList \in memberships
      BY <1>8 DEF Id!UserGroup, IdInv, IdTypes, HeapOfId
    <3>3. heap' = Id!GroupName'
      BY <2>2, <3>1, <3>2 DEF Id!GroupName
    <3>4. IdTypes'
      BY <2>2, <3>1, <3>2 DEF IdInv, IdTypes, OwnName, Id!GroupList
    <3> QED
      BY <2>2, <3>2, <3>3, <3>4 DEF IdInv, HeapOfId
  <2> QED
    BY <1>8, <2>1, <2>2 DEF Id!UserGroup, Id!process, Id!database
<1>9. CASE Id!CountGroups
  <2>1. heap = Id!GroupName /\ mode = "user" /\ ~twice /\ Id!GroupList \in memberships
    BY <1>9 DEF Id!CountGroups, IdInv, IdTypes, HeapOfId
  <2>2. CASE Id!ExitFreeing(Id!GroupName)
    BY <2>1, <2>2, ExitsFreeing
  <2>3. CASE /\ heap' = heap \cup Id!Ids /\ id_pc' = "fill"
             /\ UNCHANGED <<mode, supplementary, named, member, memberships, user, group, twice>>
    <3>1. Id!GroupName' = Id!GroupName
      BY <2>3, ZenonT(30) DEF Id!GroupName
    <3>2. IdTypes'
      BY <2>1, <2>3, ZenonT(30) DEF IdInv, IdTypes, OwnName, Id!GroupList
    <3> QED
      BY <2>1, <2>3, <3>1, <3>2, ZenonT(30) DEF IdInv, HeapOfId, Id!Ids
  <2> QED
    BY <1>9, <2>2, <2>3, ZenonT(30) DEF Id!CountGroups, Id!process, Id!database
<1>10. CASE Id!FillGroups
  <2>1. heap = Id!GroupName \cup Id!Ids /\ mode = "user" /\ Id!GroupList \in memberships
    BY <1>10, ZenonT(30) DEF Id!FillGroups, IdInv, IdTypes, HeapOfId
  <2>2. CASE Id!ExitFreeing(Id!GroupName \cup Id!Ids)
    BY <2>1, <2>2, ExitsFreeing, ZenonT(30)
  <2>3. CASE Id!Collect(Id!GroupList)
    <3>1. Id!GroupList \in SUBSET Gids
      BY <1>1 DEF Id!GroupList, Entries
    <3>2. OneMoment(Id!GroupList)
      BY <2>1 DEF OneMoment
    <3> QED
      BY <2>1, <2>3, <3>1, <3>2, Collects
  <2> QED
    BY <1>10, <2>2, <2>3, SMTT(30) DEF Id!FillGroups
<1>11. CASE Id!NameUserGroup
  <2>1. CASE Id!NamesGroup
    BY <1>11, <2>1, NamesOneMore DEF Id!NameUserGroup
  <2>2. CASE Id!ExitFreeing(Id!Data \cup Id!Ids)
    <3>1. heap = Id!Data \cup Id!Ids
      BY <1>11 DEF Id!NameUserGroup, IdInv, HeapOfId
    <3> QED
      BY <2>2, <3>1, ExitsFreeing
  <2> QED
    BY <1>11, <2>1, <2>2 DEF Id!NameUserGroup
<1>12. CASE Id!PrintInfo
  <2>1. /\ UNCHANGED <<options, mode, supplementary, named, member, memberships, user, group, ngroups>>
        /\ id_pc' = "printed" /\ printed' = Id!print_data
        /\ id_pc = "name" /\ Len(groups_data) = ngroups
    BY <1>12 DEF Id!PrintInfo, Id!process, Id!database
  <2>2. heap' = {} /\ twice' = FALSE
    BY <1>12, ZenonT(30) DEF Id!PrintInfo, Id!Free, IdInv, HeapOfId
  <2>3. IdTypes'
    BY <2>1, ZenonT(30) DEF IdInv, IdTypes, OwnName
  <2>4. ASSUME options.what = "all" PROVE LineTrue(printed)'
    <3>1. LineTrue(Id!print_data)
      BY <2>1, <2>4, LineShown
    <3>2. Groups(printed)' = Groups(Id!print_data)
      BY <2>1 DEF Groups
    <3>3. Numbers(printed)' = Numbers(Id!print_data)
      BY <3>2 DEF Numbers
    <3>4. OneMoment(Numbers(printed))' = OneMoment(Numbers(Id!print_data))
      BY <2>1, <3>3, SMTT(30) DEF OneMoment
    <3> QED
      BY <2>1, <3>1, <3>2, <3>3, <3>4, ZenonT(30) DEF LineTrue
  <2> QED
    BY <2>1, <2>2, <2>3, <2>4 DEF IdInv, HeapOfId
<1>13. CASE Id!NextUser
  <2>1. /\ user' \in [real : Accounts, effective : Accounts, name : Accounts \cup {NULL}] /\ user'.name = NULL
        /\ group' \in Entries /\ group'.name = NULL
    BY <1>13 DEF Id!NextUser, Id!Entry, Entries
  <2>2. /\ id_pc' = "user" /\ UNCHANGED <<mode, supplementary, named, heap, twice>>
        /\ member' \in SUBSET Gids /\ heap = {} /\ ~twice
    BY <1>1, <1>13, ZenonT(30) DEF Id!NextUser, Id!process, IdInv, HeapOfId
  <2> QED
    BY <1>1, <2>1, <2>2, ZenonT(30) DEF IdInv, IdTypes, OwnName, HeapOfId
<1>14. CASE UNCHANGED Id!vars
  <2>1. UNCHANGED <<options, mode, user, group, supplementary, known, named, member, ngroups,
                    groups_ids, groups_data, heap, twice, printed, memberships, id_pc>>
    BY <1>14, SMTT(30) DEF Id!vars
  <2>2. IdTypes' /\ HeapOfId'
    BY <2>1, ZenonT(30) DEF IdInv, IdTypes, OwnName, HeapOfId, Id!GroupList, Id!GroupName,
       Id!Ids, Id!Data
  <2>3. \A list : OneMoment(list) => OneMoment(list)'
    BY <2>1, SMTT(30) DEF OneMoment
  <2>4. Collected => Collected'
    BY <2>1, <2>3, ZenonT(30) DEF Collected, OwnName
  <2>5. LineTrue(printed) => LineTrue(printed)'
    <3>1. Groups(printed)' = Groups(printed)
      BY <2>1 DEF Groups
    <3>2. Numbers(printed)' = Numbers(printed)
      BY <3>1 DEF Numbers
    <3> QED
      BY <2>1, <2>3, <3>1, <3>2, ZenonT(30) DEF LineTrue
  <2> QED
    BY <2>1, <2>2, <2>4, <2>5 DEF IdInv
<1> QED
  BY <1>2, <1>3, <1>4, <1>5, <1>6, <1>7, <1>8, <1>9, <1>10, <1>11, <1>12, <1>13, <1>14,
     ZenonT(30) DEF Id!Next

\* For any users and groups and any number of changes of the data bases, id prints groups
\* that were the process's, or the user's at one moment, each with its own name, and
\* frees everything exactly once (get_process_info, get_user_info, print_data).
THEOREM IdPrintsOneMoment == Id!Spec => []PrintsOneMoment
<1>1. IdInv => PrintsOneMoment
  <2>1. ASSUME IdInv, id_pc = "printed", options.what = "all"
        PROVE  LET shown == SubSeq(printed, Len(printed) - ngroups + 1, Len(printed))
                   ids == {shown[k].id : k \in DOMAIN shown}
               IN  /\ \A k \in DOMAIN printed : printed[k].name \in {printed[k].id, NULL}
                   /\ Id!Cardinality(ids) = Len(shown)
                   /\ ids \in (IF mode = "user" THEN memberships
                               ELSE {supplementary \cup {group.effective}})
    <3>1. Id!Cardinality(Numbers(printed)) = Cardinality(Numbers(printed))
      BY DEF Id!Cardinality, Cardinality
    <3> QED
      BY <2>1, <3>1, ZenonT(30) DEF IdInv, LineTrue, OneMoment, Groups, Numbers
  <2> QED
    BY <2>1, ZenonT(30) DEF PrintsOneMoment, Id!PrintsOneMoment, IdInv, HeapOfId
<1> QED
  BY <1>1, IdInitial, IdStep, PTL DEF Id!Spec
=============================================================================
