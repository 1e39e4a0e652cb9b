-------------------------------- MODULE Sqrt --------------------------------
(***************************************************************************)
(* ex09/sqrt/sqrt.c: a producer publishes pairs (n, s), s the integer      *)
(* square root of n, under a readers-writer lock; consumers read the pair  *)
(* under the same lock and check it, until the producer has set finished,  *)
(* which a second readers-writer lock guards.  main starts the consumers,  *)
(* then the producer, which it detaches, and joins the consumers.  The     *)
(* fields s and n are stored and loaded one at a time.                     *)
(***************************************************************************)
EXTENDS Integers, FiniteSets

CONSTANTS
    Consumers,    \* the consumer threads main tries to start
    Numbers,      \* what 128 + rand() % 4096 may give
    Iterations    \* how many pairs the producer publishes

VARIABLES
    n, s, finished,        \* struct shared_thread_data
    readers, writing,      \* the lock of n and s
    flagReaders, flagWriting,   \* finished_rwlock
    pc,                    \* the consumers
    tempN, tempS, errors,  \* their variables
    prod, newN, newS, i,   \* the producer and its variables
    main                   \* "create", "join" or "returned"

consumerVars == <<readers, flagReaders, pc, tempN, tempS, errors>>
producerVars == <<n, s, finished, writing, flagWriting, prod, newN, newS, i>>
vars == <<n, s, finished, readers, writing, flagReaders, flagWriting, pc,
          tempN, tempS, errors, prod, newN, newS, i, main>>

Init ==
    /\ n = 0 /\ s = 0 /\ finished = FALSE
    /\ readers = {} /\ writing = FALSE
    /\ flagReaders = {} /\ flagWriting = FALSE
    /\ pc = [c \in Consumers |-> "none"]
    /\ tempN = [c \in Consumers |-> 0]
    /\ tempS = [c \in Consumers |-> 0]
    /\ errors = [c \in Consumers |-> 0]
    /\ prod = "none" /\ newN = 0 /\ newS = 0 /\ i = 0
    /\ main = "create"

-----------------------------------------------------------------------------
(* consumer_run *)

Goto(c, place) == pc' = [pc EXCEPT ![c] = place]

\* pthread_rwlock_rdlock(&finished_rwlock)
FlagLock(c) ==
    /\ pc[c] = "flag_lock"
    /\ ~flagWriting
    /\ flagReaders' = flagReaders \cup {c}
    /\ Goto(c, "flag_read")
    /\ UNCHANGED <<readers, tempN, tempS, errors>>

\* cond = !finished, the unlock and the test of cond.
FlagRead(c) ==
    /\ pc[c] = "flag_read"
    /\ flagReaders' = flagReaders \ {c}
    /\ Goto(c, IF finished THEN "exit" ELSE "lock")
    /\ UNCHANGED <<readers, tempN, tempS, errors>>

ReadLock(c) ==
    /\ pc[c] = "lock"
    /\ ~writing
    /\ readers' = readers \cup {c}
    /\ Goto(c, "read_s")
    /\ UNCHANGED <<flagReaders, tempN, tempS, errors>>

\* Variant: the lock is given back between the two loads.
ReadSUnlocks(c) ==
    /\ pc[c] = "read_s"
    /\ tempS' = [tempS EXCEPT ![c] = s]
    /\ readers' = readers \ {c}
    /\ Goto(c, "read_n")
    /\ UNCHANGED <<flagReaders, tempN, errors>>

ReadS(c) ==
    /\ pc[c] = "read_s"
    /\ tempS' = [tempS EXCEPT ![c] = s]
    /\ Goto(c, "read_n")
    /\ UNCHANGED <<readers, flagReaders, tempN, errors>>

ReadN(c) ==
    /\ pc[c] = "read_n"
    /\ tempN' = [tempN EXCEPT ![c] = n]
    /\ readers' = readers \ {c}
    /\ Goto(c, "verify")
    /\ UNCHANGED <<flagReaders, tempS, errors>>

\* s is the integer square root of m.
IsRoot(r, m) == r * r <= m /\ m < (r + 1) * (r + 1)

Verify(c) ==
    /\ pc[c] = "verify"
    /\ errors' = [errors EXCEPT ![c] = IF IsRoot(tempS[c], tempN[c]) THEN @ ELSE @ + 1]
    /\ Goto(c, "flag_lock")
    /\ UNCHANGED <<readers, flagReaders, tempN, tempS>>

ConsumerRuns(c) ==
    /\ FlagRead(c) \/ ReadS(c) \/ ReadN(c) \/ Verify(c)
    /\ UNCHANGED <<producerVars, main>>

ConsumerLocks(c) ==
    /\ FlagLock(c) \/ ReadLock(c)
    /\ UNCHANGED <<producerVars, main>>

-----------------------------------------------------------------------------
(* producer_run *)

Generate ==
    /\ prod = "generate"
    /\ i < Iterations
    /\ newN' \in Numbers
    /\ newS' = newN'
    /\ prod' = "descend"
    /\ UNCHANGED <<n, s, finished, writing, flagWriting, i>>

\* One test of for (; temp_s * temp_s > temp_n; --temp_s).
Descend ==
    /\ prod = "descend"
    /\ IF newS * newS > newN THEN newS' = newS - 1 /\ UNCHANGED prod
       ELSE prod' = "lock" /\ UNCHANGED newS
    /\ UNCHANGED <<n, s, finished, writing, flagWriting, newN, i>>

WriteLock ==
    /\ prod = "lock"
    /\ readers = {}
    /\ writing' = TRUE
    /\ prod' = "store_n"
    /\ UNCHANGED <<n, s, finished, flagWriting, newN, newS, i>>

StoreN ==
    /\ prod = "store_n"
    /\ n' = newN
    /\ prod' = "store_s"
    /\ UNCHANGED <<s, finished, writing, flagWriting, newN, newS, i>>

\* The second store, the unlock, and the printf, which loads s and n again
\* without the lock: only this thread ever stores to them.
StoreS ==
    /\ prod = "store_s"
    /\ s' = newS
    /\ writing' = FALSE
    /\ i' = i + 1
    /\ prod' = "generate"
    /\ UNCHANGED <<n, finished, flagWriting, newN, newS>>

FlagWriteLock ==
    /\ prod = "generate"
    /\ i = Iterations
    /\ flagReaders = {}
    /\ flagWriting' = TRUE
    /\ prod' = "finish"
    /\ UNCHANGED <<n, s, finished, writing, newN, newS, i>>

Finish ==
    /\ prod = "finish"
    /\ finished' = TRUE
    /\ prod' = "unlock"
    /\ UNCHANGED <<n, s, writing, flagWriting, newN, newS, i>>

\* Variant: the thread exits with finished_rwlock held.
FlagStaysLocked ==
    /\ prod = "unlock"
    /\ prod' = "exit"
    /\ UNCHANGED <<n, s, finished, writing, flagWriting, newN, newS, i>>

FlagUnlock ==
    /\ prod = "unlock"
    /\ flagWriting' = FALSE
    /\ prod' = "exit"
    /\ UNCHANGED <<n, s, finished, writing, newN, newS, i>>

ProducerRuns ==
    /\ Generate \/ Descend \/ StoreN \/ StoreS \/ Finish \/ FlagUnlock
    /\ UNCHANGED <<consumerVars, main>>

ProducerLocks ==
    /\ WriteLock \/ FlagWriteLock
    /\ UNCHANGED <<consumerVars, main>>

-----------------------------------------------------------------------------
(* main *)

\* pthread_create of a consumer; if it fails main goes on to join the others.
CreateConsumer ==
    /\ main = "create"
    /\ \E c \in Consumers :
         /\ pc[c] = "none"
         /\ \/ Goto(c, "flag_lock") /\ UNCHANGED main
            \/ main' = "join" /\ UNCHANGED pc
    /\ UNCHANGED <<producerVars, readers, flagReaders, tempN, tempS, errors>>

\* pthread_create of the producer, which may fail too, and pthread_detach.
CreateProducer ==
    /\ main = "create"
    /\ \A c \in Consumers : pc[c] # "none"
    /\ prod' \in {"none", "generate"}
    /\ main' = "join"
    /\ UNCHANGED <<consumerVars, n, s, finished, writing, flagWriting, newN, newS, i>>

\* Variant: the consumers are not joined.
ReturnAtOnce ==
    /\ main = "join"
    /\ main' = "returned"
    /\ UNCHANGED <<consumerVars, producerVars>>

\* The last pthread_join has returned; the shared data, on main's stack, goes
\* when main returns.
Return ==
    /\ main = "join"
    /\ \A c \in Consumers : pc[c] \in {"none", "exit"}
    /\ main' = "returned"
    /\ UNCHANGED <<consumerVars, producerVars>>

Next ==
    \/ \E c \in Consumers : ConsumerRuns(c) \/ ConsumerLocks(c)
    \/ ProducerRuns \/ ProducerLocks
    \/ CreateConsumer \/ CreateProducer \/ Return

Spec == Init /\ [][Next]_vars

\* Every thread that can run is scheduled, and a reader gets a lock that is free
\* of writers again and again.  Nothing is assumed for the writer: the default
\* lock prefers readers.
Fairness ==
    /\ \A c \in Consumers : WF_vars(ConsumerRuns(c)) /\ SF_vars(ConsumerLocks(c))
    /\ WF_vars(ProducerRuns)
    /\ WF_vars(CreateConsumer \/ CreateProducer \/ Return)

FairSpec == Spec /\ Fairness

-----------------------------------------------------------------------------
(* Properties *)

ConsumerPlaces == {"none", "flag_lock", "flag_read", "lock", "read_s", "read_n",
                   "verify", "exit"}
ProducerPlaces == {"none", "generate", "descend", "lock", "store_n", "store_s",
                   "finish", "unlock", "exit"}

\* Every variable has its type.
TypeOK ==
    /\ n \in Nat /\ s \in Int /\ finished \in BOOLEAN
    /\ readers \subseteq Consumers /\ writing \in BOOLEAN
    /\ flagReaders \subseteq Consumers /\ flagWriting \in BOOLEAN
    /\ pc \in [Consumers -> ConsumerPlaces]
    /\ tempN \in [Consumers -> Nat] /\ tempS \in [Consumers -> Int]
    /\ errors \in [Consumers -> Nat]
    /\ prod \in ProducerPlaces
    /\ newN \in Nat /\ newS \in Int /\ i \in 0 .. Iterations
    /\ main \in {"create", "join", "returned"}

\* The two loads of a consumer never mix two commits of the producer, and what
\* the producer's loop commits is the root: no consumer ever reports a mismatch,
\* the pair 0, 0 it sees before the first commit included.
NoMismatch == \A c \in Consumers : errors[c] = 0

\* The detached producer does not touch the shared data on main's stack after
\* main has returned: all that it may still do is unlock the global
\* finished_rwlock, although nobody joins it.
SharedOutlivesProducer == main = "returned" => prod \in {"none", "unlock", "exit"}

\* Once the producer has set finished, every consumer leaves its loop and main
\* returns.
FinishedEnds == finished ~> main = "returned"
=============================================================================
