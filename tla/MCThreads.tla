----------------------------- MODULE MCThreads -----------------------------
(***************************************************************************)
(* power.c, condvar.c, primes.c and sqrt.c of ex09 and the programs of     *)
(* ex08 with thread-specific data for TLC: a run of the one that program   *)
(* names.  The others stay in their initial states.                        *)
(***************************************************************************)
EXTENDS Threads

CONSTANT Waiters      \* of Condvar

VARIABLES
    program,
    flag, flag_mutex, flag_pc, flag_main

condvar == <<flag, flag_mutex, flag_pc, flag_main>>

Condvar == INSTANCE Condvar WITH
    Threads <- Waiters, mutex <- flag_mutex, pc <- flag_pc, main <- flag_main

ThreadsInit ==
    /\ program \in {"power", "condvar", "primes", "sqrt", "data"}
    /\ Init /\ Condvar!Init /\ Primes!Init /\ Sqrt!Init /\ ThreadData!Init
    /\ program # "data" => file = "tls"

\* The programs that do not run do not change.
Frame ==
    /\ UNCHANGED program
    /\ program # "power" => UNCHANGED vars
    /\ program # "condvar" => UNCHANGED condvar
    /\ program # "primes" => UNCHANGED primes
    /\ program # "sqrt" => UNCHANGED sqrt
    /\ program # "data" => UNCHANGED data

ThreadsNext ==
    \/ program = "power" /\ Next /\ Frame
    \/ program = "condvar" /\ Condvar!Next /\ Frame
    \/ program = "primes" /\ Primes!Next /\ Frame
    \/ program = "sqrt" /\ Sqrt!Next /\ Frame
    \/ program = "data" /\ ThreadData!Next /\ Frame

\* What thread t does, whichever program runs; in condvar.c and tls.c Main is one
\* of them, and any of Producers stands for the one producer of sqrt.c.
Runs(t) ==
    \/ program = "power" /\ t \in Workers /\ WorkerRuns(t)
    \/ program = "condvar" /\ t \in Waiters /\ Condvar!ThreadRuns(t)
    \/ program = "primes" /\ t \in Producers /\ Primes!ProducerRuns(t)
    \/ program = "primes" /\ t \in Consumers /\ Primes!ConsumerRuns(t)
    \/ program = "sqrt" /\ t \in Consumers /\ Sqrt!ConsumerRuns(t)
    \/ program = "sqrt" /\ t \in Producers /\ Sqrt!ProducerRuns
    \/ program = "data" /\ t \in Producers \cup {Main} /\ ThreadData!ThreadRuns(t)
TakesLock(t) ==
    \/ program = "power" /\ t \in Workers /\ Lock(t)
    \/ program = "condvar" /\ ((t \in Waiters /\ Condvar!Lock(t)) \/ (t = Main /\ Condvar!MainLock))
    \/ program = "primes" /\ t \in Producers \cup Consumers /\ Primes!Lock(t)
    \/ program = "sqrt" /\ t \in Consumers /\ Sqrt!ConsumerLocks(t)
MainRuns ==
    \/ program = "power" /\ (AllCreated \/ Report)
    \/ program = "condvar" /\ Condvar!MainRuns
    \/ program = "primes" /\ Primes!MainRuns
    \/ program = "sqrt" /\ (Sqrt!CreateConsumer \/ Sqrt!CreateProducer \/ Sqrt!Return)
    \/ program = "data" /\ ThreadData!MainRuns

\* Every thread that can run is scheduled, and gets a mutex, or a read-write lock for
\* reading, that is free again and again.
ThreadsSpec ==
    /\ ThreadsInit /\ [][ThreadsNext]_<<program, vars, condvar, primes, sqrt, data>>
    /\ \A t \in Workers \cup Waiters \cup {Main} \cup Producers \cup Consumers :
         /\ WF_<<vars, condvar, primes, sqrt, data>>(Runs(t) /\ Frame)
         /\ SF_<<vars, condvar, primes, sqrt, data>>(TakesLock(t) /\ Frame)
    /\ WF_<<vars, condvar, primes, sqrt, data>>(MainRuns /\ Frame)

-----------------------------------------------------------------------------

\* condvar: a thread that sleeps when main broadcasts ends.
SleepersEnd == Condvar!SleepersEnd

\* primes: the producers end, and main comes to joining the consumers.
ProducersEnd == program = "primes" => Primes!ProducersEnd

\* sqrt: once the flag is set the program ends.
FinishedEnds == Sqrt!FinishedEnds

\* power.c and tls.c have a barrier: when the calls before it succeed in every thread,
\* all get past it and the program reports and ends.
BarrierEnds == CreatedReports /\ (program = "data" => ThreadData!DataEnds)
=============================================================================
