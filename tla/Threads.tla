------------------------------ MODULE Threads ------------------------------
(***************************************************************************)
(* power.c, primes.c and sqrt.c of ex09 and the programs of ex08 with      *)
(* thread-specific data side by side, each with variables of its own, and  *)
(* what is required of them.                                               *)
(***************************************************************************)
EXTENDS Power

CONSTANTS
    Producers, Consumers, First, Last,    \* of Primes
    Numbers, Iterations,                  \* of Sqrt, with the same Consumers
    Main                                  \* of ThreadData, whose threads are Producers

ASSUME SqrtAssumption ==
    /\ IsFiniteSet(Consumers) /\ Consumers # {}
    /\ Numbers \subseteq Nat
    /\ Iterations \in Nat

VARIABLES
    list, finished, list_mutex, list_pc, k, counters, list_main,
    n, s, sqrt_finished, readers, writing, flagReaders, flagWriting, sqrt_pc, tempN, tempS,
    errors, prod, newN, newS, i, sqrt_main,
    file, data_pc, id_static, blocks, specific, printed, key, data_main, failed

primes == <<list, finished, list_mutex, list_pc, k, counters, list_main>>
sqrt == <<n, s, sqrt_finished, readers, writing, flagReaders, flagWriting, sqrt_pc, tempN,
          tempS, errors, prod, newN, newS, i, sqrt_main>>
data == <<file, data_pc, id_static, blocks, specific, printed, key, data_main, failed>>

Primes == INSTANCE Primes WITH
    mutex <- list_mutex, pc <- list_pc, counter <- counters, main <- list_main
Sqrt == INSTANCE Sqrt WITH
    finished <- sqrt_finished, pc <- sqrt_pc, main <- sqrt_main
ThreadData == INSTANCE ThreadData WITH
    Threads <- Producers, pc <- data_pc, main <- data_main

-----------------------------------------------------------------------------

\* primes: no number is lost or taken twice, and list_pop finds a prime.
Conserved == Primes!Conserved

\* primes: no consumer sleeps while there is a number nobody is on the way to.
NoNumberSleptOn == Primes!NoNumberSleptOn

\* sqrt: consumers see a number with its root (consumer_run, producer_run).
NoMismatch == Sqrt!NoMismatch

\* sqrt: the detached producer has done with main's stack when main returns.
SharedOutlivesProducer == Sqrt!SharedOutlivesProducer

\* tls.c, keys.c, stopwatch.c: a thread finds its own data, all find one static value,
\* and only main's block is left.
OwnData == ThreadData!OwnData
=============================================================================
