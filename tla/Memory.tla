------------------------------- MODULE Memory -------------------------------
(***************************************************************************)
(* The game of hw02 with the libraries it loads, and beside it             *)
(* queue_create and queue_destroy of hw09 with variables of their own, and *)
(* what is required of them.                                               *)
(***************************************************************************)
EXTENDS Guess

CONSTANTS Threads, KeysMax      \* of QueueLifetime

VARIABLES place, next, held, retval, lost

lifetime == <<place, next, held, retval, lost>>

Lifetime == INSTANCE QueueLifetime

-----------------------------------------------------------------------------

\* hw09: queue_create and queue_destroy release what the queue has, once, and leak only
\* what is known.
ReleasedOnce == Lifetime!ReleasedOnce
=============================================================================
