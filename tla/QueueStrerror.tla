--------------------------- MODULE QueueStrerror ---------------------------
(***************************************************************************)
(* queue_strerror: a caller asks for the text of an error code, with a     *)
(* buffer of its own choice or with one whose size it asked for first, the *)
(* way queue.h shows.  A message is its length.                            *)
(***************************************************************************)
EXTENDS Naturals

CONSTANT MaxBuffer   \* the largest buffer a caller chooses

Codes == {"QUEUE_SUCCESS", "ALLOC_FAILURE", "WRONG_QUEUE_ARG", "MUTEX_INIT_FAIL",
          "COND_INIT_FAIL", "MUTEX_DESTROY_FAIL", "COND_DESTROY_FAIL", "CANT_LOCK",
          "QUEUE_FULL", "QUEUE_EMPTY", "QUEUE_ABORT", "KEY_ERROR"}

\* strlen of the message the switch selects.
MessageLength(code) ==
    CASE code \in {"QUEUE_SUCCESS", "CANT_LOCK"} -> 18
      [] code = "QUEUE_FULL" -> 55
      [] OTHER -> 61

VARIABLES
    state,    \* "idle", "sized" (size asked for), "filled", "filled_sized"
    code,     \* the error code of the call
    maxlen,   \* the size of the buffer
    stored,   \* the characters of the message in the buffer
    null,     \* whether a null byte follows them
    ret       \* what queue_strerror returned

vars == <<state, code, maxlen, stored, null, ret>>

Init ==
    /\ state = "idle" /\ code = "QUEUE_SUCCESS"
    /\ maxlen = 0 /\ stored = 0 /\ null = FALSE /\ ret = 0

\* snprintf(buffer, n, "%s", message): up to n - 1 characters and a null byte,
\* nothing at all when n is 0; the result is the length of the whole message.
Snprintf(n, length) ==
    /\ stored' = IF n = 0 THEN 0 ELSE IF length < n THEN length ELSE n - 1
    /\ null' = (n > 0)
    /\ ret' = length

queue_strerror(c, n) ==
    /\ code' = c
    /\ maxlen' = n
    /\ Snprintf(n, MessageLength(c))

\* A caller with a buffer of n bytes.
Fill(c, n) == state # "sized" /\ queue_strerror(c, n) /\ state' = "filled"

\* size_t bufsz = queue_strerror(error_number, NULL, 0ul);
AskSize(c) == state # "sized" /\ queue_strerror(c, 0) /\ state' = "sized"

\* ... and the call with a buffer of bufsz bytes.
FillSized == state = "sized" /\ queue_strerror(code, ret) /\ state' = "filled_sized"

Next ==
    \/ \E c \in Codes, n \in 0 .. MaxBuffer : Fill(c, n)
    \/ \E c \in Codes : AskSize(c)
    \/ FillSized

Spec == Init /\ [][Next]_vars

-----------------------------------------------------------------------------

Complete == stored = MessageLength(code) /\ null

\* queue.h of queue_strerror: the result of the call with an empty buffer "can
\* be used to determine the initial buffer size before the message is actually
\* written": a buffer of that size holds the message.
SizedBufferSuffices == state = "filled_sized" => Complete
=============================================================================
