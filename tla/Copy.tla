-------------------------------- MODULE Copy --------------------------------
(***************************************************************************)
(* slow.c, fast.c and cat.c of ex10: bytes go from files to a descriptor,  *)
(* with calls that move fewer bytes than they were asked to, or fail, and  *)
(* with other processes that change the length of a file meanwhile.        *)
(* A byte is the pair of its file and its offset.  cat without arguments   *)
(* is cat of one file that is open already.  The sources are regular files *)
(* that the program does not write to.                                     *)
(***************************************************************************)
EXTENDS Integers, Sequences, FiniteSets

CONSTANTS
    BUFFER_SIZE,
    MaxFiles,      \* bound: arguments of cat
    MaxLength,     \* bound: length of a file
    MaxChanges     \* bound: changes of a length by other processes

VARIABLES
    program,     \* "slow", "fast" or "cat"
    lengths,     \* what the files' lengths are now
    i,           \* the file being copied
    offset,      \* how far it was read
    buffer,      \* from ptr on, rd bytes
    left,        \* size of fast.c
    st_size,     \* what fstat said
    output, pc, status, changes

vars == <<program, lengths, i, offset, buffer, left, st_size, output, pc, status, changes>>

Smaller(m, n) == IF m < n THEN m ELSE n

Bytes(n) == [k \in 1..n |-> <<i, offset + k>>]

\* What a read at offset finds before the end of the file.
Available == IF offset < lengths[i] THEN lengths[i] - offset ELSE 0

Init ==
    /\ program \in {"slow", "fast", "cat"}
    /\ \E n \in 1..MaxFiles : lengths \in [1..n -> 0..MaxLength]
    /\ program # "cat" => Len(lengths) = 1
    /\ i = 1 /\ offset = 0 /\ buffer = <<>>
    /\ left = 0 /\ st_size = 0
    /\ output = <<>>
    /\ pc = "open" /\ status = "EXIT_FAILURE"
    /\ changes = 0

-----------------------------------------------------------------------------

\* A call failed: EXIT_FAILURE, by return or by error().
Fails ==
    /\ pc \in {"open", "fstat", "read", "write", "sendfile"}
    /\ pc' = "exit"
    /\ UNCHANGED <<program, lengths, i, offset, buffer, left, st_size, output, status, changes>>

Open ==
    /\ pc = "open"
    /\ pc' = IF program = "fast" THEN "fstat" ELSE "read"
    /\ offset' = 0
    /\ UNCHANGED <<program, lengths, i, buffer, left, st_size, output, status, changes>>

\* copy_fd of slow.c, write_to_stdout of cat.c: the outer loop.
ReadSome ==
    /\ pc = "read" /\ Available > 0
    /\ \E n \in 1..Smaller(BUFFER_SIZE, Available) :
         /\ buffer' = Bytes(n)
         /\ offset' = offset + n
    /\ pc' = "write"
    /\ UNCHANGED <<program, lengths, i, left, st_size, output, status, changes>>

\* Variant: a write takes all it is given.
WriteOnce ==
    /\ pc = "write"
    /\ \E n \in 1..Len(buffer) : output' = output \o SubSeq(buffer, 1, n)
    /\ buffer' = <<>>
    /\ pc' = "read"
    /\ UNCHANGED <<program, lengths, i, offset, left, st_size, status, changes>>

\* The inner loop.  A write of at least one byte does not return 0.
Write ==
    /\ pc = "write"
    /\ \E n \in 1..Len(buffer) :
         /\ output' = output \o SubSeq(buffer, 1, n)
         /\ buffer' = SubSeq(buffer, n + 1, Len(buffer))
         /\ pc' = IF n = Len(buffer) THEN "read" ELSE "write"
    /\ UNCHANGED <<program, lengths, i, offset, left, st_size, status, changes>>

ReadNothing ==
    /\ pc = "read" /\ Available = 0
    /\ pc' = "close"
    /\ UNCHANGED <<program, lengths, i, offset, buffer, left, st_size, output, status, changes>>

\* copy_fd of fast.c.
Fstat ==
    /\ pc = "fstat"
    /\ left' = lengths[i] /\ st_size' = lengths[i]
    /\ pc' = "sendfile"
    /\ UNCHANGED <<program, lengths, i, offset, buffer, output, status, changes>>

\* sendfile reads at offset and moves it.
SendSome ==
    /\ pc = "sendfile" /\ left > 0 /\ Available > 0
    /\ \E n \in 1..Smaller(left, Available) :
         /\ output' = output \o Bytes(n)
         /\ offset' = offset + n
         /\ left' = left - n
    /\ UNCHANGED <<program, lengths, i, buffer, st_size, pc, status, changes>>

SendNothing ==
    /\ pc = "sendfile" /\ (left = 0 \/ Available = 0)
    /\ pc' = "close"
    /\ UNCHANGED <<program, lengths, i, offset, buffer, left, st_size, output, status, changes>>

\* A close that fails ends cat; slow.c and fast.c only say so.
Close ==
    /\ pc = "close"
    /\ \/ /\ i = Len(lengths)
          /\ pc' = "exit" /\ status' = "EXIT_SUCCESS" /\ i' = i
       \/ /\ i < Len(lengths)
          /\ pc' = "open" /\ i' = i + 1 /\ status' = status
       \/ /\ program = "cat"
          /\ pc' = "exit" /\ UNCHANGED <<i, status>>
    /\ UNCHANGED <<program, lengths, offset, buffer, left, st_size, output, changes>>

\* Another process appends to a file or truncates it.
Change ==
    /\ pc # "exit" /\ changes < MaxChanges
    /\ \E k \in DOMAIN lengths, n \in 0..MaxLength :
         n # lengths[k] /\ lengths' = [lengths EXCEPT ![k] = n]
    /\ changes' = changes + 1
    /\ UNCHANGED <<program, i, offset, buffer, left, st_size, output, pc, status>>

Next ==
    \/ Fails \/ Open \/ ReadSome \/ Write \/ ReadNothing
    \/ Fstat \/ SendSome \/ SendNothing \/ Close \/ Change

Spec == Init /\ [][Next]_vars

-----------------------------------------------------------------------------

\* Every byte follows the one before it in the file, or begins a later file.
InOrder ==
    /\ output # <<>> => output[1][2] = 1
    /\ \A k \in 1..(Len(output) - 1) :
         \/ output[k + 1] = <<output[k][1], output[k][2] + 1>>
         \/ output[k + 1][1] > output[k][1] /\ output[k + 1][2] = 1

\* The bytes of the present file in the output.
Copied == Cardinality({k \in 1 .. Len(output) : output[k][1] = i})

\* What the output gets is the files' bytes in their order, none left out and none
\* twice, however the calls split them; and a file is only taken for finished when
\* all it has at that moment was copied, or for fast.c all it still has of what
\* fstat saw (copy_fd, write_to_stdout).
CopiesFaithfully ==
    [][ /\ InOrder'
        /\ (pc # "close" /\ pc' = "close")
              => Copied >= (IF program = "fast" THEN Smaller(st_size, lengths[i]) ELSE lengths[i])
      ]_vars
=============================================================================
