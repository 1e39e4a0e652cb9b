------------------------------- MODULE Files -------------------------------
(***************************************************************************)
(* The programs that copy bytes, slow.c, fast.c and cat.c of ex10 and      *)
(* werecat.c of ex11, and those with a pipe between two processes,         *)
(* child.c, dup.c and pipe.c of ex10, side by side, each with variables of *)
(* its own, and what is required of the copies.                            *)
(***************************************************************************)
EXTENDS Werecat

CONSTANTS
    MaxFiles, MaxLength, MaxChanges,    \* of Copy
    Capacity, MaxWritten                \* of Pipe

VARIABLES
    copier, lengths, source, offset, buffer, left, st_size, copied, copy_pc, copy_status,
    changes,
    ends_of, ends_pc, ends, bytes, writes, got, eof

copy == <<copier, lengths, source, offset, buffer, left, st_size, copied, copy_pc, copy_status,
          changes>>
pipes == <<ends_of, ends_pc, ends, bytes, writes, got, eof>>

Copy == INSTANCE Copy WITH
    program <- copier, i <- source, output <- copied, pc <- copy_pc, status <- copy_status
Pipe == INSTANCE Pipe WITH
    file <- ends_of, pc <- ends_pc, open <- ends, pipe <- bytes,
    written <- writes, received <- got

-----------------------------------------------------------------------------

\* slow, fast, cat: the bytes come out in their order, and none is left out.
CopiesFaithfully == Copy!CopiesFaithfully
=============================================================================
