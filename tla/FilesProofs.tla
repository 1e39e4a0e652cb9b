---------------------------- MODULE FilesProofs ----------------------------
(***************************************************************************)
(* The programs that copy bytes.  werecat.c gives no pipe up before all of *)
(* it is out, for any number of pipes, any buffer and any behaviour of the *)
(* writers.  slow.c, fast.c and cat.c put the bytes of their files out in  *)
(* their order and leave none out, for any number of files, any lengths    *)
(* and any change of a file while it is copied.  Between two processes     *)
(* child.c, dup.c and pipe.c lose no byte, for any pipe.                   *)
(***************************************************************************)
EXTENDS Files, Sequences, SequenceTheorems, FiniteSetTheorems, TLAPS

-----------------------------------------------------------------------------
(* werecat.c *)

\* What was read is out or in the buffer, unless a write has failed.
Accounted ==
    /\ \A p \in Index : taken[p] <= written[p]
    /\ pc # "write" /\ ~failed => rd = 0
    /\ ~failed => \A p \in Index : taken[p] = output[p] + (IF p = i THEN rd ELSE 0)

\* Pipes that this round of the loop has yet to look at.
Ahead(p) == pc \in {"fd", "read", "write", "hangup"} /\ p >= i

\* Old as it may be, what poll said of a pipe's end is still true, and so is that
\* there was nothing to read from a pipe that has ended.
EventsTrue ==
    \A p \in Index : Ahead(p) /\ "POLLHUP" \in revents[p] =>
        /\ p \in closed
        /\ ~failed /\ "POLLIN" \notin revents[p] => taken[p] = written[p]

\* The loop over read ends on an empty pipe.
Drained ==
    /\ pc = "hangup" /\ "POLLHUP" \in revents[i] /\ ~failed => taken[i] = written[i]
    /\ pc \in {"read", "write"} => "POLLIN" \in revents[i]

\* A pipe without a descriptor has ended.
GivenUp == \A p \in Index \ fds : p \in closed

WerecatInv == TypeOK /\ Accounted /\ EventsTrue /\ Drained /\ GivenUp /\ NothingDropped

LEMMA WerecatStarts == Init => WerecatInv
<1> SUFFICES ASSUME Init PROVE WerecatInv
  OBVIOUS
<1> USE PipesAssumption DEF Init, Index
<1>1. TypeOK
  <2>1. 1 \in Index
    OBVIOUS
  <2>2. revents \in [Index -> SUBSET {"POLLIN", "POLLHUP"}]
    BY Zenon
  <2> QED
    BY <2>1, <2>2, ZenonT(30) DEF TypeOK
<1>2. Accounted
  BY DEF Accounted
<1>3. EventsTrue /\ Drained
  BY DEF EventsTrue, Ahead, Drained
<1>4. GivenUp /\ NothingDropped
  BY DEF GivenUp, NothingDropped
<1> QED
  BY <1>1, <1>2, <1>3, <1>4 DEF WerecatInv

\* Every step of werecat and of the writers preserves the invariant.
LEMMA WerecatStep == WerecatInv /\ [Next]_vars => WerecatInv'
<1> SUFFICES ASSUME WerecatInv, [Next]_vars PROVE WerecatInv'
  OBVIOUS
<1> USE PipesAssumption, SizesAssumption DEF WerecatInv
<1>1. ASSUME NEW p \in Index, WriterWrites(p) PROVE WerecatInv'
  <2>1. p \in fds
    BY <1>1, Zenon DEF WriterWrites, GivenUp
  <2>2. written \in [Index -> Nat] /\ written[p] \in Nat
    BY <1>1, Zenon DEF TypeOK
  <2>3. written[p] + 1 \in Nat
    BY <2>2
  <2>4. written' = [written EXCEPT ![p] = written[p] + 1]
    BY <1>1, Zenon DEF WriterWrites
  <2>5. written' \in [Index -> Nat]
    BY <2>2, <2>3, <2>4, Zenon
  <2>6. TypeOK'
    BY <1>1, <2>5, Zenon DEF WriterWrites, TypeOK
  <2>7. Accounted'
    BY <1>1, <2>2, <2>4 DEF WriterWrites, TypeOK, Accounted
  <2>8. EventsTrue'
    BY <1>1, <2>4 DEF WriterWrites, TypeOK, EventsTrue, Ahead
  <2>9. Drained'
    BY <1>1, <2>4 DEF WriterWrites, TypeOK, Index, EventsTrue, Ahead, Drained
  <2>10. GivenUp' /\ NothingDropped'
    BY <1>1, <2>1, <2>4 DEF WriterWrites, TypeOK, GivenUp, NothingDropped
  <2> QED
    BY <2>6, <2>7, <2>8, <2>9, <2>10
<1>2. ASSUME NEW p \in Index, WriterCloses(p) PROVE WerecatInv'
  <2>1. TypeOK'
    BY <1>2 DEF WriterCloses, TypeOK
  <2>2. Accounted'
    BY <1>2 DEF WriterCloses, TypeOK, Accounted
  <2>3. EventsTrue'
    BY <1>2 DEF WriterCloses, TypeOK, Accounted, EventsTrue, Ahead, Index
  <2>4. Drained'
    BY <1>2 DEF WriterCloses, TypeOK, EventsTrue, Ahead, Index, Drained
  <2>5. GivenUp' /\ NothingDropped'
    BY <1>2 DEF WriterCloses, TypeOK, GivenUp, NothingDropped
  <2> QED
    BY <2>1, <2>2, <2>3, <2>4, <2>5
<1>3. CASE Poll
  <2>1. TypeOK'
    <3>1. \A p \in Index : (IF p \in fds THEN Events(p) ELSE {}) \in SUBSET {"POLLIN", "POLLHUP"}
      BY DEF Events
    <3>2. revents' \in [Index -> SUBSET {"POLLIN", "POLLHUP"}]
      BY <1>3, <3>1, Zenon DEF Poll
    <3>3. 1 \in Index
      BY DEF Index
    <3> QED
      BY <1>3, <3>2, <3>3, Zenon DEF Poll, TypeOK
  <2>2. Accounted'
    BY <1>3 DEF Poll, Events, TypeOK, Accounted
  <2>3. EventsTrue'
    BY <1>3 DEF Poll, Events, TypeOK, Accounted, EventsTrue, Ahead, Index
  <2>4. Drained'
    BY <1>3 DEF Poll, Events, TypeOK, EventsTrue, Ahead, Index, Drained
  <2>5. GivenUp' /\ NothingDropped'
    BY <1>3 DEF Poll, Events, TypeOK, GivenUp, NothingDropped
  <2> QED
    BY <2>1, <2>2, <2>3, <2>4, <2>5
<1>4. CASE PollFails
  <2>1. TypeOK'
    BY <1>4 DEF PollFails, TypeOK
  <2>2. Accounted'
    BY <1>4 DEF PollFails, TypeOK, Accounted
  <2>3. EventsTrue'
    BY <1>4 DEF PollFails, TypeOK, Accounted, EventsTrue, Ahead, Index
  <2>4. Drained'
    BY <1>4 DEF PollFails, TypeOK, EventsTrue, Ahead, Index, Drained
  <2>5. GivenUp' /\ NothingDropped'
    BY <1>4 DEF PollFails, TypeOK, GivenUp, NothingDropped
  <2> QED
    BY <2>1, <2>2, <2>3, <2>4, <2>5
<1>5. CASE TestPollin
  <2>1. TypeOK'
    BY <1>5 DEF TestPollin, TypeOK
  <2>2. Accounted'
    BY <1>5 DEF TestPollin, TypeOK, Accounted
  <2>3. EventsTrue'
    BY <1>5 DEF TestPollin, TypeOK, Accounted, EventsTrue, Ahead, Index
  <2>4. Drained'
    BY <1>5 DEF TestPollin, TypeOK, EventsTrue, Ahead, Index, Drained
  <2>5. GivenUp' /\ NothingDropped'
    BY <1>5 DEF TestPollin, TypeOK, GivenUp, NothingDropped
  <2> QED
    BY <2>1, <2>2, <2>3, <2>4, <2>5
<1>6. CASE ReadSome
  <2>1. TypeOK'
    <3>1. PICK n \in 1..Smaller(BUFFER_SIZE, written[i] - taken[i]) :
            rd' = n /\ taken' = [taken EXCEPT ![i] = @ + n]
      BY <1>6, ZenonT(30) DEF ReadSome
    <3>2. n \in Nat /\ i \in Index /\ taken \in [Index -> Nat]
      BY DEF TypeOK
    <3>3. taken' \in [Index -> Nat]
      BY <3>1, <3>2
    <3> QED
      BY <1>6, <3>1, <3>2, <3>3, Zenon DEF ReadSome, TypeOK
  <2>2. Accounted'
    BY <1>6 DEF ReadSome, Smaller, TypeOK, Accounted
  <2>3. EventsTrue'
    BY <1>6 DEF ReadSome, Smaller, TypeOK, Accounted, EventsTrue, Ahead, Index
  <2>4. Drained'
    BY <1>6 DEF ReadSome, Smaller, TypeOK, EventsTrue, Ahead, Index, Drained
  <2>5. GivenUp' /\ NothingDropped'
    BY <1>6 DEF ReadSome, Smaller, TypeOK, GivenUp, NothingDropped
  <2> QED
    BY <2>1, <2>2, <2>3, <2>4, <2>5
<1>7. CASE ReadNothing
  <2>1. TypeOK'
    BY <1>7 DEF ReadNothing, TypeOK
  <2>2. Accounted'
    BY <1>7 DEF ReadNothing, TypeOK, Accounted
  <2>3. EventsTrue'
    BY <1>7 DEF ReadNothing, TypeOK, Accounted, EventsTrue, Ahead, Index
  <2>4. Drained'
    BY <1>7 DEF ReadNothing, TypeOK, EventsTrue, Ahead, Index, Drained
  <2>5. GivenUp' /\ NothingDropped'
    BY <1>7 DEF ReadNothing, TypeOK, GivenUp, NothingDropped
  <2> QED
    BY <2>1, <2>2, <2>3, <2>4, <2>5
<1>8. CASE Write
  <2>1. TypeOK'
    <3>1. PICK n \in 1..rd : /\ output' = [output EXCEPT ![i] = @ + n]
                            /\ rd' = rd - n
                            /\ pc' = IF n = rd THEN "read" ELSE "write"
      BY <1>8, ZenonT(30) DEF Write
    <3>2. output' \in [Index -> Nat] /\ rd' \in Nat
      BY <3>1 DEF TypeOK
    <3> QED
      BY <1>8, <3>1, <3>2 DEF Write, TypeOK
  <2>2. Accounted'
    BY <1>8 DEF Write, TypeOK, Accounted
  <2>3. EventsTrue'
    BY <1>8 DEF Write, TypeOK, Accounted, EventsTrue, Ahead, Index
  <2>4. Drained'
    BY <1>8 DEF Write, TypeOK, EventsTrue, Ahead, Index, Drained
  <2>5. GivenUp' /\ NothingDropped'
    BY <1>8 DEF Write, TypeOK, Accounted, GivenUp, NothingDropped
  <2> QED
    BY <2>1, <2>2, <2>3, <2>4, <2>5
<1>9. CASE WriteFails
  <2>1. TypeOK'
    BY <1>9 DEF WriteFails, TypeOK
  <2>2. Accounted'
    BY <1>9 DEF WriteFails, TypeOK, Accounted
  <2>3. EventsTrue'
    BY <1>9 DEF WriteFails, TypeOK, Accounted, EventsTrue, Ahead, Index
  <2>4. Drained'
    BY <1>9 DEF WriteFails, TypeOK, EventsTrue, Ahead, Index, Drained
  <2>5. GivenUp' /\ NothingDropped'
    BY <1>9 DEF WriteFails, TypeOK, GivenUp, NothingDropped
  <2> QED
    BY <2>1, <2>2, <2>3, <2>4, <2>5
<1>10. CASE Hangup
  <2>1. TypeOK'
    <3>1. i' \in Index
      BY <1>10 DEF Hangup, TypeOK, Index
    <3>2. fds' \subseteq Index /\ pc' \in {"poll", "fd"}
      BY <1>10 DEF Hangup, TypeOK
    <3> QED
      BY <1>10, <3>1, <3>2 DEF Hangup, TypeOK
  <2>2. Accounted'
    BY <1>10 DEF Hangup, TypeOK, Accounted
  <2>3. EventsTrue'
    BY <1>10 DEF Hangup, TypeOK, Accounted, EventsTrue, Ahead, Index
  <2>4. Drained'
    BY <1>10 DEF Hangup, TypeOK, EventsTrue, Ahead, Index, Drained
  <2>5. GivenUp'
    BY <1>10 DEF Hangup, TypeOK, GivenUp, EventsTrue, Ahead, Index
  <2>6. "POLLHUP" \in revents[i] /\ ~failed => output[i] = written[i]
    BY <1>10 DEF Hangup, TypeOK, Accounted, Drained
  <2>7. NothingDropped'
    BY <1>10, <2>6 DEF Hangup, NothingDropped
  <2> QED
    BY <2>1, <2>2, <2>3, <2>4, <2>5, <2>7
<1>11. CASE UNCHANGED vars
  BY <1>11 DEF vars, TypeOK, Accounted, EventsTrue, Ahead, Drained, GivenUp, NothingDropped
<1> QED
  BY <1>1, <1>2, <1>3, <1>4, <1>5, <1>6, <1>7, <1>8, <1>9, <1>10, <1>11 DEF Next

\* A pipe whose descriptor main has set to -1 has ended, and all that was written to it
\* is out, unless a write to the standard output failed (the loop over fds).
THEOREM PipesDrained == Spec => []NothingDropped
<1>1. WerecatInv => NothingDropped
  BY DEF WerecatInv
<1> QED
  BY <1>1, WerecatStarts, WerecatStep, PTL DEF Spec

-----------------------------------------------------------------------------
(* slow.c, fast.c and cat.c *)

\* Where a file is open.
Copying == {"fstat", "read", "write", "sendfile", "close"}

CopyTypes ==
    /\ lengths \in Seq(Nat) /\ source \in 1 .. Len(lengths)
    /\ offset \in Nat /\ left \in Nat /\ st_size \in Nat
    /\ buffer \in Seq(Nat \X Nat) /\ copied \in Seq(Nat \X Nat)
    /\ copy_pc \in {"open", "exit"} \cup Copying
    /\ copy_pc \in {"read", "write"} => copier # "fast"
    /\ copy_pc \in {"fstat", "sendfile"} => copier = "fast"

\* The first b bytes are of files before f, and those after them the first ones of f.
Earlier(bs, f, b) == \A k \in 1 .. b : bs[k][1] < f
Present(bs, f, b) == \A k \in b + 1 .. Len(bs) : bs[k] = <<f, k - b>>

\* These bytes of f follow the first n.
Follows(bs, f, n) == \A k \in 1 .. Len(bs) : bs[k] = <<f, n + k>>

\* How much of the output is of the files before.
Before == Len(copied) + Len(buffer) - offset

\* The output ends with the bytes of the present file up to those in the buffer, and the
\* buffer goes on from there.
Progress ==
    /\ copy_pc = "open" => buffer = <<>> /\ Earlier(copied, source, Len(copied))
    /\ copy_pc \in Copying =>
         /\ Before \in 0 .. Len(copied)
         /\ Earlier(copied, source, Before)
         /\ Present(copied, source, Before)
         /\ Follows(buffer, source, Len(copied) - Before)
    /\ copy_pc \in {"fstat", "read", "sendfile", "close"} => buffer = <<>>
    /\ copy_pc = "fstat" => offset = 0
    /\ copy_pc = "sendfile" => left = st_size - offset

CopyInv == CopyTypes /\ Progress /\ Copy!InOrder

\* Bytes that go on where the output ends keep it in order.
LEMMA OutputGrows ==
  ASSUME copied \in Seq(Nat \X Nat), source \in Nat, Copy!InOrder, NEW b \in 0 .. Len(copied),
         NEW more \in Seq(Nat \X Nat),
         Earlier(copied, source, b), Present(copied, source, b),
         Follows(more, source, Len(copied) - b),
         copied' = copied \o more
  PROVE  /\ copied' \in Seq(Nat \X Nat) /\ Len(copied') = Len(copied) + Len(more)
         /\ Earlier(copied', source, b) /\ Present(copied', source, b)
         /\ Copy!InOrder'
<1>1. Len(copied) \in Nat /\ Len(more) \in Nat /\ b \in Nat /\ b <= Len(copied)
  OBVIOUS
<1>2. /\ copied' \in Seq(Nat \X Nat) /\ Len(copied') = Len(copied) + Len(more)
      /\ \A k \in 1 .. Len(copied) : copied'[k] = copied[k]
      /\ \A k \in Len(copied) + 1 .. Len(copied') : copied'[k] = more[k - Len(copied)]
  BY <1>1
<1>3. Earlier(copied', source, b)
  <2>1. ASSUME NEW k \in 1 .. b PROVE copied'[k][1] < source
    <3>1. k \in 1 .. Len(copied)
      BY <1>1
    <3>2. copied'[k] = copied[k]
      BY <1>2, <3>1
    <3> QED
      BY <3>2 DEF Earlier
  <2> QED
    BY <2>1 DEF Earlier
<1>4. ASSUME NEW k \in b + 1 .. Len(copied') PROVE copied'[k] = <<source, k - b>>
  <2>1. CASE k <= Len(copied)
    <3>1. k \in 1 .. Len(copied) /\ k \in b + 1 .. Len(copied)
      BY <1>1, <1>2, <2>1
    <3>2. copied'[k] = copied[k]
      BY <1>2, <3>1
    <3> QED
      BY <3>1, <3>2, ZenonT(30) DEF Present
  <2>2. CASE k > Len(copied)
    <3>1. /\ k - Len(copied) \in 1 .. Len(more) /\ k \in Len(copied) + 1 .. Len(copied')
          /\ (Len(copied) - b) + (k - Len(copied)) = k - b
      BY <1>1, <1>2, <2>2
    <3>2. copied'[k] = more[k - Len(copied)]
      BY <1>2, <3>1
    <3>3. more[k - Len(copied)] = <<source, (Len(copied) - b) + (k - Len(copied))>>
      BY <3>1 DEF Follows
    <3> QED
      BY <3>1, <3>2, <3>3
  <2>3. k <= Len(copied) \/ k > Len(copied)
    BY <1>1, <1>2
  <2> QED
    BY <2>1, <2>2, <2>3, ZenonT(30)
<1>5. Present(copied', source, b)
  BY <1>4, ZenonT(30) DEF Present
<1>6. ASSUME copied' # <<>> PROVE copied'[1][2] = 1
  <2>1. CASE b = 0
    <3>1. Len(copied') > 0
      BY <1>2, <1>6
    <3>2. 1 \in b + 1 .. Len(copied') /\ 1 - b = 1
      BY <1>1, <1>2, <2>1, <3>1
    <3>3. copied'[1] = <<source, 1>>
      BY <1>4, <3>2, ZenonT(30)
    <3> QED
      BY <3>3
  <2>2. CASE b > 0
    <3>1. 1 \in 1 .. Len(copied) /\ copied # <<>>
      BY <1>1, <2>2
    <3>2. copied'[1] = copied[1]
      BY <1>2, <3>1
    <3> QED
      BY <3>1, <3>2 DEF Copy!InOrder
  <2>3. b = 0 \/ b > 0
    BY <1>1
  <2> QED
    BY <2>1, <2>2, <2>3, ZenonT(30)
<1>7. ASSUME NEW k \in 1 .. (Len(copied') - 1)
      PROVE  \/ copied'[k + 1] = <<copied'[k][1], copied'[k][2] + 1>>
             \/ copied'[k + 1][1] > copied'[k][1] /\ copied'[k + 1][2] = 1
  <2>1. CASE k + 1 <= b
    <3>1. k \in 1 .. (Len(copied) - 1) /\ k \in 1 .. Len(copied) /\ k + 1 \in 1 .. Len(copied)
      BY <1>1, <2>1, SMTT(30)
    <3>2. copied'[k] = copied[k] /\ copied'[k + 1] = copied[k + 1]
      BY <1>2, <3>1
    <3> QED
      BY <3>1, <3>2, ZenonT(30) DEF Copy!InOrder
  <2>2. CASE k = b
    <3>1. k + 1 \in b + 1 .. Len(copied') /\ (k + 1) - b = 1 /\ k \in 1 .. b /\ k \in 1 .. Len(copied')
      BY <1>1, <1>2, <2>2
    <3>2. copied'[k + 1] = <<source, 1>>
      BY <1>4, <3>1, ZenonT(30)
    <3>3. copied'[k] \in Nat \X Nat
      BY <1>2, <3>1, SMTT(30)
    <3>4. copied'[k][1] < source /\ copied'[k][1] \in Nat
      BY <1>3, <3>1, <3>3, ZenonT(30) DEF Earlier
    <3>5. source > copied'[k][1]
      BY <3>4
    <3>6. copied'[k + 1][1] = source /\ copied'[k + 1][2] = 1
      BY <3>2
    <3> QED
      BY <3>5, <3>6
  <2>3. CASE k > b
    <3>1. /\ k \in b + 1 .. Len(copied') /\ k + 1 \in b + 1 .. Len(copied')
          /\ (k + 1) - b = (k - b) + 1
      BY <1>1, <1>2, <2>3
    <3>2. copied'[k] = <<source, k - b>> /\ copied'[k + 1] = <<source, (k + 1) - b>>
      BY <1>4, <3>1, ZenonT(30)
    <3> QED
      BY <3>1, <3>2
  <2>4. k + 1 <= b \/ k = b \/ k > b
    BY <1>1, <1>2
  <2> QED
    BY <2>1, <2>2, <2>3, <2>4, ZenonT(30)
<1>8. Copy!InOrder'
  BY <1>6, <1>7, ZenonT(30) DEF Copy!InOrder
<1> QED
  BY <1>2, <1>3, <1>5, <1>8

\* All of the output after the files before is of the present file.
LEMMA CopiedIsOffset ==
  ASSUME CopyTypes, Progress, copy_pc \in Copying, buffer = <<>>
  PROVE  Copy!Copied = offset
<1>1. Before \in Nat /\ Before <= Len(copied) /\ Len(copied) \in Nat /\ offset = Len(copied) - Before
  BY DEF CopyTypes, Progress, Before
<1>2. Earlier(copied, source, Before) /\ Present(copied, source, Before)
  BY DEF Progress
<1>3. copied \in Seq(Nat \X Nat) /\ source \in Nat
  BY DEF CopyTypes
<1>4. ASSUME NEW k \in 1 .. Len(copied) PROVE copied[k][1] = source <=> k > Before
  <2>1. CASE k <= Before
    <3>1. k \in 1 .. Before
      BY <1>1, <2>1
    <3>2. copied[k] \in Nat \X Nat
      BY <1>3
    <3>3. copied[k][1] < source /\ copied[k][1] \in Nat
      BY <1>2, <3>1, <3>2 DEF Earlier
    <3>4. copied[k][1] # source /\ ~(k > Before)
      BY <1>1, <1>3, <2>1, <3>3
    <3> QED
      BY <3>4
  <2>2. CASE k > Before
    <3>1. k \in Before + 1 .. Len(copied)
      BY <1>1, <2>2
    <3>2. copied[k] = <<source, k - Before>>
      BY <1>2, <3>1 DEF Present
    <3> QED
      BY <2>2, <3>2
  <2>3. k <= Before \/ k > Before
    BY <1>1
  <2> QED
    BY <2>1, <2>2, <2>3
<1>5. {k \in 1 .. Len(copied) : copied[k][1] = source} = Before + 1 .. Len(copied)
  <2>1. {k \in 1 .. Len(copied) : copied[k][1] = source} = {k \in 1 .. Len(copied) : k > Before}
    BY <1>4, Zenon
  <2>2. {k \in 1 .. Len(copied) : k > Before} = Before + 1 .. Len(copied)
    BY <1>1
  <2> QED
    BY <2>1, <2>2
<1>6. Cardinality(Before + 1 .. Len(copied)) = Len(copied) - Before
  <2>1. Before + 1 \in Int /\ Len(copied) \in Int
    BY <1>1
  <2>2. Cardinality(Before + 1 .. Len(copied))
          = IF Before + 1 > Len(copied) THEN 0 ELSE Len(copied) - (Before + 1) + 1
    BY <2>1, FS_Interval
  <2> QED
    BY <1>1, <2>2
<1>7. Copy!Copied = Cardinality(Before + 1 .. Len(copied))
  BY <1>5, ZenonT(30) DEF Copy!Copied, Copy!Cardinality, Cardinality
<1> QED
  BY <1>1, <1>6, <1>7

\* A program that does not touch the output or the buffer goes to another place of the
\* same file.
LEMMA SamePlace ==
  ASSUME CopyInv, UNCHANGED <<source, offset, buffer, copied>>
  PROVE  /\ Copy!InOrder' /\ Before' = Before
         /\ \A f, b : /\ Earlier(copied, f, b)' <=> Earlier(copied, f, b)
                      /\ Present(copied, f, b)' <=> Present(copied, f, b)
         /\ \A f, n : Follows(buffer, f, n)' <=> Follows(buffer, f, n)
BY DEF CopyInv, Copy!InOrder, Before, Earlier, Present, Follows

\* What was read at offset.
LEMMA BytesFollow ==
  ASSUME CopyTypes, NEW n \in Nat
  PROVE  /\ Copy!Bytes(n) \in Seq(Nat \X Nat) /\ Len(Copy!Bytes(n)) = n
         /\ Follows(Copy!Bytes(n), source, offset)
<1>1. source \in Nat /\ offset \in Nat
  BY DEF CopyTypes
<1>2. \A k \in 1 .. n : <<source, offset + k>> \in Nat \X Nat
  BY <1>1
<1>3. Copy!Bytes(n) \in [1 .. n -> Nat \X Nat]
  BY <1>2 DEF Copy!Bytes
<1>4. Copy!Bytes(n) \in Seq(Nat \X Nat) /\ Len(Copy!Bytes(n)) = n
  BY <1>3
<1> QED
  BY <1>4 DEF Copy!Bytes, Follows

\* Every step of the program and of the processes that change the files keeps it.
LEMMA CopyStep == CopyInv /\ [Copy!Next]_Copy!vars => CopyInv'
<1> SUFFICES ASSUME CopyInv, [Copy!Next]_Copy!vars PROVE CopyInv'
  OBVIOUS
<1>1. /\ CopyTypes /\ Progress /\ Copy!InOrder
      /\ copied \in Seq(Nat \X Nat) /\ buffer \in Seq(Nat \X Nat) /\ source \in Nat /\ offset \in Nat
      /\ lengths \in Seq(Nat) /\ source \in 1 .. Len(lengths) /\ left \in Nat /\ st_size \in Nat
      /\ Len(copied) \in Nat /\ Len(buffer) \in Nat
  BY DEF CopyInv, CopyTypes
<1>2. ASSUME UNCHANGED <<source, offset, buffer, copied, lengths, copier>>,
             copy_pc \in Copying, copy_pc' \in Copying \ {"fstat", "write"},
             left' \in Nat, st_size' \in Nat, buffer = <<>>,
             copy_pc' = "read" => copier # "fast",
             copy_pc' = "sendfile" => copier = "fast" /\ left' = st_size' - offset
      PROVE  CopyInv'
  <2>1. CopyTypes'
    BY <1>1, <1>2, ZenonT(30) DEF CopyTypes, Copying
  <2>2. Progress'
    BY <1>1, <1>2, SamePlace, ZenonT(30) DEF Progress, Copying
  <2> QED
    BY <1>2, <2>1, <2>2, SamePlace DEF CopyInv
<1>3. CASE Copy!Fails
  <2>1. /\ copy_pc' = "exit"
        /\ UNCHANGED <<copier, lengths, source, offset, buffer, left, st_size, copied>>
    BY <1>3 DEF Copy!Fails
  <2>2. CopyTypes' /\ Progress'
    BY <1>1, <2>1 DEF CopyTypes, Progress, Copying
  <2> QED
    BY <2>1, <2>2, SamePlace DEF CopyInv
<1>4. CASE Copy!Open
  <2>1. /\ copy_pc = "open" /\ copy_pc' = IF copier = "fast" THEN "fstat" ELSE "read"
        /\ offset' = 0 /\ UNCHANGED <<copier, lengths, source, buffer, left, st_size, copied>>
    BY <1>4 DEF Copy!Open
  <2>2. CopyTypes'
    BY <1>1, <2>1 DEF CopyTypes, Copying
  <2>3. buffer = <<>> /\ Earlier(copied, source, Len(copied))
    BY <1>1, <2>1 DEF Progress
  <2>4. Before' = Len(copied)
    BY <1>1, <2>1, <2>3 DEF Before
  <2>5. Earlier(copied, source, Before)'
    BY <2>1, <2>3, <2>4 DEF Earlier
  <2>6. Present(copied, source, Before)' /\ Follows(buffer, source, Len(copied) - Before)'
    BY <1>1, <2>1, <2>3, <2>4 DEF Present, Follows
  <2>7. Progress'
    BY <1>1, <2>1, <2>3, <2>4, <2>5, <2>6 DEF Progress, Copying
  <2>8. Copy!InOrder'
    BY <1>1, <2>1, ZenonT(30) DEF Copy!InOrder
  <2> QED
    BY <2>2, <2>7, <2>8 DEF CopyInv
<1>5. CASE Copy!ReadSome
  <2>1. PICK n \in 1 .. Copy!Smaller(BUFFER_SIZE, Copy!Available) :
          buffer' = Copy!Bytes(n) /\ offset' = offset + n
    BY <1>5 DEF Copy!ReadSome
  <2>2. /\ copy_pc = "read" /\ copy_pc' = "write"
        /\ UNCHANGED <<copier, lengths, source, left, st_size, copied>>
    BY <1>5 DEF Copy!ReadSome
  <2>3. n \in Nat
    BY <1>1, <2>1, SizesAssumption DEF Copy!Smaller, Copy!Available
  <2>4. /\ buffer' \in Seq(Nat \X Nat) /\ Len(buffer') = n /\ Follows(buffer', source, offset)
    BY <1>1, <2>1, <2>3, BytesFollow
  <2>5. /\ buffer = <<>> /\ Before \in 0 .. Len(copied) /\ Earlier(copied, source, Before)
        /\ Present(copied, source, Before)
    BY <1>1, <2>2 DEF Progress, Copying
  <2>6. Before' = Before /\ Len(copied) - Before = offset
    BY <1>1, <2>1, <2>2, <2>3, <2>4, <2>5 DEF Before
  <2>7. CopyTypes'
    BY <1>1, <2>1, <2>2, <2>3, <2>4 DEF CopyTypes, Copying
  <2>8. Earlier(copied, source, Before)' /\ Present(copied, source, Before)'
    BY <2>2, <2>5, <2>6 DEF Earlier, Present
  <2>9. Follows(buffer, source, Len(copied) - Before)'
    BY <2>2, <2>4, <2>6
  <2>10. Progress'
    BY <2>2, <2>5, <2>6, <2>8, <2>9 DEF Progress, Copying
  <2>11. Copy!InOrder'
    BY <1>1, <2>2, ZenonT(30) DEF Copy!InOrder
  <2> QED
    BY <2>7, <2>10, <2>11 DEF CopyInv
<1>6. CASE Copy!Write
  <2>1. PICK n \in 1 .. Len(buffer) :
          /\ copied' = copied \o SubSeq(buffer, 1, n)
          /\ buffer' = SubSeq(buffer, n + 1, Len(buffer))
          /\ copy_pc' = IF n = Len(buffer) THEN "read" ELSE "write"
    BY <1>6, ZenonT(30) DEF Copy!Write
  <2>2. copy_pc = "write" /\ UNCHANGED <<copier, lengths, source, offset, left, st_size>>
    BY <1>6 DEF Copy!Write
  <2> DEFINE more == SubSeq(buffer, 1, n)
  <2>3. n \in Nat /\ n <= Len(buffer) /\ Len(buffer) \in Nat
    BY <1>1, <2>1
  <2>4. more \in Seq(Nat \X Nat) /\ Len(more) = n /\ \A k \in 1 .. n : more[k] = buffer[k]
    BY <1>1, <2>3, SubSeqProperties, SMTT(30)
  <2>5. /\ buffer' \in Seq(Nat \X Nat) /\ Len(buffer') = Len(buffer) - n
        /\ \A k \in 1 .. Len(buffer) - n : buffer'[k] = buffer[n + k]
        /\ n = Len(buffer) => buffer' = <<>>
    <3>1. n + 1 \in Int /\ Len(buffer) \in Int /\ n + 1 .. Len(buffer) \subseteq 1 .. Len(buffer)
      BY <2>3
    <3>2. \A k \in 1 .. Len(buffer) : buffer[k] \in Nat \X Nat
      BY <1>1
    <3>3. /\ buffer' \in Seq(Nat \X Nat)
          /\ Len(buffer') = IF n + 1 <= Len(buffer) THEN Len(buffer) - (n + 1) + 1 ELSE 0
          /\ \A k \in 1 .. Len(buffer) - (n + 1) + 1 : buffer'[k] = buffer[(n + 1) + k - 1]
      BY <2>1, <3>1, <3>2, SubSeqProperties
    <3>4. Len(buffer) - (n + 1) + 1 = Len(buffer) - n /\ \A k \in Int : (n + 1) + k - 1 = n + k
      BY <2>3
    <3>5. n = Len(buffer) => buffer' = <<>>
      BY <2>1, <2>3, <3>1, SubSeqEmpty
    <3>6. \A k \in 1 .. Len(buffer) - n : buffer'[k] = buffer[n + k]
      <4> TAKE k \in 1 .. Len(buffer) - n
      <4>1. k \in Int /\ k \in 1 .. Len(buffer) - (n + 1) + 1
        BY <3>4
      <4>2. buffer'[k] = buffer[(n + 1) + k - 1]
        BY <3>3, <4>1
      <4> QED
        BY <3>4, <4>1, <4>2, ZenonT(30)
    <3>7. Len(buffer') = Len(buffer) - n
      BY <2>3, <3>3
    <3> QED
      BY <3>3, <3>5, <3>6, <3>7
  <2>6. /\ Before \in 0 .. Len(copied) /\ Earlier(copied, source, Before)
        /\ Present(copied, source, Before) /\ Follows(buffer, source, Len(copied) - Before)
    BY <1>1, <2>2 DEF Progress, Copying
  <2> HIDE DEF more
  <2>7. Follows(more, source, Len(copied) - Before)
    <3>1. ASSUME NEW k \in 1 .. Len(more) PROVE more[k] = <<source, (Len(copied) - Before) + k>>
      <4>1. k \in 1 .. n /\ k \in 1 .. Len(buffer)
        BY <1>1, <2>3, <2>4
      <4> QED
        BY <2>4, <2>6, <4>1, ZenonT(30) DEF Follows
    <3> QED
      BY <3>1 DEF Follows
  <2>8. copied' = copied \o more
    BY <2>1 DEF more
  <2>9. /\ copied' \in Seq(Nat \X Nat) /\ Len(copied') = Len(copied) + n
        /\ Earlier(copied', source, Before) /\ Present(copied', source, Before) /\ Copy!InOrder'
    BY <1>1, <2>4, <2>6, <2>7, <2>8, OutputGrows, ZenonT(30)
  <2>10. Before' = Before
    BY <1>1, <2>2, <2>3, <2>5, <2>9 DEF Before
  <2>11. Before \in Nat /\ Before \in 0 .. Len(copied')
    BY <1>1, <2>3, <2>6, <2>9, SMTT(30)
  <2>12. Follows(buffer', source, Len(copied') - Before)
    <3>1. ASSUME NEW k \in 1 .. Len(buffer')
          PROVE  buffer'[k] = <<source, (Len(copied') - Before) + k>>
      <4>1. /\ k \in 1 .. Len(buffer) - n /\ n + k \in 1 .. Len(buffer)
            /\ (Len(copied) - Before) + (n + k) = (Len(copied') - Before) + k
        BY <1>1, <2>3, <2>5, <2>9, <2>11
      <4>2. buffer'[k] = buffer[n + k]
        BY <2>5, <4>1
      <4>3. buffer[n + k] = <<source, (Len(copied) - Before) + (n + k)>>
        BY <2>6, <4>1 DEF Follows
      <4> QED
        BY <4>1, <4>2, <4>3
    <3> QED
      BY <3>1 DEF Follows
  <2>13. CopyTypes'
    BY <1>1, <2>1, <2>2, <2>5, <2>9, ZenonT(30) DEF CopyTypes, Copying
  <2>14. Progress'
    BY <2>1, <2>2, <2>5, <2>9, <2>10, <2>11, <2>12, ZenonT(30) DEF Progress, Copying
  <2> QED
    BY <2>9, <2>13, <2>14 DEF CopyInv
<1>7. CASE Copy!ReadNothing
  BY <1>1, <1>2, <1>7 DEF Copy!ReadNothing, Copying, Progress
<1>8. CASE Copy!Fstat
  <2>1. /\ copy_pc = "fstat" /\ copy_pc' = "sendfile" /\ left' = lengths[source] /\ st_size' = left'
        /\ UNCHANGED <<copier, lengths, source, offset, buffer, copied>>
    BY <1>8 DEF Copy!Fstat
  <2>2. buffer = <<>> /\ offset = 0 /\ copier = "fast" /\ lengths[source] \in Nat
    BY <1>1, <2>1 DEF Progress, CopyTypes
  <2> QED
    BY <1>2, <2>1, <2>2 DEF Copying
<1>9. CASE Copy!SendSome
  <2>1. PICK n \in 1 .. Copy!Smaller(left, Copy!Available) :
          copied' = copied \o Copy!Bytes(n) /\ offset' = offset + n /\ left' = left - n
    BY <1>9, ZenonT(30) DEF Copy!SendSome
  <2>2. copy_pc = "sendfile" /\ UNCHANGED <<copier, lengths, source, buffer, st_size, copy_pc>>
    BY <1>9 DEF Copy!SendSome
  <2>3. n \in Nat /\ n <= left
    BY <1>1, <2>1 DEF Copy!Smaller, Copy!Available
  <2>4. /\ Copy!Bytes(n) \in Seq(Nat \X Nat) /\ Len(Copy!Bytes(n)) = n
        /\ Follows(Copy!Bytes(n), source, offset)
    BY <1>1, <2>3, BytesFollow
  <2>5. /\ buffer = <<>> /\ Before \in 0 .. Len(copied) /\ Earlier(copied, source, Before)
        /\ Present(copied, source, Before) /\ left = st_size - offset
    BY <1>1, <2>2 DEF Progress, Copying
  <2>6. Len(copied) - Before = offset
    BY <1>1, <2>5 DEF Before
  <2>7. /\ copied' \in Seq(Nat \X Nat) /\ Len(copied') = Len(copied) + n
        /\ Earlier(copied', source, Before) /\ Present(copied', source, Before) /\ Copy!InOrder'
    BY <1>1, <2>1, <2>4, <2>5, <2>6, OutputGrows, ZenonT(30)
  <2>8. Before' = Before /\ Before \in 0 .. Len(copied') /\ left' \in Nat /\ left' = st_size - offset'
    BY <1>1, <2>1, <2>2, <2>3, <2>5, <2>7 DEF Before
  <2>9. Follows(buffer, source, Len(copied) - Before)'
    BY <2>2, <2>5 DEF Follows
  <2>10. CopyTypes'
    BY <1>1, <2>1, <2>2, <2>3, <2>7, <2>8, SMTT(30) DEF CopyTypes, Copying
  <2>11. Progress'
    BY <2>2, <2>5, <2>7, <2>8, <2>9, ZenonT(30) DEF Progress, Copying
  <2> QED
    BY <2>7, <2>10, <2>11 DEF CopyInv
<1>10. CASE Copy!SendNothing
  BY <1>1, <1>2, <1>10 DEF Copy!SendNothing, Copying, Progress
<1>11. CASE Copy!Close
  <2>1. copy_pc = "close" /\ UNCHANGED <<copier, lengths, offset, buffer, left, st_size, copied>>
    BY <1>11 DEF Copy!Close
  <2>2. CASE copy_pc' = "exit" /\ source' = source
    <3>1. CopyTypes' /\ Progress'
      BY <1>1, <2>1, <2>2, ZenonT(30) DEF CopyTypes, Progress, Copying
    <3> QED
      BY <2>1, <2>2, <3>1, SamePlace DEF CopyInv
  <2>3. CASE source < Len(lengths) /\ copy_pc' = "open" /\ source' = source + 1
    <3>1. CopyTypes'
      BY <1>1, <2>1, <2>3 DEF CopyTypes, Copying
    <3>2. /\ buffer = <<>> /\ Before \in 0 .. Len(copied) /\ Earlier(copied, source, Before)
          /\ Present(copied, source, Before)
      BY <1>1, <2>1 DEF Progress, Copying
    <3>3. ASSUME NEW k \in 1 .. Len(copied) PROVE copied[k][1] < source + 1
      <4>1. CASE k <= Before
        <5>1. k \in 1 .. Before /\ copied[k] \in Nat \X Nat
          BY <1>1, <3>2, <4>1
        <5>2. copied[k][1] < source /\ copied[k][1] \in Nat
          BY <3>2, <5>1 DEF Earlier
        <5> QED
          BY <1>1, <5>2, SMTT(30)
      <4>2. CASE k > Before
        <5>1. k \in Before + 1 .. Len(copied)
          BY <1>1, <3>2, <4>2
        <5>2. copied[k][1] = source
          BY <3>2, <5>1 DEF Present
        <5> QED
          BY <1>1, <5>2
      <4>3. k <= Before \/ k > Before
        BY <1>1, <3>2
      <4> QED
        BY <4>1, <4>2, <4>3
    <3>4. Earlier(copied, source, Len(copied))'
      BY <2>1, <2>3, <3>3 DEF Earlier
    <3>5. Progress'
      BY <2>1, <2>3, <3>2, <3>4 DEF Progress, Copying
    <3>6. Copy!InOrder'
      BY <1>1, <2>1, ZenonT(30) DEF Copy!InOrder
    <3> QED
      BY <3>1, <3>5, <3>6 DEF CopyInv
  <2> QED
    BY <1>11, <2>2, <2>3 DEF Copy!Close
<1>12. CASE Copy!Change \/ UNCHANGED Copy!vars
  <2>1. UNCHANGED <<copier, source, offset, buffer, left, st_size, copied, copy_pc>>
    BY <1>12 DEF Copy!Change, Copy!vars
  <2>2. lengths' \in Seq(Nat) /\ Len(lengths') = Len(lengths)
    <3>1. CASE lengths' = lengths
      BY <1>1, <3>1
    <3>2. ASSUME NEW k \in DOMAIN lengths, NEW n \in 0 .. MaxLength,
                 lengths' = [lengths EXCEPT ![k] = n]
          PROVE  lengths' \in Seq(Nat) /\ Len(lengths') = Len(lengths)
      BY <1>1, <3>2
    <3> QED
      BY <1>12, <3>1, <3>2 DEF Copy!Change, Copy!vars
  <2>3. CopyTypes'
    BY <1>1, <2>1, <2>2 DEF CopyTypes
  <2>4. Progress'
    BY <1>1, <2>1, SamePlace DEF Progress
  <2> QED
    BY <2>1, <2>3, <2>4, SamePlace DEF CopyInv
<1> QED
  BY <1>3, <1>4, <1>5, <1>6, <1>7, <1>8, <1>9, <1>10, <1>11, <1>12, ZenonT(30) DEF Copy!Next

\* When the program takes a file for finished it has copied as much as the property says.
LEMMA CopyCloses ==
  ASSUME CopyInv, [Copy!Next]_Copy!vars, copy_pc # "close", copy_pc' = "close"
  PROVE  Copy!Copied >= (IF copier = "fast" THEN Copy!Smaller(st_size, lengths[source])
                                            ELSE lengths[source])
<1>1. /\ offset \in Nat /\ st_size \in Nat /\ left \in Nat /\ lengths[source] \in Nat
      /\ CopyTypes /\ Progress
  BY SMTT(30) DEF CopyInv, CopyTypes
<1>2. \/ Copy!ReadNothing \/ Copy!SendNothing
  BY DEF Copy!Next, Copy!vars, Copy!Fails, Copy!Open, Copy!ReadSome, Copy!Write, Copy!Fstat,
         Copy!SendSome, Copy!Close, Copy!Change
<1>3. buffer = <<>> /\ copy_pc \in {"read", "sendfile"}
  BY <1>1, <1>2 DEF Copy!ReadNothing, Copy!SendNothing, Progress
<1>4. Copy!Copied = offset
  BY <1>1, <1>3, CopiedIsOffset DEF Copying
<1>5. CASE Copy!ReadNothing
  <2>1. copier # "fast" /\ offset >= lengths[source]
    BY <1>1, <1>5 DEF Copy!ReadNothing, Copy!Available, CopyTypes
  <2> QED
    BY <1>4, <2>1
<1>6. CASE Copy!SendNothing
  <2>1. copier = "fast" /\ (offset = st_size \/ offset >= lengths[source])
    BY <1>1, <1>6 DEF Copy!SendNothing, Copy!Available, CopyTypes, Progress
  <2> QED
    BY <1>1, <1>4, <2>1 DEF Copy!Smaller
<1> QED
  BY <1>2, <1>5, <1>6

\* For any number of files of any lengths, a buffer of any size and any splitting of the
\* calls: the output is the files' bytes in their order, none left out and none twice, and
\* a file is taken for finished only when all it has at that moment is out, or for fast.c
\* all it still has of what fstat saw (copy_fd, write_to_stdout).
THEOREM BytesComeOut == Copy!Spec => CopiesFaithfully
<1>1. Copy!Init => CopyInv
  <2> SUFFICES ASSUME Copy!Init PROVE CopyInv
    OBVIOUS
  <2>1. PICK n \in 1 .. MaxFiles : lengths \in [1 .. n -> 0 .. MaxLength]
    BY DEF Copy!Init
  <2>2. lengths \in Seq(Nat) /\ 1 \in 1 .. Len(lengths)
    BY <2>1
  <2>3. <<>> \in Seq(Nat \X Nat)
    OBVIOUS
  <2>4. CopyTypes
    BY <2>2, <2>3 DEF Copy!Init, CopyTypes, Copying
  <2>5. Progress /\ Copy!InOrder
    BY <2>3 DEF Copy!Init, Progress, Copying, Earlier, Copy!InOrder
  <2> QED
    BY <2>4, <2>5 DEF CopyInv
<1>2. CopyInv /\ [Copy!Next]_Copy!vars =>
        [/\ Copy!InOrder'
         /\ (copy_pc # "close" /\ copy_pc' = "close")
               => Copy!Copied >= (IF copier = "fast" THEN Copy!Smaller(st_size, lengths[source])
                                                     ELSE lengths[source])]_Copy!vars
  BY CopyStep, CopyCloses DEF CopyInv
<1> QED
  BY <1>1, <1>2, CopyStep, PTL DEF Copy!Spec, CopiesFaithfully, Copy!CopiesFaithfully

-----------------------------------------------------------------------------
(* child, dup and pipe *)

PipeTypes ==
    /\ ends_pc \in [{"writer", "reader"} ->
                      {"main", "none", "close", "dup2", "exec", "run", "close_end", "wait", "exit"}]
    /\ ends \in [{"writer", "reader"} ->
                      SUBSET {"pipefd[0]", "pipefd[1]", "stdin", "stdout"}]
    /\ bytes \in Seq(Nat) /\ got \in Seq(Nat) /\ writes \in Nat /\ eof \in BOOLEAN

\* What was read and what is in the pipe are the bytes written, in their order.
InOrder ==
    /\ Len(got) + Len(bytes) = writes
    /\ \A n \in 1 .. Len(got) : got[n] = n
    /\ \A n \in 1 .. Len(bytes) : bytes[n] = Len(got) + n

\* The writer has its end until it has written the last byte; there is a second process
\* from fork on; and the end of the file is the end for good.
PipeInv ==
    /\ PipeTypes /\ InOrder
    /\ ends_pc["writer"] \in {"close", "dup2", "exec", "run"} => "pipefd[1]" \in ends["writer"]
    /\ ends_pc["writer"] \in {"main", "none"} <=> ends_pc["reader"] \in {"main", "none"}
    /\ eof => /\ bytes = <<>> /\ ~Pipe!CanWrite
              /\ ends_pc["reader"] \notin {"main", "none"}

\* A step that leaves the bytes alone only closes ends, or gives the writer one more
\* while it has its own.
LEMMA PipeQuiet ==
    ASSUME PipeInv, PipeTypes', UNCHANGED <<bytes, writes, got, eof>>,
           ends_pc'["writer"] \in {"close", "dup2", "exec", "run"} =>
               "pipefd[1]" \in ends'["writer"],
           ends_pc'["writer"] \in {"main", "none"} <=> ends_pc'["reader"] \in {"main", "none"},
           eof => ends_pc'["reader"] \notin {"main", "none"},
           eof => \A p \in {"writer", "reader"} :
                     ends'[p] \cap {"pipefd[1]", "stdout"} \subseteq ends[p]
    PROVE  PipeInv'
BY DEF PipeInv, InOrder, Pipe!CanWrite, Pipe!Process

\* No step of either process breaks the invariant.
LEMMA PipeStep == PipeInv /\ [Pipe!Next]_Pipe!vars => PipeInv'
<1> SUFFICES ASSUME PipeInv, [Pipe!Next]_Pipe!vars PROVE PipeInv'
  OBVIOUS
<1> USE DEF Pipe!Process
<1>1. CASE Pipe!SplitFails \/ Pipe!MainFails
  BY <1>1, PipeQuiet, ZenonT(30) DEF PipeInv, PipeTypes, Pipe!SplitFails, Pipe!MainFails
<1>2. CASE Pipe!Fork
  <2>1. ~eof
    BY <1>2, SMTT(30) DEF PipeInv, Pipe!Fork, Pipe!Parent
  <2> QED
    BY <1>2, <2>1, PipeQuiet, ZenonT(30) DEF PipeInv, PipeTypes, Pipe!Fork
<1>3. CASE Pipe!Wait
  BY <1>3, PipeQuiet, ZenonT(30) DEF PipeInv, PipeTypes, Pipe!Wait, Pipe!Exit, Pipe!Goto,
     Pipe!Parent
<1>4. ASSUME NEW p \in {"writer", "reader"}, Pipe!CloseOther(p) PROVE PipeInv'
  BY <1>4, PipeQuiet, ZenonT(30) DEF PipeInv, PipeTypes, Pipe!CloseOther, Pipe!Goto
<1>5. ASSUME NEW p \in {"writer", "reader"}, Pipe!Dup2(p) PROVE PipeInv'
  BY <1>5, PipeQuiet, ZenonT(30) DEF PipeInv, PipeTypes, Pipe!Dup2, Pipe!Goto, Pipe!Stream,
     Pipe!CanWrite
<1>6. ASSUME NEW p \in {"writer", "reader"}, Pipe!Exec(p) PROVE PipeInv'
  BY <1>6, PipeQuiet, ZenonT(30) DEF PipeInv, PipeTypes, Pipe!Exec, Pipe!Goto
<1>7. ASSUME NEW p \in {"writer", "reader"}, Pipe!Err(p) \/ Pipe!ProgramEnds(p) PROVE PipeInv'
  BY <1>7, PipeQuiet, ZenonT(30) DEF PipeInv, PipeTypes, Pipe!Err, Pipe!ProgramEnds, Pipe!Exit,
     Pipe!Goto
<1>8. ASSUME NEW p \in {"writer", "reader"}, Pipe!CloseEnd(p) PROVE PipeInv'
  BY <1>8, PipeQuiet, ZenonT(30) DEF PipeInv, PipeTypes, Pipe!CloseEnd, Pipe!Goto
<1>9. CASE Pipe!Write
  <2>1. ends_pc["writer"] = "run" /\ ~eof
    BY <1>9 DEF Pipe!Write, PipeInv, Pipe!CanWrite
  <2>2. CASE Pipe!CanRead
    <3>1. /\ writes' = writes + 1 /\ bytes' = Append(bytes, writes + 1)
          /\ ends_pc' \in {ends_pc, [ends_pc EXCEPT !["writer"] = "close_end"]}
          /\ UNCHANGED <<ends, got, eof>>
      BY <1>9, <2>2 DEF Pipe!Write, Pipe!Goto
    <3>2. PipeTypes'
      BY <3>1 DEF PipeInv, PipeTypes
    <3>3. InOrder'
      BY <3>1, SMTT(30) DEF PipeInv, PipeTypes, InOrder
    <3> QED
      BY <2>1, <3>1, <3>2, <3>3 DEF PipeInv, PipeTypes
  <2>3. CASE ~Pipe!CanRead
    BY <1>9, <2>3, PipeQuiet, ZenonT(30) DEF PipeInv, PipeTypes, Pipe!Write, Pipe!Exit, Pipe!Goto
  <2> QED
    BY <2>2, <2>3, SMTT(30)
<1>10. CASE Pipe!Read
  <2>1. ends_pc["reader"] = "run" /\ ~eof
    BY <1>10, SMTT(30) DEF Pipe!Read
  <2>2. CASE bytes # <<>>
    <3>1. /\ got' = Append(got, Head(bytes)) /\ bytes' = Tail(bytes)
          /\ UNCHANGED <<ends_pc, ends, writes, eof>>
      BY <1>10, <2>2 DEF Pipe!Read
    <3>2. Len(bytes) > 0 /\ Head(bytes) = bytes[1] /\ Head(bytes) \in Nat
      BY <2>2 DEF PipeInv, PipeTypes
    <3>3. PipeTypes'
      BY <3>1, <3>2 DEF PipeInv, PipeTypes
    <3>4. InOrder'
      <4>1. Len(got') = Len(got) + 1 /\ Len(bytes') = Len(bytes) - 1
        BY <3>1, <3>2 DEF PipeInv, PipeTypes
      <4>2. \A n \in 1 .. Len(got) + 1 : got'[n] = IF n = Len(got) + 1 THEN bytes[1] ELSE got[n]
        BY <3>1, <3>2 DEF PipeInv, PipeTypes
      <4>3. \A n \in 1 .. Len(bytes) - 1 : bytes'[n] = bytes[n + 1]
        BY <3>1, <3>2 DEF PipeInv, PipeTypes
      <4>4. Len(got) \in Nat /\ Len(bytes) \in Nat /\ InOrder
        BY DEF PipeInv, PipeTypes
      <4>5. bytes[1] = Len(got) + 1
        BY <3>2, <4>4 DEF InOrder
      <4>6. \A n \in 1 .. Len(got') : got'[n] = n
        BY <4>1, <4>2, <4>4, <4>5 DEF InOrder
      <4>7. \A n \in 1 .. Len(bytes') : bytes'[n] = Len(got') + n
        <5> TAKE n \in 1 .. Len(bytes')
        <5>1. n \in 1 .. Len(bytes) - 1 /\ n + 1 \in 1 .. Len(bytes)
          BY <3>2, <4>1, <4>4
        <5>2. bytes'[n] = Len(got) + (n + 1)
          BY <4>3, <4>4, <5>1 DEF InOrder
        <5> QED
          BY <4>1, <4>4, <5>1, <5>2
      <4>8. Len(got') + Len(bytes') = writes'
        <5>1. writes' = writes /\ Len(got) + Len(bytes) = writes
          BY <3>1, <4>4 DEF InOrder
        <5>2. (Len(got) + 1) + (Len(bytes) - 1) = Len(got) + Len(bytes)
          BY <4>4
        <5> QED
          BY <4>1, <5>1, <5>2
      <4> QED
        BY <4>6, <4>7, <4>8, Zenon DEF InOrder
    <3> QED
      BY <2>1, <3>1, <3>3, <3>4, ZenonT(30) DEF PipeInv
  <2>3. CASE bytes = <<>>
    <3>1. /\ eof' = TRUE /\ ~Pipe!CanWrite /\ UNCHANGED <<got, bytes, ends, writes>>
          /\ ends_pc' \in {ends_pc, [ends_pc EXCEPT !["reader"] = "close_end"]}
      BY <1>10, <2>3, ZenonT(30) DEF Pipe!Read, Pipe!Goto
    <3> QED
      BY <2>1, <2>3, <3>1 DEF PipeInv, PipeTypes, InOrder, Pipe!CanWrite
  <2> QED
    BY <2>2, <2>3
<1>11. CASE UNCHANGED Pipe!vars
  BY <1>11 DEF Pipe!vars, PipeInv, PipeTypes, InOrder, Pipe!CanWrite
<1> QED
  <2>1. ASSUME NEW p \in {"writer", "reader"}, Pipe!Runs(p) PROVE PipeInv'
    BY <1>1, <1>2, <1>3, <1>4, <1>5, <1>6, <1>7, <1>8, <1>9, <1>10, <2>1, ZenonT(30) DEF Pipe!Runs
  <2> QED
    BY <1>11, <2>1 DEF Pipe!Next

\* For any pipe and any number of bytes: in child.c, dup.c and pipe.c whoever reads 0 has
\* received every byte that was written, in order.
THEOREM PipeAllReceived == Pipe!Spec => []Pipe!AllReceived
<1>1. Pipe!Init => PipeInv
  <2> SUFFICES ASSUME Pipe!Init PROVE PipeInv
    OBVIOUS
  <2>1. /\ ends_pc \in [{"writer", "reader"} -> {"main", "none"}]
        /\ ends = [p \in {"writer", "reader"} |-> {}]
        /\ bytes = <<>> /\ writes = 0 /\ got = <<>> /\ eof = FALSE
    BY DEF Pipe!Init, Pipe!Process
  <2>2. InOrder /\ bytes \in Seq(Nat) /\ got \in Seq(Nat)
    BY <2>1 DEF InOrder
  <2>3. PipeTypes
    BY <2>1, <2>2, ZenonT(30) DEF PipeTypes
  <2> QED
    BY <2>1, <2>2, <2>3 DEF PipeInv
<1>2. PipeInv /\ [Pipe!Next]_Pipe!vars => PipeInv'
  BY PipeStep
<1>3. PipeInv => Pipe!AllReceived
  <2> SUFFICES ASSUME PipeInv, eof PROVE got = [n \in 1 .. writes |-> n]
    BY DEF Pipe!AllReceived
  <2>1. got \in Seq(Nat) /\ Len(got) = writes /\ \A n \in 1 .. writes : got[n] = n
    BY DEF PipeInv, PipeTypes, InOrder
  <2> QED
    BY <2>1
<1> QED
  BY <1>1, <1>2, <1>3, PTL DEF Pipe!Spec
=============================================================================
