-------------------------------- MODULE Crc --------------------------------
(***************************************************************************)
(* hw01: crc.c, get_crc.c, and the programs crc32sum, which writes a bundle*)
(* of hashes, and crc32check, which verifies one.  A word is the set of its*)
(* bits that are 1.  Somebody may change a file, or spoil a line of the    *)
(* bundle, at any moment.                                                  *)
(***************************************************************************)
EXTENDS Naturals, Sequences, SequencesExt

CONSTANTS
    Arguments,     \* of crc32sum: file names and "-"
    Bytes,         \* what a file is made of
    BUFFER_SIZE,
    MaxLength,     \* bound: the length of a file
    MaxChanges     \* bound: changes

VARIABLES
    content,       \* of every file, and of the standard input
    missing,       \* the files that do not exist
    hash, data,    \* get_crc32: the context, and (for the properties) what was read
    bundle,        \* the lines crc32sum prints; each with the data it is about
    verdicts,      \* what crc32check says: line, verdict and data
    i, errors, stdin, unread, pc, status, changes

vars == <<content, missing, hash, data, bundle, verdicts, i, errors, stdin, unread, pc,
          status, changes>>

Files == ToSet(Arguments)
Contents == UNION {[1..n -> Bytes] : n \in 0..MaxLength}

-----------------------------------------------------------------------------
(* crc.c *)

Left(x, n) == {b + n : b \in {c \in x : c + n < 32}}
Right(x, n) == {b - n : b \in {c \in x : c >= n}}

\* The masks 0x55555555, 0x33333333, 0x0F0F0F0F and 0xFF00.
Mask(n) == {b \in 0..31 : b % (2 * n) < n}
Swap(x, n) == Left(x \cap Mask(n), n) \cup (Right(x, n) \cap Mask(n))

crc32_reverse(w) ==
    LET x == Swap(Swap(Swap(w, 1), 2), 4)
    IN  UNION {Left(x, 24), Left(x \cap 8..15, 8), Right(x, 8) \cap 8..15, Right(x, 24)}

crc32_init == 0..31

\* 0x4c11db7
Polynomial == {0, 1, 2, 4, 5, 7, 8, 10, 11, 12, 16, 22, 23, 26}

UpdateBit(s, j) ==
    [crc |-> IF 31 \in SymDiff(s.crc, s.byte) THEN SymDiff(Left(s.crc, 1), Polynomial)
                                              ELSE Left(s.crc, 1),
     byte |-> Left(s.byte, 1)]
UpdateByte(crc, byte) ==
    FoldLeft(UpdateBit, [crc |-> crc, byte |-> crc32_reverse(byte)], [j \in 1..8 |-> j]).crc
crc32_update(crc, mem) == FoldLeft(UpdateByte, crc, mem)

crc32_finalize(crc) == crc32_reverse(0..31 \ crc)

\* The definition of the CRC, for the properties.  The bits of the message, the lowest of
\* each byte first, are the coefficients of a polynomial, whose first 32 are inverted.
\* The hash is what is left of it after division, inverted, with x^31 as the lowest bit.
Message(bytes) ==
    SymDiff(LET n == 8 * Len(bytes)
            IN  UNION {{n + 31 - 8 * (k - 1) - b : b \in bytes[k]} : k \in DOMAIN bytes},
            8 * Len(bytes) .. 8 * Len(bytes) + 31)
Divide(p, k) == IF k \in p THEN SymDiff(p, {k} \cup {g + k - 32 : g \in Polynomial}) ELSE p
CRC(bytes) ==
    LET top == 8 * Len(bytes) + 31
    IN  {31 - b : b \in 0..31 \ FoldLeft(Divide, Message(bytes), [j \in 1..top - 31 |-> top + 1 - j])}

-----------------------------------------------------------------------------

Init ==
    /\ content \in [Files -> Contents] /\ missing \in SUBSET (Files \ {"-"})
    /\ hash = {} /\ data = <<>>
    /\ bundle = <<>> /\ verdicts = <<>>
    /\ i = 1 /\ errors = 0 /\ stdin = TRUE /\ unread = FALSE
    /\ pc = "sum" /\ status = "none" /\ changes = 0

ChangeFile(name, bytes) ==
    /\ changes < MaxChanges /\ status = "none" /\ content[name] # bytes
    /\ content' = [content EXCEPT ![name] = bytes]
    /\ changes' = changes + 1
    /\ UNCHANGED <<missing, hash, data, bundle, verdicts, i, errors, stdin, unread, pc, status>>

\* A file that is open can still be read.
RemoveFile(name) ==
    /\ changes < MaxChanges /\ status = "none" /\ name \notin missing \cup {"-"}
    /\ missing' = missing \cup {name}
    /\ changes' = changes + 1
    /\ UNCHANGED <<content, hash, data, bundle, verdicts, i, errors, stdin, unread, pc, status>>

\* A line that strtok or strtoull rejects.
SpoilLine(n) ==
    /\ changes < MaxChanges /\ pc = "check" /\ bundle[n].valid
    /\ bundle' = [bundle EXCEPT ![n].valid = FALSE]
    /\ changes' = changes + 1
    /\ UNCHANGED <<content, missing, hash, data, verdicts, i, errors, stdin, unread, pc, status>>

-----------------------------------------------------------------------------
(* get_crc32, called by main of crc32sum and by process_bundle *)

\* The name that is being read; "-" is the standard input to crc32sum only.
Name == IF pc \in {"sum", "sum_read"} THEN Arguments[i] ELSE bundle[i].name

\* The standard input has not been closed.
Readable == Name = "-" => stdin

Start(place) ==
    /\ pc' = place
    /\ hash' = crc32_init /\ data' = <<>>
    /\ UNCHANGED <<content, missing, bundle, verdicts, i, errors, stdin, unread, status, changes>>

\* Variant: the whole buffer is hashed after a short read.
ReadBuffer(n) ==
    /\ pc \in {"sum_read", "check_read"} /\ Readable /\ Len(data) + n <= Len(content[Name])
    /\ data' = SubSeq(content[Name], 1, Len(data) + n)
    /\ hash' = crc32_update(hash,
                 [k \in 1..BUFFER_SIZE |-> IF k <= n THEN content[Name][Len(data) + k] ELSE {}])
    /\ UNCHANGED <<content, missing, bundle, verdicts, i, errors, stdin, unread, pc, status, changes>>

\* read returns n bytes of what follows those that were read.
Read(n) ==
    /\ pc \in {"sum_read", "check_read"} /\ Readable /\ Len(data) + n <= Len(content[Name])
    /\ LET block == SubSeq(content[Name], Len(data) + 1, Len(data) + n)
       IN  data' = data \o block /\ hash' = crc32_update(hash, block)
    /\ UNCHANGED <<content, missing, bundle, verdicts, i, errors, stdin, unread, pc, status, changes>>

\* read returns 0, and get_crc32 TRUE.
AtEnd == Readable /\ Len(data) >= Len(content[Name])

-----------------------------------------------------------------------------
(* crc32sum *)

\* open fails: nothing is counted.
SumOpenFails ==
    /\ pc = "sum" /\ i <= Len(Arguments)
    /\ Name \in missing
    /\ i' = i + 1
    /\ UNCHANGED <<content, missing, hash, data, bundle, verdicts, errors, stdin, unread, pc, status, changes>>

SumOpen ==
    /\ pc = "sum" /\ i <= Len(Arguments)
    /\ Name \notin missing
    /\ Start("sum_read")

\* The line, and close, which may fail.
SumLine ==
    /\ pc = "sum_read" /\ AtEnd
    /\ bundle' = Append(bundle, [hash |-> crc32_finalize(hash), name |-> Name,
                                 valid |-> TRUE, data |-> data])
    /\ errors' \in errors .. errors + 1
    /\ stdin' = (stdin /\ Name # "-")
    /\ pc' = "sum" /\ i' = i + 1
    /\ UNCHANGED <<content, missing, hash, data, verdicts, unread, status, changes>>

\* read fails, as it does, and close too, when the standard input has been closed.
SumReadFails ==
    /\ pc = "sum_read"
    /\ errors' = errors + 2 \/ (Readable /\ errors' = errors + 1)
    /\ stdin' = (stdin /\ Name # "-")
    /\ pc' = "sum" /\ i' = i + 1
    /\ UNCHANGED <<content, missing, hash, data, bundle, verdicts, unread, status, changes>>

\* crc32sum returns EXIT_SUCCESS whatever errors is.  crc32check opens the bundle.
SumEnds ==
    /\ pc = "sum" /\ i > Len(Arguments)
    /\ pc' = "check" /\ i' = 1 /\ errors' = 0
    /\ UNCHANGED <<content, missing, hash, data, bundle, verdicts, stdin, unread, status, changes>>

-----------------------------------------------------------------------------
(* crc32check: main and process_bundle *)

BundleOpenFails ==
    /\ pc = "sum" /\ i > Len(Arguments)
    /\ pc' = "ended" /\ status' = "EXIT_FAILURE"
    /\ UNCHANGED <<content, missing, hash, data, bundle, verdicts, i, errors, stdin, unread, changes>>

Verdict(v) == verdicts' = Append(verdicts, [line |-> i, verdict |-> v, data |-> data])

\* "invalid format" or "invalid hash": the loop ends.
InvalidLine ==
    /\ pc = "check" /\ i <= Len(bundle) /\ ~bundle[i].valid
    /\ errors' = errors + 1
    /\ pc' = "close"
    /\ UNCHANGED <<content, missing, hash, data, bundle, verdicts, i, stdin, unread, status, changes>>

\* No file has the name "-".
CheckOpenFails ==
    /\ pc = "check" /\ i <= Len(bundle) /\ bundle[i].valid
    /\ Name \in missing \cup {"-"}
    /\ errors' = errors + 1
    /\ i' = i + 1
    /\ UNCHANGED <<content, missing, hash, data, bundle, verdicts, stdin, unread, pc, status, changes>>

CheckOpen ==
    /\ pc = "check" /\ i <= Len(bundle) /\ bundle[i].valid
    /\ Name \notin missing \cup {"-"}
    /\ Start("check_read")

\* get_crc32 fails, or OK, or FAILED; then the next line.
CheckLine ==
    /\ pc = "check_read"
    /\ \/ errors' = errors + 1 /\ UNCHANGED verdicts
       \/ /\ AtEnd /\ bundle[i].hash = crc32_finalize(hash)
          /\ Verdict("OK") /\ UNCHANGED errors
       \/ /\ AtEnd /\ bundle[i].hash # crc32_finalize(hash)
          /\ Verdict("FAILED") /\ errors' = errors + 1
    /\ pc' = "check" /\ i' = i + 1
    /\ UNCHANGED <<content, missing, hash, data, bundle, stdin, unread, status, changes>>

\* The end of the bundle.  When fdopen or getline fails it seems to be the end too.
BundleEnds ==
    /\ pc = "check"
    /\ \/ i > Len(bundle) /\ UNCHANGED unread
       \/ unread' = TRUE
    /\ pc' = "close"
    /\ UNCHANGED <<content, missing, hash, data, bundle, verdicts, i, errors, stdin, status, changes>>

\* main: close may fail.
CheckEnds ==
    /\ pc = "close"
    /\ status' \in (IF errors = 0 THEN {"EXIT_SUCCESS"} ELSE {}) \cup {"EXIT_FAILURE"}
    /\ pc' = "ended"
    /\ UNCHANGED <<content, missing, hash, data, bundle, verdicts, i, errors, stdin, unread, changes>>

Next ==
    \/ \E name \in Files, bytes \in Contents : ChangeFile(name, bytes)
    \/ \E name \in Files : RemoveFile(name)
    \/ \E n \in DOMAIN bundle : SpoilLine(n)
    \/ \E n \in 1..BUFFER_SIZE : Read(n)
    \/ SumOpenFails \/ SumOpen \/ SumLine \/ SumReadFails \/ SumEnds
    \/ BundleOpenFails \/ InvalidLine \/ CheckOpenFails \/ CheckOpen \/ CheckLine \/ BundleEnds \/ CheckEnds

Spec == Init /\ [][Next]_vars

-----------------------------------------------------------------------------
(* Properties *)

\* Every line has the CRC of the bytes that were read, however read split them; a file
\* is OK if and only if crc32check has read what crc32sum had, a changed byte or a changed
\* length makes it FAILED; and crc32check succeeds only if every line of the bundle is
\* OK, or if the bundle itself could not be read.
VerdictsTrue ==
    /\ \A n \in DOMAIN bundle : bundle[n].hash = CRC(bundle[n].data)
    /\ \A n \in DOMAIN verdicts :
         verdicts[n].verdict = "OK" <=> verdicts[n].data = bundle[verdicts[n].line].data
    /\ status = "EXIT_SUCCESS" /\ ~unread =>
         /\ \A n \in DOMAIN verdicts : verdicts[n].verdict = "OK"
         /\ Len(verdicts) = Len(bundle)
=============================================================================
