----------------------------- MODULE MCMemory -----------------------------
(***************************************************************************)
(* Libraries that manage memory and other resources, for TLC: queue_create *)
(* and queue_destroy of hw09, the list of ex09, the allocator of hw03, the *)
(* game of hw02 with the libraries it loads, id of hw05 and the hashes of  *)
(* hw01.  The one that library names is used; the others stay in an        *)
(* initial state.                                                          *)
(***************************************************************************)
EXTENDS Memory, Heap, Identity

CONSTANTS
    BUFFER_SIZE, MaxLength      \* of Crc

VARIABLES
    library,
    content, missing, hash, data, bundle, verdicts, line, failures, stdin, unread, crc_pc,
    status, crc_changes

crc == <<content, missing, hash, data, bundle, verdicts, line, failures, stdin, unread, crc_pc,
         status, crc_changes>>

Crc == INSTANCE Crc WITH
    Arguments <- <<"-", "file", "-">>, Bytes <- {{}, {0, 2, 5, 7}},
    i <- line, errors <- failures, pc <- crc_pc, changes <- crc_changes

MemoryInit ==
    /\ library \in {"lifetime", "list", "memgrind", "guess", "id", "crc"}
    /\ Lifetime!Init
    /\ List!Init
    /\ library # "list" => (\A n \in Nodes : link[n] = NONE) /\ \A m, n \in Nodes : value[m] = value[n]
    /\ Memgrind!Init
    /\ Init
    /\ library # "guess" => args = <<"binary">>
    /\ Id!Init
    /\ library = "id" => options.what = "all" \/ (known = Accounts /\ named = Gids)
    /\ library # "id" =>
         /\ options.what = "all" /\ mode = "user" /\ known = {} /\ named = {}
         /\ user.real = 0 /\ group.real = 0
    /\ Crc!Init
    /\ library # "crc" => missing = {} /\ \A f \in Crc!Files : content[f] = <<>>

\* What is not used does not change.
Frame ==
    /\ UNCHANGED library
    /\ library # "lifetime" => UNCHANGED lifetime
    /\ library # "list" => UNCHANGED list
    /\ library # "memgrind" => UNCHANGED memgrind
    /\ library # "guess" => UNCHANGED vars
    /\ library # "id" => UNCHANGED id
    /\ library # "crc" => UNCHANGED crc

MemoryNext ==
    \/ library = "lifetime" /\ Lifetime!Next /\ Frame
    \/ library = "list" /\ List!Next /\ Frame
    \/ library = "memgrind" /\ Memgrind!Next /\ Frame
    \/ library = "guess" /\ Next /\ Frame
    \/ library = "id" /\ Id!Next /\ Frame
    \/ library = "crc" /\ Crc!Next /\ Frame

MemorySpec == MemoryInit /\ [][MemoryNext]_<<library, lifetime, list, memgrind, vars, id, crc>>

-----------------------------------------------------------------------------

\* hw01: the hashes are CRCs, and crc32check says what is true of the files.
VerdictsTrue == Crc!VerdictsTrue
=============================================================================
