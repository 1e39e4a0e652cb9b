------------------------------- MODULE Ptgrep -------------------------------
(***************************************************************************)
(* ptgrep.c of hw08: one thread searches one file, and main puts their     *)
(* results together.  A line is the number of the positions in it at which *)
(* string_find finds the string.                                           *)
(***************************************************************************)
EXTENDS Integers, Sequences

CONSTANTS
    Searchers,      \* the threads, which are numbered from 1
    MaxLines,       \* bound: lines of a file
    MaxMatches      \* bound: matches in a line

Thread == 1..Searchers

VARIABLES
    tty,               \* isatty(STDOUT_FILENO)
    lines,             \* the files
    opened, found,     \* of struct thread_data
    line_num,          \* lines that a thread has finished
    seen,              \* matches that line_copy has passed in the line it is at
    pc,
    main, i,           \* main, and its loop variable
    all_opened, any_found, status

vars == <<tty, lines, opened, found, line_num, seen, pc, main, i, all_opened, any_found,
          status>>

Files == UNION {[1..n -> 0..MaxMatches] : n \in 0..MaxLines}

Init ==
    /\ tty \in BOOLEAN
    /\ lines \in [Thread -> Files]
    /\ opened = [t \in Thread |-> FALSE]
    /\ found = [t \in Thread |-> FALSE]
    /\ line_num = [t \in Thread |-> 0]
    /\ seen = [t \in Thread |-> 0]
    /\ pc = [t \in Thread |-> "none"]
    /\ main = "create" /\ i = 1
    /\ all_opened = TRUE /\ any_found = FALSE
    /\ status = "none"

Goto(t, place) == pc' = [pc EXCEPT ![t] = place]

-----------------------------------------------------------------------------
(* thread_run *)

\* fopen works or does not.
Open(t) ==
    /\ pc[t] = "start"
    /\ \/ opened' = [opened EXCEPT ![t] = TRUE] /\ Goto(t, "search")
       \/ opened' = opened /\ Goto(t, "end")
    /\ UNCHANGED <<tty, lines, found, line_num, seen, main, i, all_opened, any_found, status>>

\* What is left in the line the thread is at.
MoreMatches(t) ==
    line_num[t] < Len(lines[t]) /\ seen[t] < lines[t][line_num[t] + 1]

\* A match.  On a terminal line_copy goes on behind it; otherwise it stays.
Match(t) ==
    /\ pc[t] = "search" /\ MoreMatches(t)
    /\ found' = [found EXCEPT ![t] = TRUE]
    /\ seen' = IF tty THEN [seen EXCEPT ![t] = @ + 1] ELSE seen
    /\ UNCHANGED <<tty, lines, opened, line_num, pc, main, i, all_opened, any_found, status>>

NextLine(t) ==
    /\ pc[t] = "search" /\ line_num[t] < Len(lines[t]) /\ ~MoreMatches(t)
    /\ line_num' = [line_num EXCEPT ![t] = @ + 1]
    /\ seen' = [seen EXCEPT ![t] = 0]
    /\ UNCHANGED <<tty, lines, opened, found, pc, main, i, all_opened, any_found, status>>

EndOfFile(t) ==
    /\ pc[t] = "search" /\ line_num[t] = Len(lines[t])
    /\ Goto(t, "end")
    /\ UNCHANGED <<tty, lines, opened, found, line_num, seen, main, i, all_opened, any_found,
                   status>>

\* A process that exits takes its threads with it.
ThreadRuns(t) ==
    /\ main # "exit"
    /\ Open(t) \/ Match(t) \/ NextLine(t) \/ EndOfFile(t)

-----------------------------------------------------------------------------
(* main *)

Create ==
    /\ main = "create" /\ i <= Searchers
    /\ Goto(i, "start")
    /\ i' = i + 1
    /\ UNCHANGED <<tty, lines, opened, found, line_num, seen, main, all_opened, any_found,
                   status>>

CreateFails ==
    /\ main = "create" /\ i <= Searchers
    /\ main' = "exit" /\ status' = "EXIT_FAILURE"
    /\ UNCHANGED <<tty, lines, opened, found, line_num, seen, pc, i, all_opened, any_found>>

AllCreated ==
    /\ main = "create" /\ i > Searchers
    /\ main' = "join" /\ i' = 1
    /\ UNCHANGED <<tty, lines, opened, found, line_num, seen, pc, all_opened, any_found, status>>

\* Variant: the results are read before the thread is waited for.
JoinLate ==
    /\ main = "join" /\ i <= Searchers
    /\ all_opened' = (all_opened /\ opened[i])
    /\ any_found' = (any_found \/ found[i])
    /\ i' = i + 1
    /\ UNCHANGED <<tty, lines, opened, found, line_num, seen, pc, main, status>>

Join ==
    /\ main = "join" /\ i <= Searchers
    /\ pc[i] = "end"
    /\ all_opened' = (all_opened /\ opened[i])
    /\ any_found' = (any_found \/ found[i])
    /\ i' = i + 1
    /\ UNCHANGED <<tty, lines, opened, found, line_num, seen, pc, main, status>>

Return ==
    /\ main = "join" /\ i > Searchers
    /\ main' = "exit"
    /\ status' = IF all_opened /\ any_found THEN "EXIT_SUCCESS" ELSE "EXIT_FAILURE"
    /\ UNCHANGED <<tty, lines, opened, found, line_num, seen, pc, i, all_opened, any_found>>

MainRuns == Create \/ CreateFails \/ AllCreated \/ Join \/ Return

Next == MainRuns \/ \E t \in Thread : ThreadRuns(t)

Spec ==
    /\ Init /\ [][Next]_vars
    /\ WF_vars(MainRuns)
    /\ \A t \in Thread : WF_vars(ThreadRuns(t))

-----------------------------------------------------------------------------

Matches(t) == \E k \in DOMAIN lines[t] : lines[t][k] > 0

\* Unless a thread could not be created, the status says whether every file could be
\* opened and one of them has the string (thread_run, main).
StatusRight ==
    main = "exit" /\ i > Searchers =>
        (status = "EXIT_SUCCESS" <=>
            (\A t \in Thread : opened[t]) /\ \E t \in Thread : Matches(t))

\* On a terminal the program ends, whatever the files are, with the right status.  When
\* the output is not a terminal, a match is found again for ever.
EndsWithResult == tty ~> main = "exit" /\ StatusRight
=============================================================================
