------------------------------- MODULE Guess -------------------------------
(***************************************************************************)
(* hw02: the guessing game.  main loads a strategy library for every       *)
(* argument, initialises the strategies, lets them guess in turns and      *)
(* cleans up.  Every call that can fail may fail.                          *)
(***************************************************************************)
EXTENDS Integers, Sequences, FiniteSets

CONSTANTS
    Min, Max,         \* main's min and max
    Limit,            \* the 100 of gameloop
    MaxStrategies,    \* bound: arguments
    MaxElapsed        \* bound: seconds the game takes

ASSUME GuessAssumption ==
    /\ Min \in Nat /\ Max \in Nat /\ Min < Max
    /\ Limit \in Nat \ {0}
    /\ MaxStrategies \in Nat /\ MaxElapsed \in Nat

Libraries == {"binary", "linear", "oracle"}

VARIABLES
    args,                  \* argv[1..]: the library each strategy comes from
    pc, i,                 \* where main is, and its loop variable
    arrays,                \* the arrays of struct guess_game that are not NULL
    handles, functions,    \* the indices whose entry is not NULL
    strategies,            \* the data of the strategies initialised so far
    unreachable,           \* strategy_impls nobody has a pointer to
    number,                \* number_to_guess
    current_guess, rotating_counter,
    elapsed                \* time(NULL), in seconds since main's srand

resources == <<arrays, handles, functions, unreachable>>
game == <<number, current_guess, rotating_counter, elapsed>>
vars == <<args, pc, i, resources, strategies, game>>

Indices == 1 .. Len(args)

\* argc < 2 is refused before anything happens.
Init ==
    /\ \E n \in 1 .. MaxStrategies : args \in [1 .. n -> Libraries]
    /\ pc = "functions" /\ i = 1
    /\ arrays = {} /\ handles = {} /\ functions = {} /\ unreachable = 0
    /\ strategies = <<>>
    /\ number = Min /\ current_guess = 0 /\ rotating_counter = 0 /\ elapsed = 0

-----------------------------------------------------------------------------
(* Setting up and cleaning up *)

\* Variant: a handle is closed only if its functions were found.
CleanupLoaded(loaded) ==
    /\ pc' = IF {"functions", "strategies"} \subseteq arrays /\ functions # Indices
             THEN "crashed" ELSE "exit"
    /\ arrays' = IF "functions" \in arrays THEN {} ELSE arrays \ {"handles"}
    /\ functions' = {}
    /\ handles' = loaded \ functions
    /\ strategies' = <<>>

\* destroy is called through functions[i] for every index, whether or not that
\* strategy was initialised, but only once strategies has been allocated.  The
\* handles up to the first NULL are closed.
cleanup(loaded) ==
    /\ pc' = IF {"functions", "strategies"} \subseteq arrays /\ functions # Indices
             THEN "crashed" ELSE "exit"
    /\ arrays' = IF "functions" \in arrays THEN {} ELSE arrays \ {"handles"}
    /\ functions' = {}
    /\ handles' = {k \in loaded : \E j \in 1 .. k : j \notin loaded}
    /\ strategies' = <<>>

CallocFunctions ==
    /\ pc = "functions"
    /\ \/ arrays' = {"functions"} /\ pc' = "handles"
       \/ arrays' = arrays /\ pc' = "exit"
    /\ UNCHANGED <<args, i, handles, functions, unreachable, strategies, game>>

CallocHandles ==
    /\ pc = "handles"
    /\ \/ /\ arrays' = arrays \cup {"handles"} /\ pc' = "load"
          /\ UNCHANGED <<handles, functions, strategies>>
       \/ cleanup(handles)
    /\ UNCHANGED <<args, i, unreachable, game>>

\* An iteration of init_libraries, for a name that fits into string_mem.  dlopen
\* fails, malloc fails, or a symbol is missing, in which case nobody frees the
\* strategy_impl just allocated.
init_libraries ==
    /\ pc = "load"
    /\ \/ /\ cleanup(handles)
          /\ UNCHANGED <<i, unreachable>>
       \/ /\ cleanup(handles \cup {i})
          /\ unreachable' \in {unreachable, unreachable + 1}
          /\ UNCHANGED i
       \/ /\ handles' = handles \cup {i}
          /\ functions' = functions \cup {i}
          /\ IF i < Len(args)
             THEN i' = i + 1 /\ pc' = pc
             ELSE i' = 1 /\ pc' = "strategies"
          /\ UNCHANGED <<arrays, unreachable, strategies>>
    /\ UNCHANGED <<args, game>>

CallocStrategies ==
    /\ pc = "strategies"
    /\ \/ /\ arrays' = arrays \cup {"strategies"} /\ pc' = "init"
          /\ UNCHANGED <<handles, functions, strategies>>
       \/ cleanup(handles)
    /\ UNCHANGED <<args, i, unreachable, game>>

-----------------------------------------------------------------------------
(* The strategies.  Each library has a struct guess of its own. *)

init(library) ==
    IF library = "binary" THEN [min |-> Min, max |-> Max]
    ELSE IF library = "linear" THEN [min |-> Min, max |-> Max, state |-> FALSE]
    ELSE [min |-> Min, max |-> Max, tries |-> 0]

Middle(self) == (self.min + self.max) \div 2

binary_guess(self) == {Middle(self)}

\* Variant: the middle is left out on both sides, although max is exclusive.
BinaryNotifyBeyond(self, sign) ==
    IF sign = 1 THEN [min |-> Middle(self) + 1, max |-> self.max]
                ELSE [min |-> self.min, max |-> Middle(self) - 1]
binary_notify(self, sign) ==
    IF sign = 1 THEN [min |-> Middle(self), max |-> self.max]
                ELSE [min |-> self.min, max |-> Middle(self)]

linear_guess(self) == {IF self.state THEN self.min ELSE self.max}

\* Variant: min never moves.
LinearNotifyMax(self) ==
    IF self.state THEN [min |-> self.min, max |-> self.max, state |-> FALSE]
                  ELSE [min |-> self.min, max |-> self.max - 1, state |-> TRUE]
linear_notify(self) ==
    IF self.state THEN [min |-> self.min + 1, max |-> self.max, state |-> FALSE]
                  ELSE [min |-> self.min, max |-> self.max - 1, state |-> TRUE]

\* The oracle seeds rand as main did, as long as it has guessed at most once:
\* with the time of day less its tries.  If that is the second in which main
\* did it, the first random number is the one main has drawn.
oracle_guess(self, now) ==
    IF self.tries < 2 /\ now = self.tries THEN {number} ELSE self.min .. self.max - 1

oracle_notify(self) == [min |-> self.min, max |-> self.max, tries |-> self.tries + 1]

guess(library, self, now) ==
    IF library = "binary" THEN binary_guess(self)
    ELSE IF library = "linear" THEN linear_guess(self)
    ELSE oracle_guess(self, now)

notify(library, self, sign) ==
    IF library = "binary" THEN binary_notify(self, sign)
    ELSE IF library = "linear" THEN linear_notify(self)
    ELSE oracle_notify(self)

-----------------------------------------------------------------------------
(* main again *)

\* The last strategy's init is followed by the choice of the number, which is
\* less than max.
InitStrategy ==
    /\ pc = "init"
    /\ \/ /\ strategies' = Append(strategies, init(args[i]))
          /\ IF i < Len(args)
             THEN i' = i + 1 /\ UNCHANGED <<pc, number>>
             ELSE i' = 1 /\ pc' = "play" /\ number' \in Min .. Max - 1
          /\ UNCHANGED <<arrays, handles, functions>>
       \/ cleanup(handles) /\ UNCHANGED <<i, number>>
    /\ UNCHANGED <<args, unreachable, current_guess, rotating_counter, elapsed>>

\* An iteration of gameloop; only the strategy that guessed is notified.
gameloop ==
    /\ pc = "play"
    /\ elapsed' \in {elapsed, elapsed + 1} /\ elapsed' <= MaxElapsed
    /\ LET index == (rotating_counter % Len(args)) + 1 IN
       /\ current_guess' \in guess(args[index], strategies[index], elapsed')
       /\ strategies' =
            IF current_guess' = number THEN strategies
            ELSE [strategies EXCEPT ![index] =
                    notify(args[index], @, IF current_guess' < number THEN 1 ELSE -1)]
    /\ rotating_counter' = rotating_counter + 1
    /\ pc' = IF current_guess' # number /\ rotating_counter' < Limit THEN pc ELSE "over"
    /\ UNCHANGED <<args, i, resources, number>>

GameOver ==
    /\ pc = "over"
    /\ cleanup(handles)
    /\ UNCHANGED <<args, i, unreachable, game>>

Next ==
    \/ CallocFunctions \/ CallocHandles \/ init_libraries \/ CallocStrategies
    \/ InitStrategy \/ gameloop \/ GameOver

Spec == Init /\ [][Next]_vars

-----------------------------------------------------------------------------

\* Whatever the order of the strategies, the number is always within the bounds
\* that a binary or a linear strategy keeps.  A binary strategy's upper bound is
\* exclusive, or it would never guess it (notify).
NumberInside ==
    pc \in {"play", "over"} =>
        \A k \in Indices :
            /\ args[k] = "binary" => number \in strategies[k].min .. strategies[k].max - 1
            /\ args[k] = "linear" => number \in strategies[k].min .. strategies[k].max

\* The turns that strategy k has had.
Turns(k) == (rotating_counter + Len(args) - k) \div Len(args)

\* While the number is not found, a binary strategy has had no more turns than
\* halving the range takes, and the turns of a linear strategy have left out one
\* number at each end in turn, the excluded max first.  So a linear strategy
\* alone misses exactly the middle number, with a limit of max - min turns.
FoundInTime ==
    pc \in {"play", "over"} /\ (rotating_counter > 0 => current_guess # number) =>
        \A k \in Indices :
            /\ args[k] = "binary" /\ Turns(k) > 0 => 2 ^ (Turns(k) - 1) < Max - Min
            /\ args[k] = "linear" =>
                  number \in Min + (Turns(k) \div 2) .. Max - ((Turns(k) + 1) \div 2)

\* However the set-up fails, or when the game is over, cleanup never goes through
\* a NULL in functions, and everything is given back, except for the
\* strategy_impl of a library without one of the four symbols.
CleanupComplete ==
    /\ pc # "crashed"
    /\ pc = "exit" =>
          /\ arrays = {} /\ handles = {} /\ functions = {} /\ strategies = <<>>
          /\ unreachable <= IF rotating_counter > 0 THEN 0 ELSE 1
=============================================================================
