---------------------------- MODULE MemoryProofs ----------------------------
(***************************************************************************)
(* Proofs about set-ups that may fail half-way: the game of hw02 with its  *)
(* libraries, for any range, any strategies and any limit, and             *)
(* queue_create and queue_destroy of hw09 (the instance Lifetime of        *)
(* Memory), for any threads and any number of keys.                        *)
(***************************************************************************)
EXTENDS Memory, FiniteSetTheorems, TLAPS

-----------------------------------------------------------------------------
(* The game *)

\* The struct guess of each library.
Binaries == [min : Int, max : Int]
Linears == [min : Int, max : Int, state : BOOLEAN]
Oracles == [min : Int, max : Int, tries : Nat]
Selves == Binaries \cup Linears \cup Oracles

OfLibrary(library, self) ==
    /\ library = "binary" => self \in Binaries
    /\ library = "linear" => self \in Linears
    /\ library = "oracle" => self \in Oracles

Inside(library, self, n) ==
    /\ library = "binary" => n \in self.min .. self.max - 1
    /\ library = "linear" => n \in self.min .. self.max

\* The strategies are initialised in the order of the arguments, and all of them
\* are when main plays; until then they are as init made them.
SetUp ==
    /\ args \in Seq(Libraries) /\ Len(args) \in Nat \ {0}
    /\ i \in 1 .. Len(args)
    /\ strategies \in Seq(Selves)
    /\ pc \in {"functions", "handles", "load", "strategies"} => strategies = <<>>
    /\ pc = "strategies" => i = 1
    /\ pc = "init" =>
          /\ Len(strategies) = i - 1
          /\ \A k \in 1 .. i - 1 : strategies[k] = init(args[k])
    /\ pc \in {"play", "over"} =>
          /\ Len(strategies) = Len(args)
          /\ \A k \in 1 .. Len(args) : OfLibrary(args[k], strategies[k])
    /\ number \in Min .. Max - 1 \/ pc \notin {"play", "over"}
    /\ rotating_counter \in Nat

GuessInv == SetUp /\ NumberInside

\* NumberInside, with Inside for what it says of a strategy.
LEMMA NumberInsideEach ==
  NumberInside <=>
    (pc \in {"play", "over"} =>
        \A k \in 1 .. Len(args) : Inside(args[k], strategies[k], number))
BY DEF NumberInside, Indices, Inside

\* No strategy exists in the initial state.
LEMMA GuessInitial == Init => GuessInv
<1> SUFFICES ASSUME Init PROVE GuessInv
  OBVIOUS
<1>1. PICK n \in 1 .. MaxStrategies : args \in [1 .. n -> Libraries]
  BY DEF Init
<1>2. args \in Seq(Libraries) /\ Len(args) = n /\ n \in Nat \ {0}
  BY <1>1, GuessAssumption
<1>3. <<>> \in Seq(Selves)
  OBVIOUS
<1>4. SetUp
  BY <1>2, <1>3 DEF Init, SetUp
<1> QED
  BY <1>4 DEF Init, GuessInv, NumberInside

\* What init makes has every number main may choose inside.
LEMMA InitInside ==
  ASSUME NEW library \in Libraries
  PROVE  /\ init(library) \in Selves
         /\ OfLibrary(library, init(library))
         /\ \A n \in Min .. Max - 1 : Inside(library, init(library), n)
<1>1. CASE library = "binary"
  BY <1>1, GuessAssumption DEF init, Selves, Binaries, OfLibrary, Inside
<1>2. CASE library = "linear"
  BY <1>2, GuessAssumption DEF init, Selves, Linears, OfLibrary, Inside
<1>3. CASE library = "oracle"
  BY <1>3, GuessAssumption DEF init, Selves, Oracles, OfLibrary, Inside
<1> QED
  BY <1>1, <1>2, <1>3 DEF Libraries

\* What a strategy learns about its own wrong guess keeps the number inside: the
\* binary one moves a bound to its guess, the linear one past it (notify).
LEMMA NotifyKeepsInside ==
  ASSUME NEW library \in Libraries, NEW self, OfLibrary(library, self),
         NEW n \in Int, Inside(library, self, n), NEW g, NEW now,
         g \in guess(library, self, now), g # n
  PROVE  LET told == notify(library, self, IF g < n THEN 1 ELSE -1) IN
         /\ told \in Selves
         /\ OfLibrary(library, told)
         /\ Inside(library, told, n)
<1>1. CASE library = "binary"
  <2>1. g = (self.min + self.max) \div 2 /\ self.min \in Int /\ self.max \in Int
    BY <1>1 DEF guess, binary_guess, Middle, OfLibrary, Binaries
  <2>2. g \in Int /\ n \in self.min .. self.max - 1
    BY <1>1, <2>1 DEF Inside
  <2>3. CASE g < n
    <3>1. notify(library, self, IF g < n THEN 1 ELSE -1) = [min |-> g, max |-> self.max]
      BY <1>1, <2>1, <2>3 DEF notify, binary_notify, Middle
    <3> QED
      BY <1>1, <2>1, <2>2, <2>3, <3>1 DEF OfLibrary, Inside, Selves, Binaries
  <2>4. CASE ~(g < n)
    <3>1. notify(library, self, IF g < n THEN 1 ELSE -1) = [min |-> self.min, max |-> g]
      BY <1>1, <2>1, <2>4 DEF notify, binary_notify, Middle
    <3> QED
      BY <1>1, <2>1, <2>2, <2>4, <3>1 DEF OfLibrary, Inside, Selves, Binaries
  <2> QED
    BY <2>3, <2>4
<1>2. CASE library = "linear"
  <2>1. /\ self.min \in Int /\ self.max \in Int /\ self.state \in BOOLEAN
        /\ n \in self.min .. self.max
        /\ g = IF self.state THEN self.min ELSE self.max
    BY <1>2 DEF guess, linear_guess, OfLibrary, Linears, Inside
  <2>2. CASE self.state
    <3>1. notify(library, self, IF g < n THEN 1 ELSE -1)
            = [min |-> self.min + 1, max |-> self.max, state |-> FALSE]
      BY <1>2, <2>2 DEF notify, linear_notify
    <3>2. [min |-> self.min + 1, max |-> self.max, state |-> FALSE] \in Linears
      BY <2>1 DEF Linears
    <3>3. g # n /\ Inside(library, [min |-> self.min + 1, max |-> self.max, state |-> FALSE], n)
      BY <1>2, <2>1, <2>2 DEF Inside
    <3> QED
      BY <1>2, <3>1, <3>2, <3>3 DEF OfLibrary, Selves
  <2>3. CASE ~self.state
    <3>1. notify(library, self, IF g < n THEN 1 ELSE -1)
            = [min |-> self.min, max |-> self.max - 1, state |-> TRUE]
      BY <1>2, <2>3 DEF notify, linear_notify
    <3>2. [min |-> self.min, max |-> self.max - 1, state |-> TRUE] \in Linears
      BY <2>1 DEF Linears
    <3>3. g # n /\ Inside(library, [min |-> self.min, max |-> self.max - 1, state |-> TRUE], n)
      BY <1>2, <2>1, <2>3 DEF Inside
    <3> QED
      BY <1>2, <3>1, <3>2, <3>3 DEF OfLibrary, Selves
  <2> QED
    BY <2>2, <2>3
<1>3. CASE library = "oracle"
  <2>1. self.min \in Int /\ self.max \in Int /\ self.tries \in Nat
    BY <1>3 DEF OfLibrary, Oracles
  <2>2. notify(library, self, IF g < n THEN 1 ELSE -1)
          = [min |-> self.min, max |-> self.max, tries |-> self.tries + 1]
    BY <1>3 DEF notify, oracle_notify
  <2> QED
    BY <1>3, <2>1, <2>2 DEF OfLibrary, Inside, Selves, Oracles
<1> QED
  BY <1>1, <1>2, <1>3 DEF Libraries

\* After cleanup main neither plays nor has strategies.
LEMMA CleanupKeeps ==
  ASSUME GuessInv, NEW loaded, cleanup(loaded), UNCHANGED <<args, i, rotating_counter>>
  PROVE  GuessInv'
<1>1. pc' = "crashed" \/ pc' = "exit"
  BY DEF cleanup
<1>2. strategies' = <<>> /\ <<>> \in Seq(Selves)
  BY DEF cleanup
<1>3. SetUp'
  BY <1>1, <1>2 DEF GuessInv, SetUp
<1> QED
  BY <1>1, <1>3 DEF GuessInv, NumberInside

\* Every step of main keeps the invariant.
LEMMA GuessStep == GuessInv /\ [Next]_vars => GuessInv'
<1> SUFFICES ASSUME GuessInv, [Next]_vars PROVE GuessInv'
  OBVIOUS
<1>1. CASE CallocFunctions
  BY <1>1 DEF GuessInv, CallocFunctions, SetUp, NumberInside, game
<1>2. CASE CallocHandles
  <2>1. CASE cleanup(handles)
    BY <1>2, <2>1, CleanupKeeps DEF CallocHandles, game
  <2>2. CASE pc' = "load" /\ UNCHANGED strategies
    BY <1>2, <2>2 DEF GuessInv, CallocHandles, SetUp, NumberInside, game
  <2> QED
    BY <1>2, <2>1, <2>2 DEF CallocHandles
<1>3. CASE init_libraries
  <2>1. ASSUME NEW loaded, cleanup(loaded), UNCHANGED i PROVE GuessInv'
    BY <1>3, <2>1, CleanupKeeps DEF init_libraries, game
  <2>2. CASE /\ IF i < Len(args)
                THEN i' = i + 1 /\ pc' = pc
                ELSE i' = 1 /\ pc' = "strategies"
             /\ UNCHANGED strategies
    BY <1>3, <2>2 DEF GuessInv, init_libraries, SetUp, NumberInside, game
  <2> QED
    BY <1>3, <2>1, <2>2 DEF init_libraries
<1>4. CASE CallocStrategies
  <2>1. CASE cleanup(handles)
    BY <1>4, <2>1, CleanupKeeps DEF CallocStrategies, game
  <2>2. CASE pc' = "init" /\ UNCHANGED strategies
    BY <1>4, <2>2 DEF GuessInv, CallocStrategies, SetUp, NumberInside, game
  <2> QED
    BY <1>4, <2>1, <2>2 DEF CallocStrategies
<1>5. CASE InitStrategy
  <2>1. CASE cleanup(handles) /\ UNCHANGED i
    BY <1>5, <2>1, CleanupKeeps DEF InitStrategy
  <2>2. CASE /\ strategies' = Append(strategies, init(args[i]))
             /\ IF i < Len(args)
                THEN i' = i + 1 /\ UNCHANGED <<pc, number>>
                ELSE i' = 1 /\ pc' = "play" /\ number' \in Min .. Max - 1
    <3>1. /\ args \in Seq(Libraries) /\ i \in 1 .. Len(args) /\ args' = args
          /\ strategies \in Seq(Selves) /\ Len(strategies) = i - 1
          /\ \A k \in 1 .. i - 1 : strategies[k] = init(args[k])
          /\ rotating_counter' = rotating_counter /\ rotating_counter \in Nat
          /\ pc = "init"
      BY <1>5 DEF GuessInv, InitStrategy, SetUp
    <3>2. args[i] \in Libraries /\ init(args[i]) \in Selves
      BY <3>1, InitInside
    <3>3. /\ strategies' \in Seq(Selves) /\ Len(strategies') = i
          /\ \A k \in 1 .. i : strategies'[k] = init(args[k])
      BY <2>2, <3>1, <3>2
    <3>4. CASE i < Len(args)
      BY <2>2, <3>1, <3>3, <3>4 DEF GuessInv, SetUp, NumberInside
    <3>5. CASE ~(i < Len(args))
      <4>1. i = Len(args) /\ i' = 1 /\ pc' = "play" /\ number' \in Min .. Max - 1
        BY <2>2, <3>1, <3>5
      <4>2. \A k \in 1 .. Len(args) :
               /\ OfLibrary(args[k], strategies'[k])
               /\ Inside(args[k], strategies'[k], number')
        BY <3>1, <3>3, <4>1, InitInside
      <4>3. SetUp'
        BY <3>1, <3>3, <4>1, <4>2 DEF SetUp
      <4>4. NumberInside'
        BY <3>1, <4>2 DEF NumberInside, Indices, Inside
      <4> QED
        BY <4>3, <4>4 DEF GuessInv
    <3> QED
      BY <3>4, <3>5
  <2> QED
    BY <1>5, <2>1, <2>2 DEF InitStrategy
<1>6. CASE gameloop
  <2> DEFINE index == (rotating_counter % Len(args)) + 1
             told == notify(args[index], strategies[index],
                            IF current_guess' < number THEN 1 ELSE -1)
  <2>1. /\ args \in Seq(Libraries) /\ Len(args) \in Nat \ {0}
        /\ strategies \in Seq(Selves) /\ Len(strategies) = Len(args)
        /\ \A k \in 1 .. Len(args) : OfLibrary(args[k], strategies[k])
        /\ number \in Min .. Max - 1 /\ rotating_counter \in Nat
        /\ i \in 1 .. Len(args)
    BY <1>6 DEF GuessInv, gameloop, SetUp
  <2>2. \A k \in 1 .. Len(args) : Inside(args[k], strategies[k], number)
    BY <1>6, NumberInsideEach DEF GuessInv, gameloop
  <2>3. /\ UNCHANGED <<args, i, number>> /\ rotating_counter' = rotating_counter + 1
        /\ pc' = "play" \/ pc' = "over"
    BY <1>6 DEF gameloop
  <2>4. /\ strategies' \in Seq(Selves) /\ Len(strategies') = Len(args)
        /\ \A k \in 1 .. Len(args) :
              /\ OfLibrary(args[k], strategies'[k])
              /\ Inside(args[k], strategies'[k], number)
    <3>1. CASE current_guess' = number
      BY <1>6, <2>1, <2>2, <3>1 DEF gameloop
    <3>2. CASE current_guess' # number
      <4>1. index \in 1 .. Len(args)
        BY <2>1
      <4>2. args[index] \in Libraries /\ number \in Int
        BY <2>1, <4>1, GuessAssumption
      <4>3. current_guess' \in guess(args[index], strategies[index], elapsed')
        BY <1>6 DEF gameloop
      <4>4. /\ told \in Selves
            /\ OfLibrary(args[index], told)
            /\ Inside(args[index], told, number)
        BY <2>1, <2>2, <3>2, <4>1, <4>2, <4>3, NotifyKeepsInside
      <4>5. strategies' = [strategies EXCEPT ![index] = told]
        BY <1>6, <3>2 DEF gameloop
      <4> HIDE DEF told, index
      <4> QED
        BY <2>1, <2>2, <4>1, <4>4, <4>5
    <3> QED
      BY <3>1, <3>2
  <2>5. SetUp'
    BY <2>1, <2>3, <2>4 DEF SetUp
  <2>6. NumberInside'
    BY <2>3, <2>4 DEF NumberInside, Indices, Inside
  <2> QED
    BY <2>5, <2>6 DEF GuessInv
<1>7. CASE GameOver
  BY <1>7, CleanupKeeps DEF GameOver, game
<1>8. CASE UNCHANGED vars
  BY <1>8, ZenonT(30) DEF GuessInv, vars, game, SetUp, NumberInside, Indices
<1> QED
  BY <1>1, <1>2, <1>3, <1>4, <1>5, <1>6, <1>7, <1>8 DEF Next

\* For any range, any strategies in any order and any limit, the number stays
\* within the bounds of every binary and linear strategy (gameloop, notify).
THEOREM NumberStaysInside == Spec => []NumberInside
<1>1. GuessInv => NumberInside
  BY DEF GuessInv
<1> QED
  BY <1>1, GuessInitial, GuessStep, PTL DEF Spec

-----------------------------------------------------------------------------
(* Cleaning up *)

\* Where main is says which arrays exist and which entries are not NULL: a library's
\* handle and its functions are stored in the same iteration, in the order of i.
Allocated ==
    /\ pc \in {"functions", "handles", "load", "strategies", "init", "play", "over", "exit"}
    /\ pc = "functions" => arrays = {}
    /\ pc = "handles" => arrays = {"functions"}
    /\ pc \in {"load", "strategies"} => arrays = {"functions", "handles"}
    /\ pc \in {"init", "play", "over"} => arrays = {"functions", "handles", "strategies"}
    /\ pc \in {"functions", "handles"} => i = 1 /\ handles = {} /\ functions = {}
    /\ pc = "load" => handles = 1 .. i - 1 /\ functions = 1 .. i - 1
    /\ pc \in {"strategies", "init", "play", "over"} => handles = Indices /\ functions = Indices

\* No strategy_impl is lost before main gives up, and then nobody has guessed.
NothingLost ==
    /\ pc # "exit" => unreachable = 0
    /\ pc \notin {"play", "over", "exit"} => rotating_counter = 0

CleanupInv == SetUp /\ Allocated /\ NothingLost /\ CleanupComplete

\* With the handles of the first libraries, no gap between them, and functions either
\* complete or without strategies beside them, cleanup gives everything back.
LEMMA CleanupFrees ==
  ASSUME CleanupInv, NEW n \in 0 .. Len(args), cleanup(1 .. n), pc # "functions", pc # "exit",
         UNCHANGED <<args, i, rotating_counter>>, SetUp',
         unreachable' = 0 \/ (unreachable' = 1 /\ rotating_counter = 0)
  PROVE  CleanupInv'
<1>1. Len(args) \in Nat /\ rotating_counter \in Nat
  BY DEF CleanupInv, SetUp
<1>2. "functions" \in arrays /\ ("strategies" \in arrays => functions = Indices)
  BY DEF CleanupInv, Allocated
<1>3. pc' = "exit" /\ arrays' = {} /\ functions' = {} /\ strategies' = <<>>
  BY <1>2 DEF cleanup
<1>4. handles' = {}
  BY <1>1 DEF cleanup
<1>5. Allocated' /\ NothingLost'
  BY <1>3 DEF Allocated, NothingLost
<1>6. CleanupComplete'
  BY <1>1, <1>3, <1>4 DEF CleanupComplete
<1> QED
  BY <1>5, <1>6 DEF CleanupInv

\* Every step of main keeps it.
LEMMA CleanupStep == GuessInv /\ GuessInv' /\ CleanupInv /\ [Next]_vars => CleanupInv'
<1> SUFFICES ASSUME GuessInv, GuessInv', CleanupInv, [Next]_vars PROVE CleanupInv'
  OBVIOUS
<1>1. SetUp' /\ Len(args) \in Nat \ {0} /\ i \in 1 .. Len(args) /\ rotating_counter \in Nat
  BY ZenonT(30) DEF GuessInv, SetUp
<1>2. CASE CallocFunctions
  BY <1>1, <1>2 DEF CallocFunctions, CleanupInv, Allocated, NothingLost, CleanupComplete, game,
     SetUp
<1>3. CASE CallocHandles
  <2>1. CASE cleanup(handles)
    <3>1. handles = 1 .. 0 /\ 0 \in 0 .. Len(args)
      BY <1>1, <1>3 DEF CallocHandles, CleanupInv, Allocated
    <3>2. pc # "functions" /\ pc # "exit" /\ unreachable' = 0 /\ UNCHANGED <<args, i, rotating_counter>>
      BY <1>3 DEF CallocHandles, CleanupInv, NothingLost, game
    <3> QED
      BY <1>1, <2>1, <3>1, <3>2, CleanupFrees
  <2>2. CASE /\ arrays' = arrays \cup {"handles"} /\ pc' = "load"
             /\ UNCHANGED <<handles, functions, strategies>>
    BY <1>1, <1>3, <2>2 DEF CallocHandles, CleanupInv, Allocated, NothingLost, CleanupComplete, game
  <2> QED
    BY <1>3, <2>1, <2>2 DEF CallocHandles
<1>4. CASE init_libraries
  <2>1. /\ pc = "load" /\ handles = 1 .. i - 1 /\ functions = 1 .. i - 1 /\ unreachable = 0
        /\ rotating_counter = 0 /\ UNCHANGED <<args, rotating_counter>>
        /\ arrays = {"functions", "handles"}
    BY <1>4 DEF init_libraries, CleanupInv, Allocated, NothingLost, game
  <2>2. CASE cleanup(handles) /\ UNCHANGED <<i, unreachable>>
    <3>1. i - 1 \in 0 .. Len(args)
      BY <1>1
    <3> QED
      BY <1>1, <2>1, <2>2, <3>1, CleanupFrees
  <2>3. CASE cleanup(handles \cup {i}) /\ unreachable' \in {unreachable, unreachable + 1} /\ UNCHANGED i
    <3>1. handles \cup {i} = 1 .. i /\ i \in 0 .. Len(args)
      BY <1>1, <2>1
    <3>2. unreachable' = 0 \/ unreachable' = 1
      BY <2>1, <2>3
    <3> QED
      BY <1>1, <2>1, <2>3, <3>1, <3>2, CleanupFrees, ZenonT(30)
  <2>4. CASE /\ handles' = handles \cup {i}
             /\ functions' = functions \cup {i}
             /\ IF i < Len(args)
                THEN i' = i + 1 /\ pc' = pc
                ELSE i' = 1 /\ pc' = "strategies"
             /\ UNCHANGED <<arrays, unreachable, strategies>>
    <3>1. handles' = 1 .. i /\ functions' = 1 .. i
      BY <1>1, <2>1, <2>4
    <3>2. pc' # "exit" /\ pc' # "crashed"
      BY <2>1, <2>4
    <3>3. Allocated'
      BY <1>1, <2>1, <2>4, <3>1 DEF Allocated, Indices
    <3> QED
      BY <1>1, <2>1, <2>4, <3>2, <3>3 DEF CleanupInv, NothingLost, CleanupComplete
  <2> QED
    BY <1>4, <2>2, <2>3, <2>4 DEF init_libraries
<1>5. CASE CallocStrategies
  <2>1. CASE cleanup(handles)
    <3>1. handles = 1 .. Len(args) /\ Len(args) \in 0 .. Len(args)
      BY <1>1, <1>5 DEF CallocStrategies, CleanupInv, Allocated, Indices
    <3>2. pc # "functions" /\ pc # "exit" /\ unreachable' = 0 /\ UNCHANGED <<args, i, rotating_counter>>
      BY <1>5 DEF CallocStrategies, CleanupInv, NothingLost, game
    <3> QED
      BY <1>1, <2>1, <3>1, <3>2, CleanupFrees
  <2>2. CASE /\ arrays' = arrays \cup {"strategies"} /\ pc' = "init"
             /\ UNCHANGED <<handles, functions, strategies>>
    BY <1>1, <1>5, <2>2
    DEF CallocStrategies, CleanupInv, Allocated, NothingLost, CleanupComplete, Indices, game
  <2> QED
    BY <1>5, <2>1, <2>2 DEF CallocStrategies
<1>6. CASE InitStrategy
  <2>1. CASE cleanup(handles) /\ UNCHANGED <<i, number>>
    <3>1. handles = 1 .. Len(args) /\ Len(args) \in 0 .. Len(args)
      BY <1>1, <1>6 DEF InitStrategy, CleanupInv, Allocated, Indices
    <3>2. pc # "functions" /\ pc # "exit" /\ unreachable' = 0 /\ UNCHANGED <<args, i, rotating_counter>>
      BY <1>6, <2>1 DEF InitStrategy, CleanupInv, NothingLost
    <3> QED
      BY <1>1, <2>1, <3>1, <3>2, CleanupFrees
  <2>2. CASE (pc' = pc \/ pc' = "play") /\ UNCHANGED <<arrays, handles, functions>>
    BY <1>1, <1>6, <2>2
    DEF InitStrategy, CleanupInv, Allocated, NothingLost, CleanupComplete, Indices
  <2> QED
    BY <1>6, <2>1, <2>2 DEF InitStrategy
<1>7. CASE gameloop
  <2>1. /\ pc = "play" /\ (pc' = "play" \/ pc' = "over")
        /\ UNCHANGED <<args, i, arrays, handles, functions, unreachable>>
    BY <1>7 DEF gameloop, resources
  <2> QED
    BY <1>1, <2>1 DEF CleanupInv, Allocated, NothingLost, CleanupComplete, Indices
<1>8. CASE GameOver
  <2>1. handles = 1 .. Len(args) /\ Len(args) \in 0 .. Len(args)
    BY <1>1, <1>8 DEF GameOver, CleanupInv, Allocated, Indices
  <2>2. /\ pc # "functions" /\ pc # "exit" /\ unreachable' = 0
        /\ UNCHANGED <<args, i, rotating_counter>> /\ cleanup(handles)
    BY <1>8 DEF GameOver, CleanupInv, NothingLost, game
  <2> QED
    BY <1>1, <2>1, <2>2, CleanupFrees
<1>9. CASE UNCHANGED vars
  BY <1>1, <1>9
  DEF CleanupInv, vars, resources, game, Allocated, NothingLost, CleanupComplete, Indices
<1> QED
  BY <1>2, <1>3, <1>4, <1>5, <1>6, <1>7, <1>8, <1>9 DEF Next

\* However the set-up of any number of strategies fails, and after a game, cleanup does
\* not go through a NULL and gives everything back but a strategy_impl whose library
\* lacks a symbol (main, init_libraries, cleanup).
THEOREM EverythingGivenBack == Spec => []CleanupComplete
<1>1. Init => CleanupInv
  <2> SUFFICES ASSUME Init PROVE CleanupInv
    OBVIOUS
  <2>1. SetUp
    BY GuessInitial DEF GuessInv
  <2> QED
    BY <2>1 DEF Init, CleanupInv, Allocated, NothingLost, CleanupComplete
<1>2. CleanupInv => CleanupComplete
  BY DEF CleanupInv
<1> QED
  BY <1>1, <1>2, GuessInitial, GuessStep, CleanupStep, PTL DEF Spec

-----------------------------------------------------------------------------
-----------------------------------------------------------------------------
(* Finding the number in time *)

\* A power of two counts the subsets of a set, and one more element doubles them.
LEMMA Doubles ==
  ASSUME NEW n \in Nat
  PROVE  2 ^ n \in Nat \ {0} /\ 2 ^ (n + 1) = 2 * 2 ^ n
<1> DEFINE Old == SUBSET (1 .. n)
           New == {A \cup {n + 1} : A \in Old}
           f == [A \in Old |-> A \cup {n + 1}]
<1>1. \A m \in Nat : /\ IsFiniteSet(SUBSET (1 .. m)) /\ Cardinality(SUBSET (1 .. m)) = 2 ^ m
                     /\ 2 ^ m \in Nat
  <2> TAKE m \in Nat
  <2>1. IsFiniteSet(1 .. m) /\ Cardinality(1 .. m) = m
    BY FS_Interval
  <2> QED
    BY <2>1, FS_SUBSET, FS_CardinalityType, ZenonT(30)
<1>2. SUBSET (1 .. n + 1) = Old \cup New
  <2>1. ASSUME NEW A \in SUBSET (1 .. n + 1) PROVE A \in Old \cup New
    <3>1. CASE n + 1 \in A
      <4>1. A \ {n + 1} \in Old /\ A = (A \ {n + 1}) \cup {n + 1}
        BY <3>1
      <4> QED
        BY <4>1, ZenonT(30)
    <3>2. CASE n + 1 \notin A
      BY <3>2
    <3> QED
      BY <3>1, <3>2
  <2>2. ASSUME NEW A \in Old PROVE A \in SUBSET (1 .. n + 1) /\ A \cup {n + 1} \in SUBSET (1 .. n + 1)
    OBVIOUS
  <2>3. New \subseteq SUBSET (1 .. n + 1) /\ Old \subseteq SUBSET (1 .. n + 1)
    BY <2>2, ZenonT(30)
  <2> HIDE DEF Old, New
  <2> QED
    BY <2>1, <2>3, ZenonT(30)
<1>3. Old \cap New = {}
  OBVIOUS
<1>4. IsFiniteSet(New) /\ Cardinality(New) = Cardinality(Old)
  <2>1. f \in Bijection(Old, New)
    <3>1. f \in [Old -> New] /\ \A B \in New : \E A \in Old : f[A] = B
      BY ZenonT(30)
    <3>2. ASSUME NEW A \in Old, NEW B \in Old, f[A] = f[B] PROVE A = B
      <4>1. A \cup {n + 1} = B \cup {n + 1} /\ n + 1 \notin A /\ n + 1 \notin B
        BY <3>2
      <4> QED
        BY <4>1
    <3> HIDE DEF Old, New, f
    <3> QED
      BY <3>1, <3>2, Zenon DEF Bijection, Injection, Surjection, IsInjective
  <2> QED
    BY <1>1, <2>1, FS_Bijection, ZenonT(30) DEF ExistsBijection
<1>5. IsFiniteSet(Old) /\ Cardinality(Old) = 2 ^ n /\ 2 ^ n \in Nat /\ n + 1 \in Nat
  BY <1>1
<1>6. Cardinality(Old \cup New) = 2 ^ (n + 1)
  <2> HIDE DEF Old, New
  <2> QED
    BY <1>1, <1>2, <1>5, ZenonT(30)
<1> HIDE DEF Old, New
<1>7. Cardinality(Old \cup New) = Cardinality(Old) + Cardinality(New) - Cardinality({})
  BY <1>3, <1>4, <1>5, FS_Union
<1>8. 2 ^ (n + 1) = 2 ^ n + 2 ^ n
  <2>1. Cardinality({}) = 0
    BY FS_EmptySet
  <2> QED
    BY <1>4, <1>5, <1>6, <1>7, <2>1
<1>9. 2 ^ n # 0
  <2>1. {} \in Old
    BY DEF Old
  <2> QED
    BY <1>5, <2>1, FS_EmptySet
<1> QED
  BY <1>5, <1>8, <1>9

\* The quotient and the remainder of a sum with a multiple of the divisor.
LEMMA Quotient ==
  ASSUME NEW q \in Int, NEW l \in Nat \ {0}, NEW r \in 0 .. l - 1
  PROVE  (q * l + r) \div l = q
OBVIOUS

\* The strategies guess in turn: a turn of gameloop is one more for the strategy at
\* rotating_counter % strategies_count, and for no other.
LEMMA TurnsTaken ==
  ASSUME NEW c \in Nat, NEW l \in Nat \ {0}, NEW k \in 1 .. l
  PROVE  /\ (c + l - k) \div l \in Nat
         /\ (c + 1 + l - k) \div l
              = IF k = (c % l) + 1 THEN ((c + l - k) \div l) + 1 ELSE (c + l - k) \div l
<1> DEFINE q == c \div l
           r == c % l
<1>1. c = q * l + r /\ q \in Nat /\ r \in 0 .. l - 1
  OBVIOUS
<1> HIDE DEF q, r
<1>2. (q + 1) * l = q * l + l /\ q * l \in Nat
  BY <1>1
<1>3. CASE k = r + 1
  <2>1. c + l - k = q * l + (l - 1) /\ c + 1 + l - k = (q + 1) * l + 0
    BY <1>1, <1>2, <1>3
  <2>2. (c + l - k) \div l = q
    BY <1>1, <2>1, Quotient
  <2>3. (c + 1 + l - k) \div l = q + 1
    BY <1>1, <2>1, Quotient
  <2> QED
    BY <1>1, <1>3, <2>2, <2>3 DEF r
<1>4. CASE k < r + 1
  <2>1. c + l - k = (q + 1) * l + (r - k) /\ c + 1 + l - k = (q + 1) * l + (r + 1 - k)
    BY <1>1, <1>2, <1>4
  <2>2. (c + l - k) \div l = q + 1
    BY <1>1, <1>4, <2>1, Quotient
  <2>3. (c + 1 + l - k) \div l = q + 1
    BY <1>1, <1>4, <2>1, Quotient
  <2> QED
    BY <1>1, <1>4, <2>2, <2>3 DEF r
<1>5. CASE k > r + 1
  <2>1. c + l - k = q * l + (l + r - k) /\ c + 1 + l - k = q * l + (l + r + 1 - k)
    BY <1>1, <1>2, <1>5
  <2>2. (c + l - k) \div l = q
    BY <1>1, <1>5, <2>1, Quotient
  <2>3. (c + 1 + l - k) \div l = q
    BY <1>1, <1>5, <2>1, Quotient
  <2> QED
    BY <1>1, <1>5, <2>2, <2>3 DEF r
<1> QED
  BY <1>1, <1>3, <1>4, <1>5

\* Nobody has guessed the number.
NotFound == rotating_counter > 0 => current_guess # number

\* What a strategy knows after t wrong guesses: a binary one has halved its range t
\* times, and had two numbers left before the last guess, or it would have been right;
\* a linear one has moved its bounds in turn, max first.
Searched(library, self, t) ==
    /\ library = "binary" =>
          /\ (self.max - self.min - 1) * 2 ^ t < Max - Min
          /\ t > 0 => 2 ^ (t - 1) < Max - Min
    /\ library = "linear" =>
          /\ self.min = Min + (t \div 2) /\ self.max = Max - ((t + 1) \div 2)
          /\ self.state <=> t % 2 = 1

SearchInv ==
    /\ pc \in {"play", "over"} /\ NotFound =>
          \A k \in 1 .. Len(args) : Searched(args[k], strategies[k], Turns(k))
    /\ pc = "play" => NotFound

\* init has searched nothing yet.
LEMMA InitSearched ==
  ASSUME NEW library \in Libraries
  PROVE  Searched(library, init(library), 0)
<1>1. CASE library = "binary"
  <2>1. init(library) = [min |-> Min, max |-> Max]
    BY <1>1 DEF init
  <2>2. 2 ^ 0 = 1
    OBVIOUS
  <2> QED
    BY <1>1, <2>1, <2>2, GuessAssumption DEF Searched
<1>2. CASE library = "linear"
  BY <1>2, GuessAssumption DEF init, Searched
<1>3. CASE library = "oracle"
  BY <1>3 DEF Searched
<1> QED
  BY <1>1, <1>2, <1>3 DEF Libraries

\* A wrong guess of a binary strategy leaves at most half of the numbers.
LEMMA Halving ==
  ASSUME NEW range \in Int, NEW size \in Nat, NEW t \in Nat,
         range >= 2, (range - 1) * 2 ^ t < size,
         NEW left \in Int, 2 * (left - 1) <= range - 1
  PROVE  (left - 1) * 2 ^ (t + 1) < size /\ 2 ^ t < size
<1>1. 2 ^ t \in Nat \ {0} /\ 2 ^ (t + 1) = 2 * 2 ^ t
  BY Doubles
<1> DEFINE p == 2 ^ t
<1> HIDE DEF p
<1>2. p \in Nat \ {0} /\ (range - 1) * p < size
  BY <1>1 DEF p
<1>3. \A a, b, c \in Int : c >= 0 /\ a <= b => a * c <= b * c
  OBVIOUS
<1>4. (2 * (left - 1)) * p <= (range - 1) * p
  BY <1>2, <1>3
<1>5. 1 * p <= (range - 1) * p
  BY <1>2, <1>3
<1>6. (left - 1) * (2 * p) = (2 * (left - 1)) * p
  BY <1>2
<1> QED
  BY <1>1, <1>2, <1>4, <1>5, <1>6 DEF p

\* A wrong guess is one more turn for the strategy that made it (notify).
LEMMA NotifySearched ==
  ASSUME NEW library \in Libraries, NEW self, OfLibrary(library, self),
         NEW n \in Int, Inside(library, self, n), NEW g, NEW now,
         g \in guess(library, self, now), g # n,
         NEW t \in Nat, Searched(library, self, t)
  PROVE  Searched(library, notify(library, self, IF g < n THEN 1 ELSE -1), t + 1)
<1>1. CASE library = "binary"
  <2>1. g = (self.min + self.max) \div 2 /\ self.min \in Int /\ self.max \in Int
    BY <1>1 DEF guess, binary_guess, Middle, OfLibrary, Binaries
  <2>2. g \in Int /\ n \in self.min .. self.max - 1 /\ self.max - self.min >= 2
    BY <1>1, <2>1 DEF Inside
  <2>3. (self.max - self.min - 1) * 2 ^ t < Max - Min /\ Max - Min \in Nat
    BY <1>1, GuessAssumption DEF Searched
  <2>4. ASSUME NEW low \in Int, NEW high \in Int, 2 * (high - low - 1) <= self.max - self.min - 1
        PROVE  Searched(library, [min |-> low, max |-> high], t + 1)
    <3> DEFINE range == self.max - self.min
               left == high - low
    <3>1. range \in Int /\ range >= 2 /\ (range - 1) * 2 ^ t < Max - Min
      BY <2>1, <2>2, <2>3
    <3>2. left \in Int /\ 2 * (left - 1) <= range - 1
      BY <2>4
    <3> HIDE DEF range, left
    <3>3. (left - 1) * 2 ^ (t + 1) < Max - Min /\ 2 ^ t < Max - Min
      BY <2>3, <3>1, <3>2, Halving, ZenonT(30)
    <3> QED
      BY <1>1, <3>3 DEF Searched, left
  <2>5. CASE g < n
    <3>1. notify(library, self, IF g < n THEN 1 ELSE -1) = [min |-> g, max |-> self.max]
      BY <1>1, <2>1, <2>5 DEF notify, binary_notify, Middle
    <3> QED
      BY <2>1, <2>2, <2>4, <3>1
  <2>6. CASE ~(g < n)
    <3>1. notify(library, self, IF g < n THEN 1 ELSE -1) = [min |-> self.min, max |-> g]
      BY <1>1, <2>1, <2>6 DEF notify, binary_notify, Middle
    <3> QED
      BY <2>1, <2>2, <2>4, <3>1
  <2> QED
    BY <2>5, <2>6
<1>2. CASE library = "linear"
  <2>1. /\ self.min = Min + (t \div 2) /\ self.max = Max - ((t + 1) \div 2)
        /\ self.state <=> t % 2 = 1
    BY <1>2 DEF Searched
  <2>2. CASE self.state
    <3>1. notify(library, self, IF g < n THEN 1 ELSE -1)
            = [min |-> self.min + 1, max |-> self.max, state |-> FALSE]
      BY <1>2, <2>2 DEF notify, linear_notify
    <3>2. /\ self.min + 1 = Min + ((t + 1) \div 2) /\ self.max = Max - ((t + 1 + 1) \div 2)
          /\ (t + 1) % 2 # 1
      BY <2>1, <2>2, GuessAssumption
    <3> QED
      BY <1>2, <3>1, <3>2 DEF Searched
  <2>3. CASE ~self.state
    <3>1. notify(library, self, IF g < n THEN 1 ELSE -1)
            = [min |-> self.min, max |-> self.max - 1, state |-> TRUE]
      BY <1>2, <2>3 DEF notify, linear_notify
    <3>2. /\ self.min = Min + ((t + 1) \div 2) /\ self.max - 1 = Max - ((t + 1 + 1) \div 2)
          /\ (t + 1) % 2 = 1
      BY <2>1, <2>3, GuessAssumption
    <3> QED
      BY <1>2, <3>1, <3>2 DEF Searched
  <2> QED
    BY <2>2, <2>3
<1>3. CASE library = "oracle"
  BY <1>3 DEF Searched
<1> QED
  BY <1>1, <1>2, <1>3 DEF Libraries

\* Before the game nobody has guessed, and only gameloop guesses.
LEMMA SearchStep == GuessInv /\ NothingLost /\ SearchInv /\ [Next]_vars => SearchInv'
<1> SUFFICES ASSUME GuessInv, NothingLost, SearchInv, [Next]_vars PROVE SearchInv'
  OBVIOUS
<1>1. ASSUME NEW loaded, cleanup(loaded) PROVE SearchInv'
  <2>1. pc' = "crashed" \/ pc' = "exit"
    BY <1>1 DEF cleanup
  <2> QED
    BY <2>1 DEF SearchInv
<1>2. CASE pc' \notin {"play", "over"}
  BY <1>2 DEF SearchInv
<1>3. CASE CallocFunctions \/ CallocHandles \/ init_libraries \/ CallocStrategies
  <2>1. pc' \notin {"play", "over"} \/ \E loaded : cleanup(loaded)
    BY <1>3 DEF CallocFunctions, CallocHandles, init_libraries, CallocStrategies
  <2> QED
    BY <1>1, <1>2, <2>1
<1>4. CASE InitStrategy
  <2>1. CASE cleanup(handles)
    BY <1>1, <2>1
  <2>2. CASE /\ strategies' = Append(strategies, init(args[i]))
             /\ IF i < Len(args)
                THEN i' = i + 1 /\ UNCHANGED <<pc, number>>
                ELSE i' = 1 /\ pc' = "play" /\ number' \in Min .. Max - 1
    <3>1. /\ args \in Seq(Libraries) /\ i \in 1 .. Len(args) /\ args' = args
          /\ strategies \in Seq(Selves) /\ Len(strategies) = i - 1
          /\ \A k \in 1 .. i - 1 : strategies[k] = init(args[k])
          /\ rotating_counter' = 0 /\ Len(args) \in Nat \ {0} /\ pc = "init"
      BY <1>4 DEF GuessInv, InitStrategy, SetUp, NothingLost
    <3>2. CASE i < Len(args)
      BY <1>2, <2>2, <3>1, <3>2, ZenonT(30)
    <3>3. CASE ~(i < Len(args))
      <4>1. i = Len(args)
        BY <3>1, <3>3
      <4>2. \A k \in 1 .. Len(args) : args[k] \in Libraries /\ strategies'[k] = init(args[k])
        <5>1. init(args[i]) \in Selves
          BY <3>1, InitInside
        <5> QED
          BY <2>2, <3>1, <4>1, <5>1
      <4>3. \A k \in 1 .. Len(args) : Turns(k)' = 0
        <5> TAKE k \in 1 .. Len(args)
        <5> DEFINE l == Len(args)
        <5>1. l \in Nat \ {0} /\ k \in 1 .. l
          BY <3>1
        <5>2. Turns(k)' = (0 + l - k) \div l
          BY <3>1 DEF Turns
        <5> HIDE DEF l
        <5>3. 0 + l - k = 0 * l + (l - k) /\ l - k \in 0 .. l - 1
          BY <5>1
        <5> QED
          BY <5>1, <5>2, <5>3, Quotient
      <4>4. NotFound'
        BY <3>1 DEF NotFound
      <4> QED
        BY <3>1, <4>2, <4>3, <4>4, InitSearched DEF SearchInv
    <3> QED
      BY <3>2, <3>3
  <2> QED
    BY <1>4, <2>1, <2>2 DEF InitStrategy
<1>5. CASE gameloop
  <2> DEFINE index == (rotating_counter % Len(args)) + 1
             told == notify(args[index], strategies[index],
                            IF current_guess' < number THEN 1 ELSE -1)
  <2>1. /\ args \in Seq(Libraries) /\ Len(args) \in Nat \ {0}
        /\ strategies \in Seq(Selves) /\ Len(strategies) = Len(args)
        /\ \A k \in 1 .. Len(args) : OfLibrary(args[k], strategies[k])
        /\ number \in Min .. Max - 1 /\ rotating_counter \in Nat
    BY <1>5 DEF GuessInv, gameloop, SetUp
  <2>2. \A k \in 1 .. Len(args) : Inside(args[k], strategies[k], number)
    BY <1>5, NumberInsideEach DEF GuessInv, gameloop
  <2>3. /\ UNCHANGED <<args, number>> /\ rotating_counter' = rotating_counter + 1
        /\ pc' = IF current_guess' # number /\ rotating_counter' < Limit THEN "play" ELSE "over"
    BY <1>5 DEF gameloop
  <2>4. \A k \in 1 .. Len(args) : Searched(args[k], strategies[k], Turns(k))
    BY <1>5 DEF gameloop, SearchInv
  <2>5. NotFound' <=> current_guess' # number
    BY <2>1, <2>3 DEF NotFound
  <2>6. ASSUME current_guess' # number, NEW k \in 1 .. Len(args)
        PROVE  Searched(args[k], strategies'[k], Turns(k)')
    <3>1. index \in 1 .. Len(args)
      BY <2>1
    <3>2. args[index] \in Libraries /\ number \in Int
      BY <2>1, <3>1, GuessAssumption
    <3>3. current_guess' \in guess(args[index], strategies[index], elapsed')
      BY <1>5 DEF gameloop
    <3>4. strategies' = [strategies EXCEPT ![index] = told]
      BY <1>5, <2>6 DEF gameloop
    <3>5. /\ Turns(k) \in Nat
          /\ Turns(k)' = IF k = index THEN Turns(k) + 1 ELSE Turns(k)
      BY <2>1, <2>3, TurnsTaken, ZenonT(30) DEF Turns
    <3>6. CASE k = index
      <4>1. Searched(args[index], told, Turns(k) + 1)
        <5> HIDE DEF index
        <5> QED
          BY <2>1, <2>2, <2>4, <2>6, <3>1, <3>2, <3>3, <3>5, <3>6, NotifySearched, ZenonT(30)
      <4> HIDE DEF told, index
      <4> QED
        BY <2>1, <3>1, <3>4, <3>5, <3>6, <4>1
    <3>7. CASE k # index
      <4> HIDE DEF told, index
      <4> QED
        BY <2>1, <2>4, <3>1, <3>4, <3>5, <3>7
    <3> QED
      BY <3>6, <3>7
  <2> QED
    BY <2>3, <2>5, <2>6 DEF SearchInv
<1>6. CASE GameOver
  BY <1>1, <1>6 DEF GameOver
<1>7. CASE UNCHANGED vars
  BY <1>7 DEF vars, game, SearchInv, NotFound, Turns
<1> QED
  BY <1>3, <1>4, <1>5, <1>6, <1>7 DEF Next

\* For any range, any strategies in any order and any limit, a binary strategy needs no
\* more turns than halving the range takes, and a linear one has left out one number at
\* each end in turn (gameloop, notify).
THEOREM NumberFoundInTime == Spec => []FoundInTime
<1>1. Init => SearchInv
  BY DEF Init, SearchInv
<1>2. Init => CleanupInv
  <2> SUFFICES ASSUME Init PROVE CleanupInv
    OBVIOUS
  <2>1. SetUp
    BY GuessInitial DEF GuessInv
  <2> QED
    BY <2>1 DEF Init, CleanupInv, Allocated, NothingLost, CleanupComplete
<1>3. CleanupInv => NothingLost
  BY DEF CleanupInv
<1>4. GuessInv /\ SearchInv => FoundInTime
  <2> SUFFICES ASSUME GuessInv, SearchInv, pc \in {"play", "over"}, NotFound, NEW k \in Indices
               PROVE  /\ args[k] = "binary" /\ Turns(k) > 0 => 2 ^ (Turns(k) - 1) < Max - Min
                      /\ args[k] = "linear" =>
                            number \in Min + (Turns(k) \div 2) .. Max - ((Turns(k) + 1) \div 2)
    BY DEF FoundInTime, NotFound
  <2>1. Searched(args[k], strategies[k], Turns(k)) /\ Inside(args[k], strategies[k], number)
    BY NumberInsideEach DEF SearchInv, GuessInv, Indices
  <2> QED
    BY <2>1 DEF Searched, Inside
<1> QED
  BY <1>1, <1>2, <1>3, <1>4, GuessInitial, GuessStep, CleanupStep, SearchStep, PTL DEF Spec

-----------------------------------------------------------------------------
(* queue_create and queue_destroy *)

\* What a queue has before the n-th call of queue_create, and of queue_destroy.
Acquired(n) == {r \in Lifetime!Resources : \E j \in 1 .. n - 1 : Lifetime!Order[j] = r}
Remaining(n) == {r \in Lifetime!Resources : \E j \in n .. 6 : Lifetime!DestroyOrder[j] = r}

Codes == {"QUEUE_SUCCESS", "WRONG_QUEUE_ARG", "ALLOC_FAILURE", "KEY_ERROR", "MUTEX_INIT_FAIL",
          "COND_INIT_FAIL", "MUTEX_DESTROY_FAIL", "COND_DESTROY_FAIL"}

LifetimeTypes ==
    /\ place \in [Threads -> {"none", "create", "ready", "destroy"}]
    /\ next \in [Threads -> 1 .. 7]
    /\ held \in [Threads -> SUBSET Lifetime!Resources]
    /\ retval \in [Threads -> Codes]
    /\ lost \in [Lifetime!Resources -> Nat]

\* At every call of queue_create and queue_destroy the queue has what the calls before
\* it have acquired, and what they have left.
Holds ==
    \A t \in Threads :
        /\ place[t] = "none" => held[t] = {}
        /\ place[t] = "create" => held[t] = Acquired(next[t])
        /\ place[t] = "ready" => held[t] = Lifetime!Resources
        /\ place[t] = "destroy" => next[t] \in 1 .. 6 /\ held[t] = Remaining(next[t])

LifetimeInv == LifetimeTypes /\ Holds

\* The two orders, call by call.
LEMMA Orders ==
    /\ Len(Lifetime!Order) = 7 /\ Len(Lifetime!DestroyOrder) = 6
    /\ Lifetime!Order[1] = "struct" /\ Lifetime!Order[2] = "buffer" /\ Lifetime!Order[3] = "key"
    /\ Lifetime!Order[4] = "value" /\ Lifetime!Order[5] = "mutex"
    /\ Lifetime!Order[6] = "cond_pop" /\ Lifetime!Order[7] = "cond_push"
    /\ Lifetime!DestroyOrder[1] = "mutex" /\ Lifetime!DestroyOrder[2] = "cond_push"
    /\ Lifetime!DestroyOrder[3] = "cond_pop" /\ Lifetime!DestroyOrder[4] = "key"
    /\ Lifetime!DestroyOrder[5] = "buffer" /\ Lifetime!DestroyOrder[6] = "struct"
    /\ Lifetime!Resources = {"struct", "buffer", "key", "mutex", "cond_pop", "cond_push"}
<1>1. Len(Lifetime!Order) = 7 /\ Len(Lifetime!DestroyOrder) = 6 /\ DOMAIN Lifetime!Order = 1 .. 7
  BY DEF Lifetime!Order, Lifetime!DestroyOrder
<1>2. /\ Lifetime!Order[1] = "struct" /\ Lifetime!Order[2] = "buffer" /\ Lifetime!Order[3] = "key"
      /\ Lifetime!Order[4] = "value" /\ Lifetime!Order[5] = "mutex"
      /\ Lifetime!Order[6] = "cond_pop" /\ Lifetime!Order[7] = "cond_push"
  BY DEF Lifetime!Order
<1>3. /\ Lifetime!DestroyOrder[1] = "mutex" /\ Lifetime!DestroyOrder[2] = "cond_push"
      /\ Lifetime!DestroyOrder[3] = "cond_pop" /\ Lifetime!DestroyOrder[4] = "key"
      /\ Lifetime!DestroyOrder[5] = "buffer" /\ Lifetime!DestroyOrder[6] = "struct"
  BY DEF Lifetime!DestroyOrder
<1>4. 1 .. 7 = {1, 2, 3, 4, 5, 6, 7}
  OBVIOUS
<1>5. Lifetime!Resources = {"struct", "buffer", "key", "mutex", "cond_pop", "cond_push"}
  BY <1>1, <1>2, <1>4 DEF Lifetime!Resources
<1> QED
  BY <1>1, <1>2, <1>3, <1>5

\* What the labels release, call by call.
LEMMA Labels ==
    /\ Lifetime!ReleasedOnFailure("struct") = {}
    /\ Lifetime!ReleasedOnFailure("buffer") = {"struct"}
    /\ Lifetime!ReleasedOnFailure("key") = {"buffer", "struct"}
    /\ Lifetime!ReleasedOnFailure("value") = {"buffer", "struct"}
    /\ Lifetime!ReleasedOnFailure("mutex") = {"key", "buffer", "struct"}
    /\ Lifetime!ReleasedOnFailure("cond_pop") = {"mutex", "key", "buffer", "struct"}
    /\ Lifetime!ReleasedOnFailure("cond_push") = {"cond_pop", "mutex", "key", "buffer", "struct"}
  BY Zenon DEF Lifetime!ReleasedOnFailure

LEMMA Errors ==
    /\ \A r \in Lifetime!Resources \cup {"value"} : Lifetime!CreateError(r) \in Codes
    /\ \A r \in {"mutex", "cond_push", "cond_pop", "key"} :
          Lifetime!DestroyError(r) \in Codes \ {"QUEUE_SUCCESS"}
<1>1. ASSUME NEW r \in {"struct", "buffer", "key", "mutex", "cond_pop", "cond_push", "value"}
      PROVE  Lifetime!CreateError(r) \in Codes
  BY Zenon DEF Lifetime!CreateError, Codes
<1>2. ASSUME NEW r \in {"mutex", "cond_push", "cond_pop", "key"}
      PROVE  Lifetime!DestroyError(r) \in Codes \ {"QUEUE_SUCCESS"}
  BY ZenonT(30) DEF Lifetime!DestroyError, Codes
<1> QED
  BY <1>1, <1>2, Orders

\* A failing call of queue_create releases what there is, except for the key after
\* pthread_setspecific.
LEMMA CreateOrder ==
  ASSUME NEW n \in 1 .. 7
  PROVE  /\ Lifetime!Order[n] \in Lifetime!Resources \cup {"value"}
         /\ Lifetime!ReleasedOnFailure(Lifetime!Order[n]) \subseteq Acquired(n)
         /\ n # 4 => Acquired(n) \ Lifetime!ReleasedOnFailure(Lifetime!Order[n]) = {}
         /\ n = 4 => /\ Acquired(n) \ Lifetime!ReleasedOnFailure(Lifetime!Order[n]) = {"key"}
                     /\ Lifetime!Order[n] = "value"
         /\ Acquired(n) \cup ({Lifetime!Order[n]} \ {"value"}) =
               IF n = 7 THEN Lifetime!Resources ELSE Acquired(n + 1)
<1>1. /\ Acquired(1) = {} /\ Acquired(2) = {"struct"} /\ Acquired(3) = {"struct", "buffer"}
      /\ Acquired(4) = {"struct", "buffer", "key"} /\ Acquired(5) = {"struct", "buffer", "key"}
      /\ Acquired(6) = {"struct", "buffer", "key", "mutex"}
      /\ Acquired(7) = {"struct", "buffer", "key", "mutex", "cond_pop"}
  <2>1. /\ 1 .. 1 - 1 = {} /\ 1 .. 2 - 1 = {1} /\ 1 .. 3 - 1 = {1, 2} /\ 1 .. 4 - 1 = {1, 2, 3}
        /\ 1 .. 5 - 1 = {1, 2, 3, 4} /\ 1 .. 6 - 1 = {1, 2, 3, 4, 5}
        /\ 1 .. 7 - 1 = {1, 2, 3, 4, 5, 6}
    OBVIOUS
  <2> QED
    BY <2>1, Orders DEF Acquired
<1>2. CASE n = 1
  BY <1>1, <1>2, Orders, Labels
<1>3. CASE n = 2
  BY <1>1, <1>3, Orders, Labels
<1>4. CASE n = 3
  BY <1>1, <1>4, Orders, Labels
<1>5. CASE n = 4
  BY <1>1, <1>5, Orders, Labels
<1>6. CASE n = 5
  BY <1>1, <1>6, Orders, Labels
<1>7. CASE n = 6
  BY <1>1, <1>7, Orders, Labels
<1>8. CASE n = 7
  BY <1>1, <1>8, Orders, Labels, ZenonT(30)
<1> QED
  BY <1>2, <1>3, <1>4, <1>5, <1>6, <1>7, <1>8, SMTT(30)

\* queue_destroy releases what there is, and where it may return early the key, the
\* buffer and the struct are still there.
LEMMA ReleaseOrder ==
    /\ Acquired(1) = {} /\ Remaining(1) = Lifetime!Resources
    /\ \A n \in 1 .. 6 :
         /\ Lifetime!DestroyOrder[n] \in Remaining(n)
         /\ n < 6 => Remaining(n) \ {Lifetime!DestroyOrder[n]} = Remaining(n + 1)
         /\ n = 6 => Remaining(n) \ {Lifetime!DestroyOrder[n]} = {}
         /\ Lifetime!DestroyOrder[n] \in {"mutex", "cond_push", "cond_pop", "key"} =>
               {"key", "buffer", "struct"} \subseteq Remaining(n)
<1>1. /\ Remaining(1) = {"mutex", "cond_push", "cond_pop", "key", "buffer", "struct"}
      /\ Remaining(2) = {"cond_push", "cond_pop", "key", "buffer", "struct"}
      /\ Remaining(3) = {"cond_pop", "key", "buffer", "struct"}
      /\ Remaining(4) = {"key", "buffer", "struct"}
      /\ Remaining(5) = {"buffer", "struct"} /\ Remaining(6) = {"struct"}
  <2>1. /\ 1 .. 6 = {1, 2, 3, 4, 5, 6} /\ 2 .. 6 = {2, 3, 4, 5, 6} /\ 3 .. 6 = {3, 4, 5, 6}
        /\ 4 .. 6 = {4, 5, 6} /\ 5 .. 6 = {5, 6} /\ 6 .. 6 = {6}
    OBVIOUS
  <2> QED
    BY <2>1, Orders DEF Remaining
<1>2. Acquired(1) = {}
  BY DEF Acquired
<1>3. ASSUME NEW n \in 1 .. 6
      PROVE  /\ Lifetime!DestroyOrder[n] \in Remaining(n)
             /\ n < 6 => Remaining(n) \ {Lifetime!DestroyOrder[n]} = Remaining(n + 1)
             /\ n = 6 => Remaining(n) \ {Lifetime!DestroyOrder[n]} = {}
             /\ Lifetime!DestroyOrder[n] \in {"mutex", "cond_push", "cond_pop", "key"} =>
                   {"key", "buffer", "struct"} \subseteq Remaining(n)
  <2>1. CASE n = 1
    BY <1>1, <2>1, Orders
  <2>2. CASE n = 2
    BY <1>1, <2>2, Orders
  <2>3. CASE n = 3
    BY <1>1, <2>3, Orders
  <2>4. CASE n = 4
    BY <1>1, <2>4, Orders
  <2>5. CASE n = 5
    BY <1>1, <2>5, Orders
  <2>6. CASE n = 6
    BY <1>1, <2>6, Orders
  <2> QED
    BY <2>1, <2>2, <2>3, <2>4, <2>5, <2>6
<1> QED
  BY <1>1, <1>2, <1>3, Orders

\* What a step may leave behind when a call of t returns without a queue.
Leaked == {r \in Lifetime!Resources : lost'[r] # lost[r]}

LeaksLittle(t) ==
    place[t] \in {"create", "destroy"} /\ place'[t] = "none" =>
        /\ place[t] = "create" => Leaked \subseteq {"key"}
        /\ place[t] = "create" /\ Leaked # {} => Lifetime!Order[next[t]] = "value"
        /\ place[t] = "destroy" =>
              IF retval'[t] = "QUEUE_SUCCESS" THEN Leaked = {}
              ELSE {"key", "buffer", "struct"} \subseteq Leaked

\* A thread that drops its queue leaks what it still had.
LEMMA Abandoned ==
  ASSUME LifetimeTypes, NEW t \in Threads, NEW left \in SUBSET Lifetime!Resources,
         Lifetime!Abandon(t, left)
  PROVE  /\ place' = [place EXCEPT ![t] = "none"] /\ next' = [next EXCEPT ![t] = 1]
         /\ held' = [held EXCEPT ![t] = {}]
         /\ lost' \in [Lifetime!Resources -> Nat] /\ Leaked = left
<1>1. \A r \in Lifetime!Resources :
        lost[r] + (IF r \in left THEN 1 ELSE 0) \in Nat
        /\ (lost[r] + (IF r \in left THEN 1 ELSE 0) # lost[r] <=> r \in left)
  BY DEF LifetimeTypes
<1> QED
  BY <1>1 DEF Lifetime!Abandon, Lifetime!Become, Leaked

\* Every call of every thread preserves the invariant and leaks little.
LEMMA LifetimeStep ==
    LifetimeInv /\ [Lifetime!Next]_Lifetime!vars =>
        LifetimeInv' /\ \A t \in Threads : LeaksLittle(t)
<1> SUFFICES ASSUME LifetimeInv, [Lifetime!Next]_Lifetime!vars
             PROVE  LifetimeInv' /\ \A t \in Threads : LeaksLittle(t)
  OBVIOUS
<1> USE DEF LifetimeInv
<1>1. ASSUME NEW t \in Threads, Lifetime!BeginCreate(t) \/ Lifetime!BeginDestroy(t)
      PROVE  LifetimeInv' /\ \A u \in Threads : LeaksLittle(u)
  <2>1. LifetimeTypes'
    BY <1>1 DEF Lifetime!BeginCreate, Lifetime!BeginDestroy, Lifetime!Become, Lifetime!Return,
                LifetimeTypes, Codes
  <2>2. UNCHANGED <<held, lost>>
    BY <1>1 DEF Lifetime!BeginCreate, Lifetime!BeginDestroy
  <2>3. \A u \in Threads \ {t} : place'[u] = place[u] /\ next'[u] = next[u]
    BY <1>1 DEF Lifetime!BeginCreate, Lifetime!BeginDestroy, Lifetime!Become, LifetimeTypes
  <2>4. \/ place'[t] = place[t] /\ next'[t] = next[t]
        \/ place'[t] = "create" /\ next'[t] = 1 /\ place[t] = "none"
        \/ place'[t] = "destroy" /\ next'[t] = 1 /\ place[t] = "ready"
    BY <1>1, ZenonT(30) DEF Lifetime!BeginCreate, Lifetime!BeginDestroy, Lifetime!Become,
       LifetimeTypes
  <2>5. Holds'
    BY <2>2, <2>3, <2>4, ReleaseOrder, SMTT(30) DEF Holds
  <2>6. \A u \in Threads : LeaksLittle(u)
    BY <2>3, <2>4 DEF LeaksLittle
  <2> QED
    BY <2>1, <2>5, <2>6
<1>2. ASSUME NEW t \in Threads, Lifetime!CreateStep(t)
      PROVE  LifetimeInv' /\ \A u \in Threads : LeaksLittle(u)
  <2>1. next[t] \in 1 .. 7 /\ place[t] = "create" /\ held[t] = Acquired(next[t])
    BY <1>2 DEF LifetimeTypes, Holds, Lifetime!CreateStep
  <2>2. /\ held' = [held EXCEPT ![t] = held[t] \cup ({Lifetime!Order[next[t]]} \ {"value"})]
        /\ UNCHANGED lost
        /\ \/ next[t] < 7 /\ next' = [next EXCEPT ![t] = next[t] + 1] /\ UNCHANGED <<place, retval>>
           \/ /\ next[t] = 7 /\ place' = [place EXCEPT ![t] = "ready"]
              /\ next' = [next EXCEPT ![t] = 1] /\ retval' = [retval EXCEPT ![t] = "QUEUE_SUCCESS"]
    BY <1>2, Orders, SMTT(30) DEF Lifetime!CreateStep, Lifetime!Become, Lifetime!Return
  <2>3. held'[t] = IF next[t] = 7 THEN Lifetime!Resources ELSE Acquired(next[t] + 1)
    BY <2>1, <2>2, CreateOrder DEF LifetimeTypes
  <2>4. LifetimeTypes'
    <3>1. held' \in [Threads -> SUBSET Lifetime!Resources]
      BY <2>1, <2>2, CreateOrder DEF LifetimeTypes
    <3>2. next' \in [Threads -> 1 .. 7]
      BY <2>1, <2>2 DEF LifetimeTypes
    <3> QED
      BY <2>2, <3>1, <3>2 DEF LifetimeTypes, Codes
  <2>5. Holds'
    BY <2>1, <2>2, <2>3 DEF Holds, LifetimeTypes
  <2>6. \A u \in Threads : LeaksLittle(u)
    BY <2>2 DEF LeaksLittle, LifetimeTypes
  <2> QED
    BY <2>4, <2>5, <2>6
<1>3. ASSUME NEW t \in Threads, Lifetime!CreateFails(t)
      PROVE  LifetimeInv' /\ \A u \in Threads : LeaksLittle(u)
  <2> DEFINE left == held[t] \ Lifetime!ReleasedOnFailure(Lifetime!Order[next[t]])
  <2>1. next[t] \in 1 .. 7 /\ place[t] = "create" /\ held[t] = Acquired(next[t])
    BY <1>3 DEF LifetimeTypes, Holds, Lifetime!CreateFails
  <2>2. left \in SUBSET Lifetime!Resources /\ Lifetime!Abandon(t, left)
    BY <1>3 DEF LifetimeTypes, Lifetime!CreateFails
  <2>3. /\ left \subseteq {"key"}
        /\ left # {} => Lifetime!Order[next[t]] = "value"
    BY <2>1, CreateOrder
  <2> HIDE DEF left
  <2>4. /\ place' = [place EXCEPT ![t] = "none"] /\ next' = [next EXCEPT ![t] = 1]
        /\ held' = [held EXCEPT ![t] = {}]
        /\ lost' \in [Lifetime!Resources -> Nat] /\ Leaked = left
    BY <2>2, Abandoned
  <2>5. retval' \in [Threads -> Codes]
    BY <1>3, <2>1, CreateOrder, Errors, ZenonT(30)
       DEF Lifetime!CreateFails, Lifetime!Return, LifetimeTypes
  <2>6. LifetimeTypes' /\ Holds'
    <3>1. LifetimeTypes'
      <4>1. next' \in [Threads -> 1 .. 7]
        BY <2>4 DEF LifetimeTypes
      <4>2. /\ place' \in [Threads -> {"none", "create", "ready", "destroy"}]
            /\ held' \in [Threads -> SUBSET Lifetime!Resources]
        BY <2>4 DEF LifetimeTypes
      <4> QED
        BY <2>4, <2>5, <4>1, <4>2 DEF LifetimeTypes
    <3>2. /\ place'[t] = "none" /\ held'[t] = {}
          /\ \A u \in Threads \ {t} :
                place'[u] = place[u] /\ next'[u] = next[u] /\ held'[u] = held[u]
      BY <2>4 DEF LifetimeTypes
    <3> QED
      BY <3>1, <3>2 DEF Holds
  <2>7. \A u \in Threads : LeaksLittle(u)
    BY <2>1, <2>3, <2>4, ZenonT(30) DEF LeaksLittle, LifetimeTypes
  <2> QED
    BY <2>6, <2>7
<1>4. ASSUME NEW t \in Threads, Lifetime!DestroyStep(t)
      PROVE  LifetimeInv' /\ \A u \in Threads : LeaksLittle(u)
  <2>1. next[t] \in 1 .. 6 /\ place[t] = "destroy" /\ held[t] = Remaining(next[t])
    BY <1>4, ZenonT(30) DEF LifetimeTypes, Holds, Lifetime!DestroyStep
  <2>2. CASE next[t] < 6
    <3>1. /\ held' = [held EXCEPT ![t] = held[t] \ {Lifetime!DestroyOrder[next[t]]}]
          /\ next' = [next EXCEPT ![t] = next[t] + 1] /\ UNCHANGED <<place, retval, lost>>
      BY <1>4, <2>2, Orders, SMTT(30) DEF Lifetime!DestroyStep
    <3>2. held'[t] = Remaining(next[t] + 1)
      BY <2>1, <2>2, <3>1, ReleaseOrder DEF LifetimeTypes
    <3>3. LifetimeTypes'
      BY <2>1, <2>2, <3>1, SMTT(30) DEF LifetimeTypes
    <3>4. Holds'
      <4>1. /\ place'[t] = "destroy" /\ next'[t] = next[t] + 1 /\ next'[t] \in 1 .. 6
            /\ \A u \in Threads \ {t} :
                  place'[u] = place[u] /\ next'[u] = next[u] /\ held'[u] = held[u]
        BY <2>1, <2>2, <3>1 DEF LifetimeTypes
      <4> QED
        BY <3>2, <4>1, ZenonT(30) DEF Holds
    <3>5. \A u \in Threads : LeaksLittle(u)
      BY <3>1, ZenonT(30) DEF LeaksLittle
    <3> QED
      BY <3>3, <3>4, <3>5
  <2>3. CASE next[t] = 6
    <3>1. /\ Lifetime!Abandon(t, held[t] \ {Lifetime!DestroyOrder[next[t]]})
          /\ retval' = [retval EXCEPT ![t] = "QUEUE_SUCCESS"]
      BY <1>4, <2>3, Orders DEF Lifetime!DestroyStep, Lifetime!Return
    <3>2. held[t] \ {Lifetime!DestroyOrder[next[t]]} = {}
      BY <2>1, <2>3, ReleaseOrder
    <3>3. /\ place' = [place EXCEPT ![t] = "none"] /\ next' = [next EXCEPT ![t] = 1]
          /\ held' = [held EXCEPT ![t] = {}]
          /\ lost' \in [Lifetime!Resources -> Nat] /\ Leaked = {}
      BY <3>1, <3>2, Abandoned, ZenonT(30)
    <3>4. LifetimeTypes' /\ Holds'
      BY <3>1, <3>3 DEF LifetimeTypes, Holds, Codes
    <3>5. \A u \in Threads : LeaksLittle(u)
      BY <3>1, <3>3 DEF LeaksLittle, LifetimeTypes
    <3> QED
      BY <3>4, <3>5
  <2> QED
    BY <2>1, <2>2, <2>3
<1>5. ASSUME NEW t \in Threads, Lifetime!DestroyFails(t)
      PROVE  LifetimeInv' /\ \A u \in Threads : LeaksLittle(u)
  <2>1. next[t] \in 1 .. 6 /\ place[t] = "destroy" /\ held[t] = Remaining(next[t])
    BY <1>5 DEF LifetimeTypes, Holds, Lifetime!DestroyFails
  <2>2. held[t] \in SUBSET Lifetime!Resources /\ Lifetime!Abandon(t, held[t])
    BY <1>5, ZenonT(30) DEF LifetimeTypes, Lifetime!DestroyFails
  <2>3. {"key", "buffer", "struct"} \subseteq held[t]
    BY <1>5, <2>1, ReleaseOrder DEF Lifetime!DestroyFails
  <2>4. /\ place' = [place EXCEPT ![t] = "none"] /\ next' = [next EXCEPT ![t] = 1]
        /\ held' = [held EXCEPT ![t] = {}]
        /\ lost' \in [Lifetime!Resources -> Nat] /\ Leaked = held[t]
    BY <2>2, Abandoned
  <2>5. retval' \in [Threads -> Codes] /\ retval'[t] # "QUEUE_SUCCESS"
    BY <1>5, Errors, ZenonT(30) DEF Lifetime!DestroyFails, Lifetime!Return, LifetimeTypes
  <2>6. LifetimeTypes' /\ Holds'
    <3>1. LifetimeTypes'
      <4>1. next' \in [Threads -> 1 .. 7]
        BY <2>4 DEF LifetimeTypes
      <4>2. /\ place' \in [Threads -> {"none", "create", "ready", "destroy"}]
            /\ held' \in [Threads -> SUBSET Lifetime!Resources]
        BY <2>4 DEF LifetimeTypes
      <4> QED
        BY <2>4, <2>5, <4>1, <4>2 DEF LifetimeTypes
    <3>2. /\ place'[t] = "none" /\ held'[t] = {}
          /\ \A u \in Threads \ {t} :
                place'[u] = place[u] /\ next'[u] = next[u] /\ held'[u] = held[u]
      BY <2>4 DEF LifetimeTypes
    <3> QED
      BY <3>1, <3>2 DEF Holds
  <2>7. \A u \in Threads : LeaksLittle(u)
    BY <2>1, <2>3, <2>4, <2>5, ZenonT(30) DEF LeaksLittle, LifetimeTypes
  <2> QED
    BY <2>6, <2>7
<1>6. CASE UNCHANGED Lifetime!vars
  BY <1>6 DEF Lifetime!vars, LifetimeTypes, Holds, LeaksLittle
<1> QED
  BY <1>1, <1>2, <1>3, <1>4, <1>5, <1>6 DEF Lifetime!Next

\* For any number of threads and keys: a queue handed out is complete, no call releases
\* what is not there, and what leaks is the key when pthread_setspecific fails, or what
\* a queue_destroy that returns early has not reached (queue_create, queue_destroy).
THEOREM ReleasesOnce == Lifetime!Spec => ReleasedOnce
<1>1. Lifetime!Init => LifetimeInv
  <2> SUFFICES ASSUME Lifetime!Init PROVE LifetimeInv
    OBVIOUS
  <2>1. lost \in [Lifetime!Resources -> Nat] /\ next \in [Threads -> 1 .. 7]
    BY DEF Lifetime!Init
  <2> QED
    BY <2>1 DEF Lifetime!Init, LifetimeInv, LifetimeTypes, Holds, Codes
<1>2. LifetimeInv =>
        \A t \in Threads :
            /\ place[t] = "ready" => held[t] = Lifetime!Resources
            /\ place[t] = "create" =>
                  Lifetime!ReleasedOnFailure(Lifetime!Order[next[t]]) \subseteq held[t]
            /\ place[t] = "destroy" => Lifetime!DestroyOrder[next[t]] \in held[t]
  BY CreateOrder, ReleaseOrder DEF LifetimeInv, LifetimeTypes, Holds
<1>3. LifetimeInv /\ [Lifetime!Next]_Lifetime!vars => LifetimeInv'
  BY LifetimeStep, ZenonT(30)
<1>4. LifetimeInv /\ [Lifetime!Next]_Lifetime!vars =>
        [\A t \in Threads :
            place[t] \in {"create", "destroy"} /\ place'[t] = "none" =>
               LET leaked == {r \in Lifetime!Resources : lost'[r] # lost[r]} IN
               /\ place[t] = "create" => leaked \subseteq {"key"}
               /\ place[t] = "create" /\ leaked # {} => Lifetime!Order[next[t]] = "value"
               /\ place[t] = "destroy" =>
                     IF retval'[t] = "QUEUE_SUCCESS" THEN leaked = {}
                     ELSE {"key", "buffer", "struct"} \subseteq leaked]_Lifetime!vars
  BY LifetimeStep DEF LeaksLittle, Leaked
<1> QED
  BY <1>1, <1>2, <1>3, <1>4, PTL DEF Lifetime!Spec, ReleasedOnce, Lifetime!ReleasedOnce
=============================================================================
