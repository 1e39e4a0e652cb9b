--------------------------- MODULE SignalsProofs ---------------------------
(***************************************************************************)
(* Proofs about the programs that receive signals or are stopped by them:  *)
(* those of ex06 (signals, sigcalc, syscount) and siglogd of hw06; and     *)
(* about the threads of ptgrep of hw08.  The components are the instances  *)
(* of Signals, for any values of its constants.                            *)
(***************************************************************************)
EXTENDS Signals, TLAPS

-----------------------------------------------------------------------------
(* suspend.c and syncsig.c *)

\* suspend.c has the signal blocked outside sigsuspend once it has a handler, so a
\* handler runs in sigsuspend only and is followed by the log message.  syncsig.c
\* has it blocked for good.
SigWaitInv ==
    /\ file \in {"await", "suspend", "syncsig"}
    /\ wait_pc \in {"start", "install", "loop", "waiting", "check", "sleep", "ended"}
    /\ wait_pc = "start" => ~wait_installed
    /\ file = "suspend" =>
         /\ wait_pc \in {"install", "loop", "check", "sleep"} => blocked
         /\ wait_pc \in {"loop", "waiting", "check", "sleep"} => wait_installed
         /\ wait_pc = "check" => received
    /\ file = "syncsig" =>
         /\ wait_pc \in {"start", "loop", "waiting", "ended"}
         /\ wait_pc \in {"loop", "waiting"} => blocked
    /\ NotForgotten

\* No step of the program, of a sender or of the kernel breaks it.
LEMMA SigWaitStep == SigWaitInv /\ [SigWait!Next]_SigWait!vars => SigWaitInv'
<1> SUFFICES ASSUME SigWaitInv, [SigWait!Next]_SigWait!vars PROVE SigWaitInv'
  OBVIOUS
<1> USE DEF SigWaitInv, NotForgotten, SigWait!NotForgotten
<1>1. CASE SigWait!Send
  BY <1>1 DEF SigWait!Send
<1>2. CASE SigWait!Deliver
  <2>1. file' = file /\ wait_installed' = wait_installed /\ ~blocked /\ wait_pc # "ended"
    BY <1>2 DEF SigWait!Deliver
  <2>2. received' <=> received \/ wait_installed
    BY <1>2, Zenon DEF SigWait!Deliver
  <2>3. blocked' <=> file = "suspend" /\ wait_pc = "waiting"
    BY <1>2, Zenon DEF SigWait!Deliver
  <2>4. wait_pc' = IF ~wait_installed THEN "ended"
                   ELSE IF wait_pc = "waiting" THEN "check" ELSE wait_pc
    BY <1>2 DEF SigWait!Deliver
  <2> QED
    BY <2>1, <2>2, <2>3, <2>4
<1>3. CASE SigWait!Block
  BY <1>3 DEF SigWait!Block, SigWait!Goes
<1>4. CASE SigWait!Install
  BY <1>4 DEF SigWait!Install, SigWait!Goes
<1>5. CASE SigWait!Fail
  BY <1>5 DEF SigWait!Fail, SigWait!Goes
<1>6. CASE SigWait!Wait
  BY <1>6, ZenonT(30) DEF SigWait!Wait, SigWait!Goes
<1>7. CASE SigWait!Take
  BY <1>7 DEF SigWait!Take, SigWait!Goes
<1>8. CASE SigWait!Check
  BY <1>8, ZenonT(30) DEF SigWait!Check, SigWait!Goes
<1>9. CASE SigWait!Reset
  BY <1>9 DEF SigWait!Reset, SigWait!Goes
<1>10. CASE UNCHANGED SigWait!vars
  BY <1>10 DEF SigWait!vars
<1> QED
  BY <1>1, <1>2, <1>3, <1>4, <1>5, <1>6, <1>7, <1>8, <1>9, <1>10 DEF SigWait!Next

\* However many signals are sent and whenever they come, suspend.c and syncsig.c have
\* every one still pending or are about to log it, until they have.
THEOREM NoSignalForgotten == SigWait!Spec => []NotForgotten
<1>1. SigWait!Init => SigWaitInv
  BY DEF SigWait!Init, SigWaitInv, NotForgotten, SigWait!NotForgotten
<1>2. SigWaitInv => NotForgotten
  BY DEF SigWaitInv
<1> QED
  BY <1>1, <1>2, SigWaitStep, PTL DEF SigWait!Spec

-----------------------------------------------------------------------------
(* sigcalc.c *)

Frames == [sig : Sigcalc!Signals, value : Int, saved : {Sigcalc!Signals}]

\* The number that is pending, and the one a handler has.
Waiting == IF calc_pending["ADD"] = NONE THEN 0 ELSE calc_pending["ADD"]
Handled ==
    IF Len(calc_frames) = 1 /\ calc_frames[1].sig = "ADD" THEN calc_frames[1].value ELSE 0

\* Both signals are blocked outside sigsuspend and while a handler runs, so there is one
\* handler at a time; both have a handler before the first sigsuspend.
SigcalcControl ==
    /\ calc_pc \in {"start", "install", "loop", "suspended", "ended"}
    /\ calc_mask \subseteq Sigcalc!Signals
    /\ calc_pc = "start" => calc_installed = {}
    /\ calc_pc = "install" => calc_installed \subseteq {"GET"}
    /\ calc_pc \in {"install", "loop"} => calc_mask = Sigcalc!Signals
    /\ calc_pc \in {"loop", "suspended"} => calc_installed = Sigcalc!Signals
    /\ calc_frames \in Seq(Frames) /\ Len(calc_frames) \in {0, 1}
    /\ Len(calc_frames) = 1 => calc_pc = "suspended" /\ calc_mask = Sigcalc!Signals

SigcalcInv ==
    /\ SigcalcControl
    /\ calc_pending \in [Sigcalc!Signals -> Int \cup {NONE}]
    /\ counter \in Int /\ requested \in Int /\ dropped \in Int
    /\ calc_pc # "ended" => requested - dropped = counter + Waiting + Handled

\* No step of the server, of a client or of the kernel breaks it.
LEMMA SigcalcStep ==
    ASSUME Numbers \subseteq Int, NONE \notin Int, SigcalcInv, [Sigcalc!Next]_Sigcalc!vars
    PROVE  SigcalcInv'
<1> USE DEF SigcalcInv
<1>s. "ADD" \in Sigcalc!Signals /\ "GET" \in Sigcalc!Signals
  BY DEF Sigcalc!Signals
<1>i. Waiting \in Int /\ Handled \in Int
  <2>1. Waiting \in Int
    BY <1>s DEF Waiting
  <2>2. Len(calc_frames) = 1 => calc_frames[1] \in Frames
    BY DEF SigcalcControl
  <2> QED
    BY <2>1, <2>2 DEF Handled, Frames
<1>1. ASSUME NEW number \in Numbers, Sigcalc!add(number) PROVE SigcalcInv'
  <2>1. SigcalcControl' /\ Handled' = Handled
    BY <1>1 DEF Sigcalc!add, SigcalcControl, Handled
  <2>2. CASE calc_pending["ADD"] = NONE
    BY <1>1, <1>s, <1>i, <2>1, <2>2 DEF Sigcalc!add, Waiting
  <2>3. CASE calc_pending["ADD"] # NONE
    BY <1>1, <1>s, <1>i, <2>1, <2>3 DEF Sigcalc!add, Waiting
  <2> QED
    BY <2>2, <2>3
<1>2. CASE Sigcalc!get
  <2>1. SigcalcControl' /\ Handled' = Handled
    BY <1>2 DEF Sigcalc!get, SigcalcControl, Handled
  <2>2. Waiting' = Waiting
    BY <1>2, <1>s DEF Sigcalc!get, Waiting
  <2>3. calc_pending' \in [Sigcalc!Signals -> Int \cup {NONE}]
    BY <1>2, <1>s DEF Sigcalc!get
  <2> QED
    BY <1>2, <2>1, <2>2, <2>3 DEF Sigcalc!get
<1>3. ASSUME NEW s \in Sigcalc!Signals, Sigcalc!Deliver(s) PROVE SigcalcInv'
  <2>1. CASE s \in calc_installed
    <3>1. calc_pc = "suspended" /\ Len(calc_frames) = 0
      BY <1>3, <2>1 DEF Sigcalc!Deliver, SigcalcControl
    <3>2. calc_frames = <<>>
      BY <3>1 DEF SigcalcControl
    <3>3. calc_pending[s] \in Int
      BY <1>3 DEF Sigcalc!Deliver
    <3> DEFINE f == [sig |-> s, value |-> calc_pending[s], saved |-> Sigcalc!Signals]
    <3>4. f \in Frames /\ f.sig = s /\ f.value = calc_pending[s]
      BY <3>3 DEF Frames
    <3>5. calc_frames' = Append(calc_frames, f)
      BY <1>3, <2>1, <3>2 DEF Sigcalc!Deliver
    <3> HIDE DEF f
    <3>6. calc_frames' \in Seq(Frames) /\ Len(calc_frames') = 1 /\ calc_frames'[1] = f
      BY <3>1, <3>4, <3>5 DEF SigcalcControl
    <3>7. /\ calc_pending' = [calc_pending EXCEPT ![s] = NONE]
          /\ calc_mask' = calc_mask \cup Sigcalc!Signals \cup {s}
          /\ UNCHANGED <<calc_pc, calc_installed, counter, requested, dropped>>
      BY <1>3, <2>1 DEF Sigcalc!Deliver, Sigcalc!SaMask
    <3>8. calc_mask \cup Sigcalc!Signals \cup {s} = Sigcalc!Signals
      BY <1>3 DEF SigcalcControl
    <3>9. SigcalcControl'
      BY <3>1, <3>6, <3>7, <3>8 DEF SigcalcControl
    <3>10. Waiting' + Handled' = Waiting + Handled
      <4>1. CASE s = "ADD"
        BY <1>s, <3>1, <3>3, <3>4, <3>6, <3>7, <4>1 DEF Waiting, Handled
      <4>2. CASE s # "ADD"
        BY <1>s, <1>i, <3>1, <3>4, <3>6, <3>7, <4>2 DEF Waiting, Handled
      <4> QED
        BY <4>1, <4>2
    <3>11. Waiting' \in Int /\ Handled' \in Int
      BY <1>s, <3>3, <3>4, <3>6, <3>7 DEF Waiting, Handled
    <3>12. calc_pending' \in [Sigcalc!Signals -> Int \cup {NONE}]
      BY <1>3, <3>7
    <3>13. requested' - dropped' = counter' + Waiting' + Handled'
      BY <1>i, <3>1, <3>7, <3>10, <3>11 DEF Waiting, Handled
    <3> QED
      BY <3>7, <3>9, <3>12, <3>13
  <2>2. CASE s \notin calc_installed
    BY <1>3, <2>2 DEF Sigcalc!Deliver, SigcalcControl
  <2> QED
    BY <2>1, <2>2
<1>4. CASE Sigcalc!Block
  BY <1>4 DEF Sigcalc!Block, Sigcalc!Goes, SigcalcControl, Waiting, Handled
<1>5. ASSUME NEW s \in Sigcalc!Signals, Sigcalc!Install(s) PROVE SigcalcInv'
  <2>1. CASE s = "GET"
    BY <1>5, <2>1 DEF Sigcalc!Install, Sigcalc!Goes, SigcalcControl, Waiting, Handled
  <2>2. CASE s = "ADD"
    <3>1. calc_pc = "install" => calc_installed \cup {"ADD"} = Sigcalc!Signals
      BY <1>5, <2>2 DEF Sigcalc!Install, SigcalcControl, Sigcalc!Signals
    <3> QED
      BY <1>5, <2>2, <3>1 DEF Sigcalc!Install, Sigcalc!Goes, SigcalcControl, Waiting, Handled
  <2> QED
    BY <2>1, <2>2 DEF Sigcalc!Signals
<1>6. CASE Sigcalc!Fail
  BY <1>6 DEF Sigcalc!Fail, Sigcalc!Goes, SigcalcControl
<1>7. CASE Sigcalc!Suspend
  BY <1>7 DEF Sigcalc!Suspend, Sigcalc!Goes, SigcalcControl, Waiting, Handled
<1>8. CASE Sigcalc!usrsigadd \/ Sigcalc!usrsigget
  <2>1. calc_frames # <<>> /\ calc_frames \in Seq(Frames) /\ Len(calc_frames) \in {0, 1}
    BY <1>8 DEF Sigcalc!usrsigadd, Sigcalc!usrsigget, SigcalcControl
  <2>2. Len(calc_frames) = 1 /\ calc_frames[1] \in Frames
    BY <2>1
  <2>3. Sigcalc!Running = calc_frames[1]
    BY <2>2 DEF Sigcalc!Running
  <2>4. calc_frames' = SubSeq(calc_frames, 1, 0) /\ calc_pc' = "loop"
        /\ calc_mask' = Sigcalc!Signals
    BY <1>8, <2>2, <2>3 DEF Sigcalc!usrsigadd, Sigcalc!usrsigget, Sigcalc!Return, Frames
  <2>5. calc_frames' \in Seq(Frames) /\ Len(calc_frames') = 0
    BY <2>1, <2>2, <2>4
  <2>6. /\ UNCHANGED <<calc_pending, calc_installed, requested, dropped>>
        /\ counter' = counter + Handled
    BY <1>8, <2>2, <2>3, SMTT(30) DEF Sigcalc!usrsigadd, Sigcalc!usrsigget, Sigcalc!Return, Handled
  <2>7. SigcalcControl'
    BY <2>2, <2>4, <2>5, <2>6 DEF SigcalcControl
  <2>8. Waiting' = Waiting /\ Handled' = 0
    BY <2>5, <2>6 DEF Waiting, Handled
  <2> QED
    BY <1>i, <2>2, <2>6, <2>7, <2>8 DEF SigcalcControl
<1>9. CASE UNCHANGED Sigcalc!vars
  BY <1>9 DEF Sigcalc!vars, SigcalcControl, Waiting, Handled
<1> QED
  BY <1>1, <1>2, <1>3, <1>4, <1>5, <1>6, <1>7, <1>8, <1>9 DEF Sigcalc!Next, Sigcalc!ServerRuns

\* For any numbers and any order of the signals: what the clients have asked for, less
\* what the kernel dropped, is in the counter or on its way to it (usrsigadd).
THEOREM NumbersAddedOnce ==
    ASSUME Numbers \subseteq Int, NONE \notin Int
    PROVE  Sigcalc!Spec => []AddedOnce
<1>1. Sigcalc!Init => SigcalcInv
  BY DEF Sigcalc!Init, SigcalcInv, SigcalcControl, Waiting, Handled, Sigcalc!Signals
<1>2. SigcalcInv /\ [Sigcalc!Next]_Sigcalc!vars => SigcalcInv'
  BY SigcalcStep
<1>3. SigcalcInv => AddedOnce
  BY SMTT(30) DEF SigcalcInv, SigcalcControl, Waiting, Handled, AddedOnce, Sigcalc!AddedOnce,
     Sigcalc!Running
<1> QED
  BY <1>1, <1>2, <1>3, PTL DEF Sigcalc!Spec

-----------------------------------------------------------------------------
(* siglogd *)

\* The handlers that may be running, with the mask they return to.
Handlers == [sig : Siglogd!Signals, byTimer : BOOLEAN, saved : {Siglogd!Signals \cup oldset}]

\* The logged signals and SIGALRM are blocked outside sigsuspend and while a handler
\* runs, so there is one handler at a time; all have a handler before the first
\* sigsuspend.
SiglogdControl ==
    /\ daemon \in {"start", "install", "alarm", "loop", "suspended", "exited", "killed"}
    /\ pending \subseteq Siglogd!Signals
    /\ daemon = "start" => installed = {}
    /\ daemon \in {"install", "alarm", "loop"} => Siglogd!Signals \subseteq mask
    /\ daemon \in {"alarm", "loop", "suspended"} => installed = Siglogd!Signals
    /\ frames \in Seq(Handlers) /\ Len(frames) \in {0, 1}
    /\ Len(frames) = 1 =>
         /\ daemon \in {"suspended", "exited"} /\ Siglogd!Signals \subseteq mask
         /\ frames[1].byTimer => frames[1].sig = "SIGALRM"

\* What keeps the statistics being logged.
Ticking ==
    \/ armed
    \/ "SIGALRM" \in pending /\ fromTimer
    \/ Len(frames) = 1 /\ frames[1].byTimer
    \/ overlapped

SiglogdTypes ==
    timer \in BOOLEAN /\ armed \in BOOLEAN /\ fromTimer \in BOOLEAN /\ overlapped \in BOOLEAN

SiglogdInv ==
    /\ SiglogdTypes /\ SiglogdControl
    /\ timer /\ daemon \in {"loop", "suspended"} => Ticking

\* A handler that returns leaves sigsuspend with the signals blocked again.
LEMMA HandlerReturns ==
    ASSUME SiglogdControl, frames # <<>>, Siglogd!Return,
           UNCHANGED <<oldset, pending, installed>>
    PROVE  /\ SiglogdControl' /\ Len(frames') = 0
           /\ Len(frames) = 1 /\ Siglogd!Running = frames[1] /\ frames[1] \in Handlers
           /\ daemon' = IF daemon = "suspended" THEN "loop" ELSE daemon
<1> USE DEF SiglogdControl
<1>1. Len(frames) = 1 /\ frames[1] \in Handlers
  OBVIOUS
<1>2. Siglogd!Running = frames[1]
  BY <1>1 DEF Siglogd!Running
<1>3. mask' = Siglogd!Signals \cup oldset
  BY <1>1, <1>2 DEF Siglogd!Return, Handlers
<1>4. frames' = SubSeq(frames, 1, 0) /\ daemon' = IF daemon = "suspended" THEN "loop" ELSE daemon
  BY <1>1 DEF Siglogd!Return
<1>5. frames' \in Seq(Handlers) /\ Len(frames') = 0
  BY <1>4
<1>6. Handlers' = Handlers
  BY DEF Handlers, Siglogd!Signals
<1> QED
  BY <1>1, <1>2, <1>3, <1>4, <1>5, <1>6, SMTT(30) DEF Siglogd!Signals

\* No step of the daemon, of another process, of the alarm or of the kernel breaks the
\* invariant.
LEMMA SiglogdStep ==
    ASSUME "SIGALRM" \notin Logged, SiglogdInv, [Siglogd!Next]_Siglogd!vars
    PROVE  SiglogdInv'
<1> USE DEF SiglogdInv
<1>1. ASSUME NEW s \in Siglogd!Signals, Siglogd!Send(s) PROVE SiglogdInv'
  <2>1. SiglogdControl' /\ timer' = timer /\ armed' = armed /\ overlapped' = overlapped
        /\ frames' = frames /\ daemon' = daemon /\ pending' = pending \cup {s}
    BY <1>1 DEF Siglogd!Send, SiglogdControl, Handlers, Siglogd!Signals
  <2>2. fromTimer' <=> fromTimer /\ "SIGALRM" \in pending
    BY <1>1, Zenon DEF Siglogd!Send
  <2>3. fromTimer' \in BOOLEAN
    BY <1>1 DEF Siglogd!Send
  <2> QED
    BY <2>1, <2>2, <2>3 DEF SiglogdTypes, Ticking
<1>2. CASE Siglogd!AlarmEnds
  <2>1. SiglogdControl' /\ timer' = timer /\ armed' = FALSE /\ frames' = frames /\ daemon' = daemon
    BY <1>2 DEF Siglogd!AlarmEnds, SiglogdControl, Handlers, Siglogd!Signals
  <2>2. overlapped' <=> overlapped \/ ~fromTimer'
    BY <1>2, Zenon DEF Siglogd!AlarmEnds
  <2>3. overlapped' \in BOOLEAN /\ fromTimer' \in BOOLEAN /\ "SIGALRM" \in pending'
    BY <1>2 DEF Siglogd!AlarmEnds
  <2> QED
    BY <2>1, <2>2, <2>3, ZenonT(30) DEF SiglogdTypes, Ticking
<1>3. ASSUME NEW s \in Siglogd!Signals, Siglogd!Deliver(s) PROVE SiglogdInv'
  <2>1. /\ UNCHANGED <<timer, oldset, fromTimer, installed, armed, overlapped>>
        /\ s \in pending \ mask /\ pending' = pending \ {s}
        /\ Len(frames) = 0 /\ daemon \in {"start", "suspended"}
    BY <1>3 DEF Siglogd!Deliver, Siglogd!Alive, SiglogdControl
  <2>2. CASE s \in installed
    <3> DEFINE f == [sig |-> s, byTimer |-> s = "SIGALRM" /\ fromTimer,
                     saved |-> Siglogd!Signals \cup oldset]
    <3>1. daemon = "suspended" /\ frames = <<>>
      BY <2>1, <2>2 DEF SiglogdControl
    <3>2. f \in Handlers /\ f.sig = s /\ (f.byTimer <=> s = "SIGALRM" /\ fromTimer)
      BY ZenonT(30) DEF Handlers
    <3>3. frames' = Append(frames, f) /\ mask' = mask \cup Siglogd!Signals \cup {s} /\ daemon' = daemon
      BY <1>3, <2>2, <3>1, ZenonT(30) DEF Siglogd!Deliver, Siglogd!SaMask
    <3> HIDE DEF f
    <3>4. frames' \in Seq(Handlers) /\ Len(frames') = 1 /\ frames'[1] = f
      BY <2>1, <3>2, <3>3, SMTT(30) DEF SiglogdControl
    <3>5. Handlers' = Handlers
      BY <2>1 DEF Handlers, Siglogd!Signals
    <3>6. SiglogdControl'
      BY <2>1, <3>1, <3>2, <3>3, <3>4, <3>5 DEF SiglogdControl, Siglogd!Signals
    <3>7. Ticking => Ticking'
      BY <2>1, <3>2, <3>4, SMTT(30) DEF Ticking
    <3> QED
      BY <2>1, <3>1, <3>3, <3>6, <3>7 DEF SiglogdTypes
  <2>3. CASE s \notin installed
    <3>1. daemon = "start" /\ daemon' \in {"start", "killed"} /\ UNCHANGED <<frames, mask>>
      BY <1>3, <2>1, <2>3 DEF Siglogd!Deliver, SiglogdControl
    <3>2. SiglogdControl'
      BY <2>1, <3>1 DEF SiglogdControl, Handlers, Siglogd!Signals
    <3> QED
      BY <2>1, <3>1, <3>2 DEF SiglogdTypes
  <2> QED
    BY <2>2, <2>3
<1>4. CASE Siglogd!Block
  BY <1>4 DEF Siglogd!Block, SiglogdControl, SiglogdTypes, Handlers, Siglogd!Signals
<1>5. CASE Siglogd!Install
  BY <1>5 DEF Siglogd!Install, Siglogd!kernel, SiglogdControl, SiglogdTypes, Handlers,
     Siglogd!Signals
<1>6. CASE Siglogd!Fail
  BY <1>6 DEF Siglogd!Fail, Siglogd!kernel, SiglogdControl, SiglogdTypes, Handlers, Siglogd!Signals
<1>7. CASE Siglogd!SetAlarm
  <2>1. SiglogdControl' /\ SiglogdTypes'
    BY <1>7 DEF Siglogd!SetAlarm, Siglogd!kernel, SiglogdControl, SiglogdTypes, Handlers,
       Siglogd!Signals
  <2> QED
    BY <1>7, <2>1 DEF Siglogd!SetAlarm, Ticking
<1>8. CASE Siglogd!Suspend
  <2>1. SiglogdControl' /\ SiglogdTypes'
    BY <1>8 DEF Siglogd!Suspend, SiglogdControl, SiglogdTypes, Handlers, Siglogd!Signals
  <2> QED
    BY <1>8, <2>1 DEF Siglogd!Suspend, Ticking
<1>9. CASE Siglogd!signal_handler
  <2>1. CASE Siglogd!Running.sig \in {"SIGTERM", "SIGINT"}
    BY <1>9, <2>1 DEF Siglogd!signal_handler, SiglogdControl, SiglogdTypes, Handlers,
       Siglogd!Signals
  <2>2. CASE Siglogd!Running.sig \notin {"SIGTERM", "SIGINT"}
    <3>1. /\ frames # <<>> /\ Siglogd!Return /\ Siglogd!Running.sig \in Logged
          /\ UNCHANGED <<timer, oldset, pending, fromTimer, installed, armed, overlapped>>
      BY <1>9, <2>2 DEF Siglogd!signal_handler
    <3>2. /\ SiglogdControl' /\ Len(frames') = 0
          /\ Len(frames) = 1 /\ Siglogd!Running = frames[1]
          /\ daemon' = IF daemon = "suspended" THEN "loop" ELSE daemon
      BY <3>1, HandlerReturns
    <3>3. ~frames[1].byTimer
      BY <3>1, <3>2 DEF SiglogdControl
    <3>4. Ticking => Ticking'
      BY <3>1, <3>2, <3>3 DEF Ticking
    <3> QED
      BY <3>1, <3>2, <3>4 DEF SiglogdTypes, SiglogdControl
  <2> QED
    BY <2>1, <2>2
<1>10. CASE Siglogd!alarm_handler
  <2>1. /\ frames # <<>> /\ Siglogd!Return
        /\ UNCHANGED <<timer, oldset, pending, fromTimer, installed, overlapped>>
    BY <1>10 DEF Siglogd!alarm_handler
  <2>2. armed' <=> armed \/ (Siglogd!Running.byTimer /\ timer)
    BY <1>10, Zenon DEF Siglogd!alarm_handler
  <2>3. /\ SiglogdControl' /\ Len(frames') = 0
        /\ Len(frames) = 1 /\ Siglogd!Running = frames[1]
        /\ daemon' = IF daemon = "suspended" THEN "loop" ELSE daemon
    BY <2>1, HandlerReturns
  <2>4. armed' \in BOOLEAN
    BY <1>10 DEF Siglogd!alarm_handler
  <2>5. timer /\ Ticking => Ticking'
    BY <2>1, <2>2, <2>3 DEF Ticking
  <2> QED
    BY <2>1, <2>3, <2>4, <2>5 DEF SiglogdTypes, SiglogdControl
<1>11. CASE UNCHANGED Siglogd!vars
  <2>1. SiglogdControl' /\ SiglogdTypes'
    BY <1>11 DEF Siglogd!vars, Siglogd!kernel, SiglogdControl, SiglogdTypes, Handlers,
       Siglogd!Signals
  <2> QED
    BY <1>11, <2>1 DEF Siglogd!vars, Siglogd!kernel, Ticking
<1> QED
  BY <1>1, <1>2, <1>3, <1>4, <1>5, <1>6, <1>7, <1>8, <1>9, <1>10, <1>11
     DEF Siglogd!Next, Siglogd!DaemonRuns

\* Only a signal that comes before sigprocmask kills the daemon.
LEMMA KilledBeforeBlock ==
    ASSUME SiglogdInv, Siglogd!Next, daemon' = "killed"
    PROVE  daemon = "start"
<1>1. ASSUME NEW s \in Siglogd!Signals, Siglogd!Deliver(s) PROVE daemon = "start"
  BY <1>1 DEF Siglogd!Deliver, Siglogd!Alive, SiglogdInv, SiglogdControl
<1>2. CASE Siglogd!AlarmEnds \/ \E s \in Siglogd!Signals : Siglogd!Send(s)
  BY <1>2 DEF Siglogd!AlarmEnds, Siglogd!Send, Siglogd!Alive
<1>3. CASE Siglogd!signal_handler \/ Siglogd!alarm_handler
  BY <1>3 DEF Siglogd!signal_handler, Siglogd!alarm_handler, Siglogd!Return, Siglogd!Alive
<1>4. CASE Siglogd!Block \/ Siglogd!Install \/ Siglogd!Fail \/ Siglogd!SetAlarm \/ Siglogd!Suspend
  BY <1>4 DEF Siglogd!Block, Siglogd!Install, Siglogd!Fail, Siglogd!SetAlarm, Siglogd!Suspend
<1> QED
  BY <1>1, <1>2, <1>3, <1>4, SMTT(30) DEF Siglogd!Next, Siglogd!DaemonRuns

\* The invariant holds from the beginning.
LEMMA SiglogdHolds ==
    ASSUME "SIGALRM" \notin Logged
    PROVE  Siglogd!Spec => []SiglogdInv
<1>1. Siglogd!Init => SiglogdInv
  <2> SUFFICES ASSUME Siglogd!Init PROVE SiglogdInv
    OBVIOUS
  <2>1. SiglogdTypes
    BY ZenonT(30) DEF Siglogd!Init, SiglogdTypes
  <2>2. frames \in Seq(Handlers) /\ Len(frames) = 0
    BY DEF Siglogd!Init
  <2>3. SiglogdControl
    BY <2>2 DEF Siglogd!Init, SiglogdControl
  <2> QED
    BY <2>1, <2>3 DEF Siglogd!Init, SiglogdInv
<1>2. SiglogdInv /\ [Siglogd!Next]_Siglogd!vars => SiglogdInv'
  BY SiglogdStep
<1> QED
  BY <1>1, <1>2, PTL DEF Siglogd!Spec

\* For any logged signals but SIGALRM, whatever mask the daemon inherits: the alarm chain
\* goes on, unless a process's SIGALRM was pending when the alarm ended (alarm_handler).
THEOREM ChainGoesOn ==
    ASSUME "SIGALRM" \notin Logged
    PROVE  Siglogd!Spec => []TicksGoOn
<1>1. SiglogdInv => TicksGoOn
  BY SMTT(30) DEF SiglogdInv, SiglogdControl, Ticking, TicksGoOn, Siglogd!TicksGoOn
<1> QED
  BY <1>1, SiglogdHolds, PTL

\* For the same: handlers run in sigsuspend only, one at a time, and no signal kills the
\* daemon once it has blocked them (logger).
THEOREM HandlersOnlyInSuspend ==
    ASSUME "SIGALRM" \notin Logged
    PROVE  Siglogd!Spec => OnlyInSuspend
<1>1. SiglogdInv => Len(frames) <= 1 /\ (frames # <<>> => daemon \in {"suspended", "exited"})
  BY SMTT(30) DEF SiglogdInv, SiglogdControl
<1>2. SiglogdInv /\ [Siglogd!Next]_Siglogd!vars
        => [daemon' = "killed" => daemon = "start"]_Siglogd!vars
  BY KilledBeforeBlock
<1> QED
  BY <1>1, <1>2, SiglogdHolds, PTL DEF Siglogd!Spec, OnlyInSuspend, Siglogd!OnlyInSuspend

-----------------------------------------------------------------------------
(* syscount *)

SyscountTypes ==
    /\ child \in {"new", "running", "stopped", "exited", "killed"}
    /\ tracer \in {"setup", "count", "returned", "failed"}
    /\ seen \in {"none", "stopped", "exited", "killed"}
    /\ call \in Syscount!Calls \cup {"none"}
    /\ execs \in Nat /\ entered \in Nat /\ calls \in Nat
    /\ trap \in BOOLEAN /\ syscall_enter \in BOOLEAN /\ stray \in BOOLEAN

\* What the parent knows of the child, and a child that has forked by a call of the switch
\* is stopped where the parent will find it out.
SyscountControl ==
    /\ child = "running" => tracer = "count" /\ seen = "none"
    /\ child = "stopped" => tracer \in {"setup", "count"}
    /\ seen = "stopped" => child \in {"stopped", "killed"}
    /\ seen \in {"exited", "killed"} => child = seen
    /\ child \in {"new", "running"} => seen = "none"
    /\ tracer = "setup" => ~trap /\ syscall_enter /\ call = "none" /\ stopsig # "SIGTRAP"
                           /\ execs = 0 /\ entered = 0 /\ calls = 0 /\ forked = {} /\ ~stray
    /\ child = "new" => tracer = "setup"
    /\ child = "exited" /\ tracer \in {"count", "returned"} => call = "exit_group" /\ ~trap
    /\ call # "none" => orig_rax = call /\ ~trap /\ (child = "stopped" => stopsig = "SIGTRAP")
    /\ call \in Syscount!Invalid /\ child = "running" => syscall_enter
    /\ forked \cap Syscount!Invalid # {} =>
         \/ child = "killed"
         \/ child = "stopped" /\ stopsig = "SIGTRAP" /\ syscall_enter /\ orig_rax \in Syscount!Invalid

One(b) == IF b THEN 1 ELSE 0

\* Of the stops with SIGTRAP - two for a call, but one for the call the child is in, and
\* one for an execve, but for the one that is pending - the parent has counted every
\* second, the one that waits for it excepted.
Balance ==
    2 * calls + One(child = "stopped" /\ stopsig = "SIGTRAP") + One(call # "none") + One(trap)
      = 2 * entered + execs + One(~syscall_enter)

SyscountInv ==
    /\ SyscountTypes /\ SyscountControl
    /\ tracer # "failed" /\ child # "killed" /\ ~stray => Balance

\* No step of the child, of the kernel or of the parent breaks the invariant.
LEMMA SyscountStep ==
    ASSUME SyscountInv, [Syscount!Next]_Syscount!vars
    PROVE  SyscountInv'
<1> USE DEF SyscountInv, SyscountTypes, SyscountControl, Balance, One, Syscount!Invalid, Syscount!Calls
<1>1. CASE Syscount!run_tracee
  BY <1>1, ZenonT(30) DEF Syscount!run_tracee, Syscount!Stop
<1>2. ASSUME NEW n \in Syscount!Calls, Syscount!Enter(n) PROVE SyscountInv'
  BY <1>2, SMTT(30) DEF Syscount!Enter, Syscount!Stop
<1>3. CASE Syscount!Leave
  <2> USE <1>3 DEF Syscount!Leave, Syscount!Stop
  <2>1. CASE call = "execve" /\ execs' = execs + 1 /\ trap' = TRUE /\ UNCHANGED forked
    BY <2>1, SMTT(30)
  <2>2. CASE /\ call \in {"fork", "clone", "clone3"} /\ forked' = forked \cup {call}
             /\ UNCHANGED <<execs, trap>>
    BY <2>2, SMTT(30)
  <2>3. CASE UNCHANGED <<execs, trap, forked>>
    BY <2>3, SMTT(30)
  <2> QED
    BY <2>1, <2>2, <2>3, ZenonT(30)
<1>4. CASE Syscount!Exit
  BY <1>4, ZenonT(30) DEF Syscount!Exit
<1>5. CASE Syscount!ExecTrap
  <2>1. SyscountTypes' /\ SyscountControl'
    BY <1>5, ZenonT(30) DEF Syscount!ExecTrap, Syscount!Stop
  <2>2. Balance => Balance'
    BY <1>5, SMTT(30) DEF Syscount!ExecTrap, Syscount!Stop
  <2> QED
    BY <1>5, <2>1, <2>2, ZenonT(30) DEF Syscount!ExecTrap
<1>6. ASSUME NEW sig \in {"SIGTRAP", "other"}, Syscount!Signal(sig) PROVE SyscountInv'
  <2>1. stray' <=> stray \/ sig = "SIGTRAP"
    BY <1>6, Zenon DEF Syscount!Signal
  <2>2. stray' \in BOOLEAN
    BY <1>6, SMTT(30) DEF Syscount!Signal
  <2> QED
    BY <1>6, <2>1, <2>2, ZenonT(30) DEF Syscount!Signal, Syscount!Stop
<1>7. CASE Syscount!Kill
  BY <1>7, SMTT(30) DEF Syscount!Kill
<1>8. CASE Syscount!Wait
  BY <1>8, ZenonT(30) DEF Syscount!Wait
<1>9. CASE Syscount!run_tracer
  BY <1>9, ZenonT(30) DEF Syscount!run_tracer, Syscount!Ends
<1>10. CASE Syscount!count_syscalls
  <2>1. /\ tracer = "count" /\ seen # "none"
        /\ UNCHANGED <<stopsig, call, orig_rax, execs, trap, entered, forked, signals, stray>>
    BY <1>10, ZenonT(30) DEF Syscount!count_syscalls
  <2>2. CASE /\ seen = "exited" /\ tracer' = "returned"
             /\ UNCHANGED <<child, seen, calls, syscall_enter>>
    BY <2>1, <2>2, ZenonT(30)
  <2>3. ASSUME NEW nr \in Syscount!Registers, seen = "stopped", Syscount!SyscallStop, syscall_enter,
               nr \in Syscount!Invalid, Syscount!Ends("returned"), UNCHANGED <<calls, syscall_enter>>
        PROVE  SyscountInv'
    BY <2>1, <2>3, ZenonT(30) DEF Syscount!Ends
  <2>4. ASSUME NEW nr \in Syscount!Registers, seen = "stopped", Syscount!SyscallStop, syscall_enter,
               nr \notin Syscount!Invalid, calls' = calls + 1, syscall_enter' = FALSE,
               Syscount!ResumeOrReturn
        PROVE  SyscountInv'
    <3> USE <2>1, <2>4 DEF Syscount!ResumeOrReturn, Syscount!SyscallStop
    <3>1. child = "stopped" => nr = orig_rax
      BY ZenonT(30) DEF Syscount!Registers
    <3>2. child = "stopped" => forked \cap Syscount!Invalid = {} /\ call \notin Syscount!Invalid
      BY <3>1, ZenonT(30)
    <3>3. SyscountTypes'
      <4>1. syscall_enter' \in BOOLEAN
        BY Zenon
      <4>2. calls' \in Nat
        BY SMTT(30)
      <4>3. child' \in {child, "running"} /\ tracer' \in {tracer, "returned"} /\ seen' = "none"
        OBVIOUS
      <4> QED
        BY <4>1, <4>2, <4>3
    <3>4. SyscountControl'
      BY <3>2, ZenonT(30)
    <3>5. child = "stopped" /\ Balance => Balance'
      BY SMTT(30)
    <3> QED
      BY <3>3, <3>4, <3>5, ZenonT(30)
  <2>5. CASE /\ seen = "stopped" /\ Syscount!SyscallStop /\ ~syscall_enter
             /\ syscall_enter' = TRUE /\ Syscount!ResumeOrReturn /\ UNCHANGED calls
    <3> USE <2>1, <2>5 DEF Syscount!ResumeOrReturn, Syscount!SyscallStop
    <3>1. SyscountTypes' /\ SyscountControl'
      OBVIOUS
    <3>2. child = "stopped" /\ Balance => Balance'
      BY SMTT(30)
    <3> QED
      BY <3>1, <3>2, ZenonT(30)
  <2>6. CASE /\ seen = "killed" \/ (seen = "stopped" /\ ~Syscount!SyscallStop)
             /\ Syscount!ResumeOrReturn /\ UNCHANGED <<calls, syscall_enter>>
    <3> USE <2>1, <2>6 DEF Syscount!ResumeOrReturn, Syscount!SyscallStop
    <3>1. SyscountTypes' /\ SyscountControl'
      OBVIOUS
    <3>2. child # "killed" /\ Balance => Balance'
      BY ZenonT(30)
    <3> QED
      BY <3>1, <3>2, ZenonT(30)
  <2> QED
    BY <1>10, <2>2, <2>3, <2>4, <2>5, <2>6, ZenonT(30) DEF Syscount!count_syscalls
<1>11. CASE UNCHANGED Syscount!vars
  <2>1. SyscountTypes' /\ SyscountControl'
    BY <1>11, SMTT(30) DEF Syscount!vars
  <2>2. Balance => Balance'
    BY <1>11 DEF Syscount!vars
  <2> QED
    BY <1>11, <2>1, <2>2, ZenonT(30) DEF Syscount!vars
<1> QED
  BY <1>1, <1>2, <1>3, <1>4, <1>5, <1>6, <1>7, <1>8, <1>9, <1>10, <1>11, ZenonT(30)
     DEF Syscount!Next

\* For any number of calls and signals: the number main prints for a child that executed at
\* most one program and exits is that of its calls, unless a SIGTRAP came from elsewhere,
\* and a child that has forked by a call of the switch performs no other (count_syscalls).
THEOREM CallsCounted == Syscount!Spec => CountsCalls
<1>1. Syscount!Init => SyscountInv
  <2> SUFFICES ASSUME Syscount!Init PROVE SyscountInv
    OBVIOUS
  <2> USE DEF Syscount!Init
  <2>1. SyscountTypes
    BY ZenonT(30) DEF SyscountTypes
  <2>2. SyscountControl
    BY DEF SyscountControl
  <2>3. Balance
    BY DEF Balance, One
  <2> QED
    BY <2>1, <2>2, <2>3 DEF SyscountInv
<1>2. SyscountInv /\ [Syscount!Next]_Syscount!vars => SyscountInv'
  BY SyscountStep
<1>3. SyscountInv => (tracer = "returned" /\ seen = "exited" /\ execs <= 1 /\ ~stray
                        => calls = entered)
  BY DEF SyscountInv, SyscountTypes, SyscountControl, Balance, One
<1>4. SyscountInv /\ [Syscount!Next]_Syscount!vars
        => [forked \cap {"fork", "clone"} # {} => entered' = entered]_Syscount!vars
  BY ZenonT(30) DEF SyscountInv, SyscountTypes, SyscountControl, Syscount!Invalid, Syscount!Next, Syscount!vars,
     Syscount!run_tracee, Syscount!Enter, Syscount!Leave, Syscount!Exit, Syscount!ExecTrap,
     Syscount!Signal, Syscount!Kill, Syscount!Wait, Syscount!run_tracer, Syscount!count_syscalls
<1> QED
  BY <1>1, <1>2, <1>3, <1>4, PTL DEF Syscount!Spec, CountsCalls, Syscount!CountsCalls

-----------------------------------------------------------------------------
(* ptgrep *)

GrepTypes ==
    /\ lines \in [1 .. Searchers -> Seq(Nat)]
    /\ opened \in [1 .. Searchers -> BOOLEAN] /\ found \in [1 .. Searchers -> BOOLEAN]
    /\ line_num \in [1 .. Searchers -> Nat] /\ passed \in [1 .. Searchers -> Nat]
    /\ grep_pc \in [1 .. Searchers -> {"none", "start", "search", "end"}]
    /\ main \in {"create", "join", "exit"} /\ joined \in 1 .. Searchers + 1
    /\ all_opened \in BOOLEAN /\ any_found \in BOOLEAN

\* What a thread knows of its file: found is about the lines it has finished and the
\* matches it has passed.
Knows(t) ==
    /\ grep_pc[t] \in {"none", "start"} => ~opened[t]
    /\ grep_pc[t] = "search" => opened[t]
    /\ grep_pc[t] = "end" /\ opened[t] => line_num[t] = Len(lines[t])
    /\ found[t] => opened[t] /\ Ptgrep!Matches(t)
    /\ ~found[t] => passed[t] = 0 /\ \A k \in 1 .. line_num[t] : lines[t][k] = 0
    /\ line_num[t] <= Len(lines[t])

\* What main has put together: the results of those that it has joined.
Joined ==
    /\ main = "create" =>
          /\ all_opened /\ ~any_found
          /\ \A t \in joined .. Searchers : grep_pc[t] = "none"
    /\ main = "join" =>
          /\ all_opened <=> \A t \in 1 .. joined - 1 : opened[t]
          /\ any_found <=> \E t \in 1 .. joined - 1 : found[t]
          /\ \A t \in 1 .. joined - 1 : grep_pc[t] = "end"

GrepInv ==
    /\ GrepTypes /\ (\A t \in 1 .. Searchers : Knows(t))
    /\ Joined /\ Ptgrep!StatusRight

\* A thread learns what is in its own file.
LEMMA ThreadKnows ==
    ASSUME GrepTypes, NEW t \in 1 .. Searchers, Knows(t), Ptgrep!ThreadRuns(t)
    PROVE  GrepTypes' /\ Knows(t)'
<1> USE DEF GrepTypes
<1>1. CASE Ptgrep!Open(t)
  BY <1>1, ZenonT(30) DEF Ptgrep!Open, Ptgrep!Goto, Knows, Ptgrep!Matches
<1>2. CASE Ptgrep!Match(t)
  <2>1. Ptgrep!Matches(t)
    <3>1. line_num[t] + 1 \in 1 .. Len(lines[t]) /\ lines[t][line_num[t] + 1] > 0
      BY <1>2 DEF Ptgrep!Match, Ptgrep!MoreMatches
    <3> QED
      BY <3>1 DEF Ptgrep!Matches
  <2>2. /\ found' = [found EXCEPT ![t] = TRUE] /\ passed' \in [1 .. Searchers -> Nat]
        /\ grep_pc[t] = "search"
        /\ UNCHANGED <<lines, opened, line_num, grep_pc, main, joined, all_opened, any_found>>
    BY <1>2, SMTT(30) DEF Ptgrep!Match
  <2> QED
    BY <2>1, <2>2 DEF Knows, Ptgrep!Matches
<1>3. CASE Ptgrep!NextLine(t)
  <2>1. /\ line_num[t] < Len(lines[t]) /\ line_num' = [line_num EXCEPT ![t] = @ + 1]
        /\ passed' = [passed EXCEPT ![t] = 0] /\ grep_pc[t] = "search"
        /\ ~(passed[t] < lines[t][line_num[t] + 1])
        /\ UNCHANGED <<lines, opened, found, grep_pc, main, joined, all_opened, any_found>>
    BY <1>3 DEF Ptgrep!NextLine, Ptgrep!MoreMatches
  <2>2. lines[t][line_num[t] + 1] \in Nat /\ line_num[t] \in Nat /\ Len(lines[t]) \in Nat
    BY <2>1
  <2>3. ~found[t] => lines[t][line_num[t] + 1] = 0
    BY <2>1, <2>2 DEF Knows
  <2>4. ~found'[t] => passed'[t] = 0 /\ \A k \in 1 .. line_num'[t] : lines'[t][k] = 0
    BY <2>1, <2>2, <2>3, SMTT(30) DEF Knows
  <2> QED
    BY <2>1, <2>2, <2>4 DEF Knows, Ptgrep!Matches
<1>4. CASE Ptgrep!EndOfFile(t)
  BY <1>4, SMTT(30) DEF Ptgrep!EndOfFile, Ptgrep!Goto, Knows, Ptgrep!Matches
<1> QED
  BY <1>1, <1>2, <1>3, <1>4, ZenonT(30) DEF Ptgrep!ThreadRuns

\* And leaves alone what the others know, and what main has.
LEMMA ThreadLeaves ==
    ASSUME GrepTypes, NEW t \in 1 .. Searchers, Ptgrep!ThreadRuns(t)
    PROVE  /\ main # "exit" /\ UNCHANGED <<main, joined, all_opened, any_found>>
           /\ grep_pc[t] # "end"
           /\ \A u \in 1 .. Searchers \ {t} : Knows(u) => Knows(u)'
           /\ \A u \in 1 .. Searchers \ {t} : opened'[u] = opened[u] /\ found'[u] = found[u]
                                              /\ grep_pc'[u] = grep_pc[u]
BY ZenonT(30) DEF GrepTypes, Ptgrep!ThreadRuns, Ptgrep!Open, Ptgrep!Match, Ptgrep!NextLine,
       Ptgrep!EndOfFile, Ptgrep!Goto, Knows, Ptgrep!Matches

\* No step of a thread or of main breaks the invariant.
LEMMA GrepStep == GrepInv /\ [Ptgrep!Next]_Ptgrep!vars => GrepInv'
<1> SUFFICES ASSUME GrepInv, [Ptgrep!Next]_Ptgrep!vars PROVE GrepInv'
  OBVIOUS
<1>1. GrepTypes /\ (\A t \in 1 .. Searchers : Knows(t)) /\ Joined /\ Ptgrep!StatusRight
  BY DEF GrepInv
<1>2. CASE \E t \in Ptgrep!Thread : Ptgrep!ThreadRuns(t)
  <2>1. PICK t \in 1 .. Searchers : Ptgrep!ThreadRuns(t)
    BY <1>2 DEF Ptgrep!Thread
  <2>2. GrepTypes' /\ Knows(t)'
    BY <1>1, <2>1, ThreadKnows
  <2>3. /\ main # "exit" /\ UNCHANGED <<main, joined, all_opened, any_found>>
        /\ grep_pc[t] # "end"
        /\ \A u \in 1 .. Searchers \ {t} : Knows(u) => Knows(u)'
        /\ \A u \in 1 .. Searchers \ {t} : opened'[u] = opened[u] /\ found'[u] = found[u]
                                           /\ grep_pc'[u] = grep_pc[u]
    BY <1>1, <2>1, ThreadLeaves, ZenonT(30)
  <2>4. \A u \in 1 .. Searchers : Knows(u)'
    BY <1>1, <2>2, <2>3, ZenonT(30)
  <2>5. Joined'
    <3>1. main = "join" => \A u \in 1 .. joined - 1 : u \in 1 .. Searchers \ {t}
      BY <1>1, <2>3, PtgrepAssumption, SMTT(30) DEF Joined, GrepTypes
    <3>2. grep_pc[t] # "none"
      BY <2>1 DEF Ptgrep!ThreadRuns, Ptgrep!Open, Ptgrep!Match, Ptgrep!NextLine,
             Ptgrep!EndOfFile
    <3>3. main = "create" => \A u \in joined .. Searchers : u \in 1 .. Searchers \ {t}
      BY <1>1, <3>2, PtgrepAssumption, SMTT(30) DEF Joined, GrepTypes
    <3> QED
      BY <1>1, <2>3, <3>1, <3>3, ZenonT(30) DEF Joined
  <2> QED
    BY <2>2, <2>3, <2>4, <2>5, ZenonT(30) DEF GrepInv, Ptgrep!StatusRight
<1>3. ASSUME UNCHANGED <<lines, opened, found, line_num, passed, grep_pc>>
      PROVE  \A t \in 1 .. Searchers : Knows(t)'
  BY <1>1, <1>3, ZenonT(30) DEF Knows, Ptgrep!Matches
<1>4. CASE Ptgrep!Create
  <2>1. /\ main = "create" /\ joined \in 1 .. Searchers /\ joined' = joined + 1
        /\ grep_pc' = [grep_pc EXCEPT ![joined] = "start"] /\ grep_pc[joined] = "none"
        /\ UNCHANGED <<lines, opened, found, line_num, passed, main, all_opened, any_found>>
    BY <1>1, <1>4, PtgrepAssumption DEF Ptgrep!Create, Ptgrep!Goto, GrepTypes, Joined
  <2>2. GrepTypes'
    BY <1>1, <2>1, PtgrepAssumption, SMTT(30) DEF GrepTypes
  <2>3. \A t \in 1 .. Searchers : Knows(t)'
    BY <1>1, <2>1, ZenonT(30) DEF Knows, Ptgrep!Matches, GrepTypes
  <2>4. Joined'
    BY <1>1, <2>1, PtgrepAssumption, SMTT(30) DEF Joined, GrepTypes
  <2> QED
    BY <2>1, <2>2, <2>3, <2>4 DEF GrepInv, Ptgrep!StatusRight
<1>5. CASE Ptgrep!CreateFails
  <2>1. ~(joined' > Searchers) /\ main' = "exit" /\ UNCHANGED <<joined, all_opened, any_found>>
        /\ UNCHANGED <<lines, opened, found, line_num, passed, grep_pc>>
    BY <1>1, <1>5, PtgrepAssumption, SMTT(30) DEF Ptgrep!CreateFails, GrepTypes
  <2> QED
    BY <1>1, <1>3, <2>1, ZenonT(30) DEF GrepInv, GrepTypes, Joined, Ptgrep!StatusRight
<1>6. CASE Ptgrep!AllCreated
  <2>1. main = "create" /\ main' = "join" /\ joined' = 1
        /\ UNCHANGED <<lines, opened, found, line_num, passed, grep_pc, all_opened, any_found>>
    BY <1>6 DEF Ptgrep!AllCreated
  <2>2. 1 .. joined' - 1 = {} /\ joined' \in 1 .. Searchers + 1
    BY <2>1, PtgrepAssumption
  <2> QED
    BY <1>1, <1>3, <2>1, <2>2, ZenonT(30) DEF GrepInv, GrepTypes, Joined, Ptgrep!StatusRight
<1>7. CASE Ptgrep!Join
  <2>1. /\ main = "join" /\ joined \in 1 .. Searchers /\ joined' = joined + 1
        /\ grep_pc[joined] = "end"
        /\ all_opened' = (all_opened /\ opened[joined])
        /\ any_found' = (any_found \/ found[joined])
        /\ UNCHANGED <<lines, opened, found, line_num, passed, grep_pc, main>>
    BY <1>1, <1>7, PtgrepAssumption DEF Ptgrep!Join, GrepTypes
  <2>2. GrepTypes'
    BY <1>1, <2>1, PtgrepAssumption DEF GrepTypes
  <2>3. \A t : t \in 1 .. joined' - 1 <=> t \in 1 .. joined - 1 \/ t = joined
    BY <2>1, PtgrepAssumption
  <2>4. Joined'
    BY <1>1, <2>1, <2>3, ZenonT(30) DEF Joined
  <2> QED
    BY <1>3, <2>1, <2>2, <2>4 DEF GrepInv, Ptgrep!StatusRight
<1>8. CASE Ptgrep!Return
  <2>1. /\ main = "join" /\ main' = "exit" /\ joined = Searchers + 1
        /\ grep_status' = IF all_opened /\ any_found THEN "EXIT_SUCCESS" ELSE "EXIT_FAILURE"
        /\ UNCHANGED <<lines, opened, found, line_num, passed, grep_pc, joined, all_opened, any_found>>
    BY <1>1, <1>8, PtgrepAssumption DEF Ptgrep!Return, GrepTypes
  <2>2. joined - 1 = Searchers
    BY <2>1, PtgrepAssumption
  <2>3. /\ all_opened <=> \A t \in 1 .. Searchers : opened[t]
        /\ any_found <=> \E t \in 1 .. Searchers : found[t]
        /\ \A t \in 1 .. Searchers : grep_pc[t] = "end"
    BY <1>1, <2>1, <2>2, ZenonT(30) DEF Joined
  <2>4. \A t \in 1 .. Searchers : opened[t] => (found[t] <=> Ptgrep!Matches(t))
    <3> TAKE t \in 1 .. Searchers
    <3> HAVE opened[t]
    <3>1. line_num[t] = Len(lines[t]) /\ lines[t] \in Seq(Nat) /\ found[t] \in BOOLEAN
      BY <1>1, <2>3, SMTT(30) DEF Knows, GrepTypes
    <3>2. ~found[t] => \A k \in DOMAIN lines[t] : lines[t][k] = 0
      <4>1. ~found[t] => \A k \in 1 .. line_num[t] : lines[t][k] = 0
        BY <1>1, Zenon DEF Knows
      <4>2. DOMAIN lines[t] = 1 .. line_num[t]
        BY <3>1
      <4> QED
        BY <4>1, <4>2, Zenon
    <3> QED
      BY <1>1, <3>1, <3>2 DEF Knows, Ptgrep!Matches
  <2>5. Ptgrep!StatusRight'
    <3>1. \A t : Ptgrep!Matches(t)' <=> Ptgrep!Matches(t)
      BY <2>1, ZenonT(30) DEF Ptgrep!Matches
    <3> QED
      BY <2>1, <2>3, <2>4, <3>1, ZenonT(30) DEF Ptgrep!StatusRight, Ptgrep!Thread
  <2>6. GrepTypes' /\ Joined'
    BY <1>1, <2>1, SMTT(30) DEF GrepTypes, Joined
  <2> QED
    BY <1>3, <2>1, <2>5, <2>6 DEF GrepInv
<1>9. CASE UNCHANGED Ptgrep!vars
  BY <1>1, <1>3, <1>9, ZenonT(30)
     DEF Ptgrep!vars, GrepInv, GrepTypes, Joined, Ptgrep!StatusRight, Ptgrep!Matches
<1> QED
  BY <1>2, <1>4, <1>5, <1>6, <1>7, <1>8, <1>9 DEF Ptgrep!Next, Ptgrep!MainRuns

\* For any number of files of any lines: whenever ptgrep returns and every thread was
\* created, it returns EXIT_SUCCESS exactly if every file could be opened and one of them
\* has the string, in whatever order the threads run (thread_run, main).
THEOREM GrepStatusRight == Ptgrep!Spec => []Ptgrep!StatusRight
<1>1. Ptgrep!Init => GrepInv
  <2> SUFFICES ASSUME Ptgrep!Init PROVE GrepInv
    OBVIOUS
  <2>1. Ptgrep!Files \subseteq Seq(Nat)
    BY PtgrepAssumption DEF Ptgrep!Files
  <2>2. GrepTypes
    <3>1. lines \in [1 .. Searchers -> Seq(Nat)]
      BY <2>1 DEF Ptgrep!Init, Ptgrep!Thread
    <3>2. main = "create" /\ joined \in 1 .. Searchers + 1
      BY PtgrepAssumption DEF Ptgrep!Init
    <3> QED
      BY <3>1, <3>2, ZenonT(30) DEF Ptgrep!Init, Ptgrep!Thread, GrepTypes
  <2>3. \A t \in 1 .. Searchers : Knows(t)
    BY <2>2, PtgrepAssumption DEF Ptgrep!Init, Ptgrep!Thread, GrepTypes, Knows
  <2> QED
    BY <2>2, <2>3 DEF Ptgrep!Init, GrepInv, Joined, Ptgrep!Thread, Ptgrep!StatusRight
<1>2. GrepInv /\ [Ptgrep!Next]_Ptgrep!vars => GrepInv'
  BY GrepStep
<1>3. GrepInv => Ptgrep!StatusRight
  BY SMTT(30) DEF GrepInv
<1> QED
  BY <1>1, <1>2, <1>3, PTL DEF Ptgrep!Spec
=============================================================================
