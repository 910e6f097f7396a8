-------------------------- MODULE Backtest_proofs ----------------------------
(***************************************************************************)
(* Proofs about Backtest, for any depth of nesting, any windows and any    *)
(* configurations.  StackInv says which executors exist at every place of  *)
(* a call, LoopInv what the loop's phase and scope are there; CashInv and  *)
(* BarsInv add who holds an open settlement and which step is not counted  *)
(* yet.  The refinement of Generator rests on StackInv and LoopInv.        *)
(***************************************************************************)
EXTENDS Backtest, TLAPS

LoopDos == {"idle", "start", "enter", "test", "begin", "answer", "exit", "report", "unwind", "closed"}
LevelDos == {"start", "settle", "window", "loop", "prompt", "begin", "answer", "advance",
             "commit", "sink", "close"}
AtomicDos == {"settle", "deal", "advance", "commit", "sink"}
Dos == LoopDos \cup LevelDos \cup AtomicDos
LoopPhases == {"Start", "Ready", "AwaitCollection", "Complete", "Failed", "Closed"}
LoopType == [phase : LoopPhases, open : BOOLEAN, reports : BOOLEAN]
BarType == [total : Nat \cup {None}, ticks : Nat]
Calendars == [len : Nat, step : Nat]
\* A settlement of cash, and only that, holds cash back.
Positions == {p \in [type : Settles, available : Int, delayed : Int \cup {None}] :
                p.delayed # None <=> p.type = "cash"}

TypeInv ==
  /\ pc \in [at : 0 .. Atomic, do : Dos]
  /\ pc.do \in (IF pc.at = 0 THEN LoopDos ELSE IF pc.at = Atomic THEN AtomicDos ELSE LevelDos)
  /\ loop \in LoopType
  /\ bar \in BarType
  /\ exec \in [Levels -> ExecTypes \cup {None}]
  /\ cal \in [1 .. Atomic -> Calendars]
  /\ prompting \subseteq Levels
  /\ position \in Positions
  /\ config \in Configs
  /\ worth \in Int /\ faults \in Nat /\ prompts \in Nat /\ deals \in Nat

\* An executor that has opened its child's window.
Begun(k) == /\ exec[k] # None
            /\ exec[k].phase \in {"Loop", "AwaitStrategy", "AfterInnerTrack", "AwaitInner"}

\* The executor whose step runs.
Running(l) == /\ exec[l] # None
              /\ pc.do = "start" => exec[l] = Fresh
              /\ pc.do \in {"settle", "window"} =>
                   exec[l].phase = "AfterOuterTrack" /\ exec[l].records = 0 /\ exec[l].skipped = 0
              /\ pc.do \notin {"start", "settle", "window"} => Begun(l)

\* From level l on every executor waits for the next, down to one that waits
\* for the caller.
Chain(l) == \E m \in Levels :
              /\ m >= l
              /\ \A k \in Levels : k >= l /\ k < m => exec[k] # None /\ exec[k].phase = "AwaitInner"
              /\ exec[m] # None /\ exec[m].phase \in Asleep \ {"AwaitInner"}
              /\ exec[m].phase = "AfterOuterTrack" => exec[m].records = 0 /\ exec[m].skipped = 0
              /\ \A k \in Levels : k > m => exec[k] = None
              /\ prompting = IF exec[m].phase = "AwaitStrategy" THEN {m} ELSE {}

Gone == \A k \in Levels : exec[k] = None
Stopped == prompting = {} /\ \A k \in Levels : exec[k] # None => exec[k].phase = "Failed"
InStep == pc.do \notin {"idle", "unwind", "close", "closed"}

StackInv ==
  /\ InStep => /\ \A k \in Levels : k > pc.at => exec[k] = None
               /\ \A k \in Levels : k < pc.at => Begun(k)
               /\ pc.at \in Levels => Running(pc.at)
               /\ prompting \subseteq IF pc.do = "prompt" THEN {pc.at} ELSE {}
  /\ pc.do = "close" => (\A k \in Levels : k < pc.at => exec[k] = None) /\ Chain(pc.at)
  /\ pc.do = "closed" => Gone /\ prompting = {}
  /\ pc.do = "unwind" => Stopped
  /\ pc.do = "idle" => /\ loop.phase = "AwaitCollection" => Chain(1)
                       /\ loop.phase # "AwaitCollection" => Stopped
                       /\ loop.phase \in {"Start", "Complete"} => Gone

Entered == bar.total # None /\ loop.open
LoopInv ==
  /\ pc.at = 0 /\ pc.do \in {"start", "enter"} => loop.phase = "Start"
  /\ loop.phase = "Start" => /\ ~loop.open /\ bar.total = None /\ bar.ticks = 0
                             /\ pc.at = 0 /\ pc.do \in {"idle", "start", "enter"}
  /\ pc.do \in {"close", "closed"} => Entered /\ loop.phase = "AwaitCollection"
  /\ pc.do = "unwind" => Entered /\ loop.phase = "Failed"
  /\ InStep /\ loop.phase # "Start" => /\ loop.phase \in {"Ready", "AwaitCollection"}
                                       /\ pc.do # "report" => Entered
                                       /\ pc.do = "report" => bar.total # None /\ ~loop.open
  /\ pc.do = "idle" => /\ loop.phase # "Ready"
                       /\ loop.phase = "AwaitCollection" => Entered
                       /\ loop.phase # "AwaitCollection" => ~loop.open
                       /\ loop.phase = "Complete" => bar.total # None
  /\ loop.reports => loop.phase = "Complete"

IInv == TypeInv /\ StackInv /\ LoopInv

\* A level whose settlement, if it has one, is open.
Inside(h) == \/ h \in Levels /\ Begun(h) /\ ~At(h, "sink")
             \/ h \in Levels /\ At(h, "window")
             \/ h = Atomic /\ pc.at = Atomic /\ pc.do \in {"deal", "advance", "commit"}
Held == IF position.delayed = None THEN 0 ELSE position.delayed
CashInv ==
  /\ position.available + Held = worth
  /\ loop.phase \in {"Start", "Ready", "AwaitCollection"} /\ position.type # "None" =>
       pc.do \in {"close", "closed"} \/ \E h \in 1 .. Atomic : Inside(h) /\ config.settle[h] # "None"
  /\ loop.phase = "Complete" => position.type = "None"

\* A step of level l's calendar that the level above has not counted.
Pending(l) == IF \/ pc.at = l /\ pc.do \in {"commit", "sink"}
                 \/ pc.at = l - 1 /\ pc.do = "answer" THEN 1 ELSE 0
BarsInv ==
  /\ cal[1].step <= cal[1].len
  /\ bar.total # None => bar.total = cal[1].len
  /\ loop.phase \in {"Start", "Ready", "AwaitCollection"} =>
       /\ cal[1].step = bar.ticks + Pending(1)
       /\ \A l \in Levels : Begun(l) =>
            exec[l].records + exec[l].skipped + Pending(l + 1) = cal[l + 1].step
  /\ pc.do \in {"exit", "report"} => Finished(cal[1])
  /\ loop.phase = "Failed" => cal[1].step - bar.ticks \in {0, 1}
  /\ loop.phase = "Complete" => bar.ticks = bar.total

-----------------------------------------------------------------------------
(* The stack of executors.                                                 *)

\* The levels are the numbers from 1 to Depth.
LEMMA LevelsAre == /\ Depth \in Nat /\ Depth >= 1 /\ Atomic \in Nat /\ Atomic = Depth + 1
                   /\ 1 \in Levels /\ Depth \in Levels /\ Atomic \notin Levels
                   /\ \A l \in Levels : l \in Nat /\ l >= 1 /\ l <= Depth /\ l # 0
                   /\ \A l \in Nat : l >= 1 /\ l <= Depth => l \in Levels
                   /\ \A l \in Levels : l # Depth => l + 1 \in Levels
  BY BacktestAssumption DEF Levels, Atomic

\* Every initial state satisfies the invariant.
LEMMA InitIInv == Init => IInv
<1> SUFFICES ASSUME Init PROVE IInv  OBVIOUS
<1> USE LevelsAre, BacktestAssumption
<1>1. TypeInv
  BY DEF Init, TypeInv, Idle, LoopDos, LevelDos, AtomicDos, Dos, LoopPhases, LoopType, BarType, Calendars, Settles, Positions
<1>2. StackInv
  BY DEF Init, StackInv, Idle, InStep, Stopped, Gone
<1>3. LoopInv
  BY DEF Init, LoopInv, Idle, InStep
<1> QED  BY <1>1, <1>2, <1>3 DEF IInv

\* The executor that takes over on a resume is the one at the end of the chain.
LEMMA InnermostEnds ==
  ASSUME TypeInv, Chain(1)
  PROVE  /\ Innermost \in Levels /\ exec[Innermost] # None
         /\ exec[Innermost].phase \in {"AfterOuterTrack", "AwaitStrategy", "AfterInnerTrack"}
         /\ \A k \in Levels : k < Innermost => exec[k] # None /\ exec[k].phase = "AwaitInner"
         /\ \A k \in Levels : k > Innermost => exec[k] = None
         /\ prompting = IF exec[Innermost].phase = "AwaitStrategy" THEN {Innermost} ELSE {}
         /\ exec[Innermost].phase = "AfterOuterTrack" =>
              exec[Innermost].records = 0 /\ exec[Innermost].skipped = 0
<1> DEFINE P(l) == /\ exec[l] # None /\ exec[l].phase # "AwaitInner"
                   /\ \A k \in 1 .. l - 1 : exec[k] # None
           Q(m) == /\ \A k \in Levels : k < m => exec[k] # None /\ exec[k].phase = "AwaitInner"
                   /\ exec[m] # None /\ exec[m].phase \in Asleep \ {"AwaitInner"}
                   /\ exec[m].phase = "AfterOuterTrack" =>
                        exec[m].records = 0 /\ exec[m].skipped = 0
                   /\ \A k \in Levels : k > m => exec[k] = None
                   /\ prompting = IF exec[m].phase = "AwaitStrategy" THEN {m} ELSE {}
<1>1. PICK m \in Levels : Q(m)
  BY LevelsAre DEF Chain
<1>2. P(m)
  <2>1. exec[m] # None /\ exec[m].phase # "AwaitInner"
    BY <1>1
  <2>2. ASSUME NEW k \in 1 .. m - 1 PROVE exec[k] # None
    <3>1. k \in Levels /\ k < m
      BY LevelsAre
    <3> QED  BY <1>1, <3>1
  <2> QED  BY <2>1, <2>2
<1>3. Innermost \in Levels /\ P(Innermost)
  BY <1>2 DEF Innermost
<1>4. Innermost = m
  BY <1>1, <1>3, LevelsAre
<1> HIDE DEF P
<1> QED  BY <1>1, <1>3, <1>4 DEF Asleep

\* Actions of the loop itself keep the invariant.
LEMMA LoopSteps ==
  ASSUME IInv, Resume \/ CloseQuiet \/ CloseSuspended \/ CloseScope \/ Start \/ Enter \/ Test
                 \/ Tick \/ ExitScope \/ Report \/ Unwind
  PROVE  IInv'
<1> USE LevelsAre, BacktestAssumption
<1>0. TypeInv /\ StackInv /\ LoopInv  BY DEF IInv
<1>1. ASSUME Resume PROVE IInv'
  <2>1. CASE loop.phase = "Start"
    <3>1. pc' = [at |-> 0, do |-> "start"] /\ UNCHANGED <<loop, bar, exec, cal, prompting>>
      BY <1>1, <2>1 DEF Resume, Goto
    <3>2. TypeInv'
      BY <1>0, <1>1, <3>1 DEF TypeInv, Resume, LoopDos, Dos, budgets
    <3>3. StackInv'
      BY <1>0, <1>1, <2>1, <3>1 DEF StackInv, Resume, InStep, Idle, Gone, Stopped
    <3>4. LoopInv'
      BY <1>0, <1>1, <2>1, <3>1 DEF LoopInv, Resume, InStep, Idle, Entered
    <3> QED  BY <3>2, <3>3, <3>4 DEF IInv
  <2>2. CASE loop.phase = "AwaitCollection"
    <3>1. pc' = [at |-> Innermost, do |-> Entry(exec[Innermost].phase)]
          /\ UNCHANGED <<loop, bar, exec, cal, prompting>>
      BY <1>1, <2>2 DEF Resume, Goto
    <3>2. Chain(1)
      BY <1>0, <1>1, <2>2 DEF StackInv, Resume, Idle
    <3> DEFINE m == Innermost
    <3>3. /\ m \in Levels /\ exec[m] # None
          /\ exec[m].phase \in {"AfterOuterTrack", "AwaitStrategy", "AfterInnerTrack"}
          /\ \A k \in Levels : k < m => exec[k] # None /\ exec[k].phase = "AwaitInner"
          /\ \A k \in Levels : k > m => exec[k] = None
          /\ prompting = IF exec[m].phase = "AwaitStrategy" THEN {m} ELSE {}
          /\ exec[m].phase = "AfterOuterTrack" => exec[m].records = 0 /\ exec[m].skipped = 0
      BY <1>0, <3>2, InnermostEnds
    <3> HIDE DEF m
    <3>4. \/ exec[m].phase = "AfterOuterTrack" /\ pc' = [at |-> m, do |-> "settle"]
          \/ exec[m].phase = "AwaitStrategy" /\ pc' = [at |-> m, do |-> "prompt"]
          \/ exec[m].phase = "AfterInnerTrack" /\ pc' = [at |-> m, do |-> "begin"]
      BY <3>1, <3>3 DEF Entry, m
    <3>5. TypeInv'
      BY <1>0, <1>1, <3>1, <3>3, <3>4 DEF TypeInv, Resume, LevelDos, Dos, budgets
    <3>6. StackInv'
      BY <1>0, <3>1, <3>3, <3>4 DEF StackInv, InStep, Running, Begun
    <3>7. LoopInv'
      BY <1>0, <1>1, <2>2, <3>1, <3>3, <3>4 DEF LoopInv, Resume, InStep, Idle, Entered
    <3> QED  BY <3>5, <3>6, <3>7 DEF IInv
  <2> QED  BY <1>1, <2>1, <2>2 DEF Resume
<1>2. ASSUME Start PROVE IInv'
  <2>1. PICK n \in Lengths : cal' = [cal EXCEPT ![1] = Reset(cal[1], n)]
    BY <1>2 DEF Start
  <2>2. cal' \in [1 .. Atomic -> Calendars]
    <3>1. cal \in [1 .. Atomic -> Calendars] /\ cal[1] \in Calendars
      BY <1>0 DEF TypeInv
    <3>2. Reset(cal[1], n) \in Calendars
      BY <3>1 DEF Reset, Calendars
    <3> QED  BY <2>1, <3>1, <3>2
  <2>3. pc' = [at |-> 0, do |-> "enter"] /\ pc.at = 0 /\ pc.do = "start"
        /\ UNCHANGED <<loop, bar, exec, prompting, position, config, worth, budgets>>
    BY <1>2 DEF Start, Goto, At
  <2>4. TypeInv'
    BY <1>0, <2>2, <2>3 DEF TypeInv, LoopDos, Dos, budgets
  <2>5. StackInv'
    BY <1>0, <2>3 DEF StackInv, InStep
  <2>6. LoopInv'
    BY <1>0, <2>3 DEF LoopInv, InStep
  <2> QED  BY <2>4, <2>5, <2>6 DEF IInv
<1>3. ASSUME CloseQuiet PROVE IInv'
  <2>1. /\ pc' = pc
        /\ pc.at = 0 /\ pc.do = "idle" /\ loop.phase \in {"Start", "Failed"}
        /\ UNCHANGED <<exec, cal, prompting, position, config, worth, budgets>>
    BY <1>0, <1>3 DEF CloseQuiet, Goto, At, Idle
  <2>2. /\ loop' \in LoopType /\ loop'.phase = "Closed" /\ loop'.open = loop.open
        /\ loop'.reports = loop.reports
    BY <1>0, <1>3, BacktestConfigs DEF CloseQuiet, TypeInv, LoopType, LoopPhases, ConfigTypes
  <2>3. bar' = bar
    BY <1>0, <1>3 DEF CloseQuiet, TypeInv, BarType, Calendars
  <2>4. TypeInv'
    BY <1>0, <2>1, <2>2, <2>3 DEF TypeInv, LoopDos, LevelDos, Dos, budgets
  <2>5. StackInv'
    BY <1>0, <2>1, <2>2 DEF StackInv, InStep, Chain, Stopped, Gone
  <2>6. LoopInv'
    BY <1>0, <2>1, <2>2, <2>3 DEF LoopInv, InStep, Entered
  <2> QED  BY <2>4, <2>5, <2>6 DEF IInv
<1>4. ASSUME CloseSuspended PROVE IInv'
  <2>1. /\ pc' = [at |-> 1, do |-> "close"]
        /\ pc.at = 0 /\ pc.do = "idle" /\ loop.phase = "AwaitCollection"
        /\ UNCHANGED <<exec, cal, prompting, position, config, worth, budgets>>
    BY <1>0, <1>4 DEF CloseSuspended, Goto, At, Idle
  <2>2. /\ loop' \in LoopType /\ loop'.phase = loop.phase /\ loop'.open = loop.open
        /\ loop'.reports = loop.reports
    BY <1>0, <1>4, BacktestConfigs DEF CloseSuspended, TypeInv, LoopType, LoopPhases, ConfigTypes
  <2>3. bar' = bar
    BY <1>0, <1>4 DEF CloseSuspended, TypeInv, BarType, Calendars
  <2>4. TypeInv'
    BY <1>0, <2>1, <2>2, <2>3 DEF TypeInv, LoopDos, LevelDos, Dos, budgets
  <2>5. StackInv'
    BY <1>0, <2>1, <2>2 DEF StackInv, InStep, Chain, Stopped, Gone
  <2>6. LoopInv'
    BY <1>0, <2>1, <2>2, <2>3 DEF LoopInv, InStep, Entered
  <2> QED  BY <2>4, <2>5, <2>6 DEF IInv
<1>5. ASSUME CloseScope PROVE IInv'
  <2>1. /\ pc' = [at |-> 0, do |-> "idle"]
        /\ pc.at = 0 /\ pc.do = "closed"
        /\ UNCHANGED <<exec, cal, prompting, position, config, worth, budgets>>
    BY <1>0, <1>5 DEF CloseScope, Goto, At, Idle
  <2>2. /\ loop' \in LoopType /\ loop'.phase = "Closed" /\ loop'.open = FALSE
        /\ loop'.reports = loop.reports
    BY <1>0, <1>5, BacktestConfigs DEF CloseScope, TypeInv, LoopType, LoopPhases, ConfigTypes
  <2>3. bar' = bar
    BY <1>0, <1>5 DEF CloseScope, TypeInv, BarType, Calendars
  <2>4. TypeInv'
    BY <1>0, <2>1, <2>2, <2>3 DEF TypeInv, LoopDos, LevelDos, Dos, budgets
  <2>5. StackInv'
    BY <1>0, <2>1, <2>2 DEF StackInv, InStep, Chain, Stopped, Gone
  <2>6. LoopInv'
    BY <1>0, <2>1, <2>2, <2>3 DEF LoopInv, InStep, Entered
  <2> QED  BY <2>4, <2>5, <2>6 DEF IInv
<1>6. ASSUME Enter PROVE IInv'
  <2>1. /\ pc' = [at |-> 0, do |-> "test"]
        /\ pc.at = 0 /\ pc.do = "enter"
        /\ UNCHANGED <<exec, cal, prompting, position, config, worth, budgets>>
    BY <1>0, <1>6 DEF Enter, Goto, At, Idle
  <2>2. /\ loop' \in LoopType /\ loop'.phase = "Ready" /\ loop'.open = TRUE
        /\ loop'.reports = loop.reports
    BY <1>0, <1>6, BacktestConfigs DEF Enter, TypeInv, LoopType, LoopPhases, ConfigTypes
  <2>3. bar' \in BarType /\ bar'.total \in Nat
    <3>1. bar \in BarType /\ cal[1] \in Calendars
      BY <1>0, LevelsAre DEF TypeInv
    <3>2. cal[1].len \in Nat
      BY <3>1 DEF Calendars
    <3>3. bar' = [bar EXCEPT !.total = cal[1].len]
      BY <1>6 DEF Enter
    <3> QED  BY <3>1, <3>2, <3>3 DEF BarType
  <2>4. TypeInv'
    BY <1>0, <2>1, <2>2, <2>3 DEF TypeInv, LoopDos, LevelDos, Dos, budgets
  <2>5. StackInv'
    BY <1>0, <2>1, <2>2 DEF StackInv, InStep, Chain, Stopped, Gone
  <2>6. LoopInv'
    BY <1>0, <2>1, <2>2, <2>3 DEF LoopInv, InStep, Entered
  <2> QED  BY <2>4, <2>5, <2>6 DEF IInv
<1>7. ASSUME Test PROVE IInv'
  <2>1. /\ pc' \in {[at |-> 0, do |-> "exit"], [at |-> 0, do |-> "begin"]}
        /\ pc.at = 0 /\ pc.do = "test"
        /\ UNCHANGED <<exec, cal, prompting, position, config, worth, budgets>>
    BY <1>0, <1>7 DEF Test, Goto, At, Idle
  <2>2. /\ loop' \in LoopType /\ loop'.phase = loop.phase /\ loop'.open = loop.open
        /\ loop'.reports = loop.reports
    BY <1>0, <1>7, BacktestConfigs DEF Test, TypeInv, LoopType, LoopPhases, ConfigTypes
  <2>3. bar' = bar
    BY <1>0, <1>7 DEF Test, TypeInv, BarType, Calendars
  <2>4. TypeInv'
    BY <1>0, <2>1, <2>2, <2>3 DEF TypeInv, LoopDos, LevelDos, Dos, budgets
  <2>5. StackInv'
    BY <1>0, <2>1, <2>2 DEF StackInv, InStep, Chain, Stopped, Gone
  <2>6. LoopInv'
    BY <1>0, <2>1, <2>2, <2>3 DEF LoopInv, InStep, Entered
  <2> QED  BY <2>4, <2>5, <2>6 DEF IInv
<1>8. ASSUME Tick PROVE IInv'
  <2>1. /\ pc' = [at |-> 0, do |-> "test"]
        /\ pc.at = 0 /\ pc.do = "answer"
        /\ UNCHANGED <<exec, cal, prompting, position, config, worth, budgets>>
    BY <1>0, <1>8 DEF Tick, Goto, At, Idle
  <2>2. /\ loop' \in LoopType /\ loop'.phase = "Ready" /\ loop'.open = loop.open
        /\ loop'.reports = loop.reports
    BY <1>0, <1>8, BacktestConfigs DEF Tick, TypeInv, LoopType, LoopPhases, ConfigTypes
  <2>3. bar' \in BarType /\ bar'.total = bar.total
    <3>1. bar \in BarType /\ bar' = [bar EXCEPT !.ticks = bar.ticks + 1]
      BY <1>0, <1>8 DEF Tick, TypeInv
    <3> QED  BY <3>1 DEF BarType
  <2>4. TypeInv'
    BY <1>0, <2>1, <2>2, <2>3 DEF TypeInv, LoopDos, LevelDos, Dos, budgets
  <2>5. StackInv'
    BY <1>0, <2>1, <2>2 DEF StackInv, InStep, Chain, Stopped, Gone
  <2>6. LoopInv'
    BY <1>0, <2>1, <2>2, <2>3 DEF LoopInv, InStep, Entered
  <2> QED  BY <2>4, <2>5, <2>6 DEF IInv
<1>9. ASSUME ExitScope PROVE IInv'
  <2>1. /\ pc' = [at |-> 0, do |-> "report"]
        /\ pc.at = 0 /\ pc.do = "exit"
        /\ UNCHANGED <<exec, cal, prompting, position, config, worth, budgets>>
    BY <1>0, <1>9 DEF ExitScope, Goto, At, Idle
  <2>2. /\ loop' \in LoopType /\ loop'.phase = loop.phase /\ loop'.open = FALSE
        /\ loop'.reports = loop.reports
    BY <1>0, <1>9, BacktestConfigs DEF ExitScope, TypeInv, LoopType, LoopPhases, ConfigTypes
  <2>3. bar' = bar
    BY <1>0, <1>9 DEF ExitScope, TypeInv, BarType, Calendars
  <2>4. TypeInv'
    BY <1>0, <2>1, <2>2, <2>3 DEF TypeInv, LoopDos, LevelDos, Dos, budgets
  <2>5. StackInv'
    BY <1>0, <2>1, <2>2 DEF StackInv, InStep, Chain, Stopped, Gone
  <2>6. LoopInv'
    BY <1>0, <2>1, <2>2, <2>3 DEF LoopInv, InStep, Entered
  <2> QED  BY <2>4, <2>5, <2>6 DEF IInv
<1>10. ASSUME Report PROVE IInv'
  <2>1. /\ pc' = [at |-> 0, do |-> "idle"]
        /\ pc.at = 0 /\ pc.do = "report"
        /\ UNCHANGED <<exec, cal, prompting, position, config, worth, budgets>>
    BY <1>0, <1>10 DEF Report, Goto, At, Idle
  <2>2. /\ loop' \in LoopType /\ loop'.phase = "Complete" /\ loop'.open = loop.open
        /\ loop'.reports = config.reports
    BY <1>0, <1>10, BacktestConfigs DEF Report, TypeInv, LoopType, LoopPhases, ConfigTypes
  <2>3. bar' = bar
    BY <1>0, <1>10 DEF Report, TypeInv, BarType, Calendars
  <2>4. TypeInv'
    BY <1>0, <2>1, <2>2, <2>3 DEF TypeInv, LoopDos, LevelDos, Dos, budgets
  <2>5. StackInv'
    BY <1>0, <2>1, <2>2 DEF StackInv, InStep, Chain, Stopped, Gone
  <2>6. LoopInv'
    BY <1>0, <2>1, <2>2, <2>3 DEF LoopInv, InStep, Entered
  <2> QED  BY <2>4, <2>5, <2>6 DEF IInv
<1>11. ASSUME Unwind PROVE IInv'
  <2>1. /\ pc' = [at |-> 0, do |-> "idle"]
        /\ pc.at = 0 /\ pc.do = "unwind" /\ loop.phase = "Failed"
        /\ UNCHANGED <<exec, cal, prompting, position, config, worth, budgets>>
    BY <1>0, <1>11 DEF Unwind, Goto, At, Idle, LoopInv
  <2>2. /\ loop' \in LoopType /\ loop'.phase = loop.phase /\ loop'.open = FALSE
        /\ loop'.reports = loop.reports
    BY <1>0, <1>11, BacktestConfigs DEF Unwind, TypeInv, LoopType, LoopPhases, ConfigTypes
  <2>3. bar' = bar
    BY <1>0, <1>11 DEF Unwind, TypeInv, BarType, Calendars
  <2>4. TypeInv'
    BY <1>0, <2>1, <2>2, <2>3 DEF TypeInv, LoopDos, LevelDos, Dos, budgets
  <2>5. StackInv'
    BY <1>0, <2>1, <2>2 DEF StackInv, InStep, Chain, Stopped, Gone
  <2>6. LoopInv'
    BY <1>0, <2>1, <2>2, <2>3 DEF LoopInv, InStep, Entered
  <2> QED  BY <2>4, <2>5, <2>6 DEF IInv
<1> QED  BY <1>1, <1>2, <1>3, <1>4, <1>5, <1>6, <1>7, <1>8, <1>9, <1>10, <1>11

\* A suspension turns the stack into a chain.
LEMMA SuspensionKeeps ==
  ASSUME IInv, NEW l \in Levels, pc.at = l, pc.do \in {"start", "prompt"},
         NEW p \in {"AfterOuterTrack", "AwaitStrategy", "AfterInnerTrack"}, Suspends(l, p),
         p = "AfterOuterTrack" <=> pc.do = "start",
         prompting' = IF p = "AwaitStrategy" THEN {l} ELSE {},
         UNCHANGED <<bar, cal, position, config, worth, faults, deals>>, prompts' \in Nat
  PROVE  IInv'
<1> USE LevelsAre, BacktestAssumption
<1>0. TypeInv /\ StackInv /\ LoopInv  BY DEF IInv
<1>1. /\ exec \in [Levels -> ExecTypes \cup {None}] /\ exec[l] # None
      /\ \A k \in Levels : k < l => Begun(k)
      /\ \A k \in Levels : k > l => exec[k] = None
      /\ pc.do = "start" => exec[l].records = 0 /\ exec[l].skipped = 0
  BY <1>0 DEF TypeInv, StackInv, InStep, Running, Fresh
<1>2. /\ exec' \in [Levels -> ExecTypes \cup {None}]
      /\ exec'[l] # None /\ exec'[l].phase = p
      /\ exec'[l].records = exec[l].records /\ exec'[l].skipped = exec[l].skipped
      /\ \A k \in Levels : k < l => exec'[k] # None /\ exec'[k].phase = "AwaitInner"
      /\ \A k \in Levels : k > l => exec'[k] = None
  BY <1>1 DEF Suspends, ExecTypes, Begun
<1>3. /\ pc' = [at |-> 0, do |-> "idle"] /\ loop' \in LoopType /\ loop'.phase = "AwaitCollection"
      /\ loop'.open = loop.open /\ loop'.reports = loop.reports
  BY <1>0 DEF Suspends, Idle, TypeInv, LoopType, LoopPhases
<1>4. TypeInv'
  BY <1>0, <1>2, <1>3 DEF TypeInv, LoopDos, Dos
<1>5. Chain(1)'
  BY <1>1, <1>2 DEF Chain, Asleep
<1>6. StackInv'
  BY <1>3, <1>5 DEF StackInv, InStep
<1>7. LoopInv'
  BY <1>0, <1>3 DEF LoopInv, InStep, Entered
<1> QED  BY <1>4, <1>6, <1>7 DEF IInv

\* An executor that changes in its own phase only, or is passed the control.
LEMMA ExecutorSteps ==
  ASSUME IInv, NEW l \in 0 .. Depth,
         Begin(l) \/ (l \in Levels /\ (Level(l) \/ CloseChild(l)))
  PROVE  IInv'
<1> USE LevelsAre, BacktestAssumption
<1>0. TypeInv /\ StackInv /\ LoopInv  BY DEF IInv
<1>1. ASSUME Begin(l) PROVE IInv'
  <2>1. /\ pc.at = l /\ pc.do = "begin"
        /\ UNCHANGED <<loop, bar, cal, prompting, position, config, worth, budgets>>
    BY <1>1 DEF Begin, At
  <2>2. CASE l = Depth
    <3>1. pc' = [at |-> Atomic, do |-> "settle"] /\ exec' = exec
      BY <1>1, <2>2 DEF Begin, Goto
    <3>2. TypeInv'
      BY <1>0, <2>1, <3>1 DEF TypeInv, AtomicDos, Dos, budgets
    <3>3. StackInv'
      BY <1>0, <2>1, <2>2, <3>1 DEF StackInv, InStep, Running, Begun
    <3>4. LoopInv'
      BY <1>0, <2>1, <2>2, <3>1 DEF LoopInv, InStep, Entered
    <3> QED  BY <3>2, <3>3, <3>4 DEF IInv
  <2>3. CASE l # Depth
    <3>1. /\ pc' = [at |-> l + 1, do |-> "start"] /\ l + 1 \in Levels
          /\ exec' = [exec EXCEPT ![l + 1] = Fresh]
      BY <1>1, <2>3 DEF Begin, Goto
    <3>2. Fresh \in ExecTypes
      BY DEF Fresh, ExecTypes
    <3>3. TypeInv'
      BY <1>0, <2>1, <3>1, <3>2 DEF TypeInv, LevelDos, Dos, budgets
    <3>4. StackInv'
      BY <1>0, <2>1, <3>1, <3>2 DEF StackInv, InStep, Running, Begun, TypeInv
    <3>5. LoopInv'
      BY <1>0, <2>1, <3>1 DEF LoopInv, InStep, Entered
    <3> QED  BY <3>3, <3>4, <3>5 DEF IInv
  <2> QED  BY <2>2, <2>3
<1>2. ASSUME l \in Levels, Track(l) PROVE IInv'
  <2>1. /\ pc.at = l /\ pc.do = "start" /\ exec[l] = Fresh /\ prompting = {}
        /\ UNCHANGED <<bar, cal, prompting, position, config, worth, budgets>>
    BY <1>0, <1>2 DEF Track, At, StackInv, InStep, Running
  <2>2. CASE l \in config.tracks
    <3>1. Suspends(l, "AfterOuterTrack")
      BY <1>2, <2>2 DEF Track
    <3>2. prompts' \in Nat /\ UNCHANGED <<faults, deals>>
      BY <1>0, <2>1 DEF TypeInv, budgets
    <3> QED  BY <1>2, <2>1, <3>1, <3>2, SuspensionKeeps
  <2>3. CASE l \notin config.tracks
    <3>1. /\ pc' = [at |-> l, do |-> "settle"] /\ loop' = loop
          /\ exec' = [exec EXCEPT ![l].phase = "AfterOuterTrack"]
      BY <1>2, <2>3 DEF Track, Goto
    <3>2. /\ exec' \in [Levels -> ExecTypes \cup {None}] /\ exec'[l] # None
          /\ exec'[l].phase = "AfterOuterTrack" /\ exec'[l].records = 0 /\ exec'[l].skipped = 0
          /\ \A k \in Levels : k # l => exec'[k] = exec[k]
      BY <1>0, <1>2, <2>1, <3>1 DEF TypeInv, Fresh, ExecTypes
    <3>3. TypeInv'
      BY <1>0, <1>2, <2>1, <3>1, <3>2 DEF TypeInv, LevelDos, Dos, budgets
    <3>4. StackInv'
      BY <1>0, <1>2, <2>1, <3>1, <3>2 DEF StackInv, InStep, Running, Begun
    <3>5. LoopInv'
      BY <1>0, <1>2, <2>1, <3>1 DEF LoopInv, InStep, Entered
    <3> QED  BY <3>3, <3>4, <3>5 DEF IInv
  <2> QED  BY <2>2, <2>3
<1>3. ASSUME l \in Levels, Prompts(l) PROVE IInv'
  <2>1. /\ pc.at = l /\ pc.do = "prompt" /\ Suspends(l, "AwaitStrategy")
        /\ prompting' = prompting \cup {l} /\ prompts' = prompts + 1
        /\ UNCHANGED <<bar, cal, position, config, worth, faults, deals>>
    BY <1>3 DEF Prompts, At
  <2>2. prompting \subseteq {l}
    BY <1>0, <2>1 DEF StackInv, InStep
  <2>3. prompting' = {l}
    BY <2>1, <2>2
  <2>4. prompts' \in Nat
    BY <1>0, <2>1 DEF TypeInv
  <2> QED  BY <1>3, <2>1, <2>3, <2>4, SuspensionKeeps
<1>4. ASSUME l \in Levels, Decides(l) PROVE IInv'
  <2>1. /\ pc.at = l /\ pc.do = "prompt" /\ prompting' = {} /\ Begun(l)
        /\ UNCHANGED <<bar, cal, position, config, worth, budgets>>
    BY <1>0, <1>4 DEF Decides, At, StackInv, InStep, Running
  <2>2. CASE l = Depth /\ config.tracksInner
    <3>1. Suspends(l, "AfterInnerTrack") /\ prompts' \in Nat /\ UNCHANGED <<faults, deals>>
      BY <1>0, <1>4, <2>1, <2>2 DEF Decides, TypeInv, budgets
    <3> QED  BY <1>4, <2>1, <3>1, SuspensionKeeps
  <2>3. CASE ~(l = Depth /\ config.tracksInner)
    <3>1. pc' = [at |-> l, do |-> "begin"] /\ UNCHANGED <<loop, exec>>
      BY <1>4, <2>3 DEF Decides, Goto
    <3>2. TypeInv'
      BY <1>0, <1>4, <2>1, <3>1 DEF TypeInv, LevelDos, Dos, budgets
    <3>3. StackInv'
      BY <1>0, <1>4, <2>1, <3>1 DEF StackInv, InStep, Running, Begun
    <3>4. LoopInv'
      BY <1>0, <1>4, <2>1, <3>1 DEF LoopInv, InStep, Entered
    <3> QED  BY <3>2, <3>3, <3>4 DEF IInv
  <2> QED  BY <2>2, <2>3
<1>5. ASSUME l \in Levels, Initialize(l) \/ Skips(l) \/ Answer(l) PROVE IInv'
  <2>1. /\ pc.at = l /\ pc.do \in {"window", "loop", "answer"} /\ exec[l] \in ExecTypes
        /\ pc' = [at |-> l, do |-> "loop"] /\ prompting = {}
        /\ UNCHANGED <<loop, bar, prompting, position, config, worth, budgets>>
    BY <1>0, <1>5 DEF Initialize, Skips, Answer, At, Goto, StackInv, InStep, Running, TypeInv
  <2>2. /\ exec' \in [Levels -> ExecTypes \cup {None}] /\ exec'[l] # None
        /\ exec'[l].phase \in {"Loop", exec[l].phase}
        /\ pc.do = "window" => exec'[l].phase = "Loop"
        /\ \A k \in Levels : k # l => exec'[k] = exec[k]
    <3>1. /\ exec \in [Levels -> ExecTypes \cup {None}] /\ l \in Levels
          /\ exec[l].records + 1 \in Nat /\ exec[l].skipped + 1 \in Nat
      BY <1>0, <1>5, <2>1 DEF TypeInv, ExecTypes
    <3>2. ASSUME Initialize(l) PROVE exec' = [exec EXCEPT ![l] = [exec[l] EXCEPT !.phase = "Loop"]]
      BY <3>1, <3>2 DEF Initialize
    <3>3. ASSUME Skips(l)
          PROVE  /\ exec' = [exec EXCEPT ![l] = [exec[l] EXCEPT !.skipped = exec[l].skipped + 1]]
                 /\ pc.do = "loop"
      BY <3>1, <3>3 DEF Skips, At
    <3>4. ASSUME Answer(l)
          PROVE  /\ exec' = [exec EXCEPT ![l] = [exec[l] EXCEPT !.records = exec[l].records + 1,
                                                              !.phase = "Loop"]]
                 /\ pc.do = "answer"
      BY <3>1, <3>4 DEF Answer, At
    <3>5. /\ [exec[l] EXCEPT !.phase = "Loop"] \in ExecTypes
          /\ [exec[l] EXCEPT !.skipped = exec[l].skipped + 1] \in ExecTypes
          /\ [exec[l] EXCEPT !.records = exec[l].records + 1, !.phase = "Loop"] \in ExecTypes
          /\ [exec[l] EXCEPT !.phase = "Loop"].phase = "Loop"
          /\ [exec[l] EXCEPT !.skipped = exec[l].skipped + 1].phase = exec[l].phase
          /\ [exec[l] EXCEPT !.records = exec[l].records + 1, !.phase = "Loop"].phase = "Loop"
      BY <2>1, <3>1 DEF ExecTypes
    <3>6. PICK e \in ExecTypes : /\ exec' = [exec EXCEPT ![l] = e]
                                 /\ e.phase \in {"Loop", exec[l].phase}
                                 /\ pc.do = "window" => e.phase = "Loop"
      BY <1>5, <3>2, <3>3, <3>4, <3>5
    <3> QED  BY <3>1, <3>6
  <2>3. cal' \in [1 .. Atomic -> Calendars]
    <3>0. cal \in [1 .. Atomic -> Calendars] /\ l + 1 \in 1 .. Atomic /\ cal[l + 1] \in Calendars
      BY <1>0, <1>5 DEF TypeInv
    <3>1. ASSUME Initialize(l) PROVE cal' \in [1 .. Atomic -> Calendars]
      <4>1. PICK n \in Lengths : cal' = [cal EXCEPT ![l + 1] = Reset(cal[l + 1], n)]
        BY <3>1 DEF Initialize
      <4>2. Reset(cal[l + 1], n) \in Calendars
        BY <3>0 DEF Reset, Calendars
      <4> QED  BY <3>0, <4>1, <4>2
    <3>2. ASSUME Skips(l) PROVE cal' \in [1 .. Atomic -> Calendars]
      <4>1. cal' = [cal EXCEPT ![l + 1] = [cal[l + 1] EXCEPT !.step = cal[l + 1].step + 1]]
        <5> DEFINE j == l + 1
        <5>1. cal' = [cal EXCEPT ![j].step = cal[j].step + 1]
          BY <3>2 DEF Skips
        <5>2. j \in 1 .. Atomic
          BY <3>0
        <5> HIDE DEF j
        <5>3. cal' = [cal EXCEPT ![j] = [cal[j] EXCEPT !.step = cal[j].step + 1]]
          BY <3>0, <5>1, <5>2
        <5> QED  BY <5>3 DEF j
      <4>2. [cal[l + 1] EXCEPT !.step = cal[l + 1].step + 1] \in Calendars
        BY <3>0 DEF Calendars
      <4> QED  BY <3>0, <4>1, <4>2
    <3> QED  BY <1>0, <1>5, <3>1, <3>2 DEF Answer, TypeInv
  <2>4. TypeInv'
    BY <1>0, <1>5, <2>1, <2>2, <2>3 DEF TypeInv, LevelDos, Dos, budgets
  <2>5. StackInv'
    BY <1>0, <1>5, <2>1, <2>2 DEF StackInv, InStep, Running, Begun
  <2>6. LoopInv'
    BY <1>0, <1>5, <2>1 DEF LoopInv, InStep, Entered
  <2> QED  BY <2>4, <2>5, <2>6 DEF IInv
<1>6. ASSUME l \in Levels, Ends(l) \/ Asks(l) PROVE IInv'
  <2>1. /\ pc.at = l /\ pc.do = "loop" /\ exec' = exec /\ prompting = {}
        /\ pc' \in {[at |-> l, do |-> "advance"], [at |-> l, do |-> "prompt"]}
        /\ UNCHANGED <<loop, bar, cal, prompting, position, config, worth, budgets>>
    BY <1>0, <1>6 DEF Ends, Asks, At, Goto, StackInv, InStep
  <2>2. TypeInv'
    BY <1>0, <1>6, <2>1 DEF TypeInv, LevelDos, Dos, budgets
  <2>3. StackInv'
    BY <1>0, <1>6, <2>1 DEF StackInv, InStep, Running, Begun
  <2>4. LoopInv'
    BY <1>0, <1>6, <2>1 DEF LoopInv, InStep, Entered
  <2> QED  BY <2>2, <2>3, <2>4 DEF IInv
<1>7. ASSUME l \in Levels, CloseChild(l) PROVE IInv'
  <2>1. /\ pc.at = l /\ pc.do = "close" /\ exec' = [exec EXCEPT ![l] = None]
        /\ prompting' = IF exec[l].phase = "AwaitStrategy" THEN prompting \ {l} ELSE prompting
        /\ UNCHANGED <<loop, bar, cal, position, config, worth, budgets>>
    BY <1>7 DEF CloseChild, At
  <2>2. \A k \in Levels : k < l => exec[k] = None
    BY <1>0, <2>1 DEF StackInv
  <2>3. PICK m \in Levels :
          /\ m >= l
          /\ \A k \in Levels : k >= l /\ k < m => exec[k] # None /\ exec[k].phase = "AwaitInner"
          /\ exec[m] # None /\ exec[m].phase \in Asleep \ {"AwaitInner"}
          /\ exec[m].phase = "AfterOuterTrack" => exec[m].records = 0 /\ exec[m].skipped = 0
          /\ \A k \in Levels : k > m => exec[k] = None
          /\ prompting = IF exec[m].phase = "AwaitStrategy" THEN {m} ELSE {}
    BY <1>0, <2>1 DEF StackInv, Chain
  <2>4. exec' \in [Levels -> ExecTypes \cup {None}] /\ prompting' \subseteq Levels
    BY <1>0, <1>7, <2>1 DEF TypeInv
  <2>5. CASE m = l
    <3>1. pc' = [at |-> 0, do |-> "closed"] /\ prompting' = {} /\ Gone'
      BY <1>0, <1>7, <2>1, <2>2, <2>3, <2>5 DEF CloseChild, Goto, Gone, TypeInv
    <3>2. TypeInv'
      BY <1>0, <2>1, <2>4, <3>1 DEF TypeInv, LoopDos, Dos, budgets
    <3>3. StackInv'
      BY <3>1 DEF StackInv, InStep
    <3>4. LoopInv'
      BY <1>0, <2>1, <3>1 DEF LoopInv, InStep, Entered
    <3> QED  BY <3>2, <3>3, <3>4 DEF IInv
  <2>6. CASE m # l
    <3>1. /\ pc' = [at |-> l + 1, do |-> "close"] /\ prompting' = prompting
          /\ l + 1 \in Levels /\ m >= l + 1 /\ exec'[l] = None
          /\ \A k \in Levels : k # l => exec'[k] = exec[k]
      BY <1>0, <1>7, <2>1, <2>3, <2>6 DEF CloseChild, Goto, TypeInv
    <3>2. TypeInv'
      <4>1. pc' \in [at : 0 .. Atomic, do : Dos] /\ pc'.do \in LevelDos /\ pc'.at \in Levels
        <5> DEFINE j == l + 1
        <5>1. pc' = [at |-> j, do |-> "close"] /\ j \in Levels
          BY <3>1
        <5> HIDE DEF j
        <5> QED  BY <5>1 DEF LevelDos, Dos
      <4> QED  BY <1>0, <2>1, <2>4, <4>1 DEF TypeInv, budgets
    <3>3. Chain(l + 1)'
      <4>1. /\ \A k \in Levels : k >= l + 1 /\ k < m =>
                 exec'[k] # None /\ exec'[k].phase = "AwaitInner"
            /\ exec'[m] = exec[m]
            /\ \A k \in Levels : k > m => exec'[k] = None
        BY <2>3, <2>6, <3>1
      <4> QED  BY <2>3, <3>1, <4>1 DEF Chain
    <3>4. StackInv'
      BY <1>7, <2>2, <3>1, <3>3 DEF StackInv, InStep
    <3>5. LoopInv'
      BY <1>0, <2>1, <3>1 DEF LoopInv, InStep, Entered
    <3> QED  BY <3>2, <3>4, <3>5 DEF IInv
  <2> QED  BY <2>5, <2>6
<1> QED  BY <1>1, <1>2, <1>3, <1>4, <1>5, <1>6, <1>7 DEF Level

\* The settlement bracket, the deals and the step of a calendar.
LEMMA BracketSteps ==
  ASSUME IInv, Sell \/ Buy \/ Collected \/ \E l \in 1 .. Atomic : Bracket(l)
  PROVE  IInv'
<1> USE LevelsAre, BacktestAssumption
<1>0. TypeInv /\ StackInv /\ LoopInv  BY DEF IInv
<1>1. ASSUME NEW l \in 1 .. Atomic, SettleStart(l) \/ Advance(l) \/ Commit(l) PROVE IInv'
  <2>1. /\ pc.at = l /\ pc.do \in {"settle", "advance", "commit"}
        /\ UNCHANGED <<loop, bar, exec, prompting, config, worth, budgets>>
    BY <1>1 DEF SettleStart, Advance, Commit, At
  <2>2. pc' = [at |-> l, do |-> IF pc.do = "settle" THEN IF l = Atomic THEN "deal" ELSE "window"
                                ELSE IF pc.do = "advance" THEN "commit" ELSE "sink"]
    BY <1>1 DEF SettleStart, Advance, Commit, At, Goto
  <2>3. cal' \in [1 .. Atomic -> Calendars]
    <3>1. cal \in [1 .. Atomic -> Calendars] /\ cal[l] \in Calendars
      BY <1>0 DEF TypeInv
    <3>2. ASSUME Advance(l) PROVE cal' \in [1 .. Atomic -> Calendars]
      <4>1. cal' = [cal EXCEPT ![l] = [cal[l] EXCEPT !.step = cal[l].step + 1]]
        BY <3>1, <3>2 DEF Advance
      <4>2. [cal[l] EXCEPT !.step = cal[l].step + 1] \in Calendars
        <5>1. cal[l].step \in Nat
          BY <3>1 DEF Calendars
        <5>2. cal[l].step + 1 \in Nat
          BY <5>1
        <5> QED  BY <3>1, <5>2 DEF Calendars
      <4> QED  BY <3>1, <4>1, <4>2
    <3> QED  BY <1>1, <3>1, <3>2 DEF SettleStart, Commit
  <2>4. position' \in Positions
    <3>1. position \in Positions /\ config.settle[l] \in Settles
      BY <1>0, BacktestConfigs DEF TypeInv, ConfigTypes
    <3>2. ASSUME SettleStart(l) PROVE position' \in Positions
      <4>1. CASE config.settle[l] = "None"
        BY <3>1, <3>2, <4>1 DEF SettleStart
      <4>2. CASE config.settle[l] # "None"
        <5>1. position.type = "None" /\ position.delayed = None
          BY <3>1, <3>2, <4>2 DEF SettleStart, CanSettle, Positions
        <5>2. position' = Settled(position, config.settle[l])
          BY <3>2, <4>2 DEF SettleStart
        <5>3. /\ position'.type = config.settle[l] /\ position'.available = position.available
              /\ position'.delayed = IF config.settle[l] = "cash" THEN 0 ELSE None
              /\ position' \in [type : Settles, available : Int, delayed : Int \cup {None}]
          <6>1. position \in [type : Settles, available : Int, delayed : Int \cup {None}]
            BY <3>1 DEF Positions
          <6>2. CASE config.settle[l] = "cash"
            <7>1. position' = [position EXCEPT !.type = "cash", !.delayed = 0]
              BY <5>2, <6>2 DEF Settled
            <7>2. "cash" \in Settles /\ 0 \in Int \cup {None}
              BY DEF Settles
            <7>3. position' \in [type : Settles, available : Int, delayed : Int \cup {None}]
              BY <6>1, <7>1, <7>2
            <7>4. /\ position'.type = "cash" /\ position'.available = position.available
                  /\ position'.delayed = 0
              BY <6>1, <7>1
            <7> QED  BY <6>2, <7>3, <7>4
          <6>3. CASE config.settle[l] # "cash"
            <7>1. position' = [position EXCEPT !.type = config.settle[l], !.delayed = position.delayed]
              BY <5>2, <6>3 DEF Settled
            <7> QED  BY <3>1, <5>1, <6>1, <6>3, <7>1
          <6> QED  BY <6>2, <6>3
        <5> QED  BY <5>3 DEF Positions
      <4> QED  BY <4>1, <4>2
    <3>3. ASSUME Commit(l) PROVE position' \in Positions
      <4>1. CASE UNCHANGED position
        BY <3>1, <4>1
      <4>2. CASE position.type = "cash" /\ position' = Committed(position)
        <5>1. position.delayed \in Int /\ position.available \in Int
          BY <3>1, <4>2 DEF Positions
        <5> QED  BY <4>2, <5>1 DEF Committed, Positions, Settles
      <4> QED  BY <3>3, <4>1, <4>2 DEF Commit
    <3> QED  BY <1>1, <3>1, <3>2, <3>3 DEF Advance
  <2>5. TypeInv'
    BY <1>0, <2>1, <2>2, <2>3, <2>4 DEF TypeInv, LevelDos, AtomicDos, Dos, budgets
  <2>6. StackInv'
    BY <1>0, <2>1, <2>2 DEF StackInv, InStep, Running, Begun
  <2>7. LoopInv'
    BY <1>0, <2>1, <2>2 DEF LoopInv, InStep, Entered
  <2> QED  BY <2>5, <2>6, <2>7 DEF IInv
<1>2. ASSUME NEW l \in 1 .. Atomic, Return(l) PROVE IInv'
  <2> DEFINE j == l - 1
  <2>0. /\ j \in 0 .. Depth /\ j < l /\ (j # 0 => j \in Levels)
        /\ \A k \in Levels : k > j => k = l \/ k > l
        /\ \A k \in Levels : k # l => (k < l <=> k <= j)
    OBVIOUS
  <2>1. /\ pc.at = l /\ pc.do = "sink" /\ pc' = [at |-> j, do |-> "answer"]
        /\ exec' = [k \in Levels |-> IF k = l THEN None ELSE exec[k]]
        /\ UNCHANGED <<loop, bar, cal, prompting, position, config, worth, budgets>>
    BY <1>2 DEF Return, At, Goto
  <2> HIDE DEF j
  <2>2. pc' \in [at : 0 .. Atomic, do : Dos] /\ pc'.at = j /\ pc'.do = "answer" /\ j # Atomic
    BY <2>0, <2>1 DEF Dos, LoopDos
  <2>3. exec' \in [Levels -> ExecTypes \cup {None}]
    BY <1>0, <2>1 DEF TypeInv
  <2>4. TypeInv'
    BY <1>0, <2>0, <2>1, <2>2, <2>3 DEF TypeInv, LevelDos, LoopDos, budgets
  <2>5. /\ \A k \in Levels : k > j => exec'[k] = None
        /\ \A k \in Levels : k <= j => exec'[k] = exec[k] /\ Begun(k)
        /\ prompting' = {}
    BY <1>0, <2>0, <2>1 DEF StackInv, InStep
  <2>6. StackInv'
    BY <2>0, <2>2, <2>5 DEF StackInv, InStep, Running, Begun
  <2>7. LoopInv'
    BY <1>0, <2>0, <2>1 DEF LoopInv, InStep, Entered
  <2> QED  BY <2>4, <2>6, <2>7 DEF IInv
<1>3. ASSUME Sell \/ Buy PROVE IInv'
  <2>1. /\ pc' = pc /\ UNCHANGED <<loop, bar, exec, cal, prompting, config, faults, prompts>>
    BY <1>3 DEF Sell, Buy
  <2>2. position' \in Positions
    <3>1. position \in Positions
      BY <1>0 DEF TypeInv
    <3>2. CASE position' = [position EXCEPT !.delayed = position.delayed + 1]
               /\ position.type = "cash"
      <4>1. position.delayed + 1 \in Int
        BY <3>1, <3>2 DEF Positions
      <4> QED  BY <3>1, <3>2, <4>1, BacktestAssumption DEF Positions
    <3>3. CASE \E c \in {position.available + 1, position.available - 1} :
                 position' = [position EXCEPT !.available = c]
      BY <3>1, <3>3 DEF Positions
    <3> QED  BY <1>3, <3>2, <3>3 DEF Sell, Buy
  <2>3. worth' \in Int /\ deals' \in Nat
    <3>1. worth \in Int /\ deals \in Nat
      BY <1>0 DEF TypeInv
    <3>2. deals' = deals + 1 /\ (worth' = worth + 1 \/ worth' = worth - 1)
      BY <1>3 DEF Sell, Buy
    <3> QED  BY <3>1, <3>2
  <2>4. TypeInv'
    BY <1>0, <2>1, <2>2, <2>3 DEF TypeInv
  <2>5. StackInv' /\ LoopInv'
    BY <1>0, <2>1 DEF StackInv, LoopInv, InStep, Entered, Chain, Gone, Stopped, Running, Begun
  <2> QED  BY <2>4, <2>5 DEF IInv
<1>4. ASSUME Collected PROVE IInv'
  <2>1. /\ pc.at = Atomic /\ pc.do = "deal" /\ pc' = [at |-> Atomic, do |-> "advance"]
        /\ UNCHANGED <<loop, bar, exec, cal, prompting, position, config, worth, budgets>>
    BY <1>4 DEF Collected, At, Goto
  <2>2. TypeInv'
    BY <1>0, <2>1 DEF TypeInv, AtomicDos, Dos, budgets
  <2>3. StackInv'
    BY <1>0, <2>1 DEF StackInv, InStep, Begun
  <2>4. LoopInv'
    BY <1>0, <2>1 DEF LoopInv, InStep, Entered
  <2> QED  BY <2>2, <2>3, <2>4 DEF IInv
<1> QED  BY <1>1, <1>2, <1>3, <1>4 DEF Bracket

\* A failure stops every executor there is, and ends the call or leaves it
\* the scope to close.
LEMMA FailureStops ==
  ASSUME IInv, Fails
  PROVE  /\ IInv' /\ Stopped' /\ loop'.phase = "Failed" /\ loop'.reports = loop.reports
         /\ InStep /\ loop.phase \in {"Start", "Ready", "AwaitCollection"}
         /\ \/ pc'.do = "unwind" /\ loop'.open /\ loop.open /\ pc.do # "exit"
            \/ pc' = Idle /\ ~loop'.open /\ (loop.open => pc.do = "exit")
<1> USE LevelsAre, BacktestAssumption
<1>0. TypeInv /\ StackInv /\ LoopInv  BY DEF IInv
<1> DEFINE open == loop.open /\ pc.do # "exit"
<1>1. /\ exec' = [k \in Levels |-> IF exec[k] = None THEN None ELSE [exec[k] EXCEPT !.phase = "Failed"]]
      /\ prompting' = prompting \ {pc.at}
      /\ loop' = [loop EXCEPT !.phase = "Failed", !.open = open]
      /\ pc' = IF open THEN [at |-> 0, do |-> "unwind"] ELSE Idle
      /\ faults' \in {faults, faults + 1}
      /\ UNCHANGED <<bar, cal, position, config, worth, prompts, deals>>
  BY DEF Fails
<1>2. InStep
  BY <1>0 DEF Fails, Fallible, InStep
<1>3. /\ exec' \in [Levels -> ExecTypes \cup {None}]
      /\ \A k \in Levels : exec'[k] # None => exec'[k].phase = "Failed"
  <2>1. exec \in [Levels -> ExecTypes \cup {None}]
    BY <1>0 DEF TypeInv
  <2>2. ASSUME NEW k \in Levels, exec[k] # None
        PROVE  /\ [exec[k] EXCEPT !.phase = "Failed"] \in ExecTypes
               /\ [exec[k] EXCEPT !.phase = "Failed"].phase = "Failed"
    BY <2>1, <2>2 DEF ExecTypes
  <2> QED  BY <1>1, <2>1, <2>2
<1>4. prompting' = {}
  BY <1>0, <1>1, <1>2 DEF StackInv
<1>5. Stopped'
  BY <1>3, <1>4 DEF Stopped
<1>6. /\ loop' \in LoopType /\ loop'.phase = "Failed" /\ loop'.open = open
      /\ loop'.reports = loop.reports
  <2>1. loop \in LoopType /\ open \in BOOLEAN
    BY <1>0 DEF TypeInv, LoopType
  <2> HIDE DEF open
  <2> QED  BY <1>1, <2>1 DEF LoopType, LoopPhases
<1>7. /\ \/ open /\ pc' = [at |-> 0, do |-> "unwind"]
         \/ ~open /\ pc' = [at |-> 0, do |-> "idle"]
  BY <1>1 DEF Idle
<1>8. TypeInv'
  BY <1>0, <1>1, <1>3, <1>4, <1>6, <1>7 DEF TypeInv, LoopDos, Dos
<1>9. StackInv'
  BY <1>5, <1>6, <1>7 DEF StackInv, InStep
<1>10. loop.phase \in {"Start", "Ready", "AwaitCollection"}
  BY <1>0, <1>2 DEF LoopInv
<1>11. open => Entered
  BY <1>0, <1>2, <1>10 DEF LoopInv
<1>12. ~loop.reports
  BY <1>0, <1>10 DEF LoopInv
<1>13. loop.open => open \/ pc.do = "exit"
  OBVIOUS
<1>14. open => loop.open /\ pc.do # "exit"
  OBVIOUS
<1>15. open \in BOOLEAN /\ bar' = bar
  BY <1>0, <1>1 DEF TypeInv, LoopType
<1> HIDE DEF open
<1>16. CASE open
  <2>1. loop'.open /\ pc'.do = "unwind" /\ pc'.at = 0
    BY <1>6, <1>7, <1>16
  <2>2. LoopInv'
    BY <1>6, <1>11, <1>12, <1>15, <1>16, <2>1 DEF LoopInv, InStep, Entered
  <2> QED  BY <1>2, <1>5, <1>6, <1>8, <1>9, <1>10, <1>14, <1>16, <2>1, <2>2 DEF IInv
<1>17. CASE ~open
  <2>1. ~loop'.open /\ pc' = Idle /\ pc'.do = "idle" /\ pc'.at = 0
    BY <1>6, <1>7, <1>17 DEF Idle
  <2>2. LoopInv'
    BY <1>6, <1>12, <1>15, <1>17, <2>1 DEF LoopInv, InStep, Entered
  <2> QED  BY <1>2, <1>5, <1>6, <1>8, <1>9, <1>10, <1>13, <1>17, <2>1, <2>2 DEF IInv
<1> QED  BY <1>16, <1>17

\* Every step keeps the invariant.
LEMMA NextIInv == IInv /\ [Next]_vars => IInv'
<1> SUFFICES ASSUME IInv, [Next]_vars PROVE IInv'  OBVIOUS
<1>1. CASE UNCHANGED vars
  BY <1>1 DEF vars, budgets, IInv, TypeInv, StackInv, LoopInv, InStep, Entered, Chain, Gone,
        Stopped, Running, Begun
<1>2. CASE Next
  <2>1. ASSUME NEW l \in 0 .. Depth, Begin(l) PROVE IInv'
    BY <2>1, ExecutorSteps
  <2>2. ASSUME NEW l \in Levels, Level(l) \/ CloseChild(l) PROVE IInv'
    BY <2>2, ExecutorSteps, LevelsAre
  <2> QED  BY <1>2, <2>1, <2>2, LoopSteps, BracketSteps, FailureStops DEF Next, Works
<1> QED  BY <1>1, <1>2

\* The state has its types, and the stack and the loop agree at every place
\* of a call.
THEOREM BacktestInvariant == Spec => []IInv
<1> QED  BY InitIInv, NextIInv, PTL DEF Spec

\* What is suspended is one chain of executors down to the one that waits for
\* the caller, and a run that has ended leaves nothing asleep.
THEOREM ChainsOnly == Spec => []SuspendedChain
<1>1. IInv => SuspendedChain
  <2> SUFFICES ASSUME IInv, pc = Idle PROVE SuspendedChain  BY DEF SuspendedChain
  <2>1. pc.do = "idle" /\ TypeInv /\ StackInv
    BY DEF Idle, IInv
  <2>2. CASE loop.phase = "AwaitCollection"
    <3>1. Chain(1)
      BY <2>1, <2>2 DEF StackInv
    <3>2. PICK m \in Levels :
            /\ \A k \in Levels : k >= 1 /\ k < m => exec[k] # None /\ exec[k].phase = "AwaitInner"
            /\ exec[m] # None /\ exec[m].phase \in Asleep \ {"AwaitInner"}
            /\ \A k \in Levels : k > m => exec[k] = None
            /\ prompting = IF exec[m].phase = "AwaitStrategy" THEN {m} ELSE {}
      BY <3>1 DEF Chain
    <3>3. /\ \A k \in 1 .. m - 1 : exec[k] # None /\ exec[k].phase = "AwaitInner"
          /\ \A k \in m + 1 .. Depth : exec[k] = None
      BY <3>2, LevelsAre
    <3> QED  BY <2>2, <3>2, <3>3 DEF SuspendedChain
  <2>3. CASE loop.phase # "AwaitCollection"
    BY <2>1, <2>3 DEF SuspendedChain, StackInv, Stopped
  <2> QED  BY <2>2, <2>3
<1> QED  BY <1>1, BacktestInvariant, PTL

-----------------------------------------------------------------------------
(* The loop implements Generator.                                          *)

Quiet == {"idle", "close", "closed"}

\* Where nothing below the loop can be suspended, and where something is.
LEMMA BusyIs ==
  ASSUME IInv
  PROVE  /\ pc.do \in {"unwind", "closed"} => ~AbstractBusy
         /\ InStep /\ pc.at = 0 => ~AbstractBusy
         /\ pc.do = "idle" /\ loop.phase # "AwaitCollection" => ~AbstractBusy
         /\ pc.do = "idle" /\ loop.phase = "AwaitCollection" => AbstractBusy
<1>0. TypeInv /\ StackInv  BY DEF IInv
<1>1. Stopped \/ (Gone /\ prompting = {}) => ~AbstractBusy
  BY DEF Stopped, Gone, AbstractBusy, Asleep
<1>2. Chain(1) => AbstractBusy
  BY DEF Chain, AbstractBusy
<1>3. InStep /\ pc.at = 0 => Gone /\ prompting = {}
  <2>1. pc.at = 0 => pc.do # "prompt"
    BY <1>0 DEF TypeInv, LoopDos
  <2> QED  BY <1>0, <2>1, LevelsAre DEF StackInv, InStep, Gone
<1> QED  BY <1>0, <1>1, <1>2, <1>3 DEF StackInv

\* A step in the middle of a call that keeps the scope is work.
LEMMA WorkMaps ==
  ASSUME IInv, IInv', pc.do \notin Quiet, pc'.do \notin Quiet, loop'.open = loop.open,
         loop'.reports = loop.reports, bar'.total = bar.total
  PROVE  Outer!Work
<1>1. AbstractPhase = "running" /\ AbstractPhase' = "running"
  BY DEF AbstractPhase, Idle, Quiet
<1>2. AbstractScope' = AbstractScope
  BY DEF AbstractScope
<1>3. AbstractBusy' \in BOOLEAN
  BY DEF AbstractBusy
<1> QED  BY <1>1, <1>2, <1>3 DEF Outer!Work

\* A suspension of whatever level gives the control back with the scope open.
LEMMA SuspensionMaps ==
  ASSUME IInv, IInv', NEW l \in Levels, NEW p, pc.at = l, pc.do \in {"start", "prompt"},
         Suspends(l, p), bar' = bar
  PROVE  Outer!Suspend
<1>0. TypeInv /\ LoopInv /\ l # 0  BY LevelsAre DEF IInv
<1>1. /\ pc' = Idle /\ loop'.phase = "AwaitCollection"
      /\ loop'.open = loop.open /\ loop'.reports = loop.reports
  BY <1>0 DEF Suspends, TypeInv, LoopType
<1>2. Entered
  BY <1>0 DEF LoopInv, InStep
<1>3. AbstractPhase = "running" /\ AbstractPhase' = "suspended"
  BY <1>1 DEF AbstractPhase, Idle, Told
<1>4. AbstractScope = "open" /\ AbstractScope' = "open"
  BY <1>1, <1>2 DEF AbstractScope, Entered
<1>5. AbstractBusy'
  <2>1. pc'.do = "idle" /\ StackInv'
    BY <1>1 DEF Idle, IInv
  <2>2. Chain(1)'
    BY <1>1, <2>1 DEF StackInv
  <2> QED  BY <2>2 DEF Chain, AbstractBusy
<1>6. AbstractBusy' = TRUE
  BY <1>5 DEF AbstractBusy
<1> QED  BY <1>1, <1>3, <1>4, <1>6 DEF Outer!Suspend

\* The steps of the loop itself.
LEMMA LoopMaps ==
  ASSUME IInv, IInv', Resume \/ CloseQuiet \/ CloseSuspended \/ CloseScope \/ Start \/ Enter \/ Test
                       \/ Tick \/ ExitScope \/ Report \/ Unwind
  PROVE  Outer!Next
<1> USE LevelsAre, BacktestAssumption
<1>0. TypeInv /\ StackInv /\ LoopInv  BY DEF IInv
<1>1. ASSUME Resume PROVE Outer!Resume
  <2>1. UNCHANGED <<loop, bar, exec, prompting>> /\ pc = Idle
    BY <1>1 DEF Resume
  <2>2. AbstractScope' = AbstractScope /\ AbstractBusy' = AbstractBusy /\ loop'.reports = loop.reports
    BY <2>1 DEF AbstractScope, AbstractBusy
  <2>3. AbstractPhase \in {"fresh", "suspended"}
    BY <1>1, <2>1 DEF Resume, AbstractPhase, Told
  <2>4. pc'.do \in {"start", "settle", "prompt", "begin"}
    <3>1. CASE loop.phase = "Start"
      BY <1>1, <3>1 DEF Resume, Goto
    <3>2. CASE loop.phase = "AwaitCollection"
      <4>1. Chain(1)
        BY <1>0, <2>1, <3>2 DEF StackInv, Idle
      <4>2. exec[Innermost].phase \in {"AfterOuterTrack", "AwaitStrategy", "AfterInnerTrack"}
        BY <1>0, <4>1, InnermostEnds
      <4>3. pc'.do = Entry(exec[Innermost].phase)
        BY <1>1, <3>2 DEF Resume, Goto
      <4> QED  BY <4>2, <4>3 DEF Entry
    <3> QED  BY <1>1, <3>1, <3>2 DEF Resume
  <2>5. AbstractPhase' = "running"
    BY <2>4 DEF AbstractPhase, Idle
  <2> QED  BY <2>2, <2>3, <2>5 DEF Outer!Resume
<1>2. ASSUME CloseQuiet PROVE Outer!Close
  <2>1. /\ UNCHANGED <<pc, bar, exec, prompting>> /\ pc = Idle /\ loop.phase \in {"Start", "Failed"}
        /\ loop'.phase = "Closed" /\ loop'.open = loop.open /\ loop'.reports = loop.reports
    BY <1>0, <1>2 DEF CloseQuiet, TypeInv, LoopType
  <2>2. ~loop.open
    BY <1>0, <2>1 DEF LoopInv, Idle
  <2>3. AbstractPhase \in {"fresh", "failed"} /\ AbstractPhase' = "closed"
    BY <2>1 DEF AbstractPhase, Told
  <2>4. AbstractScope' = AbstractScope /\ AbstractScope # "open" /\ AbstractBusy' = AbstractBusy
    BY <2>1, <2>2 DEF AbstractScope, AbstractBusy
  <2> QED  BY <2>1, <2>3, <2>4 DEF Outer!Close, Outer!Left
<1>3. ASSUME CloseSuspended PROVE Outer!BeginClose
  <2>1. /\ UNCHANGED <<loop, bar, exec, prompting>> /\ pc = Idle /\ loop.phase = "AwaitCollection"
        /\ pc'.do = "close"
    BY <1>3 DEF CloseSuspended, Goto
  <2>2. AbstractPhase = "suspended" /\ AbstractPhase' = "closing"
    BY <2>1 DEF AbstractPhase, Told, Idle
  <2>3. AbstractScope' = AbstractScope /\ AbstractBusy' = AbstractBusy
    BY <2>1 DEF AbstractScope, AbstractBusy
  <2> QED  BY <2>1, <2>2, <2>3 DEF Outer!BeginClose
<1>4. ASSUME CloseScope PROVE Outer!Close
  <2>1. /\ UNCHANGED <<bar, exec, prompting>> /\ pc.do = "closed" /\ pc' = Idle
        /\ loop'.phase = "Closed" /\ ~loop'.open /\ loop'.reports = loop.reports
    BY <1>0, <1>4 DEF CloseScope, At, TypeInv, LoopType
  <2>2. Entered /\ ~AbstractBusy
    BY <1>0, <2>1, BusyIs DEF LoopInv
  <2>3. AbstractPhase = "closing" /\ AbstractPhase' = "closed"
    BY <2>1 DEF AbstractPhase, Told, Idle
  <2>4. AbstractScope = "open" /\ AbstractScope' = "left" /\ AbstractBusy' = AbstractBusy
    BY <2>1, <2>2 DEF AbstractScope, AbstractBusy, Entered
  <2> QED  BY <2>1, <2>2, <2>3, <2>4 DEF Outer!Close, Outer!Left
<1>5. ASSUME Start \/ Test \/ Tick PROVE Outer!Work
  <2>1. /\ pc.do \notin Quiet /\ pc'.do \notin Quiet
    BY <1>5 DEF Start, Test, Tick, At, Goto, Quiet
  <2>2. loop'.open = loop.open /\ loop'.reports = loop.reports /\ bar'.total = bar.total
    BY <1>0, <1>5 DEF Start, Test, Tick, TypeInv, LoopType, BarType
  <2> QED  BY <2>1, <2>2, WorkMaps
<1>6. ASSUME Enter PROVE Outer!Enter
  <2>1. /\ UNCHANGED <<exec, prompting>> /\ pc.at = 0 /\ pc.do = "enter" /\ pc'.do = "test"
        /\ loop'.open /\ loop'.reports = loop.reports
    BY <1>0, <1>6 DEF Enter, At, Goto, TypeInv, LoopType
  <2>2. ~loop.open /\ bar.total = None
    BY <1>0, <2>1 DEF LoopInv
  <2>3. AbstractPhase = "running" /\ AbstractPhase' = "running"
    BY <2>1 DEF AbstractPhase, Idle
  <2>4. AbstractScope = "unentered" /\ AbstractScope' = "open" /\ AbstractBusy' = AbstractBusy
    BY <2>1, <2>2 DEF AbstractScope, AbstractBusy
  <2> QED  BY <2>1, <2>3, <2>4 DEF Outer!Enter
<1>7. ASSUME ExitScope PROVE Outer!Leave
  <2>1. /\ UNCHANGED <<bar, exec, prompting>> /\ pc.at = 0 /\ pc.do = "exit" /\ pc'.do = "report"
        /\ ~loop'.open /\ loop'.reports = loop.reports
    BY <1>0, <1>7 DEF ExitScope, At, Goto, TypeInv, LoopType
  <2>2. InStep
    BY <2>1 DEF InStep
  <2>3. Entered /\ ~AbstractBusy
    BY <1>0, <2>1, <2>2, BusyIs DEF LoopInv
  <2>4. AbstractPhase = "running" /\ AbstractPhase' = "running"
    BY <2>1 DEF AbstractPhase, Idle
  <2>5. AbstractScope = "open" /\ AbstractScope' = "left" /\ AbstractBusy' = AbstractBusy
    BY <2>1, <2>3 DEF AbstractScope, AbstractBusy, Entered
  <2> QED  BY <2>1, <2>3, <2>4, <2>5 DEF Outer!Leave
<1>8. ASSUME Report PROVE Outer!Finish
  <2>1. /\ UNCHANGED <<bar, exec, prompting>> /\ pc.at = 0 /\ pc.do = "report" /\ pc' = Idle
        /\ loop'.phase = "Complete" /\ loop'.open = loop.open /\ loop'.reports = config.reports
    BY <1>0, <1>8 DEF Report, At, TypeInv, LoopType
  <2>2. InStep
    BY <2>1 DEF InStep
  <2>3. bar.total # None /\ ~loop.open /\ ~AbstractBusy
    BY <1>0, <2>1, <2>2, BusyIs DEF LoopInv
  <2>4. AbstractPhase = "running" /\ AbstractPhase' = "done"
    BY <2>1 DEF AbstractPhase, Idle, Told
  <2>5. AbstractScope = "left" /\ AbstractScope' = "left" /\ AbstractBusy' = AbstractBusy
    BY <2>1, <2>3 DEF AbstractScope, AbstractBusy
  <2>6. loop'.reports \in BOOLEAN
    BY <1>0, <2>1, BacktestConfigs DEF TypeInv, ConfigTypes
  <2> QED  BY <2>3, <2>4, <2>5, <2>6 DEF Outer!Finish
<1>9. ASSUME Unwind PROVE Outer!Fail
  <2>1. /\ UNCHANGED <<bar, exec, prompting>> /\ pc.do = "unwind" /\ pc' = Idle
        /\ loop'.phase = loop.phase /\ ~loop'.open /\ loop'.reports = loop.reports
    BY <1>0, <1>9 DEF Unwind, At, TypeInv, LoopType
  <2>2. Entered /\ loop.phase = "Failed" /\ ~AbstractBusy
    BY <1>0, <2>1, BusyIs DEF LoopInv
  <2>3. AbstractPhase = "running" /\ AbstractPhase' = "failed"
    BY <2>1, <2>2 DEF AbstractPhase, Idle, Told
  <2>4. AbstractScope = "open" /\ AbstractScope' = "left" /\ AbstractBusy' = AbstractBusy
    BY <2>1, <2>2 DEF AbstractScope, AbstractBusy, Entered
  <2> QED  BY <2>1, <2>2, <2>3, <2>4 DEF Outer!Fail, Outer!Left
<1> QED  BY <1>1, <1>2, <1>3, <1>4, <1>5, <1>6, <1>7, <1>8, <1>9 DEF Outer!Next

\* The steps below the loop.
LEMMA LevelMaps ==
  ASSUME IInv, IInv', \/ \E l \in 0 .. Depth : Begin(l)
                      \/ \E l \in Levels : Level(l) \/ CloseChild(l)
                      \/ \E l \in 1 .. Atomic : Bracket(l)
                      \/ Sell \/ Buy \/ Collected
  PROVE  Outer!Next
<1> USE LevelsAre
<1>1. ASSUME NEW l \in Levels, Level(l) PROVE Outer!Work \/ Outer!Suspend
  <2>1. CASE Track(l) /\ l \in config.tracks
    BY <2>1, SuspensionMaps DEF Track, At
  <2>2. CASE Prompts(l)
    BY <2>2, SuspensionMaps DEF Prompts, At
  <2>3. CASE Decides(l) /\ l = Depth /\ config.tracksInner
    BY <2>3, SuspensionMaps DEF Decides, At
  <2>4. CASE \/ Track(l) /\ l \notin config.tracks
             \/ Decides(l) /\ ~(l = Depth /\ config.tracksInner)
             \/ Initialize(l) \/ Ends(l) \/ Skips(l) \/ Asks(l) \/ Answer(l)
    <3>1. UNCHANGED <<loop, bar>>
      BY <2>4 DEF Track, Decides, Initialize, Ends, Skips, Asks, Answer
    <3>2. pc.do \notin Quiet /\ pc'.do \notin Quiet
      BY <2>4 DEF Track, Decides, Initialize, Ends, Skips, Asks, Answer, At, Goto, Quiet
    <3> QED  BY <3>1, <3>2, WorkMaps
  <2> QED  BY <1>1, <2>1, <2>2, <2>3, <2>4 DEF Level
<1>2. ASSUME NEW l \in 0 .. Depth, Begin(l) PROVE Outer!Work
  <2>1. UNCHANGED <<loop, bar>> /\ pc.do \notin Quiet /\ pc'.do \notin Quiet
    BY <1>2 DEF Begin, At, Goto, Quiet
  <2> QED  BY <2>1, WorkMaps
<1>3. ASSUME NEW l \in 1 .. Atomic, Bracket(l) PROVE Outer!Work
  <2>1. UNCHANGED <<loop, bar>> /\ pc.do \notin Quiet /\ pc'.do \notin Quiet
    BY <1>3 DEF Bracket, SettleStart, Advance, Commit, Return, At, Goto, Quiet
  <2> QED  BY <2>1, WorkMaps
<1>4. ASSUME Sell \/ Buy \/ Collected PROVE Outer!Work
  <2>1. UNCHANGED <<loop, bar>> /\ pc.do \notin Quiet /\ pc'.do \notin Quiet
    BY <1>4 DEF Sell, Buy, Collected, At, Goto, Quiet
  <2> QED  BY <2>1, WorkMaps
<1>5. ASSUME NEW l \in Levels, CloseChild(l) PROVE Outer!Release
  <2>1. UNCHANGED <<loop, bar>> /\ pc.do = "close" /\ pc'.do \in {"close", "closed"}
    BY <1>5 DEF CloseChild, At, Goto
  <2>2. AbstractPhase = "closing" /\ AbstractPhase' = "closing"
    BY <2>1 DEF AbstractPhase, Idle
  <2>3. AbstractScope' = AbstractScope /\ AbstractBusy' \in BOOLEAN
    BY <2>1 DEF AbstractScope, AbstractBusy
  <2> QED  BY <2>1, <2>2, <2>3 DEF Outer!Release
<1> QED  BY <1>1, <1>2, <1>3, <1>4, <1>5 DEF Outer!Next

\* A failure ends the call there, or leaves the scope to the unwinding.
LEMMA FailureMaps ==
  ASSUME IInv, Fails
  PROVE  Outer!Next
<1>0. TypeInv /\ LoopInv  BY DEF IInv
<1>1. /\ IInv' /\ Stopped' /\ loop'.phase = "Failed" /\ loop'.reports = loop.reports
      /\ InStep /\ loop.phase \in {"Start", "Ready", "AwaitCollection"}
  BY FailureStops
<1>2. bar' = bar /\ pc.do \notin Quiet
  BY <1>1 DEF Fails, InStep, Quiet
<1>3. CASE pc'.do = "unwind" /\ loop'.open /\ loop.open
  <2>1. pc'.do \notin Quiet /\ loop'.open = loop.open
    <3>1. loop.open \in BOOLEAN /\ loop'.open \in BOOLEAN
      BY <1>0, <1>1 DEF IInv, TypeInv, LoopType
    <3> QED  BY <1>3, <3>1 DEF Quiet
  <2>2. Outer!Work
    BY <1>1, <1>2, <2>1, WorkMaps
  <2> QED  BY <2>2 DEF Outer!Next
<1>4. CASE pc' = Idle /\ ~loop'.open /\ (loop.open => pc.do = "exit")
  <2>1. AbstractPhase = "running" /\ AbstractPhase' = "failed"
    BY <1>1, <1>2, <1>4 DEF AbstractPhase, Idle, Quiet, Told
  <2>2. ~AbstractBusy'
    BY <1>1 DEF Stopped, AbstractBusy, Asleep
  <2>3. loop.open => bar.total # None
    BY <1>0, <1>1 DEF LoopInv, Entered
  <2>4. AbstractScope' = Outer!Left
    BY <1>2, <1>4, <2>3 DEF AbstractScope, Outer!Left
  <2>5. Outer!Fail
    BY <1>1, <2>1, <2>2, <2>4 DEF Outer!Fail
  <2> QED  BY <2>5 DEF Outer!Next
<1> QED  BY <1>3, <1>4, FailureStops

\* The progress scope is entered once and left exactly once, on completion,
\* failure and close alike, never above something that is still suspended;
\* there are reports only after a complete run, and an end is final.
THEOREM LoopImplementsGenerator == Spec => LoopIsGenerator
<1>1. Init => Outer!Init
  BY BacktestAssumption DEF Init, Outer!Init, AbstractPhase, AbstractScope, AbstractBusy, Idle, Told
<1>2. IInv /\ [Next]_vars => [Outer!Next]_(Outer!vars)
  <2> SUFFICES ASSUME IInv, [Next]_vars PROVE [Outer!Next]_(Outer!vars)  OBVIOUS
  <2>1. CASE UNCHANGED vars
    BY <2>1 DEF vars, Outer!vars, AbstractPhase, AbstractScope, AbstractBusy
  <2>2. CASE Next
    <3>1. IInv'
      BY <2>2, NextIInv
    <3>2. Outer!Next
      BY <2>2, <3>1, LoopMaps, LevelMaps, FailureMaps DEF Next, Works
    <3> QED  BY <3>2
  <2> QED  BY <2>1, <2>2
<1> QED  BY <1>1, <1>2, BacktestInvariant, PTL DEF Spec, LoopIsGenerator, Outer!Spec

-----------------------------------------------------------------------------
(* What a step of an executor does to the stack.                           *)

Open == {"Loop", "AwaitStrategy", "AfterInnerTrack", "AwaitInner"}
SameCount(k) == exec'[k].records = exec[k].records /\ exec'[k].skipped = exec[k].skipped

\* A suspension changes nothing of an executor but its phase.
LEMMA SuspensionEffect ==
  ASSUME exec \in [Levels -> ExecTypes \cup {None}], NEW l \in Levels,
         \A k \in Levels : k <= l => exec[k] # None,
         NEW p \in {"AfterOuterTrack", "AwaitStrategy", "AfterInnerTrack"}, Suspends(l, p)
  PROVE  /\ \A k \in Levels : k < l => exec'[k].phase = "AwaitInner" /\ SameCount(k)
         /\ \A k \in Levels : k <= l => exec'[k] \in ExecTypes
         /\ \A k \in Levels : k > l => exec'[k] = exec[k]
         /\ exec'[l].phase = p /\ SameCount(l)
<1> USE LevelsAre
<1>1. \A k \in Levels : k <= l => exec[k] \in ExecTypes
  OBVIOUS
<1>2. /\ \A k \in Levels : k < l => exec'[k] = [exec[k] EXCEPT !.phase = "AwaitInner"]
      /\ exec'[l] = [exec[l] EXCEPT !.phase = p]
      /\ \A k \in Levels : k > l => exec'[k] = exec[k]
  BY DEF Suspends
<1>3. ASSUME NEW k \in Levels, k < l
      PROVE  exec'[k] \in ExecTypes /\ exec'[k].phase = "AwaitInner" /\ SameCount(k)
  <2> DEFINE e == [exec[k] EXCEPT !.phase = "AwaitInner"]
  <2>1. exec'[k] = e
    BY <1>2, <1>3
  <2>2. e \in ExecTypes /\ e.phase = "AwaitInner" /\ e.records = exec[k].records
        /\ e.skipped = exec[k].skipped
    <3>1. exec[k] \in ExecTypes
      BY <1>1, <1>3
    <3> QED  BY <3>1 DEF ExecTypes
  <2> HIDE DEF e
  <2> QED  BY <2>1, <2>2 DEF SameCount
<1>4. exec'[l] \in ExecTypes /\ exec'[l].phase = p /\ SameCount(l)
  <2> DEFINE e == [exec[l] EXCEPT !.phase = p]
  <2>1. exec'[l] = e
    BY <1>2
  <2>2. e \in ExecTypes /\ e.phase = p /\ e.records = exec[l].records /\ e.skipped = exec[l].skipped
    <3>1. exec[l] \in ExecTypes
      BY <1>1
    <3> QED  BY <3>1 DEF ExecTypes
  <2> HIDE DEF e
  <2> QED  BY <2>1, <2>2 DEF SameCount
<1> QED  BY <1>2, <1>3, <1>4

\* A step of level l finds an executor at every level down to l, and changes
\* the phases above it and the count of level l at most.
LEMMA LevelEffect ==
  ASSUME IInv, NEW l \in Levels, Level(l)
  PROVE  /\ pc.at = l
         /\ \A k \in Levels : k < l => exec[k] \in ExecTypes /\ exec[k].phase \in Open
                                       /\ exec'[k].phase \in Open /\ SameCount(k)
         /\ \A k \in Levels : k <= l => exec'[k] # None /\ exec[k] # None
         /\ \A k \in Levels : k > l => exec[k] = None /\ exec'[k] = None
         /\ Track(l) => exec[l].phase = "Start" /\ exec'[l].phase = "AfterOuterTrack"
         /\ Initialize(l) => /\ exec'[l].phase = "Loop" /\ exec'[l].records = 0
                             /\ exec'[l].skipped = 0
         /\ ~Track(l) /\ ~Initialize(l) => exec[l].phase \in Open /\ exec'[l].phase \in Open
         /\ Prompts(l) \/ Decides(l) \/ Ends(l) \/ Asks(l) => SameCount(l)
         /\ Skips(l) => exec'[l].records = exec[l].records /\ exec'[l].skipped = exec[l].skipped + 1
         /\ Answer(l) => exec'[l].records = exec[l].records + 1 /\ exec'[l].skipped = exec[l].skipped
<1> USE LevelsAre
<1>0. TypeInv /\ StackInv /\ exec \in [Levels -> ExecTypes \cup {None}]
  BY DEF IInv, TypeInv
<1>1. pc.at = l /\ pc.do \in {"start", "window", "loop", "prompt", "answer"}
  BY DEF Level, Track, Initialize, Ends, Skips, Asks, Prompts, Decides, Answer, At
<1>2. /\ \A k \in Levels : k < l => Begun(k)
      /\ \A k \in Levels : k > l => exec[k] = None
      /\ \A k \in Levels : k <= l => exec[k] # None
      /\ exec[l] \in ExecTypes
      /\ pc.do = "start" => exec[l] = Fresh
      /\ pc.do = "window" => exec[l].records = 0 /\ exec[l].skipped = 0
      /\ pc.do \notin {"start", "window"} => Begun(l)
  BY <1>0, <1>1 DEF StackInv, InStep, Running, Begun
<1>3. exec[l].records + 1 \in Nat /\ exec[l].skipped + 1 \in Nat
  BY <1>2 DEF ExecTypes
<1>4. ASSUME NEW p \in {"AfterOuterTrack", "AwaitStrategy", "AfterInnerTrack"}, Suspends(l, p)
      PROVE  /\ \A k \in Levels : k < l => exec'[k].phase \in Open /\ SameCount(k)
             /\ \A k \in Levels : k <= l => exec'[k] # None
             /\ \A k \in Levels : k > l => exec'[k] = None
             /\ exec'[l].phase = p /\ SameCount(l)
  BY <1>0, <1>2, <1>4, SuspensionEffect, BacktestAssumption DEF Open
<1>5. ASSUME NEW e \in ExecTypes, exec' = [exec EXCEPT ![l] = e]
      PROVE  /\ \A k \in Levels : k < l => exec'[k] = exec[k]
             /\ \A k \in Levels : k <= l => exec'[k] # None
             /\ \A k \in Levels : k > l => exec'[k] = None
             /\ exec'[l] = e
  BY <1>0, <1>2, <1>5, BacktestAssumption
<1>6. ASSUME NEW k \in Levels, k < l
      PROVE  exec[k] \in ExecTypes /\ exec[k].phase \in Open
  BY <1>0, <1>2, <1>6 DEF Begun, Open
<1>7. CASE Track(l)
  <2>1. /\ exec[l] = Fresh /\ pc.do = "start"
        /\ ~Initialize(l) /\ ~Prompts(l) /\ ~Decides(l) /\ ~Ends(l) /\ ~Asks(l) /\ ~Skips(l) /\ ~Answer(l)
    BY <1>2, <1>7 DEF Track, At, Initialize, Prompts, Decides, Ends, Asks, Skips, Answer
  <2>2. CASE l \in config.tracks
    BY <1>1, <1>2, <1>4, <1>6, <1>7, <2>1, <2>2 DEF Track, Fresh
  <2>3. CASE l \notin config.tracks
    <3> DEFINE e == [exec[l] EXCEPT !.phase = "AfterOuterTrack"]
    <3>1. e \in ExecTypes /\ e.phase = "AfterOuterTrack"
      BY <1>2 DEF ExecTypes
    <3>2. exec' = [exec EXCEPT ![l] = e]
      BY <1>0, <1>7, <2>3 DEF Track
    <3> HIDE DEF e
    <3>3. exec[l].phase = "Start"
      BY <2>1 DEF Fresh
    <3> QED  BY <1>1, <1>2, <1>5, <1>6, <1>7, <2>1, <3>1, <3>2, <3>3 DEF SameCount
  <2> QED  BY <2>2, <2>3
<1>8. CASE Prompts(l)
  <2>1. /\ pc.do = "prompt" /\ Suspends(l, "AwaitStrategy")
        /\ ~Initialize(l) /\ ~Track(l) /\ ~Ends(l) /\ ~Asks(l) /\ ~Skips(l) /\ ~Answer(l)
    BY <1>8 DEF Track, At, Initialize, Prompts, Ends, Asks, Skips, Answer
  <2> QED  BY <1>1, <1>2, <1>4, <1>6, <2>1 DEF Begun, Open
<1>9. CASE Decides(l)
  <2>1. /\ pc.do = "prompt"
        /\ ~Initialize(l) /\ ~Track(l) /\ ~Ends(l) /\ ~Asks(l) /\ ~Skips(l) /\ ~Answer(l)
    BY <1>9 DEF Track, At, Initialize, Decides, Ends, Asks, Skips, Answer
  <2>2. CASE l = Depth /\ config.tracksInner
    <3>1. Suspends(l, "AfterInnerTrack")
      BY <1>9, <2>2 DEF Decides
    <3> QED  BY <1>1, <1>2, <1>4, <1>6, <2>1, <3>1 DEF Begun, Open
  <2>3. CASE ~(l = Depth /\ config.tracksInner)
    <3>1. exec' = exec
      BY <1>9, <2>3 DEF Decides
    <3> QED  BY <1>1, <1>2, <1>6, <2>1, <3>1 DEF Begun, Open, SameCount
  <2> QED  BY <2>2, <2>3
<1>10. CASE Initialize(l)
  <2>1. /\ pc.do = "window" /\ exec' = [exec EXCEPT ![l] = [exec[l] EXCEPT !.phase = "Loop"]]
        /\ ~Prompts(l) /\ ~Track(l) /\ ~Ends(l) /\ ~Asks(l) /\ ~Skips(l) /\ ~Answer(l) /\ ~Decides(l)
    BY <1>0, <1>10 DEF Track, At, Initialize, Prompts, Decides, Ends, Asks, Skips, Answer
  <2>2. /\ [exec[l] EXCEPT !.phase = "Loop"] \in ExecTypes
        /\ [exec[l] EXCEPT !.phase = "Loop"].phase = "Loop"
        /\ [exec[l] EXCEPT !.phase = "Loop"].records = exec[l].records
        /\ [exec[l] EXCEPT !.phase = "Loop"].skipped = exec[l].skipped
    BY <1>2 DEF ExecTypes
  <2> QED  BY <1>1, <1>2, <1>5, <1>6, <1>10, <2>1, <2>2 DEF SameCount
<1>11. CASE Skips(l)
  <2>1. /\ pc.do = "loop"
        /\ exec' = [exec EXCEPT ![l] = [exec[l] EXCEPT !.skipped = exec[l].skipped + 1]]
        /\ ~Prompts(l) /\ ~Track(l) /\ ~Answer(l) /\ ~Decides(l) /\ ~Initialize(l)
    BY <1>0, <1>11 DEF Track, At, Initialize, Prompts, Decides, Skips, Answer
  <2>2. /\ [exec[l] EXCEPT !.skipped = exec[l].skipped + 1] \in ExecTypes
        /\ [exec[l] EXCEPT !.skipped = exec[l].skipped + 1].phase = exec[l].phase
        /\ [exec[l] EXCEPT !.skipped = exec[l].skipped + 1].records = exec[l].records
        /\ [exec[l] EXCEPT !.skipped = exec[l].skipped + 1].skipped = exec[l].skipped + 1
    BY <1>2, <1>3 DEF ExecTypes
  <2>3. ~Ends(l) /\ ~Asks(l)
    BY <1>11 DEF Ends, Asks, Skips, At, Goto
  <2> QED  BY <1>1, <1>2, <1>5, <1>6, <2>1, <2>2, <2>3 DEF SameCount, Begun, Open
<1>12. CASE Answer(l)
  <2>1. /\ pc.do = "answer"
        /\ exec' = [exec EXCEPT ![l] = [exec[l] EXCEPT !.records = exec[l].records + 1, !.phase = "Loop"]]
        /\ ~Prompts(l) /\ ~Track(l) /\ ~Skips(l) /\ ~Decides(l) /\ ~Initialize(l) /\ ~Ends(l) /\ ~Asks(l)
    BY <1>0, <1>12 DEF Track, At, Initialize, Prompts, Decides, Skips, Answer, Ends, Asks
  <2>2. /\ [exec[l] EXCEPT !.records = exec[l].records + 1, !.phase = "Loop"] \in ExecTypes
        /\ [exec[l] EXCEPT !.records = exec[l].records + 1, !.phase = "Loop"].phase = "Loop"
        /\ [exec[l] EXCEPT !.records = exec[l].records + 1, !.phase = "Loop"].records
             = exec[l].records + 1
        /\ [exec[l] EXCEPT !.records = exec[l].records + 1, !.phase = "Loop"].skipped = exec[l].skipped
    BY <1>2, <1>3 DEF ExecTypes
  <2> QED  BY <1>1, <1>2, <1>5, <1>6, <2>1, <2>2 DEF SameCount, Begun, Open
<1>13. CASE Ends(l) \/ Asks(l)
  <2>1. /\ pc.do = "loop" /\ exec' = exec
        /\ ~Prompts(l) /\ ~Track(l) /\ ~Skips(l) /\ ~Decides(l) /\ ~Initialize(l) /\ ~Answer(l)
    BY <1>13 DEF Track, At, Initialize, Prompts, Decides, Skips, Answer, Ends, Asks, Goto
  <2> QED  BY <1>1, <1>2, <1>6, <2>1 DEF SameCount, Begun, Open
<1> QED  BY <1>7, <1>8, <1>9, <1>10, <1>11, <1>12, <1>13 DEF Level

-----------------------------------------------------------------------------
(* The cash.                                                               *)

\* Initially no settlement is open and nothing is earned.
LEMMA InitCash == Init => CashInv
<1> SUFFICES ASSUME Init PROVE CashInv  OBVIOUS
<1> QED  BY DEF Init, CashInv, Held

Active == {"Start", "Ready", "AwaitCollection"}

\* Where the loop itself runs, and before a run, no settlement is open.
LEMMA NothingHeld ==
  ASSUME IInv, CashInv, pc.at = 0, InStep \/ loop.phase = "Start", loop.phase \in Active
  PROVE  position.type = "None"
<1>0. TypeInv /\ StackInv /\ LoopInv  BY DEF IInv
<1>1. Gone /\ pc.do \notin {"close", "closed"}
  BY <1>0, LevelsAre DEF StackInv, LoopInv, InStep, Gone
<1>2. \A h \in 1 .. Atomic : ~Inside(h)
  BY <1>1, LevelsAre DEF Inside, Begun, Gone, At
<1> QED  BY <1>1, <1>2 DEF CashInv, Active

\* A step that leaves the cash alone, and everyone inside who has a settlement.
LEMMA HolderKept ==
  ASSUME CashInv, position' = position, worth' = worth, config' = config,
         loop'.phase \in Active =>
           /\ loop.phase \in Active
           /\ \/ position.type = "None" \/ pc'.do \in {"close", "closed"}
              \/ /\ pc.do \notin {"close", "closed"}
                 /\ \A h \in 1 .. Atomic : Inside(h) /\ config.settle[h] # "None" => Inside(h)',
         loop'.phase = "Complete" => position.type = "None"
  PROVE  CashInv'
<1>1. position'.available + Held' = worth'
  BY DEF CashInv, Held
<1>2. ASSUME loop'.phase \in Active, position'.type # "None", pc'.do \notin {"close", "closed"}
      PROVE  \E h \in 1 .. Atomic : Inside(h)' /\ config'.settle[h] # "None"
  <2>1. PICK h \in 1 .. Atomic : Inside(h) /\ config.settle[h] # "None"
    BY <1>2 DEF CashInv, Active
  <2> QED  BY <1>2, <2>1
<1> QED  BY <1>1, <1>2 DEF CashInv, Active

\* The steps of the loop and of the executors.
LEMMA CashElsewhere ==
  ASSUME IInv, IInv', CashInv,
         \/ Resume \/ CloseQuiet \/ CloseSuspended \/ CloseScope \/ Start \/ Enter \/ Test
         \/ Tick \/ ExitScope \/ Report \/ Unwind \/ Fails \/ Collected
         \/ \E l \in 0 .. Depth : Begin(l)
         \/ \E l \in Levels : Level(l) \/ CloseChild(l)
         \/ \E l \in 1 .. Atomic : Advance(l) \/ Return(l)
  PROVE  CashInv'
<1> USE LevelsAre
<1>0. TypeInv /\ StackInv /\ LoopInv /\ exec \in [Levels -> ExecTypes \cup {None}]
  BY DEF IInv, TypeInv
<1>1. ASSUME Resume PROVE CashInv'
  <2>1. UNCHANGED <<loop, exec, position, config, worth>> /\ pc.at = 0 /\ pc.do = "idle"
    BY <1>1 DEF Resume, Idle
  <2>2. CASE loop.phase = "Start"
    BY <2>1, <2>2, NothingHeld, HolderKept DEF Active
  <2>3. CASE loop.phase = "AwaitCollection"
    <3>1. pc'.do \in {"settle", "prompt", "begin"}
      <4>1. Chain(1)
        BY <1>0, <2>1, <2>3 DEF StackInv
      <4>2. exec[Innermost].phase \in {"AfterOuterTrack", "AwaitStrategy", "AfterInnerTrack"}
        BY <1>0, <4>1, InnermostEnds
      <4> QED  BY <1>1, <2>3, <4>2 DEF Resume, Goto, Entry
    <3>2. \A h \in 1 .. Atomic : Inside(h) => Inside(h)'
      BY <2>1, <3>1 DEF Inside, Begun, At
    <3> QED  BY <2>1, <2>3, <3>2, HolderKept DEF Active
  <2> QED  BY <1>1, <2>2, <2>3 DEF Resume
<1>2. ASSUME CloseQuiet \/ CloseScope \/ Fails \/ Unwind PROVE CashInv'
  <2>1. UNCHANGED <<position, config, worth>>
    BY <1>2 DEF CloseQuiet, CloseScope, Fails, Unwind
  <2>2. loop'.phase \in {"Closed", "Failed"}
    <3>1. CASE CloseQuiet \/ CloseScope
      BY <1>0, <3>1 DEF CloseQuiet, CloseScope, TypeInv, LoopType
    <3>2. CASE Fails
      BY <3>2, FailureStops
    <3>3. CASE Unwind
      BY <1>0, <3>3 DEF Unwind, At, LoopInv, TypeInv, LoopType
    <3> QED  BY <1>2, <3>1, <3>2, <3>3
  <2> QED  BY <2>1, <2>2, HolderKept DEF Active
<1>3. ASSUME CloseSuspended \/ \E l \in Levels : CloseChild(l) PROVE CashInv'
  <2>1. UNCHANGED <<loop, position, config, worth>> /\ pc'.do \in {"close", "closed"}
        /\ loop.phase = "AwaitCollection"
    BY <1>0, <1>3 DEF CloseSuspended, CloseChild, Goto, At, LoopInv
  <2> QED  BY <2>1, HolderKept DEF Active
<1>4. ASSUME Start \/ Enter \/ Test \/ Tick \/ ExitScope \/ Report PROVE CashInv'
  <2>1. /\ pc.at = 0 /\ pc.do \in {"start", "enter", "test", "answer", "exit", "report"}
        /\ UNCHANGED <<position, config, worth>>
    BY <1>4 DEF Start, Enter, Test, Tick, ExitScope, Report, At
  <2>2. InStep /\ loop.phase \in Active
    BY <1>0, <2>1 DEF LoopInv, InStep, Active
  <2>3. position.type = "None"
    BY <2>1, <2>2, NothingHeld
  <2> QED  BY <2>1, <2>2, <2>3, HolderKept
<1>5. ASSUME NEW l \in 0 .. Depth, Begin(l) PROVE CashInv'
  <2>1. /\ pc.at = l /\ pc.do = "begin" /\ pc'.do \in {"start", "settle"}
        /\ UNCHANGED <<loop, position, config, worth>>
        /\ \A k \in Levels : exec[k] # None => exec'[k] = exec[k]
    BY <1>0, <1>5 DEF Begin, At, Goto
  <2>2. \A h \in 1 .. Atomic : Inside(h) => Inside(h)'
    BY <2>1 DEF Inside, Begun, At
  <2>3. loop.phase \in Active /\ loop.phase # "Complete"
    BY <1>0, <2>1 DEF LoopInv, InStep, Active
  <2> QED  BY <2>1, <2>2, <2>3, HolderKept
<1>6. ASSUME NEW l \in Levels, Level(l) PROVE CashInv'
  <2>1. /\ pc.at = l /\ pc.do \in {"start", "window", "loop", "prompt", "answer"}
        /\ UNCHANGED <<position, config, worth>>
        /\ pc'.do \in {"idle", "settle", "loop", "advance", "prompt", "begin"}
        /\ loop'.phase \in {loop.phase, "AwaitCollection"}
    BY <1>0, <1>6 DEF Level, Track, Initialize, Ends, Skips, Asks, Prompts, Decides, Answer,
          Suspends, At, Goto, Idle, TypeInv, LoopType
  <2>2. ASSUME NEW h \in 1 .. Atomic, Inside(h) PROVE Inside(h)'
    <3>1. h \in Levels /\ (Begun(h) \/ (h = l /\ pc.do = "window"))
      BY <2>1, <2>2 DEF Inside, At
    <3>2. h > l => exec[h] = None
      BY <1>0, <2>1, <3>1 DEF StackInv, InStep
    <3>3. h <= l /\ exec[h] # None /\ exec[h] \in ExecTypes
      BY <1>0, <2>1, <3>1, <3>2 DEF Begun, StackInv, InStep, Running
    <3>4. Begun(h)'
      <4>1. h < l \/ h = l
        BY <3>3
      <4>2. CASE h = l
        <5>1. ~Track(l)
          BY <1>6, <2>1, <3>1, <4>2, LevelEffect DEF Begun, Track, At
        <5> QED  BY <1>6, <4>2, <5>1, LevelEffect DEF Begun, Open
      <4>3. CASE h < l
        BY <1>6, <4>3, LevelEffect DEF Begun, Open
      <4> QED  BY <4>1, <4>2, <4>3
    <3> QED  BY <2>1, <3>1, <3>4 DEF Inside, At
  <2>3. loop.phase \in Active /\ loop'.phase # "Complete"
    BY <1>0, <2>1 DEF LoopInv, InStep, Active
  <2> QED  BY <2>1, <2>2, <2>3, HolderKept
<1>7. ASSUME Collected \/ \E l \in 1 .. Atomic : Advance(l) PROVE CashInv'
  <2>1. /\ UNCHANGED <<loop, exec, position, config, worth>> /\ pc'.at = pc.at
        /\ \/ pc.at = Atomic /\ pc.do = "deal" /\ pc'.do = "advance"
           \/ pc.do = "advance" /\ pc'.do = "commit"
    BY <1>7 DEF Collected, Advance, At, Goto
  <2>2. pc.at # 0
    BY <1>7 DEF Collected, Advance, At
  <2>3. \A h \in 1 .. Atomic : Inside(h) => Inside(h)'
    BY <2>1 DEF Inside, Begun, At
  <2>4. loop.phase \in Active
    BY <1>0, <2>1, <2>2 DEF LoopInv, InStep, Active
  <2> QED  BY <2>1, <2>3, <2>4, HolderKept DEF Active
<1>8. ASSUME NEW l \in 1 .. Atomic, Return(l) PROVE CashInv'
  <2>1. /\ UNCHANGED <<loop, position, config, worth>> /\ pc.at = l /\ pc.do = "sink"
        /\ pc'.do = "answer" /\ \A k \in Levels : k # l => exec'[k] = exec[k]
    BY <1>8 DEF Return, At, Goto
  <2>2. \A h \in 1 .. Atomic : Inside(h) => Inside(h)'
    BY <2>1 DEF Inside, Begun, At
  <2>3. loop.phase \in Active
    BY <1>0, <2>1 DEF LoopInv, InStep, Active
  <2> QED  BY <2>1, <2>2, <2>3, HolderKept DEF Active
<1> QED  BY <1>1, <1>2, <1>3, <1>4, <1>5, <1>6, <1>7, <1>8

\* The bracket itself, and the deals.
LEMMA CashInBracket ==
  ASSUME IInv, IInv', CashInv, Sell \/ Buy \/ \E l \in 1 .. Atomic : SettleStart(l) \/ Commit(l)
  PROVE  CashInv'
<1> USE LevelsAre, BacktestAssumption
<1>0. TypeInv /\ LoopInv /\ position \in Positions /\ position.available \in Int /\ worth \in Int
  BY DEF IInv, TypeInv, Positions
<1>1. loop.phase \in Active /\ loop' = loop /\ config' = config /\ exec' = exec
  BY <1>0 DEF Sell, Buy, SettleStart, Commit, At, LoopInv, InStep, Active
<1>2. ASSUME NEW l \in 1 .. Atomic, SettleStart(l) PROVE CashInv'
  <2>1. /\ pc.at = l /\ pc.do = "settle" /\ pc'.at = l /\ worth' = worth
        /\ pc'.do = IF l = Atomic THEN "deal" ELSE "window"
    BY <1>2 DEF SettleStart, At, Goto
  <2>2. CASE config.settle[l] = "None"
    <3>1. position' = position
      BY <1>2, <2>2 DEF SettleStart
    <3>2. \A h \in 1 .. Atomic : Inside(h) => Inside(h)'
      BY <1>1, <2>1 DEF Inside, Begun, At
    <3> QED  BY <1>1, <2>1, <3>1, <3>2, HolderKept DEF Active
  <2>3. CASE config.settle[l] # "None"
    <3>1. position.type = "None" /\ position.delayed = None
      BY <1>0, <1>2, <2>3 DEF SettleStart, CanSettle, Positions
    <3>2. /\ position'.available = position.available
          /\ position'.delayed \in {0, None}
      BY <1>0, <1>2, <2>3, <3>1 DEF SettleStart, Settled, Positions
    <3>3. position'.available + Held' = worth'
      BY <1>0, <2>1, <3>1, <3>2 DEF CashInv, Held
    <3>4. Inside(l)'
      BY <2>1 DEF Inside, At
    <3> QED  BY <1>1, <2>3, <3>3, <3>4 DEF CashInv, Active
  <2> QED  BY <2>2, <2>3
<1>3. ASSUME NEW l \in 1 .. Atomic, Commit(l) PROVE CashInv'
  <2>1. pc.at = l /\ pc.do = "commit" /\ pc'.at = l /\ pc'.do = "sink" /\ worth' = worth
    BY <1>3 DEF Commit, At, Goto
  <2>2. CASE position.type = "cash" /\ position' = Committed(position)
    <3>1. /\ position.delayed \in Int /\ position'.type = "None" /\ position'.delayed = None
          /\ position'.available = position.available + position.delayed
      BY <1>0, <2>2 DEF Committed, Positions
    <3>2. position'.available + Held' = worth'
      BY <1>0, <2>1, <3>1 DEF CashInv, Held
    <3> QED  BY <3>1, <3>2 DEF CashInv
  <2>3. CASE position' = position /\ "None" \in {config.settle[l], position.type}
    <3>1. \A h \in 1 .. Atomic : Inside(h) /\ config.settle[h] # "None" /\ position.type # "None"
                                   => Inside(h)'
      BY <1>1, <2>1, <2>3 DEF Inside, Begun, At
    <3> QED  BY <1>1, <2>1, <2>3, <3>1, HolderKept DEF Active
  <2> QED  BY <1>3, <2>2, <2>3 DEF Commit
<1>4. ASSUME Sell \/ Buy PROVE CashInv'
  <2>1. pc' = pc
    BY <1>4 DEF Sell, Buy
  <2>2. position'.type = position.type /\ position'.available + Held' = worth'
    <3>1. CASE Sell /\ position.type = "cash"
      <4>1. /\ position' = [position EXCEPT !.delayed = position.delayed + 1] /\ worth' = worth + 1
            /\ position.delayed \in Int
        BY <1>0, <3>1 DEF Sell, Positions
      <4>2. /\ position'.type = position.type /\ position'.available = position.available
            /\ position'.delayed = position.delayed + 1
        BY <1>0, <4>1 DEF Positions
      <4>3. position.delayed # None /\ position'.delayed # None
        BY <4>1, <4>2
      <4> QED  BY <1>0, <4>1, <4>2, <4>3 DEF CashInv, Held
    <3>2. CASE \E c \in {1, -1} : /\ position' = [position EXCEPT !.available = position.available + c]
                                 /\ worth' = worth + c
      <4>1. PICK c \in {1, -1} : /\ position' = [position EXCEPT !.available = position.available + c]
                                 /\ worth' = worth + c
        BY <3>2
      <4>2. /\ position'.type = position.type /\ position'.available = position.available + c
            /\ position'.delayed = position.delayed
        BY <1>0, <4>1 DEF Positions
      <4>3. Held' = Held /\ Held \in Int
        BY <1>0, <4>2 DEF Held, Positions
      <4> QED  BY <1>0, <4>1, <4>2, <4>3 DEF CashInv
    <3> QED  BY <1>0, <1>4, <3>1, <3>2 DEF Sell, Buy, Positions
  <2>3. \A h \in 1 .. Atomic : Inside(h) => Inside(h)'
    BY <1>1, <2>1 DEF Inside, Begun, At
  <2> QED  BY <1>1, <2>1, <2>2, <2>3 DEF CashInv, Active
<1> QED  BY <1>2, <1>3, <1>4

\* No cash is made or lost, and none is held back between two bars of the
\* loop or after a complete run.
THEOREM CashKept == Spec => []CashConserved
<1>1. IInv /\ CashInv /\ [Next]_vars => CashInv'
  <2> SUFFICES ASSUME IInv, CashInv, [Next]_vars PROVE CashInv'  OBVIOUS
  <2>1. IInv'
    BY NextIInv
  <2>2. CASE UNCHANGED vars
    BY <2>2 DEF vars, CashInv, Held, Inside, Begun, At
  <2>3. CASE Next
    BY <2>1, <2>3, CashElsewhere, CashInBracket DEF Next, Works, Bracket
  <2> QED  BY <2>2, <2>3
<1>2. IInv /\ CashInv => CashConserved
  <2> SUFFICES ASSUME IInv, CashInv PROVE CashConserved  OBVIOUS
  <2>1. position \in Positions /\ LoopInv
    BY DEF IInv, TypeInv
  <2>2. At(0, "test") => position.type = "None"
    BY <2>1, NothingHeld DEF At, InStep, LoopInv, Active
  <2>3. At(0, "test") \/ loop.phase = "Complete" => position.type = "None" /\ position.delayed = None
    BY <2>1, <2>2 DEF CashInv, Positions
  <2> QED  BY <2>3 DEF CashConserved, CashInv, Held
<1> QED  BY <1>1, <1>2, InitCash, BacktestInvariant, InitIInv, NextIInv, PTL DEF Spec

-----------------------------------------------------------------------------
(* The steps counted.                                                      *)

\* Initially no step is made.
LEMMA InitBars == Init => BarsInv
<1> SUFFICES ASSUME Init PROVE BarsInv  OBVIOUS
<1>1. /\ cal[1] = [len |-> 0, step |-> 0] /\ bar = [total |-> None, ticks |-> 0]
      /\ loop.phase = "Start" /\ pc.at = 0 /\ pc.do = "idle"
      /\ \A k \in Levels : exec[k] = None
  BY LevelsAre DEF Init, Idle
<1> QED  BY <1>1, LevelsAre DEF BarsInv, Pending, Begun, Active

\* A step that moves no calendar and no count, and ends nothing.
LEMMA BarsKept ==
  ASSUME BarsInv, bar' = bar, cal' = cal,
         loop'.phase \in Active => loop.phase \in Active /\ Pending(1)' = Pending(1),
         loop'.phase \in Active =>
           \A l \in Levels : Begun(l)' => Begun(l) /\ SameCount(l) /\ Pending(l + 1)' = Pending(l + 1),
         loop'.phase \in {"Failed", "Complete"} => loop.phase = loop'.phase,
         pc'.do \in {"exit", "report"} => pc.do \in {"exit", "report"}
  PROVE  BarsInv'
<1>1. loop'.phase \in Active => cal'[1].step = bar'.ticks + Pending(1)'
  BY DEF BarsInv, Active
<1>2. ASSUME loop'.phase \in Active, NEW l \in Levels, Begun(l)'
      PROVE  exec'[l].records + exec'[l].skipped + Pending(l + 1)' = cal'[l + 1].step
  <2>1. exec[l].records + exec[l].skipped + Pending(l + 1) = cal[l + 1].step
    BY <1>2 DEF BarsInv, Active
  <2>2. SameCount(l) /\ Pending(l + 1)' = Pending(l + 1)
    BY <1>2
  <2> QED  BY <2>1, <2>2 DEF SameCount
<1> QED  BY <1>1, <1>2 DEF BarsInv, Active, Finished

\* The steps of the loop.
LEMMA BarsInLoop ==
  ASSUME IInv, IInv', BarsInv,
         \/ Resume \/ CloseQuiet \/ CloseSuspended \/ CloseScope \/ Start \/ Enter \/ Test
         \/ Tick \/ ExitScope \/ Report \/ Unwind \/ Fails
         \/ \E l \in Levels : CloseChild(l)
  PROVE  BarsInv'
<1> USE LevelsAre, BacktestAssumption
<1>0. TypeInv /\ StackInv /\ LoopInv /\ exec \in [Levels -> ExecTypes \cup {None}]
      /\ cal \in [1 .. Atomic -> Calendars] /\ bar \in BarType /\ loop \in LoopType
      /\ cal[1] \in Calendars /\ bar.ticks \in Nat /\ cal[1].step \in Nat /\ cal[1].len \in Nat
  <2>1. TypeInv /\ StackInv /\ LoopInv
    BY DEF IInv
  <2>2. /\ exec \in [Levels -> ExecTypes \cup {None}] /\ cal \in [1 .. Atomic -> Calendars]
        /\ bar \in BarType /\ loop \in LoopType
    BY <2>1 DEF TypeInv
  <2>3. cal[1] \in Calendars
    BY <2>2
  <2>4. bar.ticks \in Nat /\ cal[1].step \in Nat /\ cal[1].len \in Nat
    BY <2>2, <2>3 DEF BarType, Calendars
  <2> QED  BY <2>1, <2>2, <2>3, <2>4
<1>1. ASSUME Resume PROVE BarsInv'
  <2>1. UNCHANGED <<loop, bar, exec, cal>> /\ pc.do = "idle" /\ pc.at = 0
    BY <1>1 DEF Resume, Idle
  <2>2. pc'.do \in {"start", "settle", "prompt", "begin"}
    <3>1. CASE loop.phase = "Start"
      BY <1>1, <3>1 DEF Resume, Goto
    <3>2. CASE loop.phase = "AwaitCollection"
      <4>1. Chain(1)
        BY <1>0, <2>1, <3>2 DEF StackInv
      <4>2. exec[Innermost].phase \in {"AfterOuterTrack", "AwaitStrategy", "AfterInnerTrack"}
        BY <1>0, <4>1, InnermostEnds
      <4> QED  BY <1>1, <3>2, <4>2 DEF Resume, Goto, Entry
    <3> QED  BY <1>1, <3>1, <3>2 DEF Resume
  <2>3. \A l \in 1 .. Atomic : Pending(l) = 0 /\ Pending(l)' = 0
    BY <2>1, <2>2 DEF Pending
  <2>4. \A l \in Levels : Begun(l)' => Begun(l) /\ SameCount(l)
    BY <2>1 DEF Begun, SameCount
  <2> QED  BY <2>1, <2>2, <2>3, <2>4, BarsKept
<1>2. ASSUME CloseQuiet \/ CloseScope PROVE BarsInv'
  <2>1. UNCHANGED <<bar, cal>> /\ loop'.phase = "Closed" /\ pc'.do \notin {"exit", "report"}
    <3>1. pc'.do = "idle" /\ UNCHANGED <<bar, cal>>
      BY <1>2 DEF CloseQuiet, CloseScope, Idle
    <3>2. loop'.phase = "Closed"
      <4>1. CASE CloseQuiet
        BY <1>0, <4>1 DEF CloseQuiet, LoopType
      <4>2. CASE CloseScope
        BY <1>0, <4>2 DEF CloseScope, LoopType
      <4> QED  BY <1>2, <4>1, <4>2
    <3> QED  BY <3>1, <3>2
  <2> QED  BY <2>1, BarsKept DEF Active
<1>3. ASSUME CloseSuspended \/ \E l \in Levels : CloseChild(l) PROVE BarsInv'
  <2>1. /\ UNCHANGED <<loop, bar, cal>>
        /\ pc.do \in {"idle", "close"} /\ pc'.do \in {"close", "closed"}
    BY <1>3 DEF CloseSuspended, CloseChild, Idle, Goto, At
  <2>2. \A l \in 1 .. Atomic : Pending(l) = 0 /\ Pending(l)' = 0
    BY <2>1 DEF Pending
  <2>3. \A l \in Levels : Begun(l)' => exec'[l] = exec[l]
    BY <1>0, <1>3 DEF CloseSuspended, CloseChild, Begun
  <2>4. \A l \in Levels : Begun(l)' => Begun(l) /\ SameCount(l)
    BY <2>3 DEF Begun, SameCount
  <2> QED  BY <2>1, <2>2, <2>4, BarsKept
<1>4. ASSUME Start PROVE BarsInv'
  <2>1. /\ pc.at = 0 /\ pc.do = "start" /\ pc'.do = "enter" /\ UNCHANGED <<loop, bar, exec>>
    BY <1>4 DEF Start, At, Goto
  <2>2. PICK n \in Lengths : cal' = [cal EXCEPT ![1] = Reset(cal[1], n)]
    BY <1>4 DEF Start
  <2>3. cal'[1].step = 0 /\ cal'[1].len = n /\ n \in Nat
    BY <1>0, <2>2 DEF Reset, Calendars
  <2>4. loop.phase = "Start" /\ bar.total = None /\ bar.ticks = 0
    BY <1>0, <2>1 DEF LoopInv
  <2>5. \A k \in Levels : exec[k] = None
    BY <1>0, <2>1 DEF StackInv, InStep
  <2> QED  BY <2>1, <2>3, <2>4, <2>5 DEF BarsInv, Pending, Begun, Active
<1>5. ASSUME Enter PROVE BarsInv'
  <2>1. /\ pc.at = 0 /\ pc.do = "enter" /\ pc'.do = "test" /\ UNCHANGED <<exec, cal>>
        /\ loop'.phase = "Ready" /\ bar'.total = cal[1].len /\ bar'.ticks = bar.ticks
    BY <1>0, <1>5 DEF Enter, At, Goto, LoopType, BarType
  <2>2. loop.phase = "Start"
    BY <1>0, <2>1 DEF LoopInv
  <2>3. Pending(1) = 0 /\ Pending(1)' = 0
    BY <2>1 DEF Pending
  <2>4. \A k \in Levels : exec'[k] = None
    BY <1>0, <2>1 DEF StackInv, InStep
  <2> QED  BY <2>1, <2>2, <2>3, <2>4 DEF BarsInv, Begun, Active
<1>6. ASSUME Test PROVE BarsInv'
  <2>1. /\ pc.at = 0 /\ pc.do = "test" /\ pc'.do \in {"exit", "begin"}
        /\ UNCHANGED <<loop, bar, exec, cal>> /\ (pc'.do = "exit" => Finished(cal[1]))
    BY <1>6 DEF Test, At, Goto
  <2>2. \A l \in 1 .. Atomic : Pending(l) = 0 /\ Pending(l)' = 0
    BY <2>1 DEF Pending
  <2>3. \A k \in Levels : exec'[k] = None /\ exec[k] = None
    BY <1>0, <2>1 DEF StackInv, InStep
  <2>4. loop.phase \in Active
    BY <1>0, <2>1 DEF LoopInv, InStep, Active
  <2> QED  BY <2>1, <2>2, <2>3, <2>4 DEF BarsInv, Begun, Active
<1>7. ASSUME Tick PROVE BarsInv'
  <2>1. /\ pc.at = 0 /\ pc.do = "answer" /\ pc'.do = "test" /\ UNCHANGED <<exec, cal>>
        /\ loop'.phase = "Ready" /\ bar'.total = bar.total /\ bar'.ticks = bar.ticks + 1
    BY <1>0, <1>7 DEF Tick, At, Goto, LoopType, BarType
  <2>2. Pending(1) = 1 /\ Pending(1)' = 0
    BY <2>1 DEF Pending
  <2>3. \A k \in Levels : exec'[k] = None
    BY <1>0, <2>1 DEF StackInv, InStep
  <2>4. loop.phase \in Active
    BY <1>0, <2>1 DEF LoopInv, InStep, Active
  <2> QED  BY <1>0, <2>1, <2>2, <2>3, <2>4 DEF BarsInv, Begun, Active
<1>8. ASSUME ExitScope PROVE BarsInv'
  <2>1. /\ pc.at = 0 /\ pc.do = "exit" /\ pc'.do = "report" /\ UNCHANGED <<bar, exec, cal>>
        /\ loop'.phase = loop.phase
    BY <1>0, <1>8 DEF ExitScope, At, Goto, LoopType
  <2>2. \A l \in 1 .. Atomic : Pending(l) = 0 /\ Pending(l)' = 0
    BY <2>1 DEF Pending
  <2>3. \A l \in Levels : Begun(l)' => Begun(l) /\ SameCount(l)
    BY <2>1 DEF Begun, SameCount
  <2> QED  BY <2>1, <2>2, <2>3, BarsKept
<1>9. ASSUME Report PROVE BarsInv'
  <2>1. /\ pc.at = 0 /\ pc.do = "report" /\ pc'.do = "idle" /\ UNCHANGED <<bar, cal>>
        /\ loop'.phase = "Complete"
    BY <1>0, <1>9 DEF Report, At, Idle, LoopType
  <2>2. loop.phase \in Active /\ bar.total # None /\ Pending(1) = 0
    BY <1>0, <2>1 DEF LoopInv, InStep, Active, Pending
  <2>3. cal[1].step = bar.ticks /\ bar.total = cal[1].len /\ cal[1].step = cal[1].len
    BY <1>0, <2>1, <2>2 DEF BarsInv, Active, Finished
  <2> QED  BY <2>1, <2>3 DEF BarsInv, Active
<1>10. ASSUME Unwind PROVE BarsInv'
  <2>1. /\ pc.do = "unwind" /\ UNCHANGED <<bar, cal>> /\ loop'.phase = loop.phase
        /\ loop.phase = "Failed" /\ pc'.do = "idle"
    BY <1>0, <1>10 DEF Unwind, At, Idle, LoopType, LoopInv
  <2> QED  BY <2>1, BarsKept DEF Active
<1>11. ASSUME Fails PROVE BarsInv'
  <2>1. /\ UNCHANGED <<bar, cal>> /\ loop'.phase = "Failed" /\ loop.phase \in Active
        /\ pc'.do \in {"idle", "unwind"}
    BY <1>11, FailureStops DEF Fails, Active, Idle
  <2>2. cal[1].step = bar.ticks + Pending(1) /\ Pending(1) \in {0, 1}
    BY <2>1 DEF BarsInv, Active, Pending
  <2>3. cal[1].step - bar.ticks \in {0, 1}
    BY <1>0, <2>2
  <2> QED  BY <2>1, <2>3 DEF BarsInv, Active
<1> QED  BY <1>1, <1>2, <1>3, <1>4, <1>5, <1>6, <1>7, <1>8, <1>9, <1>10, <1>11

\* The steps of the executors.
LEMMA BarsInExecutor ==
  ASSUME IInv, IInv', BarsInv, NEW l \in Levels, Level(l)
  PROVE  BarsInv'
<1> USE LevelsAre, BacktestAssumption
<1>0. TypeInv /\ StackInv /\ LoopInv /\ cal \in [1 .. Atomic -> Calendars]
      /\ exec \in [Levels -> ExecTypes \cup {None}] /\ loop \in LoopType
      /\ exec' \in [Levels -> ExecTypes \cup {None}]
  BY DEF IInv, TypeInv
<1>1. /\ pc.at = l /\ pc.do \in {"start", "window", "loop", "prompt", "answer"} /\ bar' = bar
      /\ pc'.do \in {"idle", "settle", "loop", "advance", "prompt", "begin"}
      /\ loop'.phase \in {loop.phase, "AwaitCollection"}
      /\ pc.do = "answer" <=> Answer(l)
  BY <1>0 DEF Level, Track, Initialize, Ends, Skips, Asks, Prompts, Decides, Answer,
        Suspends, At, Goto, Idle, LoopType
<1>2. /\ \A k \in Levels : k < l => exec[k] \in ExecTypes /\ exec[k].phase \in Open
                                    /\ exec'[k].phase \in Open /\ SameCount(k)
      /\ \A k \in Levels : k <= l => exec'[k] # None /\ exec[k] # None
      /\ \A k \in Levels : k > l => exec[k] = None /\ exec'[k] = None
  BY LevelEffect
<1>3. loop.phase \in Active /\ loop'.phase \in Active
  BY <1>0, <1>1 DEF LoopInv, InStep, Active
<1>4. /\ \A k \in 1 .. Atomic : Pending(k)' = 0
      /\ \A k \in 1 .. Atomic : k # l + 1 => Pending(k) = 0
      /\ Pending(l + 1) = IF pc.do = "answer" THEN 1 ELSE 0
  BY <1>1 DEF Pending
<1>5. ASSUME NEW k \in Levels, k < l
      PROVE  Begun(k) /\ SameCount(k) /\ Pending(k + 1) = 0 /\ Pending(k + 1)' = 0
  <2>1. k + 1 \in 1 .. Atomic /\ k + 1 # l + 1
    BY <1>5
  <2>2. Pending(k + 1) = 0 /\ Pending(k + 1)' = 0
    BY <1>4, <2>1
  <2>3. SameCount(k) /\ exec[k] # None /\ exec[k].phase \in Open
    BY <1>2, <1>5
  <2> QED  BY <2>2, <2>3 DEF Begun, Open
<1>6. CASE ~Initialize(l) /\ ~Skips(l) /\ ~Answer(l)
  <2>1. cal' = cal /\ pc.do # "answer"
    BY <1>1, <1>6 DEF Level, Track, Ends, Asks, Prompts, Decides
  <2>2. ASSUME Begun(l)' PROVE Begun(l) /\ SameCount(l)
    <3>1. ~Track(l)
      BY <2>2, LevelEffect DEF Begun
    <3> QED  BY <1>2, <1>6, <3>1, LevelEffect DEF Begun, Open, Level
  <2>3. \A k \in Levels : Begun(k)' => Begun(k) /\ SameCount(k)
                                       /\ Pending(k + 1)' = Pending(k + 1)
    <3> SUFFICES ASSUME NEW k \in Levels, Begun(k)'
                 PROVE  Begun(k) /\ SameCount(k) /\ Pending(k + 1)' = Pending(k + 1)
      OBVIOUS
    <3>1. k <= l
      BY <1>2 DEF Begun
    <3> QED  BY <1>4, <1>5, <2>1, <2>2, <3>1
  <2>4. Pending(1)' = Pending(1)
    BY <1>4
  <2> QED  BY <1>1, <1>3, <2>1, <2>3, <2>4, BarsKept DEF Active
<1>7. CASE Initialize(l) \/ Skips(l) \/ Answer(l)
  <2>1. /\ l + 1 \in 1 .. Atomic /\ l + 1 # 1
        /\ exec[l] \in ExecTypes /\ exec'[l] \in ExecTypes
    BY <1>0, <1>2
  <2>2. /\ \A k \in 1 .. Atomic : k # l + 1 => cal'[k] = cal[k]
        /\ exec'[l].records + exec'[l].skipped = cal'[l + 1].step
    <3> DEFINE j == l + 1
    <3>1. j \in 1 .. Atomic /\ cal[j] \in Calendars /\ cal[j].step \in Nat
      BY <1>0, <2>1 DEF Calendars
    <3>2. Begun(l) => exec[l].records + exec[l].skipped + Pending(j) = cal[j].step
      BY <1>3 DEF BarsInv, Active
    <3>3. exec[l].records \in Nat /\ exec[l].skipped \in Nat
      BY <2>1 DEF ExecTypes
    <3>4. CASE Initialize(l)
      <4>1. PICK n \in Lengths : cal' = [cal EXCEPT ![j] = Reset(cal[j], n)]
        BY <3>4 DEF Initialize
      <4>2. Reset(cal[j], n).step = 0
        BY <3>1 DEF Reset, Calendars
      <4>3. exec'[l].records = 0 /\ exec'[l].skipped = 0
        BY <3>4, LevelEffect
      <4> HIDE DEF j
      <4>4. \A k \in 1 .. Atomic : k # j => cal'[k] = cal[k]
        BY <1>0, <4>1
      <4>5. cal'[j].step = 0
        BY <1>0, <3>1, <4>1, <4>2
      <4> QED  BY <4>3, <4>4, <4>5 DEF j
    <3>5. CASE Skips(l)
      <4>1. cal' = [cal EXCEPT ![j].step = cal[j].step + 1]
        BY <3>5 DEF Skips
      <4>2. /\ exec'[l].records = exec[l].records /\ exec'[l].skipped = exec[l].skipped + 1
            /\ Begun(l) /\ pc.do # "answer"
        <5>1. pc.do = "loop" /\ ~Track(l) /\ ~Initialize(l)
          BY <3>5 DEF Skips, At, Track, Initialize
        <5> QED  BY <1>2, <3>5, <5>1, LevelEffect DEF Begun, Open
      <4>3. Pending(j) = 0
        BY <1>4, <4>2
      <4> HIDE DEF j
      <4>4. /\ \A k \in 1 .. Atomic : k # j => cal'[k] = cal[k]
            /\ cal'[j].step = cal[j].step + 1
        BY <1>0, <3>1, <4>1 DEF Calendars
      <4>5. exec'[l].records + exec'[l].skipped = cal'[j].step
        BY <3>1, <3>2, <3>3, <4>2, <4>3, <4>4
      <4> QED  BY <4>4, <4>5 DEF j
    <3>6. CASE Answer(l)
      <4>1. cal' = cal
        BY <3>6 DEF Answer
      <4>2. /\ exec'[l].records = exec[l].records + 1 /\ exec'[l].skipped = exec[l].skipped
            /\ Begun(l)
        <5>1. pc.do = "answer" /\ ~Track(l) /\ ~Initialize(l)
          BY <3>6 DEF Answer, At, Track, Initialize
        <5> QED  BY <1>2, <3>6, <5>1, LevelEffect DEF Begun, Open
      <4>3. Pending(j) = 1
        BY <1>1, <1>4, <3>6
      <4> HIDE DEF j
      <4>4. exec'[l].records + exec'[l].skipped = cal'[j].step
        BY <3>1, <3>2, <3>3, <4>1, <4>2, <4>3
      <4> QED  BY <4>1, <4>4 DEF j
    <3> QED  BY <1>7, <3>4, <3>5, <3>6
  <2>3. cal'[1] = cal[1]
    BY <2>1, <2>2
  <2>4. cal'[1].step = bar'.ticks + Pending(1)'
    <3>1. Pending(1)' = Pending(1)
      BY <1>4
    <3> QED  BY <1>1, <1>3, <2>3, <3>1 DEF BarsInv, Active
  <2>5. ASSUME NEW k \in Levels, Begun(k)'
        PROVE  exec'[k].records + exec'[k].skipped + Pending(k + 1)' = cal'[k + 1].step
    <3>1. k <= l /\ k + 1 \in 1 .. Atomic /\ Pending(k + 1)' = 0
      <4>1. exec'[k] # None
        BY <2>5 DEF Begun
      <4>2. k <= l
        BY <1>2, <4>1
      <4>3. k + 1 \in 1 .. Atomic
        BY <2>5, LevelsAre
      <4> QED  BY <1>4, <4>2, <4>3
    <3>2. exec'[k] \in ExecTypes /\ exec'[k].records \in Nat /\ exec'[k].skipped \in Nat
      BY <1>0, <1>2, <3>1 DEF ExecTypes
    <3>3. CASE k = l
      BY <2>2, <3>1, <3>2, <3>3
    <3>4. CASE k < l
      <4>1. cal'[k + 1] = cal[k + 1]
        <5>1. k + 1 # l + 1
          BY <3>4
        <5> QED  BY <2>2, <3>1, <5>1
      <4>2. exec[k].records + exec[k].skipped + Pending(k + 1) = cal[k + 1].step
        BY <1>3, <1>5, <3>4 DEF BarsInv, Active
      <4> QED  BY <1>5, <3>1, <3>4, <4>1, <4>2 DEF SameCount
    <3>5. k = l \/ k < l
      BY <3>1
    <3> QED  BY <3>3, <3>4, <3>5
  <2>6. loop'.phase \notin {"Failed", "Complete"} /\ pc'.do \notin {"exit", "report"}
    BY <1>1, <1>3 DEF Active
  <2> QED  BY <1>1, <2>3, <2>4, <2>5, <2>6 DEF BarsInv, Active
<1> QED  BY <1>6, <1>7

\* The step of a calendar, and what is around it.
LEMMA BarsInBracket ==
  ASSUME IInv, IInv', BarsInv,
         \/ \E l \in 0 .. Depth : Begin(l)
         \/ \E l \in 1 .. Atomic : Bracket(l)
         \/ Sell \/ Buy \/ Collected
  PROVE  BarsInv'
<1> USE LevelsAre, BacktestAssumption
<1>0. TypeInv /\ StackInv /\ LoopInv /\ cal \in [1 .. Atomic -> Calendars]
      /\ exec \in [Levels -> ExecTypes \cup {None}]
  BY DEF IInv, TypeInv
<1>1. ASSUME \E l \in 0 .. Depth : Begin(l) PROVE BarsInv'
  <2>1. PICK l \in 0 .. Depth : Begin(l)
    BY <1>1
  <2>2. /\ pc.do = "begin" /\ pc'.do \in {"start", "settle"} /\ UNCHANGED <<loop, bar, cal>>
        /\ \A k \in Levels : exec'[k] = exec[k] \/ exec'[k] = Fresh
    BY <1>0, <2>1 DEF Begin, At, Goto
  <2>3. \A k \in 1 .. Atomic : Pending(k) = 0 /\ Pending(k)' = 0
    BY <2>2 DEF Pending
  <2>4. \A k \in Levels : Begun(k)' => Begun(k) /\ SameCount(k)
    <3>1. Fresh.phase = "Start"
      BY DEF Fresh
    <3>2. \A k \in Levels : Begun(k)' => exec'[k] = exec[k]
      BY <2>2, <3>1 DEF Begun
    <3> QED  BY <3>2 DEF Begun, SameCount
  <2>5. \A k \in 1 .. Atomic : Pending(k) = Pending(k)'
    BY <2>3
  <2>6. pc'.do \notin {"exit", "report"}
    BY <2>2
  <2> QED  BY <2>2, <2>4, <2>5, <2>6, BarsKept
<1>2. ASSUME Sell \/ Buy \/ Collected \/ \E l \in 1 .. Atomic : SettleStart(l) \/ Commit(l)
      PROVE  BarsInv'
  <2>1. /\ UNCHANGED <<loop, bar, exec, cal>> /\ pc'.at = pc.at
        /\ \/ pc.do \in {"settle", "deal"} /\ pc'.do \in {"deal", "window", "advance"}
           \/ pc.do = "commit" /\ pc'.do = "sink"
    BY <1>2 DEF Sell, Buy, Collected, SettleStart, Commit, At, Goto
  <2>2. \A k \in 1 .. Atomic : Pending(k) = Pending(k)'
    BY <2>1 DEF Pending
  <2>3. \A k \in Levels : Begun(k)' => Begun(k) /\ SameCount(k)
    BY <2>1 DEF Begun, SameCount
  <2> QED  BY <2>1, <2>2, <2>3, BarsKept
<1>3. ASSUME NEW l \in 1 .. Atomic, Return(l) PROVE BarsInv'
  <2>1. /\ UNCHANGED <<loop, bar, cal>> /\ pc.at = l /\ pc.do = "sink"
        /\ pc'.at = l - 1 /\ pc'.do = "answer"
        /\ \A k \in Levels : exec'[k] = exec[k] \/ exec'[k] = None
    BY <1>3 DEF Return, At, Goto
  <2>2. \A k \in 1 .. Atomic : Pending(k) = Pending(k)'
    BY <2>1 DEF Pending
  <2>3. \A k \in Levels : Begun(k)' => Begun(k) /\ SameCount(k)
    BY <2>1 DEF Begun, SameCount
  <2> QED  BY <2>1, <2>2, <2>3, BarsKept
<1>4. ASSUME NEW l \in 1 .. Atomic, Advance(l) PROVE BarsInv'
  <2>1. /\ UNCHANGED <<loop, bar, exec>> /\ pc.at = l /\ pc.do = "advance"
        /\ pc'.at = l /\ pc'.do = "commit" /\ ~Finished(cal[l])
        /\ cal[l] \in Calendars /\ cal[l].step \in Nat /\ cal[l].len \in Nat
    BY <1>0, <1>4 DEF Advance, At, Goto, Calendars
  <2>2. /\ \A k \in 1 .. Atomic : k # l => cal'[k] = cal[k]
        /\ cal'[l].step = cal[l].step + 1 /\ cal'[l].len = cal[l].len
    BY <1>0, <1>4, <2>1 DEF Advance, Calendars
  <2>3. \A k \in 1 .. Atomic : Pending(k) = 0 /\ Pending(k)' = IF k = l THEN 1 ELSE 0
    BY <2>1 DEF Pending
  <2>4. loop.phase \in Active
    BY <1>0, <2>1 DEF LoopInv, InStep, Active
  <2>5. cal'[1].step <= cal'[1].len /\ cal'[1].len = cal[1].len
    BY <2>1, <2>2 DEF BarsInv, Finished
  <2>6. bar.ticks \in Nat /\ cal[1].step \in Nat
    BY <1>0 DEF TypeInv, BarType, Calendars
  <2>7. cal'[1].step = bar'.ticks + Pending(1)'
    <3>1. cal[1].step = bar.ticks
      BY <2>3, <2>4, <2>6 DEF BarsInv, Active
    <3> QED  BY <2>1, <2>2, <2>3, <2>6, <3>1
  <2>8. ASSUME NEW k \in Levels, Begun(k)'
        PROVE  exec'[k].records + exec'[k].skipped + Pending(k + 1)' = cal'[k + 1].step
    <3> DEFINE j == k + 1
    <3>1. /\ exec[k] \in ExecTypes /\ exec[k].records \in Nat /\ exec[k].skipped \in Nat
          /\ j \in 1 .. Atomic /\ Begun(k)
      <4>1. exec[k] # None /\ Begun(k)
        BY <2>1, <2>8 DEF Begun
      <4>2. exec[k] \in ExecTypes
        BY <1>0, <4>1
      <4>3. exec[k].records \in Nat /\ exec[k].skipped \in Nat
        BY <4>2 DEF ExecTypes
      <4>4. k + 1 \in 1 .. Atomic
        BY <2>8, LevelsAre
      <4> QED  BY <4>1, <4>2, <4>3, <4>4
    <3>2. exec[k].records + exec[k].skipped + Pending(j) = cal[j].step
      BY <2>4, <3>1 DEF BarsInv, Active
    <3> HIDE DEF j
    <3>3. exec[k].records + exec[k].skipped + Pending(j)' = cal'[j].step
      BY <2>1, <2>2, <2>3, <3>1, <3>2
    <3> QED  BY <2>1, <3>3 DEF j
  <2> QED  BY <2>1, <2>4, <2>5, <2>7, <2>8 DEF BarsInv, Active
<1> QED  BY <1>1, <1>2, <1>3, <1>4 DEF Bracket

\* A suspended, resumed or passed-over step counts once at every level, a
\* failure loses at most one tick, and a complete run has ticked through its
\* whole total.
THEOREM StepsCountOnce == Spec => []BarsCountOnce
<1>1. IInv /\ BarsInv /\ [Next]_vars => BarsInv'
  <2> SUFFICES ASSUME IInv, BarsInv, [Next]_vars PROVE BarsInv'  OBVIOUS
  <2>1. IInv'
    BY NextIInv
  <2>2. CASE UNCHANGED vars
    BY <2>2 DEF vars, BarsInv, Pending, Begun, Finished
  <2>3. CASE Next
    BY <2>1, <2>3, BarsInLoop, BarsInExecutor, BarsInBracket DEF Next, Works
  <2> QED  BY <2>2, <2>3
<1>2. IInv /\ BarsInv => BarsCountOnce
  <2> SUFFICES ASSUME IInv, BarsInv, pc = Idle PROVE BarsCountOnce  BY DEF BarsCountOnce
  <2>1. pc.do = "idle" /\ TypeInv /\ StackInv
    BY DEF Idle, IInv
  <2>2. \A k \in 1 .. Atomic : Pending(k) = 0
    BY <2>1 DEF Pending
  <2>3. CASE loop.phase = "AwaitCollection"
    <3>1. cal[1].step = bar.ticks
      BY <2>1, <2>2, <2>3, LevelsAre DEF BarsInv, TypeInv, BarType
    <3>2. ASSUME NEW l \in Levels, exec[l] # None, exec[l].phase \in Asleep \ {"AfterOuterTrack"}
          PROVE  exec[l].records + exec[l].skipped = cal[l + 1].step
      <4>1. exec[l] \in ExecTypes /\ exec[l].records \in Nat /\ exec[l].skipped \in Nat
        BY <2>1, <3>2 DEF TypeInv, ExecTypes
      <4>2. Begun(l) /\ Pending(l + 1) = 0
        BY <2>2, <3>2, LevelsAre DEF Begun, Asleep
      <4> QED  BY <2>3, <4>1, <4>2 DEF BarsInv
    <3> QED  BY <2>3, <3>1, <3>2 DEF BarsCountOnce
  <2>4. CASE loop.phase # "AwaitCollection"
    <3>1. ASSUME loop.phase = "Complete" PROVE bar.ticks = bar.total /\ bar.total = cal[1].len
      BY <2>1, <3>1 DEF BarsInv, TypeInv, BarType, LoopInv, IInv
    <3> QED  BY <2>4, <3>1 DEF BarsCountOnce, BarsInv
  <2> QED  BY <2>3, <2>4
<1> QED  BY <1>1, <1>2, InitBars, InitIInv, NextIInv, BacktestInvariant, PTL DEF Spec
=============================================================================
