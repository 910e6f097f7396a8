------------------------------ MODULE Backtest -------------------------------
(***************************************************************************)
(* A backtest: the outer loop (backtest_loop.rs) over Depth nested         *)
(* executors, each in the child session of the level above                 *)
(* (resumable_nested_executor.rs, recursive_nested_inner.rs), over an      *)
(* atomic executor (executor_lifecycle.rs) that deals on the one position  *)
(* all levels share.  Level 0 is the loop, level Depth + 1 the atomic      *)
(* executor.  One thread runs; what varies is where the caller gets        *)
(* control, where a plugin fails, and where the caller closes.             *)
(***************************************************************************)
EXTENDS Integers, FiniteSets

CONSTANTS Depth,      \* nested executors
          Lengths,    \* the numbers of steps a window can have
          Configs,    \* what the levels may be configured with
          None,
          MaxFaults,  \* bound: plugins that fail
          MaxPrompts, \* bound: times a strategy asks the caller
          MaxDeals    \* bound: deals

Levels == 1 .. Depth
Atomic == Depth + 1
Settles == {"None", "cash", "stock"}

\* An executor: its phase, the decisions it recorded, the steps it passed over.
ExecTypes ==
  [phase : {"Start", "AfterOuterTrack", "Loop", "AwaitStrategy", "AfterInnerTrack", "AwaitInner",
            "Failed"},
   records : Nat, skipped : Nat]

ASSUME BacktestAssumption ==
  /\ Depth \in Nat \ {0} /\ Lengths \subseteq Nat
  /\ MaxFaults \in Nat /\ MaxPrompts \in Nat /\ MaxDeals \in Nat
  /\ None \notin Int \cup ExecTypes

\* tracks: levels whose own decision is shown to the caller before they
\* begin; tracksInner: the atomic executor's decisions are; empty, align:
\* levels with skip_empty_decision, align_range_limit; reports: want_reports.
ConfigTypes ==
  [settle : [1 .. Atomic -> Settles], tracks : SUBSET Levels, tracksInner : BOOLEAN,
   empty : SUBSET Levels, align : SUBSET Levels, reports : BOOLEAN]
ASSUME BacktestConfigs == Configs \subseteq ConfigTypes

VARIABLES
  pc,        \* the level that runs and what it does next
  loop,      \* phase, progress_open and reports of the loop
  bar,       \* the progress bar: its total, or None, and its position
  exec,      \* the executor of each level's session, or None
  cal,       \* the calendar of each level: its length and step
  prompting, \* levels whose strategy waits for the caller
  position,  \* the settlement type, available cash, and delayed cash or None
  config,
  worth,     \* what sales have earned less what purchases have cost
  faults, prompts, deals \* what the bounds leave

budgets == <<faults, prompts, deals>>
vars == <<pc, loop, bar, exec, cal, prompting, position, config, worth, budgets>>

Idle == [at |-> 0, do |-> "idle"]
At(l, do) == pc.at = l /\ pc.do = do
Goto(l, do) == pc' = [at |-> l, do |-> do]

\* Seeded fault: the step stays.
ResetLength(c, n) == [c EXCEPT !.len = n]
\* ExecutionCalendar::reset: the provider says how many steps the window has.
Reset(c, n) == [c EXCEPT !.len = n, !.step = 0]
Finished(c) == c.step >= c.len

\* ResumableNestedExecutor::new
Fresh == [phase |-> "Start", records |-> 0, skipped |-> 0]
Asleep == {"AfterOuterTrack", "AwaitStrategy", "AfterInnerTrack", "AwaitInner"}

Init == /\ pc = Idle
        /\ loop = [phase |-> "Start", open |-> FALSE, reports |-> FALSE]
        /\ bar = [total |-> None, ticks |-> 0]
        /\ exec = [l \in Levels |-> None]
        /\ cal = [l \in 1 .. Atomic |-> [len |-> 0, step |-> 0]]
        /\ prompting = {}
        /\ position = [type |-> "None", available |-> 0, delayed |-> None]
        /\ config \in Configs
        /\ worth = 0 /\ faults = 0 /\ prompts = 0 /\ deals = 0

-----------------------------------------------------------------------------
(* The caller.                                                             *)

\* Each level hands the input on to the one it waits for.
Innermost == CHOOSE l \in Levels : /\ exec[l] # None /\ exec[l].phase # "AwaitInner"
                                   /\ \A k \in 1 .. l - 1 : exec[k] # None

\* Seeded fault: the strategy is asked again for the decision shown.
EntryAnew(phase) ==
  [AfterOuterTrack |-> "settle", AwaitStrategy |-> "prompt", AfterInnerTrack |-> "prompt"][phase]
\* Where resume_inner goes on.
Entry(phase) ==
  [AfterOuterTrack |-> "settle", AwaitStrategy |-> "prompt", AfterInnerTrack |-> "begin"][phase]

Resume == /\ pc = Idle
          /\ \/ loop.phase = "Start" /\ Goto(0, "start")
             \/ /\ loop.phase = "AwaitCollection"
                /\ Goto(Innermost, Entry(exec[Innermost].phase))
          /\ UNCHANGED <<loop, bar, exec, cal, prompting, position, config, worth, budgets>>

\* close and drop, of a run that waits for no collection; a repeated close is
\* inert, and a completed run stays complete.
CloseQuiet == /\ pc = Idle
              /\ loop.phase \in {"Start", "Failed"}
              /\ loop' = [loop EXCEPT !.phase = "Closed"]
              /\ UNCHANGED <<pc, bar, exec, cal, prompting, position, config, worth, budgets>>

\* Seeded fault: the scope is closed before the suspended child.
CloseScopeFirst == /\ pc = Idle /\ loop.phase = "AwaitCollection"
                   /\ loop' = [loop EXCEPT !.open = FALSE]
                   /\ Goto(1, "close")
                   /\ UNCHANGED <<bar, exec, cal, prompting, position, config, worth, budgets>>
CloseSuspended == /\ pc = Idle /\ loop.phase = "AwaitCollection"
                  /\ Goto(1, "close")
                  /\ UNCHANGED <<loop, bar, exec, cal, prompting, position, config, worth, budgets>>

\* The session gives its executor up before it closes it; whether the
\* strategy fails to close makes no difference to what is released.
\* Seeded fault: the executor of a deeper session is not closed.
CloseShallow(l) ==
  /\ At(l, "close")
  /\ exec' = [exec EXCEPT ![l] = None]
  /\ prompting' = IF exec[l].phase = "AwaitStrategy" THEN prompting \ {l} ELSE prompting
  /\ Goto(0, "closed")
  /\ UNCHANGED <<loop, bar, cal, position, config, worth, budgets>>
CloseChild(l) ==
  /\ At(l, "close")
  /\ exec' = [exec EXCEPT ![l] = None]
  /\ prompting' = IF exec[l].phase = "AwaitStrategy" THEN prompting \ {l} ELSE prompting
  /\ IF exec[l].phase = "AwaitInner" THEN Goto(l + 1, "close") ELSE Goto(0, "closed")
  /\ UNCHANGED <<loop, bar, cal, position, config, worth, budgets>>

\* The progress counts as closed even if closing it fails.
CloseScope == /\ At(0, "closed")
              /\ loop' = [loop EXCEPT !.phase = "Closed", !.open = FALSE]
              /\ pc' = Idle
              /\ UNCHANGED <<bar, exec, cal, prompting, position, config, worth, budgets>>

-----------------------------------------------------------------------------
(* The loop (drive).                                                       *)

\* reset_executor, reset_strategy, trade_len
Start == /\ At(0, "start")
         /\ \E n \in Lengths : cal' = [cal EXCEPT ![1] = Reset(@, n)]
         /\ Goto(0, "enter")
         /\ UNCHANGED <<loop, bar, exec, prompting, position, config, worth, budgets>>

\* enter_progress
Enter == /\ At(0, "enter")
         /\ bar' = [bar EXCEPT !.total = cal[1].len]
         /\ loop' = [loop EXCEPT !.phase = "Ready", !.open = TRUE]
         /\ Goto(0, "test")
         /\ UNCHANGED <<exec, cal, prompting, position, config, worth, budgets>>

\* finished, then finalize_strategy, or generate
Test == /\ At(0, "test")
        /\ Goto(0, IF Finished(cal[1]) THEN "exit" ELSE "begin")
        /\ UNCHANGED <<loop, bar, exec, cal, prompting, position, config, worth, budgets>>

\* post_execute, update_progress
Tick == /\ At(0, "answer")
        /\ loop' = [loop EXCEPT !.phase = "Ready"]
        /\ bar' = [bar EXCEPT !.ticks = @ + 1]
        /\ Goto(0, "test")
        /\ UNCHANGED <<exec, cal, prompting, position, config, worth, budgets>>

ExitScope == /\ At(0, "exit")
             /\ loop' = [loop EXCEPT !.open = FALSE]
             /\ Goto(0, "report")
             /\ UNCHANGED <<bar, exec, cal, prompting, position, config, worth, budgets>>

\* collect_reports
Report == /\ At(0, "report")
          /\ loop' = [loop EXCEPT !.phase = "Complete", !.reports = config.reports]
          /\ pc' = Idle
          /\ UNCHANGED <<bar, exec, cal, prompting, position, config, worth, budgets>>

\* A failed resume leaves an open scope last.
Unwind == /\ At(0, "unwind")
          /\ loop' = [loop EXCEPT !.open = FALSE]
          /\ pc' = Idle
          /\ UNCHANGED <<bar, exec, cal, prompting, position, config, worth, budgets>>

-----------------------------------------------------------------------------
(* An executor (resume_inner).  Every level above is notified by what its  *)
(* call returns.                                                           *)

\* A suspension goes up to the caller; each level above waits for its child.
Suspends(l, phase) ==
  /\ exec' = [k \in Levels |-> IF k < l THEN [exec[k] EXCEPT !.phase = "AwaitInner"]
                               ELSE IF k = l THEN [exec[l] EXCEPT !.phase = phase]
                               ELSE exec[k]]
  /\ loop' = [loop EXCEPT !.phase = "AwaitCollection"]
  /\ pc' = Idle

\* begin of a child session; the atomic executor has none.
Begin(l) ==
  /\ At(l, "begin")
  /\ IF l = Depth
     THEN Goto(Atomic, "settle") /\ UNCHANGED exec
     ELSE /\ exec[l + 1] = None
          /\ exec' = [exec EXCEPT ![l + 1] = Fresh]
          /\ Goto(l + 1, "start")
  /\ UNCHANGED <<loop, bar, cal, prompting, position, config, worth, budgets>>

Track(l) ==
  /\ At(l, "start")
  /\ IF l \in config.tracks
     THEN Suspends(l, "AfterOuterTrack")
     ELSE /\ exec' = [exec EXCEPT ![l].phase = "AfterOuterTrack"]
          /\ Goto(l, "settle")
          /\ UNCHANGED loop
  /\ UNCHANGED <<bar, cal, prompting, position, config, worth, budgets>>

\* initialize after settle_start: the child's window, bindings, strategy
Initialize(l) ==
  /\ At(l, "window")
  /\ \E n \in Lengths : cal' = [cal EXCEPT ![l + 1] = Reset(@, n)]
  /\ exec' = [exec EXCEPT ![l].phase = "Loop"]
  /\ Goto(l, "loop")
  /\ UNCHANGED <<loop, bar, prompting, position, config, worth, budgets>>

\* The child's calendar is finished, or the outer decision is empty.
Ends(l) ==
  /\ At(l, "loop")
  /\ Finished(cal[l + 1]) \/ l \in config.empty
  /\ Goto(l, "advance")
  /\ UNCHANGED <<loop, bar, exec, cal, prompting, position, config, worth, budgets>>

\* The step is outside the range of the outer decision.
Skips(l) ==
  /\ At(l, "loop")
  /\ ~Finished(cal[l + 1]) /\ l \in config.align
  /\ cal' = [cal EXCEPT ![l + 1].step = @ + 1]
  /\ exec' = [exec EXCEPT ![l].skipped = @ + 1]
  /\ UNCHANGED <<pc, loop, bar, prompting, position, config, worth, budgets>>

Asks(l) ==
  /\ At(l, "loop")
  /\ ~Finished(cal[l + 1])
  /\ Goto(l, "prompt")
  /\ UNCHANGED <<loop, bar, exec, cal, prompting, position, config, worth, budgets>>

\* The strategy suspends, at its first call or again.
Prompts(l) ==
  /\ At(l, "prompt") /\ prompts < MaxPrompts
  /\ prompts' = prompts + 1
  /\ prompting' = prompting \cup {l}
  /\ Suspends(l, "AwaitStrategy")
  /\ UNCHANGED <<bar, cal, position, config, worth, faults, deals>>

\* The strategy decides; prepare_decision shows the decision of an atomic
\* child first, where that is tracked.
Decides(l) ==
  /\ At(l, "prompt")
  /\ prompting' = prompting \ {l}
  /\ IF l = Depth /\ config.tracksInner
     THEN Suspends(l, "AfterInnerTrack")
     ELSE Goto(l, "begin") /\ UNCHANGED <<loop, exec>>
  /\ UNCHANGED <<bar, cal, position, config, worth, budgets>>

\* finish_current
Answer(l) ==
  /\ At(l, "answer")
  /\ exec' = [exec EXCEPT ![l].records = @ + 1, ![l].phase = "Loop"]
  /\ Goto(l, "loop")
  /\ UNCHANGED <<loop, bar, cal, prompting, position, config, worth, budgets>>

-----------------------------------------------------------------------------
(* What an executor and the atomic executor have in common: settlement     *)
(* around the bar, and the step of the calendar.                           *)

\* PositionCash::settle_start
Settled(p, type) == [p EXCEPT !.type = type, !.delayed = IF type = "cash" THEN 0 ELSE p.delayed]
CanSettle(p, type) == type = "None" \/ p.type = "None"

\* Seeded fault: the delayed cash stays.
CommittedKept(p) == [p EXCEPT !.type = "None", !.available = @ + p.delayed]
\* PositionCash::settle_commit
Committed(p) == [type |-> "None", available |-> p.available + p.delayed, delayed |-> None]

SettleStart(l) ==
  LET type == config.settle[l] IN
  /\ At(l, "settle")
  /\ CanSettle(position, type)
  /\ position' = IF type = "None" THEN position ELSE Settled(position, type)
  /\ Goto(l, IF l = Atomic THEN "deal" ELSE "window")
  /\ UNCHANGED <<loop, bar, exec, cal, prompting, config, worth, budgets>>

\* record_sale_proceeds, pay_for_purchase
Sell == /\ At(Atomic, "deal") /\ deals < MaxDeals
        /\ \/ /\ position.type = "cash"
              /\ position' = [position EXCEPT !.delayed = @ + 1]
           \/ /\ position.type = "None"
              /\ position' = [position EXCEPT !.available = @ + 1]
        /\ worth' = worth + 1 /\ deals' = deals + 1
        /\ UNCHANGED <<pc, loop, bar, exec, cal, prompting, config, faults, prompts>>

Buy == /\ At(Atomic, "deal") /\ deals < MaxDeals
       /\ position' = [position EXCEPT !.available = @ - 1]
       /\ worth' = worth - 1 /\ deals' = deals + 1
       /\ UNCHANGED <<pc, loop, bar, exec, cal, prompting, config, faults, prompts>>

Collected == /\ At(Atomic, "deal")
             /\ Goto(Atomic, "advance")
             /\ UNCHANGED <<loop, bar, exec, cal, prompting, position, config, worth, budgets>>

\* post_upper_level, step_time and update_bar_end, then the calendar.
Advance(l) ==
  /\ At(l, "advance")
  /\ ~Finished(cal[l])
  /\ cal' = [cal EXCEPT ![l].step = @ + 1]
  /\ Goto(l, "commit")
  /\ UNCHANGED <<loop, bar, exec, prompting, position, config, worth, budgets>>

Commit(l) ==
  /\ At(l, "commit")
  /\ \/ /\ "None" \in {config.settle[l], position.type}
        /\ UNCHANGED position
     \/ /\ config.settle[l] # "None" /\ position.type = "cash"
        /\ position' = Committed(position)
  /\ Goto(l, "sink")
  /\ UNCHANGED <<loop, bar, exec, cal, prompting, config, worth, budgets>>

\* The result is stored and returned; the session gives a completed executor up.
Return(l) ==
  /\ At(l, "sink")
  /\ exec' = [k \in Levels |-> IF k = l THEN None ELSE exec[k]]
  /\ Goto(l - 1, "answer")
  /\ UNCHANGED <<loop, bar, cal, prompting, position, config, worth, budgets>>

-----------------------------------------------------------------------------
(* Failure.  An error goes up through every level; none goes on after it.  *)

\* What fails without any plugin failing: a session that still has an
\* executor, a settlement inside another one or of an unknown kind, a calendar
\* that is finished.
Refused == \/ pc.do = "begin" /\ pc.at < Depth /\ exec[pc.at + 1] # None
           \/ pc.do = "settle" /\ ~CanSettle(position, config.settle[pc.at])
           \/ pc.do = "deal" /\ position.type = "stock"
           \/ pc.do = "commit" /\ config.settle[pc.at] # "None" /\ position.type = "stock"
           \/ pc.do = "advance" /\ Finished(cal[pc.at])

Fallible == IF pc.at = 0 THEN pc.do \in {"start", "enter", "test", "begin", "answer", "exit", "report"}
            ELSE \/ pc.do \in {"settle", "window", "loop", "prompt", "begin", "answer", "deal",
                               "advance", "commit"}
                 \/ pc.do = "sink" /\ pc.at # Atomic

\* A session keeps its failed executor, but starts no other.  A failed
\* strategy waits no longer.
Fails ==
  /\ Fallible
  /\ \/ Refused /\ UNCHANGED faults
     \/ ~Refused /\ faults < MaxFaults /\ faults' = faults + 1
  /\ exec' = [k \in Levels |-> IF exec[k] = None THEN None
                               ELSE [exec[k] EXCEPT !.phase = "Failed"]]
  /\ prompting' = prompting \ {pc.at}
  /\ LET open == loop.open /\ pc.do # "exit"
     IN /\ loop' = [loop EXCEPT !.phase = "Failed", !.open = open]
        /\ pc' = IF open THEN [at |-> 0, do |-> "unwind"] ELSE Idle
  /\ UNCHANGED <<bar, cal, position, config, worth, prompts, deals>>

-----------------------------------------------------------------------------
Level(l) == \/ Track(l) \/ Initialize(l) \/ Ends(l) \/ Skips(l) \/ Asks(l)
            \/ Prompts(l) \/ Decides(l) \/ Answer(l)
Bracket(l) == SettleStart(l) \/ Advance(l) \/ Commit(l) \/ Return(l)
Works == \/ Start \/ Enter \/ Test \/ Tick \/ ExitScope \/ Report \/ Unwind \/ CloseScope
         \/ \E l \in 0 .. Depth : Begin(l)
         \/ \E l \in Levels : Level(l) \/ CloseChild(l)
         \/ \E l \in 1 .. Atomic : Bracket(l)
         \/ Sell \/ Buy \/ Collected \/ Fails
Next == Works \/ Resume \/ CloseQuiet \/ CloseSuspended

\* A call that runs goes on, and the caller resumes what it is given back, as
\* run_backtest_loop does, unless it closes it.
Spec == Init /\ [][Next]_vars
Fairness == WF_vars(Works) /\ WF_vars(Resume)
FairSpec == Spec /\ Fairness

-----------------------------------------------------------------------------
(* Properties.                                                             *)

\* What is suspended is one chain: a caller that has control finds every
\* level below the loop waiting for the next one, down to one that waits for
\* the caller itself, and nobody else has an executor; its strategy waits
\* exactly if that executor says so.  A run that has ended leaves no strategy
\* and no executor asleep, whatever failed on the way
\* (resumable_nested_executor.rs, recursive_nested_inner.rs).
SuspendedChain ==
  pc = Idle =>
    IF loop.phase = "AwaitCollection"
    THEN \E l \in Levels :
           /\ \A k \in 1 .. l - 1 : exec[k] # None /\ exec[k].phase = "AwaitInner"
           /\ exec[l] # None /\ exec[l].phase \in Asleep \ {"AwaitInner"}
           /\ \A k \in l + 1 .. Depth : exec[k] = None
           /\ prompting = IF exec[l].phase = "AwaitStrategy" THEN {l} ELSE {}
    ELSE /\ prompting = {}
         /\ \A l \in Levels : exec[l] # None => exec[l].phase = "Failed"

\* No cash is made or lost: what can be spent and what a settlement holds
\* back are together what was earned less what was spent, also after a
\* failure or a close in the middle of a settlement; and between two bars of
\* the loop, and once it is complete, nothing is held back
\* (position_cash.rs, executor_lifecycle.rs).
CashConserved ==
  /\ position.available + (IF position.delayed = None THEN 0 ELSE position.delayed) = worth
  /\ At(0, "test") \/ loop.phase = "Complete" => position.type = "None" /\ position.delayed = None

\* A caller that has control finds the progress bar where the outer calendar
\* is, and each executor's record of its child's steps where the child's
\* calendar is: a suspended, resumed or passed-over step counts once.  A
\* failure loses at most the tick of the bar it interrupts, and a complete
\* run has ticked through its whole total
\* (backtest_loop.rs, resumable_nested_executor.rs, execution_calendar.rs).
BarsCountOnce ==
  pc = Idle =>
    /\ loop.phase = "AwaitCollection" =>
         /\ bar.ticks = cal[1].step
         /\ \A l \in Levels : exec[l] # None /\ exec[l].phase \in Asleep \ {"AfterOuterTrack"}
              => exec[l].records + exec[l].skipped = cal[l + 1].step
    /\ loop.phase = "Failed" => cal[1].step - bar.ticks \in {0, 1}
    /\ loop.phase = "Complete" => bar.ticks = bar.total /\ bar.total = cal[1].len

\* The loop is a Generator whose scope is the progress context, whose
\* delegates are the nested executors and strategies, and whose results are
\* the reports.
Told == [Start |-> "fresh", AwaitCollection |-> "suspended", Complete |-> "done",
         Failed |-> "failed", Closed |-> "closed"]
AbstractPhase == IF pc = Idle THEN Told[loop.phase]
                 ELSE IF pc.do \in {"close", "closed"} THEN "closing" ELSE "running"
AbstractScope == IF loop.open THEN "open" ELSE IF bar.total = None THEN "unentered" ELSE "left"
AbstractBusy == \/ prompting # {}
                \/ \E l \in Levels : exec[l] # None /\ exec[l].phase \in Asleep
Outer == INSTANCE Generator WITH phase <- AbstractPhase, scope <- AbstractScope,
                                 busy <- AbstractBusy, published <- loop.reports

\* The progress context is entered once and left exactly once, on
\* completion, failure and close alike, and only when nothing below is still
\* suspended; reports exist only after a complete run; an end is final
\* (backtest_loop.rs:60, backtest_loop.rs:140).
LoopIsGenerator == Outer!Spec

\* A run that is resumed as often as it suspends ends, if its strategies do
\* not ask for ever: every call returns, and none of them is lost in a level
\* (run_backtest_loop).
RunEnds == <>(pc = Idle /\ loop.phase \in {"Complete", "Failed", "Closed"})
=============================================================================
