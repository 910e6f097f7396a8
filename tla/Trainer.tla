------------------------------- MODULE Trainer -------------------------------
(***************************************************************************)
(* The trainer driver (rl_trainer_driver.rs) over its runtime state        *)
(* (rl_trainer_state.rs), with the early-stopping and the checkpoint       *)
(* callback, in processes that may die and be started again on the same    *)
(* checkpoint directory.  The weights of the vessel are their history: the *)
(* iterations that trained them since they were initialised, and how many  *)
(* of those came before a fit without a checkpoint began on them.          *)
(***************************************************************************)
EXTENDS Checkpoints, FiniteSets

CONSTANTS Configs,   \* what a process may be configured with
          MaxFits,   \* bound: calls of fit and test
          MaxFaults, \* bound: plugins that fail
          MaxCrashes \* bound: processes that die

ASSUME TrainerAssumption == /\ MaxFits \in Nat /\ MaxFaults \in Nat /\ MaxCrashes \in Nat
                            /\ 0 \in Iters

\* A None is an option that is not set.
ConfigTypes ==
  [maxIters : Nat \cup {None}, valEvery : Nat \cup {None}, monitor : {"reward", "val/reward"},
   patience : Nat, baseline : Int \cup {None}, restoreBest : BOOLEAN,
   every : Nat \cup {None}, timed : BOOLEAN, onFitEnd : BOOLEAN,
   latest : {"", "link", "copy"}, absolute : BOOLEAN, suppresses : BOOLEAN]
ASSUME ConfigAssumption == Configs \subseteq ConfigTypes

VARIABLES
  pc, phase,      \* where the driver is, and the phase it runs
  config,         \* of this process
  runtime,        \* should_stop, current_iter, current_stage, and the monitored metric
  weights,        \* of the vessel
  early,          \* the early-stopping callback
  seedOpen,       \* a seed context is entered
  envs,           \* the environment in use, and one kept after a suppressed error
  failed,         \* the phase has an error
  result,         \* how the last call of this process ended
  seen,           \* the validations of this fit: value and weights
  fresh,          \* the checkpoint callback had saved nothing when this fit began
  fits, faults, crashes  \* what the bounds leave

process == <<pc, phase, config, seedOpen, envs, failed, result>>
model == <<runtime, weights, early>>
budgets == <<fits, faults, crashes>>
history == <<seen, fresh>>
vars == <<checkpointVars, process, model, history, budgets>>

\* A metric remembers the phase and the iteration it was measured in.
NoMetric == [value |-> None, phase |-> "none", iter |-> None]
RuntimeNew == [stop |-> None, iter |-> None, stage |-> "train", monitored |-> NoMetric]

WeightsNew == [trained |-> <<>>, begun |-> 0]
\* History only: a fit begins on these weights, which stay as they are.
Begun(w) == [w EXCEPT !.begun = Len(w.trained)]

\* RlTrainerState::initialize; metrics stay.
Initialized(rt) == [rt EXCEPT !.stop = FALSE, !.iter = 0, !.stage = "train"]
\* Seeded fault: metrics stay from iteration to iteration.
ClearedNot(rt) == rt
\* initialize_iter
Cleared(rt) == [rt EXCEPT !.monitored = NoMetric]

\* metrics_callback: a run in stage "val" reports under "val/", any other plainly.
Reported(rt, value, cfg) ==
  IF (rt.stage = "val") = (cfg.monitor = "val/reward") /\ value # None
  THEN [rt EXCEPT !.monitored = [value |-> value, phase |-> phase, iter |-> rt.iter]]
  ELSE rt

\* Seeded fault: only the last iteration itself ends the fit.
FinishedAt(rt, cfg) ==
  [rt EXCEPT !.iter = @ + 1, !.stop = @ \/ rt.iter + 1 = cfg.maxIters]
\* finish_iteration
Finished(rt, cfg) ==
  [rt EXCEPT !.iter = @ + 1,
             !.stop = @ \/ (cfg.maxIters # None /\ rt.iter + 1 >= cfg.maxIters)]

\* save_rl_trainer_checkpoint and load_rl_trainer_checkpoint
Graph == [weights |-> weights, early |-> early, runtime |-> runtime]
\* Seeded fault: a restored trainer is initialised as a new one is.
LoadAnew(graph) == /\ weights' = graph.weights
                   /\ early' = graph.early
                   /\ runtime' = Initialized(graph.runtime)
Load(graph) == /\ weights' = graph.weights
               /\ early' = graph.early
               /\ runtime' = graph.runtime

-----------------------------------------------------------------------------
NoEnvs == {}

ProcessInit(cfg) == /\ phase = "train" /\ config = cfg
                    /\ runtime = RuntimeNew /\ weights = WeightsNew /\ early = EarlyUnset
                    /\ seedOpen = FALSE /\ envs = NoEnvs /\ failed = FALSE
                    /\ result = "none"
                    /\ seen = <<>> /\ fresh = TRUE
                    /\ saver = SaverNew

Init == /\ DiskInit /\ \E cfg \in Configs : ProcessInit(cfg)
        /\ pc = "idle"
        /\ fits = MaxFits /\ faults = MaxFaults /\ crashes = MaxCrashes

Goto(place) == pc' = place /\ UNCHANGED <<phase, config, seedOpen, envs, failed, result>>
\* fit or test returns, and drops the environment it kept.
Return(value) == /\ pc' = "idle" /\ result' = value
                 /\ envs' = NoEnvs /\ failed' = FALSE
                 /\ UNCHANGED <<phase, config, seedOpen>>
Fault == faults > 0 /\ faults' = faults - 1 /\ UNCHANGED <<fits, crashes>>
Call == fits > 0 /\ fits' = fits - 1 /\ UNCHANGED <<faults, crashes>>

\* A callback fails in its hook, or the progress display at the head of an
\* iteration: the error ends the call.
Hooks == {"fit_start", "iter_start", "train_start", "train_end", "validate_start",
          "validate_end", "iter_end", "fit_end", "test_start", "test_end"}
CallbackFails == /\ pc \in Hooks \/ (pc = "loop" /\ ~runtime.stop)
                 /\ saver.step = "off"
                 /\ Fault /\ Return("error")
                 /\ UNCHANGED <<checkpointVars, model, history>>

-----------------------------------------------------------------------------
(* fit                                                                     *)

\* assign_trainer, then initialize.  The vessel keeps its weights, also those
\* that earlier calls have trained.
FitFresh == /\ pc = "idle" /\ Call
            /\ runtime' = Initialized(runtime) /\ weights' = Begun(weights)
            /\ Goto("fit_start")
            /\ UNCHANGED <<checkpointVars, early, history>>

\* assign_trainer, then a whole file is decoded and loaded.
Restorable == {files[n] : n \in Iters} \cup {LatestContent}
FitRestored == /\ pc = "idle" /\ Call
               /\ \E graph \in Restorable : Complete(graph) /\ Load(graph)
               /\ Goto("fit_start")
               /\ UNCHANGED <<checkpointVars, history>>

\* A half-written file does not decode; nothing is changed.
FitBroken == /\ pc = "idle" /\ Call
             /\ Broken \in Restorable
             /\ Return("broken")
             /\ UNCHANGED <<checkpointVars, model, history>>

\* assign_trainer fails (in test as well), or the loading of a file after the
\* vessel, or after the vessel and the callbacks.
FitFails == /\ pc = "idle" /\ fits > 0 /\ faults > 0
            /\ fits' = fits - 1 /\ faults' = faults - 1
            /\ \/ UNCHANGED <<weights, early>>
               \/ \E graph \in Restorable :
                    /\ Complete(graph)
                    /\ weights' = graph.weights /\ early' \in {early, graph.early}
            /\ Return("error")
            /\ UNCHANGED <<checkpointVars, runtime, history, crashes>>

FitStart == /\ pc = "fit_start"
            /\ early' = EarlyFitStart(early)
            /\ seen' = <<>> /\ fresh' = (saver.lastIter = None)
            /\ Goto("loop")
            /\ UNCHANGED <<checkpointVars, runtime, weights, budgets>>

StartIteration == /\ pc = "loop" /\ ~runtime.stop /\ runtime.iter + 1 \in Iters
                  /\ runtime' = Cleared(runtime)
                  /\ Goto("iter_start")
                  /\ UNCHANGED <<checkpointVars, weights, early, history, budgets>>
StartTraining == /\ pc = "iter_start"
                 /\ runtime' = [runtime EXCEPT !.stage = "train"]
                 /\ Goto("train_start")
                 /\ UNCHANGED <<checkpointVars, weights, early, history, budgets>>

\* begin_validation, under one lock with the stage.
ValidationDue == config.valEvery # None /\ (runtime.iter + 1) % config.valEvery = 0
EndTraining == /\ pc = "train_end" /\ config.valEvery # 0
               /\ IF ValidationDue
                  THEN /\ runtime' = [runtime EXCEPT !.stage = "val"]
                       /\ Goto("validate_start")
                  ELSE UNCHANGED runtime /\ Goto("finish")
               /\ UNCHANGED <<checkpointVars, weights, early, history, budgets>>
ZeroInterval == /\ \/ pc = "train_end" /\ config.valEvery = 0
                   \/ pc = "iter_end" /\ saver.step = "off" /\ config.every = 0
                /\ Return("zero")
                /\ UNCHANGED <<checkpointVars, model, history, budgets>>

FinishIteration == /\ pc = "finish"
                   /\ runtime' = Finished(runtime, config)
                   /\ Goto("iter_end")
                   /\ UNCHANGED <<checkpointVars, weights, early, history, budgets>>
Stop == /\ pc = "loop" /\ runtime.stop
        /\ Goto("fit_end")
        /\ UNCHANGED <<checkpointVars, model, history, budgets>>

-----------------------------------------------------------------------------
(* test                                                                    *)

Test == /\ pc = "idle" /\ Call
        /\ runtime' = [Cleared(runtime) EXCEPT !.stage = "test"]
        /\ Goto("test_start")
        /\ UNCHANGED <<checkpointVars, weights, early, history>>
TestEnd == /\ pc = "test_end"
           /\ Return("tested")
           /\ UNCHANGED <<checkpointVars, model, history, budgets>>

-----------------------------------------------------------------------------
(* run_phase                                                               *)

Phases == [train_start |-> "train", validate_start |-> "validation", test_start |-> "test"]
EndHook == [train |-> "train_end", validation |-> "validate_end", test |-> "test_end"]

\* The start hook, then the seeds of the phase are made and entered.
EnterSeeds == /\ pc \in DOMAIN Phases
              /\ phase' = Phases[pc] /\ pc' = "environment" /\ seedOpen' = TRUE
              /\ UNCHANGED <<config, envs, failed, result>>
              /\ UNCHANGED <<checkpointVars, model, history, budgets>>

\* A new environment replaces the kept one; a failure leaves that alone.
BuildEnvironment == /\ pc = "environment"
                    /\ pc' = "run" /\ envs' = {"current"}
                    /\ UNCHANGED <<phase, config, seedOpen, failed, result>>
                    /\ UNCHANGED <<checkpointVars, model, history, budgets>>
\* Seeded fault: the error returns past the exit.
BuildFailsPastExit == /\ pc = "environment" /\ Fault /\ Return("error")
                      /\ UNCHANGED <<checkpointVars, model, history>>
BuildFails == /\ pc = "environment" /\ Fault
              /\ pc' = "exit" /\ failed' = TRUE
              /\ UNCHANGED <<phase, config, seedOpen, envs, result>>
              /\ UNCHANGED <<checkpointVars, model, history>>

\* Only training changes the weights.
Trained == IF phase = "train"
           THEN [weights EXCEPT !.trained = Append(@, runtime.iter)] ELSE weights

\* The environments report their metrics while they run, or nothing.
Run == /\ pc = "run"
       /\ \E value \in Values \cup {NaN, None} : runtime' = Reported(runtime, value, config)
       /\ weights' = Trained
       /\ pc' = "exit" /\ envs' = NoEnvs
       /\ UNCHANGED <<phase, config, seedOpen, failed, result>>
       /\ UNCHANGED <<checkpointVars, early, history, budgets>>
RunFails == /\ pc = "run" /\ Fault
            /\ weights' \in {weights, Trained}
            /\ \E value \in Values \cup {NaN, None} : runtime' = Reported(runtime, value, config)
            /\ pc' = "exit" /\ failed' = TRUE
            /\ envs' = {"kept"}
            /\ UNCHANGED <<phase, config, seedOpen, result>>
            /\ UNCHANGED <<checkpointVars, early, history>>

\* The context may suppress the error of its phase, and the call goes on.
ExitSeeds == /\ pc = "exit"
             /\ seedOpen' = FALSE
             /\ \/ /\ ~failed \/ config.suppresses
                   /\ pc' = EndHook[phase] /\ failed' = FALSE
                   /\ UNCHANGED <<phase, config, envs, result>>
                \/ /\ failed /\ ~config.suppresses
                   /\ pc' = "idle" /\ result' = "error"
                   /\ envs' = NoEnvs /\ failed' = FALSE
                   /\ UNCHANGED <<phase, config>>
             /\ UNCHANGED <<checkpointVars, model, history, budgets>>
\* An exit that fails has still been called.
ExitFails == /\ pc = "exit" /\ Fault
             /\ pc' = "idle" /\ result' = "error"
             /\ seedOpen' = FALSE /\ envs' = NoEnvs /\ failed' = FALSE
             /\ UNCHANGED <<phase, config>>
             /\ UNCHANGED <<checkpointVars, model, history>>

-----------------------------------------------------------------------------
(* The callbacks at the hooks they act on.                                 *)

Monitored == runtime.monitored.value
Judged == EarlyValidated(early, Monitored, runtime.iter, weights, config)
Ends == EarlyStops(Judged, runtime.iter, config)

\* Without a value the callback only warns.
Unmonitored == /\ pc = "validate_end" /\ Monitored = None
               /\ Goto("finish")
               /\ UNCHANGED <<checkpointVars, model, history, budgets>>
EarlyStop == /\ pc = "validate_end" /\ Monitored # None
             /\ early' = Judged
             /\ runtime' = [runtime EXCEPT !.stop = @ \/ Ends]
             /\ weights' = IF Ends /\ config.restoreBest THEN Judged.bestWeights ELSE weights
             /\ seen' = Append(seen, [value |-> Monitored, weights |-> weights])
             /\ Goto("finish")
             /\ UNCHANGED <<checkpointVars, fresh, budgets>>
\* A capture fails, the log before the decision to stop, or the log or the
\* loading of the best weights after it.
EarlyFails == /\ pc = "validate_end" /\ Monitored # None
              /\ Fault
              /\ \/ /\ early' \in EarlyCaptureFails(early, Monitored, runtime.iter, weights, config)
                    /\ UNCHANGED runtime
                 \/ early' = Judged /\ UNCHANGED runtime
                 \/ /\ early' = Judged /\ Ends
                    /\ runtime' = [runtime EXCEPT !.stop = TRUE]
              /\ Return("error")
              /\ UNCHANGED <<checkpointVars, weights, history>>

\* The driver waits in a hook while the checkpoint callback saves.
SaveAt(hook) == pc = hook /\ saver.step = "off"
Due(hook) == \/ /\ hook = "iter_end" /\ config.every # 0
                /\ \E elapsed \in BOOLEAN : IterationDue(config, runtime.iter, elapsed)
             \/ hook = "fit_end" /\ FitEndDue(config, runtime.iter)
NotDue(hook) == \/ /\ hook = "iter_end" /\ config.every # 0
                   /\ \E elapsed \in BOOLEAN : ~IterationDue(config, runtime.iter, elapsed)
                \/ hook = "fit_end" /\ ~FitEndDue(config, runtime.iter)
SaveBegins == /\ \E hook \in {"iter_end", "fit_end"} : SaveAt(hook) /\ Due(hook)
              /\ BeginSave
              /\ UNCHANGED <<disk, process, model, history, budgets>>
After(hook) == IF hook = "iter_end" THEN Goto("loop") ELSE Return("fitted")
NoSave == /\ \E hook \in {"iter_end", "fit_end"} : SaveAt(hook) /\ NotDue(hook) /\ After(hook)
          /\ UNCHANGED <<checkpointVars, model, history, budgets>>

Save == /\ \/ Note(runtime.iter, Graph)
           \/ CreateFile \/ EncodeFile(config)
           \/ RemoveLatest(config) \/ Link(config) \/ OpenCopy \/ FillCopy
        /\ UNCHANGED <<process, model, history, budgets>>
SaveFails == /\ NoteFails(runtime.iter) \/ StorageFails
             /\ Fault
             /\ UNCHANGED <<process, model, history>>
Saved == /\ SaveReturned("done") /\ After(pc)
         /\ UNCHANGED <<disk, model, history, budgets>>
SaveFailed == /\ SaveReturned("failed") /\ Return("error")
              /\ UNCHANGED <<disk, model, history, budgets>>

-----------------------------------------------------------------------------
(* The process dies at any point, and another is started on the directory, *)
(* configured as it likes.                                                 *)

Crash == /\ crashes > 0 /\ crashes' = crashes - 1
         /\ pc' = "idle"
         /\ \E cfg \in Configs :
              /\ config' = cfg
              /\ phase' = "train" /\ runtime' = RuntimeNew
              /\ weights' = WeightsNew /\ early' = EarlyUnset
              /\ seedOpen' = FALSE /\ envs' = NoEnvs /\ failed' = FALSE /\ result' = "none"
              /\ seen' = <<>> /\ fresh' = TRUE /\ saver' = SaverNew
         /\ UNCHANGED <<disk, fits, faults>>

Begins == FitFresh \/ FitRestored \/ FitBroken \/ FitFails \/ Test
Works == \/ FitStart \/ StartIteration \/ StartTraining \/ EndTraining \/ ZeroInterval
         \/ FinishIteration \/ Stop \/ TestEnd
         \/ EnterSeeds \/ BuildEnvironment \/ Run \/ ExitSeeds
         \/ Unmonitored \/ EarlyStop
         \/ SaveBegins \/ NoSave \/ Save \/ Saved \/ SaveFailed
Fails == CallbackFails \/ BuildFails \/ RunFails \/ ExitFails \/ EarlyFails \/ SaveFails

Next == Begins \/ Works \/ Fails \/ Crash

\* A call runs on its own thread to its end; the caller owes nothing.
Spec == Init /\ [][Next]_vars /\ WF_vars(Works)

-----------------------------------------------------------------------------
(* Properties                                                              *)

Metrics == [value : Values \cup {NaN, None}, phase : {"none", "train", "validation", "test"},
            iter : Iters \cup {None}]
Runtimes == [stop : BOOLEAN \cup {None}, iter : Iters \cup {None},
             stage : {"train", "val", "test"}, monitored : Metrics]
Weights == [trained : Seq(Iters), begun : Nat]
Earlies == [wait : Nat \cup {None}, best : Values \cup {Lowest, None},
            bestIter : Iters \cup {None}, bestWeights : Weights \cup {None}]
Graphs == [weights : Weights, early : Earlies, runtime : Runtimes]
Contents == Graphs \cup {None, Broken}
\* Nothing, and a half-written file, are no checkpoints.
ASSUME GraphAssumption == None \notin Graphs /\ Broken \notin Graphs /\ None \notin Weights

SaverSteps == {"off", "note", "create", "encode", "remove", "link", "copy", "fill",
               "done", "failed"}

\* Type invariant: the driver is at one of its places, and the runtime, both
\* callbacks and the directory hold what the code can put there.
TrainerTypeOK ==
  /\ files \in [Iters -> Contents]
  /\ latest \in [kind : {"absent", "link", "file"}, iter : Iters \cup {None},
                 reaches : BOOLEAN, content : Contents]
  /\ saver \in [step : SaverSteps, lastIter : Iters \cup {None}, lastTime : BOOLEAN,
                graph : Graphs \cup {None}]
  /\ pc \in Hooks \cup {"idle", "loop", "environment", "run", "exit", "finish"}
  /\ phase \in {"train", "validation", "test"} /\ config \in Configs
  /\ runtime \in Runtimes /\ weights \in Weights /\ early \in Earlies
  /\ seedOpen \in BOOLEAN /\ failed \in BOOLEAN
  /\ envs \subseteq {"current", "kept"}
  /\ result \in {"none", "error", "broken", "zero", "fitted", "tested"}
  /\ seen \in Seq([value : Values \cup {NaN}, weights : Weights]) /\ fresh \in BOOLEAN
  /\ fits \in Nat /\ faults \in Nat /\ crashes \in Nat

\* A seed context that was entered is exited on every way out of its phase,
\* also when the environment cannot be built, the run fails or the exit does;
\* no environment outlives its call, and one that is kept after a suppressed
\* error never lives beside a running one.
SeedsReleased ==
  /\ seedOpen <=> pc \in {"environment", "run", "exit"}
  /\ "current" \in envs <=> pc = "run"
  /\ "kept" \in envs => pc \notin {"idle", "run"}

\* What early stopping compares was measured by this iteration's own phase,
\* under the stage that phase runs in, whatever was suppressed, restored or
\* left behind by an earlier fit or test.
MonitorIsCurrent ==
  pc = "validate_end" /\ Monitored # None =>
    /\ runtime.monitored.iter = runtime.iter
    /\ runtime.monitored.phase = IF config.monitor = "reward" THEN "train" ELSE "validation"

\* From one fit without a checkpoint to the next, no iteration trains the same
\* weights twice, over crashes, restores, early stopping and failed calls: in a
\* fit, and in a complete checkpoint, the weights were trained since then by
\* earlier iterations only, each at most once.  (A second fit without a
\* checkpoint counts from 0 again on the weights the vessel has.)
TrainedBefore(w, iter) ==
  LET since == w.begun + 1 .. Len(w.trained)
  IN /\ \A i \in since : w.trained[i] < iter
     /\ \A i, j \in since : i < j => w.trained[i] < w.trained[j]
TrainedOnce ==
  /\ pc \in {"loop", "iter_start", "train_start"} => TrainedBefore(weights, runtime.iter)
  /\ \A n \in Iters : Complete(files[n]) => TrainedBefore(files[n].weights, n)

\* When early stopping ends a fit, the vessel holds the weights of a validation
\* of this very fit that no other one beats, or of the first if none compares.
StopKeepsTheBest ==
  pc = "finish" /\ runtime.stop /\ config.restoreBest =>
    \E i \in 1 .. Len(seen) :
      /\ weights = seen[i].weights
      /\ \/ /\ seen[i].value # NaN
            /\ \A j \in 1 .. Len(seen) : ~Improves(seen[j].value, seen[i].value)
         \/ i = 1 /\ \A j \in 1 .. Len(seen) : seen[j].value = NaN

\* A complete checkpoint is of the iteration in its name, and latest.pth leads
\* to no other kind of file: nothing is ever written through a stale link.
NamesHold ==
  /\ \A n \in Iters : Complete(files[n]) => files[n].runtime.iter = n
  /\ latest.kind = "link" => latest.iter # None /\ (latest.reaches => files[latest.iter] # None)

\* An interrupted save costs the file it was writing, and no other.
LossIsBounded ==
  LET hurt == {n \in Iters : files[n] = Broken}
                \ (IF saver.step = "encode" THEN {saver.lastIter} ELSE {})
  IN Cardinality(hurt) <= (MaxFaults - faults) + (MaxCrashes - crashes)

\* The first fit of a checkpoint callback, when it returns without an error,
\* has left its final state on disk under the final iteration, and latest.pth
\* leads there.  (A callback that already noted the iteration skips it.)
FinalStateSaved ==
  result = "fitted" /\ pc = "idle" /\ fresh /\ config.onFitEnd =>
    LET final == files[runtime.iter]
    IN /\ Complete(final)
       /\ final.weights = weights /\ final.runtime.iter = runtime.iter /\ final.runtime.stop
       /\ (config.latest = "link" /\ config.absolute) \/ config.latest = "copy" =>
            LatestContent = final

\* A call fails only where something failed: the driver, the restored state
\* and the leftovers in the directory never make it fail by themselves.
OnlyFaultsFail == result = "error" => faults < MaxFaults

\* A fit or a test that was called returns, if its plugins do: also one that
\* continues past the last iteration asked for.
CallsReturn == pc # "idle" ~> pc = "idle"
=============================================================================
