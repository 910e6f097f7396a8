--------------------------- MODULE Trainer_proofs ---------------------------
(***************************************************************************)
(* Proofs about Trainer, for any configurations, iterations, values and    *)
(* numbers of calls, faults and crashes.                                   *)
(***************************************************************************)
EXTENDS Trainer, FiniteSetTheorems, TLAPS

(* Where a fit is.                                                         *)
InPhase == pc \in {"environment", "run", "exit"}
BodyHooks == {"iter_start", "train_start", "train_end", "validate_start", "validate_end",
              "finish"}
InBody == pc \in BodyHooks \/ (InPhase /\ phase # "test")
InFit == pc \in {"loop", "iter_end", "fit_end"} \/ InBody
AfterTraining == \/ pc \in {"train_end", "validate_start", "validate_end", "finish"}
                 \/ pc = "exit" /\ phase = "train"
                 \/ InPhase /\ phase = "validation"
\* The weights were trained before this iteration.
Reached == IF AfterTraining THEN runtime.iter + 1 ELSE runtime.iter

\* The runtime of a fit is initialised, and its weights are as old as it says.
RunInv ==
  /\ InFit \/ pc = "fit_start" => /\ runtime.stop \in BOOLEAN
                                  /\ runtime.iter \in Iters
                                  /\ TrainedBefore(weights, Reached)
  /\ InBody => runtime.iter + 1 \in Iters
  /\ InBody /\ pc # "finish" => runtime.stop = FALSE

\* Early stopping is initialised, and what it keeps is not of the future.
EarlyInv ==
  InFit => /\ early.wait \in Nat
           /\ early.best \in Values \cup {Lowest}
           /\ early.bestWeights # None =>
                TrainedBefore(early.bestWeights, runtime.iter + 1)

\* The stage is the phase's, and what is monitored was measured in it.
StageInv ==
  /\ pc = "train_start" \/ (InPhase /\ phase = "train") => runtime.stage = "train"
  /\ pc = "validate_start" \/ (InPhase /\ phase = "validation") => runtime.stage = "val"
  /\ InBody /\ Monitored # None =>
       /\ runtime.monitored.iter = runtime.iter
       /\ runtime.monitored.phase = IF config.monitor = "reward" THEN "train" ELSE "validation"

\* The weights kept are those of the best validation of this fit.
BestInv ==
  InFit /\ config.restoreBest =>
    /\ seen = <<>> <=> early.bestWeights = None
    /\ early.best = Lowest => \A j \in 1 .. Len(seen) : seen[j].value = NaN
    /\ early.best = Lowest /\ seen # <<>> => early.bestWeights = seen[1].weights
    /\ early.best # Lowest =>
         /\ \E i \in 1 .. Len(seen) : /\ seen[i].value = early.best
                                      /\ seen[i].weights = early.bestWeights
         /\ \A j \in 1 .. Len(seen) : ~Improves(seen[j].value, early.best)
    /\ pc = "finish" /\ runtime.stop => seen # <<>> /\ weights = early.bestWeights

\* A checkpoint is of its own iteration.
Good(graph) == /\ graph \in Graphs
               /\ graph.runtime.stop \in BOOLEAN
               /\ graph.runtime.iter \in Iters
               /\ TrainedBefore(graph.weights, graph.runtime.iter)
Writing == {"create", "encode", "remove", "link", "copy", "fill"}
SaverInv ==
  /\ saver.step \in Writing => /\ Good(saver.graph)
                               /\ saver.graph.runtime.iter = saver.lastIter
  /\ saver.step \in Writing \ {"create"} => files[saver.lastIter] # None
  /\ saver.step \in {"link", "copy"} => latest.kind = "absent"
  /\ saver.step = "fill" => latest.kind = "file"
DiskInv ==
  /\ \A n \in Iters : Complete(files[n]) => Good(files[n]) /\ files[n].runtime.iter = n
  /\ latest.kind = "file" => latest.content # None
  /\ Complete(latest.content) => Good(latest.content)
  /\ latest.kind = "link" => latest.iter \in Iters /\ files[latest.iter] # None

\* Whatever failed has used up a fault.
FaultInv == /\ faults <= MaxFaults
            /\ failed \/ result = "error" \/ saver.step = "failed" => faults < MaxFaults


-----------------------------------------------------------------------------
(* The places and the resources of the driver.                             *)

Outside == Hooks \cup {"idle", "loop", "finish"}
Results == {"none", "error", "broken", "zero", "fitted", "tested"}
DriverTypeOK ==
  /\ pc \in Outside \cup {"environment", "run", "exit"}
  /\ phase \in {"train", "validation", "test"} /\ config \in Configs
  /\ seedOpen \in BOOLEAN /\ failed \in BOOLEAN
  /\ envs \subseteq {"current", "kept"}
  /\ result \in Results
\* The callback saves while the driver waits in one of its hooks.
Waits == /\ "step" \in DOMAIN saver
         /\ saver.step # "off" => pc \in {"iter_end", "fit_end"}
DriverInv == DriverTypeOK /\ SeedsReleased /\ Waits

\* A new process has no seed context, no environment and no save.
LEMMA InitDriver == Init => DriverInv
  <1> SUFFICES ASSUME Init PROVE DriverInv
    OBVIOUS
  <1>1. DriverTypeOK
    BY DEF DriverTypeOK, Outside, Results, Init, ProcessInit, NoEnvs
  <1>2. pc = "idle" /\ envs = {} /\ seedOpen = FALSE /\ saver = SaverNew
    BY DEF Init, ProcessInit, NoEnvs
  <1> QED  BY <1>1, <1>2 DEF DriverInv, SeedsReleased, Waits, SaverNew

\* A step outside a phase goes to another such place, returns, or stays.
Moves == \/ UNCHANGED process
         \/ \E place \in Outside \ {"idle"} : Goto(place)
         \/ \E value \in Results : Return(value)
\* Such a step leaves the resources as they should be.
LEMMA MovesKeepDriver ==
  ASSUME DriverInv, pc \in Outside, Moves
  PROVE  DriverTypeOK' /\ SeedsReleased'
  <1>1. pc' \in Outside /\ seedOpen' = seedOpen
    BY DEF Moves, Goto, Return, process, Outside
  <1>2. envs' = {} \/ (envs' = envs /\ (pc' = "idle" => pc = "idle"))
    BY DEF Moves, Goto, Return, NoEnvs, process
  <1>3. DriverTypeOK'
    BY <1>1, <1>2 DEF Moves, Goto, Return, process, DriverInv, DriverTypeOK
  <1>4. pc \notin {"environment", "run", "exit"} /\ pc' \notin {"environment", "run", "exit"}
    BY <1>1 DEF Outside, Hooks
  <1>5. seedOpen' = FALSE /\ "current" \notin envs'
    BY <1>1, <1>2, <1>4 DEF DriverInv, DriverTypeOK, SeedsReleased
  <1>6. "kept" \in envs' => pc' \notin {"idle", "run"}
    BY <1>2, <1>4 DEF DriverInv, SeedsReleased
  <1> QED  BY <1>3, <1>4, <1>5, <1>6 DEF SeedsReleased

InPhaseSteps == EnterSeeds \/ BuildEnvironment \/ BuildFails \/ Run \/ RunFails
                \/ ExitSeeds \/ ExitFails
Others == \/ FitStart \/ StartIteration \/ StartTraining \/ FinishIteration \/ Stop
          \/ TestEnd \/ EndTraining \/ ZeroInterval \/ Unmonitored \/ EarlyStop
          \/ CallbackFails \/ EarlyFails \/ NoSave
Saving == SaveBegins \/ Save \/ SaveFails \/ Saved \/ SaveFailed

\* The steps by what they do to the driver.
LEMMA NextCases == Next => Begins \/ InPhaseSteps \/ Others \/ Saving \/ Crash
  BY DEF Next, Works, Fails, InPhaseSteps, Others, Saving

\* A step of a save is taken by a callback at work.
LEMMA SaverBusy ==
  Save \/ SaveFails \/ Saved \/ SaveFailed => saver.step # "off"
  BY DEF Save, SaveFails, Saved, SaveFailed, Note, CreateFile, EncodeFile, RemoveLatest,
         Link, OpenCopy, FillCopy, NoteFails, StorageFails, SaveReturned

\* Everything else that a call does, moves.
LEMMA OthersMove ==
  ASSUME DriverInv, Begins \/ Others \/ Saving
  PROVE  pc \in Outside /\ Moves
  <1> USE DEF Moves, Outside, Hooks, Results
  <1>1. CASE Begins
    BY <1>1 DEF Begins, FitFresh, FitRestored, FitBroken, FitFails, Test
  <1>2. CASE FitStart \/ StartIteration \/ StartTraining \/ FinishIteration \/ Stop \/ TestEnd
    BY <1>2 DEF FitStart, StartIteration, StartTraining, FinishIteration, Stop, TestEnd
  <1>3. CASE EndTraining \/ ZeroInterval \/ Unmonitored \/ EarlyStop
    BY <1>3 DEF EndTraining, ZeroInterval, Unmonitored, EarlyStop
  <1>4. CASE SaveBegins \/ NoSave
    BY <1>4 DEF SaveBegins, NoSave, SaveAt, After, process
  <1>5. CASE CallbackFails \/ EarlyFails
    BY <1>5 DEF CallbackFails, EarlyFails
  <1>6. CASE Save \/ SaveFails \/ Saved \/ SaveFailed
    <2>1. pc \in {"iter_end", "fit_end"}
      BY <1>6, SaverBusy DEF DriverInv, Waits
    <2> QED  BY <1>6, <2>1 DEF Save, SaveFails, Saved, SaveFailed, After, process
  <1> QED  BY <1>1, <1>2, <1>3, <1>4, <1>5, <1>6 DEF Others, Saving

\* Nobody leaves a hook in which the callback is still at work.
LEMMA WaitsKept ==
  ASSUME DriverInv, Next PROVE Waits'
  <1> USE DEF DriverInv, Waits
  <1>1. CASE Begins
    BY <1>1 DEF Begins, FitFresh, FitRestored, FitBroken, FitFails, Test, checkpointVars
  <1>2. CASE InPhaseSteps
    BY <1>2 DEF InPhaseSteps, EnterSeeds, BuildEnvironment, BuildFails, Run, RunFails,
         ExitSeeds, ExitFails, Phases, checkpointVars
  <1>3. CASE Others
    BY <1>3 DEF Others, FitStart, StartIteration, StartTraining, FinishIteration, Stop,
         TestEnd, EndTraining, ZeroInterval, Unmonitored, EarlyStop, CallbackFails,
         EarlyFails, NoSave, SaveAt, checkpointVars
  <1>4. CASE SaveBegins
    BY <1>4 DEF SaveBegins, SaveAt, BeginSave, process
  <1>5. CASE Save \/ SaveFails
    <2>1. pc \in {"iter_end", "fit_end"}  BY <1>5, SaverBusy
    <2>2. CASE Save
      BY <2>1, <2>2 DEF Save, Note, CreateFile, EncodeFile, RemoveLatest, Link, OpenCopy,
                        FillCopy, To, process
    <2>3. CASE SaveFails
      BY <2>1, <2>3 DEF SaveFails, NoteFails, StorageFails, To, process
    <2> QED  BY <1>5, <2>2, <2>3
  <1>6. CASE Saved \/ SaveFailed
    BY <1>6 DEF Saved, SaveFailed, SaveReturned
  <1>7. CASE Crash
    BY <1>7 DEF Crash, SaverNew
  <1> QED  BY <1>1, <1>2, <1>3, <1>4, <1>5, <1>6, <1>7, NextCases DEF Saving

\* A phase enters and exits its seeds, and releases its environment.
LEMMA PhasesKeepDriver ==
  ASSUME DriverInv, InPhaseSteps PROVE DriverTypeOK' /\ SeedsReleased'
  <1> USE DEF DriverInv, DriverTypeOK, SeedsReleased, Outside, Hooks, NoEnvs, Phases, EndHook,
      Results
  <1>1. CASE EnterSeeds  BY <1>1 DEF EnterSeeds
  <1>2. CASE BuildEnvironment  BY <1>2 DEF BuildEnvironment
  <1>3. CASE BuildFails  BY <1>3 DEF BuildFails
  <1>4. CASE Run  BY <1>4 DEF Run
  <1>5. CASE RunFails  BY <1>5 DEF RunFails
  <1>6. CASE ExitSeeds
    <2>1. pc = "exit" /\ seedOpen' = FALSE /\ failed' = FALSE
      BY <1>6 DEF ExitSeeds
    <2>2. \/ pc' = EndHook[phase] /\ UNCHANGED <<phase, config, envs, result>>
          \/ pc' = "idle" /\ result' = "error" /\ envs' = {} /\ UNCHANGED <<phase, config>>
      BY <1>6 DEF ExitSeeds
    <2>3. EndHook[phase] \in {"train_end", "validate_end", "test_end"}
      OBVIOUS
    <2> QED  BY <2>1, <2>2, <2>3
  <1>7. CASE ExitFails  BY <1>7 DEF ExitFails
  <1> QED  BY <1>1, <1>2, <1>3, <1>4, <1>5, <1>6, <1>7 DEF InPhaseSteps

\* A process that is started anew holds nothing.
LEMMA CrashKeepsDriver ==
  ASSUME DriverInv, Crash PROVE DriverTypeOK' /\ SeedsReleased'
  <1>1. DriverTypeOK'
    BY DEF DriverInv, DriverTypeOK, Outside, Results, Crash, NoEnvs
  <1>2. pc' = "idle" /\ envs' = {} /\ seedOpen' = FALSE
    BY DEF Crash, NoEnvs
  <1> QED  BY <1>1, <1>2 DEF SeedsReleased

\* Every step keeps the driver in order.
LEMMA NextKeepsDriver == DriverInv /\ Next => DriverInv'
  BY NextCases, OthersMove, MovesKeepDriver, PhasesKeepDriver, CrashKeepsDriver, WaitsKept
  DEF DriverInv

\* The driver is at one of its places and holds what it should there, in every
\* state (run_phase, and the callback inside its hook).
THEOREM DriverInvariant == Spec => []DriverInv
  <1>1. DriverInv /\ [Next]_vars => DriverInv'
    <2>1. DriverInv /\ UNCHANGED vars => DriverInv'
      BY DEF vars, process, checkpointVars, DriverInv, DriverTypeOK, SeedsReleased, Waits
    <2> QED  BY <2>1, NextKeepsDriver
  <1> QED  BY InitDriver, <1>1, PTL DEF Spec

\* Whatever fails, and whoever dies: a seed context is open only inside its
\* phase, and no environment outlives its call.
THEOREM SeedsAreReleased == Spec => []SeedsReleased
  <1>1. DriverInv => SeedsReleased  BY DEF DriverInv
  <1> QED  BY DriverInvariant, <1>1, PTL

-----------------------------------------------------------------------------
(* What a fit works on.                                                    *)

ModelTypeOK ==
  /\ runtime \in Runtimes /\ weights \in Weights /\ early \in Earlies
  /\ seen \in Seq([value : Values \cup {NaN}, weights : Weights]) /\ fresh \in BOOLEAN
ModelInv == ModelTypeOK /\ RunInv /\ EarlyInv

StorageTypeOK ==
  /\ files \in [Iters -> Contents]
  /\ latest \in [kind : {"absent", "link", "file"}, iter : Iters \cup {None},
                 reaches : BOOLEAN, content : Contents]
  /\ saver \in [step : SaverSteps, lastIter : Iters \cup {None}, lastTime : BOOLEAN,
                graph : Graphs \cup {None}]
StorageInv == StorageTypeOK /\ SaverInv /\ DiskInv

\* The iterations that trained some weights can be compared.
LEMMA WeightsAreInts ==
  ASSUME NEW w \in Weights
  PROVE  /\ w.trained \in Seq(Iters) /\ Len(w.trained) \in Nat /\ w.begun \in Nat
         /\ \A i \in w.begun + 1 .. Len(w.trained) : w.trained[i] \in Int
  <1>1. w.trained \in Seq(Iters) /\ Len(w.trained) \in Nat /\ w.begun \in Nat
    BY DEF Weights
  <1>2. \A n \in Iters : n \in Int  BY CheckpointsAssumption
  <1>3. ASSUME NEW i \in w.begun + 1 .. Len(w.trained) PROVE w.trained[i] \in Iters
    <2>1. i \in 1 .. Len(w.trained)  BY <1>1
    <2> QED  BY <1>1, <2>1
  <1> QED  BY <1>1, <1>2, <1>3, Zenon

\* An iteration may train weights of earlier iterations once.
LEMMA TrainedMore ==
  ASSUME NEW w \in Weights, NEW n \in Iters, TrainedBefore(w, n)
  PROVE  LET v == [w EXCEPT !.trained = Append(@, n)]
         IN v \in Weights /\ TrainedBefore(v, n + 1)
  <1> DEFINE v == [w EXCEPT !.trained = Append(@, n)]
             old == w.begun + 1 .. Len(w.trained)
             since == w.begun + 1 .. Len(w.trained) + 1
  <1>1. /\ w.trained \in Seq(Iters) /\ Len(w.trained) \in Nat /\ w.begun \in Nat
        /\ n \in Int /\ \A i \in old : w.trained[i] \in Int
    BY CheckpointsAssumption, WeightsAreInts
  <1>2. v.trained = Append(w.trained, n) /\ v.begun = w.begun
    BY DEF Weights
  <1>3. v.trained \in Seq(Iters) /\ Len(v.trained) = Len(w.trained) + 1
    BY <1>1, <1>2
  <1>4. v \in Weights
    BY <1>1, <1>2, <1>3 DEF Weights
  <1>5. \A i \in since : i \in old \/ i = Len(w.trained) + 1
    BY <1>1
  <1>6. /\ \A i \in old : v.trained[i] = w.trained[i]
        /\ v.trained[Len(w.trained) + 1] = n
    BY <1>1, <1>2
  <1>7. \A i \in since : v.trained[i] < n + 1
    BY <1>1, <1>5, <1>6 DEF TrainedBefore
  <1>8. ASSUME NEW i \in since, NEW j \in since, i < j PROVE v.trained[i] < v.trained[j]
    <2>1. i \in old
      BY <1>1, <1>5, <1>8
    <2>2. CASE j = Len(w.trained) + 1
      BY <2>1, <2>2, <1>6 DEF TrainedBefore
    <2>3. CASE j \in old
      BY <2>1, <2>3, <1>6, <1>8 DEF TrainedBefore
    <2> QED  BY <2>2, <2>3, <1>5
  <1> QED  BY <1>2, <1>3, <1>4, <1>7, <1>8 DEF TrainedBefore

\* What was trained before an iteration was trained before the next.
LEMMA TrainedLater ==
  ASSUME NEW w \in Weights, NEW n \in Iters, TrainedBefore(w, n)
  PROVE  TrainedBefore(w, n + 1)
  <1>1. n \in Int /\ \A i \in w.begun + 1 .. Len(w.trained) : w.trained[i] \in Int
    BY CheckpointsAssumption, WeightsAreInts
  <1> QED  BY <1>1 DEF TrainedBefore

\* New weights were trained by nobody.
LEMMA NothingTrained == WeightsNew \in Weights
  BY DEF Weights, WeightsNew

\* Since a fit began anew, nobody has trained its weights.
LEMMA NobodyTrained ==
  ASSUME NEW w \in Weights
  PROVE  Begun(w) \in Weights /\ \A n : TrainedBefore(Begun(w), n)
  <1>1. Begun(w) \in Weights /\ Begun(w).trained = w.trained /\ Begun(w).begun = Len(w.trained)
    BY DEF Begun, Weights
  <1>2. Begun(w).begun + 1 .. Len(Begun(w).trained) = {}
    BY <1>1, WeightsAreInts
  <1> QED  BY <1>1, <1>2 DEF TrainedBefore

\* Whatever file decodes, its weights are as old as it says.
LEMMA RestoredIsGood ==
  ASSUME StorageInv, NEW graph \in Restorable, Complete(graph)
  PROVE  Good(graph)
  BY DEF StorageInv, DiskInv, Restorable, LatestContent, StorageTypeOK, Complete

\* A call begins on the weights there are, with those of a file, or not at all.
LEMMA BeginsKeepModel ==
  ASSUME DriverInv, ModelInv, StorageInv, Begins PROVE ModelInv'
  <1> USE DEF InFit, InBody, InPhase, BodyHooks, AfterTraining, Reached
  <1>1. ModelTypeOK'
    <2>1. CASE FitFresh
      BY <2>1, NobodyTrained, TrainerAssumption
      DEF FitFresh, ModelInv, ModelTypeOK, Initialized, Runtimes, history
    <2>2. CASE FitRestored
      BY <2>2, RestoredIsGood DEF FitRestored, Good, Graphs, Load, ModelInv, ModelTypeOK, history
    <2>3. CASE FitBroken
      BY <2>3 DEF FitBroken, ModelInv, ModelTypeOK, model, history
    <2>4. CASE FitFails
      BY <2>4, RestoredIsGood DEF FitFails, Good, Graphs, ModelInv, ModelTypeOK, history
    <2>5. CASE Test
      <3>1. Cleared(runtime) \in Runtimes
        BY DEF Cleared, Runtimes, ModelInv, ModelTypeOK, NoMetric, Metrics
      <3> QED  BY <2>5, <3>1 DEF Test, Runtimes, ModelInv, ModelTypeOK, history
    <2> QED  BY <2>1, <2>2, <2>3, <2>4, <2>5 DEF Begins
  <1>2. RunInv' /\ EarlyInv'
    <2>1. CASE FitFresh
      BY <2>1, NobodyTrained, TrainerAssumption
      DEF FitFresh, ModelInv, ModelTypeOK, Initialized, Runtimes, Goto, RunInv, EarlyInv
    <2>2. CASE FitRestored
      BY <2>2, RestoredIsGood DEF FitRestored, Good, Load, Goto, RunInv, EarlyInv
    <2>3. CASE FitBroken \/ FitFails
      BY <2>3 DEF FitBroken, FitFails, Return, RunInv, EarlyInv
    <2>5. CASE Test
      BY <2>5 DEF Test, Goto, RunInv, EarlyInv
    <2> QED  BY <2>1, <2>2, <2>3, <2>5 DEF Begins
  <1> QED  BY <1>1, <1>2 DEF ModelInv

\* When a call has returned, nothing is asked of the runtime but its type.
LEMMA IdleModel ==
  ASSUME pc' = "idle", ModelTypeOK' PROVE ModelInv'
  BY DEF ModelInv, RunInv, EarlyInv, InFit, InBody, InPhase, BodyHooks

\* What the early-stopping callback makes of a value.
LEMMA JudgedIsTyped ==
  ASSUME ModelInv, pc = "validate_end", Monitored # None
  PROVE  /\ Judged \in Earlies /\ Judged.wait \in Nat
         /\ Judged.best \in Values \cup {Lowest}
         /\ Judged.bestWeights \in {early.bestWeights, weights}
         /\ config.restoreBest => Judged.bestWeights # None
         /\ EarlyCaptureFails(early, Monitored, runtime.iter, weights, config) \subseteq Earlies
  <1>1. /\ Monitored \in Values \cup {NaN} /\ runtime.iter \in Iters /\ weights \in Weights
        /\ early \in Earlies /\ early.wait \in Nat /\ early.best \in Values \cup {Lowest}
    BY DEF ModelInv, ModelTypeOK, RunInv, EarlyInv, InFit, InBody, BodyHooks, Monitored,
           Runtimes, Metrics
  <1>2. Better(early, Monitored) => Monitored \in Values
    BY <1>1 DEF Better, Improves
  <1>3. weights # None
    BY <1>1, GraphAssumption
  <1>4. /\ Judged \in Earlies /\ Judged.wait \in Nat
        /\ Judged.best \in Values \cup {Lowest}
        /\ Judged.bestWeights \in {early.bestWeights, weights}
    BY <1>1, <1>2 DEF Judged, EarlyValidated, Earlies
  <1>5. config.restoreBest => Judged.bestWeights # None
    BY <1>3 DEF Judged, EarlyValidated, Captures
  <1>6. EarlyCaptureFails(early, Monitored, runtime.iter, weights, config) \subseteq Earlies
    BY <1>1, <1>2 DEF EarlyCaptureFails, Earlies
  <1> QED  BY <1>4, <1>5, <1>6

\* The steps of fit outside its phases.
LEMMA OthersKeepModel ==
  ASSUME DriverInv, ModelInv, Others PROVE ModelInv'
  <1> USE DEF InFit, InBody, InPhase, BodyHooks, AfterTraining, Reached
  <1>1. CASE CallbackFails \/ ZeroInterval \/ TestEnd
    BY <1>1, IdleModel DEF CallbackFails, ZeroInterval, TestEnd, Return, ModelInv, ModelTypeOK,
                          model, history
  <1>2. CASE EarlyFails
    <2>1. early' \in Earlies /\ runtime' \in Runtimes
      BY <1>2, JudgedIsTyped DEF EarlyFails, ModelInv, ModelTypeOK, Runtimes
    <2> QED  BY <1>2, <2>1, IdleModel DEF EarlyFails, Return, ModelInv, ModelTypeOK, history
  <1>3. CASE FitStart
    <2>1. ModelTypeOK'
      BY <1>3, TrainerAssumption DEF FitStart, EarlyFitStart, ModelInv, ModelTypeOK, Earlies
    <2>2. RunInv' /\ EarlyInv'
      BY <1>3 DEF FitStart, EarlyFitStart, Goto, ModelInv, RunInv, EarlyInv
    <2> QED  BY <2>1, <2>2 DEF ModelInv
  <1>4. CASE StartIteration
    <2>1. ModelTypeOK'
      BY <1>4 DEF StartIteration, Cleared, NoMetric, ModelInv, ModelTypeOK, Runtimes, Metrics,
          history
    <2>2. RunInv' /\ EarlyInv'
      BY <1>4 DEF StartIteration, Cleared, Goto, ModelInv, ModelTypeOK, Runtimes, RunInv, EarlyInv
    <2> QED  BY <2>1, <2>2 DEF ModelInv
  <1>5. CASE StartTraining
    <2>1. ModelTypeOK'
      BY <1>5 DEF StartTraining, ModelInv, ModelTypeOK, Runtimes, history
    <2>2. RunInv' /\ EarlyInv'
      BY <1>5 DEF StartTraining, Goto, ModelInv, ModelTypeOK, Runtimes, RunInv, EarlyInv
    <2> QED  BY <2>1, <2>2 DEF ModelInv
  <1>6. CASE EndTraining
    <2>1. ModelTypeOK'
      BY <1>6 DEF EndTraining, ModelInv, ModelTypeOK, Runtimes, history
    <2>2. RunInv' /\ EarlyInv'
      BY <1>6 DEF EndTraining, Goto, ModelInv, ModelTypeOK, Runtimes, RunInv, EarlyInv
    <2> QED  BY <2>1, <2>2 DEF ModelInv
  <1>7. CASE FinishIteration
    <2>1. ModelTypeOK'
      BY <1>7 DEF FinishIteration, Finished, ModelInv, ModelTypeOK, RunInv, Runtimes, history
    <2>2. RunInv'
      BY <1>7 DEF FinishIteration, Finished, Goto, ModelInv, ModelTypeOK, Runtimes, RunInv
    <2>3. EarlyInv'
      BY <1>7, TrainedLater DEF FinishIteration, Finished, Goto, ModelInv, ModelTypeOK,
          Runtimes, RunInv, EarlyInv, Earlies
    <2> QED  BY <2>1, <2>2, <2>3 DEF ModelInv
  <1>8. CASE Stop \/ Unmonitored
    <2>1. ModelTypeOK'
      BY <1>8 DEF Stop, Unmonitored, ModelInv, ModelTypeOK, model, history
    <2>2. RunInv' /\ EarlyInv'
      BY <1>8 DEF Stop, Unmonitored, Goto, ModelInv, RunInv, EarlyInv, model
    <2> QED  BY <2>1, <2>2 DEF ModelInv
  <1>9. CASE NoSave
    <2>1. ModelTypeOK'
      BY <1>9 DEF NoSave, ModelInv, ModelTypeOK, model, history
    <2>2. pc' = "idle" \/ (pc \in {"iter_end", "fit_end"} /\ pc' = "loop")
      BY <1>9 DEF NoSave, SaveAt, After, Goto, Return
    <2>3. RunInv' /\ EarlyInv'
      BY <1>9, <2>2 DEF NoSave, ModelInv, RunInv, EarlyInv, model
    <2> QED  BY <2>1, <2>3 DEF ModelInv
  <1>10. CASE EarlyStop
    <2>1. ModelTypeOK'
      <3>1. Monitored \in Values \cup {NaN} /\ weights \in Weights /\ runtime \in Runtimes
        BY <1>10 DEF EarlyStop, ModelInv, ModelTypeOK, Runtimes, Monitored, Metrics
      <3>2. seen' \in Seq([value : Values \cup {NaN}, weights : Weights])
        BY <1>10, <3>1 DEF EarlyStop, ModelInv, ModelTypeOK
      <3>3. runtime' \in Runtimes
        BY <1>10, <3>1 DEF EarlyStop, Runtimes, ModelInv, RunInv
      <3>4. Judged.bestWeights \in Weights \cup {None}
        BY <1>10, JudgedIsTyped DEF EarlyStop, Earlies
      <3>5. weights' \in Weights
        BY <1>10, JudgedIsTyped, <3>1, <3>4 DEF EarlyStop
      <3> QED  BY <1>10, JudgedIsTyped, <3>2, <3>3, <3>5 DEF EarlyStop, ModelInv, ModelTypeOK
    <2>2. RunInv'
      BY <1>10, JudgedIsTyped DEF EarlyStop, Goto, ModelInv, ModelTypeOK, Runtimes, RunInv,
          EarlyInv
    <2>3. EarlyInv'
      BY <1>10, JudgedIsTyped DEF EarlyStop, Goto, ModelInv, ModelTypeOK, Runtimes, RunInv,
          EarlyInv
    <2> QED  BY <2>1, <2>2, <2>3 DEF ModelInv
  <1> QED  BY <1>1, <1>2, <1>3, <1>4, <1>5, <1>6, <1>7, <1>8, <1>9, <1>10 DEF Others

\* A report changes the monitored metric only.
LEMMA ReportIsTyped ==
  ASSUME DriverInv, ModelInv, NEW value \in Values \cup {NaN, None}
  PROVE  LET rt == Reported(runtime, value, config)
         IN rt \in Runtimes /\ rt.iter = runtime.iter /\ rt.stop = runtime.stop
  BY DEF Reported, DriverInv, DriverTypeOK, ModelInv, ModelTypeOK, Runtimes, Metrics

\* A phase trains the weights with its own iteration, at most once.
LEMMA PhasesKeepModel ==
  ASSUME DriverInv, ModelInv, InPhaseSteps PROVE ModelInv'
  <1> USE DEF InFit, InBody, InPhase, BodyHooks, AfterTraining, Reached
  <1>1. CASE EnterSeeds
    <2>1. ModelTypeOK'
      BY <1>1 DEF EnterSeeds, ModelInv, ModelTypeOK, model, history
    <2>2. RunInv' /\ EarlyInv'
      BY <1>1 DEF EnterSeeds, Phases, ModelInv, RunInv, EarlyInv, model
    <2> QED  BY <2>1, <2>2 DEF ModelInv
  <1>2. CASE BuildEnvironment \/ BuildFails
    <2>1. ModelTypeOK'
      BY <1>2 DEF BuildEnvironment, BuildFails, ModelInv, ModelTypeOK, model, history
    <2>2. pc = "environment" /\ pc' \in {"run", "exit"} /\ phase' = phase
      BY <1>2 DEF BuildEnvironment, BuildFails
    <2>3. RunInv' /\ EarlyInv'
      <3>1. CASE phase = "train"
        BY <1>2, <2>2, <3>1, TrainedLater DEF BuildEnvironment, BuildFails, ModelInv,
            ModelTypeOK, RunInv, EarlyInv, model
      <3>2. CASE phase # "train"
        BY <1>2, <2>2, <3>2 DEF BuildEnvironment, BuildFails, ModelInv, RunInv, EarlyInv, model
      <3> QED  BY <3>1, <3>2
    <2> QED  BY <2>1, <2>3 DEF ModelInv
  <1>3. CASE Run \/ RunFails
    <2>1. PICK value \in Values \cup {NaN, None} : runtime' = Reported(runtime, value, config)
      BY <1>3 DEF Run, RunFails
    <2>2. /\ weights' \in {weights, Trained} /\ early' = early /\ pc = "run" /\ pc' = "exit"
          /\ phase' = phase /\ UNCHANGED history
      BY <1>3 DEF Run, RunFails
    <2>3. runtime' \in Runtimes /\ runtime'.iter = runtime.iter /\ runtime'.stop = runtime.stop
      BY <2>1, ReportIsTyped
    <2>4. CASE phase = "train"
      <3>1. runtime.iter \in Iters /\ TrainedBefore(weights, runtime.iter) /\ weights \in Weights
        BY <2>2, <2>4 DEF ModelInv, ModelTypeOK, RunInv
      <3>2. weights' \in Weights /\ TrainedBefore(weights', runtime.iter + 1)
        BY <2>2, <2>4, <3>1, TrainedMore, TrainedLater DEF Trained
      <3>3. ModelTypeOK'
        BY <2>2, <2>3, <3>2 DEF ModelInv, ModelTypeOK, history
      <3>4. RunInv'
        BY <2>2, <2>3, <2>4, <3>2 DEF ModelInv, RunInv
      <3>5. EarlyInv'
        BY <2>2, <2>3, <2>4 DEF ModelInv, EarlyInv
      <3> QED  BY <3>3, <3>4, <3>5 DEF ModelInv
    <2>5. CASE phase # "train"
      <3>1. weights' = weights
        BY <2>2, <2>5 DEF Trained
      <3>2. ModelTypeOK'
        BY <2>2, <2>3, <3>1 DEF ModelInv, ModelTypeOK, history
      <3>3. RunInv' /\ EarlyInv'
        BY <2>2, <2>3, <2>5, <3>1 DEF ModelInv, RunInv, EarlyInv
      <3> QED  BY <3>2, <3>3 DEF ModelInv
    <2> QED  BY <2>4, <2>5
  <1>4. CASE ExitSeeds \/ ExitFails
    <2>1. ModelTypeOK'
      BY <1>4 DEF ExitSeeds, ExitFails, ModelInv, ModelTypeOK, model, history
    <2>2. pc = "exit" /\ pc' \in {"idle", EndHook[phase]} /\ UNCHANGED model
      BY <1>4 DEF ExitSeeds, ExitFails
    <2>3. phase \in {"train", "validation", "test"}
      BY DEF DriverInv, DriverTypeOK
    <2>4. RunInv' /\ EarlyInv'
      BY <2>2, <2>3 DEF EndHook, ModelInv, RunInv, EarlyInv, model
    <2> QED  BY <2>1, <2>4 DEF ModelInv
  <1> QED  BY <1>1, <1>2, <1>3, <1>4 DEF InPhaseSteps

\* A save reads the trainer and leaves it alone.
LEMMA SavingKeepsModel ==
  ASSUME DriverInv, ModelInv, Saving PROVE ModelInv'
  <1> USE DEF InFit, InBody, InPhase, BodyHooks, AfterTraining, Reached
  <1>1. ModelTypeOK' /\ UNCHANGED model
    BY DEF Saving, SaveBegins, Save, SaveFails, Saved, SaveFailed, ModelInv, ModelTypeOK,
        model, history
  <1>2. CASE pc' = pc /\ phase' = phase
    BY <1>1, <1>2 DEF ModelInv, RunInv, EarlyInv, model
  <1>3. CASE pc' = "idle"
    BY <1>1, <1>3, IdleModel
  <1>4. CASE pc = "iter_end" /\ pc' = "loop"
    BY <1>1, <1>4 DEF ModelInv, RunInv, EarlyInv, model
  <1>5. (pc' = pc /\ phase' = phase) \/ pc' = "idle" \/ (pc = "iter_end" /\ pc' = "loop")
    BY DEF Saving, SaveBegins, Save, SaveFails, Saved, SaveFailed, process, After, Goto, Return
  <1> QED  BY <1>2, <1>3, <1>4, <1>5

\* The state of a new trainer and a new callback.
LEMMA FreshModelIsTyped ==
  RuntimeNew \in Runtimes /\ EarlyUnset \in Earlies
  BY DEF RuntimeNew, Runtimes, NoMetric, Metrics, EarlyUnset, Earlies

\* A process that is started anew has a new trainer.
LEMMA CrashKeepsModel ==
  ASSUME Crash PROVE ModelInv'
  <1>1. ModelTypeOK'
    BY FreshModelIsTyped, NothingTrained DEF Crash, ModelTypeOK
  <1> QED  BY <1>1, IdleModel DEF Crash

\* The first process has a new trainer.
LEMMA InitModel == Init => ModelInv
  <1> SUFFICES ASSUME Init PROVE ModelInv
    OBVIOUS
  <1>1. ModelTypeOK
    BY FreshModelIsTyped, NothingTrained DEF Init, ProcessInit, ModelTypeOK
  <1>2. pc = "idle"  BY DEF Init
  <1> QED  BY <1>1, <1>2 DEF ModelInv, RunInv, EarlyInv, InFit, InBody, InPhase, BodyHooks

\* Every step keeps the trainer in order.
LEMMA NextKeepsModel ==
  ASSUME DriverInv, ModelInv, StorageInv, Next PROVE ModelInv'
  BY NextCases, BeginsKeepModel, OthersKeepModel, PhasesKeepModel, SavingKeepsModel,
      CrashKeepsModel

-----------------------------------------------------------------------------
(* The checkpoint directory.                                               *)

\* A step that leaves the checkpoints alone leaves them in order.
LEMMA StorageUntouched == StorageInv /\ UNCHANGED checkpointVars => StorageInv'
  BY DEF StorageInv, StorageTypeOK, SaverInv, DiskInv, LatestContent, checkpointVars, disk

\* The callback changes its step only, to one at which nothing is promised.
LEMMA PromisesNothing ==
  ASSUME StorageInv, UNCHANGED disk, saver' \in [step : SaverSteps,
      lastIter : Iters \cup {None}, lastTime : BOOLEAN,
                graph : Graphs \cup {None}], saver'.step \notin Writing
  PROVE  StorageInv'
  BY DEF StorageInv, StorageTypeOK, SaverInv, DiskInv, disk, Writing

\* What a callback saves in its hooks is of the current iteration.
LEMMA GraphIsGood ==
  ASSUME ModelInv, pc \in {"iter_end", "fit_end"}
  PROVE  Good(Graph) /\ Graph.runtime.iter = runtime.iter /\ runtime.iter \in Iters
  <1>1. /\ runtime.stop \in BOOLEAN /\ runtime.iter \in Iters
        /\ TrainedBefore(weights, runtime.iter)
    BY DEF ModelInv, RunInv, InFit, InBody, InPhase, BodyHooks, AfterTraining, Reached
  <1> QED  BY <1>1 DEF Good, Graph, Graphs, ModelInv, ModelTypeOK

SaverType == [step : SaverSteps, lastIter : Iters \cup {None}, lastTime : BOOLEAN,
              graph : Graphs \cup {None}]
\* Going to another step of a save keeps the graph until the save is over.
LEMMA ToIsTyped ==
  ASSUME saver \in SaverType, NEW step \in SaverSteps, To(step)
  PROVE  /\ saver' \in SaverType /\ saver'.step = step /\ saver'.lastIter = saver.lastIter
         /\ step \notin {"done", "failed"} => saver'.graph = saver.graph
  BY DEF SaverType, To, SaverSteps

\* A graph is none of the other contents.
LEMMA GraphsAreComplete == \A g \in Graphs : Complete(g) /\ g # None /\ g # Broken
  BY GraphAssumption DEF Complete

\* The steps of a save that succeed, one by one.
LEMMA SaveKeepsStorage ==
  ASSUME DriverInv, ModelInv, StorageInv, Save PROVE StorageInv'
  <1> USE DEF Writing, SaverSteps
  <1>0. saver \in SaverType
    BY DEF StorageInv, StorageTypeOK, SaverType
  <1>1. CASE Note(runtime.iter, Graph)
    <2>1. pc \in {"iter_end", "fit_end"}
      BY <1>1 DEF Note, DriverInv, Waits
    <2>2. Good(Graph) /\ Graph \in Graphs /\ Graph.runtime.iter = runtime.iter
        /\ runtime.iter \in Iters
      BY <2>1, GraphIsGood DEF Good
    <2> QED  BY <1>1, <2>2 DEF Note, StorageInv, StorageTypeOK, SaverInv, DiskInv, disk
  <1>2. CASE CreateFile
    <2>1. saver' \in SaverType /\ saver'.step = "encode" /\ saver'.lastIter = saver.lastIter
        /\ saver'.graph = saver.graph
      BY <1>0, <1>2, ToIsTyped DEF CreateFile
    <2>2. /\ files' = [files EXCEPT ![saver.lastIter] = Broken] /\ latest' = latest
          /\ Good(saver.graph) /\ saver.graph.runtime.iter = saver.lastIter
              /\ saver.lastIter \in Iters
      BY <1>2 DEF CreateFile, StorageInv, SaverInv, Good
    <2>3. StorageTypeOK'
      BY <2>1, <2>2 DEF StorageInv, StorageTypeOK, SaverType, Contents
    <2>4. SaverInv'
      BY <2>1, <2>2, CheckpointsAssumption DEF StorageInv, StorageTypeOK, SaverInv
    <2>5. DiskInv'
      BY <2>1, <2>2, CheckpointsAssumption DEF StorageInv, StorageTypeOK, DiskInv, Complete
    <2> QED  BY <2>3, <2>4, <2>5 DEF StorageInv
  <1>3. CASE EncodeFile(config)
    <2>1. /\ saver' \in SaverType /\ saver'.step \in {"done", "remove"}
          /\ saver'.lastIter = saver.lastIter
          /\ saver'.step = "remove" => saver'.graph = saver.graph
      BY <1>0, <1>3, ToIsTyped DEF EncodeFile
    <2>2. /\ files' = [files EXCEPT ![saver.lastIter] = saver.graph] /\ latest' = latest
          /\ Good(saver.graph) /\ saver.graph.runtime.iter = saver.lastIter
          /\ saver.lastIter \in Iters /\ saver.graph \in Graphs
      BY <1>3 DEF EncodeFile, StorageInv, SaverInv, Good
    <2>3. StorageTypeOK'
      BY <2>1, <2>2 DEF StorageInv, StorageTypeOK, SaverType, Contents
    <2>4. SaverInv'
      BY <2>1, <2>2, GraphsAreComplete DEF StorageInv, StorageTypeOK, SaverInv
    <2>5. DiskInv'
      BY <2>1, <2>2, GraphsAreComplete DEF StorageInv, StorageTypeOK, DiskInv
    <2> QED  BY <2>3, <2>4, <2>5 DEF StorageInv
  <1>4. CASE RemoveLatest(config)
    <2>1. /\ saver' \in SaverType /\ saver'.step \in {"done", "link", "copy"}
          /\ saver'.lastIter = saver.lastIter
          /\ saver'.step # "done" => saver'.graph = saver.graph
      BY <1>0, <1>4, ToIsTyped DEF RemoveLatest
    <2>2. files' = files /\ latest' = IF Present THEN Absent ELSE latest
      BY <1>4 DEF RemoveLatest
    <2>3. latest'.kind = "absent"
      BY <2>2 DEF Present, Existing, LatestContent, Absent, StorageInv, StorageTypeOK, DiskInv
    <2>4. StorageTypeOK' /\ (latest'.content = latest.content \/ latest'.content = None)
      BY <2>1, <2>2 DEF StorageInv, StorageTypeOK, SaverType, Absent, Contents
    <2>5. SaverInv'
      BY <2>1, <2>2, <2>3, <1>4 DEF StorageInv, SaverInv, RemoveLatest
    <2>6. DiskInv'
      BY <2>2, <2>3, <2>4 DEF StorageInv, DiskInv, Complete
    <2> QED  BY <2>4, <2>5, <2>6 DEF StorageInv
  <1>5. CASE Link(config)
    <2>1. saver.step = "link" /\ files' = files /\ saver.lastIter \in Iters
        /\ files[saver.lastIter] # None
      BY <1>5 DEF Link, StorageInv, SaverInv, Good
    <2>2. Free
      BY <2>1 DEF Free, StorageInv, SaverInv
    <2>3. saver' \in SaverType /\ saver'.step = "done"
      BY <1>0, <1>5, <2>2, ToIsTyped DEF Link
    <2>4. latest' = LinkTo(saver.lastIter, config.absolute) /\ config.absolute \in BOOLEAN
      BY <1>5, <2>2, ConfigAssumption DEF Link, ConfigTypes, DriverInv, DriverTypeOK
    <2>5. StorageTypeOK'
      BY <2>1, <2>3, <2>4 DEF StorageInv, StorageTypeOK, SaverType, LinkTo, Contents
    <2>6. SaverInv'
      BY <2>3 DEF SaverInv
    <2>7. DiskInv'
      BY <2>1, <2>4 DEF StorageInv, DiskInv, LinkTo, Complete
    <2> QED  BY <2>5, <2>6, <2>7 DEF StorageInv
  <1>6. CASE OpenCopy
    <2>1. saver.step = "copy" /\ latest.kind = "absent" /\ files' = files
        /\ latest' = FileOf(Broken)
      BY <1>6 DEF OpenCopy, Put, Through, StorageInv, SaverInv
    <2>2. saver' \in SaverType /\ saver'.step = "fill" /\ saver'.lastIter = saver.lastIter
        /\ saver'.graph = saver.graph
      BY <1>0, <1>6, ToIsTyped DEF OpenCopy
    <2>3. StorageTypeOK'
      BY <2>1, <2>2 DEF StorageInv, StorageTypeOK, SaverType, FileOf, Contents
    <2>4. SaverInv'
      BY <2>1, <2>2 DEF StorageInv, SaverInv, FileOf
    <2>5. DiskInv'
      BY <2>1, CheckpointsAssumption DEF StorageInv, DiskInv, FileOf, Complete
    <2> QED  BY <2>3, <2>4, <2>5 DEF StorageInv
  <1>7. CASE FillCopy
    <2>1. /\ saver.step = "fill" /\ latest.kind = "file" /\ files' = files
          /\ latest' = FileOf(saver.graph) /\ Good(saver.graph) /\ saver.graph \in Graphs
      BY <1>7 DEF FillCopy, Put, Through, StorageInv, SaverInv, Good
    <2>2. saver' \in SaverType /\ saver'.step = "done"
      BY <1>0, <1>7, ToIsTyped DEF FillCopy
    <2>3. StorageTypeOK'
      BY <2>1, <2>2 DEF StorageInv, StorageTypeOK, SaverType, FileOf, Contents
    <2>4. SaverInv'
      BY <2>2 DEF SaverInv
    <2>5. DiskInv'
      BY <2>1, GraphsAreComplete DEF StorageInv, DiskInv, FileOf, Complete
    <2> QED  BY <2>3, <2>4, <2>5 DEF StorageInv
  <1> QED  BY <1>1, <1>2, <1>3, <1>4, <1>5, <1>6, <1>7 DEF Save

\* Every step keeps the directory in order.
LEMMA NextKeepsStorage ==
  ASSUME DriverInv, ModelInv, StorageInv, Next PROVE StorageInv'
  <1> USE DEF SaverSteps, Writing
  <1>0. saver \in SaverType
    BY DEF StorageInv, StorageTypeOK, SaverType
  <1>1. CASE Begins
    BY <1>1, StorageUntouched DEF Begins, FitFresh, FitRestored, FitBroken, FitFails, Test
  <1>2. CASE InPhaseSteps
    BY <1>2, StorageUntouched DEF InPhaseSteps, EnterSeeds, BuildEnvironment, BuildFails, Run,
         RunFails, ExitSeeds, ExitFails
  <1>3. CASE Others
    BY <1>3, StorageUntouched DEF Others, FitStart, StartIteration, StartTraining,
         FinishIteration, Stop, TestEnd, EndTraining, ZeroInterval, Unmonitored, EarlyStop,
         CallbackFails, EarlyFails, NoSave
  <1>4. CASE Save
    BY <1>4, SaveKeepsStorage
  <1>5. CASE SaveFails
    <2>1. UNCHANGED disk /\ saver' \in SaverType /\ saver'.step = "failed"
      <3>1. CASE StorageFails
        BY <1>0, <3>1, ToIsTyped DEF StorageFails
      <3>2. CASE NoteFails(runtime.iter)
        <4>1. runtime.iter \in Iters
          BY <3>2 DEF NoteFails, DriverInv, Waits, ModelInv, RunInv, InFit
        <4> QED  BY <1>0, <3>2, <4>1 DEF NoteFails, SaverType
      <3> QED  BY <1>5, <3>1, <3>2 DEF SaveFails
    <2> QED  BY <2>1, PromisesNothing DEF SaverType
  <1>6. CASE SaveBegins \/ Saved \/ SaveFailed
    <2>1. UNCHANGED disk /\ saver' \in SaverType /\ saver'.step \in {"note", "off"}
      BY <1>0, <1>6 DEF SaveBegins, Saved, SaveFailed, BeginSave, SaveReturned, SaverType
    <2> QED  BY <2>1, PromisesNothing DEF SaverType
  <1>7. CASE Crash
    <2>1. UNCHANGED disk /\ saver' \in SaverType /\ saver'.step = "off"
      BY <1>7 DEF Crash, SaverNew, SaverType
    <2> QED  BY <2>1, PromisesNothing DEF SaverType
  <1> QED  BY <1>1, <1>2, <1>3, <1>4, <1>5, <1>6, <1>7, NextCases DEF Saving

\* At first the directory is empty.
LEMMA InitStorage == Init => StorageInv
  <1> SUFFICES ASSUME Init PROVE StorageInv
    OBVIOUS
  <1>1. /\ files = [n \in Iters |-> None] /\ latest = Absent /\ saver = SaverNew
    BY DEF Init, DiskInit, ProcessInit
  <1> QED
    BY <1>1 DEF StorageInv, StorageTypeOK, SaverInv, DiskInv, Absent, SaverNew, Complete,
               Contents, SaverSteps, Writing

IInv == DriverInv /\ ModelInv /\ StorageInv
\* The places, the trainer and the directory are in order in every state, for any
\* number of calls, faults and crashes.
THEOREM ModelInvariant == Spec => []IInv
  <1>1. Init => IInv
    BY InitDriver, InitModel, InitStorage DEF IInv
  <1>2. IInv /\ [Next]_vars => IInv'
    <2>1. IInv /\ Next => IInv'
      BY NextKeepsDriver, NextKeepsModel, NextKeepsStorage DEF IInv
    <2>2. IInv /\ UNCHANGED vars => IInv'
      <3> SUFFICES ASSUME IInv, UNCHANGED vars PROVE IInv'
        OBVIOUS
      <3>1. DriverInv'
        BY DEF vars, process, checkpointVars, DriverInv, DriverTypeOK, SeedsReleased, Waits, IInv
      <3>2. ModelInv'
        BY DEF vars, process, model, history, ModelInv, ModelTypeOK, RunInv, EarlyInv, InFit,
            InBody,
               InPhase, BodyHooks, AfterTraining, Reached, IInv
      <3>3. StorageInv'
        BY StorageUntouched DEF vars, IInv
      <3> QED  BY <3>1, <3>2, <3>3 DEF IInv
    <2> QED  BY <2>1, <2>2
  <1> QED  BY <1>1, <1>2, PTL DEF Spec

\* From one fit without a checkpoint to the next, no iteration trains the same
\* weights twice, over every crash, restore, failure and early stop, for any
\* number of them, and whatever had trained the weights before.
THEOREM IterationsTrainOnce == Spec => []TrainedOnce
  <1>1. IInv => TrainedOnce
    <2> SUFFICES ASSUME IInv PROVE TrainedOnce
      OBVIOUS
    <2>1. pc \in {"loop", "iter_start", "train_start"} => TrainedBefore(weights, runtime.iter)
      BY DEF IInv, ModelInv, RunInv, InFit, InBody, InPhase, BodyHooks, AfterTraining, Reached
    <2>2. \A n \in Iters : Complete(files[n]) => TrainedBefore(files[n].weights, n)
      BY DEF IInv, StorageInv, DiskInv, Good
    <2> QED  BY <2>1, <2>2 DEF TrainedOnce
  <1> QED  BY ModelInvariant, <1>1, PTL

\* A checkpoint holds the iteration it is named after; latest.pth leads to one.
THEOREM NamesAlwaysHold == Spec => []NamesHold
  <1>1. IInv => NamesHold
    <2> SUFFICES ASSUME IInv PROVE NamesHold
      OBVIOUS
    <2>1. \A n \in Iters : Complete(files[n]) => files[n].runtime.iter = n
      BY DEF IInv, StorageInv, DiskInv
    <2>2. latest.kind = "link" => latest.iter \in Iters /\ files[latest.iter] # None
      BY DEF IInv, StorageInv, DiskInv
    <2>3. None \notin Iters
      <3>1. \A n \in Iters : n \in Int  BY CheckpointsAssumption
      <3> QED  BY <3>1, EarlyAssumption, Zenon
    <2> QED  BY <2>1, <2>2, <2>3 DEF NamesHold
  <1> QED  BY ModelInvariant, <1>1, PTL

-----------------------------------------------------------------------------
(* Faults and the other budgets.                                           *)

BudgetInv == fits \in Nat /\ faults \in Nat /\ crashes \in Nat /\ FaultInv

\* A step that brings a failure uses up a fault.
LEMMA NextKeepsBudget ==
  ASSUME IInv, BudgetInv, Next PROVE BudgetInv'
  <1> USE DEF BudgetInv, FaultInv
  <1>0. faults <= MaxFaults /\ MaxFaults \in Nat /\ failed \in BOOLEAN
    BY TrainerAssumption DEF IInv, DriverInv, DriverTypeOK
  \* A step without a fault brings no new failure.
  <1>a. ASSUME UNCHANGED faults, fits' \in Nat, crashes' \in Nat, failed' => failed,
               result' = "error" => failed \/ result = "error" \/ saver.step = "failed",
               saver'.step = "failed" => saver.step = "failed"
        PROVE  BudgetInv'
    BY <1>a, <1>0
  \* A step with one has used one.
  <1>b. ASSUME Fault PROVE BudgetInv'
    BY <1>b, <1>0 DEF Fault
  <1>1. CASE Begins
    <2>1. CASE FitFails
      BY <2>1, <1>0 DEF FitFails
    <2>2. CASE FitFresh \/ FitRestored \/ FitBroken \/ Test
      BY <2>2, <1>a DEF FitFresh, FitRestored, FitBroken, Test, Call, Goto, Return, checkpointVars
    <2> QED  BY <1>1, <2>1, <2>2 DEF Begins
  <1>2. CASE InPhaseSteps
    <2>1. CASE BuildFails \/ RunFails \/ ExitFails
      BY <2>1, <1>b DEF BuildFails, RunFails, ExitFails
    <2>2. CASE EnterSeeds \/ BuildEnvironment \/ Run
      BY <2>2, <1>a DEF EnterSeeds, BuildEnvironment, Run, budgets, checkpointVars
    <2>3. CASE ExitSeeds
      <3>1. UNCHANGED budgets /\ UNCHANGED checkpointVars /\ failed' = FALSE
            /\ (result' = result \/ failed)
        BY <2>3, <1>0 DEF ExitSeeds
      <3> QED  BY <3>1, <1>a DEF budgets, checkpointVars
    <2> QED  BY <1>2, <2>1, <2>2, <2>3 DEF InPhaseSteps
  <1>3. CASE Others
    <2>1. CASE CallbackFails \/ EarlyFails
      BY <2>1, <1>b DEF CallbackFails, EarlyFails
    <2>2. CASE ZeroInterval \/ TestEnd
      BY <2>2, <1>a DEF ZeroInterval, TestEnd, Return, budgets, checkpointVars
    <2>3. CASE NoSave
      BY <2>3, <1>a DEF NoSave, After, Goto, Return, budgets, checkpointVars
    <2>4. CASE FitStart \/ StartIteration \/ StartTraining \/ FinishIteration \/ Stop
      BY <2>4, <1>a DEF FitStart, StartIteration, StartTraining, FinishIteration, Stop, Goto,
          budgets, checkpointVars
    <2>5. CASE EndTraining \/ Unmonitored \/ EarlyStop
      BY <2>5, <1>a DEF EndTraining, Unmonitored, EarlyStop, Goto, budgets, checkpointVars
    <2> QED  BY <1>3, <2>1, <2>2, <2>3, <2>4, <2>5 DEF Others
  <1>4. CASE Save
    <2>1. UNCHANGED budgets /\ UNCHANGED process
      BY <1>4 DEF Save
    <2>2. saver'.step # "failed"
      <3> USE DEF SaverSteps, Writing
      <3>0. saver \in SaverType
        BY DEF IInv, StorageInv, StorageTypeOK, SaverType
      <3>1. CASE Note(runtime.iter, Graph)
        BY <3>1 DEF Note
      <3>2. CASE CreateFile \/ EncodeFile(config) \/ OpenCopy \/ FillCopy
        BY <3>0, <3>2, ToIsTyped DEF CreateFile, EncodeFile, OpenCopy, FillCopy
      <3>3. CASE RemoveLatest(config)
        BY <3>0, <3>3, ToIsTyped DEF RemoveLatest
      <3>4. CASE Link(config)
        <4>1. Free
          BY <3>4 DEF Link, Free, IInv, StorageInv, SaverInv
        <4> QED  BY <3>0, <3>4, <4>1, ToIsTyped DEF Link
      <3> QED  BY <1>4, <3>1, <3>2, <3>3, <3>4 DEF Save
    <2> QED  BY <2>1, <2>2, <1>a DEF budgets, process
  <1>5. CASE SaveFails
    BY <1>5, <1>b DEF SaveFails
  <1>6. CASE SaveBegins \/ Saved \/ SaveFailed
    <2>0. "step" \in DOMAIN saver
      BY DEF IInv, DriverInv, Waits
    <2>1. CASE SaveBegins
      BY <2>0, <2>1, <1>a DEF SaveBegins, BeginSave, budgets, process
    <2>2. CASE Saved
      BY <2>0, <2>2, <1>a DEF Saved, SaveReturned, After, Goto, Return, budgets
    <2>3. CASE SaveFailed
      BY <2>0, <2>3, <1>a DEF SaveFailed, SaveReturned, Return, budgets
    <2> QED  BY <1>6, <2>1, <2>2, <2>3
  <1>7. CASE Crash
    BY <1>7, <1>a DEF Crash, SaverNew
  <1> QED  BY <1>1, <1>2, <1>3, <1>4, <1>5, <1>6, <1>7, NextCases DEF Saving

\* A failed phase, call or save has used up a fault.
THEOREM BudgetInvariant == Spec => []BudgetInv
  <1>1. Init => BudgetInv
    BY TrainerAssumption DEF Init, ProcessInit, SaverNew, BudgetInv, FaultInv
  <1>2. IInv /\ BudgetInv /\ [Next]_vars => BudgetInv'
    BY NextKeepsBudget DEF vars, process, budgets, checkpointVars, BudgetInv, FaultInv
  <1> QED  BY ModelInvariant, <1>1, <1>2, PTL DEF Spec

\* A call fails only where something failed.
THEOREM FaultsFail == Spec => []OnlyFaultsFail
  <1>1. BudgetInv => OnlyFaultsFail
    BY DEF BudgetInv, FaultInv, OnlyFaultsFail
  <1> QED  BY BudgetInvariant, <1>1, PTL

\* The type invariant of the run.
THEOREM TrainerIsTyped == Spec => []TrainerTypeOK
  <1>1. IInv /\ BudgetInv => TrainerTypeOK
    BY DEF IInv, BudgetInv, DriverInv, DriverTypeOK, Outside, Results, ModelInv,
           ModelTypeOK, StorageInv, StorageTypeOK, TrainerTypeOK
  <1> QED  BY ModelInvariant, BudgetInvariant, <1>1, PTL

-----------------------------------------------------------------------------
(* What early stopping compares.                                           *)

\* A step that neither measures nor begins a part of the iteration.
LEMMA StageKept ==
  ASSUME StageInv, config' = config, runtime'.iter = runtime.iter,
      runtime'.monitored = runtime.monitored,
         InBody' => InBody,
         ~(pc' = "train_start" \/ (InPhase' /\ phase' = "train")) \/ runtime'.stage = "train",
         ~(pc' = "validate_start" \/ (InPhase' /\ phase' = "validation"))
             \/ runtime'.stage = "val"
  PROVE  StageInv'
  BY DEF StageInv, Monitored

\* Every step keeps the stage and the monitored metric together.
LEMMA NextKeepsStage ==
  ASSUME DriverInv, ModelInv, StageInv, Next PROVE StageInv'
  <1> USE DEF InBody, InPhase, BodyHooks
  <1>0. runtime \in Runtimes
    BY DEF ModelInv, ModelTypeOK
  <1>1. ASSUME pc' \in {"idle", "fit_start", "test_start", "loop", "fit_end", "iter_end",
      "test_end"}
        PROVE  StageInv'
    BY <1>1 DEF StageInv
  <1>2. CASE Begins
    BY <1>1, <1>2 DEF Begins, FitFresh, FitRestored, FitBroken, FitFails, Test, Goto, Return
  <1>3. CASE FitStart \/ FinishIteration \/ Stop \/ TestEnd \/ ZeroInterval \/ CallbackFails
             \/ EarlyFails \/ NoSave \/ Saved \/ SaveFailed \/ ExitFails \/ Crash
    BY <1>1, <1>3 DEF FitStart, FinishIteration, Stop, TestEnd, ZeroInterval, CallbackFails,
         EarlyFails, NoSave, Saved, SaveFailed, ExitFails, Crash, After, Goto, Return
  <1>4. CASE StartIteration
    BY <1>0, <1>4 DEF StartIteration, Goto, Cleared, NoMetric, StageInv, Monitored, Runtimes
  <1>5. CASE StartTraining
    BY <1>0, <1>5, StageKept DEF StartTraining, Goto, Runtimes
  <1>6. CASE EndTraining
    BY <1>0, <1>6, StageKept DEF EndTraining, Goto, Runtimes
  <1>7. CASE Unmonitored
    BY <1>7, StageKept DEF Unmonitored, Goto, model
  <1>8. CASE EarlyStop
    BY <1>0, <1>8, StageKept DEF EarlyStop, Goto, Runtimes
  <1>9. CASE EnterSeeds
    BY <1>9, StageKept DEF EnterSeeds, Phases, model, StageInv
  <1>10. CASE BuildEnvironment \/ BuildFails
    BY <1>10, StageKept DEF BuildEnvironment, BuildFails, model, StageInv
  <1>11. CASE Run \/ RunFails
    <2>1. PICK value \in Values \cup {NaN, None} : runtime' = Reported(runtime, value, config)
      BY <1>11 DEF Run, RunFails
    <2>2. pc = "run" /\ pc' = "exit" /\ phase' = phase /\ config' = config
      BY <1>11 DEF Run, RunFails
    <2>3. config.monitor \in {"reward", "val/reward"}
      BY ConfigAssumption DEF DriverInv, DriverTypeOK, ConfigTypes
    <2>4. phase \in {"train", "validation", "test"}
      BY DEF DriverInv, DriverTypeOK
    <2>5. CASE runtime' = runtime
      BY <2>2, <2>5, StageKept DEF StageInv
    <2>6. CASE /\ (runtime.stage = "val") = (config.monitor = "val/reward")
               /\ runtime' = [runtime EXCEPT !.monitored = [value |-> value, phase |-> phase,
                   iter |-> runtime.iter]]
      <3>1. /\ runtime'.stage = runtime.stage /\ runtime'.iter = runtime.iter
            /\ runtime'.monitored = [value |-> value, phase |-> phase, iter |-> runtime.iter]
        BY <1>0, <2>6 DEF Runtimes
      <3>2. phase # "test" => phase = IF config.monitor = "reward" THEN "train" ELSE "validation"
        BY <2>2, <2>3, <2>4, <2>6 DEF StageInv
      <3> QED  BY <2>2, <2>4, <3>1, <3>2 DEF StageInv, Monitored
    <2> QED  BY <2>1, <2>5, <2>6 DEF Reported
  <1>12. CASE ExitSeeds
    <2>1. pc = "exit" /\ pc' \in {"idle", EndHook[phase]} /\ UNCHANGED model
      BY <1>12 DEF ExitSeeds
    <2>2. pc' # "idle" => config' = config /\ phase' = phase
      BY <1>12 DEF ExitSeeds
    <2>3. phase \in {"train", "validation", "test"}
      BY DEF DriverInv, DriverTypeOK
    <2>4. CASE pc' \in {"idle", "test_end"}
      BY <2>4, <1>1
    <2>5. CASE pc' = EndHook[phase] /\ phase # "test" /\ pc' # "idle"
      BY <2>1, <2>2, <2>3, <2>5, StageKept DEF EndHook, model
    <2> QED  BY <2>1, <2>3, <2>4, <2>5 DEF EndHook
  <1>13. CASE SaveBegins \/ Save \/ SaveFails
    BY <1>13, StageKept DEF SaveBegins, Save, SaveFails, process, model, StageInv
  <1> QED
    BY <1>2, <1>3, <1>4, <1>5, <1>6, <1>7, <1>8, <1>9, <1>10, <1>11, <1>12, <1>13, NextCases
    DEF InPhaseSteps, Others, Saving

\* What early stopping compares belongs to this iteration and to the right
\* phase, for any monitor, interval and suppressed error.
THEOREM MonitorStaysCurrent == Spec => []MonitorIsCurrent
  <1>1. Init => StageInv
    BY DEF Init, ProcessInit, StageInv, InBody, InPhase, BodyHooks
  <1>2. IInv /\ StageInv /\ [Next]_vars => StageInv'
    <2>1. IInv /\ StageInv /\ Next => StageInv'
      BY NextKeepsStage DEF IInv
    <2>2. StageInv /\ UNCHANGED vars => StageInv'
      BY DEF vars, process, model, StageInv, InBody, InPhase, BodyHooks, Monitored
    <2> QED  BY <2>1, <2>2
  <1>3. StageInv => MonitorIsCurrent
    BY DEF StageInv, InBody, BodyHooks, MonitorIsCurrent
  <1> QED  BY ModelInvariant, <1>1, <1>2, <1>3, PTL DEF Spec

-----------------------------------------------------------------------------
(* What an early stop leaves in the vessel.                                *)

\* The best weights stay best while nothing is validated.
LEMMA BestKept ==
  ASSUME BestInv, seen' = seen, early' = early, config' = config, InFit' => InFit,
         \/ pc' # "finish" \/ ~runtime'.stop
         \/ pc' = pc /\ weights' = weights /\ runtime' = runtime
  PROVE  BestInv'
  BY DEF BestInv

\* After a better value, no earlier one improves on it.
LEMMA BetterBeatsAll ==
  ASSUME NEW v \in Values, NEW best \in Values, NEW x \in Values \cup {NaN},
         Improves(v, best), ~Improves(x, best)
  PROVE  ~Improves(x, v)
  <1>1. v \in Int /\ best \in Int /\ MinDelta \in Nat /\ best # Lowest /\ v # Lowest
    BY EarlyAssumption
  <1>2. v - MinDelta > best
    BY <1>1 DEF Improves
  <1>3. CASE x = NaN
    BY <1>3 DEF Improves
  <1>4. CASE x \in Values /\ x # NaN
    <2>1. x \in Int  BY <1>4, EarlyAssumption
    <2>2. ~(x - MinDelta > best)
      BY <1>4 DEF Improves
    <2>3. ~(x - MinDelta > v)
      BY <1>1, <1>2, <2>1, <2>2
    <2> QED  BY <1>1, <2>3 DEF Improves
  <1> QED  BY <1>3, <1>4

\* A validation keeps the best weights of those seen.
LEMMA JudgingKeepsTheBest ==
  ASSUME ModelInv, BestInv, EarlyStop, config.restoreBest PROVE BestInv'
  <1> DEFINE v == Monitored
             last == Len(seen) + 1
  <1>0. InFit
    BY DEF EarlyStop, InFit, InBody, BodyHooks
  <1>1. /\ v \in Values \cup {NaN} /\ v # None /\ weights \in Weights /\ weights # None
        /\ early.best \in Values \cup {Lowest} /\ runtime.stop = FALSE
    BY GraphAssumption DEF EarlyStop, ModelInv, ModelTypeOK, RunInv, EarlyInv, InFit, InBody,
        BodyHooks,
       Monitored, Runtimes, Metrics
  <1>2. /\ seen \in Seq([value : Values \cup {NaN}, weights : Weights])
        /\ seen' = Append(seen, [value |-> v, weights |-> weights])
        /\ early' = Judged /\ config' = config /\ pc' = "finish"
        /\ runtime'.stop => Ends
        /\ Ends => weights' = Judged.bestWeights
    BY <1>1 DEF EarlyStop, Goto, ModelInv, ModelTypeOK, Runtimes
  <1>3. /\ Len(seen') = last /\ last \in Nat \ {0} /\ Len(seen) \in Nat
        /\ \A i \in 1 .. Len(seen) : seen'[i] = seen[i] /\ seen[i].value \in Values \cup {NaN}
        /\ seen'[last] = [value |-> v, weights |-> weights]
        /\ seen' # <<>>
    <2> DEFINE S == [value : Values \cup {NaN}, weights : Weights]
               r == [value |-> v, weights |-> weights]
    <2>1. seen \in Seq(S) /\ r \in S
      BY <1>1, <1>2
    <2> HIDE DEF S, r
    <2>2. seen' = Append(seen, r)
      BY <1>2 DEF r
    <2>3. /\ Len(Append(seen, r)) = last /\ last \in Nat \ {0} /\ Len(seen) \in Nat
          /\ Append(seen, r)[last] = r /\ Append(seen, r) # <<>>
      BY <2>1
    <2>4. \A i \in 1 .. Len(seen) : Append(seen, r)[i] = seen[i] /\ seen[i] \in S
      BY <2>1
    <2>5. \A x \in S : x.value \in Values \cup {NaN}
      BY DEF S
    <2> QED  BY <2>2, <2>3, <2>4, <2>5 DEF r
  <1>4. \A i \in 1 .. Len(seen') : i \in 1 .. Len(seen) \/ i = last
    BY <1>3
  <1>5. early'.bestWeights # None
    BY <1>1, <1>2, JudgedIsTyped DEF EarlyStop
  <1>6. Lowest \notin Values /\ NaN \notin Values
    BY EarlyAssumption
  <1>7. CASE Better(early, v)
    <2>1. v \in Values /\ early'.best = v /\ early'.bestWeights = weights
      BY <1>1, <1>2, <1>7 DEF Judged, EarlyValidated, Captures, Better, Improves
    <2>2. ASSUME NEW j \in 1 .. Len(seen') PROVE ~Improves(seen'[j].value, v)
      <3>1. CASE j = last
        BY <3>1, <1>3, <1>6, <2>1, EarlyAssumption DEF Improves
      <3>2. CASE j \in 1 .. Len(seen)
        <4>1. CASE early.best = Lowest
          BY <1>0, <1>3, <3>2, <4>1 DEF BestInv, Improves
        <4>2. CASE early.best \in Values
          <5>1. ~Improves(seen[j].value, early.best)
            BY <1>0, <1>6, <3>2, <4>2 DEF BestInv
          <5> QED
            BY <1>3, <1>7, <2>1, <3>2, <4>2, <5>1, BetterBeatsAll DEF Better
        <4> QED  BY <1>1, <4>1, <4>2
      <3> QED  BY <1>4, <3>1, <3>2
    <2>3. last \in 1 .. Len(seen') /\ seen'[last].value = early'.best
        /\ seen'[last].weights = early'.bestWeights
      BY <1>3, <2>1
    <2>4. early'.best # Lowest
      BY <1>6, <2>1
    <2> QED  BY <1>2, <1>3, <1>5, <2>1, <2>2, <2>3, <2>4 DEF BestInv
  <1>8. CASE ~Better(early, v)
    <2>1. early'.best = early.best
      BY <1>2, <1>8 DEF Judged, EarlyValidated
    <2>2. CASE early.best = Lowest
      <3>1. v = NaN
        BY <1>1, <1>8, <2>2 DEF Better, Improves
      <3>2. \A j \in 1 .. Len(seen') : seen'[j].value = NaN
        BY <1>0, <1>3, <1>4, <2>2, <3>1 DEF BestInv
      <3>3. early'.bestWeights = seen'[1].weights
        <4>1. CASE seen = <<>>
          <5>1. early'.bestWeights = weights
            BY <1>0, <1>2, <4>1 DEF BestInv, Judged, EarlyValidated, Captures
          <5> QED  BY <1>3, <4>1, <5>1
        <4>2. CASE seen # <<>>
          <5>1. early'.bestWeights = early.bestWeights
            BY <1>0, <1>2, <1>8, <4>2 DEF BestInv, Judged, EarlyValidated, Captures
          <5>2. 1 \in 1 .. Len(seen)
            BY <1>2, <1>3, <4>2
          <5> QED  BY <1>0, <1>3, <2>2, <4>2, <5>1, <5>2 DEF BestInv
        <4> QED  BY <4>1, <4>2
      <3> QED  BY <1>2, <1>3, <1>5, <2>1, <2>2, <3>2, <3>3 DEF BestInv
    <2>3. CASE early.best # Lowest
      <3>1. PICK i \in 1 .. Len(seen) : seen[i].value = early.best
          /\ seen[i].weights = early.bestWeights
        BY <1>0, <2>3 DEF BestInv
      <3>2. seen # <<>>
        BY <3>1
      <3>3. early'.bestWeights = early.bestWeights
        BY <1>0, <1>2, <1>8, <3>2 DEF BestInv, Judged, EarlyValidated, Captures
      <3>4. i \in 1 .. Len(seen') /\ seen'[i].value = early'.best
          /\ seen'[i].weights = early'.bestWeights
        BY <1>3, <2>1, <3>1, <3>3
      <3>5. \A j \in 1 .. Len(seen') : ~Improves(seen'[j].value, early'.best)
        BY <1>0, <1>3, <1>4, <1>8, <2>1, <2>3 DEF BestInv, Better
      <3> QED  BY <1>2, <1>3, <1>5, <2>1, <2>3, <3>4, <3>5 DEF BestInv
    <2> QED  BY <2>2, <2>3
  <1> QED  BY <1>7, <1>8

\* Every step keeps the best weights of those seen.
LEMMA NextKeepsBest ==
  ASSUME DriverInv, ModelInv, BestInv, Next PROVE BestInv'
  <1> USE DEF InFit, InBody, InPhase, BodyHooks
  <1>1. ASSUME pc' \in {"idle", "fit_start", "test_start", "test_end"}
        PROVE  BestInv'
    BY <1>1 DEF BestInv
  <1>2. CASE Begins
    BY <1>1, <1>2 DEF Begins, FitFresh, FitRestored, FitBroken, FitFails, Test, Goto, Return
  <1>3. CASE TestEnd \/ ZeroInterval \/ CallbackFails \/ EarlyFails \/ SaveFailed
      \/ ExitFails \/ Crash
    BY <1>1, <1>3 DEF TestEnd, ZeroInterval, CallbackFails, EarlyFails, SaveFailed, ExitFails,
        Crash, Return
  <1>4. CASE FitStart
    BY <1>4 DEF FitStart, EarlyFitStart, BestInv, Goto
  <1>5. CASE StartIteration \/ StartTraining \/ Stop \/ FinishIteration
    BY <1>5, BestKept DEF StartIteration, StartTraining, Stop, FinishIteration, Goto, history,
        model
  <1>6. CASE EndTraining \/ Unmonitored
    <2>1. runtime'.stop = FALSE
      BY <1>6 DEF EndTraining, Unmonitored, ModelInv, RunInv, ModelTypeOK, Runtimes, model
    <2> QED  BY <1>6, <2>1, BestKept DEF EndTraining, Unmonitored, Goto, history, model
  <1>7. CASE EarlyStop
    <2>1. CASE config.restoreBest
      BY <1>7, <2>1, JudgingKeepsTheBest
    <2>2. CASE ~config.restoreBest
      BY <1>7, <2>2 DEF EarlyStop, Goto, BestInv
    <2> QED  BY <2>1, <2>2
  <1>8. CASE NoSave \/ Saved
    BY <1>1, <1>8, BestKept DEF NoSave, Saved, SaveAt, After, Goto, Return, history, model,
        DriverInv, Waits, SaveReturned
  <1>9. CASE EnterSeeds
    BY <1>9, BestKept DEF EnterSeeds, Phases, history, model
  <1>10. CASE BuildEnvironment \/ BuildFails \/ Run \/ RunFails
    BY <1>10, BestKept DEF BuildEnvironment, BuildFails, Run, RunFails, history, model
  <1>11. CASE ExitSeeds
    <2>1. pc = "exit" /\ pc' \in {"idle", EndHook[phase]} /\ UNCHANGED model /\ UNCHANGED history
      BY <1>11 DEF ExitSeeds
    <2>2. pc' # "idle" => config' = config /\ phase' = phase
      BY <1>11 DEF ExitSeeds
    <2>3. phase \in {"train", "validation", "test"}
      BY DEF DriverInv, DriverTypeOK
    <2>4. CASE pc' \in {"idle", "test_end"}
      BY <2>4, <1>1
    <2>5. CASE pc' = EndHook[phase] /\ phase # "test" /\ pc' # "idle"
      BY <2>1, <2>2, <2>3, <2>5, BestKept DEF EndHook, model, history
    <2> QED  BY <2>1, <2>3, <2>4, <2>5 DEF EndHook
  <1>12. CASE SaveBegins \/ Save \/ SaveFails
    BY <1>12, BestKept DEF SaveBegins, Save, SaveFails, process, model, history
  <1> QED
    BY <1>2, <1>3, <1>4, <1>5, <1>6, <1>7, <1>8, <1>9, <1>10, <1>11, <1>12, NextCases
    DEF InPhaseSteps, Others, Saving

\* When a fit has just stopped early, the vessel holds the weights of the best
\* of its own validations, whatever the values, patience and threshold were.
THEOREM StopsKeepTheBest == Spec => []StopKeepsTheBest
  <1>1. Init => BestInv
    BY DEF Init, ProcessInit, BestInv, InFit, InBody, InPhase, BodyHooks
  <1>2. IInv /\ BestInv /\ [Next]_vars => BestInv'
    <2>1. IInv /\ BestInv /\ Next => BestInv'
      BY NextKeepsBest DEF IInv
    <2>2. BestInv /\ UNCHANGED vars => BestInv'
      BY BestKept DEF vars, process, model, history, InFit, InBody, InPhase, BodyHooks
    <2> QED  BY <2>1, <2>2
  <1>3. IInv /\ BestInv => StopKeepsTheBest
    <2> SUFFICES ASSUME IInv, BestInv, pc = "finish" /\ runtime.stop /\ config.restoreBest
                 PROVE  \E i \in 1 .. Len(seen) :
                          /\ weights = seen[i].weights
                          /\ \/ /\ seen[i].value # NaN
                                /\ \A j \in 1 .. Len(seen) : ~Improves(seen[j].value,
                                    seen[i].value)
                             \/ i = 1 /\ \A j \in 1 .. Len(seen) : seen[j].value = NaN
      BY DEF StopKeepsTheBest
    <2>1. InFit /\ seen # <<>> /\ weights = early.bestWeights
      BY DEF BestInv, InFit, InBody, BodyHooks
    <2>2. /\ early.best \in Values \cup {Lowest}
          /\ seen \in Seq([value : Values \cup {NaN}, weights : Weights])
      BY <2>1 DEF IInv, ModelInv, ModelTypeOK, EarlyInv
    <2>3. 1 \in 1 .. Len(seen)
      BY <2>1, <2>2
    <2>4. CASE early.best = Lowest
      BY <2>1, <2>3, <2>4 DEF BestInv
    <2>5. CASE early.best # Lowest
      <3>1. early.best # NaN
        BY <2>2, <2>5, EarlyAssumption
      <3> QED  BY <2>1, <2>5, <3>1 DEF BestInv
    <2> QED  BY <2>4, <2>5
  <1> QED  BY ModelInvariant, <1>1, <1>2, <1>3, PTL DEF Spec
-----------------------------------------------------------------------------
(* What an interrupted save costs.                                         *)

\* The file that is being encoded is not lost yet.
UnderWay == IF saver.step = "encode" THEN {saver.lastIter} ELSE {}
Lost == {n \in Iters : files[n] = Broken} \ UnderWay
Spent == (MaxFaults - faults) + (MaxCrashes - crashes)
LossInv == IsFiniteSet(Lost) /\ Cardinality(Lost) <= Spent

\* Budgets are spent and not given back, and a fault or a crash spends one.
LEMMA BudgetsAreSpent ==
  ASSUME IInv, BudgetInv, Next
  PROVE  /\ Spent \in Int /\ Spent' \in Int /\ Spent <= Spent'
         /\ Fault \/ Crash => Spent' = Spent + 1
  <1>1. faults \in Nat /\ crashes \in Nat /\ MaxFaults \in Nat /\ MaxCrashes \in Nat
    BY TrainerAssumption DEF BudgetInv
  <1>2. Fault => faults' = faults - 1 /\ crashes' = crashes
    BY DEF Fault
  <1>3. Crash => faults' = faults /\ crashes' = crashes - 1
    BY DEF Crash
  <1>4. \/ faults' = faults /\ crashes' = crashes
        \/ faults' = faults - 1 /\ crashes' = crashes
        \/ faults' = faults /\ crashes' = crashes - 1
    <2>1. CASE Begins
      BY <2>1 DEF Begins, FitFresh, FitRestored, FitBroken, FitFails, Test, Call
    <2>2. CASE InPhaseSteps
      BY <2>2 DEF InPhaseSteps, EnterSeeds, BuildEnvironment, BuildFails, Run, RunFails,
                  ExitSeeds, ExitFails, Fault, budgets
    <2>3. CASE Others
      BY <2>3 DEF Others, FitStart, StartIteration, StartTraining, FinishIteration, Stop,
                  TestEnd, EndTraining, ZeroInterval, Unmonitored, EarlyStop, CallbackFails,
                  EarlyFails, NoSave, Fault, budgets
    <2>4. CASE Saving
      BY <2>4 DEF Saving, SaveBegins, Save, SaveFails, Saved, SaveFailed, Fault, budgets
    <2> QED  BY <2>1, <2>2, <2>3, <2>4, <1>3, NextCases
  <1>5. Spent \in Int /\ Spent' \in Int
    BY <1>1, <1>4 DEF Spent
  <1>6. Spent <= Spent'
    BY <1>1, <1>4 DEF Spent
  <1>7. Fault \/ Crash => Spent' = Spent + 1
    BY <1>1, <1>2, <1>3 DEF Spent
  <1> QED  BY <1>5, <1>6, <1>7

\* Losing nothing keeps the count, and losing one file takes a fault or a crash.
LEMMA LossIsCounted ==
  ASSUME IInv, BudgetInv, LossInv, Next,
         \/ Lost' \subseteq Lost
         \/ (Fault \/ Crash) /\ Lost' \subseteq Lost \cup {saver.lastIter}
  PROVE  LossInv'
  <1>1. IsFiniteSet(Lost) /\ Cardinality(Lost) \in Nat /\ Cardinality(Lost) <= Spent
    BY FS_CardinalityType DEF LossInv
  <1>2. /\ Spent \in Int /\ Spent' \in Int /\ Spent <= Spent'
        /\ Fault \/ Crash => Spent' = Spent + 1
    BY BudgetsAreSpent
  <1>3. CASE Lost' \subseteq Lost
    <2>1. IsFiniteSet(Lost') /\ Cardinality(Lost') <= Cardinality(Lost)
      BY <1>1, <1>3, FS_Subset
    <2>2. Cardinality(Lost') \in Nat
      BY <2>1, FS_CardinalityType
    <2> QED  BY <1>1, <1>2, <2>1, <2>2 DEF LossInv
  <1>4. CASE (Fault \/ Crash) /\ Lost' \subseteq Lost \cup {saver.lastIter}
    <2> DEFINE more == Lost \cup {saver.lastIter}
    <2>1. IsFiniteSet(more) /\ Cardinality(more) <= Cardinality(Lost) + 1
      BY <1>1, FS_AddElement
    <2>2. Cardinality(more) \in Nat
      BY <2>1, FS_CardinalityType
    <2>3. IsFiniteSet(Lost') /\ Cardinality(Lost') <= Cardinality(more)
      BY <1>4, <2>1, FS_Subset
    <2>4. Cardinality(Lost') \in Nat
      BY <2>3, FS_CardinalityType
    <2> HIDE DEF more
    <2> QED  BY <1>1, <1>2, <1>4, <2>1, <2>2, <2>3, <2>4 DEF LossInv
  <1> QED  BY <1>3, <1>4

\* Only a save that is cut off while it encodes loses a file.
LEMMA NextKeepsLoss ==
  ASSUME IInv, BudgetInv, LossInv, Next PROVE LossInv'
  <1> USE DEF Lost, UnderWay
  <1>0. saver \in SaverType /\ files \in [Iters -> Contents]
    BY DEF IInv, StorageInv, StorageTypeOK, SaverType
  <1>1. CASE UNCHANGED checkpointVars
    BY <1>1, LossIsCounted DEF checkpointVars, disk
  <1>2. CASE Begins \/ InPhaseSteps \/ Others
    <2>1. UNCHANGED checkpointVars
      BY <1>2 DEF Begins, FitFresh, FitRestored, FitBroken, FitFails, Test,
                  InPhaseSteps, EnterSeeds, BuildEnvironment, BuildFails, Run, RunFails,
                  ExitSeeds, ExitFails, Others, FitStart, StartIteration, StartTraining,
                  FinishIteration, Stop, TestEnd, EndTraining, ZeroInterval, Unmonitored,
                  EarlyStop, CallbackFails, EarlyFails, NoSave
    <2> QED  BY <1>1, <2>1
  <1>3. CASE SaveBegins \/ Saved \/ SaveFailed
    <2>1. files' = files /\ saver.step \in {"off", "done", "failed"}
      BY <1>3 DEF SaveBegins, SaveAt, Saved, SaveFailed, SaveReturned, disk
    <2> QED  BY <2>1, LossIsCounted
  <1>4. CASE Save
    <2>1. CASE Note(runtime.iter, Graph)
      BY <2>1, LossIsCounted DEF Note, disk
    <2>2. CASE CreateFile
      <3>1. /\ files' = [files EXCEPT ![saver.lastIter] = Broken]
            /\ saver'.step = "encode" /\ saver'.lastIter = saver.lastIter /\ saver.step = "create"
        BY <1>0, <2>2, ToIsTyped DEF CreateFile, SaverSteps
      <3>2. Lost' \subseteq Lost
        BY <1>0, <3>1
      <3> QED  BY <3>2, LossIsCounted
    <2>3. CASE EncodeFile(config)
      <3>1. /\ files' = [files EXCEPT ![saver.lastIter] = saver.graph] /\ saver.step = "encode"
            /\ saver.graph # Broken
        BY <2>3, GraphsAreComplete DEF EncodeFile, IInv, StorageInv, SaverInv, Good, Writing
      <3>2. Lost' \subseteq Lost
        BY <1>0, <3>1
      <3> QED  BY <3>2, LossIsCounted
    <2>4. CASE RemoveLatest(config) \/ Link(config)
      BY <2>4, LossIsCounted DEF RemoveLatest, Link
    <2>5. CASE OpenCopy \/ FillCopy
      <3>1. saver.step \in {"copy", "fill"} /\ files' = files
        BY <2>5 DEF OpenCopy, FillCopy, Put, Through, IInv, StorageInv, SaverInv
      <3> QED  BY <3>1, LossIsCounted
    <2> QED  BY <1>4, <2>1, <2>2, <2>3, <2>4, <2>5 DEF Save
  <1>5. CASE SaveFails
    <2>1. Fault /\ files' = files
      BY <1>5 DEF SaveFails, NoteFails, StorageFails, disk
    <2>2. Lost' \subseteq Lost \cup {saver.lastIter}
      BY <2>1
    <2> QED  BY <2>1, <2>2, LossIsCounted
  <1>6. CASE Crash
    <2>1. files' = files
      BY <1>6 DEF Crash, disk
    <2>2. Lost' \subseteq Lost \cup {saver.lastIter}
      BY <2>1
    <2> QED  BY <1>6, <2>2, LossIsCounted
  <1> QED  BY <1>2, <1>3, <1>4, <1>5, <1>6, NextCases DEF Saving

\* An interrupted save costs the file it was writing, and no other: however many
\* saves there are, no more files are damaged than faults and crashes happened.
THEOREM LossesAreBounded == Spec => []LossIsBounded
  <1>1. Init => LossInv
    <2> SUFFICES ASSUME Init PROVE LossInv
      OBVIOUS
    <2>1. files = [n \in Iters |-> None] /\ faults = MaxFaults /\ crashes = MaxCrashes
      BY DEF Init, DiskInit
    <2>2. Lost = {}
      BY <2>1, CheckpointsAssumption DEF Lost
    <2>3. Spent = 0
      BY <2>1, TrainerAssumption DEF Spent
    <2> QED  BY <2>2, <2>3, FS_EmptySet DEF LossInv
  <1>2. IInv /\ BudgetInv /\ LossInv /\ [Next]_vars => LossInv'
    <2>1. LossInv /\ UNCHANGED vars => LossInv'
      BY DEF vars, checkpointVars, disk, budgets, LossInv, Lost, UnderWay, Spent
    <2> QED  BY <2>1, NextKeepsLoss
  <1>3. LossInv => LossIsBounded
    BY DEF LossInv, LossIsBounded, Lost, UnderWay, Spent
  <1> QED  BY ModelInvariant, BudgetInvariant, <1>1, <1>2, <1>3, PTL DEF Spec

-----------------------------------------------------------------------------
(* What a fit leaves on disk.                                              *)

\* latest.pth leads to the checkpoint just saved, if it can lead anywhere.
LatestIsSaved ==
  (config.latest = "link" /\ config.absolute) \/ config.latest = "copy" =>
    LatestContent = files[saver.lastIter]
\* The trainer as it is now is what the callback saved last.
JustSaved == files[saver.lastIter] = Graph /\ LatestIsSaved

\* A save under way is of the trainer as it is, and at the step its kind of
\* latest.pth calls for.
SaveInv ==
  /\ saver.step \in Writing \cup {"done"} =>
       saver.lastIter = runtime.iter /\ runtime.iter \in Iters
  /\ saver.step \in Writing => saver.graph = Graph
  /\ saver.step \in {"remove", "link", "copy", "fill"} => files[saver.lastIter] = Graph
  /\ saver.step = "remove" => config.latest \in {"link", "copy"}
  /\ saver.step = "link" => config.latest = "link"
  /\ saver.step \in {"copy", "fill"} => config.latest = "copy"
  /\ saver.step = "done" => JustSaved
\* In its first fit a callback knows no other trainer's iterations: what it
\* noted is past, or is the trainer as it is.
NotedInv ==
  /\ pc = "fit_end" => runtime.stop = TRUE
  /\ fresh /\ InFit /\ saver.step = "off" /\ saver.lastIter # None =>
       /\ saver.lastIter \in Iters /\ saver.lastIter <= runtime.iter
       /\ pc = "iter_end" => saver.lastIter # runtime.iter
       /\ pc \in {"loop", "fit_end"} /\ saver.lastIter = runtime.iter => JustSaved
FinalInv == SaveInv /\ NotedInv /\ FinalStateSaved

\* What FinalStateSaved promises of the directory.
FinalState ==
  LET final == files[runtime.iter]
  IN /\ Complete(final)
     /\ final.weights = weights /\ final.runtime.iter = runtime.iter /\ final.runtime.stop
     /\ (config.latest = "link" /\ config.absolute) \/ config.latest = "copy" =>
          LatestContent = final

\* Nobody but the callback takes a step while it saves.
LEMMA OthersFindItOff ==
  ASSUME DriverInv, Begins \/ InPhaseSteps \/ Others
  PROVE  saver.step = "off" /\ UNCHANGED checkpointVars
  <1>1. CASE Begins
    BY <1>1 DEF Begins, FitFresh, FitRestored, FitBroken, FitFails, Test, DriverInv, Waits
  <1>2. CASE InPhaseSteps
    BY <1>2 DEF InPhaseSteps, EnterSeeds, BuildEnvironment, BuildFails, Run, RunFails,
                ExitSeeds, ExitFails, Phases, DriverInv, Waits
  <1>3. CASE Others
    BY <1>3 DEF Others, FitStart, StartIteration, StartTraining, FinishIteration, Stop,
                TestEnd, EndTraining, ZeroInterval, Unmonitored, EarlyStop, CallbackFails,
                EarlyFails, NoSave, SaveAt, DriverInv, Waits
  <1> QED  BY <1>1, <1>2, <1>3

\* Each step of a save does its part for what the last one promises.
LEMMA SaveKeepsSaveInv ==
  ASSUME IInv, SaveInv, Save PROVE SaveInv'
  <1> USE DEF Writing, SaverSteps
  <1>0. saver \in SaverType /\ files \in [Iters -> Contents]
    BY DEF IInv, StorageInv, StorageTypeOK, SaverType
  <1>1. /\ UNCHANGED <<runtime, weights, early, config>> /\ Graph' = Graph
        /\ config.latest \in {"", "link", "copy"}
    BY ConfigAssumption DEF Save, process, model, Graph, IInv, DriverInv, DriverTypeOK,
                            ConfigTypes
  <1>2. CASE Note(runtime.iter, Graph)
    <2>1. pc \in {"iter_end", "fit_end"}
      BY <1>2 DEF Note, IInv, DriverInv, Waits
    <2>2. runtime.iter \in Iters
      BY <2>1, GraphIsGood DEF IInv
    <2> QED  BY <1>1, <1>2, <2>2 DEF Note, SaveInv
  <1>3. CASE CreateFile
    <2>1. /\ saver.step = "create" /\ saver'.step = "encode"
          /\ saver'.lastIter = saver.lastIter /\ saver'.graph = saver.graph
      BY <1>0, <1>3, ToIsTyped DEF CreateFile
    <2> QED  BY <1>1, <2>1 DEF SaveInv
  <1>4. CASE EncodeFile(config)
    <2>1. /\ saver.step = "encode" /\ saver'.lastIter = saver.lastIter
          /\ saver'.step = IF config.latest = "" THEN "done" ELSE "remove"
          /\ saver'.step = "remove" => saver'.graph = saver.graph
          /\ files' = [files EXCEPT ![saver.lastIter] = saver.graph]
      BY <1>0, <1>4, ToIsTyped DEF EncodeFile
    <2>2. saver.lastIter = runtime.iter /\ runtime.iter \in Iters /\ saver.graph = Graph
      BY <2>1 DEF SaveInv
    <2>3. files'[saver'.lastIter] = Graph'
      BY <1>0, <1>1, <2>1, <2>2
    <2>4. config.latest = "" => LatestIsSaved'
      BY <1>1 DEF LatestIsSaved
    <2> QED  BY <1>1, <2>1, <2>2, <2>3, <2>4 DEF SaveInv, JustSaved
  <1>5. CASE RemoveLatest(config)
    <2>1. saver.step = "remove" /\ config.latest \in {"link", "copy"}
      BY <1>5 DEF RemoveLatest, SaveInv
    <2>2. /\ saver'.step = config.latest /\ saver'.lastIter = saver.lastIter
          /\ saver'.graph = saver.graph /\ files' = files
      BY <1>0, <1>5, <2>1, ToIsTyped DEF RemoveLatest
    <2> QED  BY <1>1, <2>1, <2>2 DEF SaveInv
  <1>6. CASE Link(config)
    <2>1. saver.step = "link" /\ Free
      BY <1>6 DEF Link, Free, IInv, StorageInv, SaverInv
    <2>2. /\ saver'.step = "done" /\ saver'.lastIter = saver.lastIter /\ files' = files
          /\ latest' = LinkTo(saver.lastIter, config.absolute)
      BY <1>0, <1>6, <2>1, ToIsTyped DEF Link
    <2>3. config.absolute => LatestContent' = files'[saver'.lastIter]
      BY <2>2 DEF LatestContent, LinkTo
    <2>4. JustSaved'
      BY <1>1, <2>1, <2>2, <2>3 DEF SaveInv, JustSaved, LatestIsSaved
    <2> QED  BY <1>1, <2>1, <2>2, <2>4 DEF SaveInv
  <1>7. CASE OpenCopy
    <2>1. /\ saver.step = "copy" /\ saver'.step = "fill" /\ saver'.lastIter = saver.lastIter
          /\ saver'.graph = saver.graph
      BY <1>0, <1>7, ToIsTyped DEF OpenCopy
    <2>2. files' = files
      BY <1>7 DEF OpenCopy, Put, Through, IInv, StorageInv, SaverInv
    <2> QED  BY <1>1, <2>1, <2>2 DEF SaveInv
  <1>8. CASE FillCopy
    <2>1. saver.step = "fill" /\ saver'.step = "done" /\ saver'.lastIter = saver.lastIter
      BY <1>0, <1>8, ToIsTyped DEF FillCopy
    <2>2. files' = files /\ latest' = FileOf(saver.graph)
      BY <1>8 DEF FillCopy, Put, Through, IInv, StorageInv, SaverInv
    <2>3. LatestContent' = saver.graph
      BY <2>2 DEF LatestContent, FileOf
    <2>4. JustSaved'
      BY <1>1, <2>1, <2>2, <2>3 DEF SaveInv, JustSaved, LatestIsSaved
    <2> QED  BY <1>1, <2>1, <2>2, <2>4 DEF SaveInv
  <1> QED  BY <1>2, <1>3, <1>4, <1>5, <1>6, <1>7, <1>8 DEF Save

\* A step that does not write promises nothing.
LEMMA NextKeepsSaveInv ==
  ASSUME IInv, SaveInv, Next PROVE SaveInv'
  <1>1. ASSUME saver'.step \in {"off", "note", "failed"} PROVE SaveInv'
    BY <1>1 DEF SaveInv, Writing
  <1>2. saver \in SaverType
    BY DEF IInv, StorageInv, StorageTypeOK, SaverType
  <1>3. CASE Begins \/ InPhaseSteps \/ Others
    <2>1. saver'.step = "off"
      BY <1>3, OthersFindItOff DEF IInv, checkpointVars
    <2> QED  BY <1>1, <2>1
  <1>4. CASE SaveBegins \/ Saved \/ SaveFailed
    <2>1. saver'.step \in {"off", "note"}
      BY <1>2, <1>4 DEF SaverType, SaveBegins, BeginSave, Saved, SaveFailed, SaveReturned
    <2> QED  BY <1>1, <2>1
  <1>5. CASE SaveFails
    <2>1. saver'.step = "failed"
      BY <1>2, <1>5, ToIsTyped DEF SaverType, SaveFails, NoteFails, StorageFails, SaverSteps
    <2> QED  BY <1>1, <2>1
  <1>6. CASE Crash
    <2>1. saver'.step = "off"
      BY <1>6 DEF Crash, SaverNew
    <2> QED  BY <1>1, <2>1
  <1> QED  BY <1>3, <1>4, <1>5, <1>6, SaveKeepsSaveInv, NextCases DEF Saving

\* Between its saves the callback's notes stay as they are, and the fit only
\* gets further.
LEMMA NotedKept ==
  ASSUME NotedInv, saver' = saver, fresh' = fresh, InFit' => InFit,
         runtime'.iter = runtime.iter, pc' \notin {"loop", "iter_end", "fit_end"}
  PROVE  NotedInv'
  BY DEF NotedInv

\* Outside a fit nothing is asked of what was noted.
LEMMA NotInFit == ~InFit' => NotedInv'
  BY DEF NotedInv, InFit

\* What was just saved still is when neither trainer nor directory changed.
LEMMA StillSaved ==
  ASSUME JustSaved, UNCHANGED <<disk, model, config>>, saver'.lastIter = saver.lastIter
  PROVE  JustSaved'
  BY DEF JustSaved, LatestIsSaved, LatestContent, Graph, disk, model

\* Every step keeps what was noted in the past or of the trainer as it is.
LEMMA NextKeepsNoted ==
  ASSUME IInv, SaveInv, NotedInv, Next PROVE NotedInv'
  <1> USE DEF InFit, InBody, InPhase, BodyHooks
  <1>0. saver \in SaverType /\ runtime \in Runtimes
    BY DEF IInv, StorageInv, StorageTypeOK, SaverType, ModelInv, ModelTypeOK
  <1>1. CASE Begins
    <2>1. ~InFit'
      BY <1>1 DEF Begins, FitFresh, FitRestored, FitBroken, FitFails, Test, Goto, Return
    <2> QED  BY <2>1, NotInFit
  <1>2. CASE Others \/ InPhaseSteps
    <2>0. saver' = saver /\ saver.step = "off" /\ UNCHANGED disk
      BY <1>2, OthersFindItOff DEF IInv, checkpointVars
    <2>1. CASE TestEnd \/ ZeroInterval \/ CallbackFails \/ EarlyFails \/ ExitFails
      <3>1. ~InFit'
        BY <2>1 DEF TestEnd, ZeroInterval, CallbackFails, EarlyFails, ExitFails, Return
      <3> QED  BY <3>1, NotInFit
    <2>2. CASE FitStart
      BY <2>0, <2>2 DEF FitStart, Goto, NotedInv
    <2>3. CASE StartIteration
      BY <1>0, <2>0, <2>3, NotedKept DEF StartIteration, Goto, Cleared, Runtimes, history
    <2>4. CASE StartTraining
      BY <1>0, <2>0, <2>4, NotedKept DEF StartTraining, Goto, Runtimes, history
    <2>5. CASE EndTraining
      BY <1>0, <2>0, <2>5, NotedKept DEF EndTraining, Goto, Runtimes, history
    <2>6. CASE Unmonitored
      BY <2>0, <2>6, NotedKept DEF Unmonitored, Goto, model, history
    <2>7. CASE EarlyStop
      BY <1>0, <2>0, <2>7, NotedKept DEF EarlyStop, Goto, Runtimes
    <2>8. CASE FinishIteration
      <3>1. /\ pc' = "iter_end" /\ pc = "finish" /\ fresh' = fresh
            /\ runtime'.iter = runtime.iter + 1
        BY <1>0, <2>8 DEF FinishIteration, Finished, Goto, Runtimes, history
      <3>2. runtime.iter \in Nat /\ \A n \in Iters : n \in Nat
        BY <3>1, CheckpointsAssumption DEF IInv, ModelInv, RunInv
      <3>3. saver.lastIter \in Iters /\ saver.lastIter <= runtime.iter
              => saver.lastIter <= runtime'.iter /\ saver.lastIter # runtime'.iter
        BY <3>1, <3>2
      <3> QED  BY <2>0, <3>1, <3>3 DEF NotedInv
    <2>9. CASE Stop
      <3>1. /\ pc = "loop" /\ pc' = "fit_end" /\ runtime.stop /\ fresh' = fresh
            /\ UNCHANGED <<disk, model, config>>
        BY <2>0, <2>9 DEF Stop, Goto, history
      <3>2. JustSaved => JustSaved'
        BY <2>0, <3>1, StillSaved
      <3>3. runtime' = runtime /\ runtime.stop = TRUE
        BY <1>0, <3>1 DEF model, IInv, ModelInv, RunInv
      <3> QED  BY <2>0, <3>1, <3>2, <3>3 DEF NotedInv
    <2>10. CASE NoSave
      <3>1. /\ pc \in {"iter_end", "fit_end"} /\ pc' = (IF pc = "iter_end" THEN "loop" ELSE "idle")
            /\ UNCHANGED <<model, history>>
        BY <2>10 DEF NoSave, SaveAt, After, Goto, Return
      <3> QED  BY <2>0, <3>1 DEF NotedInv, model, history
    <2>11. CASE EnterSeeds
      BY <2>0, <2>11, NotedKept DEF EnterSeeds, Phases, model, history
    <2>12. CASE BuildEnvironment \/ BuildFails
      BY <2>0, <2>12, NotedKept DEF BuildEnvironment, BuildFails, model, history
    <2>13. CASE Run \/ RunFails
      <3>1. runtime'.iter = runtime.iter
        BY <2>13, ReportIsTyped DEF Run, RunFails, IInv
      <3> QED  BY <2>0, <2>13, <3>1, NotedKept DEF Run, RunFails, history
    <2>14. CASE ExitSeeds
      <3>1. pc = "exit" /\ pc' \in {"idle", EndHook[phase]} /\ UNCHANGED <<model, history>>
            /\ (pc' # "idle" => phase' = phase)
        BY <2>14 DEF ExitSeeds
      <3>2. phase \in {"train", "validation", "test"}
        BY DEF IInv, DriverInv, DriverTypeOK
      <3> QED  BY <2>0, <3>1, <3>2, NotedKept, NotInFit DEF EndHook, model, history
    <2> QED
      BY <1>2, <2>1, <2>2, <2>3, <2>4, <2>5, <2>6, <2>7, <2>8, <2>9, <2>10, <2>11, <2>12,
         <2>13, <2>14 DEF Others, InPhaseSteps
  <1>3. CASE SaveBegins \/ Save \/ SaveFails
    <2>1. UNCHANGED <<process, model, history>>
      BY <1>3 DEF SaveBegins, Save, SaveFails
    <2>2. saver'.step # "off"
      <3>1. ASSUME NEW step \in SaverSteps \ {"off"}, To(step) PROVE saver'.step # "off"
        BY <1>0, <3>1, ToIsTyped
      <3>2. CASE SaveBegins
        BY <1>0, <3>2 DEF SaveBegins, BeginSave, SaverType
      <3>3. CASE Note(runtime.iter, Graph)
        BY <3>3 DEF Note
      <3>6. CASE NoteFails(runtime.iter)
        <4>1. saver'.step = "failed"
          BY <1>0, <3>6 DEF NoteFails, SaverType
        <4> QED  BY <4>1
      <3>4. CASE CreateFile \/ EncodeFile(config) \/ OpenCopy \/ FillCopy \/ StorageFails
        BY <3>1, <3>4 DEF CreateFile, EncodeFile, OpenCopy, FillCopy, StorageFails, SaverSteps
      <3>5. CASE RemoveLatest(config) \/ Link(config)
        BY <3>1, <3>5 DEF RemoveLatest, Link, SaverSteps
      <3> QED  BY <1>3, <3>2, <3>3, <3>4, <3>5, <3>6 DEF Save, SaveFails
    <2> QED  BY <2>1, <2>2 DEF NotedInv, process, model
  <1>4. CASE Saved
    <2>1. /\ saver.step = "done" /\ saver'.lastIter = saver.lastIter
          /\ UNCHANGED <<disk, model, history>>
      BY <1>0, <1>4 DEF Saved, SaveReturned, SaverType
    <2>2. pc \in {"iter_end", "fit_end"}
      BY <2>1 DEF IInv, DriverInv, Waits
    <2>3. CASE pc = "fit_end"
      <3>1. ~InFit'
        BY <1>4, <2>3 DEF Saved, After, Return
      <3> QED  BY <3>1, NotInFit
    <2>4. CASE pc = "iter_end"
      <3>1. pc' = "loop" /\ config' = config
        BY <1>4, <2>4 DEF Saved, After, Goto
      <3>2. JustSaved' /\ saver.lastIter = runtime.iter /\ runtime.iter \in Iters
        BY <2>1, <3>1, StillSaved DEF SaveInv
      <3>3. runtime.iter <= runtime.iter
        <4>1. runtime.iter \in Nat
          BY <3>2, CheckpointsAssumption
        <4> QED  BY <4>1
      <3> QED  BY <2>1, <3>1, <3>2, <3>3 DEF NotedInv, model
    <2> QED  BY <2>2, <2>3, <2>4
  <1>5. CASE SaveFailed \/ Crash
    <2>1. ~InFit'
      BY <1>5 DEF SaveFailed, Crash, Return
    <2> QED  BY <2>1, NotInFit
  <1> QED  BY <1>1, <1>2, <1>3, <1>4, <1>5, NextCases DEF Saving

\* At the end of a fit, what was just saved is the final state.
LEMMA SavedIsFinal ==
  ASSUME IInv, NotedInv, pc = "fit_end", JustSaved, saver.lastIter = runtime.iter
  PROVE  FinalState
  <1>1. Good(Graph) /\ Graph.runtime = runtime /\ Graph.weights = weights /\ Complete(Graph)
    BY GraphIsGood, GraphsAreComplete DEF IInv, Good, Graph
  <1>2. runtime.stop
    BY DEF NotedInv
  <1> QED  BY <1>1, <1>2 DEF FinalState, JustSaved, LatestIsSaved

\* A fit that returns has left its final state.
LEMMA NextKeepsFinal ==
  ASSUME IInv, FinalInv, Next PROVE FinalStateSaved'
  <1>1. ASSUME pc' # "idle" \/ result' # "fitted" PROVE FinalStateSaved'
    BY <1>1 DEF FinalStateSaved
  <1>2. ASSUME UNCHANGED <<disk, model, config>>, FinalState PROVE FinalStateSaved'
    <2>1. FinalState'
      BY <1>2 DEF FinalState, LatestContent, disk, model
    <2> QED  BY <2>1 DEF FinalStateSaved, FinalState
  <1>3. CASE Begins
    BY <1>1, <1>3 DEF Begins, FitFresh, FitRestored, FitBroken, FitFails, Test, Goto, Return
  <1>4. CASE InPhaseSteps
    BY <1>1, <1>4 DEF InPhaseSteps, EnterSeeds, BuildEnvironment, BuildFails, Run, RunFails,
                      ExitSeeds, ExitFails, EndHook, IInv, DriverInv, DriverTypeOK
  <1>5. CASE Others /\ ~NoSave
    BY <1>1, <1>5 DEF Others, FitStart, StartIteration, StartTraining, FinishIteration, Stop,
                TestEnd, EndTraining, ZeroInterval, Unmonitored, EarlyStop, CallbackFails,
                EarlyFails, Goto, Return
  <1>6. CASE NoSave
    <2>1. /\ UNCHANGED <<checkpointVars, model, history>> /\ saver.step = "off"
          /\ \/ pc = "iter_end" /\ pc' = "loop"
             \/ pc = "fit_end" /\ ~FitEndDue(config, runtime.iter) /\ config' = config
      BY <1>6 DEF NoSave, SaveAt, NotDue, After, Goto, Return
    <2>2. CASE pc' = "loop" \/ ~fresh' \/ ~config'.onFitEnd
      BY <2>2 DEF FinalStateSaved
    <2>3. CASE pc = "fit_end" /\ fresh /\ config.onFitEnd
      <3>1. saver.lastIter = runtime.iter
        BY <2>1, <2>3 DEF FitEndDue
      <3>2. runtime.iter \in Iters /\ None \notin Iters
        <4>1. \A n \in Iters : n \in Int  BY CheckpointsAssumption
        <4>2. None \notin Iters  BY <4>1, EarlyAssumption, Zenon
        <4> QED  BY <2>3, <4>2, GraphIsGood DEF IInv
      <3>3. JustSaved
        BY <2>1, <2>3, <3>1, <3>2 DEF FinalInv, NotedInv, InFit
      <3>4. FinalState
        BY <2>3, <3>1, <3>3, SavedIsFinal DEF FinalInv
      <3> QED  BY <2>1, <2>3, <3>4, <1>2 DEF checkpointVars
    <2> QED  BY <2>1, <2>2, <2>3 DEF history
  <1>7. CASE SaveBegins \/ Save \/ SaveFails
    <2>1. pc' = pc /\ pc # "idle"
      BY <1>7, SaverBusy DEF SaveBegins, SaveAt, Save, SaveFails, process, IInv, DriverInv, Waits
    <2> QED  BY <1>1, <2>1
  <1>8. CASE Saved
    <2>1. saver.step = "done" /\ UNCHANGED <<disk, model>> /\ config' = config
      BY <1>8 DEF Saved, SaveReturned, After, Goto, Return
    <2>2. pc \in {"iter_end", "fit_end"}
      BY <2>1 DEF IInv, DriverInv, Waits
    <2>3. CASE pc = "iter_end"
      BY <1>1, <1>8, <2>3 DEF Saved, After, Goto
    <2>4. CASE pc = "fit_end"
      <3>1. FinalState
        BY <2>1, <2>4, SavedIsFinal DEF FinalInv, SaveInv
      <3> QED  BY <2>1, <3>1, <1>2
    <2> QED  BY <2>2, <2>3, <2>4
  <1>9. CASE SaveFailed \/ Crash
    BY <1>1, <1>9 DEF SaveFailed, Crash, Return
  <1> QED  BY <1>3, <1>4, <1>5, <1>6, <1>7, <1>8, <1>9, NextCases DEF Saving

\* A first fit that returns without an error has left its final state on disk
\* under its final iteration, and latest.pth leads there, whenever the saves
\* before were due and whatever earlier processes left in the directory.
THEOREM FinalStateIsSaved == Spec => []FinalStateSaved
  <1>1. Init => FinalInv
    <2> SUFFICES ASSUME Init PROVE FinalInv
      OBVIOUS
    <2>1. pc = "idle" /\ result = "none" /\ saver = SaverNew
      BY DEF Init, ProcessInit
    <2> QED
      BY <2>1 DEF FinalInv, SaveInv, NotedInv, FinalStateSaved, SaverNew, Writing, InFit, InBody,
                  InPhase, BodyHooks
  <1>2. IInv /\ FinalInv /\ [Next]_vars => FinalInv'
    <2>1. IInv /\ FinalInv /\ Next => FinalInv'
      BY NextKeepsSaveInv, NextKeepsNoted, NextKeepsFinal DEF FinalInv
    <2>2. FinalInv /\ UNCHANGED vars => FinalInv'
      BY DEF vars, process, checkpointVars, disk, model, history, FinalInv, SaveInv, NotedInv,
             FinalStateSaved, JustSaved, LatestIsSaved, LatestContent, Graph, InFit, InBody,
             InPhase, BodyHooks
    <2> QED  BY <2>1, <2>2
  <1>3. FinalInv => FinalStateSaved
    BY DEF FinalInv
  <1> QED  BY ModelInvariant, <1>1, <1>2, <1>3, PTL DEF Spec
=============================================================================
