------------------------------ MODULE Collector ------------------------------
(***************************************************************************)
(* One train, validate or test pass over a vector environment: the guard   *)
(* (finite_vector.rs), the phase (training_vessel_runner.rs) and the       *)
(* collector it builds (rl_candle_collector.rs).  The environment is that  *)
(* of FiniteVector; here it is called by the collector only.               *)
(***************************************************************************)
EXTENDS FiniteVector, FiniteSets

CONSTANTS Counts,  \* the episodes a training pass may be asked for
          MaxRuns  \* bound: passes over the same environment

ASSUME CollectorAssumption == /\ Counts \subseteq Nat \ {0}
                              /\ MaxRuns \in Nat

VARIABLES
  guarded,      \* collector_guarded
  pc,           \* where the pass is
  kind, count,  \* "train" with its episodes, or "evaluate"
  ready, rows,  \* ids stepped, and the episode each observation is from, or 0
  ended,        \* places of the episodes that ended in this step
  progress,     \* episodes recorded
  outcome,      \* how the last pass ended
  mark, runs    \* seeds drawn before this pass; passes begun

collection == <<kind, count, ready, rows, ended, progress>>
collectorVars == <<vectorVars, guarded, pc, collection, outcome, mark, runs>>

CollectorInit == /\ Init
                 /\ guarded = FALSE /\ pc = "idle"
                 /\ kind = "none" /\ count = 0
                 /\ ready = <<>> /\ rows = <<>> /\ ended = <<>>
                 /\ progress = 0
                 /\ outcome = "none"
                 /\ mark = 0 /\ runs = 0

Least(a, b) == IF a < b THEN a ELSE b
Less(a, b) == IF a < b THEN 0 ELSE a - b

-----------------------------------------------------------------------------
(* The pass.  It waits in "new", "step", "reset" and "final" for the       *)
(* environment, and ends idle.                                             *)

Returned(place) == pc = place /\ op = "none" /\ answer = "ok"

\* The body returns; its guard is cleared.
EndRun(result) == /\ pc' = "idle" /\ guarded' = FALSE /\ outcome' = result
                  /\ ready' = <<>> /\ rows' = <<>> /\ ended' = <<>>
                  /\ UNCHANGED <<kind, count, progress, mark, runs>>

\* A training pass, or one that evaluates until the seeds end, builds its
\* collector, which resets everyone.
Begin(k, n) == /\ pc = "idle" /\ runs < MaxRuns
               /\ pc' = "new" /\ guarded' = TRUE
               /\ kind' = k /\ count' = n
               /\ progress' = 0 /\ outcome' = "none"
               /\ mark' = drawn /\ runs' = runs + 1
               /\ UNCHANGED <<ready, rows, ended>>
               /\ StartReset(All)

Train == \E n \in Counts : Begin("train", n)
Evaluate == supply # Endless /\ Begin("evaluate", 0)

\* The mode switch fails before the guard is set; a ready hook after it, and
\* nobody clears it; the factory before any reset, and the guard is cleared.
BeginFails == /\ pc = "idle" /\ runs < MaxRuns
              /\ Fault
              /\ guarded' \in {guarded, TRUE, FALSE}
              /\ outcome' = "error" /\ runs' = runs + 1
              /\ UNCHANGED <<finished, abandoned, doubled, vector, worlds, call>>
              /\ UNCHANGED <<pc, collection, mark>>

\* The episode the observation in place i belongs to; 0 for a default one.
\* A reset of everyone that is accepted has captured the default, so that the
\* places of later answers are all filled.
RowOf(i) == IF slots[i].obs = "own" THEN episode[ids[i]] ELSE 0

\* The collector is built, and asked for its episodes: no more environments
\* take part than episodes are wanted.
Created == /\ Returned("new")
           /\ LET taking == IF kind = "train" THEN Least(Size, count) ELSE Size
              IN /\ ready' = [i \in 1 .. taking |-> i - 1]
                 /\ rows' = [i \in 1 .. taking |-> RowOf(i)]
           /\ pc' = "collect"
           /\ UNCHANGED <<vectorVars, guarded, kind, count, ended, progress>>
           /\ UNCHANGED <<outcome, mark, runs>>

StepReady == /\ pc = "collect"
             /\ StartStep(ready)
             /\ pc' = "step"
             /\ UNCHANGED <<guarded, collection, outcome, mark, runs>>

\* The numbers of a set, the small ones first.
InOrder(S) == CHOOSE s \in [1 .. Cardinality(S) -> S] :
                \A i, j \in DOMAIN s : i < j => s[i] < s[j]

\* No row of the step misses its reward or its observation.  The reward does
\* when only retired environments were stepped before any reward was known.
Complete == \A i \in DOMAIN slots : slots[i].reward /\ slots[i].obs # "none"

Incomplete == /\ Returned("step")
              /\ ~Complete
              /\ EndRun("error")
              /\ UNCHANGED vectorVars

\* The ended episodes are recorded and their environments reset.
Record ==
  /\ Returned("step")
  /\ Complete
  /\ ended' = InOrder({i \in DOMAIN slots : slots[i].done})
  /\ rows' = [i \in DOMAIN slots |-> RowOf(i)]
  /\ progress' = progress + Len(ended')
  /\ IF ended' = <<>> THEN pc' = "collect" /\ UNCHANGED vectorVars
     ELSE /\ pc' = "reset"
          /\ StartReset([j \in DOMAIN ended' |-> ready[ended'[j]]])
  /\ UNCHANGED <<guarded, kind, count, ready, outcome, mark, runs>>

\* Seeded fault: the policy goes on from the episode that ended.
FreshStale(i) == rows[i]

\* Their new observations take the places of the last ones.
Fresh(i) == IF \E j \in DOMAIN ended : ended[j] = i
            THEN RowOf(CHOOSE j \in DOMAIN ended : ended[j] = i) ELSE rows[i]

\* Seeded fault: forgets the episodes already recorded.
SurplusOfAll == IF kind = "train" THEN Less(Len(ready), count) ELSE 0

\* Who has ended and is not needed for the episodes still wanted drops out,
\* the first ones first.
Surplus == IF kind = "train" THEN Less(Len(ready), Less(count, progress)) ELSE 0
Kept == InOrder({i \in DOMAIN ready :
                   \A j \in DOMAIN ended : j <= Surplus => ended[j] # i})

Replace == /\ Returned("reset")
           /\ ready' = [j \in DOMAIN Kept |-> ready[Kept[j]]]
           /\ rows' = [j \in DOMAIN Kept |-> Fresh(Kept[j])]
           /\ ended' = <<>>
           /\ pc' = IF kind = "train" /\ progress >= count THEN "last"
                    ELSE "collect"
           /\ UNCHANGED <<vectorVars, guarded, kind, count, progress>>
           /\ UNCHANGED <<outcome, mark, runs>>

\* After the last episode everyone is reset once more.
LastReset == /\ pc = "last"
             /\ StartReset(All)
             /\ pc' = "final"
             /\ UNCHANGED <<guarded, collection, outcome, mark, runs>>

\* The policy learns from what was collected.
Learn == Returned("final") /\ EndRun("metrics") /\ UNCHANGED vectorVars

Waiting == pc \in {"new", "step", "reset", "final"} /\ op = "none"

\* Only exhaustion is swallowed.
RunOutOfSeeds == /\ Waiting /\ answer = "exhausted"
                 /\ EndRun("nothing")
                 /\ UNCHANGED vectorVars

CallFailed == Waiting /\ answer = "error" /\ EndRun("error") /\ UNCHANGED vectorVars

\* The factory, the policy, the replay or a done hook fails; an update may
\* also raise exhaustion itself.
RunFails == /\ Waiting \/ pc \in {"collect", "last"}
            /\ Fault
            /\ EndRun("error") \/ (Returned("final") /\ EndRun("nothing"))
            /\ UNCHANGED <<finished, abandoned, doubled, vector, worlds, call>>

InCall == Proceed /\ UNCHANGED <<guarded, pc, collection, outcome, mark, runs>>

Work == \/ InCall
        \/ Created \/ StepReady \/ Incomplete \/ Record \/ Replace \/ LastReset
        \/ Learn \/ RunOutOfSeeds \/ CallFailed

CollectorNext == Train \/ Evaluate \/ BeginFails \/ RunFails \/ Work

\* The thread that runs a pass goes on with it.
CollectorSpec == /\ CollectorInit
                 /\ [][CollectorNext]_collectorVars
                 /\ WF_collectorVars(Work)

-----------------------------------------------------------------------------
(* Properties.                                                             *)

\* A training pass never steps more environments than episodes are still
\* wanted, so it records exactly the episodes it was asked for, whoever ends
\* together and whoever is retired.
EpisodesExact ==
  kind = "train" =>
    /\ pc \in {"collect", "step"} => Len(ready) <= count - progress
    /\ pc \in {"last", "final"} \/ outcome = "metrics" => progress = count

\* When the environments are about to be stepped, the rows the policy acts on
\* are theirs, one each, and no row of a living environment is from an episode
\* that is over.
RowsAreCurrent ==
  pc = "collect" =>
    /\ Len(rows) = Len(ready)
    /\ \A i \in DOMAIN ready : rows[i] \in {0, episode[ready[i]]}
    /\ \A i \in DOMAIN ready : rows[i] # 0 => rows[i] \notin finished

\* An evaluation in which nothing fails returns nothing only when every seed
\* of its supply has been drawn and every one it drew was run to its end.
EvaluationRunsEverySeed ==
  kind = "evaluate" /\ pc = "idle" /\ faults = 0 /\ outcome = "nothing"
    => drawn = supply /\ mark + 1 .. drawn \subseteq finished

\* What cannot make progress: a training pass, left with retired environments
\* only, whose steps are made up of known defaults and never end an episode.
OnlyRetiredReady == /\ kind = "train" /\ ready # <<>>
                    /\ \A i \in DOMAIN ready : ready[i] \notin alive

\* Every pass comes to its end, unless only retired environments are left in
\* it.
CollectReturns == (pc # "idle") ~> (pc = "idle" \/ OnlyRetiredReady)

=============================================================================
