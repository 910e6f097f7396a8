---------------------------- MODULE FiniteVector ----------------------------
(***************************************************************************)
(* The vector environment that retires its environments one by one         *)
(* (crates/core/src/finite_vector.rs), over the in-process backend         *)
(* (finite_dummy.rs) whose environments draw their episodes' seeds from    *)
(* one shared supply (environment_reset.rs, environment_step.rs).          *)
(*                                                                         *)
(* One thread makes one call at a time.  A call is several steps because   *)
(* it can fail between them and what it did before stays done.             *)
(***************************************************************************)
EXTENDS Naturals, Sequences

CONSTANTS Size,       \* how many environments
          Selections, \* the ids a caller may ask for at once
          Supplies,   \* how many seeds there may be, or Endless
          Endless,
          MaxLength,  \* bound: steps of an episode
          MaxDraws,   \* bound: seeds drawn from an endless supply
          MaxFaults   \* bound: failures of plugged-in components

Env == 0 .. Size - 1
All == [i \in 1 .. Size |-> i - 1]

ASSUME VectorAssumption == /\ Size \in Nat \ {0}
                           /\ Selections \subseteq Seq(Env)
                           /\ Endless \notin Nat
                           /\ Supplies \subseteq Nat \cup {Endless}
                           /\ MaxLength \in Nat \ {0}
                           /\ MaxDraws \in Nat /\ MaxFaults \in Nat

VARIABLES
  alive, zombie,   \* alive_environment_ids and zombie
  known,           \* which of the placeholders has been captured
  supply, drawn,   \* the seeds, and how many of them have been drawn
  exhausted,       \* environments whose seed source has ended
  active, episode, \* whether an environment may be stepped, its seed or 0
  left,            \* steps the episode has left
  op, at,          \* the call under way and its place
  ids, pos, slots, \* its selection, the request it is at, what it returns
  answer,          \* how the last call ended
  finished, abandoned, \* seeds run to their end, seeds given up before it
  faults,          \* failures of components so far
  doubled          \* a selection has named an environment twice

vector == <<alive, zombie, known>>
worlds == <<supply, drawn, exhausted, active, episode, left>>
call == <<op, at, ids, pos, slots, answer>>
history == <<finished, abandoned, faults, doubled>>
vectorVars == <<vector, worlds, call, history>>

NoSlot == [obs |-> "none", reward |-> FALSE, done |-> FALSE]

Init == /\ alive = Env /\ zombie = FALSE
        /\ known = {}
        /\ supply \in Supplies /\ drawn = 0
        /\ exhausted = {}
        /\ active = [e \in Env |-> FALSE]
        /\ episode = [e \in Env |-> 0]
        /\ left = [e \in Env |-> 0]
        /\ op = "none" /\ at = "idle"
        /\ ids = <<>> /\ pos = 0 /\ slots = <<>>
        /\ answer = "none"
        /\ finished = {} /\ abandoned = {}
        /\ faults = 0 /\ doubled = FALSE

-----------------------------------------------------------------------------
(* What reset and step have in common.                                     *)

Twice(sel) == \E i, j \in DOMAIN sel : i # j /\ sel[i] = sel[j]

Refused == /\ answer' = "error"
           /\ ids' = <<>> /\ slots' = <<>>
           /\ UNCHANGED <<op, at, pos, vector, worlds, history>>

Enter(name, sel) == /\ op' = name /\ at' = "backend"
                    /\ ids' = sel /\ pos' = 1
                    /\ slots' = [i \in DOMAIN sel |-> NoSlot]
                    /\ answer' = "none"
                    /\ doubled' = (doubled \/ Twice(sel))
                    /\ UNCHANGED <<finished, abandoned, faults>>

Leave(result) == /\ op' = "none" /\ at' = "idle" /\ pos' = 0
                 /\ answer' = result
                 /\ UNCHANGED ids

Fail == Leave("error") /\ slots' = <<>>

Fault == faults < MaxFaults /\ faults' = faults + 1

\* The slot of environment e is that of its last mention.
IsLast(i) == \A j \in DOMAIN ids : j > i => ids[j] # ids[i]
Deliver(slot) ==
  /\ slots' = [i \in DOMAIN slots |->
                 IF ids[i] = ids[pos] /\ IsLast(i) THEN slot ELSE slots[i]]
  /\ pos' = pos + 1
  /\ UNCHANGED <<op, at, ids, answer>>

Requested(name) == op = name /\ at = "backend" /\ pos <= Len(ids)
Asked(name, e) == Requested(name) /\ ids[pos] = e /\ e \in alive

\* Only environments that are alive reach the backend.
SkipRetired == /\ \E name \in {"reset", "step"} : Requested(name)
               /\ ids[pos] \notin alive
               /\ pos' = pos + 1
               /\ UNCHANGED <<op, at, ids, slots, answer, vector, worlds, history>>

BackendDone == /\ at = "backend" /\ pos > Len(ids)
               /\ at' = "check"
               /\ UNCHANGED <<op, ids, pos, slots, answer, vector, worlds, history>>

\* The observation predicate, or a logger, fails.  Both are called only for
\* environments that are alive.
ComponentFails == /\ at \in {"check", "log"}
                  /\ \E i \in DOMAIN ids : ids[i] \in alive
                  /\ Fault
                  /\ Fail
                  /\ UNCHANGED <<finished, abandoned, doubled, vector, worlds>>

Filled(slot) ==
  [slot EXCEPT !.obs = IF @ = "none" /\ "obs" \in known' THEN "default" ELSE @,
               !.reward = @ \/ "reward" \in known']

-----------------------------------------------------------------------------
(* reset                                                                   *)

StartReset(sel) ==
  /\ op = "none"
  /\ IF zombie THEN Refused
     ELSE /\ Enter("reset", sel)
          /\ alive' = IF alive = {} THEN Env ELSE alive
          /\ UNCHANGED <<zombie, known, worlds>>

SeedLeft == supply # Endless => drawn < supply

\* Environment e takes seed s for its next episode.
Install(e, s) ==
  /\ episode' = [episode EXCEPT ![e] = s]
  /\ \E n \in 1 .. MaxLength : left' = [left EXCEPT ![e] = n]
  /\ abandoned' = IF episode[e] \in finished \cup {0} THEN abandoned
                  ELSE abandoned \cup {episode[e]}

KeepEpisode == UNCHANGED <<episode, left, abandoned>>

StartEpisode(e) == /\ Asked("reset", e)
                   /\ e \notin exhausted /\ SeedLeft
                   /\ drawn' = drawn + 1
                   /\ Install(e, drawn')
                   /\ active' = [active EXCEPT ![e] = TRUE]
                   /\ Deliver([NoSlot EXCEPT !.obs = "own"])
                   /\ UNCHANGED <<supply, exhausted, finished, faults, doubled, vector>>

\* The seed source ends: from now on it is dead, and the observation invalid.
Exhaust(e) == /\ exhausted' = exhausted \cup {e}
              /\ active' = [active EXCEPT ![e] = FALSE]

RunOut(e) == /\ Asked("reset", e)
             /\ e \notin exhausted /\ ~SeedLeft
             /\ Exhaust(e)
             /\ Deliver(NoSlot)
             /\ UNCHANGED <<supply, drawn, episode, left, vector, history>>

\* A stop raised by the simulator factory, or by the first observation, ends
\* the source as well and loses the seed.  A first observation that looks invalid
\* passes for the end although there is none.
LoseInReset(e) == /\ Asked("reset", e)
                  /\ e \notin exhausted /\ SeedLeft
                  /\ Fault
                  /\ drawn' = drawn + 1
                  /\ \/ Exhaust(e) /\ (KeepEpisode \/ Install(e, drawn'))
                     \/ /\ Install(e, drawn')
                        /\ active' = [active EXCEPT ![e] = TRUE]
                        /\ UNCHANGED exhausted
                  /\ Deliver(NoSlot)
                  /\ UNCHANGED <<supply, finished, doubled, vector>>

\* A failure of the seed source, of the factory, of the first observation, or
\* of the invalid one; what came before it stays.
ResetFails(e) ==
  /\ Asked("reset", e)
  /\ e \notin exhausted
  /\ Fault
  /\ Fail
  /\ \/ UNCHANGED <<drawn, exhausted, active>> /\ KeepEpisode
     \/ ~SeedLeft /\ Exhaust(e) /\ KeepEpisode /\ UNCHANGED drawn
     \/ /\ SeedLeft
        /\ drawn' = drawn + 1
        /\ \/ UNCHANGED <<exhausted, active>> /\ KeepEpisode
           \/ /\ Install(e, drawn')
              /\ active' = [active EXCEPT ![e] = TRUE]
              /\ UNCHANGED exhausted
           \/ Exhaust(e) /\ (KeepEpisode \/ Install(e, drawn'))
  /\ UNCHANGED <<supply, finished, doubled, vector>>

\* An environment whose source has ended cannot be reset again.
DeadReset(e) == /\ Asked("reset", e)
                /\ e \in exhausted
                /\ Fail
                /\ UNCHANGED <<vector, worlds, history>>

\* Seeded fault: retires nobody who was reset before.
RetireFresh == /\ op = "reset" /\ at = "check"
               /\ alive' = alive \ {ids[i] : i \in {j \in DOMAIN ids :
                             slots[j].obs = "none" /\ episode[ids[j]] = 0}}
               /\ at' = "log"
               /\ UNCHANGED <<op, ids, pos, slots, answer, zombie, known, worlds, history>>

Retire == /\ op = "reset" /\ at = "check"
          /\ alive' = alive \ {ids[i] : i \in {j \in DOMAIN ids :
                                                 slots[j].obs = "none"}}
          /\ at' = "log"
          /\ UNCHANGED <<op, ids, pos, slots, answer, zombie, known, worlds, history>>

\* The defaults are captured and filled in; the last one retired ends it all.
EndReset(seen, over) ==
  /\ op = "reset" /\ at = "log"
  /\ known' = IF seen THEN known \cup {"obs"} ELSE known
  /\ slots' = [i \in DOMAIN slots |-> Filled(slots[i])]
  /\ zombie' = over
  /\ Leave(IF over THEN "exhausted" ELSE IF ids = <<>> THEN "error" ELSE "ok")
  /\ UNCHANGED <<alive, worlds, history>>

Seen == \E i \in DOMAIN slots : slots[i].obs = "own"

\* Seeded fault: the default observation is taken from the first place only.
FinishResetFirstOnly ==
  EndReset(slots # <<>> /\ slots[1].obs = "own", alive = {})

\* Seeded fault: exhaustion is looked for in the answer, once it is filled.
FinishResetAfterFill ==
  EndReset(Seen, \A i \in DOMAIN slots : slots'[i].obs = "none")

\* Seeded fault: exhaustion is judged by those just asked.
FinishResetOfAsked == EndReset(Seen, \A i \in DOMAIN ids : ids[i] \notin alive)

FinishReset == EndReset(Seen, alive = {})

-----------------------------------------------------------------------------
(* step                                                                    *)

StartStep(sel) ==
  /\ op = "none"
  /\ IF zombie THEN Refused
     ELSE Enter("step", sel) /\ UNCHANGED <<vector, worlds>>

Spent(n) == IF n = 0 THEN 0 ELSE n - 1

\* A step of the episode; its observation may look invalid.
PlayStep(e) ==
  /\ Asked("step", e)
  /\ active[e]
  /\ left' = [left EXCEPT ![e] = Spent(@)]
  /\ finished' = IF left[e] <= 1 THEN finished \cup {episode[e]} ELSE finished
  /\ \E obs \in {"own", "none"} :
       Deliver([obs |-> obs, reward |-> TRUE, done |-> left[e] <= 1])
  /\ UNCHANGED <<supply, drawn, exhausted, active, episode>>
  /\ UNCHANGED <<abandoned, faults, doubled, vector>>

\* Before its first reset an environment cannot be stepped.
InactiveStep(e) == /\ Asked("step", e)
                   /\ ~active[e]
                   /\ Fail
                   /\ UNCHANGED <<vector, worlds, history>>

\* The simulator, an interpreter, the reward or a log fails within a step.
StepFails(e) == /\ Asked("step", e)
                /\ active[e]
                /\ Fault
                /\ Fail
                /\ left' \in {left, [left EXCEPT ![e] = Spent(@)]}
                /\ UNCHANGED <<supply, drawn, exhausted, active, episode>>
                /\ UNCHANGED <<finished, abandoned, doubled, vector>>

LogStep == /\ op = "step" /\ at = "check"
           /\ at' = "log"
           /\ UNCHANGED <<op, ids, pos, slots, answer, vector, worlds, history>>

FinishStep ==
  /\ op = "step" /\ at = "log"
  /\ known' = IF \E i \in DOMAIN slots : slots[i].reward
              THEN known \cup {"reward"} ELSE known
  /\ slots' = [i \in DOMAIN slots |-> Filled(slots[i])]
  /\ Leave(IF ids = <<>> THEN "error" ELSE "ok")
  /\ UNCHANGED <<alive, zombie, worlds, history>>

-----------------------------------------------------------------------------
\* What a call already made does.
Proceed == \/ SkipRetired \/ BackendDone \/ ComponentFails
           \/ Retire \/ FinishReset \/ LogStep \/ FinishStep
           \/ \E e \in Env : \/ StartEpisode(e) \/ RunOut(e) \/ LoseInReset(e)
                             \/ ResetFails(e) \/ DeadReset(e)
                             \/ PlayStep(e) \/ InactiveStep(e) \/ StepFails(e)

\* Any caller, with ids in any order and number.
Ask == \E sel \in Selections :
         \/ /\ supply = Endless => drawn + Len(sel) <= MaxDraws
            /\ StartReset(sel)
         \/ StartStep(sel)

Next == Ask \/ Proceed

Spec == Init /\ [][Next]_vectorVars

-----------------------------------------------------------------------------
(* Properties.                                                             *)

Slots == [obs : {"own", "default", "none"}, reward : BOOLEAN, done : BOOLEAN]

\* The type invariant of the vector environment, its backend and its call,
\* which FiniteVector_proofs proves.
VectorTypeOK ==
  /\ alive \subseteq Env /\ zombie \in BOOLEAN
  /\ known \subseteq {"obs", "reward"}
  /\ supply \in Supplies /\ drawn \in Nat
  /\ supply # Endless => drawn <= supply
  /\ exhausted \subseteq Env
  /\ active \in [Env -> BOOLEAN]
  /\ episode \in [Env -> 0 .. drawn]
  /\ left \in [Env -> 0 .. MaxLength]
  /\ op \in {"none", "reset", "step"}
  /\ at \in {"idle", "backend", "check", "log"}
  /\ ids \in Seq(Env) /\ pos \in Nat
  /\ slots \in Seq(Slots)
  /\ answer \in {"none", "ok", "error", "exhausted"}
  /\ finished \subseteq 1 .. drawn /\ abandoned \subseteq 1 .. drawn
  /\ faults \in 0 .. MaxFaults /\ doubled \in BOOLEAN

\* Between calls the vector environment is a zombie exactly when nobody is
\* alive, whatever failed: the fill at the start of reset never revives an
\* environment whose seeds have ended, and exhaustion is reported once.
AliveUntilZombie == op = "none" => (zombie <=> alive = {})

\* As long as no component has failed and nobody was asked twice at once, the
\* retired environments are those whose seed source has ended: no dead one is
\* ever asked again and none with seeds left is given up.
AliveTracksSeeds ==
  op = "none" /\ faults = 0 /\ ~doubled => alive = Env \ exhausted

\* When nothing has failed, a reset or a step that asks for everyone and is
\* accepted returns an observation in every place, the default one where an
\* environment is retired: the collector, which stacks them, never meets a
\* missing one.
CompleteRows ==
  op = "none" /\ answer = "ok" /\ faults = 0
  /\ (\A e \in Env : \E i \in DOMAIN ids : ids[i] = e)
    => \A i \in DOMAIN slots : slots[i].obs # "none"

=============================================================================
