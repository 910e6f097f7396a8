------------------------ MODULE FiniteVector_proofs ------------------------
(* Proofs about FiniteVector, for any environments, callers and failures.  *)
EXTENDS FiniteVector, NaturalsInduction, WellFoundedInduction, TLAPS

\* While a call is under way the vector environment is no zombie, and somebody
\* is alive, until a reset has retired the last one and has only to say so.
CallInv == /\ op = "none" <=> at = "idle"
           /\ op # "none" => ~zombie
           /\ op # "none" /\ ~(op = "reset" /\ at = "log") => alive # {}

VectorInv == zombie \in BOOLEAN /\ AliveUntilZombie /\ CallInv

\* There is an environment to begin with (FiniteVectorEnv::new).
LEMMA SomeEnv == Env # {}
  <1>1. 0 \in Env  BY VectorAssumption DEF Env
  <1> QED  BY <1>1

\* At first everyone is alive and no call is under way.
LEMMA InitVector == Init => VectorInv
  BY SomeEnv DEF Init, VectorInv, AliveUntilZombie, CallInv

\* A call that is refused or begun.
LEMMA StartKeepsVector ==
  ASSUME VectorInv, NEW sel, StartReset(sel) \/ StartStep(sel)
  PROVE  VectorInv'
  <1>1. CASE Refused /\ op = "none" /\ zombie
    BY <1>1 DEF VectorInv, AliveUntilZombie, CallInv, Refused, vector
  <1>2. CASE /\ op = "none" /\ ~zombie /\ zombie' = zombie /\ alive' = alive
             /\ at' = "backend" /\ op' \in {"reset", "step"}
    BY <1>2 DEF VectorInv, AliveUntilZombie, CallInv
  <1>3. StartReset(sel) => \/ Refused /\ op = "none" /\ zombie
                           \/ /\ op = "none" /\ ~zombie /\ zombie' = zombie
                              /\ alive' = alive /\ at' = "backend"
                              /\ op' \in {"reset", "step"}
    BY DEF StartReset, Enter, VectorInv, AliveUntilZombie
  <1>4. StartStep(sel) => \/ Refused /\ op = "none" /\ zombie
                          \/ /\ op = "none" /\ ~zombie /\ zombie' = zombie
                             /\ alive' = alive /\ at' = "backend"
                             /\ op' \in {"reset", "step"}
    BY DEF StartStep, Enter, VectorInv, vector
  <1> QED  BY <1>1, <1>2, <1>3, <1>4

LEMMA AskKeepsVector == VectorInv /\ Ask => VectorInv'
  BY StartKeepsVector DEF Ask

\* A step inside the backend: the call goes on in it, or is given up while
\* somebody is alive.
LEMMA BackendKeepsVector ==
  ASSUME VectorInv, op # "none", at = "backend",
         zombie' = zombie, alive' = alive,
         \/ op' = op /\ at' = at
         \/ op' = "none" /\ at' = "idle"
  PROVE  VectorInv'
  BY DEF VectorInv, AliveUntilZombie, CallInv

\* What a call under way does.
LEMMA ProceedKeepsVector == VectorInv /\ Proceed => VectorInv'
  <1> SUFFICES ASSUME VectorInv, Proceed PROVE VectorInv'
    OBVIOUS
  <1>1. CASE SkipRetired
    BY <1>1, BackendKeepsVector DEF SkipRetired, Requested, vector
  <1>2. CASE BackendDone
    BY <1>2 DEF BackendDone, vector, VectorInv, AliveUntilZombie, CallInv
  <1>3. CASE ComponentFails
    BY <1>3 DEF ComponentFails, Fail, Leave, vector,
                VectorInv, AliveUntilZombie, CallInv
  <1>4. CASE Retire
    BY <1>4 DEF Retire, VectorInv, AliveUntilZombie, CallInv
  <1>5. CASE FinishReset
    BY <1>5 DEF FinishReset, EndReset, Leave,
                VectorInv, AliveUntilZombie, CallInv
  <1>6. CASE LogStep
    BY <1>6 DEF LogStep, vector, VectorInv, AliveUntilZombie, CallInv
  <1>7. CASE FinishStep
    BY <1>7 DEF FinishStep, Leave, VectorInv, AliveUntilZombie, CallInv
  <1>8. ASSUME NEW e \in Env,
               \/ StartEpisode(e) \/ RunOut(e) \/ LoseInReset(e)
               \/ ResetFails(e) \/ DeadReset(e)
               \/ PlayStep(e) \/ InactiveStep(e) \/ StepFails(e)
        PROVE  VectorInv'
    <2>1. op # "none" /\ at = "backend"
      BY <1>8 DEF StartEpisode, RunOut, LoseInReset, ResetFails, DeadReset,
                  PlayStep, InactiveStep, StepFails, Asked, Requested
    <2>2. zombie' = zombie /\ alive' = alive
      BY <1>8 DEF StartEpisode, RunOut, LoseInReset, ResetFails, DeadReset,
                  PlayStep, InactiveStep, StepFails, vector
    <2>3. \/ op' = op /\ at' = at
          \/ op' = "none" /\ at' = "idle"
      BY <1>8 DEF StartEpisode, RunOut, LoseInReset, ResetFails, DeadReset,
                  PlayStep, InactiveStep, StepFails, Deliver, Fail, Leave
    <2> QED  BY <2>1, <2>2, <2>3, BackendKeepsVector
  <1> QED
    BY <1>1, <1>2, <1>3, <1>4, <1>5, <1>6, <1>7, <1>8 DEF Proceed

\* VectorInv is inductive.
THEOREM VectorInvariant == Spec => []VectorInv
  <1>1. Init => VectorInv  BY InitVector
  <1>2. VectorInv /\ [Next]_vectorVars => VectorInv'
    <2> SUFFICES ASSUME VectorInv, [Next]_vectorVars PROVE VectorInv'
      OBVIOUS
    <2>1. CASE Ask  BY <2>1, AskKeepsVector
    <2>2. CASE Proceed  BY <2>2, ProceedKeepsVector
    <2>3. CASE UNCHANGED vectorVars
      BY <2>3 DEF vectorVars, vector, call,
                  VectorInv, AliveUntilZombie, CallInv
    <2> QED  BY <2>1, <2>2, <2>3 DEF Next
  <1> QED  BY <1>1, <1>2, PTL DEF Spec

\* Whatever fails, between calls the vector environment is a zombie exactly
\* when nobody is alive.
THEOREM ZombieWhenNobodyAlive == Spec => []AliveUntilZombie
  <1>1. VectorInv => AliveUntilZombie  BY DEF VectorInv
  <1> QED  BY VectorInvariant, <1>1, PTL

-----------------------------------------------------------------------------
(* Retirement.  The invariant follows a reset through its requests: an     *)
(* environment whose seeds have ended in this call has its place left      *)
(* empty, and every other one that was asked has its place filled.         *)

CallTypeOK == /\ alive \subseteq Env /\ exhausted \subseteq Env
              /\ op \in {"none", "reset", "step"}
              /\ ids \in Seq(Env) /\ pos \in Nat
              /\ faults \in Nat /\ doubled \in BOOLEAN
              /\ op # "none" => DOMAIN slots = DOMAIN ids /\ pos > 0
              /\ op # "none" /\ ~doubled => ~Twice(ids)

Clean == faults = 0 /\ ~doubled

Unanswered(e) == \E i \in DOMAIN ids : i < pos /\ ids[i] = e /\ slots[i].obs = "none"

WalkInv == /\ Env \ exhausted \subseteq alive
           /\ \A e \in alive \cap exhausted : Unanswered(e)
           /\ \A i \in DOMAIN ids :
                i < pos /\ ids[i] \in alive \ exhausted => slots[i].obs # "none"

Walking == op = "reset" /\ at \in {"backend", "check"}

TrackInv == /\ op = "reset" /\ at = "check" => pos > Len(ids)
            /\ Clean => IF Walking THEN WalkInv ELSE alive = Env \ exhausted

SeedInv == VectorInv /\ CallTypeOK /\ TrackInv

\* At first everyone has seeds left.
LEMMA InitSeeds == Init => SeedInv
  <1> SUFFICES ASSUME Init PROVE SeedInv
    OBVIOUS
  <1>1. VectorInv  BY InitVector
  <1>2. <<>> \in Seq(Env)  OBVIOUS
  <1>3. CallTypeOK  BY <1>2 DEF Init, CallTypeOK
  <1>4. TrackInv  BY DEF Init, TrackInv, Walking
  <1> QED  BY <1>1, <1>3, <1>4 DEF SeedInv

\* A reset begins with nobody asked yet.
LEMMA StartKeepsSeeds ==
  ASSUME SeedInv, NEW sel \in Seq(Env), StartReset(sel) \/ StartStep(sel)
  PROVE  CallTypeOK' /\ TrackInv'
  <1> USE DEF SeedInv
  <1>1. sel \in Seq(Env) /\ <<>> \in Seq(Env)  OBVIOUS
  <1>2. CASE zombie
    <2>1. Refused /\ op = "none"
      BY <1>2 DEF StartReset, StartStep
    <2> QED
      BY <2>1, <1>1 DEF Refused, vector, worlds, history, CallTypeOK,
                        TrackInv, Walking, Clean, WalkInv, Unanswered
  <1>3. CASE ~zombie
    <2>1. /\ op = "none" /\ alive' = alive /\ exhausted' = exhausted
          /\ Enter("reset", sel) \/ Enter("step", sel)
      BY <1>3 DEF StartReset, StartStep, vector, worlds,
                  VectorInv, AliveUntilZombie
    <2>2. /\ op' \in {"reset", "step"} /\ at' = "backend"
          /\ ids' = sel /\ pos' = 1 /\ faults' = faults
          /\ DOMAIN slots' = DOMAIN ids'
          /\ doubled' = (doubled \/ Twice(sel))
      BY <2>1 DEF Enter
    <2>3. CallTypeOK'
      <3>1. doubled' \in BOOLEAN /\ (~doubled' => ~Twice(ids)')
        BY <2>2 DEF Twice
      <3>2. alive \subseteq Env /\ exhausted \subseteq Env /\ faults \in Nat
        BY DEF CallTypeOK
      <3> QED  BY <1>1, <2>1, <2>2, <3>1, <3>2 DEF CallTypeOK
    <2>4. \A i \in DOMAIN ids' : ~(i < pos')
      BY <1>1, <2>2
    <2>5. Clean' => alive' = Env \ exhausted'
      BY <2>1, <2>2 DEF TrackInv, Walking, Clean, CallTypeOK
    <2>6. WalkInv' <=> /\ Env \ exhausted' \subseteq alive'
                       /\ alive' \cap exhausted' = {}
      BY <2>4 DEF WalkInv, Unanswered
    <2>7. TrackInv'
      BY <2>2, <2>5, <2>6 DEF TrackInv, Walking
    <2> QED  BY <2>3, <2>7
  <1> QED  BY <1>2, <1>3

LEMMA AskKeepsSeeds == SeedInv /\ Ask => CallTypeOK' /\ TrackInv'
  BY StartKeepsSeeds, VectorAssumption DEF Ask

\* An answer goes to the place it was asked for.
LEMMA DeliverTo ==
  ASSUME CallTypeOK, ~doubled, op = "reset", pos \in DOMAIN ids,
         NEW slot, Deliver(slot)
  PROVE  /\ ids' = ids /\ pos' = pos + 1
         /\ \A i \in DOMAIN ids : slots'[i] = IF i = pos THEN slot ELSE slots[i]
  BY DEF Deliver, CallTypeOK, IsLast, Twice

\* One request of a reset is answered, by an observation or by the end of the
\* seeds, and the invariant moves on to the next.
LEMMA WalkOn ==
  ASSUME CallTypeOK, WalkInv, ~doubled, op = "reset", pos \in DOMAIN ids,
         NEW slot, Deliver(slot), alive' = alive,
         \/ /\ exhausted' = exhausted /\ ids[pos] \notin exhausted
            /\ slot.obs # "none"
         \/ exhausted' = exhausted \cup {ids[pos]} /\ slot.obs = "none"
  PROVE  WalkInv'
  <1>1. /\ ids' = ids /\ pos' = pos + 1 /\ pos \in Nat
        /\ DOMAIN ids \subseteq Nat
        /\ \A i \in DOMAIN ids : slots'[i] = IF i = pos THEN slot ELSE slots[i]
    BY DeliverTo DEF CallTypeOK
  <1>2. Env \ exhausted' \subseteq alive'
    BY DEF WalkInv
  <1>3. ASSUME NEW e \in alive' \cap exhausted' PROVE Unanswered(e)'
    <2>1. CASE e \in exhausted
      <3>1. PICK i \in DOMAIN ids : i < pos /\ ids[i] = e /\ slots[i].obs = "none"
        BY <1>3, <2>1 DEF WalkInv, Unanswered
      <3>2. i < pos' /\ slots'[i] = slots[i]
        BY <1>1, <3>1
      <3> QED  BY <1>1, <3>1, <3>2 DEF Unanswered
    <2>2. CASE e \notin exhausted
      <3>1. e = ids[pos] /\ slot.obs = "none"
        BY <1>3, <2>2
      <3>2. pos < pos' /\ slots'[pos] = slot
        BY <1>1
      <3> QED  BY <1>1, <3>1, <3>2 DEF Unanswered
    <2> QED  BY <2>1, <2>2
  <1>4. ASSUME NEW i \in DOMAIN ids', i < pos', ids'[i] \in alive' \ exhausted'
        PROVE  slots'[i].obs # "none"
    <2>1. CASE i = pos
      BY <1>1, <1>4, <2>1
    <2>2. CASE i # pos
      <3>1. i < pos /\ slots'[i] = slots[i]
        BY <1>1, <1>4, <2>2
      <3>2. ids[i] \in alive \ exhausted
        BY <1>1, <1>4
      <3> QED  BY <1>1, <1>4, <3>1, <3>2 DEF WalkInv
    <2> QED  BY <2>1, <2>2
  <1> QED  BY <1>2, <1>3, <1>4 DEF WalkInv

\* In a clean reset nobody is asked whose seeds have ended.
LEMMA AskedHaveSeeds ==
  ASSUME CallTypeOK, WalkInv, ~doubled, NEW e, Asked("reset", e)
  PROVE  e \notin exhausted /\ pos \in DOMAIN ids
  <1>1. /\ op = "reset" /\ pos <= Len(ids)
        /\ e = ids[pos] /\ e \in alive
    BY DEF Asked, Requested
  <1>2. pos \in DOMAIN ids /\ DOMAIN ids \subseteq Nat
    BY <1>1 DEF CallTypeOK
  <1>3. ASSUME e \in exhausted PROVE FALSE
    <2>1. PICK i \in DOMAIN ids : i < pos /\ ids[i] = e
      BY <1>1, <1>3 DEF WalkInv, Unanswered
    <2>2. i # pos
      BY <1>2, <2>1
    <2> QED  BY <1>1, <1>2, <2>1, <2>2 DEF CallTypeOK, Twice
  <1> QED  BY <1>2, <1>3

\* A failure is not clean, whatever it leaves behind.
LEMMA FaultKeepsSeeds ==
  ASSUME SeedInv, Fault, doubled' = doubled, alive' = alive,
         exhausted' \subseteq Env, pos' \in Nat,
         \/ op' = "none"
         \/ /\ op' = op /\ pos' = pos + 1 /\ DOMAIN slots' = DOMAIN slots
            /\ at = "backend" /\ at' = at,
         ids' = ids
  PROVE  CallTypeOK' /\ TrackInv'
  <1>1. faults' \in Nat /\ ~Clean'
    BY DEF SeedInv, CallTypeOK, Fault, Clean
  <1>2. CallTypeOK'
    BY <1>1 DEF SeedInv, CallTypeOK, Twice
  <1>3. TrackInv'
    BY <1>1 DEF SeedInv, TrackInv
  <1> QED  BY <1>2, <1>3

\* What a call under way does.
LEMMA ProceedKeepsSeeds == SeedInv /\ Proceed => CallTypeOK' /\ TrackInv'
  <1> SUFFICES ASSUME SeedInv, Proceed PROVE CallTypeOK' /\ TrackInv'
    OBVIOUS
  <1> USE DEF SeedInv
  <1>1. CASE SkipRetired
    <2>1. /\ op \in {"reset", "step"} /\ at = "backend" /\ pos <= Len(ids)
          /\ ids[pos] \notin alive
          /\ pos' = pos + 1 /\ UNCHANGED <<op, at, ids, slots, answer>>
          /\ UNCHANGED <<alive, exhausted, faults, doubled>>
      BY <1>1 DEF SkipRetired, Requested, vector, worlds, history
    <2>2. CallTypeOK'
      BY <2>1 DEF CallTypeOK, Twice
    <2>3. ASSUME WalkInv PROVE WalkInv'
      <3>1. pos \in Nat /\ DOMAIN ids \subseteq Nat
        BY DEF CallTypeOK
      <3>2. \A e \in alive \cap exhausted : Unanswered(e)'
        BY <2>1, <2>3, <3>1 DEF WalkInv, Unanswered
      <3>3. ASSUME NEW i \in DOMAIN ids, i < pos + 1, ids[i] \in alive \ exhausted
            PROVE  slots[i].obs # "none"
        <4>1. i # pos  BY <2>1, <3>3
        <4>2. i < pos  BY <3>1, <3>3, <4>1
        <4> QED  BY <2>3, <3>3, <4>2 DEF WalkInv
      <3> QED  BY <2>1, <2>3, <3>2, <3>3 DEF WalkInv
    <2>4. TrackInv'
      BY <2>1, <2>3 DEF TrackInv, Walking, Clean
    <2> QED  BY <2>2, <2>4
  <1>2. CASE BackendDone
    <2>1. /\ at = "backend" /\ pos > Len(ids) /\ at' = "check"
          /\ UNCHANGED <<op, ids, pos, slots, answer>>
          /\ UNCHANGED <<alive, exhausted, faults, doubled>>
      BY <1>2 DEF BackendDone, vector, worlds, history
    <2>2. CallTypeOK'
      BY <2>1 DEF CallTypeOK, Twice
    <2>3. WalkInv' = WalkInv
      BY <2>1 DEF WalkInv, Unanswered
    <2>4. TrackInv'
      BY <2>1, <2>3 DEF TrackInv, Walking, Clean
    <2> QED  BY <2>2, <2>4
  <1>3. CASE ComponentFails
    BY <1>3, FaultKeepsSeeds
       DEF ComponentFails, Fail, Leave, vector, worlds, CallTypeOK
  <1>4. CASE Retire
    <2>1. /\ op = "reset" /\ at = "check" /\ at' = "log"
          /\ alive' = alive \ {ids[i] : i \in {j \in DOMAIN ids :
                                              slots[j].obs = "none"}}
          /\ UNCHANGED <<op, ids, pos, slots, exhausted, faults, doubled>>
      BY <1>4 DEF Retire, worlds, history
    <2>2. CallTypeOK'
      BY <2>1 DEF CallTypeOK, Twice
    <2>3. ASSUME Clean PROVE alive' = Env \ exhausted
      <3>1. WalkInv /\ pos > Len(ids)
        BY <2>1, <2>3 DEF TrackInv, Walking
      <3>2. \A i \in DOMAIN ids : i < pos
        BY <3>1 DEF CallTypeOK
      <3>3. \A e \in alive' : e \in Env \ exhausted
        BY <2>1, <3>1 DEF WalkInv, Unanswered, CallTypeOK
      <3>4. \A e \in Env \ exhausted : e \in alive'
        BY <2>1, <3>1, <3>2 DEF WalkInv
      <3> QED  BY <3>3, <3>4 DEF CallTypeOK
    <2>4. TrackInv'
      BY <2>1, <2>3 DEF TrackInv, Walking, Clean
    <2> QED  BY <2>2, <2>4
  <1>5. CASE FinishReset \/ LogStep \/ FinishStep
    <2>1. /\ ~Walking
          /\ UNCHANGED <<alive, exhausted, faults, doubled, ids>>
          /\ \/ op' = "none" /\ pos' = 0
             \/ op' = "step" /\ op = "step" /\ pos' = pos /\ slots' = slots
      BY <1>5 DEF FinishReset, EndReset, LogStep, FinishStep, Leave, Walking,
                  vector, worlds, history
    <2>2. CallTypeOK'
      BY <2>1 DEF CallTypeOK, Twice
    <2>3. TrackInv'
      BY <2>1 DEF TrackInv, Walking, Clean
    <2> QED  BY <2>2, <2>3
  <1>6. ASSUME NEW e \in Env, StartEpisode(e) \/ RunOut(e)
        PROVE  CallTypeOK' /\ TrackInv'
    <2>1. Asked("reset", e) /\ e = ids[pos] /\ op = "reset" /\ at = "backend"
      BY <1>6 DEF StartEpisode, RunOut, Asked, Requested
    <2>2. PICK slot : /\ Deliver(slot)
                      /\ \/ /\ exhausted' = exhausted /\ e \notin exhausted
                            /\ slot.obs # "none"
                         \/ /\ exhausted' = exhausted \cup {e}
                            /\ slot.obs = "none"
      BY <1>6 DEF StartEpisode, RunOut, Exhaust, NoSlot
    <2>3. UNCHANGED <<alive, faults, doubled>>
      BY <1>6 DEF StartEpisode, RunOut, vector, history
    <2>4. op' = op /\ at' = at /\ pos' = pos + 1 /\ ids' = ids
          /\ DOMAIN slots' = DOMAIN slots
      BY <2>1, <2>2 DEF Deliver, StartEpisode, RunOut
    <2>5. CallTypeOK'
      BY <1>6, <2>2, <2>3, <2>4 DEF CallTypeOK, Twice
    <2>6. ASSUME Clean PROVE WalkInv'
      <3>1. WalkInv /\ ~doubled
        BY <2>1, <2>6 DEF TrackInv, Walking, Clean
      <3> QED  BY <2>1, <2>2, <2>3, <3>1, WalkOn, AskedHaveSeeds
    <2>7. TrackInv'
      BY <2>1, <2>3, <2>4, <2>6 DEF TrackInv, Walking, Clean
    <2> QED  BY <2>5, <2>7
  <1>7. ASSUME NEW e \in Env, LoseInReset(e) \/ ResetFails(e) \/ StepFails(e)
        PROVE  CallTypeOK' /\ TrackInv'
    <2>1. /\ Fault /\ UNCHANGED <<alive, doubled>>
          /\ exhausted' \in {exhausted, exhausted \cup {e}}
      BY <1>7 DEF LoseInReset, ResetFails, StepFails, Exhaust, vector
    <2>2. \/ op' = "none" /\ pos' = 0 /\ ids' = ids
          \/ /\ op' = op /\ pos' = pos + 1 /\ DOMAIN slots' = DOMAIN slots
             /\ at = "backend" /\ at' = at /\ ids' = ids
      BY <1>7 DEF LoseInReset, ResetFails, StepFails, Asked, Requested,
                  Deliver, Fail, Leave
    <2> QED  BY <2>1, <2>2, FaultKeepsSeeds DEF CallTypeOK
  <1>8. ASSUME NEW e \in Env, DeadReset(e)
        PROVE  CallTypeOK' /\ TrackInv'
    <2>1. /\ op = "reset" /\ at = "backend" /\ op' = "none" /\ pos' = 0
          /\ UNCHANGED <<ids, alive, exhausted, faults, doubled>>
      BY <1>8 DEF DeadReset, Asked, Requested, Fail, Leave,
                  vector, worlds, history
    <2>2. ~Clean
      <3>1. ASSUME Clean PROVE FALSE
        <4>1. WalkInv /\ ~doubled
          BY <2>1, <3>1 DEF TrackInv, Walking, Clean
        <4> QED  BY <1>8, <4>1, AskedHaveSeeds DEF DeadReset
      <3> QED  BY <3>1
    <2>3. CallTypeOK'
      BY <2>1 DEF CallTypeOK, Twice
    <2>4. TrackInv'
      BY <2>1, <2>2 DEF TrackInv, Clean
    <2> QED  BY <2>3, <2>4
  <1>9. ASSUME NEW e \in Env, PlayStep(e) \/ InactiveStep(e)
        PROVE  CallTypeOK' /\ TrackInv'
    <2>1. /\ op = "step" /\ at = "backend"
          /\ UNCHANGED <<alive, exhausted, faults, doubled, ids>>
          /\ \/ op' = "none" /\ pos' = 0
             \/ /\ op' = op /\ at' = at /\ pos' = pos + 1
                /\ DOMAIN slots' = DOMAIN slots
      BY <1>9 DEF PlayStep, InactiveStep, Asked, Requested, Deliver, Fail,
                  Leave, vector, worlds, history
    <2>2. CallTypeOK'
      BY <2>1 DEF CallTypeOK, Twice
    <2>3. TrackInv'
      BY <2>1 DEF TrackInv, Walking, Clean
    <2> QED  BY <2>2, <2>3
  <1> QED
    BY <1>1, <1>2, <1>3, <1>4, <1>5, <1>6, <1>7, <1>8, <1>9 DEF Proceed

\* SeedInv is inductive.
THEOREM SeedInvariant == Spec => []SeedInv
  <1>1. Init => SeedInv  BY InitSeeds
  <1>2. SeedInv /\ [Next]_vectorVars => SeedInv'
    <2> SUFFICES ASSUME SeedInv, [Next]_vectorVars PROVE SeedInv'
      OBVIOUS
    <2>1. CASE Ask
      BY <2>1, AskKeepsSeeds, AskKeepsVector DEF SeedInv
    <2>2. CASE Proceed
      BY <2>2, ProceedKeepsSeeds, ProceedKeepsVector DEF SeedInv
    <2>3. CASE UNCHANGED vectorVars
      <3>1. UNCHANGED <<alive, zombie, exhausted, op, at, ids, pos, slots,
                        faults, doubled>>
        BY <2>3 DEF vectorVars, vector, worlds, call, history
      <3> QED
        BY <3>1 DEF SeedInv, VectorInv, AliveUntilZombie, CallInv, CallTypeOK,
                    TrackInv, Twice, Clean, Walking, WalkInv, Unanswered
    <2> QED  BY <2>1, <2>2, <2>3 DEF Next
  <1> QED  BY <1>1, <1>2, PTL DEF Spec

\* As long as nothing failed and nobody was asked twice at once, the retired
\* environments are those whose seeds have ended, however many there are.
THEOREM RetiredHaveNoSeeds == Spec => []AliveTracksSeeds
  <1>1. SeedInv => AliveTracksSeeds
    BY DEF SeedInv, TrackInv, Walking, Clean, AliveTracksSeeds
  <1> QED  BY SeedInvariant, <1>1, PTL

-----------------------------------------------------------------------------
(* Complete rows, also for callers who name an environment twice.  What    *)
(* fills a missing observation is the default captured at the end of a     *)
(* reset; the invariant says why one was captured when it is needed.       *)

RowTypeOK == /\ alive \subseteq Env /\ exhausted \subseteq Env
             /\ active \in [Env -> BOOLEAN]
             /\ op \in {"none", "reset", "step"}
             /\ ids \in Seq(Env) /\ pos \in Nat /\ faults \in Nat
             /\ op # "none" => slots \in [DOMAIN ids -> Slots] /\ pos > 0
             /\ at \in {"check", "log"} => pos > Len(ids)

\* A dead environment that is still alive to the vector, and was not asked yet
\* in this reset: it fails the reset when it is asked, and any step.
Obstacle == \E d \in alive \cap exhausted :
              op = "reset" => \A i \in DOMAIN ids : i < pos => ids[i] # d

\* Whoever may be stepped was given an episode by this reset.
FirstReset == \A e \in Env : active[e] =>
                op = "reset" /\ \E i \in DOMAIN ids : ids[i] = e /\ slots[i].obs = "own"

RowInv ==
  /\ faults = 0 => \A e \in exhausted : ~active[e]
  /\ faults = 0 /\ "obs" \notin known => Obstacle \/ FirstReset
  /\ op = "step" => \A i \in DOMAIN ids : i < pos /\ ids[i] \in alive => active[ids[i]]
  /\ op = "reset" => \A i \in DOMAIN ids : slots[i].obs \in {"own", "none"}
  /\ op = "reset" /\ at = "log" => \A i \in DOMAIN ids : ids[i] \in alive => slots[i].obs # "none"

CompleteInv == VectorInv /\ RowTypeOK /\ RowInv /\ CompleteRows

\* A set of numbers has a least one.
LEMMA LeastOf ==
  ASSUME NEW S \in SUBSET Nat, S # {}
  PROVE  \E i \in S : \A j \in S : i <= j
  <1> DEFINE below == {ss \in Nat \X Nat : ss[1] < ss[2]}
  <1>1. IsWellFoundedOn(below, Nat)
    BY NatLessThanWellFounded DEF OpToRel
  <1>2. \A i, j \in Nat : i < j => <<i, j>> \in below
    OBVIOUS
  <1> HIDE DEF below
  <1>3. PICK i \in S : \A j \in S : ~(<<j, i>> \in below)
    BY <1>1, WFMin
  <1>4. ASSUME NEW j \in S PROVE i <= j
    <2>1. i \in Nat /\ j \in Nat
      BY <1>3
    <2>2. ~(<<j, i>> \in below)
      BY <1>3
    <2>3. ~(j < i)
      BY <1>2, <2>1, <2>2
    <2> QED  BY <2>1, <2>3
  <1> QED  BY <1>3, <1>4

\* An answer has the shape of a slot, and is put into the places of its
\* environment only.
LEMMA DeliverKeepsTypes ==
  ASSUME RowTypeOK, op # "none", at = "backend", pos \in DOMAIN ids, NEW slot \in Slots,
         Deliver(slot), at' = at
  PROVE  /\ slots' \in [DOMAIN ids -> Slots] /\ pos' = pos + 1 /\ op' = op /\ ids' = ids
         /\ \A i \in DOMAIN ids : slots'[i] = slot \/ slots'[i] = slots[i]
         /\ \A i \in DOMAIN ids : ids[i] # ids[pos] => slots'[i] = slots[i]
         /\ \E i \in DOMAIN ids : ids[i] = ids[pos] /\ slots'[i] = slot
  <1>1. slots \in [DOMAIN ids -> Slots] /\ DOMAIN ids = 1 .. Len(ids) /\ Len(ids) \in Nat
    BY DEF RowTypeOK
  <1>2. \E i \in DOMAIN ids : ids[i] = ids[pos] /\ IsLast(i)
    <2> DEFINE L == {n \in Nat : \E i \in DOMAIN ids : ids[i] = ids[pos] /\ i + n = Len(ids)}
    <2>1. Len(ids) - pos \in L
      BY <1>1
    <2>2. L # {} /\ L \in SUBSET Nat
      BY <2>1
    <2>3. PICK n \in L : \A m \in L : n <= m
      BY <2>2, LeastOf
    <2>4. PICK i \in DOMAIN ids : ids[i] = ids[pos] /\ i + n = Len(ids)
      BY <2>3
    <2>5. ASSUME NEW j \in DOMAIN ids, j > i, ids[j] = ids[i] PROVE FALSE
      <3>1. Len(ids) - j \in Nat /\ j + (Len(ids) - j) = Len(ids)
        BY <1>1, <2>5
      <3>2. Len(ids) - j \in L
        BY <2>4, <2>5, <3>1
      <3>3. n <= Len(ids) - j
        BY <2>3, <3>2
      <3>4. n \in Nat /\ i \in Nat /\ j \in Nat /\ Len(ids) \in Nat
        BY <1>1, <2>3
      <3> QED  BY <2>4, <2>5, <3>3, <3>4
    <2> QED  BY <2>4, <2>5 DEF IsLast
  <1> QED  BY <1>1, <1>2 DEF Deliver

\* At first nobody may be stepped.
LEMMA InitRows == Init => CompleteInv
  <1> SUFFICES ASSUME Init PROVE CompleteInv
    OBVIOUS
  <1>1. VectorInv  BY InitVector
  <1>2. <<>> \in Seq(Env)  OBVIOUS
  <1>3. RowTypeOK  BY <1>2 DEF Init, RowTypeOK
  <1>4. RowInv  BY DEF Init, RowInv, FirstReset
  <1>5. CompleteRows  BY DEF Init, CompleteRows
  <1> QED  BY <1>1, <1>3, <1>4, <1>5 DEF CompleteInv

\* A call that is refused, or begins with nobody asked.
LEMMA StartKeepsRows ==
  ASSUME CompleteInv, NEW sel \in Seq(Env), StartReset(sel) \/ StartStep(sel)
  PROVE  CompleteInv'
  <1> USE DEF CompleteInv
  <1>1. VectorInv'  BY StartKeepsVector
  <1>2. op = "none" /\ <<>> \in Seq(Env)
    BY DEF StartReset, StartStep
  <1>3. CASE zombie
    <2>1. /\ op' = op /\ at' = at /\ pos' = pos /\ ids' = <<>> /\ answer' = "error"
          /\ UNCHANGED <<alive, exhausted, active, faults, known>>
      BY <1>3 DEF StartReset, StartStep, Refused, vector, worlds, history
    <2>2. RowTypeOK'
      BY <1>2, <2>1 DEF RowTypeOK, VectorInv, CallInv
    <2>3. RowInv'
      BY <1>2, <2>1 DEF RowInv, Obstacle, FirstReset
    <2> QED  BY <1>1, <2>1, <2>2, <2>3 DEF CompleteRows
  <1>4. CASE ~zombie
    <2>1. /\ op' \in {"reset", "step"} /\ at' = "backend" /\ ids' = sel /\ pos' = 1
          /\ slots' = [i \in DOMAIN sel |-> NoSlot]
          /\ UNCHANGED <<alive, exhausted, active, faults, known>>
      BY <1>2, <1>4 DEF StartReset, StartStep, Enter, vector, worlds, VectorInv, AliveUntilZombie
    <2>2. NoSlot \in Slots /\ NoSlot.obs = "none"
      BY DEF NoSlot, Slots
    <2>3. RowTypeOK'
      BY <1>2, <2>1, <2>2 DEF RowTypeOK
    <2>4. DOMAIN ids' = 1 .. Len(sel) /\ Len(sel) \in Nat
      BY <2>1
    <2>5. \A i \in DOMAIN ids' : ~(i < pos')
      BY <2>1, <2>4
    <2>6. \A i \in DOMAIN ids' : slots'[i].obs = "none"
      BY <2>1, <2>2
    <2>7. ASSUME Obstacle \/ FirstReset PROVE Obstacle' \/ FirstReset'
      BY <1>2, <2>1, <2>5, <2>7 DEF Obstacle, FirstReset
    <2>8. RowInv'
      BY <2>1, <2>5, <2>6, <2>7 DEF RowInv
    <2> QED  BY <1>1, <2>1, <2>3, <2>8 DEF CompleteRows
  <1> QED  BY <1>3, <1>4

\* A call that is given up with an error: after a failure there is nothing to
\* say, and without one a dead environment was asked.
LEMMA FailKeepsRows ==
  ASSUME CompleteInv, Fail, known' = known, alive' = alive, exhausted' \subseteq Env,
         active' \in [Env -> BOOLEAN], faults' \in Nat,
         faults' = 0 => /\ faults = 0 /\ exhausted' = exhausted /\ active' = active
                        /\ op = "reset" => alive \cap exhausted # {}
  PROVE  RowTypeOK' /\ RowInv' /\ CompleteRows'
  <1> USE DEF CompleteInv
  <1>1. op' = "none" /\ at' = "idle" /\ pos' = 0 /\ ids' = ids /\ answer' = "error"
    BY DEF Fail, Leave
  <1>2. RowTypeOK'
    BY <1>1 DEF RowTypeOK
  <1>3. RowInv'
    <2>1. ASSUME faults' = 0, "obs" \notin known PROVE Obstacle' \/ FirstReset'
      <3>1. CASE op = "reset"
        BY <1>1, <2>1, <3>1 DEF Obstacle
      <3>2. CASE op # "reset"
        <4>1. Obstacle \/ FirstReset
          BY <2>1 DEF RowInv
        <4> QED  BY <1>1, <2>1, <3>2, <4>1 DEF Obstacle, FirstReset
      <3> QED  BY <3>1, <3>2
    <2> QED  BY <1>1, <2>1 DEF RowInv
  <1> QED  BY <1>1, <1>2, <1>3 DEF CompleteRows

\* A slot that is filled.
LEMMA FilledIs ==
  ASSUME NEW slot \in Slots
  PROVE  /\ Filled(slot) \in Slots
         /\ "obs" \in known' => Filled(slot).obs # "none"
         /\ slot.obs # "none" => Filled(slot).obs # "none"
  BY DEF Filled, Slots

\* What a call under way does to its rows.
LEMMA ProceedKeepsRows == CompleteInv /\ Proceed => RowTypeOK' /\ RowInv' /\ CompleteRows'
  <1> SUFFICES ASSUME CompleteInv, Proceed PROVE RowTypeOK' /\ RowInv' /\ CompleteRows'
    OBVIOUS
  <1> USE DEF CompleteInv
  <1>0. /\ DOMAIN ids = 1 .. Len(ids) /\ Len(ids) \in Nat /\ pos \in Nat
        /\ op # "none" => slots \in [DOMAIN ids -> Slots] /\ pos > 0
        /\ \A i \in DOMAIN ids : ids[i] \in Env
    BY DEF RowTypeOK
  <1>1. CASE SkipRetired
    <2>1. /\ op \in {"reset", "step"} /\ at = "backend" /\ pos <= Len(ids)
          /\ ids[pos] \notin alive
          /\ pos' = pos + 1 /\ UNCHANGED <<op, at, ids, slots, answer>>
          /\ UNCHANGED <<alive, exhausted, active, faults, known>>
      BY <1>1 DEF SkipRetired, Requested, vector, worlds, history
    <2>2. RowTypeOK'
      BY <1>0, <2>1 DEF RowTypeOK
    <2>3. \A i \in DOMAIN ids : i < pos + 1 => i < pos \/ i = pos
      BY <1>0
    <2>4. (Obstacle => Obstacle') /\ (FirstReset => FirstReset')
      BY <2>1, <2>3 DEF Obstacle, FirstReset
    <2>5. RowInv'
      BY <2>1, <2>3, <2>4 DEF RowInv
    <2> QED  BY <2>1, <2>2, <2>5 DEF CompleteRows
  <1>2. CASE BackendDone
    <2>1. /\ at = "backend" /\ pos > Len(ids) /\ at' = "check"
          /\ UNCHANGED <<op, ids, pos, slots, answer>>
          /\ UNCHANGED <<alive, exhausted, active, faults, known>>
      BY <1>2 DEF BackendDone, vector, worlds, history
    <2>2. RowTypeOK'
      BY <2>1 DEF RowTypeOK
    <2>3. RowInv'
      BY <2>1 DEF RowInv, Obstacle, FirstReset
    <2> QED  BY <2>1, <2>2, <2>3 DEF CompleteRows, VectorInv, CallInv
  <1>3. CASE ComponentFails
    <2>1. /\ Fault /\ Fail
          /\ UNCHANGED <<alive, exhausted, active, known>>
      BY <1>3 DEF ComponentFails, vector, worlds
    <2>2. faults' \in Nat /\ faults' # 0
      BY <2>1 DEF Fault, RowTypeOK
    <2> QED  BY <2>1, <2>2, FailKeepsRows DEF RowTypeOK
  <1>4. CASE Retire
    <2>1. /\ op = "reset" /\ at = "check" /\ at' = "log"
          /\ alive' = alive \ {ids[i] : i \in {j \in DOMAIN ids : slots[j].obs = "none"}}
          /\ UNCHANGED <<op, ids, pos, slots, answer, exhausted, active, faults, known>>
      BY <1>4 DEF Retire, worlds, history
    <2>2. pos > Len(ids)
      BY <2>1 DEF RowTypeOK
    <2>3. RowTypeOK'
      BY <2>1, <2>2 DEF RowTypeOK
    <2>4. ASSUME Obstacle PROVE Obstacle'
      <3>1. PICK d \in alive \cap exhausted : \A i \in DOMAIN ids : i < pos => ids[i] # d
        BY <2>1, <2>4 DEF Obstacle
      <3>2. \A i \in DOMAIN ids : ids[i] # d
        BY <1>0, <2>2, <3>1
      <3>3. d \in alive' \cap exhausted'
        BY <2>1, <3>1, <3>2
      <3> QED  BY <2>1, <3>2, <3>3 DEF Obstacle
    <2>5. FirstReset => FirstReset'
      BY <2>1 DEF FirstReset
    <2>6. \A i \in DOMAIN ids : ids[i] \in alive' => slots[i].obs # "none"
      BY <2>1
    <2>7. RowInv'
      BY <2>1, <2>4, <2>5, <2>6 DEF RowInv
    <2> QED  BY <2>1, <2>3, <2>7 DEF CompleteRows
  <1>5. CASE FinishReset
    <2>1. /\ op = "reset" /\ at = "log" /\ op' = "none" /\ at' = "idle" /\ pos' = 0
          /\ known' = IF Seen THEN known \cup {"obs"} ELSE known
          /\ slots' = [i \in DOMAIN slots |-> Filled(slots[i])]
          /\ answer' = "ok" => alive # {}
          /\ UNCHANGED <<ids, alive, exhausted, active, faults>>
      BY <1>5 DEF FinishReset, EndReset, Leave, worlds, history
    <2>2. RowTypeOK'
      BY <2>1 DEF RowTypeOK
    <2>3. DOMAIN slots = DOMAIN ids
      BY <1>0, <2>1
    <2>4. ASSUME faults = 0, "obs" \notin known' PROVE Obstacle' \/ FirstReset'
      <3>1. ~Seen /\ "obs" \notin known
        BY <2>1, <2>4
      <3>2. Obstacle \/ FirstReset
        BY <2>4, <3>1 DEF RowInv
      <3>3. FirstReset => FirstReset'
        BY <2>1, <2>3, <3>1 DEF FirstReset, Seen
      <3> QED  BY <2>1, <3>2, <3>3 DEF Obstacle
    <2>5. RowInv'
      BY <2>1, <2>4 DEF RowInv
    <2>6. CompleteRows'
      <3> SUFFICES ASSUME answer' = "ok", \A e \in Env : \E i \in DOMAIN ids : ids[i] = e
                   PROVE  \A i \in DOMAIN slots' : slots'[i].obs # "none"
        BY <2>1 DEF CompleteRows
      <3>1. PICK e \in alive : TRUE
        BY <2>1
      <3>2. PICK i \in DOMAIN ids : ids[i] = e
        BY <3>1 DEF RowTypeOK
      <3>3. slots[i].obs = "own"
        BY <2>1, <3>1, <3>2 DEF RowInv
      <3>4. "obs" \in known'
        BY <2>1, <2>3, <3>2, <3>3 DEF Seen
      <3>5. \A j \in DOMAIN ids : slots[j] \in Slots
        BY <1>0, <2>1
      <3> QED  BY <2>1, <2>3, <3>4, <3>5, FilledIs
    <2> QED  BY <2>2, <2>5, <2>6
  <1>6. CASE LogStep
    <2>1. /\ op = "step" /\ at = "check" /\ at' = "log"
          /\ UNCHANGED <<op, ids, pos, slots, answer>>
          /\ UNCHANGED <<alive, exhausted, active, faults, known>>
      BY <1>6 DEF LogStep, vector, worlds, history
    <2>2. RowTypeOK'
      BY <2>1 DEF RowTypeOK
    <2>3. RowInv'
      BY <2>1 DEF RowInv, Obstacle, FirstReset
    <2> QED  BY <2>1, <2>2, <2>3 DEF CompleteRows
  <1>7. CASE FinishStep
    <2>1. /\ op = "step" /\ at = "log" /\ op' = "none" /\ at' = "idle" /\ pos' = 0
          /\ known \subseteq known' /\ ("obs" \in known' => "obs" \in known)
          /\ slots' = [i \in DOMAIN slots |-> Filled(slots[i])]
          /\ UNCHANGED <<ids, alive, exhausted, active, faults>>
      BY <1>7 DEF FinishStep, Leave, worlds, history
    <2>2. RowTypeOK'
      BY <2>1 DEF RowTypeOK
    <2>3. DOMAIN slots = DOMAIN ids /\ pos > Len(ids)
      BY <1>0, <2>1 DEF RowTypeOK
    <2>4. RowInv'
      BY <2>1 DEF RowInv, Obstacle, FirstReset
    <2>5. CompleteRows'
      <3> SUFFICES ASSUME faults = 0, \A e \in Env : \E i \in DOMAIN ids : ids[i] = e
                   PROVE  \A i \in DOMAIN slots' : slots'[i].obs # "none"
        BY <2>1 DEF CompleteRows
      <3>1. \A e \in alive : active[e]
        <4>1. \A i \in DOMAIN ids : i < pos
          BY <1>0, <2>3
        <4> QED  BY <2>1, <4>1 DEF RowInv, RowTypeOK
      <3>2. ~Obstacle
        BY <3>1 DEF Obstacle, RowInv
      <3>3. alive # {} /\ alive \subseteq Env
        BY <2>1 DEF VectorInv, CallInv, RowTypeOK
      <3>4. ~FirstReset
        BY <2>1, <3>1, <3>3 DEF FirstReset
      <3>5. "obs" \in known'
        BY <2>1, <3>2, <3>4 DEF RowInv
      <3>6. \A j \in DOMAIN ids : slots[j] \in Slots
        BY <1>0, <2>1
      <3> QED  BY <2>1, <2>3, <3>5, <3>6, FilledIs
    <2> QED  BY <2>2, <2>4, <2>5
  <1>8. ASSUME NEW e \in Env, StartEpisode(e) \/ RunOut(e) \/ LoseInReset(e)
        PROVE  RowTypeOK' /\ RowInv' /\ CompleteRows'
    <2>1. /\ op = "reset" /\ at = "backend" /\ pos \in DOMAIN ids /\ e = ids[pos] /\ e \in alive
          /\ e \notin exhausted
      BY <1>0, <1>8 DEF StartEpisode, RunOut, LoseInReset, Asked, Requested
    <2> DEFINE own == [NoSlot EXCEPT !.obs = "own"]
    <2>2. own \in Slots /\ NoSlot \in Slots /\ own.obs = "own" /\ NoSlot.obs = "none"
      BY DEF NoSlot, Slots
    <2> HIDE DEF own
    <2>3. PICK slot \in {own, NoSlot} :
            /\ Deliver(slot)
            /\ \/ /\ exhausted' = exhausted /\ active' = [active EXCEPT ![e] = TRUE]
                  /\ slot = own \/ Fault
               \/ /\ exhausted' = exhausted \cup {e} /\ active' = [active EXCEPT ![e] = FALSE]
                  /\ slot = NoSlot
            /\ Fault \/ faults' = faults
      BY <1>8 DEF StartEpisode, RunOut, LoseInReset, Exhaust, history, own
    <2>4. UNCHANGED <<alive, known>> /\ at' = at
      BY <1>8, <2>3 DEF StartEpisode, RunOut, LoseInReset, vector, Deliver
    <2>5. /\ slots' \in [DOMAIN ids -> Slots] /\ pos' = pos + 1 /\ op' = op /\ ids' = ids
          /\ \A i \in DOMAIN ids : slots'[i] = slot \/ slots'[i] = slots[i]
          /\ \A i \in DOMAIN ids : ids[i] # e => slots'[i] = slots[i]
          /\ \E i \in DOMAIN ids : ids[i] = e /\ slots'[i] = slot
      BY <2>1, <2>2, <2>3, <2>4, DeliverKeepsTypes
    <2>6. /\ faults' \in Nat /\ (Fault => faults' # 0)
      BY <2>3 DEF Fault, RowTypeOK
    <2>7. RowTypeOK'
      <3>1. active' \in [Env -> BOOLEAN] /\ exhausted' \subseteq Env
        BY <2>3 DEF RowTypeOK
      <3> QED  BY <1>0, <2>1, <2>4, <2>5, <2>6, <3>1 DEF RowTypeOK
    <2>8. ASSUME faults' = 0 PROVE \A d \in exhausted' : ~active'[d]
      BY <2>1, <2>3, <2>6, <2>8 DEF RowInv, RowTypeOK
    <2>9. ASSUME faults' = 0, Obstacle PROVE Obstacle'
      <3>1. PICK d \in alive \cap exhausted : \A i \in DOMAIN ids : i < pos => ids[i] # d
        BY <2>1, <2>9 DEF Obstacle
      <3>2. \A i \in DOMAIN ids : i < pos + 1 => i < pos \/ i = pos
        BY <1>0
      <3>3. d # e
        BY <2>1, <3>1
      <3>4. d \in alive' \cap exhausted'
        BY <2>3, <2>4, <3>1
      <3>5. \A i \in DOMAIN ids : i < pos + 1 => ids[i] # d
        BY <2>1, <3>1, <3>2, <3>3
      <3> QED  BY <2>5, <3>4, <3>5 DEF Obstacle
    <2>10. ASSUME faults' = 0, FirstReset PROVE FirstReset'
      <3>1. ~Fault /\ faults = 0
        BY <2>3, <2>6, <2>10
      <3>2. ASSUME NEW d \in Env, active'[d]
            PROVE  \E i \in DOMAIN ids : ids[i] = d /\ slots'[i].obs = "own"
        <4>1. CASE d = e
          <5>1. slot = own
            BY <2>3, <3>1, <3>2, <4>1 DEF RowTypeOK
          <5> QED  BY <2>2, <2>5, <4>1, <5>1
        <4>2. CASE d # e
          <5>1. active[d]
            BY <2>3, <3>2, <4>2 DEF RowTypeOK
          <5> QED  BY <2>5, <2>10, <4>2, <5>1 DEF FirstReset
        <4> QED  BY <4>1, <4>2
      <3> QED  BY <2>1, <2>5, <3>2 DEF FirstReset
    <2>11. faults' = 0 => faults = 0
      BY <2>3, <2>6
    <2>12. \A i \in DOMAIN ids : slots'[i].obs \in {"own", "none"}
      BY <2>1, <2>2, <2>5 DEF RowInv
    <2>13. RowInv'
      BY <2>1, <2>4, <2>5, <2>8, <2>9, <2>10, <2>11, <2>12 DEF RowInv
    <2>14. CompleteRows'
      BY <2>1, <2>5 DEF CompleteRows
    <2> QED  BY <2>7, <2>13, <2>14
  <1>9. ASSUME NEW e \in Env, ResetFails(e) \/ StepFails(e)
        PROVE  RowTypeOK' /\ RowInv' /\ CompleteRows'
    <2>1. /\ Fault /\ Fail /\ UNCHANGED <<alive, known>>
          /\ exhausted' \in {exhausted, exhausted \cup {e}}
          /\ \/ active' = active
             \/ active' = [active EXCEPT ![e] = TRUE] \/ active' = [active EXCEPT ![e] = FALSE]
      BY <1>9 DEF ResetFails, StepFails, Exhaust, vector
    <2>2. faults' \in Nat /\ faults' # 0
      BY <2>1 DEF Fault, RowTypeOK
    <2>3. active' \in [Env -> BOOLEAN] /\ exhausted' \subseteq Env
      BY <2>1 DEF RowTypeOK
    <2> QED  BY <2>1, <2>2, <2>3, FailKeepsRows
  <1>10. ASSUME NEW e \in Env, DeadReset(e) \/ InactiveStep(e)
         PROVE  RowTypeOK' /\ RowInv' /\ CompleteRows'
    <2>1. /\ Fail /\ UNCHANGED <<alive, known, exhausted, active, faults>>
          /\ op = "reset" => e \in alive \cap exhausted
      BY <1>10 DEF DeadReset, InactiveStep, Asked, Requested, vector, worlds, history
    <2> QED  BY <2>1, FailKeepsRows DEF RowTypeOK
  <1>11. ASSUME NEW e \in Env, PlayStep(e)
         PROVE  RowTypeOK' /\ RowInv' /\ CompleteRows'
    <2>1. /\ op = "step" /\ at = "backend" /\ pos \in DOMAIN ids /\ e = ids[pos] /\ active[e]
          /\ UNCHANGED <<alive, known, exhausted, active, faults>>
      BY <1>0, <1>11 DEF PlayStep, Asked, Requested, vector
    <2>2. PICK obs \in {"own", "none"} :
            Deliver([obs |-> obs, reward |-> TRUE, done |-> left[e] <= 1])
      BY <1>11 DEF PlayStep
    <2>3. [obs |-> obs, reward |-> TRUE, done |-> left[e] <= 1] \in Slots
      BY DEF Slots
    <2>4. at' = at
      BY <2>2 DEF Deliver
    <2>5. slots' \in [DOMAIN ids -> Slots] /\ pos' = pos + 1 /\ op' = op /\ ids' = ids
      BY <2>1, <2>2, <2>3, <2>4, DeliverKeepsTypes
    <2>6. RowTypeOK'
      BY <1>0, <2>1, <2>4, <2>5 DEF RowTypeOK
    <2>7. \A i \in DOMAIN ids : i < pos + 1 => i < pos \/ i = pos
      BY <1>0
    <2>8. RowInv'
      BY <2>1, <2>5, <2>7 DEF RowInv, Obstacle, FirstReset
    <2> QED  BY <2>1, <2>5, <2>6, <2>8 DEF CompleteRows
  <1> QED
    BY <1>1, <1>2, <1>3, <1>4, <1>5, <1>6, <1>7, <1>8, <1>9, <1>10, <1>11 DEF Proceed

\* CompleteInv is inductive.
LEMMA StutterKeepsRows == CompleteInv /\ UNCHANGED vectorVars => CompleteInv'
  <1> SUFFICES ASSUME CompleteInv, UNCHANGED vectorVars PROVE CompleteInv'
    OBVIOUS
  <1>1. UNCHANGED <<alive, zombie, exhausted, active, known, op, at, ids, pos, slots, answer,
                    faults>>
    BY DEF vectorVars, vector, worlds, call, history
  <1> QED
    BY <1>1 DEF CompleteInv, VectorInv, AliveUntilZombie, CallInv, RowTypeOK, RowInv, Obstacle,
                FirstReset, CompleteRows

\* When nothing has failed, an accepted reset or step that asks for everyone
\* returns an observation in every place, whoever has been retired before and
\* however often an environment was named: the default observation is always
\* captured by then (finite_vector.rs, reset and step_many).
THEOREM RowsAreComplete == Spec => []CompleteRows
  <1>1. Init => CompleteInv  BY InitRows
  <1>2. CompleteInv /\ [Next]_vectorVars => CompleteInv'
    <2> SUFFICES ASSUME CompleteInv, [Next]_vectorVars PROVE CompleteInv'
      OBVIOUS
    <2>1. ASSUME NEW sel \in Selections, StartReset(sel) \/ StartStep(sel)
          PROVE  CompleteInv'
      BY <2>1, StartKeepsRows, VectorAssumption
    <2>2. CASE Proceed
      BY <2>2, ProceedKeepsRows, ProceedKeepsVector DEF CompleteInv
    <2>3. CASE UNCHANGED vectorVars
      BY <2>3, StutterKeepsRows
    <2> QED  BY <2>1, <2>2, <2>3 DEF Next, Ask
  <1>3. CompleteInv => CompleteRows  BY DEF CompleteInv
  <1> QED  BY <1>1, <1>2, <1>3, PTL DEF Spec

-----------------------------------------------------------------------------
(* Types, and what an episode is known by: its seed.  No two environments  *)
(* run the same one, and a seed is over only when its environment has no   *)
(* step left.                                                              *)

\* What a call returns has a place for each of its ids.
ShapeOK == /\ op # "none" => DOMAIN slots = DOMAIN ids /\ pos > 0
           /\ answer = "ok" => DOMAIN slots = DOMAIN ids

\* Whoever may be stepped has a seed.
ActiveOK == \A e \in Env : active[e] => episode[e] # 0

TypeInv == VectorTypeOK /\ ShapeOK /\ ActiveOK

\* A place that says done is of an episode that is over, and one with an
\* observation that does not is of one that is not.
SlotInv(i) == /\ slots[i].done => episode[ids[i]] \in finished
              /\ slots[i].obs = "own" /\ ~slots[i].done => episode[ids[i]] \notin finished

Answered == op # "none" \/ answer = "ok"

EpisodeInv ==
  /\ \A e \in Env : left[e] > 0 => episode[e] \notin finished
  /\ \A e, d \in Env : e # d /\ episode[e] = episode[d] => episode[e] = 0
  /\ op # "none" /\ ~doubled => ~Twice(ids)
  /\ ~doubled /\ Answered => \A i \in DOMAIN ids : SlotInv(i)
  /\ faults = 0 /\ exhausted # {} => supply # Endless /\ drawn = supply
  /\ answer = "exhausted" => op = "none" /\ alive = {}

LEMMA InitTypes == Init => TypeInv
  <1> SUFFICES ASSUME Init PROVE TypeInv
    OBVIOUS
  <1>1. <<>> \in Seq(Env) /\ <<>> \in Seq(Slots)
    OBVIOUS
  <1>2. /\ MaxLength \in Nat /\ MaxFaults \in Nat /\ Supplies \subseteq Nat \cup {Endless}
    BY VectorAssumption
  <1>3. /\ active = [e \in Env |-> FALSE] /\ episode = [e \in Env |-> 0]
        /\ left = [e \in Env |-> 0] /\ supply \in Supplies
    BY DEF Init
  <1>4. supply # Endless => 0 <= supply
    BY <1>2, <1>3
  <1>5. /\ active \in [Env -> BOOLEAN] /\ episode \in [Env -> 0 .. 0]
        /\ left \in [Env -> 0 .. MaxLength]
    BY <1>2, <1>3
  <1>6. /\ alive = Env /\ zombie = FALSE /\ known = {} /\ drawn = 0 /\ exhausted = {}
        /\ op = "none" /\ at = "idle" /\ ids = <<>> /\ pos = 0 /\ slots = <<>>
        /\ answer = "none" /\ finished = {} /\ abandoned = {} /\ faults = 0
        /\ doubled = FALSE
    BY DEF Init
  <1>7. drawn \in Nat /\ 0 .. 0 = 0 .. drawn /\ faults \in 0 .. MaxFaults
    BY <1>2, <1>6
  <1>8. VectorTypeOK
    BY <1>1, <1>3, <1>4, <1>5, <1>6, <1>7 DEF VectorTypeOK
  <1> QED  BY <1>3, <1>6, <1>8 DEF TypeInv, ShapeOK, ActiveOK

LEMMA StartKeepsTypes ==
  ASSUME TypeInv, NEW sel \in Seq(Env), StartReset(sel) \/ StartStep(sel)
  PROVE  TypeInv'
  <1>1. op = "none" /\ <<>> \in Seq(Env) /\ <<>> \in Seq(Slots)
    BY DEF StartReset, StartStep
  <1>2. CASE zombie
    <2>1. /\ ids' = <<>> /\ slots' = <<>> /\ answer' = "error"
          /\ UNCHANGED <<op, at, pos, alive, zombie, known, supply, drawn, exhausted, active>>
          /\ UNCHANGED <<episode, left, finished, abandoned, faults, doubled>>
      BY <1>2 DEF StartReset, StartStep, Refused, vector, worlds, history
    <2> QED  BY <1>1, <2>1 DEF TypeInv, VectorTypeOK, ShapeOK, ActiveOK
  <1>3. CASE ~zombie
    <2>1. /\ op' \in {"reset", "step"} /\ at' = "backend" /\ ids' = sel /\ pos' = 1
          /\ slots' = [i \in DOMAIN sel |-> NoSlot] /\ answer' = "none"
          /\ doubled' = (doubled \/ Twice(sel))
          /\ alive' \in {alive, Env}
          /\ UNCHANGED <<zombie, known, supply, drawn, exhausted, active>>
          /\ UNCHANGED <<episode, left, finished, abandoned, faults>>
      BY <1>3 DEF StartReset, StartStep, Enter, vector, worlds
    <2>2. NoSlot \in Slots
      BY DEF NoSlot, Slots
    <2>3. DOMAIN sel = 1 .. Len(sel) /\ Len(sel) \in Nat
      OBVIOUS
    <2>4. slots' \in Seq(Slots) /\ DOMAIN slots' = DOMAIN sel
      BY <2>1, <2>2, <2>3
    <2>5. doubled' \in BOOLEAN
      BY <2>1 DEF TypeInv, VectorTypeOK, Twice
    <2>6. VectorTypeOK'
      BY <2>1, <2>4, <2>5 DEF TypeInv, VectorTypeOK
    <2>7. ShapeOK'
      BY <2>1, <2>4 DEF ShapeOK
    <2> QED  BY <2>1, <2>6, <2>7 DEF TypeInv, ActiveOK
  <1> QED  BY <1>2, <1>3

\* A slot is put into places that were there.
LEMMA DeliverKeepsShape ==
  ASSUME TypeInv, op # "none", NEW slot \in Slots, Deliver(slot)
  PROVE  /\ slots' \in Seq(Slots) /\ DOMAIN slots' = DOMAIN ids' /\ DOMAIN ids' = DOMAIN ids
         /\ pos' \in Nat /\ pos' > 0
         /\ UNCHANGED <<op, at, ids, answer>>
         /\ ids \in Seq(Env)
  <1>1. /\ slots \in Seq(Slots) /\ pos \in Nat /\ DOMAIN slots = DOMAIN ids
        /\ DOMAIN slots = 1 .. Len(slots) /\ Len(slots) \in Nat
        /\ \A i \in DOMAIN slots : slots[i] \in Slots
    BY DEF TypeInv, VectorTypeOK, ShapeOK
  <1>2. /\ pos' = pos + 1 /\ UNCHANGED <<op, at, ids, answer>>
        /\ slots' = [i \in DOMAIN slots |->
                       IF ids[i] = ids[pos] /\ IsLast(i) THEN slot ELSE slots[i]]
    BY DEF Deliver
  <1>3. slots' \in Seq(Slots) /\ DOMAIN slots' = DOMAIN slots
    BY <1>1, <1>2
  <1>4. pos' \in Nat /\ pos' > 0
    BY <1>1, <1>2
  <1>5. ids \in Seq(Env)
    BY DEF TypeInv, VectorTypeOK
  <1> QED  BY <1>1, <1>2, <1>3, <1>4, <1>5

\* The worlds of a reset: seeds are drawn one after the other.
LEMMA DrawKeepsTypes ==
  ASSUME VectorTypeOK, NEW e \in Env, Install(e, drawn'), drawn' = drawn + 1
  PROVE  /\ episode' \in [Env -> 0 .. drawn'] /\ left' \in [Env -> 0 .. MaxLength]
         /\ abandoned' \subseteq 1 .. drawn'
         /\ episode'[e] = drawn + 1 /\ left'[e] > 0
         /\ \A d \in Env \ {e} : episode'[d] = episode[d] /\ left'[d] = left[d]
  <1>1. /\ drawn \in Nat /\ episode \in [Env -> 0 .. drawn] /\ left \in [Env -> 0 .. MaxLength]
        /\ abandoned \subseteq 1 .. drawn
    BY DEF VectorTypeOK
  <1>2. 0 .. drawn \subseteq 0 .. drawn' /\ 1 .. drawn \subseteq 1 .. drawn'
        /\ drawn' \in 0 .. drawn'
    BY <1>1
  <1>3. episode' = [episode EXCEPT ![e] = drawn']
    BY DEF Install
  <1>4. PICK n \in 1 .. MaxLength : left' = [left EXCEPT ![e] = n]
    BY DEF Install
  <1>5. MaxLength \in Nat /\ n \in 0 .. MaxLength /\ n > 0
    BY VectorAssumption, <1>4
  <1>6. episode[e] \notin {0} => episode[e] \in 1 .. drawn
    BY <1>1
  <1>7. abandoned' \subseteq 1 .. drawn'
    BY <1>1, <1>2, <1>6 DEF Install
  <1>8. episode' \in [Env -> 0 .. drawn']
    BY <1>1, <1>2, <1>3
  <1>9. left' \in [Env -> 0 .. MaxLength]
    BY <1>1, <1>4, <1>5
  <1> QED  BY <1>1, <1>3, <1>4, <1>5, <1>7, <1>8, <1>9

\* The types of the worlds, of the call, and of the rest.
WorldTypes == /\ supply \in Supplies /\ drawn \in Nat
              /\ supply # Endless => drawn <= supply
              /\ exhausted \subseteq Env
              /\ active \in [Env -> BOOLEAN]
              /\ episode \in [Env -> 0 .. drawn]
              /\ left \in [Env -> 0 .. MaxLength]
              /\ finished \subseteq 1 .. drawn /\ abandoned \subseteq 1 .. drawn
              /\ ActiveOK

CallTypes == /\ op \in {"none", "reset", "step"}
             /\ at \in {"idle", "backend", "check", "log"}
             /\ ids \in Seq(Env) /\ pos \in Nat
             /\ slots \in Seq(Slots)
             /\ answer \in {"none", "ok", "error", "exhausted"}
             /\ ShapeOK

RestTypes == /\ alive \subseteq Env /\ zombie \in BOOLEAN
             /\ known \subseteq {"obs", "reward"}
             /\ faults \in 0 .. MaxFaults /\ doubled \in BOOLEAN

LEMMA TypeParts == TypeInv <=> WorldTypes /\ CallTypes /\ RestTypes
  BY DEF TypeInv, VectorTypeOK, WorldTypes, CallTypes, RestTypes

\* A failure is one of those allowed.
LEMMA FaultKeepsTypes ==
  ASSUME RestTypes, Fault, UNCHANGED <<vector, doubled>>
  PROVE  RestTypes'
  <1>1. /\ faults \in 0 .. MaxFaults /\ faults < MaxFaults /\ faults' = faults + 1
        /\ UNCHANGED <<alive, zombie, known, doubled>>
    BY DEF RestTypes, Fault, vector
  <1>2. faults' \in 0 .. MaxFaults
    BY <1>1, VectorAssumption
  <1> QED  BY <1>1, <1>2 DEF RestTypes

\* A call that is given up has no places.
LEMMA FailKeepsTypes == CallTypes /\ Fail => CallTypes'
  <1> SUFFICES ASSUME CallTypes, Fail PROVE CallTypes'
    OBVIOUS
  <1>1. /\ op' = "none" /\ at' = "idle" /\ pos' = 0 /\ answer' = "error" /\ slots' = <<>>
        /\ ids' = ids
    BY DEF Fail, Leave
  <1>2. <<>> \in Seq(Slots)
    OBVIOUS
  <1> QED  BY <1>1, <1>2 DEF CallTypes, ShapeOK

LEMMA DeliverKeepsCall ==
  ASSUME TypeInv, op # "none", NEW slot \in Slots, Deliver(slot)
  PROVE  CallTypes'
  BY DeliverKeepsShape DEF TypeInv, VectorTypeOK, CallTypes, ShapeOK

\* The slots that are returned are filled.
LEMMA FilledKeepsTypes ==
  ASSUME TypeInv, op # "none", slots' = [i \in DOMAIN slots |-> Filled(slots[i])]
  PROVE  slots' \in Seq(Slots) /\ DOMAIN slots' = DOMAIN ids
  <1>1. /\ slots \in Seq(Slots) /\ DOMAIN slots = DOMAIN ids
        /\ DOMAIN slots = 1 .. Len(slots) /\ Len(slots) \in Nat
        /\ \A i \in DOMAIN slots : slots[i] \in Slots
    BY DEF TypeInv, VectorTypeOK, ShapeOK
  <1>2. \A i \in DOMAIN slots : Filled(slots[i]) \in Slots
    BY <1>1, FilledIs
  <1> QED  BY <1>1, <1>2

LEMMA ProceedKeepsTypes == TypeInv /\ Proceed => TypeInv'
  <1> SUFFICES ASSUME TypeInv, Proceed PROVE WorldTypes' /\ CallTypes' /\ RestTypes'
    BY DEF TypeInv, VectorTypeOK, WorldTypes, CallTypes, RestTypes
  <1>0. /\ WorldTypes /\ CallTypes /\ RestTypes
        /\ MaxLength \in Nat /\ MaxLength > 0 /\ Supplies \subseteq Nat \cup {Endless}
    BY TypeParts, VectorAssumption
  <1>a. ASSUME UNCHANGED worlds, UNCHANGED <<finished, abandoned>> PROVE WorldTypes'
    BY <1>0, <1>a DEF worlds, WorldTypes, ActiveOK
  <1>b. ASSUME UNCHANGED vector, UNCHANGED <<faults, doubled>> PROVE RestTypes'
    BY <1>0, <1>b DEF vector, RestTypes
  <1>1. CASE SkipRetired
    <2>1. /\ pos' = pos + 1 /\ UNCHANGED <<op, at, ids, slots, answer>>
          /\ UNCHANGED vector /\ UNCHANGED worlds
          /\ UNCHANGED <<finished, abandoned, faults, doubled>>
      BY <1>1 DEF SkipRetired, history
    <2>2. CallTypes'
      BY <1>0, <2>1 DEF CallTypes, ShapeOK
    <2> QED  BY <1>a, <1>b, <2>1, <2>2
  <1>2. CASE BackendDone \/ LogStep
    <2>1. /\ at' \in {"check", "log"} /\ UNCHANGED <<op, ids, pos, slots, answer>>
          /\ UNCHANGED vector /\ UNCHANGED worlds
          /\ UNCHANGED <<finished, abandoned, faults, doubled>>
      BY <1>2 DEF BackendDone, LogStep, history
    <2>2. CallTypes'
      BY <1>0, <2>1 DEF CallTypes, ShapeOK
    <2> QED  BY <1>a, <1>b, <2>1, <2>2
  <1>3. CASE ComponentFails
    BY <1>0, <1>3, <1>a, FaultKeepsTypes, FailKeepsTypes DEF ComponentFails
  <1>4. CASE Retire
    <2>1. /\ at' = "log" /\ UNCHANGED <<op, ids, pos, slots, answer>>
          /\ alive' \subseteq alive /\ UNCHANGED <<zombie, known>>
          /\ UNCHANGED worlds /\ UNCHANGED <<finished, abandoned, faults, doubled>>
      BY <1>4 DEF Retire, history
    <2>2. CallTypes'
      BY <1>0, <2>1 DEF CallTypes, ShapeOK
    <2>3. RestTypes'
      BY <1>0, <2>1 DEF RestTypes
    <2> QED  BY <1>a, <2>1, <2>2, <2>3
  <1>5. CASE FinishReset \/ FinishStep
    <2>1. /\ op # "none" /\ op' = "none" /\ at' = "idle" /\ pos' = 0 /\ ids' = ids
          /\ answer' \in {"ok", "error", "exhausted"}
          /\ slots' = [i \in DOMAIN slots |-> Filled(slots[i])]
          /\ known' \in {known, known \cup {"obs"}, known \cup {"reward"}}
          /\ zombie' \in {zombie, TRUE, FALSE} /\ alive' = alive
          /\ UNCHANGED worlds /\ UNCHANGED <<finished, abandoned, faults, doubled>>
      BY <1>5 DEF FinishReset, EndReset, FinishStep, Leave, history
    <2>2. slots' \in Seq(Slots) /\ DOMAIN slots' = DOMAIN ids
      BY <2>1, FilledKeepsTypes
    <2>3. CallTypes'
      BY <1>0, <2>1, <2>2 DEF CallTypes, ShapeOK
    <2>4. RestTypes'
      BY <1>0, <2>1 DEF RestTypes
    <2> QED  BY <1>a, <2>1, <2>3, <2>4
  <1>6. ASSUME NEW e \in Env, DeadReset(e) \/ InactiveStep(e)
        PROVE  WorldTypes' /\ CallTypes' /\ RestTypes'
    BY <1>0, <1>6, <1>a, <1>b, FailKeepsTypes DEF DeadReset, InactiveStep, history
  <1>7. ASSUME NEW e \in Env, PlayStep(e) \/ StepFails(e)
        PROVE  WorldTypes' /\ CallTypes' /\ RestTypes'
    <2>1. /\ op # "none" /\ active[e]
          /\ UNCHANGED <<supply, drawn, exhausted, active, episode, abandoned, doubled>>
          /\ UNCHANGED vector
          /\ left' \in {left, [left EXCEPT ![e] = Spent(left[e])]}
          /\ finished' \in {finished, finished \cup {episode[e]}}
      BY <1>7 DEF PlayStep, StepFails, Asked, Requested
    <2>2. left[e] \in 0 .. MaxLength /\ episode[e] \in 1 .. drawn
      BY <1>0, <2>1 DEF WorldTypes, ActiveOK
    <2>3. Spent(left[e]) \in 0 .. MaxLength
      BY <1>0, <2>2 DEF Spent
    <2>4. left' \in [Env -> 0 .. MaxLength]
      BY <1>0, <2>1, <2>3 DEF WorldTypes
    <2>5. WorldTypes'
      BY <1>0, <2>1, <2>2, <2>4 DEF WorldTypes, ActiveOK
    <2>6. CallTypes'
      <3>1. CASE PlayStep(e)
        <4>1. PICK obs \in {"own", "none"} :
                Deliver([obs |-> obs, reward |-> TRUE, done |-> left[e] <= 1])
          BY <3>1 DEF PlayStep
        <4>2. [obs |-> obs, reward |-> TRUE, done |-> left[e] <= 1] \in Slots
          BY DEF Slots
        <4> QED  BY <2>1, <4>1, <4>2, DeliverKeepsCall
      <3>2. CASE StepFails(e)
        BY <1>0, <3>2, FailKeepsTypes DEF StepFails
      <3> QED  BY <1>7, <3>1, <3>2
    <2>7. RestTypes'
      <3>1. CASE PlayStep(e)
        BY <1>b, <3>1 DEF PlayStep
      <3>2. CASE StepFails(e)
        BY <1>0, <2>1, <3>2, FaultKeepsTypes DEF StepFails
      <3> QED  BY <1>7, <3>1, <3>2
    <2> QED  BY <2>5, <2>6, <2>7
  <1>8. ASSUME NEW e \in Env,
               StartEpisode(e) \/ RunOut(e) \/ LoseInReset(e) \/ ResetFails(e)
        PROVE  WorldTypes' /\ CallTypes' /\ RestTypes'
    <2>1. /\ op # "none" /\ UNCHANGED <<supply, finished, doubled>> /\ UNCHANGED vector
          /\ Fault \/ faults' = faults
          /\ \/ UNCHANGED <<drawn, episode, left, abandoned>>
             \/ SeedLeft /\ drawn' = drawn + 1 /\ UNCHANGED <<episode, left, abandoned>>
             \/ SeedLeft /\ drawn' = drawn + 1 /\ Install(e, drawn')
          /\ \/ UNCHANGED <<exhausted, active>>
             \/ /\ exhausted' = exhausted \cup {e}
                /\ active' = [active EXCEPT ![e] = FALSE]
             \/ /\ exhausted' = exhausted /\ active' = [active EXCEPT ![e] = TRUE]
                /\ SeedLeft /\ drawn' = drawn + 1 /\ Install(e, drawn')
      BY <1>8 DEF StartEpisode, RunOut, LoseInReset, ResetFails, Asked, Requested, Exhaust,
                  KeepEpisode, history
    <2>2. /\ drawn \in Nat /\ drawn' \in {drawn, drawn + 1}
          /\ supply # Endless => drawn' <= supply
      BY <1>0, <2>1 DEF SeedLeft, WorldTypes
    <2>3. 0 .. drawn \subseteq 0 .. drawn' /\ 1 .. drawn \subseteq 1 .. drawn' /\ drawn' \in Nat
      BY <2>2
    <2>4. /\ episode' \in [Env -> 0 .. drawn'] /\ left' \in [Env -> 0 .. MaxLength]
          /\ abandoned' \subseteq 1 .. drawn'
          /\ \A d \in Env : episode[d] # 0 => episode'[d] # 0
          /\ Install(e, drawn') /\ drawn' = drawn + 1 => episode'[e] # 0
      <3>1. CASE UNCHANGED <<episode, left, abandoned>> /\ ~(Install(e, drawn') /\ drawn' = drawn + 1)
        <4>1. \A x \in Env : episode[x] \in 0 .. drawn'
          BY <1>0, <2>3 DEF WorldTypes
        <4>2. /\ episode \in [Env -> 0 .. drawn] /\ left \in [Env -> 0 .. MaxLength]
              /\ abandoned \subseteq 1 .. drawn
          BY <1>0 DEF WorldTypes
        <4>3. episode \in [Env -> 0 .. drawn']
          BY <4>1, <4>2
        <4> QED  BY <2>3, <3>1, <4>2, <4>3
      <3>2. CASE Install(e, drawn') /\ drawn' = drawn + 1
        <4>1. /\ episode' \in [Env -> 0 .. drawn'] /\ left' \in [Env -> 0 .. MaxLength]
              /\ abandoned' \subseteq 1 .. drawn' /\ episode'[e] = drawn + 1
              /\ \A d \in Env \ {e} : episode'[d] = episode[d]
          BY <3>2, DrawKeepsTypes DEF TypeInv
        <4>2. drawn + 1 # 0
          BY <2>2
        <4> QED  BY <4>1, <4>2
      <3> QED  BY <2>1, <3>1, <3>2
    <2>5. active' \in [Env -> BOOLEAN] /\ exhausted' \subseteq Env
      BY <1>0, <2>1 DEF WorldTypes
    <2>6. ActiveOK'
      BY <1>0, <2>1, <2>4 DEF WorldTypes, ActiveOK
    <2>7. WorldTypes'
      BY <1>0, <2>1, <2>2, <2>3, <2>4, <2>5, <2>6 DEF WorldTypes
    <2>8. CallTypes'
      <3>1. CASE ResetFails(e)
        BY <1>0, <3>1, FailKeepsTypes DEF ResetFails
      <3>2. CASE StartEpisode(e) \/ RunOut(e) \/ LoseInReset(e)
        <4>1. NoSlot \in Slots /\ [NoSlot EXCEPT !.obs = "own"] \in Slots
          BY DEF NoSlot, Slots
        <4>2. Deliver(NoSlot) \/ Deliver([NoSlot EXCEPT !.obs = "own"])
          BY <3>2 DEF StartEpisode, RunOut, LoseInReset
        <4> QED  BY <2>1, <4>1, <4>2, DeliverKeepsCall
      <3> QED  BY <1>8, <3>1, <3>2
    <2>9. RestTypes'
      BY <1>0, <1>b, <2>1, FaultKeepsTypes
    <2> QED  BY <2>7, <2>8, <2>9
  <1> QED
    BY <1>1, <1>2, <1>3, <1>4, <1>5, <1>6, <1>7, <1>8 DEF Proceed

LEMMA StutterKeepsTypes == TypeInv /\ UNCHANGED vectorVars => TypeInv'
  BY DEF vectorVars, vector, worlds, call, history, TypeInv, VectorTypeOK, ShapeOK, ActiveOK

\* The vector environment keeps its types: whatever fails, no more seeds are
\* drawn than there are and no seed is over that was never drawn.
THEOREM VectorTypes == Spec => []VectorTypeOK
  <1>1. Init => TypeInv  BY InitTypes
  <1>2. TypeInv /\ [Next]_vectorVars => TypeInv'
    <2> SUFFICES ASSUME TypeInv, [Next]_vectorVars PROVE TypeInv'
      OBVIOUS
    <2>1. ASSUME NEW sel \in Selections, StartReset(sel) \/ StartStep(sel)
          PROVE  TypeInv'
      BY <2>1, StartKeepsTypes, VectorAssumption
    <2>2. CASE Proceed
      BY <2>2, ProceedKeepsTypes
    <2>3. CASE UNCHANGED vectorVars
      BY <2>3, StutterKeepsTypes
    <2> QED  BY <2>1, <2>2, <2>3 DEF Next, Ask
  <1>3. TypeInv => VectorTypeOK  BY DEF TypeInv
  <1> QED  BY <1>1, <1>2, <1>3, PTL DEF Spec

-----------------------------------------------------------------------------
(* That the seeds in use are distinct and the places of an answer tell     *)
(* whose episode is over.                                                  *)

VectorOK == SeedInv /\ TypeInv /\ EpisodeInv

LEMMA InitEpisodes == Init => EpisodeInv
  <1> SUFFICES ASSUME Init PROVE EpisodeInv
    OBVIOUS
  <1>1. /\ left = [e \in Env |-> 0] /\ episode = [e \in Env |-> 0] /\ op = "none"
        /\ answer = "none" /\ exhausted = {}
    BY DEF Init
  <1> QED  BY <1>1 DEF EpisodeInv, Answered

LEMMA StartKeepsEpisodes ==
  ASSUME TypeInv, EpisodeInv, NEW sel \in Seq(Env), StartReset(sel) \/ StartStep(sel)
  PROVE  EpisodeInv'
  <1>1. op = "none"
    BY DEF StartReset, StartStep
  <1>2. CASE zombie
    <2>1. /\ ids' = <<>> /\ answer' = "error"
          /\ UNCHANGED <<op, supply, drawn, exhausted, episode, left, finished, faults>>
      BY <1>2 DEF StartReset, StartStep, Refused, vector, worlds, history
    <2> QED  BY <1>1, <2>1 DEF EpisodeInv, Answered
  <1>3. CASE ~zombie
    <2>1. /\ ids' = sel /\ answer' = "none" /\ doubled' = (doubled \/ Twice(sel))
          /\ slots' = [i \in DOMAIN sel |-> NoSlot]
          /\ UNCHANGED <<supply, drawn, exhausted, episode, left, finished, faults>>
      BY <1>3 DEF StartReset, StartStep, Enter, vector, worlds
    <2>2. \A i \in DOMAIN ids' : SlotInv(i)'
      BY <2>1 DEF SlotInv, NoSlot
    <2>3. ~doubled' => ~Twice(ids)'
      BY <2>1 DEF Twice
    <2> QED  BY <2>1, <2>2, <2>3 DEF EpisodeInv
  <1> QED  BY <1>2, <1>3

\* When no id is there twice an answer goes to one place.
LEMMA DeliverToOne ==
  ASSUME TypeInv, op # "none", ~Twice(ids), pos \in DOMAIN ids, NEW slot, Deliver(slot)
  PROVE  /\ UNCHANGED <<op, ids, answer>> /\ pos' = pos + 1
         /\ slots'[pos] = slot
         /\ \A i \in DOMAIN ids \ {pos} : slots'[i] = slots[i] /\ ids[i] # ids[pos]
  <1>1. /\ UNCHANGED <<op, ids, answer>> /\ pos' = pos + 1
        /\ slots' = [i \in DOMAIN slots |->
                       IF ids[i] = ids[pos] /\ IsLast(i) THEN slot ELSE slots[i]]
    BY DEF Deliver
  <1>2. \A j \in DOMAIN ids \ {pos} : ids[j] # ids[pos]
    BY DEF Twice
  <1>3. ids \in Seq(Env) /\ pos \in Nat /\ DOMAIN slots = DOMAIN ids
    BY DEF TypeInv, VectorTypeOK, ShapeOK
  <1>4. IsLast(pos)
    <2>1. \A j \in DOMAIN ids : j > pos => j # pos
      BY <1>3
    <2> QED  BY <1>2, <2>1 DEF IsLast
  <1>5. slots'[pos] = slot
    BY <1>1, <1>3, <1>4
  <1>6. \A j \in DOMAIN ids \ {pos} : slots'[j] = slots[j]
    BY <1>1, <1>2, <1>3
  <1> QED  BY <1>1, <1>2, <1>5, <1>6

\* A call that goes on without touching an episode, or is given up.
LEMMA CallKeepsEpisodes ==
  ASSUME EpisodeInv, UNCHANGED <<episode, left, finished, drawn, supply, doubled, ids, alive>>,
         op # "none",
         \/ exhausted' = exhausted /\ faults' = faults
         \/ faults' # 0,
         \/ UNCHANGED <<op, slots, answer>>
         \/ op' = "none" /\ answer' = "error"
  PROVE  EpisodeInv'
  BY DEF EpisodeInv, Answered, SlotInv, Twice

\* A seed just drawn is nobody else's, and not over.
LEMMA DrawIsFresh ==
  ASSUME TypeInv, EpisodeInv, NEW e \in Env, finished' = finished,
         \/ UNCHANGED <<episode, left>>
         \/ drawn' = drawn + 1 /\ Install(e, drawn')
  PROVE  /\ \A d \in Env : left'[d] > 0 => episode'[d] \notin finished'
         /\ \A d, f \in Env : d # f /\ episode'[d] = episode'[f] => episode'[d] = 0
         /\ \A d \in Env \ {e} : episode'[d] = episode[d]
         /\ episode'[e] = episode[e] \/ episode'[e] \notin finished
         /\ drawn' = drawn + 1 /\ Install(e, drawn') => episode'[e] \notin finished
  <1>1. CASE UNCHANGED <<episode, left>> /\ ~(drawn' = drawn + 1 /\ Install(e, drawn'))
    BY <1>1 DEF EpisodeInv
  <1>2. CASE drawn' = drawn + 1 /\ Install(e, drawn')
    <2>1. /\ episode'[e] = drawn + 1
          /\ \A d \in Env \ {e} : episode'[d] = episode[d] /\ left'[d] = left[d]
      BY <1>2, DrawKeepsTypes DEF TypeInv
    <2>2. /\ drawn \in Nat /\ \A d \in Env : episode[d] \in 0 .. drawn
          /\ finished \subseteq 1 .. drawn
      BY DEF TypeInv, VectorTypeOK
    <2>3. drawn + 1 \notin 1 .. drawn /\ drawn + 1 \notin 0 .. drawn
      BY <2>2
    <2>4. drawn + 1 \notin finished /\ \A d \in Env : episode[d] # drawn + 1
      BY <2>2, <2>3
    <2>5. \A d \in Env : left'[d] > 0 => episode'[d] \notin finished'
      BY <2>1, <2>4 DEF EpisodeInv
    <2>6. \A d, f \in Env : d # f /\ episode'[d] = episode'[f] => episode'[d] = 0
      BY <2>1, <2>4 DEF EpisodeInv
    <2> QED  BY <2>1, <2>4, <2>5, <2>6
  <1> QED  BY <1>1, <1>2

LEMMA ProceedKeepsEpisodes == VectorInv /\ TypeInv /\ EpisodeInv /\ Proceed => EpisodeInv'
  <1> SUFFICES ASSUME VectorInv, TypeInv, EpisodeInv, Proceed PROVE EpisodeInv'
    OBVIOUS
  <1>0. /\ pos \in Nat /\ DOMAIN ids = 1 .. Len(ids) /\ Len(ids) \in Nat
        /\ op # "none" => pos > 0 /\ DOMAIN slots = DOMAIN ids
        /\ faults \in Nat
        /\ \A i \in DOMAIN ids : ids[i] \in Env
    <2>1. ids \in Seq(Env) /\ pos \in Nat /\ faults \in 0 .. MaxFaults
      BY DEF TypeInv, VectorTypeOK
    <2>2. op # "none" => pos > 0 /\ DOMAIN slots = DOMAIN ids
      BY DEF TypeInv, ShapeOK
    <2> QED  BY <2>1, <2>2
  <1>1. CASE SkipRetired \/ BackendDone \/ LogStep
    <2>1. /\ op # "none"
          /\ UNCHANGED <<episode, left, finished, drawn, supply, doubled, ids, alive>>
          /\ UNCHANGED <<exhausted, faults, op, slots, answer>>
      BY <1>1 DEF SkipRetired, BackendDone, LogStep, Requested, vector, worlds, history,
                  VectorInv, CallInv
    <2> QED  BY <2>1, CallKeepsEpisodes
  <1>2. CASE ComponentFails
    <2>1. /\ op # "none" /\ op' = "none" /\ answer' = "error" /\ Fault
          /\ UNCHANGED <<episode, left, finished, drawn, supply, doubled, ids, alive>>
      BY <1>2 DEF ComponentFails, Fail, Leave, vector, worlds, VectorInv, CallInv
    <2>2. faults' # 0
      BY <1>0, <2>1 DEF Fault
    <2> QED  BY <2>1, <2>2, CallKeepsEpisodes
  <1>3. CASE Retire
    <2>1. /\ op # "none"
          /\ UNCHANGED <<episode, left, finished, drawn, supply, doubled, ids>>
          /\ UNCHANGED <<exhausted, faults, op, slots, answer>>
      BY <1>3 DEF Retire, worlds, history
    <2> QED  BY <2>1 DEF EpisodeInv, Answered, SlotInv, Twice
  <1>4. CASE FinishReset \/ FinishStep
    <2>1. /\ op # "none" /\ op' = "none"
          /\ UNCHANGED <<episode, left, finished, drawn, supply, doubled, ids, alive>>
          /\ UNCHANGED <<exhausted, faults>>
          /\ slots' = [i \in DOMAIN slots |-> Filled(slots[i])]
          /\ answer' = "exhausted" => alive = {}
      BY <1>4 DEF FinishReset, EndReset, FinishStep, Leave, worlds, history
    <2>2. ASSUME NEW i \in DOMAIN ids
          PROVE  /\ slots'[i].done = slots[i].done
                 /\ slots'[i].obs = "own" <=> slots[i].obs = "own"
      <3>1. slots \in Seq(Slots)
        BY DEF TypeInv, VectorTypeOK
      <3>2. slots[i] \in Slots /\ slots'[i] = Filled(slots[i])
        BY <1>0, <2>1, <3>1
      <3> QED  BY <3>2 DEF Filled, Slots
    <2>3. ~doubled => \A i \in DOMAIN ids : SlotInv(i)'
      BY <2>1, <2>2 DEF EpisodeInv, Answered, SlotInv
    <2> QED  BY <2>1, <2>3 DEF EpisodeInv
  <1>5. ASSUME NEW e \in Env, DeadReset(e) \/ InactiveStep(e)
        PROVE  EpisodeInv'
    <2>1. /\ op # "none" /\ op' = "none" /\ answer' = "error"
          /\ UNCHANGED <<episode, left, finished, drawn, supply, doubled, ids, alive>>
          /\ UNCHANGED <<exhausted, faults>>
      BY <1>5 DEF DeadReset, InactiveStep, Asked, Requested, Fail, Leave, vector, worlds,
                  history
    <2> QED  BY <2>1, CallKeepsEpisodes
  <1>6. ASSUME NEW e \in Env, PlayStep(e) PROVE EpisodeInv'
    <2>1. /\ op = "step" /\ pos \in DOMAIN ids /\ e = ids[pos] /\ active[e]
          /\ left' = [left EXCEPT ![e] = Spent(left[e])]
          /\ finished' = IF left[e] <= 1 THEN finished \cup {episode[e]} ELSE finished
          /\ UNCHANGED <<supply, drawn, exhausted, episode, faults, doubled, alive>>
      BY <1>0, <1>6 DEF PlayStep, Asked, Requested, vector
    <2>2. PICK obs \in {"own", "none"} :
            Deliver([obs |-> obs, reward |-> TRUE, done |-> left[e] <= 1])
      BY <1>6 DEF PlayStep
    <2>3. UNCHANGED <<op, ids, answer>>
      BY <2>2 DEF Deliver
    <2>4. /\ left \in [Env -> 0 .. MaxLength] /\ episode[e] # 0
          /\ \A d \in Env : left[d] \in Nat
      BY <2>1, VectorAssumption DEF TypeInv, VectorTypeOK, ActiveOK
    <2>5. /\ left'[e] > 0 => left[e] > 1
          /\ \A d \in Env \ {e} : left'[d] = left[d] /\ episode[d] # episode[e]
      BY <2>1, <2>4 DEF Spent, EpisodeInv
    <2>6. \A d \in Env : left'[d] > 0 => episode'[d] \notin finished'
      BY <2>1, <2>4, <2>5 DEF EpisodeInv
    <2>7. ASSUME ~doubled, NEW i \in DOMAIN ids PROVE SlotInv(i)'
      <3>1. /\ slots'[pos] = [obs |-> obs, reward |-> TRUE, done |-> left[e] <= 1]
            /\ \A j \in DOMAIN ids \ {pos} : slots'[j] = slots[j] /\ ids[j] # ids[pos]
        BY <2>1, <2>2, <2>7, DeliverToOne DEF EpisodeInv
      <3>2. CASE i = pos
        <4>1. slots'[i].done = (left[e] <= 1) /\ ids'[i] = e
          BY <2>1, <2>3, <3>1, <3>2
        <4>2. CASE left[e] <= 1
          BY <2>1, <4>1, <4>2 DEF SlotInv
        <4>3. CASE ~(left[e] <= 1)
          <5>1. episode[e] \notin finished
            BY <2>4, <4>3 DEF EpisodeInv
          <5> QED  BY <2>1, <4>1, <4>3, <5>1 DEF SlotInv
        <4> QED  BY <4>2, <4>3
      <3>3. CASE i # pos
        <4>1. slots'[i] = slots[i] /\ ids'[i] = ids[i] /\ ids[i] \in Env \ {e}
          BY <1>0, <2>1, <2>3, <3>1, <3>3
        <4>2. SlotInv(i)
          BY <2>1, <2>7 DEF EpisodeInv, Answered
        <4>3. episode[ids[i]] # episode[e]
          BY <2>5, <4>1
        <4> QED  BY <2>1, <4>1, <4>2, <4>3 DEF SlotInv
      <3> QED  BY <3>2, <3>3
    <2> QED  BY <2>1, <2>3, <2>6, <2>7 DEF EpisodeInv, Twice
  <1>7. ASSUME NEW e \in Env, StepFails(e) PROVE EpisodeInv'
    <2>1. /\ op' = "none" /\ answer' = "error" /\ Fault
          /\ left' \in {left, [left EXCEPT ![e] = Spent(left[e])]}
          /\ UNCHANGED <<supply, drawn, exhausted, episode, finished, doubled, alive>>
      BY <1>7 DEF StepFails, Fail, Leave, vector
    <2>2. faults' # 0
      BY <1>0, <2>1 DEF Fault
    <2>3. \A d \in Env : left'[d] > 0 => left[d] > 0
      <3>1. left \in [Env -> 0 .. MaxLength]
        BY DEF TypeInv, VectorTypeOK
      <3>2. Spent(left[e]) > 0 => left[e] > 0
        BY <3>1, VectorAssumption DEF Spent
      <3> QED  BY <2>1, <3>1, <3>2
    <2> QED  BY <2>1, <2>2, <2>3 DEF EpisodeInv, Answered
  <1>8. ASSUME NEW e \in Env, ResetFails(e) PROVE EpisodeInv'
    <2>1. /\ op' = "none" /\ answer' = "error" /\ Fault
          /\ UNCHANGED <<finished, doubled, alive>>
          /\ \/ UNCHANGED <<episode, left>>
             \/ drawn' = drawn + 1 /\ Install(e, drawn')
      BY <1>8 DEF ResetFails, KeepEpisode, Fail, Leave, vector
    <2>2. faults' # 0
      BY <1>0, <2>1 DEF Fault
    <2>3. /\ \A d \in Env : left'[d] > 0 => episode'[d] \notin finished'
          /\ \A d, f \in Env : d # f /\ episode'[d] = episode'[f] => episode'[d] = 0
      BY <2>1, DrawIsFresh
    <2> QED  BY <2>1, <2>2, <2>3 DEF EpisodeInv, Answered
  <1>9. ASSUME NEW e \in Env, StartEpisode(e) \/ RunOut(e) \/ LoseInReset(e)
        PROVE  EpisodeInv'
    <2>1. /\ op = "reset" /\ pos \in DOMAIN ids /\ e = ids[pos] /\ e \notin exhausted
          /\ UNCHANGED <<supply, finished, doubled, alive>>
          /\ \/ UNCHANGED <<episode, left>>
             \/ drawn' = drawn + 1 /\ Install(e, drawn')
      BY <1>0, <1>9 DEF StartEpisode, RunOut, LoseInReset, Asked, Requested, KeepEpisode,
                        vector, worlds, history
    <2> DEFINE own == [NoSlot EXCEPT !.obs = "own"]
    <2>2. /\ own.done = FALSE /\ NoSlot.done = FALSE /\ NoSlot.obs = "none"
      BY DEF NoSlot
    <2> HIDE DEF own
    <2>3. PICK slot \in {own, NoSlot} :
            /\ Deliver(slot)
            /\ slot = own => drawn' = drawn + 1 /\ Install(e, drawn')
      <3>1. StartEpisode(e) => Deliver(own) /\ drawn' = drawn + 1 /\ Install(e, drawn')
        BY DEF StartEpisode, own
      <3>2. RunOut(e) \/ LoseInReset(e) => Deliver(NoSlot)
        BY DEF RunOut, LoseInReset
      <3>3. NoSlot # own
        BY DEF NoSlot, own
      <3> QED  BY <1>9, <3>1, <3>2, <3>3
    <2>4. /\ \A d \in Env : left'[d] > 0 => episode'[d] \notin finished'
          /\ \A d, f \in Env : d # f /\ episode'[d] = episode'[f] => episode'[d] = 0
          /\ \A d \in Env \ {e} : episode'[d] = episode[d]
          /\ slot = own => episode'[e] \notin finished'
      BY <2>1, <2>3, DrawIsFresh
    <2>5. UNCHANGED <<op, ids, answer>>
      BY <2>3 DEF Deliver
    <2>6. ASSUME ~doubled, NEW i \in DOMAIN ids PROVE SlotInv(i)'
      <3>1. /\ slots'[pos] = slot
            /\ \A j \in DOMAIN ids \ {pos} : slots'[j] = slots[j] /\ ids[j] # ids[pos]
        BY <2>1, <2>3, <2>6, DeliverToOne DEF EpisodeInv
      <3>2. CASE i = pos
        <4>1. slots'[i] = slot /\ ids'[i] = e
          BY <2>1, <2>5, <3>1, <3>2
        <4> QED  BY <2>2, <2>3, <2>4, <4>1 DEF SlotInv
      <3>3. CASE i # pos
        <4>1. slots'[i] = slots[i] /\ ids'[i] = ids[i] /\ ids[i] \in Env \ {e}
          BY <1>0, <2>1, <2>5, <3>1, <3>3
        <4>2. SlotInv(i)
          BY <2>1, <2>6 DEF EpisodeInv, Answered
        <4>3. episode'[ids[i]] = episode[ids[i]]
          BY <2>4, <4>1
        <4> QED  BY <2>1, <4>1, <4>2, <4>3 DEF SlotInv
      <3> QED  BY <3>2, <3>3
    <2>7. ASSUME faults' = 0, exhausted' # {}
          PROVE  supply' # Endless /\ drawn' = supply'
      <3>1. Fault => faults' # 0
        BY <1>0 DEF Fault
      <3>2. faults = 0 /\ (StartEpisode(e) \/ RunOut(e))
        BY <1>9, <2>7, <3>1 DEF StartEpisode, RunOut, LoseInReset, history
      <3>3. supply # Endless => supply \in Nat /\ drawn \in Nat /\ drawn <= supply
        BY VectorAssumption DEF TypeInv, VectorTypeOK
      <3>4. CASE StartEpisode(e)
        <4>1. SeedLeft /\ exhausted' = exhausted
          BY <3>4 DEF StartEpisode
        <4>2. supply # Endless /\ drawn = supply
          BY <2>7, <3>2, <4>1 DEF EpisodeInv
        <4> QED  BY <3>3, <4>1, <4>2 DEF SeedLeft
      <3>5. CASE RunOut(e)
        <4>1. ~SeedLeft /\ UNCHANGED <<supply, drawn>>
          BY <3>5 DEF RunOut
        <4> QED  BY <3>3, <4>1 DEF SeedLeft
      <3> QED  BY <3>2, <3>4, <3>5
    <2>8. op # "none" /\ answer' = "exhausted" => FALSE
      BY <2>1, <2>5 DEF EpisodeInv
    <2> QED  BY <2>1, <2>4, <2>5, <2>6, <2>7, <2>8 DEF EpisodeInv, Twice
  <1> QED
    BY <1>1, <1>2, <1>3, <1>4, <1>5, <1>6, <1>7, <1>8, <1>9 DEF Proceed

=============================================================================
