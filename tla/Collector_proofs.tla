-------------------------- MODULE Collector_proofs --------------------------
(* Proofs about Collector, for any environments, supplies and failures.    *)
EXTENDS Collector, FiniteVector_proofs, FunctionTheorems, FiniteSetTheorems

-----------------------------------------------------------------------------
(* The numbers of a set in order.                                          *)

\* They can be put in order: by the largest of them, the others before it.
LEMMA OrderExists ==
  ASSUME NEW n \in Nat, NEW S \in SUBSET (1 .. n)
  PROVE  /\ IsFiniteSet(S) /\ Cardinality(S) \in Nat /\ Cardinality(S) <= n
         /\ \E s \in [1 .. Cardinality(S) -> S] :
              \A i, j \in 1 .. Cardinality(S) : i < j => s[i] < s[j]
  <1> DEFINE Ordered(T) == \E s \in [1 .. Cardinality(T) -> T] :
                             \A i, j \in 1 .. Cardinality(T) : i < j => s[i] < s[j]
  <1>1. \A m \in Nat : \A T \in SUBSET (1 .. m) :
          IsFiniteSet(T) /\ Cardinality(T) \in Nat /\ Cardinality(T) <= m
    <2> TAKE m \in Nat
    <2> TAKE T \in SUBSET (1 .. m)
    <2>1. IsFiniteSet(1 .. m) /\ Cardinality(1 .. m) = m
      <3>1. 1 \in Int /\ m \in Int
        OBVIOUS
      <3>2. /\ IsFiniteSet(1 .. m)
            /\ Cardinality(1 .. m) = IF 1 > m THEN 0 ELSE m - 1 + 1
        BY <3>1, FS_Interval
      <3> QED  BY <3>2
    <2>2. IsFiniteSet(T) /\ Cardinality(T) <= Cardinality(1 .. m)
      BY <2>1, FS_Subset
    <2> QED  BY <2>1, <2>2, FS_CardinalityType
  <1>2. \A m \in Nat : \A T \in SUBSET (1 .. m) : Ordered(T)
    <2> SUFFICES ASSUME NEW m0 \in Nat, NEW T0 \in SUBSET (1 .. m0), ~Ordered(T0)
                 PROVE  FALSE
      OBVIOUS
    <2> DEFINE bad == {m \in Nat : \E T \in SUBSET (1 .. m) : ~Ordered(T)}
    <2>1. PICK m \in bad : \A k \in bad : m <= k
      <3>1. m0 \in bad /\ bad \in SUBSET Nat
        OBVIOUS
      <3> HIDE DEF bad
      <3> QED  BY <3>1, LeastOf
    <2>2. PICK T \in SUBSET (1 .. m) : ~Ordered(T)
      BY <2>1
    <2>3. m \in Nat
      BY <2>1
    <2>4. m \in T
      <3> SUFFICES ASSUME m \notin T PROVE FALSE
        OBVIOUS
      <3>1. CASE m = 0
        <4>1. T = {}
          BY <2>2, <3>1
        <4>2. Cardinality(T) = 0
          BY <4>1, FS_EmptySet
        <4>3. 1 .. Cardinality(T) = {}
          BY <4>2
        <4>4. [i \in {} |-> 0] \in [1 .. Cardinality(T) -> T]
          BY <4>3
        <4> QED  BY <2>2, <4>3, <4>4
      <3>2. CASE m # 0
        <4>1. m - 1 \in Nat /\ T \in SUBSET (1 .. (m - 1))
          BY <2>2, <2>3, <3>2
        <4>2. m - 1 \in bad
          BY <2>2, <4>1
        <4>3. m <= m - 1
          BY <2>1, <4>2
        <4> QED  BY <2>3, <4>3
      <3> QED  BY <3>1, <3>2
    <2> DEFINE R == T \ {m}
    <2>5. /\ m - 1 \in Nat /\ R \in SUBSET (1 .. (m - 1))
          /\ m > 0
      BY <2>2, <2>3, <2>4
    <2>6. Ordered(R)
      <3>1. m - 1 \in bad => m <= m - 1
        BY <2>1
      <3>2. ~(m <= m - 1)
        BY <2>3
      <3>3. m - 1 \notin bad
        BY <3>1, <3>2
      <3> QED  BY <2>5, <3>3
    <2> DEFINE k == Cardinality(R)
    <2>7. k \in Nat /\ Cardinality(T) = k + 1
      <3>1. IsFiniteSet(T) /\ IsFiniteSet(R) /\ k \in Nat
        BY <1>1, <2>2, <2>3, <2>5
      <3>2. Cardinality(R \cup {m}) = k + 1
        BY <3>1, FS_AddElement
      <3>3. R \cup {m} = T
        BY <2>4
      <3> QED  BY <3>1, <3>2, <3>3
    <2>8. PICK r \in [1 .. k -> R] : \A i, j \in 1 .. k : i < j => r[i] < r[j]
      BY <2>6
    <2>9. \A i \in 1 .. k : r[i] \in T /\ r[i] < m
      <3> SUFFICES ASSUME NEW i \in 1 .. k PROVE r[i] \in T /\ r[i] < m
        OBVIOUS
      <3>1. r[i] \in R
        <4> HIDE DEF k, R
        <4> QED  BY <2>8
      <3>2. r[i] \in T /\ r[i] \in 1 .. (m - 1)
        BY <2>5, <3>1
      <3> QED  BY <2>3, <3>2
    <2> HIDE DEF k, R
    <2> DEFINE s == [i \in 1 .. (k + 1) |-> IF i = k + 1 THEN m ELSE r[i]]
    <2>10. \A i \in 1 .. (k + 1) : i # k + 1 => i \in 1 .. k
      BY <2>7
    <2>11. s \in [1 .. (k + 1) -> T]
      BY <2>4, <2>9, <2>10
    <2>12. ASSUME NEW i \in 1 .. (k + 1), NEW j \in 1 .. (k + 1), i < j
           PROVE  s[i] < s[j]
      <3>1. i # k + 1 /\ i \in 1 .. k
        BY <2>7, <2>12
      <3>2. s[i] = r[i]
        BY <2>7, <3>1
      <3>3. CASE j = k + 1
        BY <2>9, <3>1, <3>2, <3>3
      <3>4. CASE j # k + 1
        BY <2>8, <2>10, <3>1, <3>2, <3>4, <2>12
      <3> QED  BY <3>3, <3>4
    <2> HIDE DEF s
    <2>13. Ordered(T)
      BY <2>7, <2>11, <2>12
    <2> QED  BY <2>2, <2>13
  <1> QED  BY <1>1, <1>2

\* What InOrder returns: each member of the set, once, the small ones first.
LEMMA InOrderIs ==
  ASSUME NEW n \in Nat, NEW S \in SUBSET (1 .. n)
  PROVE  /\ InOrder(S) \in Seq(S) /\ Len(InOrder(S)) = Cardinality(S)
         /\ ~Twice(InOrder(S))
         /\ \A x \in S : \E i \in DOMAIN InOrder(S) : InOrder(S)[i] = x
         /\ IsFiniteSet(S) /\ Cardinality(S) \in Nat /\ Cardinality(S) <= n
  <1> DEFINE c == Cardinality(S)
             q == InOrder(S)
  <1>1. /\ IsFiniteSet(S) /\ c \in Nat /\ c <= n
        /\ \E s \in [1 .. c -> S] : \A i, j \in 1 .. c : i < j => s[i] < s[j]
    BY OrderExists
  <1>2. \E s \in [1 .. c -> S] : \A i, j \in DOMAIN s : i < j => s[i] < s[j]
    BY <1>1
  <1>3. q \in [1 .. c -> S] /\ \A i, j \in DOMAIN q : i < j => q[i] < q[j]
    BY <1>2 DEF InOrder
  <1> HIDE DEF c, q
  <1>4. q \in Seq(S) /\ Len(q) = c
    BY <1>1, <1>3
  <1>5. ASSUME NEW i \in 1 .. c, NEW j \in 1 .. c, i # j PROVE q[i] # q[j]
    <2>1. i < j \/ j < i
      BY <1>1, <1>5
    <2>2. q[i] \in S /\ q[j] \in S
      BY <1>3, <1>5
    <2>3. q[i] \in Nat /\ q[j] \in Nat
      <3>1. \A x \in S : x \in Nat
        OBVIOUS
      <3> QED  BY <2>2, <3>1
    <2> QED  BY <1>3, <2>1, <2>3
  <1>6. ~Twice(q)
    BY <1>3, <1>5 DEF Twice
  <1>7. q \in Surjection(1 .. c, S)
    <2>1. q \in Injection(1 .. c, S)
      BY <1>3, <1>5, Fun_IsInj
    <2>2. Cardinality(1 .. c) = c
      <3>1. 1 \in Int /\ c \in Int
        BY <1>1
      <3>2. Cardinality(1 .. c) = IF 1 > c THEN 0 ELSE c - 1 + 1
        BY <3>1, FS_Interval
      <3> QED  BY <1>1, <3>2
    <2>3. Cardinality(1 .. c) = Cardinality(S)
      BY <2>2 DEF c
    <2> QED  BY <1>1, <2>1, <2>3, FS_Injection
  <1>8. \A x \in S : \E i \in DOMAIN q : q[i] = x
    BY <1>3, <1>7 DEF Surjection
  <1> QED  BY <1>1, <1>4, <1>6, <1>8 DEF c, q

-----------------------------------------------------------------------------
(* The invariant.                                                          *)

\* The ids a call of this pass is about, and whether it is a reset.
Selected == IF pc = "step" THEN ready
            ELSE IF pc = "reset" THEN [j \in DOMAIN ended |-> ready[ended[j]]]
            ELSE All
Resetting == pc \in {"new", "reset", "final"}

ControlInv ==
  /\ pc \in {"idle", "new", "collect", "step", "reset", "last", "final"}
  /\ progress \in Nat /\ (kind = "train" => count \in Nat)
  /\ mark \in Nat /\ mark <= drawn
  /\ ~doubled
  /\ op # "none" => (Resetting /\ op = "reset") \/ (pc = "step" /\ op = "step")
  /\ (Resetting \/ pc = "step") /\ Answered => ids = Selected
  /\ Resetting /\ Answered => \A i \in DOMAIN ids : ~slots[i].done
  /\ kind = "evaluate" => supply # Endless /\ pc \notin {"last", "final"}
  /\ pc = "new" => progress = 0
  /\ pc # "idle" => outcome = "none"

\* Nobody takes part twice, and nobody is reset twice after a step.
ReadyInv ==
  /\ ready \in Seq(Env) /\ ~Twice(ready)
  /\ rows \in Seq(Nat)
  /\ pc = "reset" => ended \in Seq(DOMAIN ready) /\ ~Twice(ended)
  /\ pc \in {"collect", "step", "reset"} => Len(rows) = Len(ready)

\* While the ended ones are reset, the rows of the others stay theirs.
RowIs(i) == rows[i] \in {0, episode[ready[i]]} /\ (rows[i] # 0 => rows[i] \notin finished)
HasEnded(i) == \E j \in DOMAIN ended : ended[j] = i
RowsInv ==
  /\ pc = "collect" => \A i \in DOMAIN ready : RowIs(i)
  /\ pc = "reset" => \A i \in DOMAIN ready : HasEnded(i) \/ RowIs(i)

\* What those taking part can still record is wanted.
CountInv ==
  kind = "train" =>
    /\ pc \in {"collect", "step"} => Len(ready) + progress <= count
    /\ pc = "reset" => progress <= count /\ Len(ready) + progress <= count + Len(ended)
    /\ pc \in {"last", "final"} \/ outcome = "metrics" => progress = count

\* Every seed drawn in this pass is over or being run by somebody who is not
\* dead, and whoever is to be reset has nothing of this pass to lose.
CoverInv ==
  kind = "evaluate" /\ faults = 0 /\ (pc # "idle" \/ outcome = "nothing") =>
    /\ \A s \in mark + 1 .. drawn : s \in finished \/ \E e \in Env \ exhausted : episode[e] = s
    /\ op = "reset" => \A i \in DOMAIN ids :
                         i >= pos => episode[ids[i]] \in finished \/ episode[ids[i]] <= mark

CollectInv == /\ VectorOK /\ ControlInv /\ ReadyInv /\ RowsInv /\ CountInv /\ CoverInv
              /\ EvaluationRunsEverySeed

-----------------------------------------------------------------------------
(* What the environment keeps, whoever calls it.                           *)

LEMMA InitVectorOK == Init => VectorOK
  BY InitSeeds, InitTypes, InitEpisodes DEF VectorOK

LEMMA StartKeepsAll ==
  ASSUME VectorOK, NEW sel \in Seq(Env), StartReset(sel) \/ StartStep(sel)
  PROVE  VectorOK'
  BY StartKeepsVector, StartKeepsSeeds, StartKeepsTypes, StartKeepsEpisodes
     DEF VectorOK, SeedInv

LEMMA ProceedKeepsAll == VectorOK /\ Proceed => VectorOK'
  BY ProceedKeepsVector, ProceedKeepsSeeds, ProceedKeepsTypes, ProceedKeepsEpisodes
     DEF VectorOK, SeedInv

LEMMA StutterKeepsAll == VectorOK /\ UNCHANGED vectorVars => VectorOK'
  <1> SUFFICES ASSUME VectorOK, UNCHANGED vectorVars PROVE VectorOK'
    OBVIOUS
  <1>1. TypeInv'
    BY StutterKeepsTypes DEF VectorOK
  <1>2. /\ UNCHANGED <<alive, zombie, supply, drawn, exhausted, active, episode, left>>
        /\ UNCHANGED <<op, at, ids, pos, slots, answer, finished, faults, doubled>>
    BY DEF vectorVars, vector, worlds, call, history
  <1>3. SeedInv'
    BY <1>2 DEF VectorOK, SeedInv, VectorInv, AliveUntilZombie, CallInv, CallTypeOK, Twice,
                TrackInv, Walking, Clean, WalkInv, Unanswered
  <1>4. EpisodeInv'
    BY <1>2 DEF VectorOK, EpisodeInv, Answered, SlotInv, Twice
  <1> QED  BY <1>1, <1>3, <1>4 DEF VectorOK

\* A failure outside of it counts, and leaves it alone.
LEMMA FaultKeepsAll ==
  ASSUME VectorOK, Fault, UNCHANGED <<finished, abandoned, doubled, vector, worlds, call>>
  PROVE  VectorOK' /\ faults' # 0
  <1>1. /\ UNCHANGED <<alive, zombie, supply, drawn, exhausted, active, episode, left>>
        /\ UNCHANGED <<op, at, ids, pos, slots, answer, finished, abandoned, doubled, known>>
    BY DEF vector, worlds, call
  <1>2. faults \in Nat /\ faults' = faults + 1
    BY DEF VectorOK, SeedInv, CallTypeOK, Fault
  <1>3. faults' # 0 /\ faults' \in Nat
    BY <1>2
  <1>4. SeedInv'
    BY <1>1, <1>3 DEF VectorOK, SeedInv, VectorInv, AliveUntilZombie, CallInv, CallTypeOK, Twice,
                TrackInv, Walking, Clean
  <1>5. EpisodeInv'
    BY <1>1, <1>3 DEF VectorOK, EpisodeInv, Answered, SlotInv, Twice
  <1>6. WorldTypes' /\ CallTypes'
    BY <1>1, TypeParts DEF VectorOK, WorldTypes, CallTypes, ShapeOK, ActiveOK
  <1>7. RestTypes'
    BY TypeParts, FaultKeepsTypes DEF VectorOK
  <1>8. TypeInv'
    BY <1>6, <1>7 DEF TypeInv, VectorTypeOK, WorldTypes, CallTypes, RestTypes
  <1> QED  BY <1>3, <1>4, <1>5, <1>8 DEF VectorOK

\* A call that is begun is about the ids it was given.
LEMMA StartIs ==
  ASSUME NEW sel, StartReset(sel) \/ StartStep(sel), ~doubled, ~Twice(sel)
  PROVE  /\ op = "none" /\ ~doubled'
         /\ UNCHANGED <<supply, drawn, exhausted, episode, finished, faults>>
         /\ Answered' => ids' = sel /\ pos' = 1 /\ \A i \in DOMAIN sel : ~slots'[i].done
         /\ StartReset(sel) => op' \in {"none", "reset"}
         /\ StartStep(sel) => op' \in {"none", "step"}
  <1>1. op = "none"
    BY DEF StartReset, StartStep
  <1>2. CASE zombie
    BY <1>1, <1>2 DEF StartReset, StartStep, Refused, worlds, history, Answered
  <1>3. CASE ~zombie
    <2>1. NoSlot.done = FALSE
      BY DEF NoSlot
    <2>2. /\ ids' = sel /\ pos' = 1 /\ slots' = [i \in DOMAIN sel |-> NoSlot]
          /\ doubled' = (doubled \/ Twice(sel))
          /\ UNCHANGED <<supply, drawn, exhausted, episode, finished, faults>>
          /\ StartReset(sel) => op' = "reset"
          /\ StartStep(sel) => op' = "step"
      BY <1>3 DEF StartReset, StartStep, Enter, vector, worlds
    <2> QED  BY <1>1, <2>1, <2>2
  <1> QED  BY <1>2, <1>3

\* A call under way stays the call it is; a reset is about its ids only, ends
\* no episode, and no place it fills says done.
LEMMA ProceedIs ==
  ASSUME VectorOK, Proceed
  PROVE  /\ op # "none" /\ op' \in {op, "none"}
         /\ UNCHANGED <<supply, doubled, ids>> /\ drawn <= drawn'
         /\ op = "reset" =>
              /\ finished' = finished
              /\ \A e \in Env : (\A i \in DOMAIN ids : ids[i] # e) => episode'[e] = episode[e]
              /\ (\A i \in DOMAIN ids : ~slots[i].done) /\ Answered'
                   => \A i \in DOMAIN ids : ~slots'[i].done
  <1>0. /\ pos \in Nat /\ drawn \in Nat /\ DOMAIN ids = 1 .. Len(ids) /\ Len(ids) \in Nat
        /\ op # "none" => pos > 0 /\ DOMAIN slots = DOMAIN ids
        /\ at = "backend" => op # "none"
        /\ \A i \in DOMAIN ids : ids[i] \in Env /\ (op # "none" => slots[i] \in Slots)
    <2>1. ids \in Seq(Env) /\ pos \in Nat /\ drawn \in Nat /\ slots \in Seq(Slots)
      BY DEF VectorOK, TypeInv, VectorTypeOK
    <2>2. op # "none" => pos > 0 /\ DOMAIN slots = DOMAIN ids
      BY DEF VectorOK, TypeInv, ShapeOK
    <2>3. at = "backend" => op # "none"
      BY DEF VectorOK, SeedInv, VectorInv, CallInv
    <2> QED  BY <2>1, <2>2, <2>3
  <1> DEFINE Calm == (\A i \in DOMAIN ids : ~slots[i].done)
             Goal == /\ op # "none" /\ op' \in {op, "none"}
                     /\ UNCHANGED <<supply, doubled, ids>> /\ drawn <= drawn'
                     /\ op = "reset" =>
                          /\ finished' = finished
                          /\ \A e \in Env : (\A i \in DOMAIN ids : ids[i] # e)
                               => episode'[e] = episode[e]
                          /\ Calm /\ Answered' => \A i \in DOMAIN ids : ~slots'[i].done
  <1>1. CASE SkipRetired \/ BackendDone \/ Retire \/ LogStep
    <2>1. /\ op # "none"
          /\ UNCHANGED <<op, ids, slots, supply, drawn, episode, finished, doubled>>
      BY <1>0, <1>1 DEF SkipRetired, BackendDone, Retire, LogStep, Requested, worlds, history
    <2> QED  BY <1>0, <2>1
  <1>2. CASE ComponentFails
    <2>1. /\ op # "none" /\ op' = "none" /\ answer' = "error"
          /\ UNCHANGED <<ids, supply, drawn, episode, finished, doubled>>
      BY <1>2 DEF ComponentFails, Fail, Leave, worlds, VectorOK, SeedInv, VectorInv, CallInv
    <2> QED  BY <1>0, <2>1 DEF Answered
  <1>3. CASE FinishReset \/ FinishStep
    <2>1. /\ op # "none" /\ op' = "none"
          /\ UNCHANGED <<ids, supply, drawn, episode, finished, doubled>>
          /\ slots' = [i \in DOMAIN slots |-> Filled(slots[i])]
      BY <1>3 DEF FinishReset, EndReset, FinishStep, Leave, worlds, history
    <2>2. \A i \in DOMAIN ids : slots'[i] = Filled(slots[i]) /\ slots[i] \in Slots
      BY <1>0, <2>1
    <2>3. \A i \in DOMAIN ids : slots'[i].done = slots[i].done
      BY <2>2 DEF Filled, Slots
    <2> QED  BY <1>0, <2>1, <2>3
  <1>4. ASSUME NEW e \in Env, DeadReset(e) \/ InactiveStep(e) PROVE Goal
    <2>1. /\ op # "none" /\ op' = "none" /\ answer' = "error"
          /\ UNCHANGED <<ids, supply, drawn, episode, finished, doubled>>
      BY <1>4 DEF DeadReset, InactiveStep, Asked, Requested, Fail, Leave, worlds, history
    <2> QED  BY <1>0, <2>1 DEF Answered
  <1>5. ASSUME NEW e \in Env, PlayStep(e) \/ StepFails(e) PROVE Goal
    <2>1. /\ op = "step" /\ op' \in {op, "none"}
          /\ UNCHANGED <<ids, supply, drawn, doubled>>
      BY <1>5 DEF PlayStep, StepFails, Asked, Requested, Deliver, Fail, Leave
    <2> QED  BY <1>0, <2>1
  <1>6. ASSUME NEW e \in Env,
               StartEpisode(e) \/ RunOut(e) \/ LoseInReset(e) \/ ResetFails(e)
        PROVE  Goal
    <2>1. /\ op = "reset" /\ pos \in DOMAIN ids /\ e = ids[pos]
          /\ UNCHANGED <<supply, finished, doubled>>
          /\ drawn' \in {drawn, drawn + 1}
          /\ episode' = episode \/ Install(e, drawn')
      BY <1>0, <1>6 DEF StartEpisode, RunOut, LoseInReset, ResetFails, Asked, Requested,
                        KeepEpisode, history
    <2>2. episode \in [Env -> 0 .. drawn]
      BY DEF VectorOK, TypeInv, VectorTypeOK
    <2>3. \A d \in Env : (\A i \in DOMAIN ids : ids[i] # d) => episode'[d] = episode[d]
      BY <2>1, <2>2 DEF Install
    <2> DEFINE own == [NoSlot EXCEPT !.obs = "own"]
    <2>4. own.done = FALSE /\ NoSlot.done = FALSE
      BY DEF NoSlot
    <2> HIDE DEF own
    <2>5. \/ op' = "none" /\ answer' = "error" /\ ids' = ids
          \/ Deliver(own) \/ Deliver(NoSlot)
      BY <1>6 DEF StartEpisode, RunOut, LoseInReset, ResetFails, Fail, Leave, own
    <2>6. /\ op' \in {op, "none"} /\ ids' = ids
          /\ Calm /\ Answered' => \A i \in DOMAIN ids : ~slots'[i].done
      BY <1>0, <2>1, <2>4, <2>5 DEF Deliver, Answered
    <2>7. drawn <= drawn'
      BY <1>0, <2>1
    <2> QED  BY <2>1, <2>3, <2>6, <2>7
  <1> QED
    BY <1>1, <1>2, <1>3, <1>4, <1>5, <1>6 DEF Proceed

-----------------------------------------------------------------------------
(* The steps of a pass.                                                    *)

\* Everyone, once.
LEMMA AllIs == /\ All \in Seq(Env) /\ ~Twice(All) /\ Len(All) = Size
               /\ DOMAIN All = 1 .. Size /\ \A i \in 1 .. Size : All[i] = i - 1
               /\ \A m \in 0 .. Size : [i \in 1 .. m |-> i - 1] \in Seq(Env)
  <1>1. Size \in Nat
    BY VectorAssumption
  <1>2. All = [i \in 1 .. Size |-> i - 1]
    BY DEF All
  <1>3. \A m \in 0 .. Size : \A i \in 1 .. m : i - 1 \in Env
    BY <1>1 DEF Env
  <1>4. \A m \in 0 .. Size : [i \in 1 .. m |-> i - 1] \in Seq(Env)
    BY <1>1, <1>3
  <1>5. All \in Seq(Env) /\ Len(All) = Size
    BY <1>1, <1>2, <1>4
  <1>6. ~Twice(All)
    BY <1>1, <1>2 DEF Twice
  <1> QED  BY <1>2, <1>4, <1>5, <1>6

\* The types of what a pass looks at.
LEMMA LookedAt ==
  ASSUME CollectInv
  PROVE  /\ drawn \in Nat /\ faults \in Nat /\ episode \in [Env -> 0 .. drawn]
         /\ \A e \in Env : episode[e] \in Nat /\ episode[e] <= drawn
         /\ finished \subseteq 1 .. drawn
         /\ supply # Endless => supply \in Nat
         /\ ids \in Seq(Env) /\ \A i \in DOMAIN ids : ids[i] \in Env
         /\ ready \in Seq(Env) /\ DOMAIN ready = 1 .. Len(ready) /\ Len(ready) \in Nat
         /\ \A i \in DOMAIN ready : ready[i] \in Env
         /\ answer = "ok" => DOMAIN slots = DOMAIN ids
  <1>1. /\ drawn \in Nat /\ faults \in 0 .. MaxFaults /\ episode \in [Env -> 0 .. drawn]
        /\ finished \subseteq 1 .. drawn /\ supply \in Supplies /\ ids \in Seq(Env)
        /\ answer = "ok" => DOMAIN slots = DOMAIN ids
    BY DEF CollectInv, VectorOK, TypeInv, VectorTypeOK, ShapeOK
  <1>2. ready \in Seq(Env)
    BY DEF CollectInv, ReadyInv
  <1>3. supply # Endless => supply \in Nat
    BY <1>1, VectorAssumption
  <1>4. \A e \in Env : episode[e] \in Nat /\ episode[e] <= drawn
    BY <1>1
  <1> QED  BY <1>1, <1>2, <1>3, <1>4

LEMMA InitCollect == CollectorInit => CollectInv
  <1> SUFFICES ASSUME CollectorInit PROVE CollectInv
    OBVIOUS
  <1>1. VectorOK
    BY InitVectorOK DEF CollectorInit
  <1>2. /\ pc = "idle" /\ kind = "none" /\ count = 0 /\ ready = <<>> /\ rows = <<>>
        /\ ended = <<>> /\ progress = 0 /\ outcome = "none" /\ mark = 0
        /\ op = "none" /\ drawn = 0 /\ doubled = FALSE
    BY DEF CollectorInit, Init
  <1>3. ControlInv
    BY <1>2 DEF ControlInv, Resetting
  <1>4. ReadyInv
    BY <1>2 DEF ReadyInv, Twice
  <1>5. RowsInv /\ CountInv /\ CoverInv /\ EvaluationRunsEverySeed
    BY <1>2 DEF RowsInv, CountInv, CoverInv, EvaluationRunsEverySeed
  <1> QED  BY <1>1, <1>3, <1>4, <1>5 DEF CollectInv

\* A pass begins: it has drawn nothing yet.
LEMMA BeginKeeps ==
  ASSUME CollectInv, NEW k \in {"train", "evaluate"}, NEW n \in Nat,
         k = "evaluate" => supply # Endless, Begin(k, n)
  PROVE  CollectInv'
  <1>1. /\ pc' = "new" /\ kind' = k /\ count' = n /\ progress' = 0 /\ outcome' = "none"
        /\ mark' = drawn /\ UNCHANGED <<ready, rows, ended>> /\ StartReset(All)
    BY DEF Begin
  <1>2. VectorOK'
    BY <1>1, AllIs, StartKeepsAll DEF CollectInv
  <1>3. /\ ~doubled' /\ op' \in {"none", "reset"}
        /\ UNCHANGED <<supply, drawn, exhausted, episode, finished, faults>>
        /\ Answered' => ids' = All /\ pos' = 1 /\ \A i \in DOMAIN All : ~slots'[i].done
    BY <1>1, AllIs, StartIs DEF CollectInv, ControlInv
  <1>4. drawn \in Nat /\ \A e \in Env : episode[e] <= drawn
    BY LookedAt
  <1>5. ControlInv'
    BY <1>1, <1>3, <1>4 DEF ControlInv, Resetting, Selected
  <1>6. ReadyInv'
    BY <1>1 DEF CollectInv, ReadyInv, Twice
  <1>7. RowsInv' /\ CountInv' /\ EvaluationRunsEverySeed'
    BY <1>1 DEF RowsInv, CountInv, EvaluationRunsEverySeed
  <1>8. CoverInv'
    <2>1. mark' + 1 .. drawn' = {}
      BY <1>1, <1>3, <1>4
    <2>2. op' = "reset" => \A i \in DOMAIN ids' : episode'[ids'[i]] <= mark'
      <3> SUFFICES ASSUME op' = "reset", NEW i \in DOMAIN ids'
                   PROVE  episode'[ids'[i]] <= mark'
        OBVIOUS
      <3>1. ids' = All
        BY <1>3 DEF Answered
      <3>2. ids'[i] \in Env
        BY <3>1, AllIs
      <3> QED  BY <1>1, <1>3, <1>4, <3>2
    <2> QED  BY <2>1, <2>2 DEF CoverInv
  <1> QED  BY <1>2, <1>5, <1>6, <1>7, <1>8 DEF CollectInv

\* A pass that ends: with metrics only when it has them all, and with nothing
\* only when nobody is alive any more.
LEMMA EndKeeps ==
  ASSUME CollectInv, NEW result, EndRun(result), VectorOK', op = "none",
         UNCHANGED <<op, supply, drawn, exhausted, episode, finished, doubled>>,
         faults' = faults \/ faults' # 0,
         result = "metrics" /\ kind = "train" => progress = count,
         result = "nothing" /\ faults' = 0 => pc # "idle" /\ answer = "exhausted"
  PROVE  CollectInv'
  <1>1. /\ pc' = "idle" /\ outcome' = result /\ ready' = <<>> /\ rows' = <<>> /\ ended' = <<>>
        /\ UNCHANGED <<kind, count, progress, mark>>
    BY DEF EndRun
  <1>2. ControlInv'
    BY <1>1 DEF CollectInv, ControlInv, Resetting
  <1>3. ReadyInv'
    BY <1>1 DEF ReadyInv, Twice
  <1>4. RowsInv' /\ CountInv'
    BY <1>1 DEF RowsInv, CountInv
  <1>5. CoverInv'
    BY <1>1 DEF CollectInv, CoverInv
  <1>6. EvaluationRunsEverySeed'
    <2> SUFFICES ASSUME kind = "evaluate", faults' = 0, result = "nothing"
                 PROVE  drawn = supply /\ mark + 1 .. drawn \subseteq finished
      BY <1>1 DEF EvaluationRunsEverySeed
    <2>1. faults = 0 /\ pc # "idle" /\ alive = {} /\ ~doubled
      BY DEF CollectInv, VectorOK, EpisodeInv, ControlInv
    <2>2. exhausted = Env
      <3>1. alive = Env \ exhausted
        BY <2>1 DEF CollectInv, VectorOK, SeedInv, TrackInv, Clean, Walking
      <3>2. exhausted \subseteq Env
        BY DEF CollectInv, VectorOK, SeedInv, CallTypeOK
      <3> QED  BY <2>1, <3>1, <3>2
    <2>3. drawn = supply
      BY <2>1, <2>2, SomeEnv DEF CollectInv, VectorOK, EpisodeInv
    <2>4. mark + 1 .. drawn \subseteq finished
      BY <2>1, <2>2 DEF CollectInv, CoverInv
    <2> QED  BY <2>3, <2>4
  <1> QED  BY <1>2, <1>3, <1>4, <1>5, <1>6 DEF CollectInv

\* A pass that cannot begin.
LEMMA BeginFailsKeeps == CollectInv /\ BeginFails => CollectInv'
  <1> SUFFICES ASSUME CollectInv, BeginFails PROVE CollectInv'
    OBVIOUS
  <1>1. VectorOK' /\ faults' # 0
    BY FaultKeepsAll DEF BeginFails, CollectInv
  <1>2. /\ pc = "idle" /\ outcome' = "error"
        /\ UNCHANGED <<pc, kind, count, ready, rows, ended, progress, mark>>
        /\ UNCHANGED <<op, supply, drawn, doubled>>
    BY DEF BeginFails, collection, call, worlds
  <1>3. ControlInv'
    BY <1>2 DEF CollectInv, ControlInv, Resetting
  <1>4. ReadyInv'
    BY <1>2 DEF CollectInv, ReadyInv, Twice
  <1>5. RowsInv' /\ CountInv'
    BY <1>2 DEF CollectInv, ControlInv, RowsInv, CountInv
  <1>6. CoverInv' /\ EvaluationRunsEverySeed'
    BY <1>1 DEF CoverInv, EvaluationRunsEverySeed
  <1> QED  BY <1>1, <1>3, <1>4, <1>5, <1>6 DEF CollectInv

\* The row of a place: the running episode of its environment, or none.
LEMMA RowOfIs ==
  ASSUME CollectInv, op = "none", answer = "ok", NEW i \in DOMAIN ids
  PROVE  /\ RowOf(i) \in Nat /\ RowOf(i) \in {0, episode[ids[i]]}
         /\ ~slots[i].done => RowOf(i) = 0 \/ RowOf(i) \notin finished
         /\ slots[i].done => episode[ids[i]] \in finished
  <1>1. ids[i] \in Env /\ episode[ids[i]] \in Nat
    BY LookedAt
  <1>2. SlotInv(i)
    BY DEF CollectInv, ControlInv, VectorOK, EpisodeInv, Answered
  <1> QED  BY <1>1, <1>2 DEF SlotInv, RowOf

\* The collector is built, for no more environments than episodes.
LEMMA CreatedKeeps == CollectInv /\ Created => CollectInv'
  <1> SUFFICES ASSUME CollectInv, Created PROVE CollectInv'
    OBVIOUS
  <1> DEFINE m == IF kind = "train" THEN Least(Size, count) ELSE Size
  <1>1. /\ pc = "new" /\ op = "none" /\ answer = "ok" /\ pc' = "collect"
        /\ ready' = [i \in 1 .. m |-> i - 1] /\ rows' = [i \in 1 .. m |-> RowOf(i)]
        /\ UNCHANGED vectorVars
        /\ UNCHANGED <<kind, count, ended, progress, outcome, mark>>
    BY DEF Created, Returned
  <1>2. VectorOK'
    BY <1>1, StutterKeepsAll DEF CollectInv
  <1>3. UNCHANGED <<op, supply, drawn, exhausted, episode, finished, faults, doubled>>
    BY <1>1 DEF vectorVars, worlds, call, history
  <1>4. Size \in Nat /\ (kind = "train" => count \in Nat /\ progress = 0)
    BY <1>1, VectorAssumption DEF CollectInv, ControlInv
  <1>5. m \in 0 .. Size /\ (kind = "train" => m <= count)
    BY <1>4 DEF Least
  <1> HIDE DEF m
  <1>6. ids = All
    BY <1>1 DEF CollectInv, ControlInv, Resetting, Answered, Selected
  <1>7. /\ \A i \in 1 .. m : i \in DOMAIN ids /\ ids[i] = i - 1
        /\ \A i \in DOMAIN ids : ~slots[i].done
    BY <1>1, <1>4, <1>5, <1>6, AllIs DEF CollectInv, ControlInv, Resetting, Answered
  <1>8. \A i \in 1 .. m : /\ RowOf(i) \in Nat /\ RowOf(i) \in {0, episode[i - 1]}
                          /\ RowOf(i) # 0 => RowOf(i) \notin finished
    BY <1>1, <1>7, RowOfIs
  <1>9. /\ ready' \in Seq(Env) /\ Len(ready') = m /\ DOMAIN ready' = 1 .. m
        /\ rows' \in Seq(Nat) /\ Len(rows') = m
    BY <1>1, <1>5, <1>8, AllIs
  <1>10. ControlInv'
    BY <1>1, <1>3 DEF CollectInv, ControlInv, Resetting
  <1>11. ReadyInv'
    <2>1. ~Twice(ready)'
      BY <1>1, <1>5 DEF Twice
    <2> QED  BY <1>1, <1>9, <2>1 DEF ReadyInv
  <1>12. RowsInv'
    BY <1>1, <1>3, <1>8, <1>9 DEF RowsInv, RowIs
  <1>13. CountInv'
    BY <1>1, <1>4, <1>5, <1>9 DEF CollectInv, ControlInv, CountInv
  <1>14. CoverInv' /\ EvaluationRunsEverySeed'
    BY <1>1, <1>3 DEF CollectInv, CoverInv, EvaluationRunsEverySeed
  <1> QED  BY <1>2, <1>10, <1>11, <1>12, <1>13, <1>14 DEF CollectInv

\* Those taking part are stepped.
LEMMA StepReadyKeeps == CollectInv /\ StepReady => CollectInv'
  <1> SUFFICES ASSUME CollectInv, StepReady PROVE CollectInv'
    OBVIOUS
  <1>1. /\ pc = "collect" /\ pc' = "step" /\ StartStep(ready)
        /\ UNCHANGED <<kind, count, ready, rows, ended, progress, outcome, mark>>
    BY DEF StepReady, collection
  <1>2. ready \in Seq(Env) /\ ~Twice(ready) /\ ~doubled
    BY DEF CollectInv, ReadyInv, ControlInv
  <1>3. VectorOK'
    BY <1>1, <1>2, StartKeepsAll DEF CollectInv
  <1>4. /\ ~doubled' /\ op' \in {"none", "step"}
        /\ UNCHANGED <<supply, drawn, exhausted, episode, finished, faults>>
        /\ Answered' => ids' = ready
    BY <1>1, <1>2, StartIs
  <1>5. ControlInv'
    BY <1>1, <1>4 DEF CollectInv, ControlInv, Resetting, Selected
  <1>6. ReadyInv'
    BY <1>1 DEF CollectInv, ReadyInv, Twice
  <1>7. RowsInv' /\ CountInv' /\ EvaluationRunsEverySeed'
    BY <1>1 DEF CollectInv, RowsInv, CountInv, EvaluationRunsEverySeed
  <1>8. CoverInv'
    BY <1>1, <1>4 DEF CollectInv, CoverInv
  <1> QED  BY <1>3, <1>5, <1>6, <1>7, <1>8 DEF CollectInv

\* The step is recorded: without an end the rows are those returned, with one
\* they are so except for the ended ones, which are about to be reset.
LEMMA RecordKeeps == CollectInv /\ Record => CollectInv'
  <1> SUFFICES ASSUME CollectInv, Record PROVE CollectInv'
    OBVIOUS
  <1> DEFINE over == {i \in DOMAIN slots : slots[i].done}
             n == Len(ready)
  <1>1. /\ pc = "step" /\ op = "none" /\ answer = "ok"
        /\ ended' = InOrder(over) /\ rows' = [i \in DOMAIN slots |-> RowOf(i)]
        /\ progress' = progress + Len(ended')
        /\ UNCHANGED <<kind, count, ready, outcome, mark>>
    BY DEF Record, Returned
  <1>2. ids = ready
    BY <1>1 DEF CollectInv, ControlInv, Answered, Selected
  <1>3. DOMAIN slots = 1 .. n /\ DOMAIN ready = 1 .. n /\ n \in Nat /\ ready \in Seq(Env)
    BY <1>1, <1>2, LookedAt
  <1>4. over \in SUBSET (1 .. n)
    BY <1>3
  <1>5. /\ ended' \in Seq(over) /\ ~Twice(ended')
        /\ \A x \in over : \E j \in DOMAIN ended' : ended'[j] = x
        /\ Len(ended') \in Nat /\ Len(ended') <= n
    BY <1>1, <1>3, <1>4, InOrderIs
  <1>6. ended' \in Seq(1 .. n) /\ \A j \in DOMAIN ended' : ended'[j] \in over
    BY <1>4, <1>5
  <1>7. ASSUME NEW i \in 1 .. n
        PROVE  /\ RowOf(i) \in Nat /\ RowOf(i) \in {0, episode[ready[i]]}
               /\ i \notin over => RowOf(i) = 0 \/ RowOf(i) \notin finished
               /\ i \in over => episode[ready[i]] \in finished
    BY <1>1, <1>2, <1>3, RowOfIs
  <1>8. rows' \in Seq(Nat) /\ Len(rows') = n
    BY <1>1, <1>3, <1>7
  <1>9. ReadyInv'
    <2>1. ~Twice(ready) /\ ended' \in Seq(DOMAIN ready)
      BY <1>3, <1>6 DEF CollectInv, ReadyInv
    <2> QED  BY <1>1, <1>3, <1>5, <1>8, <2>1 DEF ReadyInv, Twice
  <1>10. \A i \in DOMAIN ready : i \in over \/
           (rows'[i] \in {0, episode[ready[i]]} /\ (rows'[i] # 0 => rows'[i] \notin finished))
    BY <1>1, <1>3, <1>7
  <1>11. progress \in Nat /\ progress' \in Nat
    BY <1>1, <1>5 DEF CollectInv, ControlInv
  <1> HIDE DEF over, n
  <1>12. CASE ended' = <<>> /\ pc' = "collect" /\ UNCHANGED vectorVars
    <2>1. VectorOK'
      BY <1>12, StutterKeepsAll DEF CollectInv
    <2>2. UNCHANGED <<op, supply, drawn, exhausted, episode, finished, faults, doubled>>
      BY <1>12 DEF vectorVars, worlds, call, history
    <2>3. ControlInv'
      BY <1>1, <1>11, <1>12, <2>2 DEF CollectInv, ControlInv, Resetting
    <2>4. over = {}
      BY <1>5, <1>12
    <2>5. RowsInv'
      BY <1>1, <1>10, <1>12, <2>2, <2>4 DEF RowsInv, RowIs
    <2>6. CountInv'
      <3>1. progress' = progress
        BY <1>1, <1>11, <1>12
      <3> QED  BY <1>1, <1>12, <3>1 DEF CollectInv, ControlInv, CountInv
    <2>7. CoverInv' /\ EvaluationRunsEverySeed'
      BY <1>1, <1>12, <2>2 DEF CollectInv, CoverInv, EvaluationRunsEverySeed
    <2> QED  BY <1>9, <2>1, <2>3, <2>5, <2>6, <2>7 DEF CollectInv
  <1>13. CASE pc' = "reset" /\ StartReset([j \in DOMAIN ended' |-> ready[ended'[j]]])
    <2> DEFINE sel == [j \in DOMAIN ended' |-> ready[ended'[j]]]
    <2>1. /\ sel \in Seq(Env) /\ DOMAIN sel = DOMAIN ended'
          /\ \A j \in DOMAIN sel : sel[j] = ready[ended'[j]]
      <3>1. DOMAIN ended' = 1 .. Len(ended') /\ Len(ended') \in Nat
        BY <1>5
      <3>2. \A j \in DOMAIN ended' : ended'[j] \in DOMAIN ready
        BY <1>3, <1>6
      <3>3. \A j \in DOMAIN ended' : ready[ended'[j]] \in Env
        BY <1>3, <3>2
      <3> QED  BY <3>1, <3>3
    <2>2. ~Twice(sel)
      <3>1. ~Twice(ready)
        BY DEF CollectInv, ReadyInv
      <3>2. \A i, j \in DOMAIN ended' : i # j => ended'[i] # ended'[j]
        BY <1>5 DEF Twice
      <3>3. \A j \in DOMAIN ended' : ended'[j] \in DOMAIN ready
        BY <1>3, <1>6
      <3> QED  BY <2>1, <3>1, <3>2, <3>3 DEF Twice
    <2> HIDE DEF sel
    <2>3. StartReset(sel) /\ ~doubled
      BY <1>13 DEF sel, CollectInv, ControlInv
    <2>4. VectorOK'
      BY <2>1, <2>3, StartKeepsAll DEF CollectInv
    <2>5. /\ ~doubled' /\ op' \in {"none", "reset"}
          /\ UNCHANGED <<supply, drawn, exhausted, episode, finished, faults>>
          /\ Answered' => ids' = sel /\ \A i \in DOMAIN sel : ~slots'[i].done
      BY <2>2, <2>3, StartIs
    <2>6. ControlInv'
      <3>1. Selected' = sel
        BY <1>1, <1>13 DEF Selected, sel
      <3> QED  BY <1>1, <1>11, <1>13, <2>5, <3>1 DEF CollectInv, ControlInv, Resetting
    <2>7. RowsInv'
      <3>1. \A i \in DOMAIN ready : i \in over => HasEnded(i)'
        BY <1>5 DEF HasEnded
      <3> QED  BY <1>1, <1>10, <1>13, <2>5, <3>1 DEF RowsInv, RowIs
    <2>8. CountInv'
      <3> SUFFICES ASSUME kind = "train"
                   PROVE  progress' <= count /\ n + progress' <= count + Len(ended')
        BY <1>1, <1>13 DEF CollectInv, ControlInv, CountInv, n
      <3>1. n + progress <= count /\ count \in Nat
        BY <1>1 DEF CollectInv, ControlInv, CountInv, n
      <3> QED  BY <1>1, <1>3, <1>5, <1>11, <3>1
    <2>9. CoverInv'
      <3>1. ASSUME op' = "reset", NEW j \in DOMAIN ids' PROVE episode'[ids'[j]] \in finished'
        <4>1. ids' = sel
          BY <2>5, <3>1 DEF Answered
        <4>2. ids'[j] = ready[ended'[j]] /\ ended'[j] \in over
          BY <1>6, <2>1, <3>1, <4>1
        <4> QED  BY <1>4, <1>7, <2>5, <4>2
      <3> QED  BY <1>1, <1>13, <2>5, <3>1 DEF CollectInv, CoverInv
    <2>10. EvaluationRunsEverySeed'
      BY <1>13 DEF EvaluationRunsEverySeed
    <2> QED  BY <1>9, <2>4, <2>6, <2>7, <2>8, <2>9, <2>10 DEF CollectInv
  <1> QED  BY <1>12, <1>13 DEF Record

\* Those not needed any more drop out; the rows of the ended ones are those of
\* their next episodes.
LEMMA ReplaceKeeps == CollectInv /\ Replace => CollectInv'
  <1> SUFFICES ASSUME CollectInv, Replace PROVE CollectInv'
    OBVIOUS
  <1> DEFINE stays == {i \in DOMAIN ready :
                         \A j \in DOMAIN ended : j <= Surplus => ended[j] # i}
             n == Len(ready)
             kept == Kept
  <1>1. /\ pc = "reset" /\ op = "none" /\ answer = "ok"
        /\ ready' = [j \in DOMAIN kept |-> ready[kept[j]]]
        /\ rows' = [j \in DOMAIN kept |-> Fresh(kept[j])]
        /\ pc' = IF kind = "train" /\ progress >= count THEN "last" ELSE "collect"
        /\ UNCHANGED vectorVars
        /\ UNCHANGED <<kind, count, progress, outcome, mark>>
    BY DEF Replace, Returned
  <1>2. VectorOK'
    BY <1>1, StutterKeepsAll DEF CollectInv
  <1>3. UNCHANGED <<op, supply, drawn, exhausted, episode, finished, faults, doubled>>
    BY <1>1 DEF vectorVars, worlds, call, history
  <1>4. /\ n \in Nat /\ DOMAIN ready = 1 .. n /\ ready \in Seq(Env) /\ ~Twice(ready)
        /\ ended \in Seq(1 .. n) /\ ~Twice(ended)
        /\ rows \in Seq(Nat) /\ Len(rows) = n
    BY <1>1, LookedAt DEF CollectInv, ReadyInv
  <1>5. stays \in SUBSET (1 .. n)
    BY <1>4
  <1>6. /\ kept \in Seq(stays) /\ Len(kept) = Cardinality(stays) /\ ~Twice(kept)
        /\ Cardinality(stays) \in Nat
    BY <1>4, <1>5, InOrderIs DEF Kept
  <1> HIDE DEF stays, kept, n
  <1>7. /\ \A j \in DOMAIN kept : kept[j] \in 1 .. n /\ ready[kept[j]] \in Env
        /\ DOMAIN kept = 1 .. Len(kept)
    <2>1. \A j \in DOMAIN kept : kept[j] \in stays
      BY <1>6
    <2>2. \A j \in DOMAIN kept : kept[j] \in 1 .. n
      BY <1>5, <2>1
    <2> QED  BY <1>4, <1>6, <2>2
  <1>8. /\ ids = [j \in DOMAIN ended |-> ready[ended[j]]]
        /\ \A j \in DOMAIN ids : ~slots[j].done
    BY <1>1 DEF CollectInv, ControlInv, Resetting, Answered, Selected
  <1>9. ASSUME NEW i \in 1 .. n
        PROVE  /\ Fresh(i) \in Nat /\ Fresh(i) \in {0, episode[ready[i]]}
               /\ Fresh(i) # 0 => Fresh(i) \notin finished
    <2>1. CASE HasEnded(i)
      <3> DEFINE j == CHOOSE j \in DOMAIN ended : ended[j] = i
      <3>1. j \in DOMAIN ended /\ ended[j] = i
        BY <2>1 DEF HasEnded
      <3>2. Fresh(i) = RowOf(j)
        BY <2>1 DEF HasEnded, Fresh
      <3> HIDE DEF j
      <3>3. j \in DOMAIN ids /\ ids[j] = ready[i] /\ ~slots[j].done
        BY <1>8, <3>1
      <3> QED  BY <1>1, <3>2, <3>3, RowOfIs
    <2>2. CASE ~HasEnded(i)
      <3>1. Fresh(i) = rows[i]
        BY <2>2 DEF HasEnded, Fresh
      <3>2. RowIs(i)
        BY <1>1, <1>4, <2>2 DEF CollectInv, RowsInv
      <3>3. rows[i] \in Nat
        BY <1>4
      <3> QED  BY <3>1, <3>2, <3>3 DEF RowIs
    <2> QED  BY <2>1, <2>2
  <1>10. /\ ready' \in Seq(Env) /\ Len(ready') = Len(kept) /\ DOMAIN ready' = DOMAIN kept
         /\ rows' \in Seq(Nat) /\ Len(rows') = Len(kept)
    <2>1. /\ \A j \in DOMAIN kept : ready[kept[j]] \in Env /\ Fresh(kept[j]) \in Nat
          /\ DOMAIN kept = 1 .. Len(kept) /\ Len(kept) \in Nat
      BY <1>6, <1>7, <1>9
    <2>2. ready' \in Seq(Env) /\ Len(ready') = Len(kept) /\ DOMAIN ready' = DOMAIN kept
      BY <1>1, <2>1
    <2>3. rows' \in Seq(Nat) /\ Len(rows') = Len(kept)
      BY <1>1, <2>1
    <2> QED  BY <2>2, <2>3
  <1>11. ControlInv'
    BY <1>1, <1>3 DEF CollectInv, ControlInv, Resetting
  <1>12. ReadyInv'
    <2>1. ~Twice(ready)'
      BY <1>1, <1>4, <1>6, <1>7 DEF Twice
    <2> QED  BY <1>1, <1>10, <2>1 DEF ReadyInv
  <1>13. RowsInv'
    BY <1>1, <1>3, <1>7, <1>9, <1>10 DEF RowsInv, RowIs
  <1>14. CountInv'
    <2> SUFFICES ASSUME kind = "train"
                 PROVE  /\ Len(kept) + progress <= count
                        /\ progress >= count => progress = count
      BY <1>1, <1>10 DEF CollectInv, ControlInv, CountInv
    <2>1. /\ progress \in Nat /\ count \in Nat /\ progress <= count
          /\ n + progress <= count + Len(ended) /\ Len(ended) \in Nat
      BY <1>1, <1>4 DEF CollectInv, ControlInv, CountInv, n
    <2> DEFINE k == Surplus
    <2>2. k \in Nat /\ k <= Len(ended) /\ n <= count - progress + k
      BY <1>4, <2>1 DEF Surplus, Less, n
    <2>3. Cardinality(stays) = n - k
      <3> DEFINE first == [j \in 1 .. k |-> ended[j]]
                 gone == {i \in 1 .. n : \E j \in 1 .. k : ended[j] = i}
      <3>1. /\ \A j \in 1 .. k : j \in DOMAIN ended /\ ended[j] \in 1 .. n
            /\ \A j \in DOMAIN ended : j <= k <=> j \in 1 .. k
        BY <1>4, <2>1, <2>2
      <3>2. stays = (1 .. n) \ gone
        BY <1>4, <3>1 DEF stays, n
      <3>3. IsFiniteSet(1 .. n) /\ Cardinality(1 .. n) = n
        <4>1. 1 \in Int /\ n \in Int
          BY <1>4
        <4>2. IsFiniteSet(1 .. n) /\ Cardinality(1 .. n) = IF 1 > n THEN 0 ELSE n - 1 + 1
          BY <4>1, FS_Interval
        <4> QED  BY <1>4, <4>2
      <3>4. IsFiniteSet(1 .. k) /\ Cardinality(1 .. k) = k
        <4>1. 1 \in Int /\ k \in Int
          BY <2>2
        <4>2. IsFiniteSet(1 .. k) /\ Cardinality(1 .. k) = IF 1 > k THEN 0 ELSE k - 1 + 1
          BY <4>1, FS_Interval
        <4> QED  BY <2>2, <4>2
      <3>5. gone \in SUBSET (1 .. n) /\ IsFiniteSet(gone)
        BY <3>3, FS_Subset
      <3>6. Cardinality(gone) = k
        <4>1. first \in [1 .. k -> gone]
          BY <3>1
        <4>2. \A a, b \in 1 .. k : first[a] = first[b] => a = b
          BY <1>4, <3>1 DEF Twice
        <4>3. \A g \in gone : \E a \in 1 .. k : first[a] = g
          OBVIOUS
        <4> HIDE DEF first, gone
        <4>4. first \in Injection(1 .. k, gone) /\ first \in Surjection(1 .. k, gone)
          BY <4>1, <4>2, <4>3, Fun_IsInj, Fun_IsSurj
        <4> QED  BY <3>4, <3>5, <4>4, FS_Injection
      <3>7. Cardinality(stays) = Cardinality(1 .. n) - Cardinality((1 .. n) \cap gone)
        <4> HIDE DEF gone
        <4> QED  BY <3>2, <3>3, FS_Difference
      <3>8. (1 .. n) \cap gone = gone
        BY <3>5
      <3> QED  BY <3>3, <3>6, <3>7, <3>8
    <2> HIDE DEF k
    <2>4. Len(kept) + progress <= count
      BY <1>4, <1>6, <2>1, <2>2, <2>3
    <2> QED  BY <2>1, <2>4
  <1>15. CoverInv' /\ EvaluationRunsEverySeed'
    BY <1>1, <1>3 DEF CollectInv, CoverInv, EvaluationRunsEverySeed
  <1> QED  BY <1>2, <1>11, <1>12, <1>13, <1>14, <1>15 DEF CollectInv

\* After the last episode everyone is reset.
LEMMA LastResetKeeps == CollectInv /\ LastReset => CollectInv'
  <1> SUFFICES ASSUME CollectInv, LastReset PROVE CollectInv'
    OBVIOUS
  <1>1. /\ pc = "last" /\ pc' = "final" /\ StartReset(All)
        /\ UNCHANGED <<kind, count, ready, rows, ended, progress, outcome, mark>>
    BY DEF LastReset, collection
  <1>2. VectorOK'
    BY <1>1, AllIs, StartKeepsAll DEF CollectInv
  <1>3. /\ ~doubled' /\ op' \in {"none", "reset"} /\ UNCHANGED <<supply, drawn>>
        /\ Answered' => ids' = All /\ \A i \in DOMAIN All : ~slots'[i].done
    BY <1>1, AllIs, StartIs DEF CollectInv, ControlInv
  <1>4. kind # "evaluate"
    BY <1>1 DEF CollectInv, ControlInv
  <1>5. ControlInv'
    BY <1>1, <1>3, <1>4 DEF CollectInv, ControlInv, Resetting, Selected
  <1>6. ReadyInv'
    BY <1>1 DEF CollectInv, ReadyInv, Twice
  <1>7. RowsInv' /\ CountInv'
    BY <1>1 DEF CollectInv, RowsInv, CountInv
  <1>8. CoverInv' /\ EvaluationRunsEverySeed'
    BY <1>1, <1>4 DEF CoverInv, EvaluationRunsEverySeed
  <1> QED  BY <1>2, <1>5, <1>6, <1>7, <1>8 DEF CollectInv

\* A pass that ends, without a failure of its own or with one.
LEMMA EndingKeeps ==
  CollectInv /\ (Learn \/ RunOutOfSeeds \/ CallFailed \/ Incomplete \/ RunFails) => CollectInv'
  <1>1. ASSUME CollectInv, Learn \/ RunOutOfSeeds \/ CallFailed \/ Incomplete
        PROVE  CollectInv'
    <2>1. PICK result \in {"metrics", "nothing", "error"} :
            /\ EndRun(result) /\ UNCHANGED vectorVars /\ op = "none" /\ pc # "idle"
            /\ result = "metrics" => pc = "final"
            /\ result = "nothing" => answer = "exhausted"
      BY <1>1 DEF Learn, RunOutOfSeeds, CallFailed, Incomplete, Returned, Waiting
    <2>2. VectorOK'
      BY <1>1, <2>1, StutterKeepsAll DEF CollectInv
    <2>3. UNCHANGED <<op, supply, drawn, exhausted, episode, finished, faults, doubled>>
      BY <2>1 DEF vectorVars, worlds, call, history
    <2>4. result = "metrics" /\ kind = "train" => progress = count
      BY <1>1, <2>1 DEF CollectInv, CountInv
    <2> QED  BY <1>1, <2>1, <2>2, <2>3, <2>4, EndKeeps
  <1>2. ASSUME CollectInv, RunFails PROVE CollectInv'
    <2>1. PICK result \in {"nothing", "error"} : EndRun(result)
      BY <1>2 DEF RunFails
    <2>2. VectorOK' /\ faults' # 0
      BY <1>2, FaultKeepsAll DEF RunFails, CollectInv
    <2>3. UNCHANGED <<op, supply, drawn, exhausted, episode, finished, doubled>>
      BY <1>2 DEF RunFails, worlds, call
    <2>4. op = "none"
      BY <1>2 DEF RunFails, Waiting, CollectInv, ControlInv, Resetting
    <2> QED  BY <1>2, <2>1, <2>2, <2>3, <2>4, EndKeeps
  <1> QED  BY <1>1, <1>2

\* In a call without failures no seed is lost: what a reset draws is run by the
\* environment it was drawn for, in the place of an episode that is over or
\* not of this pass.
LEMMA CallCovers ==
  ASSUME CollectInv, CoverInv, InCall, VectorOK'
  PROVE  CoverInv'
  <1>0. /\ Proceed /\ UNCHANGED <<pc, kind, outcome, mark>>
    BY DEF InCall, collection
  <1> SUFFICES ASSUME kind = "evaluate", faults' = 0, pc # "idle" \/ outcome = "nothing"
               PROVE  /\ \A s \in mark + 1 .. drawn' :
                           s \in finished' \/ \E e \in Env \ exhausted' : episode'[e] = s
                      /\ op' = "reset" => \A i \in DOMAIN ids' :
                           i >= pos' => episode'[ids'[i]] \in finished' \/ episode'[ids'[i]] <= mark
    BY <1>0 DEF CoverInv
  <1>1. /\ op # "none" /\ op' \in {op, "none"} /\ ids' = ids
    BY <1>0, ProceedIs DEF CollectInv
  <1>2. /\ drawn \in Nat /\ faults \in Nat /\ \A e \in Env : episode[e] \in Nat
        /\ episode \in [Env -> 0 .. drawn]
        /\ ids \in Seq(Env) /\ \A i \in DOMAIN ids : ids[i] \in Env
        /\ mark \in Nat /\ ~doubled /\ DOMAIN ids \subseteq Nat
    BY LookedAt DEF CollectInv, ControlInv
  <1>3. pos \in Nat
    BY DEF CollectInv, VectorOK, TypeInv, VectorTypeOK
  <1>4. ~Fault
    BY <1>2 DEF Fault
  <1>5. faults = 0 =>
          /\ \A s \in mark + 1 .. drawn : s \in finished \/ \E e \in Env \ exhausted : episode[e] = s
          /\ op = "reset" => \A i \in DOMAIN ids :
               i >= pos => episode[ids[i]] \in finished \/ episode[ids[i]] <= mark
    BY DEF CoverInv
  <1>6. CASE /\ UNCHANGED <<faults, drawn, exhausted, episode>> /\ finished \subseteq finished'
             /\ pos' >= pos \/ op' # "reset"
             /\ pos' \in Nat
    BY <1>1, <1>2, <1>3, <1>5, <1>6
  <1>7. ASSUME NEW e \in Env, StartEpisode(e) \/ RunOut(e)
        PROVE  /\ \A s \in mark + 1 .. drawn' :
                    s \in finished' \/ \E d \in Env \ exhausted' : episode'[d] = s
               /\ \A i \in DOMAIN ids :
                    i >= pos' => episode'[ids[i]] \in finished' \/ episode'[ids[i]] <= mark
    <2>1. /\ op = "reset" /\ pos \in DOMAIN ids /\ e = ids[pos] /\ pos' = pos + 1
          /\ UNCHANGED <<finished, faults>>
          /\ \/ /\ drawn' = drawn + 1 /\ Install(e, drawn') /\ e \notin exhausted
                /\ exhausted' = exhausted
             \/ drawn' = drawn /\ episode' = episode /\ exhausted' = exhausted \cup {e}
      <3>1. /\ Asked("reset", e) /\ UNCHANGED <<finished, faults>> /\ pos' = pos + 1
            /\ \/ /\ drawn' = drawn + 1 /\ Install(e, drawn') /\ e \notin exhausted
                  /\ exhausted' = exhausted
               \/ drawn' = drawn /\ episode' = episode /\ exhausted' = exhausted \cup {e}
        BY <1>7 DEF StartEpisode, RunOut, Exhaust, Deliver, history
      <3>2. op = "reset" /\ pos <= Len(ids) /\ ids[pos] = e
        BY <3>1 DEF Asked, Requested
      <3>3. pos > 0
        BY <3>2 DEF CollectInv, VectorOK, TypeInv, ShapeOK
      <3>4. pos \in DOMAIN ids
        BY <1>2, <1>3, <3>2, <3>3
      <3> QED  BY <3>1, <3>2, <3>4
    <2>2. episode[e] \in finished \/ episode[e] <= mark
      BY <1>2, <1>5, <2>1
    <2>3. /\ \A d \in Env \ {e} : episode'[d] = episode[d]
          /\ drawn' = drawn + 1 => episode'[e] = drawn + 1
      BY <1>2, <2>1 DEF Install
    <2>4. ASSUME NEW s \in mark + 1 .. drawn', s \notin finished
          PROVE  \E d \in Env \ exhausted' : episode'[d] = s
      <3>1. CASE s \in mark + 1 .. drawn
        <4>1. PICK d \in Env \ exhausted : episode[d] = s
          BY <1>5, <2>1, <2>4, <3>1
        <4>2. d # e
          BY <1>2, <2>2, <2>4, <3>1, <4>1
        <4> QED  BY <2>1, <2>3, <4>1, <4>2
      <3>2. CASE s \notin mark + 1 .. drawn
        <4>1. s = drawn + 1 /\ drawn' = drawn + 1
          BY <1>2, <2>1, <2>4, <3>2
        <4>2. drawn # drawn + 1
          BY <1>2
        <4> QED  BY <2>1, <2>3, <4>1, <4>2
      <3> QED  BY <3>1, <3>2
    <2>5. ASSUME NEW i \in DOMAIN ids, i >= pos + 1
          PROVE  episode'[ids[i]] \in finished \/ episode'[ids[i]] <= mark
      <3>1. i # pos /\ i >= pos /\ i \in Nat
        BY <1>2, <1>3, <2>5
      <3>2. ~Twice(ids)
        BY <1>1, <1>2 DEF CollectInv, VectorOK, EpisodeInv
      <3>3. ids[i] \in Env \ {e}
        BY <1>2, <2>1, <3>1, <3>2 DEF Twice
      <3> QED  BY <1>5, <2>1, <2>3, <3>1, <3>3
    <2> QED  BY <2>1, <2>4, <2>5
  <1>8. CASE \E e \in Env : StartEpisode(e) \/ RunOut(e)
    BY <1>1, <1>7, <1>8
  <1>9. CASE SkipRetired \/ BackendDone \/ Retire \/ FinishReset \/ LogStep \/ FinishStep
    BY <1>3, <1>6, <1>9 DEF SkipRetired, BackendDone, Retire, FinishReset, EndReset, LogStep,
                            FinishStep, Leave, worlds, history
  <1>10. CASE \E e \in Env : DeadReset(e) \/ PlayStep(e) \/ InactiveStep(e)
    <2>1. PICK e \in Env : DeadReset(e) \/ PlayStep(e) \/ InactiveStep(e)
      BY <1>10
    <2> QED
      BY <1>3, <1>6, <2>1 DEF DeadReset, PlayStep, InactiveStep, Fail, Leave, Deliver, worlds,
                              history
  <1> QED
    BY <1>0, <1>4, <1>8, <1>9, <1>10
       DEF Proceed, ComponentFails, LoseInReset, ResetFails, StepFails

\* While the environment works on a call.
LEMMA InCallKeeps == CollectInv /\ InCall => CollectInv'
  <1> SUFFICES ASSUME CollectInv, InCall PROVE CollectInv'
    OBVIOUS
  <1>1. /\ Proceed
        /\ UNCHANGED <<pc, kind, count, ready, rows, ended, progress, outcome, mark>>
    BY DEF InCall, collection
  <1>2. VectorOK'
    BY <1>1, ProceedKeepsAll DEF CollectInv
  <1>3. /\ op # "none" /\ op' \in {op, "none"}
        /\ UNCHANGED <<supply, doubled, ids>> /\ drawn <= drawn'
        /\ op = "reset" =>
             /\ finished' = finished
             /\ \A e \in Env : (\A i \in DOMAIN ids : ids[i] # e) => episode'[e] = episode[e]
             /\ (\A i \in DOMAIN ids : ~slots[i].done) /\ Answered'
                  => \A i \in DOMAIN ids : ~slots'[i].done
    BY <1>1, ProceedIs DEF CollectInv
  <1>4. /\ (Resetting /\ op = "reset") \/ (pc = "step" /\ op = "step")
        /\ ids = Selected /\ Answered
        /\ Resetting => \A i \in DOMAIN ids : ~slots[i].done
    BY <1>3 DEF CollectInv, ControlInv, Answered
  <1>5. ControlInv'
    <2>1. mark \in Nat /\ mark <= drawn /\ drawn \in Nat /\ drawn' \in Nat
      BY <1>2, LookedAt DEF CollectInv, ControlInv, VectorOK, TypeInv, VectorTypeOK
    <2>2. mark <= drawn'
      BY <1>3, <2>1
    <2>3. Selected' = Selected
      BY <1>1 DEF Selected
    <2>4. Resetting => op = "reset"
      BY <1>4 DEF Resetting
    <2> QED  BY <1>1, <1>3, <1>4, <2>2, <2>3, <2>4 DEF CollectInv, ControlInv, Resetting
  <1>6. ReadyInv'
    BY <1>1 DEF CollectInv, ReadyInv, Twice
  <1>7. RowsInv'
    <2> SUFFICES ASSUME pc = "reset", NEW i \in DOMAIN ready, ~HasEnded(i)
                 PROVE  RowIs(i)'
      BY <1>1, <1>4 DEF RowsInv, HasEnded, Resetting
    <2>1. op = "reset" /\ RowIs(i)
      BY <1>4 DEF CollectInv, RowsInv, Resetting
    <2>2. \A j \in DOMAIN ids : ids[j] # ready[i]
      <3>1. /\ ids = [j \in DOMAIN ended |-> ready[ended[j]]]
            /\ ended \in Seq(DOMAIN ready) /\ ~Twice(ready)
        BY <1>4 DEF Selected, CollectInv, ReadyInv
      <3>2. \A j \in DOMAIN ended : ended[j] \in DOMAIN ready /\ ended[j] # i
        BY <3>1 DEF HasEnded
      <3> QED  BY <3>1, <3>2 DEF Twice
    <2>3. ready[i] \in Env
      BY LookedAt
    <2> QED  BY <1>1, <1>3, <2>1, <2>2, <2>3 DEF RowIs
  <1>8. CountInv'
    BY <1>1 DEF CollectInv, CountInv
  <1>9. CoverInv'
    BY <1>2, CallCovers DEF CollectInv
  <1>10. EvaluationRunsEverySeed'
    BY <1>1, <1>4 DEF EvaluationRunsEverySeed, Resetting
  <1> QED  BY <1>2, <1>5, <1>6, <1>7, <1>8, <1>9, <1>10 DEF CollectInv

LEMMA StutterKeepsCollect == CollectInv /\ UNCHANGED collectorVars => CollectInv'
  <1> SUFFICES ASSUME CollectInv, UNCHANGED collectorVars PROVE CollectInv'
    OBVIOUS
  <1>1. /\ UNCHANGED vectorVars
        /\ UNCHANGED <<pc, kind, count, ready, rows, ended, progress, outcome, mark>>
    BY DEF collectorVars, collection
  <1>2. UNCHANGED <<op, ids, pos, slots, answer, supply, drawn, exhausted, episode, finished,
                    faults, doubled>>
    BY <1>1 DEF vectorVars, worlds, call, history
  <1>3. VectorOK'
    BY <1>1, StutterKeepsAll DEF CollectInv
  <1>4. ControlInv' /\ ReadyInv'
    BY <1>1, <1>2 DEF CollectInv, ControlInv, Resetting, Answered, Selected, ReadyInv, Twice
  <1>5. RowsInv' /\ CountInv' /\ CoverInv' /\ EvaluationRunsEverySeed'
    BY <1>1, <1>2 DEF CollectInv, RowsInv, RowIs, HasEnded, CountInv, CoverInv,
                      EvaluationRunsEverySeed
  <1> QED  BY <1>3, <1>4, <1>5 DEF CollectInv

-----------------------------------------------------------------------------
(* The theorems.                                                           *)

\* CollectInv is inductive.
THEOREM CollectInvariant == CollectorSpec => []CollectInv
  <1>1. CollectInv /\ [CollectorNext]_collectorVars => CollectInv'
    <2> SUFFICES ASSUME CollectInv, [CollectorNext]_collectorVars PROVE CollectInv'
      OBVIOUS
    <2>1. CASE Train
      <3>1. PICK n \in Counts : Begin("train", n)
        BY <2>1 DEF Train
      <3>2. n \in Nat
        BY CollectorAssumption
      <3> QED  BY <3>1, <3>2, BeginKeeps
    <2>2. CASE Evaluate
      BY <2>2, BeginKeeps DEF Evaluate
    <2>3. CASE BeginFails \/ RunFails
      BY <2>3, BeginFailsKeeps, EndingKeeps
    <2>4. CASE Work
      BY <2>4, InCallKeeps, CreatedKeeps, StepReadyKeeps, RecordKeeps, ReplaceKeeps,
         LastResetKeeps, EndingKeeps DEF Work
    <2>5. CASE UNCHANGED collectorVars
      BY <2>5, StutterKeepsCollect
    <2> QED  BY <2>1, <2>2, <2>3, <2>4, <2>5 DEF CollectorNext
  <1> QED  BY InitCollect, <1>1, PTL DEF CollectorSpec

\* A training pass never steps more environments than episodes are wanted, and
\* its metrics are of exactly as many as it was asked for.
THEOREM CollectsExactly == CollectorSpec => []EpisodesExact
  <1>1. CollectInv => EpisodesExact
    <2> SUFFICES ASSUME CollectInv, kind = "train", pc \in {"collect", "step"}
                 PROVE  Len(ready) <= count - progress
      BY DEF CollectInv, CountInv, EpisodesExact
    <2>1. /\ Len(ready) \in Nat /\ progress \in Nat /\ count \in Nat
          /\ Len(ready) + progress <= count
      BY LookedAt DEF CollectInv, ControlInv, CountInv
    <2> QED  BY <2>1
  <1> QED  BY CollectInvariant, <1>1, PTL

\* The policy never acts on the row of an episode that is over, or on that of
\* another environment.
THEOREM ActsOnCurrentRows == CollectorSpec => []RowsAreCurrent
  <1>1. CollectInv => RowsAreCurrent
    BY DEF CollectInv, ReadyInv, RowsInv, RowIs, RowsAreCurrent
  <1> QED  BY CollectInvariant, <1>1, PTL

\* An evaluation in which nothing failed ends with nothing only when it has
\* run every seed of its supply to its end.
THEOREM EvaluatesEverySeed == CollectorSpec => []EvaluationRunsEverySeed
  <1>1. CollectInv => EvaluationRunsEverySeed
    BY DEF CollectInv
  <1> QED  BY CollectInvariant, <1>1, PTL

=============================================================================
