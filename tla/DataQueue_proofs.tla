-------------------------- MODULE DataQueue_proofs --------------------------
(***************************************************************************)
(* Proofs about DataQueue: its type invariant, what its consumer is told,  *)
(* what cleanup leaves behind, that it implements SampleStream, and that   *)
(* the prefetch window of a parallel epoch leaves room in its channels.    *)
(***************************************************************************)
EXTENDS DataQueue, FiniteSetTheorems, FunctionTheorems, SequenceTheorems,
        TLAPS

Cancelling == {"drain", "join", "redrain", "drop_drain", "drop_join", "dropped"}
Joined == {"ready", "get_done", "get_last", "redrain", "dropped"}
InScope == {"refill", "receive", "flush", "check", "offer", "close"}
InEpoch == InScope \cup {"item"}
Ended == {"publish", "finish", "signal", "exited"}

(* The owner: its counter, and what it has given up when it cancels.       *)
OwnerInv ==
  /\ owner = "put" => puts < MaxPuts
  /\ sender = ~cancelled
  /\ owner \in Cancelling => cancelled
  /\ owner \in {"put", "get_try", "get_wait"} => ~cancelled
  /\ owner = "get_last" => done
  /\ cancelled /\ owner \in {"ready", "get_done", "get_last"} =>
       done /\ queue = <<>>

(* The producer thread: what is published and when.                        *)
ProducerInv ==
  /\ ~activated => producer = "unborn"
  /\ producer # "exited" => completion = 0
  /\ cancelled /\ owner \in Joined => producer \in {"unborn", "exited"}
  /\ done => producer \in {"unborn", "signal", "exited"}
  /\ done /\ ~cancelled => producer # "unborn"
  /\ producerError = IF producer \in {"finish", "signal", "exited"}
                     THEN failure ELSE "none"
  /\ failure # "none" => producer \in Ended \cup {"close"}

(* The place of the producer in the sampler's order.                       *)
PlaceInv ==
  /\ next <= len
  /\ producer \in {"unborn", "epoch"} => len = 0
  /\ ~cancelled \/ producer = "offer" => sent = base + next
  /\ producer \in {"check", "offer"} => hand = base + next + 1 /\ next < len
  /\ producer = "close" /\ failure = "none" /\ ~cancelled => next = len
  /\ failure # "none" => \/ failure \in SamplerFaults /\ next = len
                         \/ failure \in LoadFaults /\ next < len
  /\ producer \in Ended /\ failure = "none" => len = 0
  /\ Repeat >= 0 => /\ epoch <= Repeat
                    /\ producer \in InEpoch => epoch < Repeat
                    /\ producer \in Ended /\ failure = "none" /\ ~cancelled =>
                         epoch = Repeat

(* The channel holds the next items in order, with no gap: q ends at the   *)
(* n-th sampled item and starts right after the m-th one.                  *)
Step(e) == IF e.from = "sampled" THEN 1 ELSE 0
EndsAt(q, n) ==
  /\ \A i \in 1 .. Len(q) : q[i].pos <= n
  /\ \A i \in 1 .. Len(q) - 1 : q[i + 1].pos = q[i].pos + Step(q[i + 1])
  /\ q # <<>> => q[Len(q)].pos = n
StartsAfter(q, m, n) == IF q = <<>> THEN m = n ELSE q[1].pos = m + Step(q[1])
ChannelInv ==
  /\ received <= sent
  /\ EndsAt(queue, sent)
  /\ ~cancelled => StartsAfter(queue, received, sent)
  /\ owner \in {"join", "drop_join", "redrain"} => Len(queue) <= 1
  /\ owner \in {"join", "drop_join"} /\ producer = "offer" => queue = <<>>

(* A job keeps its place in the epoch, whichever worker has it.            *)
Placed == {r \in Job : r.pos = base + r.seq + 1 /\ r.seq < len}
Loaded == {r \in Placed : r.status # "none"}
PoolInv ==
  /\ jobs \in Seq(Placed)
  /\ results \in Seq(Loaded)
  /\ pending \in SUBSET Loaded
  /\ \A w \in Workers : /\ worker[w] = "load" => load[w] \in Placed
                        /\ worker[w] = "send" => load[w] \in Loaded
  /\ producer \notin InScope => \A w \in Workers : worker[w] = "gone"
  /\ producer \notin InScope \/ Workers = {} =>
       jobs = <<>> /\ results = <<>> /\ pending = {} /\ scheduled = 0
  /\ producer = "item" => Workers = {}
  /\ producer \in {"refill", "receive", "flush"} => Workers # {}
  /\ scheduled <= len

(* What the consumer has been told.                                        *)
VerdictInv ==
  verdict # "none" =>
    /\ done
    /\ verdict = IF producerError = "none" THEN "Exhausted" ELSE producerError
    /\ ~cancelled => received = sent

IInv == /\ TypeOK
        /\ OwnerInv /\ ProducerInv /\ PlaceInv
        /\ ChannelInv /\ PoolInv /\ VerdictInv

-----------------------------------------------------------------------------
(* The channel's order under the only two operations it has.               *)

\* What the rest of a channel is once its first item is taken.
LEMMA TailOf ==
  ASSUME NEW q \in Seq(Item), q # <<>>
  PROVE  /\ Tail(q) \in Seq(Item) /\ Len(Tail(q)) = Len(q) - 1
         /\ Len(q) \in Nat \ {0}
         /\ \A i \in 1 .. Len(q) - 1 : Tail(q)[i] = q[i + 1]
         /\ Head(q) = q[1] /\ q[1] \in Item
         /\ Tail(q) = <<>> <=> Len(q) = 1
<1>1. /\ Tail(q) \in Seq(Item) /\ Len(Tail(q)) = Len(q) - 1
      /\ Len(q) \in Nat \ {0}
  BY HeadTailProperties, LenProperties, EmptySeq
<1>2. /\ \A i \in 1 .. Len(q) - 1 : Tail(q)[i] = q[i + 1]
      /\ Head(q) = q[1] /\ q[1] \in Item
  BY <1>1, HeadTailProperties, ElementOfSeq
<1> DEFINE p == Tail(q)
<1>3. p \in Seq(Item) /\ Len(p) = Len(q) - 1 /\ Len(q) \in Nat \ {0}
  BY <1>1
<1> HIDE DEF p
<1>4. p = <<>> <=> Len(p) = 0
  BY <1>3, EmptySeq
<1>5. p = <<>> <=> Len(q) = 1
  BY <1>3, <1>4
<1> QED
  BY <1>1, <1>2, <1>5 DEF p

\* Appending the next item, or one put by hand, keeps the order.
LEMMA EndsAtAppend ==
  ASSUME NEW q \in Seq(Item), NEW e \in Item, NEW n \in Nat,
         EndsAt(q, n), e.pos = n + Step(e)
  PROVE  EndsAt(Append(q, e), n + Step(e))
<1> DEFINE p == Append(q, e)
<1>1. /\ Len(p) = Len(q) + 1 /\ Len(q) \in Nat
      /\ \A i \in 1 .. Len(q) : p[i] = q[i]
      /\ p[Len(q) + 1] = e
  BY AppendProperties
<1> HIDE DEF p
<1>2. Step(e) \in {0, 1}
  BY DEF Step
<1>3. \A i \in 1 .. Len(q) : q[i].pos \in Nat
  <2>1. \A i \in 1 .. Len(q) : q[i] \in Item
    BY ElementOfSeq
  <2> QED
    BY <2>1 DEF Item
<1>4. ASSUME NEW i \in 1 .. Len(p) PROVE p[i].pos <= n + Step(e)
  <2>1. CASE i = Len(q) + 1
    BY <1>1, <1>2, <2>1
  <2>2. CASE i \in 1 .. Len(q)
    <3>1. p[i] = q[i] /\ q[i].pos <= n /\ q[i].pos \in Nat
      BY <1>1, <1>3, <2>2 DEF EndsAt
    <3> QED
      BY <1>2, <3>1
  <2> QED
    BY <1>1, <2>1, <2>2
<1>5. ASSUME NEW i \in 1 .. Len(p) - 1
      PROVE  p[i + 1].pos = p[i].pos + Step(p[i + 1])
  <2>1. CASE i < Len(q)
    <3>1. i \in 1 .. Len(q) - 1 /\ i \in 1 .. Len(q) /\ i + 1 \in 1 .. Len(q)
      BY <1>1, <2>1
    <3> QED
      BY <1>1, <3>1 DEF EndsAt
  <2>2. CASE i = Len(q)
    <3>1. q # <<>> /\ q[i].pos = n /\ p[i] = q[i] /\ p[i + 1] = e
      BY <1>1, <2>2 DEF EndsAt
    <3> QED
      BY <3>1
  <2> QED
    BY <1>1, <2>1, <2>2
<1>6. p[Len(p)].pos = n + Step(e)
  BY <1>1
<1>7. EndsAt(p, n + Step(e))
  BY <1>4, <1>5, <1>6 DEF EndsAt
<1> QED
  BY <1>7 DEF p

\* Removing the first item keeps the order of the others.
LEMMA EndsAtTail ==
  ASSUME NEW q \in Seq(Item), NEW n \in Nat, EndsAt(q, n), q # <<>>
  PROVE  EndsAt(Tail(q), n)
<1> DEFINE p == Tail(q)
<1>1. /\ Len(p) = Len(q) - 1 /\ Len(q) \in Nat \ {0}
      /\ \A i \in 1 .. Len(q) - 1 : p[i] = q[i + 1]
      /\ p = <<>> <=> Len(q) = 1
  BY TailOf
<1> HIDE DEF p
<1>2. \A i \in 1 .. Len(p) : p[i].pos <= n
  BY <1>1 DEF EndsAt
<1>3. ASSUME NEW i \in 1 .. Len(p) - 1
      PROVE  p[i + 1].pos = p[i].pos + Step(p[i + 1])
  <2>1. /\ i + 1 \in 1 .. Len(q) - 1 /\ p[i] = q[i + 1]
        /\ p[i + 1] = q[(i + 1) + 1]
    BY <1>1
  <2> QED
    BY <2>1 DEF EndsAt
<1>4. p # <<>> => p[Len(p)].pos = n
  <2> SUFFICES ASSUME p # <<>> PROVE p[Len(p)].pos = n
    OBVIOUS
  <2>1. Len(p) \in 1 .. Len(q) - 1 /\ Len(p) + 1 = Len(q)
    BY <1>1
  <2>2. p[Len(p)] = q[Len(q)]
    BY <1>1, <2>1
  <2> QED
    BY <2>2 DEF EndsAt
<1>5. EndsAt(p, n)
  BY <1>2, <1>3, <1>4 DEF EndsAt
<1> QED
  BY <1>5 DEF p

\* Appending does not move the start.
LEMMA StartsAfterAppend ==
  ASSUME NEW q \in Seq(Item), NEW e \in Item, NEW m \in Nat, NEW n \in Nat,
         StartsAfter(q, m, n), e.pos = n + Step(e)
  PROVE  StartsAfter(Append(q, e), m, n + Step(e))
<1>1. CASE q = <<>>
  <2>1. Append(q, e) # <<>> /\ Append(q, e)[1] = e
    BY <1>1, AppendProperties
  <2> QED
    BY <1>1, <2>1 DEF StartsAfter
<1>2. CASE q # <<>>
  <2>1. Append(q, e) # <<>> /\ Append(q, e)[1] = q[1]
    BY <1>2, AppendProperties
  <2> QED
    BY <1>2, <2>1 DEF StartsAfter
<1> QED
  BY <1>1, <1>2

\* Removing the first item moves the start past it.
LEMMA StartsAfterTail ==
  ASSUME NEW q \in Seq(Item), NEW m \in Nat, NEW n \in Nat,
         StartsAfter(q, m, n), EndsAt(q, n), q # <<>>
  PROVE  StartsAfter(Tail(q), m + Step(q[1]), n)
<1>1. q[1].pos = m + Step(q[1])
  BY DEF StartsAfter
<1>2. CASE Len(q) = 1
  BY <1>1, <1>2, TailOf DEF StartsAfter, EndsAt
<1>3. CASE Len(q) # 1
  <2>1. /\ Tail(q) # <<>> /\ Tail(q)[1] = q[1 + 1] /\ 1 \in 1 .. Len(q) - 1
    BY <1>3, TailOf
  <2>2. q[1 + 1].pos = q[1].pos + Step(q[1 + 1])
    BY <2>1 DEF EndsAt
  <2> QED
    BY <1>1, <2>1, <2>2 DEF StartsAfter
<1> QED
  BY <1>2, <1>3

-----------------------------------------------------------------------------
(* Every step preserves every part of the inductive invariant.             *)

USE QueueAssumption

\* Every step of the owner, the producer and a worker keeps the types.
LEMMA TypeStep == IInv /\ [Next]_vars => TypeOK'
<1> SUFFICES ASSUME IInv, [Next]_vars PROVE TypeOK'
  OBVIOUS
<1> USE DEF IInv, TypeOK
<1>1. CASE Activate
  BY <1>1 DEF Activate, shared, ownerVars, epochVars, poolVars
<1>2. CASE StartPut
  BY <1>2 DEF StartPut, shared, ownerVars, epochVars, poolVars
<1>3. CASE OpenIter
  BY <1>3 DEF OpenIter, shared, ownerVars, epochVars, poolVars
<1>4. CASE CloseIter
  BY <1>4 DEF CloseIter, shared, ownerVars, epochVars, poolVars
<1>5. CASE StartGet
  BY <1>5 DEF StartGet, shared, ownerVars, epochVars, poolVars
<1>cancel. ASSUME StartCleanup \/ StartDrop PROVE TypeOK'
  <2>1. /\ cancelled' = TRUE /\ sender' = FALSE /\ owner' \in {"drain", "drop_drain"}
        /\ UNCHANGED <<activated, iter, puts, received, verdict, queue, done, producerError>>
        /\ UNCHANGED <<completion, producer>>
    BY <1>cancel DEF StartCleanup, StartDrop, Cancel
  <2>2. UNCHANGED <<epoch, base, len, next, scheduled, hand, sent, failure>>
    BY <1>cancel DEF StartCleanup, StartDrop, Cancel, epochVars, poolVars
  <2>3. UNCHANGED <<jobs, results, pending, worker, load>>
    BY <1>cancel DEF StartCleanup, StartDrop, Cancel, poolVars
  <2>4. TypeOK
    OBVIOUS
  <2> HIDE DEF IInv
  <2>5. /\ queue' \in Seq(Item) /\ Len(queue') <= Capacity
        /\ jobs' \in Seq(Job) /\ results' \in Seq(Job) /\ pending' \in SUBSET Job
        /\ worker' \in [Workers -> {"take", "load", "send", "gone"}]
        /\ load' \in [Workers -> Job]
    BY <2>1, <2>3, <2>4
  <2>6. /\ owner' \in {"ready", "put", "get_done", "get_try", "get_wait",
                     "get_last", "drain", "join", "redrain",
                     "drop_drain", "drop_join", "dropped"}
        /\ cancelled' \in BOOLEAN /\ sender' \in BOOLEAN
    BY <2>1, Zenon
  <2> QED  BY <2>1, <2>2, <2>4, <2>5, <2>6
<1>6. CASE StartCleanup
  BY <1>cancel, <1>6
<1>7. CASE StartDrop
  BY <1>cancel, <1>7
<1>8. CASE FinishPut
  BY <1>8 DEF FinishPut, ByHand, OwnerInv, Item, shared, ownerVars, epochVars,
       poolVars
<1>9. CASE PollPut
  BY <1>9 DEF PollPut, vars
<1>10. CASE GetReadDone
  BY <1>10 DEF GetReadDone, shared, ownerVars, epochVars, poolVars
<1>11. CASE GetItem
  <2>1. /\ Head(queue) \in Item
        /\ Tail(queue) \in Seq(Item) /\ Len(Tail(queue)) <= Capacity
    BY <1>11 DEF GetItem
  <2>2. received' \in Nat
    BY <1>11, <2>1 DEF GetItem, Item
  <2> QED
    BY <1>11, <2>1, <2>2 DEF GetItem, shared, epochVars, poolVars
<1>12. CASE GetTerminal
  BY <1>12 DEF GetTerminal, Faults, SamplerFaults, LoadFaults, shared,
       ownerVars, epochVars, poolVars
<1>13. CASE GetEmpty
  BY <1>13 DEF GetEmpty, shared, ownerVars, epochVars, poolVars
<1>14. CASE GetCompletion
  BY <1>14 DEF GetCompletion, shared, ownerVars, epochVars, poolVars
<1>15. CASE GetTimeout
  BY <1>15 DEF GetTimeout, shared, ownerVars, epochVars, poolVars
<1>16. CASE DrainItem
  BY <1>16 DEF DrainItem, shared, ownerVars, epochVars, poolVars
<1>17. CASE Drained
  BY <1>17 DEF Drained, shared, ownerVars, epochVars, poolVars
<1>18. CASE Join
  BY <1>18 DEF Join, shared, ownerVars, epochVars, poolVars
<1>19. CASE FinishCleanup
  BY <1>19 DEF FinishCleanup, shared, ownerVars, epochVars, poolVars
<1>20. CASE StartEpoch
  BY <1>20 DEF StartEpoch, EpochDue, shared, ownerVars, epochVars, poolVars
<1>21. CASE SamplerFails
  BY <1>21 DEF SamplerFails, EpochDue, Faults, SamplerFaults, LoadFaults,
       shared, ownerVars, epochVars, poolVars
<1>22. CASE StopProducing
  BY <1>22 DEF StopProducing, EpochDue, shared, ownerVars, epochVars, poolVars
<1>23. CASE Publish
  BY <1>23 DEF Publish, Faults, SamplerFaults, LoadFaults, shared, ownerVars,
       epochVars, poolVars
<1>24. CASE Finish
  BY <1>24 DEF Finish, shared, ownerVars, epochVars, poolVars
<1>25. CASE Signal
  BY <1>25 DEF Signal, ProducerInv, shared, ownerVars, epochVars, poolVars
<1>26. CASE SkipSend
  BY <1>26 DEF SkipSend, AfterSend, shared, ownerVars, epochVars, poolVars
<1>27. CASE AttemptSend
  BY <1>27 DEF AttemptSend, shared, ownerVars, epochVars, poolVars
<1>28. CASE SendItem
  BY <1>28 DEF SendItem, AfterSend, Sampled, Item, shared, ownerVars,
       epochVars, poolVars
<1>29. CASE SendTimeout
  BY <1>29 DEF SendTimeout, shared, ownerVars, epochVars, poolVars
<1>30. CASE LoadItem
  BY <1>30 DEF LoadItem, shared, ownerVars, epochVars, poolVars
<1>31. CASE LoadFails
  BY <1>31 DEF LoadFails, Faults, SamplerFaults, LoadFaults, shared,
       ownerVars, epochVars, poolVars
<1>32. CASE EndSequential
  BY <1>32 DEF EndSequential, EndEpoch, shared, ownerVars, epochVars, poolVars
<1>33. CASE Schedule
  BY <1>33 DEF Schedule, MaySchedule, Job, shared, ownerVars, epochVars,
       poolVars
<1>34. CASE EndRefill
  BY <1>34 DEF EndRefill, MaySchedule, shared, ownerVars, epochVars, poolVars
<1>35. CASE ReceiveResult
  BY <1>35 DEF ReceiveResult, shared, ownerVars, epochVars, poolVars
<1>36. CASE FlushItem
  BY <1>36 DEF FlushItem, Job, Faults, SamplerFaults, LoadFaults, shared,
       ownerVars, epochVars, poolVars
<1>37. CASE EndFlush
  BY <1>37 DEF EndFlush, shared, ownerVars, epochVars, poolVars
<1>38. CASE CloseScope
  <2>1. NoJob \in Job
    BY DEF NoJob, Job
  <2>2. jobs' \in Seq(Job) /\ results' \in Seq(Job) /\ pending' \in SUBSET Job
        /\ scheduled' \in Nat /\ load' \in [Workers -> Job] /\ worker' = worker
    BY <1>38, <2>1 DEF CloseScope
  <2>3. CASE failure = "none"
    BY <1>38, <2>2, <2>3 DEF CloseScope, EndEpoch, shared, ownerVars
  <2>4. CASE failure # "none"
    BY <1>38, <2>2, <2>4 DEF CloseScope, shared, ownerVars, epochVars
  <2> QED
    BY <2>3, <2>4
<1>39. ASSUME NEW w \in Workers, WorkerTake(w) PROVE TypeOK'
  BY <1>39 DEF WorkerTake, shared, ownerVars, epochVars, poolVars
<1>40. ASSUME NEW w \in Workers, WorkerLoad(w) PROVE TypeOK'
  <2>1. PICK s \in {"ok"} \cup LoadFaults : load' = [load EXCEPT ![w].status = s]
    BY <1>40 DEF WorkerLoad
  <2>2. [load[w] EXCEPT !.status = s] \in Job
    BY DEF Job
  <2>3. load' \in [Workers -> Job]
    BY <2>1, <2>2
  <2> QED
    BY <1>40, <2>3 DEF WorkerLoad, shared, ownerVars, epochVars
<1>41. ASSUME NEW w \in Workers, WorkerSend(w) PROVE TypeOK'
  BY <1>41 DEF WorkerSend, ScopeOpen, NoJob, Job, shared, ownerVars,
       epochVars, poolVars
<1>42. ASSUME NEW w \in Workers, WorkerExit(w) PROVE TypeOK'
  BY <1>42 DEF WorkerExit, ScopeOpen, shared, ownerVars, epochVars, poolVars
<1>43. CASE UNCHANGED vars
  BY <1>43 DEF vars
<1> QED
  BY <1>1, <1>2, <1>3, <1>4, <1>5, <1>6, <1>7, <1>8, <1>9, <1>10, <1>11,
       <1>12, <1>13, <1>14, <1>15, <1>16, <1>17, <1>18, <1>19, <1>20, <1>21,
       <1>22, <1>23, <1>24, <1>25, <1>26, <1>27, <1>28, <1>29, <1>30, <1>31,
       <1>32, <1>33, <1>34, <1>35, <1>36, <1>37, <1>38, <1>39, <1>40, <1>41,
       <1>42, <1>43 DEF Next, OwnerCall, OwnerStep, ProducerStep, WorkerStep,
       Dropped

\* What the owner has given up when it cancels stays given up.
LEMMA OwnerStepInv == IInv /\ [Next]_vars => OwnerInv'
<1> SUFFICES ASSUME IInv, [Next]_vars PROVE OwnerInv'
  OBVIOUS
<1> USE DEF IInv, OwnerInv, Cancelling
<1>1. CASE Activate
  BY <1>1 DEF Activate, shared, ownerVars, epochVars, poolVars
<1>2. CASE StartPut
  BY <1>2 DEF StartPut, shared, ownerVars, epochVars, poolVars
<1>3. CASE OpenIter
  BY <1>3 DEF OpenIter, shared, ownerVars, epochVars, poolVars
<1>4. CASE CloseIter
  BY <1>4 DEF CloseIter, shared, ownerVars, epochVars, poolVars
<1>5. CASE StartGet
  BY <1>5 DEF StartGet, shared, ownerVars, epochVars, poolVars
<1>6. CASE StartCleanup
  BY <1>6 DEF StartCleanup, Cancel, shared, ownerVars, epochVars, poolVars
<1>7. CASE StartDrop
  BY <1>7 DEF StartDrop, Cancel, shared, ownerVars, epochVars, poolVars
<1>8. CASE FinishPut
  BY <1>8 DEF FinishPut, ByHand, shared, ownerVars, epochVars, poolVars
<1>9. CASE PollPut
  BY <1>9 DEF PollPut, vars
<1>10. CASE GetReadDone
  BY <1>10 DEF GetReadDone, shared, ownerVars, epochVars, poolVars
<1>11. CASE GetItem
  BY <1>11 DEF GetItem, shared, ownerVars, epochVars, poolVars
<1>12. CASE GetTerminal
  BY <1>12 DEF GetTerminal, shared, ownerVars, epochVars, poolVars
<1>13. CASE GetEmpty
  BY <1>13 DEF GetEmpty, shared, ownerVars, epochVars, poolVars
<1>14. CASE GetCompletion
  BY <1>14 DEF GetCompletion, shared, ownerVars, epochVars, poolVars
<1>15. CASE GetTimeout
  BY <1>15 DEF GetTimeout, shared, ownerVars, epochVars, poolVars
<1>16. CASE DrainItem
  BY <1>16 DEF DrainItem, shared, ownerVars, epochVars, poolVars
<1>17. CASE Drained
  BY <1>17 DEF Drained, shared, ownerVars, epochVars, poolVars
<1>18. CASE Join
  BY <1>18 DEF Join, ProducerInv, shared, ownerVars, epochVars, poolVars
<1>19. CASE FinishCleanup
  BY <1>19 DEF FinishCleanup, ProducerInv, shared, ownerVars, epochVars,
       poolVars
<1>20. CASE StartEpoch
  BY <1>20 DEF StartEpoch, EpochDue, shared, ownerVars, epochVars, poolVars
<1>21. CASE SamplerFails
  BY <1>21 DEF SamplerFails, EpochDue, shared, ownerVars, epochVars, poolVars
<1>22. CASE StopProducing
  BY <1>22 DEF StopProducing, EpochDue, shared, ownerVars, epochVars, poolVars
<1>23. CASE Publish
  BY <1>23 DEF Publish, shared, ownerVars, epochVars, poolVars
<1>24. CASE Finish
  BY <1>24 DEF Finish, ProducerInv, Joined, shared, ownerVars, epochVars,
       poolVars
<1>25. CASE Signal
  BY <1>25 DEF Signal, shared, ownerVars, epochVars, poolVars
<1>26. CASE SkipSend
  BY <1>26 DEF SkipSend, AfterSend, shared, ownerVars, epochVars, poolVars
<1>27. CASE AttemptSend
  BY <1>27 DEF AttemptSend, shared, ownerVars, epochVars, poolVars
<1>28. CASE SendItem
  BY <1>28 DEF SendItem, AfterSend, ProducerInv, Joined, shared, ownerVars,
       epochVars, poolVars
<1>29. CASE SendTimeout
  BY <1>29 DEF SendTimeout, shared, ownerVars, epochVars, poolVars
<1>30. CASE LoadItem
  BY <1>30 DEF LoadItem, shared, ownerVars, epochVars, poolVars
<1>31. CASE LoadFails
  BY <1>31 DEF LoadFails, shared, ownerVars, epochVars, poolVars
<1>32. CASE EndSequential
  BY <1>32 DEF EndSequential, EndEpoch, shared, ownerVars, epochVars, poolVars
<1>33. CASE Schedule
  BY <1>33 DEF Schedule, MaySchedule, shared, ownerVars, epochVars, poolVars
<1>34. CASE EndRefill
  BY <1>34 DEF EndRefill, MaySchedule, shared, ownerVars, epochVars, poolVars
<1>35. CASE ReceiveResult
  BY <1>35 DEF ReceiveResult, shared, ownerVars, epochVars, poolVars
<1>36. CASE FlushItem
  BY <1>36 DEF FlushItem, shared, ownerVars, epochVars, poolVars
<1>37. CASE EndFlush
  BY <1>37 DEF EndFlush, shared, ownerVars, epochVars, poolVars
<1>38. CASE CloseScope
  BY <1>38 DEF CloseScope, EndEpoch, shared, ownerVars, epochVars, poolVars
<1>39. ASSUME NEW w \in Workers, WorkerTake(w) PROVE OwnerInv'
  BY <1>39 DEF WorkerTake, shared, ownerVars, epochVars, poolVars
<1>40. ASSUME NEW w \in Workers, WorkerLoad(w) PROVE OwnerInv'
  BY <1>40 DEF WorkerLoad, shared, ownerVars, epochVars, poolVars
<1>41. ASSUME NEW w \in Workers, WorkerSend(w) PROVE OwnerInv'
  BY <1>41 DEF WorkerSend, ScopeOpen, shared, ownerVars, epochVars, poolVars
<1>42. ASSUME NEW w \in Workers, WorkerExit(w) PROVE OwnerInv'
  BY <1>42 DEF WorkerExit, ScopeOpen, shared, ownerVars, epochVars, poolVars
<1>43. CASE UNCHANGED vars
  BY <1>43 DEF vars
<1> QED
  BY <1>1, <1>2, <1>3, <1>4, <1>5, <1>6, <1>7, <1>8, <1>9, <1>10, <1>11,
       <1>12, <1>13, <1>14, <1>15, <1>16, <1>17, <1>18, <1>19, <1>20, <1>21,
       <1>22, <1>23, <1>24, <1>25, <1>26, <1>27, <1>28, <1>29, <1>30, <1>31,
       <1>32, <1>33, <1>34, <1>35, <1>36, <1>37, <1>38, <1>39, <1>40, <1>41,
       <1>42, <1>43 DEF Next, OwnerCall, OwnerStep, ProducerStep, WorkerStep,
       Dropped

\* The failure is published before done, and done before the message.
LEMMA ProducerStepInv == IInv /\ [Next]_vars => ProducerInv'
<1> SUFFICES ASSUME IInv, [Next]_vars PROVE ProducerInv'
  OBVIOUS
<1> USE DEF IInv, ProducerInv, Joined, Ended, OwnerInv
<1>1. CASE Activate
  BY <1>1 DEF Activate, shared, ownerVars, epochVars, poolVars
<1>2. CASE StartPut
  BY <1>2 DEF StartPut, shared, ownerVars, epochVars, poolVars
<1>3. CASE OpenIter
  BY <1>3 DEF OpenIter, shared, ownerVars, epochVars, poolVars
<1>4. CASE CloseIter
  BY <1>4 DEF CloseIter, shared, ownerVars, epochVars, poolVars
<1>5. CASE StartGet
  BY <1>5 DEF StartGet, shared, ownerVars, epochVars, poolVars
<1>6. CASE StartCleanup
  BY <1>6 DEF StartCleanup, Cancel, shared, ownerVars, epochVars, poolVars
<1>7. CASE StartDrop
  BY <1>7 DEF StartDrop, Cancel, shared, ownerVars, epochVars, poolVars
<1>8. CASE FinishPut
  BY <1>8 DEF FinishPut, ByHand, shared, ownerVars, epochVars, poolVars
<1>9. CASE PollPut
  BY <1>9 DEF PollPut, vars
<1>10. CASE GetReadDone
  BY <1>10 DEF GetReadDone, shared, ownerVars, epochVars, poolVars
<1>11. CASE GetItem
  BY <1>11 DEF GetItem, shared, ownerVars, epochVars, poolVars
<1>12. CASE GetTerminal
  BY <1>12 DEF GetTerminal, shared, ownerVars, epochVars, poolVars
<1>13. CASE GetEmpty
  BY <1>13 DEF GetEmpty, shared, ownerVars, epochVars, poolVars
<1>14. CASE GetCompletion
  BY <1>14 DEF GetCompletion, shared, ownerVars, epochVars, poolVars
<1>15. CASE GetTimeout
  BY <1>15 DEF GetTimeout, shared, ownerVars, epochVars, poolVars
<1>16. CASE DrainItem
  BY <1>16 DEF DrainItem, shared, ownerVars, epochVars, poolVars
<1>17. CASE Drained
  BY <1>17 DEF Drained, shared, ownerVars, epochVars, poolVars
<1>18. CASE Join
  BY <1>18 DEF Join, shared, ownerVars, epochVars, poolVars
<1>19. CASE FinishCleanup
  BY <1>19 DEF FinishCleanup, Cancelling, shared, ownerVars, epochVars, poolVars
<1>20. CASE StartEpoch
  BY <1>20 DEF StartEpoch, EpochDue, shared, ownerVars, epochVars, poolVars
<1>21. CASE SamplerFails
  BY <1>21 DEF SamplerFails, EpochDue, SamplerFaults, shared, ownerVars,
       epochVars, poolVars
<1>22. CASE StopProducing
  BY <1>22 DEF StopProducing, EpochDue, shared, ownerVars, epochVars, poolVars
<1>23. CASE Publish
  BY <1>23 DEF Publish, shared, ownerVars, epochVars, poolVars
<1>24. CASE Finish
  BY <1>24 DEF Finish, shared, ownerVars, epochVars, poolVars
<1>25. CASE Signal
  BY <1>25 DEF Signal, shared, ownerVars, epochVars, poolVars
<1>26. CASE SkipSend
  BY <1>26 DEF SkipSend, AfterSend, shared, ownerVars, epochVars, poolVars
<1>27. CASE AttemptSend
  BY <1>27 DEF AttemptSend, shared, ownerVars, epochVars, poolVars
<1>28. CASE SendItem
  BY <1>28 DEF SendItem, AfterSend, shared, ownerVars, epochVars, poolVars
<1>29. CASE SendTimeout
  BY <1>29 DEF SendTimeout, shared, ownerVars, epochVars, poolVars
<1>30. CASE LoadItem
  BY <1>30 DEF LoadItem, shared, ownerVars, epochVars, poolVars
<1>31. CASE LoadFails
  BY <1>31 DEF LoadFails, LoadFaults, shared, ownerVars, epochVars, poolVars
<1>32. CASE EndSequential
  BY <1>32 DEF EndSequential, EndEpoch, shared, ownerVars, epochVars, poolVars
<1>33. CASE Schedule
  BY <1>33 DEF Schedule, MaySchedule, shared, ownerVars, epochVars, poolVars
<1>34. CASE EndRefill
  BY <1>34 DEF EndRefill, MaySchedule, shared, ownerVars, epochVars, poolVars
<1>35. CASE ReceiveResult
  BY <1>35 DEF ReceiveResult, shared, ownerVars, epochVars, poolVars
<1>36. CASE FlushItem
  BY <1>36 DEF FlushItem, shared, ownerVars, epochVars, poolVars
<1>37. CASE EndFlush
  BY <1>37 DEF EndFlush, shared, ownerVars, epochVars, poolVars
<1>38. CASE CloseScope
  BY <1>38 DEF CloseScope, EndEpoch, shared, ownerVars, epochVars, poolVars
<1>39. ASSUME NEW w \in Workers, WorkerTake(w) PROVE ProducerInv'
  BY <1>39 DEF WorkerTake, shared, ownerVars, epochVars, poolVars
<1>40. ASSUME NEW w \in Workers, WorkerLoad(w) PROVE ProducerInv'
  BY <1>40 DEF WorkerLoad, shared, ownerVars, epochVars, poolVars
<1>41. ASSUME NEW w \in Workers, WorkerSend(w) PROVE ProducerInv'
  BY <1>41 DEF WorkerSend, ScopeOpen, shared, ownerVars, epochVars, poolVars
<1>42. ASSUME NEW w \in Workers, WorkerExit(w) PROVE ProducerInv'
  BY <1>42 DEF WorkerExit, ScopeOpen, shared, ownerVars, epochVars, poolVars
<1>43. CASE UNCHANGED vars
  BY <1>43 DEF vars
<1> QED
  BY <1>1, <1>2, <1>3, <1>4, <1>5, <1>6, <1>7, <1>8, <1>9, <1>10, <1>11,
       <1>12, <1>13, <1>14, <1>15, <1>16, <1>17, <1>18, <1>19, <1>20, <1>21,
       <1>22, <1>23, <1>24, <1>25, <1>26, <1>27, <1>28, <1>29, <1>30, <1>31,
       <1>32, <1>33, <1>34, <1>35, <1>36, <1>37, <1>38, <1>39, <1>40, <1>41,
       <1>42, <1>43 DEF Next, OwnerCall, OwnerStep, ProducerStep, WorkerStep,
       Dropped

\* The producer keeps its place in the sampler's order.
LEMMA PlaceStepInv == IInv /\ [Next]_vars => PlaceInv'
<1> SUFFICES ASSUME IInv, [Next]_vars PROVE PlaceInv'
  OBVIOUS
<1> USE DEF IInv, TypeOK, PlaceInv, InScope, InEpoch, Ended, ProducerInv
<1>1. CASE Activate
  BY <1>1 DEF Activate, shared, ownerVars, epochVars, poolVars
<1>2. CASE StartPut
  BY <1>2 DEF StartPut, shared, ownerVars, epochVars, poolVars
<1>3. CASE OpenIter
  BY <1>3 DEF OpenIter, shared, ownerVars, epochVars, poolVars
<1>4. CASE CloseIter
  BY <1>4 DEF CloseIter, shared, ownerVars, epochVars, poolVars
<1>5. CASE StartGet
  BY <1>5 DEF StartGet, shared, ownerVars, epochVars, poolVars
<1>6. CASE StartCleanup
  BY <1>6 DEF StartCleanup, Cancel, shared, ownerVars, epochVars, poolVars
<1>7. CASE StartDrop
  BY <1>7 DEF StartDrop, Cancel, shared, ownerVars, epochVars, poolVars
<1>8. CASE FinishPut
  BY <1>8 DEF FinishPut, ByHand, shared, ownerVars, epochVars, poolVars
<1>9. CASE PollPut
  BY <1>9 DEF PollPut, vars
<1>10. CASE GetReadDone
  BY <1>10 DEF GetReadDone, shared, ownerVars, epochVars, poolVars
<1>11. CASE GetItem
  BY <1>11 DEF GetItem, shared, ownerVars, epochVars, poolVars
<1>12. CASE GetTerminal
  BY <1>12 DEF GetTerminal, shared, ownerVars, epochVars, poolVars
<1>13. CASE GetEmpty
  BY <1>13 DEF GetEmpty, shared, ownerVars, epochVars, poolVars
<1>14. CASE GetCompletion
  BY <1>14 DEF GetCompletion, shared, ownerVars, epochVars, poolVars
<1>15. CASE GetTimeout
  BY <1>15 DEF GetTimeout, shared, ownerVars, epochVars, poolVars
<1>16. CASE DrainItem
  BY <1>16 DEF DrainItem, shared, ownerVars, epochVars, poolVars
<1>17. CASE Drained
  BY <1>17 DEF Drained, shared, ownerVars, epochVars, poolVars
<1>18. CASE Join
  BY <1>18 DEF Join, shared, ownerVars, epochVars, poolVars
<1>19. CASE FinishCleanup
  BY <1>19 DEF FinishCleanup, shared, ownerVars, epochVars, poolVars
<1>20. CASE StartEpoch
  BY <1>20 DEF StartEpoch, EpochDue, shared, ownerVars, epochVars, poolVars
<1>21. CASE SamplerFails
  BY <1>21 DEF SamplerFails, EpochDue, SamplerFaults, LoadFaults, shared,
       ownerVars, epochVars, poolVars
<1>22. CASE StopProducing
  BY <1>22 DEF StopProducing, EpochDue, shared, ownerVars, epochVars, poolVars
<1>23. CASE Publish
  BY <1>23 DEF Publish, shared, ownerVars, epochVars, poolVars
<1>24. CASE Finish
  BY <1>24 DEF Finish, shared, ownerVars, epochVars, poolVars
<1>25. CASE Signal
  BY <1>25 DEF Signal, shared, ownerVars, epochVars, poolVars
<1>26. CASE SkipSend
  BY <1>26 DEF SkipSend, AfterSend, shared, ownerVars, epochVars, poolVars
<1>27. CASE AttemptSend
  BY <1>27 DEF AttemptSend, shared, ownerVars, epochVars, poolVars
<1>28. CASE SendItem
  BY <1>28 DEF SendItem, AfterSend, shared, ownerVars, epochVars, poolVars
<1>29. CASE SendTimeout
  BY <1>29 DEF SendTimeout, shared, ownerVars, epochVars, poolVars
<1>30. CASE LoadItem
  BY <1>30 DEF LoadItem, shared, ownerVars, epochVars, poolVars
<1>31. CASE LoadFails
  BY <1>31 DEF LoadFails, LoadFaults, shared, ownerVars, epochVars, poolVars
<1>32. CASE EndSequential
  BY <1>32 DEF EndSequential, EndEpoch, shared, ownerVars, epochVars, poolVars
<1>33. CASE Schedule
  BY <1>33 DEF Schedule, MaySchedule, shared, ownerVars, epochVars, poolVars
<1>34. CASE EndRefill
  BY <1>34 DEF EndRefill, MaySchedule, shared, ownerVars, epochVars, poolVars
<1>35. CASE ReceiveResult
  BY <1>35 DEF ReceiveResult, shared, ownerVars, epochVars, poolVars
<1>36. CASE FlushItem
  <2>1. PICK r \in pending :
              /\ r.seq = next
              /\ IF r.status = "ok"
                 THEN hand' = r.pos /\ producer' = "check" /\ failure' = failure
                 ELSE failure' = r.status /\ producer' = "close" /\ hand' = hand
    BY <1>36 DEF FlushItem
  <2>2. r.pos = base + next + 1 /\ next < len /\ r.status \in {"ok"} \cup LoadFaults
    BY <2>1 DEF PoolInv, Loaded, Placed, Job
  <2>3. CASE r.status = "ok"
    BY <1>36, <2>1, <2>2, <2>3 DEF FlushItem, shared, ownerVars
  <2>4. CASE r.status # "ok"
    BY <1>36, <2>1, <2>2, <2>4 DEF FlushItem, shared, ownerVars, LoadFaults
  <2> QED
    BY <2>3, <2>4
<1>37. CASE EndFlush
  BY <1>37 DEF EndFlush, shared, ownerVars, epochVars, poolVars
<1>38. CASE CloseScope
  <2>1. CASE failure = "none"
    BY <1>38, <2>1 DEF CloseScope, EndEpoch, shared, ownerVars
  <2>2. CASE failure # "none"
    BY <1>38, <2>2 DEF CloseScope, shared, ownerVars, epochVars
  <2> QED
    BY <2>1, <2>2
<1>39. ASSUME NEW w \in Workers, WorkerTake(w) PROVE PlaceInv'
  BY <1>39 DEF WorkerTake, shared, ownerVars, epochVars, poolVars
<1>40. ASSUME NEW w \in Workers, WorkerLoad(w) PROVE PlaceInv'
  BY <1>40 DEF WorkerLoad, shared, ownerVars, epochVars, poolVars
<1>41. ASSUME NEW w \in Workers, WorkerSend(w) PROVE PlaceInv'
  BY <1>41 DEF WorkerSend, ScopeOpen, shared, ownerVars, epochVars, poolVars
<1>42. ASSUME NEW w \in Workers, WorkerExit(w) PROVE PlaceInv'
  BY <1>42 DEF WorkerExit, ScopeOpen, shared, ownerVars, epochVars, poolVars
<1>43. CASE UNCHANGED vars
  BY <1>43 DEF vars
<1> QED
  BY <1>1, <1>2, <1>3, <1>4, <1>5, <1>6, <1>7, <1>8, <1>9, <1>10, <1>11,
       <1>12, <1>13, <1>14, <1>15, <1>16, <1>17, <1>18, <1>19, <1>20, <1>21,
       <1>22, <1>23, <1>24, <1>25, <1>26, <1>27, <1>28, <1>29, <1>30, <1>31,
       <1>32, <1>33, <1>34, <1>35, <1>36, <1>37, <1>38, <1>39, <1>40, <1>41,
       <1>42, <1>43 DEF Next, OwnerCall, OwnerStep, ProducerStep, WorkerStep,
       Dropped

\* The channel keeps holding the next items in order.
LEMMA ChannelStepInv == IInv /\ [Next]_vars => ChannelInv'
<1> SUFFICES ASSUME IInv, [Next]_vars PROVE ChannelInv'
  OBVIOUS
<1> USE DEF IInv, ChannelInv, OwnerInv
<1>1. CASE Activate
  BY <1>1 DEF Activate, shared, ownerVars, epochVars, poolVars
<1>2. CASE StartPut
  BY <1>2 DEF StartPut, shared, ownerVars, epochVars, poolVars
<1>3. CASE OpenIter
  BY <1>3 DEF OpenIter, shared, ownerVars, epochVars, poolVars
<1>4. CASE CloseIter
  BY <1>4 DEF CloseIter, shared, ownerVars, epochVars, poolVars
<1>5. CASE StartGet
  BY <1>5 DEF StartGet, shared, ownerVars, epochVars, poolVars
<1>6. CASE StartCleanup
  BY <1>6 DEF StartCleanup, Cancel, shared, ownerVars, epochVars, poolVars
<1>7. CASE StartDrop
  BY <1>7 DEF StartDrop, Cancel, shared, ownerVars, epochVars, poolVars
<1>8. CASE FinishPut
  <2>1. queue' = Append(queue, ByHand(sent)) /\ ByHand(sent) \in Item
    BY <1>8 DEF FinishPut, ByHand, Item, TypeOK
  <2>2. /\ ByHand(sent).pos = sent + Step(ByHand(sent))
        /\ sent + Step(ByHand(sent)) = sent
    BY DEF ByHand, Step, TypeOK
  <2>3. EndsAt(queue', sent) /\ (~cancelled => StartsAfter(queue', received, sent))
    BY <2>1, <2>2, EndsAtAppend, StartsAfterAppend DEF TypeOK
  <2> QED
    BY <1>8, <2>3 DEF FinishPut, epochVars
<1>9. CASE PollPut
  BY <1>9 DEF PollPut, vars
<1>10. CASE GetReadDone
  BY <1>10 DEF GetReadDone, shared, ownerVars, epochVars, poolVars
<1>11. CASE GetItem
  <2>1. Head(queue) = queue[1] /\ queue[1] \in Item /\ queue # <<>> /\ Len(queue) \in Nat
    BY <1>11, TailOf DEF GetItem, TypeOK
  <2>2. ~cancelled => queue[1].pos = received + Step(queue[1])
    BY <2>1 DEF StartsAfter
  <2>3. queue[1].pos <= sent
    BY <2>1 DEF EndsAt
  <2>4. received' <= sent
    BY <1>11, <2>1, <2>3 DEF GetItem
  <2>5. ~cancelled => received' = received + Step(queue[1])
    BY <1>11, <2>1, <2>2 DEF GetItem, Step, TypeOK
  <2>6. EndsAt(Tail(queue), sent)
        /\ (~cancelled => StartsAfter(Tail(queue), received + Step(queue[1]), sent))
    BY <2>1, EndsAtTail, StartsAfterTail DEF TypeOK
  <2> QED
    BY <1>11, <2>4, <2>5, <2>6 DEF GetItem, epochVars
<1>12. CASE GetTerminal
  BY <1>12 DEF GetTerminal, shared, ownerVars, epochVars, poolVars
<1>13. CASE GetEmpty
  BY <1>13 DEF GetEmpty, shared, ownerVars, epochVars, poolVars
<1>14. CASE GetCompletion
  BY <1>14 DEF GetCompletion, shared, ownerVars, epochVars, poolVars
<1>15. CASE GetTimeout
  BY <1>15 DEF GetTimeout, shared, ownerVars, epochVars, poolVars
<1>16. CASE DrainItem
  <2>1. EndsAt(Tail(queue), sent)
    BY <1>16, EndsAtTail DEF DrainItem, TypeOK
  <2>2. Len(Tail(queue)) = Len(queue) - 1 /\ Len(queue) \in Nat
    BY <1>16, TailOf DEF DrainItem, TypeOK
  <2>3. cancelled /\ owner # "join" /\ owner # "drop_join"
    BY <1>16 DEF DrainItem, Cancelling
  <2> QED
    BY <1>16, <2>1, <2>2, <2>3 DEF DrainItem, ownerVars, epochVars
<1>17. CASE Drained
  BY <1>17 DEF Drained, shared, ownerVars, epochVars, poolVars
<1>18. CASE Join
  BY <1>18 DEF Join, shared, ownerVars, epochVars, poolVars
<1>19. CASE FinishCleanup
  BY <1>19 DEF FinishCleanup, shared, ownerVars, epochVars, poolVars
<1>20. CASE StartEpoch
  BY <1>20 DEF StartEpoch, EpochDue, shared, ownerVars, epochVars, poolVars
<1>21. CASE SamplerFails
  BY <1>21 DEF SamplerFails, EpochDue, shared, ownerVars, epochVars, poolVars
<1>22. CASE StopProducing
  BY <1>22 DEF StopProducing, EpochDue, shared, ownerVars, epochVars, poolVars
<1>23. CASE Publish
  BY <1>23 DEF Publish, shared, ownerVars, epochVars, poolVars
<1>24. CASE Finish
  BY <1>24 DEF Finish, shared, ownerVars, epochVars, poolVars
<1>25. CASE Signal
  BY <1>25 DEF Signal, shared, ownerVars, epochVars, poolVars
<1>26. CASE SkipSend
  BY <1>26 DEF SkipSend, AfterSend, shared, ownerVars, epochVars, poolVars
<1>27. CASE AttemptSend
  BY <1>27 DEF AttemptSend, Cancelling, shared, ownerVars, epochVars, poolVars
<1>28. CASE SendItem
  <2>1. queue' = Append(queue, Sampled(hand)) /\ Sampled(hand) \in Item
    BY <1>28 DEF SendItem, Sampled, Item, TypeOK
  <2>2. hand = sent + 1
    BY <1>28 DEF SendItem, PlaceInv
  <2>3. /\ Sampled(hand).pos = sent + Step(Sampled(hand))
        /\ sent + Step(Sampled(hand)) = sent'
    BY <1>28, <2>2 DEF SendItem, Sampled, Step
  <2>4. EndsAt(queue', sent') /\ (~cancelled => StartsAfter(queue', received, sent'))
    BY <2>1, <2>3, EndsAtAppend, StartsAfterAppend DEF TypeOK
  <2>5. owner \in {"join", "drop_join"} => Len(queue') <= 1
    BY <1>28, <2>1 DEF SendItem, TypeOK
  <2>6. owner # "redrain"
    BY <1>28 DEF SendItem, ProducerInv, Cancelling, Joined
  <2>7. received <= sent' /\ producer' # "offer"
    BY <1>28, <2>2 DEF SendItem, AfterSend, TypeOK
  <2> QED
    BY <1>28, <2>4, <2>5, <2>6, <2>7 DEF SendItem, ownerVars, shared
<1>29. CASE SendTimeout
  BY <1>29 DEF SendTimeout, shared, ownerVars, epochVars, poolVars
<1>30. CASE LoadItem
  BY <1>30 DEF LoadItem, shared, ownerVars, epochVars, poolVars
<1>31. CASE LoadFails
  BY <1>31 DEF LoadFails, shared, ownerVars, epochVars, poolVars
<1>32. CASE EndSequential
  BY <1>32 DEF EndSequential, EndEpoch, shared, ownerVars, epochVars, poolVars
<1>33. CASE Schedule
  BY <1>33 DEF Schedule, MaySchedule, shared, ownerVars, epochVars, poolVars
<1>34. CASE EndRefill
  BY <1>34 DEF EndRefill, MaySchedule, shared, ownerVars, epochVars, poolVars
<1>35. CASE ReceiveResult
  BY <1>35 DEF ReceiveResult, shared, ownerVars, epochVars, poolVars
<1>36. CASE FlushItem
  BY <1>36 DEF FlushItem, shared, ownerVars, epochVars, poolVars
<1>37. CASE EndFlush
  BY <1>37 DEF EndFlush, shared, ownerVars, epochVars, poolVars
<1>38. CASE CloseScope
  BY <1>38 DEF CloseScope, EndEpoch, shared, ownerVars, epochVars, poolVars
<1>39. ASSUME NEW w \in Workers, WorkerTake(w) PROVE ChannelInv'
  BY <1>39 DEF WorkerTake, shared, ownerVars, epochVars, poolVars
<1>40. ASSUME NEW w \in Workers, WorkerLoad(w) PROVE ChannelInv'
  BY <1>40 DEF WorkerLoad, shared, ownerVars, epochVars, poolVars
<1>41. ASSUME NEW w \in Workers, WorkerSend(w) PROVE ChannelInv'
  BY <1>41 DEF WorkerSend, ScopeOpen, shared, ownerVars, epochVars, poolVars
<1>42. ASSUME NEW w \in Workers, WorkerExit(w) PROVE ChannelInv'
  BY <1>42 DEF WorkerExit, ScopeOpen, shared, ownerVars, epochVars, poolVars
<1>43. CASE UNCHANGED vars
  BY <1>43 DEF vars
<1> QED
  BY <1>1, <1>2, <1>3, <1>4, <1>5, <1>6, <1>7, <1>8, <1>9, <1>10, <1>11,
       <1>12, <1>13, <1>14, <1>15, <1>16, <1>17, <1>18, <1>19, <1>20, <1>21,
       <1>22, <1>23, <1>24, <1>25, <1>26, <1>27, <1>28, <1>29, <1>30, <1>31,
       <1>32, <1>33, <1>34, <1>35, <1>36, <1>37, <1>38, <1>39, <1>40, <1>41,
       <1>42, <1>43 DEF Next, OwnerCall, OwnerStep, ProducerStep, WorkerStep,
       Dropped

\* The job scheduled next has the place of its index.
LEMMA ScheduledJob ==
  ASSUME scheduled \in Nat, base \in Nat, len \in Nat, scheduled < len
  PROVE  [seq |-> scheduled, pos |-> base + scheduled + 1, status |-> "none"]
           \in Placed
  BY DEF Placed, Job

\* A job keeps its place in the epoch from the schedule to the flush.
LEMMA PoolStepInv == IInv /\ [Next]_vars => PoolInv'
<1> SUFFICES ASSUME IInv, [Next]_vars PROVE PoolInv'
  OBVIOUS
<1> USE DEF IInv, PoolInv, InScope, Loaded, Placed, Job, LoadFaults
<1>1. CASE Activate
  BY <1>1 DEF Activate, ProducerInv, shared, ownerVars, epochVars, poolVars
<1>2. CASE StartPut
  BY <1>2 DEF StartPut, shared, ownerVars, epochVars, poolVars
<1>3. CASE OpenIter
  BY <1>3 DEF OpenIter, shared, ownerVars, epochVars, poolVars
<1>4. CASE CloseIter
  BY <1>4 DEF CloseIter, shared, ownerVars, epochVars, poolVars
<1>5. CASE StartGet
  BY <1>5 DEF StartGet, shared, ownerVars, epochVars, poolVars
<1>6. CASE StartCleanup
  BY <1>6 DEF StartCleanup, Cancel, shared, ownerVars, epochVars, poolVars
<1>7. CASE StartDrop
  BY <1>7 DEF StartDrop, Cancel, shared, ownerVars, epochVars, poolVars
<1>8. CASE FinishPut
  BY <1>8 DEF FinishPut, ByHand, shared, ownerVars, epochVars, poolVars
<1>9. CASE PollPut
  BY <1>9 DEF PollPut, vars
<1>10. CASE GetReadDone
  BY <1>10 DEF GetReadDone, shared, ownerVars, epochVars, poolVars
<1>11. CASE GetItem
  BY <1>11 DEF GetItem, shared, ownerVars, epochVars, poolVars
<1>12. CASE GetTerminal
  BY <1>12 DEF GetTerminal, shared, ownerVars, epochVars, poolVars
<1>13. CASE GetEmpty
  BY <1>13 DEF GetEmpty, shared, ownerVars, epochVars, poolVars
<1>14. CASE GetCompletion
  BY <1>14 DEF GetCompletion, shared, ownerVars, epochVars, poolVars
<1>15. CASE GetTimeout
  BY <1>15 DEF GetTimeout, shared, ownerVars, epochVars, poolVars
<1>16. CASE DrainItem
  BY <1>16 DEF DrainItem, shared, ownerVars, epochVars, poolVars
<1>17. CASE Drained
  BY <1>17 DEF Drained, shared, ownerVars, epochVars, poolVars
<1>18. CASE Join
  BY <1>18 DEF Join, shared, ownerVars, epochVars, poolVars
<1>19. CASE FinishCleanup
  BY <1>19 DEF FinishCleanup, shared, ownerVars, epochVars, poolVars
<1>20. CASE StartEpoch
  BY <1>20 DEF StartEpoch, EpochDue, shared, ownerVars, epochVars, poolVars
<1>21. CASE SamplerFails
  BY <1>21 DEF SamplerFails, EpochDue, shared, ownerVars, epochVars, poolVars
<1>22. CASE StopProducing
  BY <1>22 DEF StopProducing, EpochDue, shared, ownerVars, epochVars, poolVars
<1>23. CASE Publish
  BY <1>23 DEF Publish, shared, ownerVars, epochVars, poolVars
<1>24. CASE Finish
  BY <1>24 DEF Finish, shared, ownerVars, epochVars, poolVars
<1>25. CASE Signal
  BY <1>25 DEF Signal, shared, ownerVars, epochVars, poolVars
<1>26. CASE SkipSend
  BY <1>26 DEF SkipSend, AfterSend, shared, ownerVars, epochVars, poolVars
<1>27. CASE AttemptSend
  BY <1>27 DEF AttemptSend, shared, ownerVars, epochVars, poolVars
<1>28. CASE SendItem
  BY <1>28 DEF SendItem, AfterSend, shared, ownerVars, epochVars, poolVars
<1>29. CASE SendTimeout
  BY <1>29 DEF SendTimeout, shared, ownerVars, epochVars, poolVars
<1>30. CASE LoadItem
  BY <1>30 DEF LoadItem, shared, ownerVars, epochVars, poolVars
<1>31. CASE LoadFails
  BY <1>31 DEF LoadFails, shared, ownerVars, epochVars, poolVars
<1>32. CASE EndSequential
  BY <1>32 DEF EndSequential, EndEpoch, shared, ownerVars, epochVars, poolVars
<1>33. CASE Schedule
  <2> DEFINE job == [seq |-> scheduled, pos |-> base + scheduled + 1,
                     status |-> "none"]
  <2>1. scheduled \in Nat /\ base \in Nat /\ len \in Nat /\ scheduled < len
    BY <1>33 DEF Schedule, MaySchedule, TypeOK
  <2>2. job \in Placed
    BY <2>1, ScheduledJob
  <2>3. jobs' = Append(jobs, job)
    BY <1>33 DEF Schedule
  <2> HIDE DEF job
  <2>4. jobs' \in Seq(Placed)
    BY <2>2, <2>3
  <2>5. scheduled' <= len
    BY <1>33, <2>1 DEF Schedule
  <2> QED
    BY <1>33, <2>4, <2>5 DEF Schedule, shared, ownerVars, epochVars
<1>34. CASE EndRefill
  BY <1>34 DEF EndRefill, MaySchedule, shared, ownerVars, epochVars, poolVars
<1>35. CASE ReceiveResult
  <2>1. Head(results) \in Loaded /\ Tail(results) \in Seq(Loaded)
    BY <1>35 DEF ReceiveResult
  <2> QED
    BY <1>35, <2>1 DEF ReceiveResult, shared, ownerVars, epochVars
<1>36. CASE FlushItem
  BY <1>36 DEF FlushItem, shared, ownerVars, epochVars, poolVars
<1>37. CASE EndFlush
  BY <1>37 DEF EndFlush, shared, ownerVars, epochVars, poolVars
<1>38. CASE CloseScope
  <2>1. /\ jobs' = <<>> /\ results' = <<>> /\ pending' = {} /\ scheduled' = 0
        /\ worker' = worker /\ \A v \in Workers : worker[v] = "gone"
    BY <1>38 DEF CloseScope
  <2>2. len' \in Nat /\ producer' \in {"epoch", "publish"}
    <3>1. CASE failure = "none"
      BY <1>38, <3>1 DEF CloseScope, EndEpoch
    <3>2. CASE failure # "none"
      BY <1>38, <3>2 DEF CloseScope, epochVars, TypeOK
    <3> QED
      BY <3>1, <3>2
  <2> QED
    BY <2>1, <2>2
<1>39. ASSUME NEW w \in Workers, WorkerTake(w) PROVE PoolInv'
  <2>1. Head(jobs) \in Placed /\ Tail(jobs) \in Seq(Placed)
    BY <1>39 DEF WorkerTake
  <2>2. worker' = [worker EXCEPT ![w] = "load"] /\ load' = [load EXCEPT ![w] = Head(jobs)]
    BY <1>39 DEF WorkerTake
  <2>3. \A v \in Workers : /\ worker'[v] = "load" => load'[v] \in Placed
                           /\ worker'[v] = "send" => load'[v] \in Loaded
    BY <2>1, <2>2 DEF TypeOK
  <2>4. producer \in InScope
    BY <1>39 DEF WorkerTake
  <2> QED
    BY <1>39, <2>1, <2>3, <2>4 DEF WorkerTake, shared, ownerVars, epochVars
<1>40. ASSUME NEW w \in Workers, WorkerLoad(w) PROVE PoolInv'
  <2>1. PICK s \in {"ok"} \cup LoadFaults : load' = [load EXCEPT ![w].status = s]
    BY <1>40 DEF WorkerLoad
  <2>2. load[w] \in Placed /\ worker' = [worker EXCEPT ![w] = "send"]
    BY <1>40 DEF WorkerLoad
  <2>3. [load[w] EXCEPT !.status = s] \in Loaded
    BY <2>1, <2>2
  <2>4. \A v \in Workers : /\ worker'[v] = "load" => load'[v] \in Placed
                           /\ worker'[v] = "send" => load'[v] \in Loaded
    BY <2>1, <2>2, <2>3 DEF TypeOK
  <2>5. producer \in InScope
    BY <1>40 DEF WorkerLoad
  <2> QED
    BY <1>40, <2>4, <2>5 DEF WorkerLoad, shared, ownerVars, epochVars
<1>41. ASSUME NEW w \in Workers, WorkerSend(w) PROVE PoolInv'
  <2>1. load[w] \in Loaded /\ results' = Append(results, load[w])
    BY <1>41 DEF WorkerSend
  <2>2. results' \in Seq(Loaded)
    BY <2>1
  <2>3. worker' = [worker EXCEPT ![w] = "take"] /\ load' = [load EXCEPT ![w] = NoJob]
    BY <1>41 DEF WorkerSend
  <2>4. \A v \in Workers : /\ worker'[v] = "load" => load'[v] \in Placed
                           /\ worker'[v] = "send" => load'[v] \in Loaded
    BY <2>3 DEF TypeOK
  <2>5. producer \in InScope
    BY <1>41 DEF WorkerSend
  <2> QED
    BY <1>41, <2>2, <2>4, <2>5 DEF WorkerSend, shared, ownerVars, epochVars
<1>42. ASSUME NEW w \in Workers, WorkerExit(w) PROVE PoolInv'
  BY <1>42 DEF WorkerExit, ScopeOpen, shared, ownerVars, epochVars, poolVars
<1>43. CASE UNCHANGED vars
  BY <1>43 DEF vars
<1> QED
  BY <1>1, <1>2, <1>3, <1>4, <1>5, <1>6, <1>7, <1>8, <1>9, <1>10, <1>11,
       <1>12, <1>13, <1>14, <1>15, <1>16, <1>17, <1>18, <1>19, <1>20, <1>21,
       <1>22, <1>23, <1>24, <1>25, <1>26, <1>27, <1>28, <1>29, <1>30, <1>31,
       <1>32, <1>33, <1>34, <1>35, <1>36, <1>37, <1>38, <1>39, <1>40, <1>41,
       <1>42, <1>43 DEF Next, OwnerCall, OwnerStep, ProducerStep, WorkerStep,
       Dropped

\* What the consumer was told stays true.
LEMMA VerdictStepInv == IInv /\ [Next]_vars => VerdictInv'
<1> SUFFICES ASSUME IInv, [Next]_vars PROVE VerdictInv'
  OBVIOUS
<1> USE DEF IInv, VerdictInv, ProducerInv, OwnerInv, ChannelInv, Ended
<1>1. CASE Activate
  BY <1>1 DEF Activate, shared, ownerVars, epochVars, poolVars
<1>2. CASE StartPut
  BY <1>2 DEF StartPut, shared, ownerVars, epochVars, poolVars
<1>3. CASE OpenIter
  BY <1>3 DEF OpenIter, shared, ownerVars, epochVars, poolVars
<1>4. CASE CloseIter
  BY <1>4 DEF CloseIter, shared, ownerVars, epochVars, poolVars
<1>5. CASE StartGet
  BY <1>5 DEF StartGet, shared, ownerVars, epochVars, poolVars
<1>6. CASE StartCleanup
  BY <1>6 DEF StartCleanup, Cancel, shared, ownerVars, epochVars, poolVars
<1>7. CASE StartDrop
  BY <1>7 DEF StartDrop, Cancel, shared, ownerVars, epochVars, poolVars
<1>8. CASE FinishPut
  BY <1>8 DEF FinishPut, ByHand, shared, ownerVars, epochVars, poolVars
<1>9. CASE PollPut
  BY <1>9 DEF PollPut, vars
<1>10. CASE GetReadDone
  BY <1>10 DEF GetReadDone, shared, ownerVars, epochVars, poolVars
<1>11. CASE GetItem
  <2>1. queue # <<>> /\ queue \in Seq(Item) /\ received \in Nat
    BY <1>11 DEF GetItem, TypeOK
  <2> SUFFICES ASSUME verdict # "none", ~cancelled PROVE received' = sent'
    BY <1>11 DEF GetItem, shared, epochVars
  <2>2. /\ Head(queue) = queue[1] /\ queue[1].pos <= sent
        /\ queue[1].pos = received + Step(queue[1]) /\ received = sent
    BY <2>1, TailOf DEF EndsAt, StartsAfter
  <2>3. Step(queue[1]) # 1
    <3> SUFFICES ASSUME Step(queue[1]) = 1 PROVE FALSE
      OBVIOUS
    <3> QED
      BY <2>1, <2>2
  <2>4. Head(queue).from # "sampled"
    BY <2>2, <2>3 DEF Step
  <2>5. received' = received /\ sent' = sent
    BY <1>11, <2>4 DEF GetItem, epochVars
  <2> QED
    BY <2>2, <2>5
<1>12. CASE GetTerminal
  BY <1>12 DEF GetTerminal, StartsAfter, shared, ownerVars, epochVars, poolVars
<1>13. CASE GetEmpty
  BY <1>13 DEF GetEmpty, shared, ownerVars, epochVars, poolVars
<1>14. CASE GetCompletion
  BY <1>14 DEF GetCompletion, shared, ownerVars, epochVars, poolVars
<1>15. CASE GetTimeout
  BY <1>15 DEF GetTimeout, shared, ownerVars, epochVars, poolVars
<1>16. CASE DrainItem
  BY <1>16 DEF DrainItem, shared, ownerVars, epochVars, poolVars
<1>17. CASE Drained
  BY <1>17 DEF Drained, shared, ownerVars, epochVars, poolVars
<1>18. CASE Join
  BY <1>18 DEF Join, shared, ownerVars, epochVars, poolVars
<1>19. CASE FinishCleanup
  BY <1>19 DEF FinishCleanup, shared, ownerVars, epochVars, poolVars
<1>20. CASE StartEpoch
  BY <1>20 DEF StartEpoch, EpochDue, shared, ownerVars, epochVars, poolVars
<1>21. CASE SamplerFails
  BY <1>21 DEF SamplerFails, EpochDue, shared, ownerVars, epochVars, poolVars
<1>22. CASE StopProducing
  BY <1>22 DEF StopProducing, EpochDue, shared, ownerVars, epochVars, poolVars
<1>23. CASE Publish
  BY <1>23 DEF Publish, shared, ownerVars, epochVars, poolVars
<1>24. CASE Finish
  BY <1>24 DEF Finish, shared, ownerVars, epochVars, poolVars
<1>25. CASE Signal
  BY <1>25 DEF Signal, shared, ownerVars, epochVars, poolVars
<1>26. CASE SkipSend
  BY <1>26 DEF SkipSend, AfterSend, shared, ownerVars, epochVars, poolVars
<1>27. CASE AttemptSend
  BY <1>27 DEF AttemptSend, shared, ownerVars, epochVars, poolVars
<1>28. CASE SendItem
  BY <1>28 DEF SendItem, AfterSend, shared, ownerVars, epochVars, poolVars
<1>29. CASE SendTimeout
  BY <1>29 DEF SendTimeout, shared, ownerVars, epochVars, poolVars
<1>30. CASE LoadItem
  BY <1>30 DEF LoadItem, shared, ownerVars, epochVars, poolVars
<1>31. CASE LoadFails
  BY <1>31 DEF LoadFails, shared, ownerVars, epochVars, poolVars
<1>32. CASE EndSequential
  BY <1>32 DEF EndSequential, EndEpoch, shared, ownerVars, epochVars, poolVars
<1>33. CASE Schedule
  BY <1>33 DEF Schedule, MaySchedule, shared, ownerVars, epochVars, poolVars
<1>34. CASE EndRefill
  BY <1>34 DEF EndRefill, MaySchedule, shared, ownerVars, epochVars, poolVars
<1>35. CASE ReceiveResult
  BY <1>35 DEF ReceiveResult, shared, ownerVars, epochVars, poolVars
<1>36. CASE FlushItem
  BY <1>36 DEF FlushItem, shared, ownerVars, epochVars, poolVars
<1>37. CASE EndFlush
  BY <1>37 DEF EndFlush, shared, ownerVars, epochVars, poolVars
<1>38. CASE CloseScope
  BY <1>38 DEF CloseScope, EndEpoch, shared, ownerVars, epochVars, poolVars
<1>39. ASSUME NEW w \in Workers, WorkerTake(w) PROVE VerdictInv'
  BY <1>39 DEF WorkerTake, shared, ownerVars, epochVars, poolVars
<1>40. ASSUME NEW w \in Workers, WorkerLoad(w) PROVE VerdictInv'
  BY <1>40 DEF WorkerLoad, shared, ownerVars, epochVars, poolVars
<1>41. ASSUME NEW w \in Workers, WorkerSend(w) PROVE VerdictInv'
  BY <1>41 DEF WorkerSend, ScopeOpen, shared, ownerVars, epochVars, poolVars
<1>42. ASSUME NEW w \in Workers, WorkerExit(w) PROVE VerdictInv'
  BY <1>42 DEF WorkerExit, ScopeOpen, shared, ownerVars, epochVars, poolVars
<1>43. CASE UNCHANGED vars
  BY <1>43 DEF vars
<1> QED
  BY <1>1, <1>2, <1>3, <1>4, <1>5, <1>6, <1>7, <1>8, <1>9, <1>10, <1>11,
       <1>12, <1>13, <1>14, <1>15, <1>16, <1>17, <1>18, <1>19, <1>20, <1>21,
       <1>22, <1>23, <1>24, <1>25, <1>26, <1>27, <1>28, <1>29, <1>30, <1>31,
       <1>32, <1>33, <1>34, <1>35, <1>36, <1>37, <1>38, <1>39, <1>40, <1>41,
       <1>42, <1>43 DEF Next, OwnerCall, OwnerStep, ProducerStep, WorkerStep,
       Dropped


-----------------------------------------------------------------------------
(* The theorems.                                                           *)

\* A queue that was just built satisfies the inductive invariant.
LEMMA InitInv == Init => IInv
<1> SUFFICES ASSUME Init PROVE IInv
  OBVIOUS
<1>1. TypeOK
  <2>1. NoJob \in Job
    BY DEF NoJob, Job
  <2>2. load \in [Workers -> Job]
    BY <2>1 DEF Init
  <2>3. worker \in [Workers -> {"take", "load", "send", "gone"}]
    BY DEF Init
  <2>4. queue \in Seq(Item) /\ Len(queue) <= Capacity /\ puts \in 0 .. MaxPuts
    BY DEF Init
  <2>5. jobs \in Seq(Job) /\ results \in Seq(Job) /\ pending \in SUBSET Job
    BY DEF Init
  <2> QED
    BY <2>2, <2>3, <2>4, <2>5 DEF Init, TypeOK
<1>2. OwnerInv /\ ProducerInv /\ VerdictInv
  BY DEF Init, OwnerInv, ProducerInv, VerdictInv, Cancelling, Joined
<1>3. PlaceInv
  BY DEF Init, PlaceInv, InEpoch, InScope, Ended
<1>4. ChannelInv
  BY DEF Init, ChannelInv, EndsAt, StartsAfter
<1>5. PoolInv
  BY DEF Init, PoolInv, InScope
<1> QED
  BY <1>1, <1>2, <1>3, <1>4, <1>5 DEF IInv

\* Every step of the owner, the producer and the workers keeps it.
LEMMA NextInv == IInv /\ [Next]_vars => IInv'
  BY TypeStep, OwnerStepInv, ProducerStepInv, PlaceStepInv, ChannelStepInv,
     PoolStepInv, VerdictStepInv DEF IInv

\* The inductive invariant holds in every reachable state.
THEOREM Invariance == Spec => []IInv
  BY InitInv, NextInv, PTL DEF Spec

\* For every capacity, pool, repeat count and sampler, the queue object and
\* its threads keep their types; the channel is never over its capacity.
THEOREM TypeCorrect == Spec => []TypeOK
<1>1. IInv => TypeOK
  BY DEF IInv
<1> QED
  BY <1>1, Invariance, PTL

\* Until it is cleaned up, the queue reports its end or an error only after
\* the consumer received every item before it (get, produce, activate).
THEOREM VerdictCorrect == Spec => []VerdictAfterPrefix
<1>1. IInv => VerdictAfterPrefix
  <2> SUFFICES ASSUME IInv, verdict # "none", ~cancelled
               PROVE  /\ received = sent
                      /\ (verdict = "Exhausted") =>
                           received = base /\ (Repeat >= 0 => epoch = Repeat)
                      /\ (verdict # "Exhausted") => received = base + next
    BY DEF VerdictAfterPrefix
  <2> USE DEF IInv
  <2>1. received = sent /\ sent = base + next /\ producer \in {"signal", "exited"}
    BY DEF VerdictInv, ProducerInv, PlaceInv
  <2>2. producerError = failure
    BY <2>1 DEF ProducerInv
  <2>3. CASE verdict = "Exhausted"
    <3>1. failure = "none"
      BY <2>2, <2>3 DEF VerdictInv, TypeOK, Faults, SamplerFaults, LoadFaults
    <3>2. len = 0 /\ next = 0 /\ (Repeat >= 0 => epoch = Repeat)
      BY <2>1, <3>1 DEF PlaceInv, Ended, TypeOK
    <3> QED
      BY <2>1, <2>3, <3>2 DEF TypeOK
  <2>4. CASE verdict # "Exhausted"
    BY <2>1, <2>4
  <2> QED
    BY <2>3, <2>4
<1> QED
  BY <1>1, Invariance, PTL

\* When cleanup or drop has returned, no producer or worker thread is left,
\* and a cleaned queue is empty for good.
THEOREM CleanupCorrect == Spec => []QuiescentAfterCleanup
<1>1. IInv => QuiescentAfterCleanup
  BY DEF IInv, QuiescentAfterCleanup, OwnerInv, ProducerInv, PoolInv, InScope,
         Joined
<1> QED
  BY <1>1, Invariance, PTL

\* A cancellation loses at most the one send that had already begun, which
\* is why a second drain after the join leaves the channel empty.
THEOREM LateItemCorrect == Spec => []AtMostOneLateItem
<1>1. IInv => AtMostOneLateItem
  BY DEF IInv, AtMostOneLateItem, ChannelInv
<1> QED
  BY <1>1, Invariance, PTL

\* Every step is a step of the stream the consumer sees, or invisible to it.
LEMMA StreamStep == IInv /\ [Next]_vars => [Stream!Next]_(Stream!vars)
<1> SUFFICES ASSUME IInv, [Next]_vars PROVE [Stream!Next]_(Stream!vars)
  OBVIOUS
<1> USE DEF IInv, Stream!vars
<1>1. CASE Activate
  BY <1>1 DEF Activate, shared, ownerVars, epochVars, poolVars
<1>2. CASE StartPut
  BY <1>2 DEF StartPut, shared, ownerVars, epochVars, poolVars
<1>3. CASE OpenIter
  BY <1>3 DEF OpenIter, shared, ownerVars, epochVars, poolVars
<1>4. CASE CloseIter
  BY <1>4 DEF CloseIter, shared, ownerVars, epochVars, poolVars
<1>5. CASE StartGet
  BY <1>5 DEF StartGet, shared, ownerVars, epochVars, poolVars
<1>6. CASE StartCleanup
  <2>1. CASE cancelled
    BY <1>6, <2>1 DEF StartCleanup, Cancel, epochVars
  <2>2. CASE ~cancelled
    <3>1. Stream!Close
      BY <1>6, <2>2 DEF StartCleanup, Cancel, epochVars, Stream!Close
    <3> QED
      BY <3>1 DEF Stream!Next
  <2> QED
    BY <2>1, <2>2
<1>7. CASE StartDrop
  <2>1. CASE cancelled
    BY <1>7, <2>1 DEF StartDrop, Cancel, epochVars
  <2>2. CASE ~cancelled
    <3>1. Stream!Close
      BY <1>7, <2>2 DEF StartDrop, Cancel, epochVars, Stream!Close
    <3> QED
      BY <3>1 DEF Stream!Next
  <2> QED
    BY <2>1, <2>2
<1>8. CASE FinishPut
  BY <1>8 DEF FinishPut, ByHand, shared, ownerVars, epochVars, poolVars
<1>9. CASE PollPut
  BY <1>9 DEF PollPut, vars
<1>10. CASE GetReadDone
  BY <1>10 DEF GetReadDone, shared, ownerVars, epochVars, poolVars
<1>11. CASE GetItem
  <2>1. /\ Head(queue) = queue[1] /\ queue[1] \in Item /\ queue # <<>>
        /\ Len(queue) \in Nat \ {0}
    BY <1>11, TailOf DEF GetItem, TypeOK
  <2>2. ~cancelled
    BY <1>11, <2>1 DEF GetItem, OwnerInv
  <2>3. queue[1].pos = received + Step(queue[1]) /\ queue[1].pos <= sent
    BY <2>1, <2>2 DEF ChannelInv, StartsAfter, EndsAt
  <2>4. CASE queue[1].from = "sampled"
    <3>1. received' = received + 1 /\ received < sent
      BY <1>11, <2>1, <2>3, <2>4 DEF GetItem, Step, TypeOK
    <3>2. Stream!Deliver
      BY <1>11, <2>2, <3>1 DEF GetItem, epochVars, Stream!Deliver
    <3> QED
      BY <3>2 DEF Stream!Next
  <2>5. CASE queue[1].from # "sampled"
    BY <1>11, <2>1, <2>5 DEF GetItem, epochVars
  <2> QED
    BY <2>4, <2>5
<1>12. CASE GetTerminal
  <2>1. done /\ (cancelled \/ received = sent)
    BY <1>12 DEF GetTerminal, OwnerInv, ChannelInv, StartsAfter, TypeOK
  <2>2. CASE verdict = "none"
    <3>1. Stream!Report
      BY <1>12, <2>1, <2>2 DEF GetTerminal, shared, epochVars, Stream!Report,
           TypeOK, Faults, SamplerFaults, LoadFaults
    <3> QED
      BY <3>1 DEF Stream!Next
  <2>3. CASE verdict # "none"
    BY <1>12, <2>1, <2>3 DEF GetTerminal, shared, epochVars, VerdictInv
  <2> QED
    BY <2>2, <2>3
<1>13. CASE GetEmpty
  BY <1>13 DEF GetEmpty, shared, ownerVars, epochVars, poolVars
<1>14. CASE GetCompletion
  BY <1>14 DEF GetCompletion, shared, ownerVars, epochVars, poolVars
<1>15. CASE GetTimeout
  BY <1>15 DEF GetTimeout, shared, ownerVars, epochVars, poolVars
<1>16. CASE DrainItem
  BY <1>16 DEF DrainItem, shared, ownerVars, epochVars, poolVars
<1>17. CASE Drained
  BY <1>17 DEF Drained, shared, ownerVars, epochVars, poolVars
<1>18. CASE Join
  BY <1>18 DEF Join, shared, ownerVars, epochVars, poolVars
<1>19. CASE FinishCleanup
  <2>1. cancelled
    BY <1>19 DEF FinishCleanup, OwnerInv, Cancelling
  <2>2. CASE done
    BY <1>19, <2>2 DEF FinishCleanup, epochVars
  <2>3. CASE ~done
    <3>1. Stream!Finish
      BY <1>19, <2>1, <2>3 DEF FinishCleanup, epochVars, Stream!Finish,
           TypeOK, Faults
    <3> QED
      BY <3>1 DEF Stream!Next
  <2> QED
    BY <2>2, <2>3
<1>20. CASE StartEpoch
  <2>1. ~done /\ len = 0
    BY <1>20 DEF StartEpoch, ProducerInv, PlaceInv
  <2>2. PICK n \in Nat : len' = n
    BY <1>20, QueueAssumption DEF StartEpoch
  <2>3. base + n \in Nat /\ base + n >= base + len
    BY <2>1 DEF TypeOK
  <2>4. Stream!Promise
    BY <1>20, <2>1, <2>2, <2>3 DEF StartEpoch, shared, ownerVars, Stream!Promise
  <2> QED
    BY <2>4 DEF Stream!Next
<1>21. CASE SamplerFails
  BY <1>21 DEF SamplerFails, EpochDue, shared, ownerVars, epochVars, poolVars
<1>22. CASE StopProducing
  BY <1>22 DEF StopProducing, EpochDue, shared, ownerVars, epochVars, poolVars
<1>23. CASE Publish
  <2>1. ~done
    BY <1>23 DEF Publish, ProducerInv
  <2> QED
    BY <1>23, <2>1 DEF Publish, ownerVars, epochVars
<1>24. CASE Finish
  <2>1. ~done /\ producerError = failure
    BY <1>24 DEF Finish, ProducerInv
  <2>2. CASE failure = "none"
    <3>1. cancelled \/ sent = base + len
      BY <1>24, <2>2 DEF Finish, PlaceInv, Ended, TypeOK
    <3>2. Stream!Finish
      BY <1>24, <2>1, <2>2, <3>1 DEF Finish, ownerVars, epochVars, Stream!Finish
    <3> QED
      BY <3>2 DEF Stream!Next
  <2>3. CASE failure # "none"
    <3>1. \/ failure \in SamplerFaults /\ (cancelled \/ sent = base + len)
          \/ failure \in LoadFaults /\ (cancelled \/ sent < base + len)
      BY <2>3 DEF PlaceInv, TypeOK
    <3>2. Stream!Finish
      BY <1>24, <2>1, <2>3, <3>1 DEF Finish, ownerVars, epochVars, Stream!Finish
    <3> QED
      BY <3>2 DEF Stream!Next
  <2> QED
    BY <2>2, <2>3
<1>25. CASE Signal
  BY <1>25 DEF Signal, shared, ownerVars, epochVars, poolVars
<1>26. CASE SkipSend
  BY <1>26 DEF SkipSend, AfterSend, shared, ownerVars, epochVars, poolVars
<1>27. CASE AttemptSend
  BY <1>27 DEF AttemptSend, shared, ownerVars, epochVars, poolVars
<1>28. CASE SendItem
  <2>1. ~done /\ sent' = sent + 1 /\ sent < base + len
    BY <1>28 DEF SendItem, ProducerInv, PlaceInv, TypeOK
  <2>2. Stream!Produce
    BY <1>28, <2>1 DEF SendItem, ownerVars, Stream!Produce
  <2> QED
    BY <2>2 DEF Stream!Next
<1>29. CASE SendTimeout
  BY <1>29 DEF SendTimeout, shared, ownerVars, epochVars, poolVars
<1>30. CASE LoadItem
  BY <1>30 DEF LoadItem, shared, ownerVars, epochVars, poolVars
<1>31. CASE LoadFails
  BY <1>31 DEF LoadFails, shared, ownerVars, epochVars, poolVars
<1>32. CASE EndSequential
  <2>1. base' + len' = base + len
    BY <1>32 DEF EndSequential, EndEpoch, TypeOK
  <2> QED
    BY <1>32, <2>1 DEF EndSequential, EndEpoch, shared, ownerVars
<1>33. CASE Schedule
  BY <1>33 DEF Schedule, MaySchedule, shared, ownerVars, epochVars, poolVars
<1>34. CASE EndRefill
  BY <1>34 DEF EndRefill, MaySchedule, shared, ownerVars, epochVars, poolVars
<1>35. CASE ReceiveResult
  BY <1>35 DEF ReceiveResult, shared, ownerVars, epochVars, poolVars
<1>36. CASE FlushItem
  BY <1>36 DEF FlushItem, shared, ownerVars, epochVars, poolVars
<1>37. CASE EndFlush
  BY <1>37 DEF EndFlush, shared, ownerVars, epochVars, poolVars
<1>38. CASE CloseScope
  <2>1. base' + len' = base + len /\ UNCHANGED <<sent, shared, ownerVars>>
    BY <1>38 DEF CloseScope, EndEpoch, epochVars, TypeOK
  <2> QED
    BY <2>1 DEF shared, ownerVars
<1>39. ASSUME NEW w \in Workers, WorkerTake(w) PROVE [Stream!Next]_(Stream!vars)
  BY <1>39 DEF WorkerTake, shared, ownerVars, epochVars, poolVars
<1>40. ASSUME NEW w \in Workers, WorkerLoad(w) PROVE [Stream!Next]_(Stream!vars)
  BY <1>40 DEF WorkerLoad, shared, ownerVars, epochVars, poolVars
<1>41. ASSUME NEW w \in Workers, WorkerSend(w) PROVE [Stream!Next]_(Stream!vars)
  BY <1>41 DEF WorkerSend, ScopeOpen, shared, ownerVars, epochVars, poolVars
<1>42. ASSUME NEW w \in Workers, WorkerExit(w) PROVE [Stream!Next]_(Stream!vars)
  BY <1>42 DEF WorkerExit, ScopeOpen, shared, ownerVars, epochVars, poolVars
<1>43. CASE UNCHANGED vars
  BY <1>43 DEF vars
<1> QED
  BY <1>1, <1>2, <1>3, <1>4, <1>5, <1>6, <1>7, <1>8, <1>9, <1>10, <1>11,
       <1>12, <1>13, <1>14, <1>15, <1>16, <1>17, <1>18, <1>19, <1>20, <1>21,
       <1>22, <1>23, <1>24, <1>25, <1>26, <1>27, <1>28, <1>29, <1>30, <1>31,
       <1>32, <1>33, <1>34, <1>35, <1>36, <1>37, <1>38, <1>39, <1>40, <1>41,
       <1>42, <1>43 DEF Next, OwnerCall, OwnerStep, ProducerStep, WorkerStep,
       Dropped

\* The threaded queue implements the stream its consumer is promised.
THEOREM Refinement == Spec => ImplementsStream
<1>1. Init => Stream!Init
  BY DEF Init, Stream!Init
<1>2. IInv /\ [Next]_vars => [Stream!Next]_(Stream!vars)
  BY StreamStep DEF IInv
<1> QED
  BY <1>1, <1>2, Invariance, PTL DEF Spec, ImplementsStream, Stream!Spec

-----------------------------------------------------------------------------
(* The prefetch window.  A job is in the job channel, with a worker, in    *)
(* the result channel, pending or being sent, and in one of them only.     *)
Open == ScopeOpen /\ Workers # {}
\* The first job that no worker has taken yet; the channel holds it and the
\* ones after it, in their order.
Untaken == scheduled - Len(jobs)
\* The jobs taken and not yet in hand.
Window == (next + InHand) .. (Untaken - 1)
CountInv ==
  /\ InFlight = scheduled - next
  /\ scheduled - next <= Prefetch
  /\ \A i \in 1 .. Len(jobs) : jobs[i].seq = Untaken + i - 1
PlacesInv ==
  /\ \A w \in Holding : load[w].seq \in Window
  /\ \A i \in 1 .. Len(results) : results[i].seq \in Window
  /\ \A r \in pending : r.seq \in Window
OnceInv ==
  /\ \A v, w \in Holding : load[v].seq = load[w].seq => v = w
  /\ \A i, j \in 1 .. Len(results) : results[i].seq = results[j].seq => i = j
  /\ \A r, s \in pending : r.seq = s.seq => r = s
  /\ \A w \in Holding : \A i \in 1 .. Len(results) :
       load[w].seq # results[i].seq
  /\ \A w \in Holding : \A r \in pending : load[w].seq # r.seq
  /\ \A i \in 1 .. Len(results) : \A r \in pending : results[i].seq # r.seq
\* The producer waits for a result only when the next item is under way.
WaitInv ==
  /\ producer \in {"refill", "receive"} => \A r \in pending : r.seq # next
  /\ producer = "receive" => next < scheduled
WindowInv == /\ IsFiniteSet(pending)
             /\ Open => CountInv /\ PlacesInv /\ OnceInv /\ WaitInv

\* What is left of a channel once its first job is taken.
LEMMA RestOf ==
  ASSUME NEW S, NEW q \in Seq(S), q # <<>>
  PROVE  /\ Tail(q) \in Seq(S) /\ Len(Tail(q)) = Len(q) - 1
         /\ Len(q) \in Nat \ {0}
         /\ \A i \in 1 .. Len(q) - 1 : Tail(q)[i] = q[i + 1]
         /\ Head(q) = q[1] /\ q[1] \in S
BY HeadTailProperties, LenProperties, EmptySeq, ElementOfSeq

\* The parts of the count are numbers, and so is the size of the window.
LEMMA Counts ==
  ASSUME TypeOK, IsFiniteSet(pending)
  PROVE  /\ Len(jobs) \in Nat /\ Len(results) \in Nat
         /\ IsFiniteSet(Holding) /\ Cardinality(Holding) \in Nat
         /\ Cardinality(pending) \in Nat
         /\ InHand \in {0, 1}
         /\ Prefetch \in Nat
         /\ len > 0 => Prefetch > 0
         /\ next \in Nat /\ scheduled \in Nat /\ len \in Nat
<1>1. IsFiniteSet(Holding)
  BY FS_Subset DEF Holding
<1>2. Cardinality(Workers) \in Nat /\ Cardinality(Holding) \in Nat
      /\ Cardinality(pending) \in Nat
  BY <1>1, FS_CardinalityType
<1>3. Len(jobs) \in Nat /\ Len(results) \in Nat
  BY LenProperties DEF TypeOK
<1>4. Capacity \in Nat \ {0} /\ next \in Nat /\ scheduled \in Nat /\ len \in Nat
  BY DEF TypeOK
<1>5. InHand \in {0, 1}
  BY DEF InHand
<1> QED
  BY <1>1, <1>2, <1>3, <1>4, <1>5 DEF Prefetch, Least

\* What the window sees of a step that touches neither jobs nor progress.
LEMMA WindowFrame ==
  ASSUME WindowInv, UNCHANGED <<len, next, scheduled, jobs, results, pending>>,
         UNCHANGED <<producer, worker, load>>
  PROVE  WindowInv'
<1>1. /\ ScopeOpen' = ScopeOpen /\ Holding' = Holding /\ InHand' = InHand
      /\ Prefetch' = Prefetch /\ Untaken' = Untaken
  BY DEF ScopeOpen, Holding, InHand, Prefetch, Untaken, Least
<1>2. InFlight' = InFlight /\ Window' = Window /\ Open' = Open
  BY <1>1 DEF InFlight, Window, Open
<1>3. CountInv => CountInv'
  BY <1>1, <1>2 DEF CountInv
<1>4. PlacesInv => PlacesInv'
  BY <1>1, <1>2 DEF PlacesInv
<1>5. OnceInv => OnceInv'
  BY <1>1, <1>2 DEF OnceInv
<1>6. WaitInv => WaitInv'
  BY DEF WaitInv
<1> QED
  BY <1>2, <1>3, <1>4, <1>5, <1>6 DEF WindowInv

\* A step after which the scope is not open.
LEMMA WindowClosed ==
  ASSUME IsFiniteSet(pending), pending' \in SUBSET pending, ~ScopeOpen'
  PROVE  WindowInv'
BY FS_Subset DEF WindowInv, Open

\* A worker takes the first job of the channel.
LEMMA WindowTake ==
  ASSUME IInv, WindowInv, NEW w \in Workers, WorkerTake(w)
  PROVE  WindowInv'
<1>1. CASE ~Open
  BY <1>1 DEF WindowInv, Open, WorkerTake, ScopeOpen
<1>2. CASE Open
  <2>1. /\ worker[w] = "take" /\ jobs # <<>> /\ jobs' = Tail(jobs)
        /\ UNCHANGED <<scheduled, results, pending, producer, next, len>>
    BY <1>2 DEF WorkerTake, epochVars
  <2>2. /\ TypeOK /\ IsFiniteSet(pending) /\ CountInv /\ PlacesInv
        /\ OnceInv /\ WaitInv
    BY <1>2 DEF IInv, WindowInv
  <2>3. /\ jobs \in Seq(Job) /\ worker \in [Workers -> {"take", "load", "send", "gone"}]
        /\ load \in [Workers -> Job]
    BY <2>2 DEF TypeOK
  <2>4. /\ load'[w] = Head(jobs)
        /\ \A v \in Workers \ {w} : load'[v] = load[v]
        /\ worker'[w] = "load"
        /\ \A v \in Workers \ {w} : worker'[v] = worker[v]
    BY <2>3 DEF WorkerTake
  <2>5. /\ w \notin Holding
        /\ Holding' = Holding \cup {w}
    BY <2>1, <2>4 DEF Holding
  <2>6. /\ Len(jobs') = Len(jobs) - 1 /\ Len(jobs) \in Nat \ {0}
        /\ \A i \in 1 .. Len(jobs) - 1 : jobs'[i] = jobs[i + 1]
        /\ Head(jobs) = jobs[1]
    BY <2>1, <2>3, RestOf
  <2>7. /\ IsFiniteSet(Holding) /\ Cardinality(Holding) \in Nat
        /\ Len(results) \in Nat /\ Cardinality(pending) \in Nat
        /\ InHand \in {0, 1} /\ next \in Nat /\ scheduled \in Nat
    BY <2>2, Counts
  <2>8. Cardinality(Holding') = Cardinality(Holding) + 1
    BY <2>5, <2>7, FS_AddElement
  <2>9. /\ InHand' = InHand /\ Untaken' = Untaken + 1 /\ Prefetch' = Prefetch
        /\ Untaken \in Int
    BY <2>1, <2>6, <2>7 DEF InHand, Untaken, Prefetch, Least
  <2>10. InFlight = scheduled - next /\ InFlight' = InFlight
    BY <2>1, <2>2, <2>6, <2>7, <2>8, <2>9 DEF CountInv, InFlight
  <2>11. next + InHand <= Untaken
    BY <2>6, <2>7, <2>10 DEF InFlight, Untaken
  <2>12. CountInv'
    <3>1. ASSUME NEW i \in 1 .. Len(jobs') PROVE jobs'[i].seq = Untaken' + i - 1
      <4>1. i \in 1 .. Len(jobs) - 1 /\ i + 1 \in 1 .. Len(jobs)
        BY <2>6
      <4>2. jobs'[i].seq = Untaken + (i + 1) - 1
        BY <2>2, <2>6, <4>1 DEF CountInv
      <4> QED
        BY <2>9, <4>2
    <3> QED
      BY <2>1, <2>2, <2>9, <2>10, <3>1 DEF CountInv
  <2>13. load'[w].seq = Untaken
    <3>1. 1 \in 1 .. Len(jobs)
      BY <2>6
    <3>2. jobs[1].seq = Untaken + 1 - 1
      BY <2>2, <3>1 DEF CountInv
    <3> QED
      BY <2>4, <2>6, <2>9, <3>2
  <2>14. /\ Window \subseteq Window' /\ Untaken \in Window' /\ Untaken \notin Window
    BY <2>1, <2>7, <2>9, <2>11 DEF Window
  <2>15. /\ \A v \in Holding : load'[v] = load[v]
         /\ Holding \subseteq Workers
    BY <2>4, <2>5 DEF Holding
  <2>16. PlacesInv'
    BY <2>1, <2>2, <2>5, <2>13, <2>14, <2>15 DEF PlacesInv
  <2>17. /\ \A v \in Holding : load[v].seq # Untaken
         /\ \A i \in 1 .. Len(results) : results[i].seq # Untaken
         /\ \A r \in pending : r.seq # Untaken
    BY <2>2, <2>14 DEF PlacesInv
  <2>18. OnceInv'
    BY <2>1, <2>2, <2>5, <2>13, <2>15, <2>17 DEF OnceInv
  <2>19. WaitInv'
    BY <2>1, <2>2 DEF WaitInv
  <2> QED
    BY <2>1, <2>2, <2>12, <2>16, <2>18, <2>19 DEF WindowInv
<1> QED
  BY <1>1, <1>2

\* Loading a job leaves it with its worker.
LEMMA WindowLoad ==
  ASSUME IInv, WindowInv, NEW w \in Workers, WorkerLoad(w)
  PROVE  WindowInv'
<1>1. CASE ~Open
  BY <1>1 DEF WindowInv, Open, WorkerLoad, ScopeOpen
<1>2. CASE Open
  <2>1. /\ worker[w] = "load"
        /\ UNCHANGED <<scheduled, jobs, results, pending, producer, next, len>>
    BY <1>2 DEF WorkerLoad, epochVars
  <2>2. /\ TypeOK /\ IsFiniteSet(pending) /\ CountInv /\ PlacesInv
        /\ OnceInv /\ WaitInv
    BY <1>2 DEF IInv, WindowInv
  <2>3. /\ worker \in [Workers -> {"take", "load", "send", "gone"}]
        /\ load \in [Workers -> Job]
    BY <2>2 DEF TypeOK
  <2>4. /\ worker'[w] = "send"
        /\ \A v \in Workers \ {w} : worker'[v] = worker[v]
    BY <2>3 DEF WorkerLoad
  <2>5. \A v \in Workers : load'[v].seq = load[v].seq
    <3>1. PICK s \in {"ok"} \cup LoadFaults : load' = [load EXCEPT ![w].status = s]
      BY DEF WorkerLoad
    <3>2. \A v \in Workers \ {w} : load'[v] = load[v]
      BY <2>3, <3>1
    <3>3. load'[w] = [load[w] EXCEPT !.status = s] /\ load[w] \in Job
      BY <2>3, <3>1
    <3>4. load'[w].seq = load[w].seq
      BY <3>3 DEF Job
    <3> QED
      BY <3>2, <3>4
  <2>6. Holding' = Holding /\ Holding \subseteq Workers
    BY <2>1, <2>4 DEF Holding
  <2>7. /\ InHand' = InHand /\ Untaken' = Untaken /\ Prefetch' = Prefetch
    BY <2>1 DEF InHand, Untaken, Prefetch, Least
  <2>8. InFlight' = InFlight /\ Window' = Window
    BY <2>1, <2>6, <2>7 DEF InFlight, Window
  <2>9. CountInv'
    BY <2>1, <2>2, <2>7, <2>8 DEF CountInv
  <2>10. PlacesInv'
    BY <2>1, <2>2, <2>5, <2>6, <2>8 DEF PlacesInv
  <2>11. OnceInv'
    BY <2>1, <2>2, <2>5, <2>6 DEF OnceInv
  <2>12. WaitInv'
    BY <2>1, <2>2 DEF WaitInv
  <2> QED
    BY <2>1, <2>2, <2>9, <2>10, <2>11, <2>12 DEF WindowInv
<1> QED
  BY <1>1, <1>2

\* A result enters the result channel as it leaves its worker.
LEMMA WindowSend ==
  ASSUME IInv, WindowInv, NEW w \in Workers, WorkerSend(w)
  PROVE  WindowInv'
<1>1. CASE ~Open
  BY <1>1 DEF WindowInv, Open, WorkerSend, ScopeOpen
<1>2. CASE Open
  <2>1. /\ worker[w] = "send" /\ results' = Append(results, load[w])
        /\ UNCHANGED <<scheduled, jobs, pending, producer, next, len>>
    BY <1>2 DEF WorkerSend, epochVars
  <2>2. /\ TypeOK /\ IsFiniteSet(pending) /\ CountInv /\ PlacesInv
        /\ OnceInv /\ WaitInv
    BY <1>2 DEF IInv, WindowInv
  <2>3. /\ results \in Seq(Job) /\ worker \in [Workers -> {"take", "load", "send", "gone"}]
        /\ load \in [Workers -> Job]
    BY <2>2 DEF TypeOK
  <2>4. /\ \A v \in Workers \ {w} : load'[v] = load[v]
        /\ worker'[w] = "take"
        /\ \A v \in Workers \ {w} : worker'[v] = worker[v]
    BY <2>3 DEF WorkerSend
  <2>5. /\ w \in Holding
        /\ Holding' = Holding \ {w}
    BY <2>1, <2>4 DEF Holding
  <2>6. /\ Len(results') = Len(results) + 1 /\ Len(results) \in Nat
        /\ \A i \in 1 .. Len(results) : results'[i] = results[i]
        /\ results'[Len(results) + 1] = load[w]
    <3>1. load[w] \in Job
      BY <2>3
    <3> QED
      BY <2>1, <2>3, <3>1, AppendProperties, LenProperties
  <2>7. /\ IsFiniteSet(Holding) /\ Cardinality(Holding) \in Nat
        /\ Len(jobs) \in Nat /\ Cardinality(pending) \in Nat
        /\ InHand \in {0, 1} /\ next \in Nat /\ scheduled \in Nat
    BY <2>2, Counts
  <2>8. Cardinality(Holding') = Cardinality(Holding) - 1
    BY <2>5, <2>7, FS_RemoveElement
  <2>9. /\ InHand' = InHand /\ Untaken' = Untaken /\ Prefetch' = Prefetch
    BY <2>1 DEF InHand, Untaken, Prefetch, Least
  <2>10. InFlight' = InFlight /\ Window' = Window
    <3>1. Window' = Window
      BY <2>1, <2>9 DEF Window
    <3>2. InFlight' = InFlight
      BY <2>1, <2>6, <2>7, <2>8, <2>9 DEF InFlight
    <3> QED
      BY <3>1, <3>2
  <2>11. CountInv'
    BY <2>1, <2>2, <2>9, <2>10 DEF CountInv
  <2>12. /\ \A v \in Holding' : v \in Holding /\ v # w /\ load'[v] = load[v]
         /\ Holding \subseteq Workers
    BY <2>4, <2>5 DEF Holding
  <2>13. \A i \in 1 .. Len(results') : \/ i \in 1 .. Len(results) /\ results'[i] = results[i]
                                       \/ i = Len(results) + 1 /\ results'[i] = load[w]
    BY <2>6
  <2>14. PlacesInv'
    BY <2>1, <2>2, <2>5, <2>10, <2>12, <2>13 DEF PlacesInv
  <2>15. OnceInv'
    <3>1. /\ \A u, v \in Holding' : load'[u].seq = load'[v].seq => u = v
          /\ \A r, s \in pending' : r.seq = s.seq => r = s
          /\ \A v \in Holding' : \A r \in pending' : load'[v].seq # r.seq
      BY <2>1, <2>2, <2>12 DEF OnceInv
    <3>2. \A v \in Holding' : \A i \in 1 .. Len(results') :
            load'[v].seq # results'[i].seq
      BY <2>2, <2>5, <2>12, <2>13 DEF OnceInv
    <3>3. \A i \in 1 .. Len(results') : \A r \in pending' :
            results'[i].seq # r.seq
      BY <2>1, <2>2, <2>5, <2>13 DEF OnceInv
    <3>4. ASSUME NEW i \in 1 .. Len(results'), NEW j \in 1 .. Len(results'),
                 results'[i].seq = results'[j].seq
          PROVE  i = j
      BY <2>2, <2>5, <2>13, <3>4 DEF OnceInv
    <3> QED
      BY <3>1, <3>2, <3>3, <3>4 DEF OnceInv
  <2>16. WaitInv'
    BY <2>1, <2>2 DEF WaitInv
  <2> QED
    BY <2>1, <2>2, <2>11, <2>14, <2>15, <2>16 DEF WindowInv
<1> QED
  BY <1>1, <1>2

\* A scheduled job is the last of the channel, and within the window.
LEMMA WindowSchedule == ASSUME IInv, WindowInv, Schedule PROVE WindowInv'
<1>1. Open
  BY DEF Schedule, Open, ScopeOpen, IInv, PoolInv
<1> DEFINE job == [seq |-> scheduled, pos |-> base + scheduled + 1,
                   status |-> "none"]
<1>2. /\ producer = "refill" /\ scheduled < len /\ scheduled - next < Prefetch
      /\ jobs' = Append(jobs, job) /\ scheduled' = scheduled + 1
      /\ UNCHANGED <<results, pending, worker, load, producer, next, len>>
  BY DEF Schedule, MaySchedule, epochVars
<1>3. /\ TypeOK /\ IsFiniteSet(pending) /\ CountInv /\ PlacesInv
      /\ OnceInv /\ WaitInv
  BY <1>1 DEF IInv, WindowInv
<1>4. job \in Job /\ job.seq = scheduled
  BY <1>3 DEF Job, TypeOK
<1> HIDE DEF job
<1>5. /\ Len(jobs') = Len(jobs) + 1 /\ Len(jobs) \in Nat
      /\ \A i \in 1 .. Len(jobs) : jobs'[i] = jobs[i]
      /\ jobs'[Len(jobs) + 1] = job
  BY <1>2, <1>3, <1>4, AppendProperties, LenProperties DEF TypeOK
<1>6. /\ Cardinality(Holding) \in Nat /\ Len(results) \in Nat
      /\ Cardinality(pending) \in Nat /\ InHand \in {0, 1}
      /\ next \in Nat /\ scheduled \in Nat /\ Prefetch \in Nat
  BY <1>3, Counts
<1>7. /\ InHand' = InHand /\ Holding' = Holding /\ Prefetch' = Prefetch
      /\ Untaken' = Untaken /\ Untaken \in Int
  BY <1>2, <1>5, <1>6 DEF InHand, Holding, Prefetch, Least, Untaken
<1>8. Window' = Window
  BY <1>2, <1>7 DEF Window
<1>9. InFlight' = scheduled' - next'
  <2>1. InFlight' = InFlight + 1
    BY <1>2, <1>5, <1>6, <1>7 DEF InFlight
  <2>2. InFlight = scheduled - next
    BY <1>3 DEF CountInv
  <2> QED  BY <1>2, <1>6, <2>1, <2>2
<1>10. scheduled' - next' <= Prefetch'
  BY <1>2, <1>6, <1>7
<1>11. ASSUME NEW i \in 1 .. Len(jobs') PROVE jobs'[i].seq = Untaken' + i - 1
  <2>1. CASE i \in 1 .. Len(jobs)
    BY <1>3, <1>5, <1>7, <2>1 DEF CountInv
  <2>2. CASE i = Len(jobs) + 1
    BY <1>4, <1>5, <1>6, <1>7, <2>2 DEF Untaken
  <2> QED
    BY <1>5, <2>1, <2>2
<1>12. CountInv'
  BY <1>9, <1>10, <1>11 DEF CountInv
<1>13. PlacesInv'
  BY <1>2, <1>3, <1>7, <1>8 DEF PlacesInv
<1>14. OnceInv'
  BY <1>2, <1>3, <1>7 DEF OnceInv
<1>15. WaitInv'
  BY <1>2, <1>3 DEF WaitInv
<1> QED
  BY <1>2, <1>3, <1>12, <1>13, <1>14, <1>15 DEF WindowInv

\* A step of the producer between two places of the open scope that takes
\* nothing in hand and puts nothing down moves no job.
LEMMA WindowMove ==
  ASSUME WindowInv, Open, InHand' = InHand, WaitInv',
         UNCHANGED <<len, next, scheduled, jobs, results, pending, worker, load>>
  PROVE  WindowInv'
<1>1. /\ Holding' = Holding /\ Prefetch' = Prefetch /\ Untaken' = Untaken
  BY DEF Holding, Prefetch, Least, Untaken
<1>2. InFlight' = InFlight /\ Window' = Window
  BY <1>1 DEF InFlight, Window
<1>3. CountInv'
  BY <1>1, <1>2 DEF WindowInv, CountInv
<1>4. PlacesInv'
  BY <1>1, <1>2 DEF WindowInv, PlacesInv
<1>5. OnceInv'
  BY <1>1 DEF WindowInv, OnceInv
<1> QED
  BY <1>3, <1>4, <1>5 DEF WindowInv

\* The producer stops scheduling to wait only for an item that is under way.
LEMMA WindowRefill == ASSUME IInv, WindowInv, EndRefill PROVE WindowInv'
<1>1. Open
  BY DEF EndRefill, Open, ScopeOpen, IInv, PoolInv
<1>2. /\ producer = "refill" /\ ~MaySchedule
      /\ producer' = IF next < len /\ ~cancelled THEN "receive" ELSE "close"
      /\ UNCHANGED <<len, next, scheduled, jobs, results, pending, worker, load>>
  BY DEF EndRefill, epochVars, poolVars
<1>3. TypeOK /\ IsFiniteSet(pending) /\ WaitInv
  BY <1>1 DEF IInv, WindowInv
<1>4. CASE producer' = "receive"
  <2>1. next < len
    BY <1>2, <1>4
  <2>2. /\ Prefetch \in Nat /\ Prefetch > 0
        /\ next \in Nat /\ scheduled \in Nat /\ len \in Nat
    BY <1>3, <2>1, Counts
  <2>3. next < scheduled
    BY <1>2, <2>1, <2>2 DEF MaySchedule
  <2>4. WaitInv'
    BY <1>2, <1>3, <2>3 DEF WaitInv
  <2>5. InHand' = InHand
    BY <1>2, <1>4 DEF InHand
  <2> QED
    BY <1>1, <1>2, <2>4, <2>5, WindowMove
<1>5. CASE producer' = "close"
  BY <1>2, <1>3, <1>5, WindowClosed DEF ScopeOpen
<1> QED
  BY <1>2, <1>4, <1>5

\* A result received joins the pending ones: none of them has its place.
LEMMA WindowReceive == ASSUME IInv, WindowInv, ReceiveResult PROVE WindowInv'
<1>1. Open
  BY DEF ReceiveResult, Open, ScopeOpen, IInv, PoolInv
<1> DEFINE got == results[1]
<1>2. /\ producer = "receive" /\ results # <<>> /\ results' = Tail(results)
      /\ producer' = "flush"
      /\ UNCHANGED <<scheduled, jobs, worker, load, next, len>>
  BY DEF ReceiveResult, epochVars
<1>3. /\ TypeOK /\ IsFiniteSet(pending) /\ CountInv /\ PlacesInv
      /\ OnceInv /\ WaitInv
  BY <1>1 DEF IInv, WindowInv
<1>4. /\ Len(results') = Len(results) - 1 /\ Len(results) \in Nat \ {0}
      /\ \A i \in 1 .. Len(results) - 1 : results'[i] = results[i + 1]
      /\ Head(results) = got
  <2>1. results \in Seq(Job)
    BY <1>3 DEF TypeOK
  <2> QED
    BY <1>2, <2>1, RestOf
<1>5. \A r \in pending : r.seq # got.seq
  BY <1>3, <1>4 DEF OnceInv
<1>6. pending' = pending \cup {got} /\ got \notin pending
  BY <1>4, <1>5 DEF ReceiveResult
<1>7. IsFiniteSet(pending') /\ Cardinality(pending') = Cardinality(pending) + 1
  BY <1>3, <1>6, FS_AddElement
<1>8. /\ Cardinality(Holding) \in Nat /\ Len(jobs) \in Nat
      /\ Cardinality(pending) \in Nat /\ next \in Nat /\ scheduled \in Nat
  BY <1>3, Counts
<1>9. /\ InHand = 0 /\ InHand' = 0 /\ Holding' = Holding
      /\ Prefetch' = Prefetch /\ Untaken' = Untaken
  BY <1>2 DEF InHand, Holding, Prefetch, Least, Untaken
<1>10. InFlight' = InFlight /\ Window' = Window
  BY <1>2, <1>4, <1>7, <1>8, <1>9 DEF InFlight, Window
<1>11. CountInv'
  BY <1>2, <1>3, <1>9, <1>10 DEF CountInv
<1>12. \A i \in 1 .. Len(results') : /\ i + 1 \in 1 .. Len(results)
                                     /\ results'[i] = results[i + 1]
  BY <1>4
<1>13. got.seq \in Window
  BY <1>3, <1>4 DEF PlacesInv
<1> HIDE DEF got
<1>14. PlacesInv'
  BY <1>2, <1>3, <1>6, <1>9, <1>10, <1>12, <1>13 DEF PlacesInv
<1>15. /\ 1 \in 1 .. Len(results) /\ results[1] = got
       /\ \A i \in 1 .. Len(results') : results'[i].seq # got.seq
  <2>1. 1 \in 1 .. Len(results) /\ results[1] = got
    BY <1>4 DEF got
  <2>2. ASSUME NEW i \in 1 .. Len(results') PROVE results'[i].seq # got.seq
    <3>1. i + 1 \in 1 .. Len(results) /\ i + 1 # 1 /\ results'[i] = results[i + 1]
      BY <1>4, <1>12
    <3> QED
      BY <1>3, <2>1, <3>1 DEF OnceInv
  <2> QED
    BY <2>1, <2>2
<1>16. OnceInv'
  <2>1. /\ \A v, w \in Holding' : load'[v].seq = load'[w].seq => v = w
        /\ \A r, s \in pending' : r.seq = s.seq => r = s
        /\ \A w \in Holding' : \A i \in 1 .. Len(results') :
             load'[w].seq # results'[i].seq
    BY <1>2, <1>3, <1>5, <1>6, <1>9, <1>12 DEF OnceInv
  <2>2. ASSUME NEW i \in 1 .. Len(results'), NEW j \in 1 .. Len(results'),
               results'[i].seq = results'[j].seq
        PROVE  i = j
    <3>1. i + 1 = j + 1
      BY <1>3, <1>12, <2>2 DEF OnceInv
    <3> QED
      BY <3>1
  <2>3. /\ \A w \in Holding' : \A r \in pending' : load'[w].seq # r.seq
        /\ \A i \in 1 .. Len(results') : \A r \in pending' : results'[i].seq # r.seq
    BY <1>2, <1>3, <1>6, <1>9, <1>12, <1>15 DEF OnceInv
  <2> QED
    BY <2>1, <2>2, <2>3 DEF OnceInv
<1>17. WaitInv'
  BY <1>2 DEF WaitInv
<1> QED
  BY <1>7, <1>11, <1>14, <1>16, <1>17 DEF WindowInv

\* The next item in order leaves the pending ones for the producer's hand.
LEMMA WindowFlush == ASSUME IInv, WindowInv, FlushItem PROVE WindowInv'
<1>1. Open
  BY DEF FlushItem, Open, ScopeOpen, IInv, PoolInv
<1>2. PICK r \in pending :
        /\ r.seq = next /\ pending' = pending \ {r}
        /\ producer' \in {"check", "close"}
  BY DEF FlushItem
<1>3. /\ producer = "flush"
      /\ UNCHANGED <<scheduled, jobs, results, worker, load, next, len>>
  BY DEF FlushItem
<1>4. /\ TypeOK /\ IsFiniteSet(pending) /\ CountInv /\ PlacesInv
      /\ OnceInv /\ WaitInv
  BY <1>1 DEF IInv, WindowInv
<1>5. CASE producer' = "close"
  BY <1>2, <1>4, <1>5, WindowClosed DEF ScopeOpen
<1>6. CASE producer' = "check"
  <2>1. IsFiniteSet(pending') /\ Cardinality(pending') = Cardinality(pending) - 1
    BY <1>2, <1>4, FS_RemoveElement
  <2>2. /\ Cardinality(Holding) \in Nat /\ Len(jobs) \in Nat /\ Len(results) \in Nat
        /\ Cardinality(pending) \in Nat /\ next \in Nat /\ scheduled \in Nat
    BY <1>4, Counts
  <2>3. /\ InHand = 0 /\ InHand' = 1 /\ Holding' = Holding
        /\ Prefetch' = Prefetch /\ Untaken' = Untaken /\ Untaken \in Int
    BY <1>3, <1>6, <2>2 DEF InHand, Holding, Prefetch, Least, Untaken
  <2>4. InFlight' = InFlight
    BY <1>3, <2>1, <2>2, <2>3 DEF InFlight
  <2>5. CountInv'
    BY <1>3, <1>4, <2>3, <2>4 DEF CountInv
  <2>6. \A n \in Window : n # next => n \in Window'
    BY <1>3, <2>2, <2>3 DEF Window
  <2>7. /\ \A w \in Holding : load[w].seq # next
        /\ \A i \in 1 .. Len(results) : results[i].seq # next
        /\ \A s \in pending' : s \in pending /\ s.seq # next
    BY <1>2, <1>4 DEF OnceInv
  <2>8. PlacesInv'
    BY <1>3, <1>4, <2>3, <2>6, <2>7 DEF PlacesInv
  <2>9. OnceInv'
    BY <1>3, <1>4, <2>3, <2>7 DEF OnceInv
  <2>10. WaitInv'
    BY <1>6 DEF WaitInv
  <2> QED
    BY <2>1, <2>5, <2>8, <2>9, <2>10 DEF WindowInv
<1> QED
  BY <1>2, <1>5, <1>6

\* An item leaves the producer's hand, sent or skipped.
LEMMA WindowPut ==
  ASSUME IInv, WindowInv, producer \in {"check", "offer"},
         next' = next + 1, producer' = AfterSend,
         UNCHANGED <<len, scheduled, jobs, results, pending, worker, load>>
  PROVE  WindowInv'
<1>1. CASE Workers = {}
  BY <1>1 DEF WindowInv, Open
<1>2. CASE Workers # {}
  <2>1. Open /\ producer' = "flush"
    BY <1>2 DEF Open, ScopeOpen, AfterSend
  <2>2. /\ TypeOK /\ IsFiniteSet(pending) /\ CountInv /\ PlacesInv
        /\ OnceInv /\ WaitInv
    BY <2>1 DEF IInv, WindowInv
  <2>3. /\ Cardinality(Holding) \in Nat /\ Len(jobs) \in Nat /\ Len(results) \in Nat
        /\ Cardinality(pending) \in Nat /\ next \in Nat /\ scheduled \in Nat
        /\ Prefetch \in Nat
    BY <2>2, Counts
  <2>4. /\ InHand = 1 /\ InHand' = 0 /\ Holding' = Holding
        /\ Prefetch' = Prefetch /\ Untaken' = Untaken
    BY <2>1 DEF InHand, Holding, Prefetch, Least, Untaken
  <2>5. InFlight' = InFlight - 1 /\ InFlight \in Int
    BY <2>3, <2>4 DEF InFlight
  <2>6. next' + InHand' = next + InHand
    BY <2>3, <2>4
  <2>7. Window' = Window
    BY <2>4, <2>6 DEF Window
  <2>8. InFlight' = scheduled' - next'
    BY <2>2, <2>3, <2>5 DEF CountInv
  <2>9. scheduled' - next' <= Prefetch'
    BY <2>2, <2>3, <2>4 DEF CountInv
  <2>10. \A i \in 1 .. Len(jobs') : jobs'[i].seq = Untaken' + i - 1
    BY <2>2, <2>4 DEF CountInv
  <2>11. CountInv'
    BY <2>8, <2>9, <2>10 DEF CountInv
  <2>12. PlacesInv'
    BY <2>2, <2>4, <2>7 DEF PlacesInv
  <2>13. OnceInv'
    BY <2>2, <2>4 DEF OnceInv
  <2>14. WaitInv'
    BY <2>1 DEF WaitInv
  <2> QED
    BY <2>2, <2>11, <2>12, <2>13, <2>14 DEF WindowInv
<1> QED
  BY <1>1, <1>2

\* An epoch opens its scope with nothing scheduled.
LEMMA WindowStart == ASSUME IInv, WindowInv, StartEpoch PROVE WindowInv'
<1>1. /\ producer = "epoch" /\ len' \in Nat
      /\ UNCHANGED <<next, scheduled, jobs, results, pending, load>>
  BY DEF StartEpoch
<1>2. TypeOK /\ next = 0
  BY <1>1 DEF IInv, PlaceInv, TypeOK
<1>3. jobs = <<>> /\ results = <<>> /\ pending = {} /\ scheduled = 0
  BY <1>1 DEF IInv, PoolInv, InScope
<1>4. CASE Workers = {} \/ len' = 0
  BY <1>1, <1>4, WindowClosed DEF StartEpoch, ScopeOpen, WindowInv
<1>5. CASE Workers # {} /\ len' # 0
  <2>1. producer' = "refill" /\ worker' = [w \in Workers |-> "take"]
    BY <1>5 DEF StartEpoch
  <2>2. Holding' = {} /\ InHand' = 0
    BY <2>1 DEF Holding, InHand
  <2>3. Len(jobs) = 0 /\ Len(results) = 0
    BY <1>3
  <2>4. Cardinality({}) = 0 /\ IsFiniteSet({})
    BY FS_EmptySet
  <2>5. Prefetch' \in Nat
    <3>1. Cardinality(Workers) \in Nat /\ Capacity \in Nat
      BY FS_CardinalityType
    <3> QED
      BY <1>1, <3>1 DEF Prefetch, Least
  <2>6. InFlight' = 0
    BY <1>1, <1>3, <2>2, <2>3, <2>4 DEF InFlight
  <2>7. CountInv'
    BY <1>1, <1>2, <1>3, <2>3, <2>5, <2>6 DEF CountInv
  <2>8. PlacesInv' /\ OnceInv' /\ WaitInv'
    BY <1>1, <1>3, <2>1, <2>2, <2>3 DEF PlacesInv, OnceInv, WaitInv
  <2> QED
    BY <1>1, <1>3, <2>4, <2>7, <2>8 DEF WindowInv
<1> QED
  BY <1>4, <1>5

\* Every step keeps the window, whoever takes it.
LEMMA WindowStep == IInv /\ WindowInv /\ [Next]_vars => WindowInv'
<1> SUFFICES ASSUME IInv, WindowInv, [Next]_vars PROVE WindowInv'
  OBVIOUS
<1>1. CASE Activate
  <2>1. IsFiniteSet(pending) /\ pending' = pending
    BY <1>1 DEF Activate, poolVars, WindowInv
  <2>2. producer = "unborn" \/ producer' = producer
    BY <1>1 DEF Activate, IInv, ProducerInv
  <2>3. CASE producer' = producer
    BY <1>1, <2>3, WindowFrame DEF Activate, epochVars, poolVars
  <2>4. CASE producer = "unborn"
    BY <1>1, <2>1, <2>4, WindowClosed DEF Activate, ScopeOpen
  <2> QED
    BY <2>2, <2>3, <2>4
<1>2. CASE \/ StartPut \/ OpenIter \/ CloseIter \/ StartGet
           \/ StartCleanup \/ StartDrop
  BY <1>2, WindowFrame DEF StartPut, OpenIter, CloseIter, StartGet,
     StartCleanup, StartDrop, Cancel, epochVars, poolVars
<1>3. CASE OwnerStep
  <2>1. UNCHANGED <<epochVars, poolVars, producer>>
    BY <1>3 DEF OwnerStep, FinishPut, PollPut, GetReadDone, GetItem,
       GetTerminal, GetEmpty, GetCompletion, GetTimeout, DrainItem, Drained,
       Join, FinishCleanup, vars, epochVars, poolVars
  <2> QED
    BY <2>1, WindowFrame DEF epochVars, poolVars
<1>4. CASE StartEpoch
  BY <1>4, WindowStart
<1>5. CASE \/ SamplerFails \/ StopProducing \/ Publish \/ Finish \/ Signal
           \/ (LoadItem /\ Workers = {}) \/ LoadFails \/ EndSequential
  <2>1. UNCHANGED pending /\ IsFiniteSet(pending)
    BY <1>5 DEF SamplerFails, StopProducing, Publish, Finish, Signal, LoadItem,
       LoadFails, EndSequential, poolVars, WindowInv
  <2>2. ~ScopeOpen' \/ Workers = {}
    BY <1>5 DEF SamplerFails, StopProducing, Publish, Finish, Signal,
       LoadFails, EndSequential, EndEpoch, ScopeOpen
  <2> QED
    BY <2>1, <2>2 DEF WindowInv, Open
<1>6. CASE LoadItem
  BY <1>5, <1>6 DEF LoadItem, IInv, PoolInv
<1>7. CASE SkipSend \/ SendItem
  BY <1>7, WindowPut DEF SkipSend, SendItem, poolVars
<1>8. CASE AttemptSend \/ SendTimeout
  <2>1. /\ producer \in {"check", "offer"} /\ producer' \in {"check", "offer"}
        /\ UNCHANGED <<len, next, scheduled, jobs, results, pending, worker, load>>
    BY <1>8 DEF AttemptSend, SendTimeout, epochVars, poolVars
  <2>2. CASE Workers = {}
    BY <2>1, <2>2 DEF WindowInv, Open
  <2>3. CASE Workers # {}
    <3>1. Open /\ InHand' = InHand /\ WaitInv'
      BY <2>1, <2>3 DEF Open, ScopeOpen, InHand, WaitInv
    <3> QED
      BY <2>1, <3>1, WindowMove
  <2> QED
    BY <2>2, <2>3
<1>9. CASE Schedule
  BY <1>9, WindowSchedule
<1>10. CASE EndRefill
  BY <1>10, WindowRefill
<1>11. CASE ReceiveResult
  BY <1>11, WindowReceive
<1>12. CASE FlushItem
  BY <1>12, WindowFlush
<1>13. CASE EndFlush
  <2>1. Open
    BY <1>13 DEF EndFlush, Open, ScopeOpen, IInv, PoolInv
  <2>2. InHand' = InHand /\ WaitInv'
    BY <1>13 DEF EndFlush, InHand, WaitInv, epochVars, poolVars
  <2> QED
    BY <1>13, <2>1, <2>2, WindowMove DEF EndFlush, epochVars, poolVars
<1>14. CASE CloseScope
  BY <1>14, WindowClosed DEF CloseScope, EndEpoch, ScopeOpen, WindowInv
<1>15. ASSUME NEW w \in Workers, WorkerTake(w) PROVE WindowInv'
  BY <1>15, WindowTake
<1>16. ASSUME NEW w \in Workers, WorkerLoad(w) PROVE WindowInv'
  BY <1>16, WindowLoad
<1>17. ASSUME NEW w \in Workers, WorkerSend(w) PROVE WindowInv'
  BY <1>17, WindowSend
<1>18. ASSUME NEW w \in Workers, WorkerExit(w) PROVE WindowInv'
  BY <1>18 DEF WorkerExit, WindowInv, Open, ScopeOpen
<1>19. CASE UNCHANGED vars
  BY <1>19, WindowFrame DEF vars
<1> QED
  BY <1>1, <1>2, <1>3, <1>4, <1>5, <1>6, <1>7, <1>8, <1>9, <1>10, <1>11,
     <1>12, <1>13, <1>14, <1>15, <1>16, <1>17, <1>18, <1>19
     DEF Next, OwnerCall, ProducerStep, WorkerStep, Dropped

\* The pending results, each with a place of its own after the next one,
\* are fewer than the items scheduled and not sent.
LEMMA PendingLeaveOne ==
  ASSUME IInv, WindowInv, Open, producer = "receive"
  PROVE  Len(jobs) + Cardinality(Holding) + Len(results) > 0
<1>1. /\ TypeOK /\ IsFiniteSet(pending) /\ CountInv /\ PlacesInv
      /\ OnceInv /\ WaitInv
  BY DEF IInv, WindowInv
<1>2. /\ Cardinality(Holding) \in Nat /\ Len(jobs) \in Nat /\ Len(results) \in Nat
      /\ Cardinality(pending) \in Nat /\ next \in Nat /\ scheduled \in Nat
  BY <1>1, Counts
<1>3. InHand = 0 /\ next < scheduled /\ \A r \in pending : r.seq # next
  BY <1>1 DEF InHand, WaitInv
<1> DEFINE After == (next + 1) .. (scheduled - 1)
           seq == [r \in pending |-> r.seq]
<1>4. /\ IsFiniteSet(After) /\ Cardinality(After) = scheduled - 1 - next
  <2>1. next + 1 \in Int /\ scheduled - 1 \in Int
    BY <1>2
  <2>2. /\ IsFiniteSet(After)
        /\ Cardinality(After) = IF next + 1 > scheduled - 1 THEN 0
                                ELSE (scheduled - 1) - (next + 1) + 1
    BY <2>1, FS_Interval
  <2> QED
    BY <1>2, <1>3, <2>2
<1>5. seq \in Injection(pending, After)
  <2>1. \A r \in pending : r.seq \in After
    BY <1>1, <1>2, <1>3 DEF PlacesInv, Window, Untaken
  <2>2. seq \in [pending -> After]
    BY <2>1
  <2>3. \A r, s \in pending : seq[r] = seq[s] => r = s
    BY <1>1 DEF OnceInv
  <2> HIDE DEF seq
  <2> QED
    BY <2>2, <2>3, Fun_IsInj
<1>6. Cardinality(pending) <= Cardinality(After)
  <2> HIDE DEF seq, After
  <2> QED
    BY <1>4, <1>5, FS_Injection
<1> QED
  BY <1>1, <1>2, <1>3, <1>4, <1>6 DEF CountInv, InFlight

\* For every capacity, pool and sampler: while the workers of an epoch run,
\* every job scheduled and not yet sent is in one place, there is room in
\* each bounded channel whenever one is sent to, and the result the producer
\* waits for is under way (produce_epoch_parallel's prefetch window).
THEOREM WindowCorrect == Spec => []WindowNeverBlocks
<1>1. Init => WindowInv
  BY FS_EmptySet DEF Init, WindowInv, Open, ScopeOpen
<1>2. IInv /\ WindowInv => WindowNeverBlocks
  <2> SUFFICES ASSUME IInv, WindowInv, Open PROVE
        /\ InFlight = scheduled - next
        /\ producer = "refill" /\ MaySchedule => Len(jobs) < Prefetch
        /\ \A w \in Workers : worker[w] = "send" => Len(results) < Prefetch
        /\ producer = "receive" => Len(jobs) + Cardinality(Holding) + Len(results) > 0
    BY DEF WindowNeverBlocks, Open
  <2>1. TypeOK /\ IsFiniteSet(pending) /\ CountInv
    BY DEF IInv, WindowInv
  <2>2. /\ IsFiniteSet(Holding) /\ Cardinality(Holding) \in Nat
        /\ Len(jobs) \in Nat /\ Len(results) \in Nat
        /\ Cardinality(pending) \in Nat /\ next \in Nat /\ scheduled \in Nat
        /\ Prefetch \in Nat /\ InHand \in {0, 1}
    BY <2>1, Counts
  <2>3. /\ InFlight = scheduled - next /\ scheduled - next <= Prefetch
        /\ Len(jobs) <= InFlight
        /\ Len(results) <= InFlight - Cardinality(Holding)
    BY <2>1, <2>2 DEF CountInv, InFlight
  <2>4. producer = "refill" /\ MaySchedule => Len(jobs) < Prefetch
    BY <2>2, <2>3 DEF MaySchedule
  <2>5. ASSUME NEW w \in Workers, worker[w] = "send"
        PROVE  Len(results) < Prefetch
    <3>1. Holding # {}
      BY <2>5 DEF Holding
    <3>2. Cardinality(Holding) # 0
      BY <2>2, <3>1, FS_EmptySet
    <3> QED
      BY <2>2, <2>3, <3>2
  <2> QED
    BY <2>3, <2>4, <2>5, PendingLeaveOne
<1> QED
  BY <1>1, <1>2, WindowStep, Invariance, PTL DEF Spec
=============================================================================
