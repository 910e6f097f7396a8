----------------------------- MODULE DataQueue ------------------------------
(***************************************************************************)
(* The ephemeral seed queue of the RL trainer                              *)
(* (crates/core/src/data_queue.rs): one owner thread that activates,       *)
(* reads, fills, cleans up and drops the queue; one producer thread that   *)
(* walks the sampler's epochs; and, when workers are configured, a scope   *)
(* of worker threads per epoch that load items out of order for the        *)
(* producer to put back in order.  They share a bounded channel, the       *)
(* cancelled and done flags, the producer error and a completion channel.  *)
(*                                                                         *)
(* A sampled item is known by its position in the sampler's order, 1, 2,   *)
(* ... over all epochs; what a dataset returns for it is left out, except  *)
(* that loading may fail or panic.                                         *)
(***************************************************************************)
EXTENDS Integers, Sequences, FiniteSets

CONSTANTS Capacity,   \* effective_queue_maxsize of the output channel
          Workers,    \* the worker threads of one epoch, {} to load in line
          Repeat,     \* the configured number of epochs, -1 for endless
          EpochSizes, \* how many indices the sampler may return
          MaxEpochs,  \* bound: epochs sampled before the producer idles
          MaxPuts     \* bound: items the owner adds by hand

ASSUME QueueAssumption == /\ Capacity \in Nat \ {0}
                          /\ IsFiniteSet(Workers)
                          /\ Repeat \in Int
                          /\ EpochSizes \subseteq Nat
                          /\ MaxEpochs \in Nat
                          /\ MaxPuts \in Nat

SamplerFaults == {"Sampler", "InvalidSampleIndex", "Panicked"}
LoadFaults == {"Dataset", "Panicked"}
Faults == SamplerFaults \cup LoadFaults

VARIABLES
  queue,         \* the output channel
  cancelled, done, producerError,
  completion,    \* messages in the completion channel
  owner,         \* where the owner's call is
  activated, sender, iter, puts,
  received,      \* position of the last sampled item the owner received
  verdict,       \* the terminal outcome the owner was told last
  producer,      \* where the producer thread is
  epoch, base, len,      \* base: items of the epochs before this one
  next, scheduled, hand, \* produce_epoch_*: progress and the value to send
  failure,       \* the error produce() returns
  sent,          \* position of the last sampled item put in the channel
  jobs, results, pending,
  worker, load   \* where each worker is, and its job or result

shared == <<queue, cancelled, done, producerError, completion>>
ownerVars == <<owner, activated, sender, iter, puts, received, verdict>>
epochVars == <<epoch, base, len, next, hand, failure, sent>>
poolVars == <<scheduled, jobs, results, pending, worker, load>>
vars == <<queue, cancelled, done, producerError, completion,
          owner, activated, sender, iter, puts, received, verdict,
          producer, epoch, base, len, next, scheduled, hand, failure, sent,
          jobs, results, pending, worker, load>>

Sampled(p) == [from |-> "sampled", pos |-> p]
\* An item put by hand is not in the sampler's order; pos says after which
\* sampled item it entered the channel.
ByHand(p) == [from |-> "put", pos |-> p]

NoJob == [seq |-> 0, pos |-> 0, status |-> "none"]

Init == /\ queue = <<>>
        /\ cancelled = FALSE
        /\ done = FALSE
        /\ producerError = "none"
        /\ completion = 0
        /\ owner = "ready"
        /\ activated = FALSE
        /\ sender = TRUE
        /\ iter = "none"
        /\ puts = 0
        /\ received = 0
        /\ verdict = "none"
        /\ producer = "unborn"
        /\ epoch = 0 /\ base = 0 /\ len = 0
        /\ next = 0 /\ scheduled = 0 /\ hand = 0
        /\ failure = "none"
        /\ sent = 0
        /\ jobs = <<>> /\ results = <<>> /\ pending = {}
        /\ worker = [w \in Workers |-> "gone"]
        /\ load = [w \in Workers |-> NoJob]

-----------------------------------------------------------------------------
(* The owner: activation, consumption, cleanup and drop.                   *)

\* activate: the first attempt uses the queue up, and spawns the producer
\* unless cleanup has already taken the sender away.
Activate == /\ owner = "ready" /\ iter = "none"
            /\ ~activated
            /\ activated' = TRUE
            /\ producer' = IF sender THEN "epoch" ELSE producer
            /\ UNCHANGED <<owner, sender, iter, puts, received, verdict>>
            /\ UNCHANGED <<shared, epochVars, poolVars>>

\* put: waits, polling, for room in the channel.  The owner holds the queue,
\* so neither a cleanup nor a disconnection can release it.
StartPut == /\ owner = "ready" /\ iter = "none"
            /\ sender
            /\ puts < MaxPuts
            /\ owner' = "put"
            /\ UNCHANGED <<activated, sender, iter, puts, received, verdict>>
            /\ UNCHANGED <<shared, producer, epochVars, poolVars>>

FinishPut == /\ owner = "put"
             /\ Len(queue) < Capacity
             /\ queue' = Append(queue, ByHand(sent))
             /\ puts' = puts + 1
             /\ owner' = "ready"
             /\ UNCHANGED <<activated, sender, iter, received, verdict>>
             /\ UNCHANGED <<cancelled, done, producerError, completion>>
             /\ UNCHANGED <<producer, epochVars, poolVars>>

PollPut == /\ owner = "put"
           /\ Len(queue) = Capacity
           /\ UNCHANGED vars

\* consumer: the iterator borrows the queue until it is dropped.
OpenIter == /\ owner = "ready" /\ iter = "none"
            /\ activated
            /\ iter' = "open"
            /\ UNCHANGED <<owner, activated, sender, puts, received, verdict>>
            /\ UNCHANGED <<shared, producer, epochVars, poolVars>>

CloseIter == /\ owner = "ready" /\ iter # "none"
             /\ iter' = "none"
             /\ UNCHANGED <<owner, activated, sender, puts, received, verdict>>
             /\ UNCHANGED <<shared, producer, epochVars, poolVars>>

\* get, called directly or by the iterator's next.
StartGet == /\ owner = "ready" /\ iter # "finished"
            /\ owner' = "get_done"
            /\ UNCHANGED <<activated, sender, iter, puts, received, verdict>>
            /\ UNCHANGED <<shared, producer, epochVars, poolVars>>

\* get reads the done flag before it looks into the channel.
GetReadDone == /\ owner = "get_done"
               /\ owner' = IF done THEN "get_last" ELSE "get_try"
               /\ UNCHANGED <<activated, sender, iter, puts, received, verdict>>
               /\ UNCHANGED <<shared, producer, epochVars, poolVars>>

\* An item is there: try_recv, or the receiving arm of the select.
GetItem == /\ owner \in {"get_last", "get_try", "get_wait"}
           /\ queue # <<>>
           /\ queue' = Tail(queue)
           /\ received' = IF Head(queue).from = "sampled"
                          THEN Head(queue).pos ELSE received
           /\ owner' = "ready"
           /\ UNCHANGED <<activated, sender, iter, puts, verdict>>
           /\ UNCHANGED <<cancelled, done, producerError, completion>>
           /\ UNCHANGED <<producer, epochVars, poolVars>>

\* Seeded fault: once done is set, reports without a last look at the channel.
GetTerminalUnchecked ==
  /\ owner = "get_last"
  /\ verdict' = IF producerError = "none" THEN "Exhausted" ELSE producerError
  /\ iter' = IF iter = "open" THEN "finished" ELSE iter
  /\ owner' = "ready"
  /\ UNCHANGED <<activated, sender, puts, received>>
  /\ UNCHANGED <<shared, producer, epochVars, poolVars>>

\* done was set and the channel is empty: the iterator reports it once.
GetTerminal == /\ owner = "get_last"
               /\ queue = <<>>
               /\ verdict' = IF producerError = "none"
                             THEN "Exhausted" ELSE producerError
               /\ iter' = IF iter = "open" THEN "finished" ELSE iter
               /\ owner' = "ready"
               /\ UNCHANGED <<activated, sender, puts, received>>
               /\ UNCHANGED <<shared, producer, epochVars, poolVars>>

GetEmpty == /\ owner = "get_try"
            /\ queue = <<>>
            /\ owner' = "get_wait"
            /\ UNCHANGED <<activated, sender, iter, puts, received, verdict>>
            /\ UNCHANGED <<shared, producer, epochVars, poolVars>>

\* The other arms of the select: a completion message, or the timeout (and
\* the closed completion channel, which does the same).
GetCompletion == /\ owner = "get_wait"
                 /\ completion > 0
                 /\ completion' = completion - 1
                 /\ owner' = "get_done"
                 /\ UNCHANGED <<activated, sender, iter, puts, received, verdict>>
                 /\ UNCHANGED <<queue, cancelled, done, producerError>>
                 /\ UNCHANGED <<producer, epochVars, poolVars>>

GetTimeout == /\ owner = "get_wait"
              /\ owner' = "get_done"
              /\ UNCHANGED <<activated, sender, iter, puts, received, verdict>>
              /\ UNCHANGED <<shared, producer, epochVars, poolVars>>

\* cleanup and drop both cancel, give up the sender, drain and join.
Cancel(target) == /\ owner = "ready" /\ iter = "none"
                 /\ cancelled' = TRUE
                 /\ sender' = FALSE
                 /\ owner' = target
                 /\ UNCHANGED <<activated, iter, puts, received, verdict>>
                 /\ UNCHANGED <<queue, done, producerError, completion>>
                 /\ UNCHANGED <<producer, epochVars, poolVars>>

StartCleanup == Cancel("drain")
StartDrop == Cancel("drop_drain")

DrainItem == /\ owner \in {"drain", "redrain", "drop_drain"}
             /\ queue # <<>>
             /\ queue' = Tail(queue)
             /\ UNCHANGED <<cancelled, done, producerError, completion>>
             /\ UNCHANGED <<ownerVars, producer, epochVars, poolVars>>

Drained == /\ owner \in {"drain", "drop_drain"}
           /\ queue = <<>>
           /\ owner' = IF owner = "drain" THEN "join" ELSE "drop_join"
           /\ UNCHANGED <<activated, sender, iter, puts, received, verdict>>
           /\ UNCHANGED <<shared, producer, epochVars, poolVars>>

Join == /\ owner \in {"join", "drop_join"}
        /\ producer \in {"unborn", "exited"}
        /\ owner' = IF owner = "join" THEN "redrain" ELSE "dropped"
        /\ UNCHANGED <<activated, sender, iter, puts, received, verdict>>
        /\ UNCHANGED <<shared, producer, epochVars, poolVars>>

\* Seeded fault: cleanup without the drain that follows the join.
FinishWithoutRedrain ==
  /\ owner = "redrain"
  /\ done' = TRUE
  /\ owner' = "ready"
  /\ UNCHANGED <<activated, sender, iter, puts, received, verdict>>
  /\ UNCHANGED <<queue, cancelled, producerError, completion>>
  /\ UNCHANGED <<producer, epochVars, poolVars>>

\* The second drain of cleanup removes a send that was already under way.
FinishCleanup == /\ owner = "redrain"
                 /\ queue = <<>>
                 /\ done' = TRUE
                 /\ owner' = "ready"
                 /\ UNCHANGED <<activated, sender, iter, puts, received, verdict>>
                 /\ UNCHANGED <<queue, cancelled, producerError, completion>>
                 /\ UNCHANGED <<producer, epochVars, poolVars>>

-----------------------------------------------------------------------------
(* The producer thread: epochs, faults and its last words.                 *)

\* Seeded fault: the epoch loop does not look at the cancellation.
EpochDueAnyway == Repeat = -1 \/ epoch < Repeat

EpochDue == (Repeat = -1 \/ epoch < Repeat) /\ ~cancelled

Least(a, b) == IF a < b THEN a ELSE b
Prefetch == Least(IF Capacity < Cardinality(Workers)
                  THEN Cardinality(Workers) ELSE Capacity, len)

\* The sampler returns the next epoch's indices, all of them in range; a
\* parallel epoch starts its workers, unless it is empty.
StartEpoch == /\ producer = "epoch"
              /\ EpochDue
              /\ epoch < MaxEpochs
              /\ len' \in EpochSizes
              /\ IF Workers = {}
                 THEN producer' = "item" /\ UNCHANGED worker
                 ELSE IF len' = 0
                 THEN producer' = "close" /\ UNCHANGED worker
                 ELSE /\ producer' = "refill"
                      /\ worker' = [w \in Workers |-> "take"]
              /\ UNCHANGED <<epoch, base, next, hand, failure, sent>>
              /\ UNCHANGED <<scheduled, jobs, results, pending, load>>
              /\ UNCHANGED <<shared, ownerVars>>

SamplerFails == /\ producer = "epoch"
                /\ EpochDue
                /\ epoch < MaxEpochs
                /\ failure' \in SamplerFaults
                /\ producer' = "publish"
                /\ UNCHANGED <<epoch, base, len, next, hand, sent>>
                /\ UNCHANGED <<shared, ownerVars, poolVars>>

StopProducing == /\ producer = "epoch"
                 /\ ~EpochDue
                 /\ producer' = "publish"
                 /\ UNCHANGED <<shared, ownerVars, epochVars, poolVars>>

\* The step common to both kinds of epoch that ends one without an error.
EndEpoch == /\ epoch' = epoch + 1
            /\ base' = base + len
            /\ len' = 0
            /\ next' = 0
            /\ hand' = 0
            /\ producer' = "epoch"
            /\ UNCHANGED <<failure, sent, shared, ownerVars>>

\* Record the failure before done, and done before the completion message.
Publish == /\ producer = "publish"
           /\ producerError' = IF failure # "none" THEN failure
                               ELSE producerError
           /\ producer' = "finish"
           /\ UNCHANGED <<queue, cancelled, done, completion>>
           /\ UNCHANGED <<ownerVars, epochVars, poolVars>>

Finish == /\ producer = "finish"
          /\ done' = TRUE
          /\ producer' = "signal"
          /\ UNCHANGED <<queue, cancelled, producerError, completion>>
          /\ UNCHANGED <<ownerVars, epochVars, poolVars>>

Signal == /\ producer = "signal"
          /\ completion' = completion + 1
          /\ producer' = "exited"
          /\ UNCHANGED <<queue, cancelled, done, producerError>>
          /\ UNCHANGED <<ownerVars, epochVars, poolVars>>

-----------------------------------------------------------------------------
(* Sending with retry: cancellation is checked before every attempt.       *)

AfterSend == IF Workers = {} THEN "item" ELSE "flush"

\* A cancelled send reports success without sending.
SkipSend == /\ producer = "check"
            /\ cancelled
            /\ next' = next + 1
            /\ producer' = AfterSend
            /\ UNCHANGED <<epoch, base, len, hand, failure, sent>>
            /\ UNCHANGED <<shared, ownerVars, poolVars>>

\* Seeded fault: a send does not look at the cancellation.
AttemptAlways == /\ producer = "check"
                 /\ producer' = "offer"
                 /\ UNCHANGED <<shared, ownerVars, epochVars, poolVars>>

AttemptSend == /\ producer = "check"
               /\ ~cancelled
               /\ producer' = "offer"
               /\ UNCHANGED <<shared, ownerVars, epochVars, poolVars>>

SendItem == /\ producer = "offer"
            /\ Len(queue) < Capacity
            /\ queue' = Append(queue, Sampled(hand))
            /\ sent' = hand
            /\ next' = next + 1
            /\ producer' = AfterSend
            /\ UNCHANGED <<cancelled, done, producerError, completion>>
            /\ UNCHANGED <<epoch, base, len, hand, failure>>
            /\ UNCHANGED <<ownerVars, poolVars>>

SendTimeout == /\ producer = "offer"
               /\ Len(queue) = Capacity
               /\ producer' = "check"
               /\ UNCHANGED <<shared, ownerVars, epochVars, poolVars>>

-----------------------------------------------------------------------------
(* An epoch without workers: the producer loads each item itself.          *)

LoadItem == /\ producer = "item"
            /\ next < len
            /\ ~cancelled
            /\ hand' = base + next + 1
            /\ producer' = "check"
            /\ UNCHANGED <<epoch, base, len, next, failure, sent>>
            /\ UNCHANGED <<shared, ownerVars, poolVars>>

LoadFails == /\ producer = "item"
             /\ next < len
             /\ ~cancelled
             /\ failure' \in LoadFaults
             /\ producer' = "publish"
             /\ UNCHANGED <<epoch, base, len, next, hand, sent>>
             /\ UNCHANGED <<shared, ownerVars, poolVars>>

EndSequential == /\ producer = "item"
                 /\ next = len \/ cancelled
                 /\ EndEpoch
                 /\ UNCHANGED poolVars

-----------------------------------------------------------------------------
(* An epoch with workers: schedule, receive in any order, send in order.   *)

\* Seeded fault: the window is one job too large.
MayScheduleOneMore == scheduled < len /\ scheduled - next <= Prefetch

MaySchedule == scheduled < len /\ scheduled - next < Prefetch

\* The first scheduling loop is the refill with next = 0.
Schedule == /\ producer = "refill"
            /\ MaySchedule
            /\ Len(jobs) < Prefetch
            /\ jobs' = Append(jobs, [seq |-> scheduled,
                                     pos |-> base + scheduled + 1,
                                     status |-> "none"])
            /\ scheduled' = scheduled + 1
            /\ UNCHANGED <<results, pending, worker, load, producer>>
            /\ UNCHANGED <<shared, ownerVars, epochVars>>

EndRefill == /\ producer = "refill"
             /\ ~MaySchedule
             /\ producer' = IF next < len /\ ~cancelled THEN "receive" ELSE "close"
             /\ UNCHANGED <<shared, ownerVars, epochVars, poolVars>>

ReceiveResult == /\ producer = "receive"
                 /\ results # <<>>
                 /\ results' = Tail(results)
                 /\ pending' = {r \in pending : r.seq # Head(results).seq}
                                 \cup {Head(results)}
                 /\ producer' = "flush"
                 /\ UNCHANGED <<scheduled, jobs, worker, load>>
                 /\ UNCHANGED <<shared, ownerVars, epochVars>>

\* Seeded fault: results are sent in the order they arrive.
FlushAnyItem == /\ producer = "flush"
                /\ \E r \in pending :
                     /\ pending' = pending \ {r}
                     /\ IF r.status = "ok"
                        THEN /\ hand' = r.pos
                             /\ producer' = "check"
                             /\ UNCHANGED failure
                        ELSE /\ failure' = r.status
                             /\ producer' = "close"
                             /\ UNCHANGED hand
                /\ UNCHANGED <<epoch, base, len, next, sent>>
                /\ UNCHANGED <<scheduled, jobs, results, worker, load>>
                /\ UNCHANGED <<shared, ownerVars>>

\* Take the next item in order, if it is there; an error ends the epoch.
FlushItem == /\ producer = "flush"
             /\ \E r \in pending :
                  /\ r.seq = next
                  /\ pending' = pending \ {r}
                  /\ IF r.status = "ok"
                     THEN /\ hand' = r.pos
                          /\ producer' = "check"
                          /\ UNCHANGED failure
                     ELSE /\ failure' = r.status
                          /\ producer' = "close"
                          /\ UNCHANGED hand
             /\ UNCHANGED <<epoch, base, len, next, sent>>
             /\ UNCHANGED <<scheduled, jobs, results, worker, load>>
             /\ UNCHANGED <<shared, ownerVars>>

EndFlush == /\ producer = "flush"
            /\ \A r \in pending : r.seq # next
            /\ producer' = "refill"
            /\ UNCHANGED <<shared, ownerVars, epochVars, poolVars>>

\* Leaving the scope closes its channels and joins every worker.
CloseScope == /\ producer = "close"
              /\ \A w \in Workers : worker[w] = "gone"
              /\ jobs' = <<>> /\ results' = <<>> /\ pending' = {}
              /\ scheduled' = 0
              /\ load' = [w \in Workers |-> NoJob]
              /\ UNCHANGED worker
              /\ IF failure = "none"
                 THEN EndEpoch
                 ELSE /\ producer' = "publish"
                      /\ UNCHANGED <<shared, ownerVars, epochVars>>

-----------------------------------------------------------------------------
(* A worker of the current epoch.                                          *)

ScopeOpen == producer \in {"refill", "receive", "flush", "check", "offer"}

WorkerTake(w) == /\ worker[w] = "take"
                 /\ jobs # <<>>
                 /\ load' = [load EXCEPT ![w] = Head(jobs)]
                 /\ jobs' = Tail(jobs)
                 /\ worker' = [worker EXCEPT ![w] = "load"]
                 /\ UNCHANGED <<scheduled, results, pending>>
                 /\ UNCHANGED <<shared, ownerVars, producer, epochVars>>

\* Seeded fault: a panicking dataset takes its worker down without a result.
WorkerDies(w) == /\ worker[w] = "load"
                 /\ \E s \in {"ok"} \cup LoadFaults :
                      /\ load' = [load EXCEPT ![w].status = s]
                      /\ worker' = [worker EXCEPT ![w] = IF s = "Panicked"
                                                         THEN "gone" ELSE "send"]
                 /\ UNCHANGED <<scheduled, jobs, results, pending>>
                 /\ UNCHANGED <<shared, ownerVars, producer, epochVars>>

\* A failing or panicking dataset becomes a result like any other.
WorkerLoad(w) == /\ worker[w] = "load"
                 /\ \E s \in {"ok"} \cup LoadFaults :
                      load' = [load EXCEPT ![w].status = s]
                 /\ worker' = [worker EXCEPT ![w] = "send"]
                 /\ UNCHANGED <<scheduled, jobs, results, pending>>
                 /\ UNCHANGED <<shared, ownerVars, producer, epochVars>>

WorkerSend(w) == /\ worker[w] = "send"
                 /\ ScopeOpen
                 /\ Len(results) < Prefetch
                 /\ results' = Append(results, load[w])
                 /\ load' = [load EXCEPT ![w] = NoJob]
                 /\ worker' = [worker EXCEPT ![w] = "take"]
                 /\ UNCHANGED <<scheduled, jobs, pending>>
                 /\ UNCHANGED <<shared, ownerVars, producer, epochVars>>

\* A worker ends when a closed channel has no job left for it, or when the
\* result it holds has no receiver any more.
WorkerExit(w) == /\ ~ScopeOpen
                 /\ \/ worker[w] = "take" /\ jobs = <<>>
                    \/ worker[w] = "send"
                 /\ worker' = [worker EXCEPT ![w] = "gone"]
                 /\ UNCHANGED <<scheduled, jobs, results, pending, load>>
                 /\ UNCHANGED <<shared, ownerVars, producer, epochVars>>

-----------------------------------------------------------------------------
\* What the owner chooses to do next, and what a call already made does.
OwnerCall == \/ Activate \/ StartPut \/ OpenIter \/ CloseIter \/ StartGet
             \/ StartCleanup \/ StartDrop

OwnerStep == \/ FinishPut \/ PollPut
             \/ GetReadDone \/ GetItem \/ GetTerminal \/ GetEmpty
             \/ GetCompletion \/ GetTimeout
             \/ DrainItem \/ Drained \/ Join \/ FinishCleanup

ProducerStep == \/ StartEpoch \/ SamplerFails \/ StopProducing
                \/ Publish \/ Finish \/ Signal
                \/ SkipSend \/ AttemptSend \/ SendItem \/ SendTimeout
                \/ LoadItem \/ LoadFails \/ EndSequential
                \/ Schedule \/ EndRefill \/ ReceiveResult
                \/ FlushItem \/ EndFlush \/ CloseScope

WorkerStep(w) == \/ WorkerTake(w) \/ WorkerLoad(w)
                 \/ WorkerSend(w) \/ WorkerExit(w)

\* The queue is gone and nothing runs any more.
Dropped == owner = "dropped" /\ UNCHANGED vars

Next == \/ OwnerCall \/ OwnerStep \/ ProducerStep
        \/ \E w \in Workers : WorkerStep(w)
        \/ Dropped

\* Threads the scheduler keeps running.  Nothing makes the owner call.
Fairness == /\ WF_vars(OwnerStep)
            /\ WF_vars(ProducerStep)
            /\ \A w \in Workers : WF_vars(WorkerStep(w))

Spec == Init /\ [][Next]_vars
FairSpec == Spec /\ Fairness

-----------------------------------------------------------------------------
(* Properties.                                                             *)

Item == [from : {"sampled", "put"}, pos : Nat]
Job == [seq : Nat, pos : Nat, status : {"none", "ok"} \cup LoadFaults]

\* The type invariant of the queue object and of its threads.
TypeOK == /\ queue \in Seq(Item) /\ Len(queue) <= Capacity
          /\ cancelled \in BOOLEAN /\ done \in BOOLEAN
          /\ producerError \in {"none"} \cup Faults
          /\ completion \in {0, 1}
          /\ owner \in {"ready", "put", "get_done", "get_try", "get_wait",
                        "get_last", "drain", "join", "redrain",
                        "drop_drain", "drop_join", "dropped"}
          /\ activated \in BOOLEAN /\ sender \in BOOLEAN
          /\ iter \in {"none", "open", "finished"}
          /\ puts \in 0 .. MaxPuts
          /\ received \in Nat
          /\ verdict \in {"none", "Exhausted"} \cup Faults
          /\ producer \in {"unborn", "epoch", "item", "refill", "receive",
                           "flush", "check", "offer", "close", "publish",
                           "finish", "signal", "exited"}
          /\ epoch \in Nat /\ base \in Nat /\ len \in Nat
          /\ next \in Nat /\ scheduled \in Nat /\ hand \in Nat /\ sent \in Nat
          /\ failure \in {"none"} \cup Faults
          /\ jobs \in Seq(Job) /\ results \in Seq(Job)
          /\ pending \in SUBSET Job
          /\ worker \in [Workers -> {"take", "load", "send", "gone"}]
          /\ load \in [Workers -> Job]

\* However the workers raced, what the owner saw agrees with the sampler: it
\* is told that the queue is exhausted only when it has received every item
\* of every epoch, and it is told an error only when it has received every
\* item before the failing one (get, produce and the order of the two stores
\* at the end of the producer thread).
VerdictAfterPrefix ==
  (verdict # "none" /\ ~cancelled) =>
    /\ received = sent
    /\ (verdict = "Exhausted") =>
         received = base /\ (Repeat >= 0 => epoch = Repeat)
    /\ (verdict # "Exhausted") => received = base + next

\* Once cleanup has returned, or the queue is dropped, the producer thread
\* is gone for good and with it every worker; a cleaned queue is empty and
\* stays so, although the producer may have been sending during the drain.
QuiescentAfterCleanup ==
  cancelled /\ owner \in {"ready", "get_done", "get_last", "dropped"} =>
    /\ producer \in {"unborn", "exited"}
    /\ \A w \in Workers : worker[w] = "gone"
    /\ (owner # "dropped" => queue = <<>> /\ done)

\* Between the first drain and the join at most one item can still arrive:
\* the one whose send had begun before the cancellation.
AtMostOneLateItem ==
  owner \in {"join", "drop_join", "redrain"} => Len(queue) <= 1

\* How many of an epoch's items are with the jobs, the workers, the results,
\* the pending map and the send under way.
Holding == {w \in Workers : worker[w] \in {"load", "send"}}
InHand == IF producer \in {"check", "offer"} THEN 1 ELSE 0
InFlight == Len(jobs) + Cardinality(Holding) + Len(results)
              + Cardinality(pending) + InHand

\* The prefetch window keeps the producer and the workers from waiting for
\* each other: with the scope open, every job scheduled and not yet sent is
\* in flight exactly once, so neither bounded channel of the scope can be
\* full when it is sent to, and the result the producer waits for is coming.
WindowNeverBlocks ==
  ScopeOpen /\ Workers # {} =>
    /\ InFlight = scheduled - next
    /\ producer = "refill" /\ MaySchedule => Len(jobs) < Prefetch
    /\ \A w \in Workers : worker[w] = "send" => Len(results) < Prefetch
    /\ producer = "receive" => Len(jobs) + Cardinality(Holding) + Len(results) > 0

\* The whole queue, seen from its consumer, is a SampleStream: the consumer
\* receives the sampler's order without gap, repetition or reordering, and
\* a fault or the end is told after the items before it and never changes.
Stream == INSTANCE SampleStream WITH
            promised <- base + len,
            available <- sent,
            delivered <- received,
            closed <- cancelled,
            outcome <- IF ~done THEN "running"
                       ELSE IF producerError = "none" THEN "Exhausted"
                       ELSE producerError,
            verdict <- verdict
ImplementsStream == Stream!Spec

InGet == owner \in {"get_done", "get_try", "get_wait", "get_last"}

\* A read of an activated queue returns, with an item or with the outcome:
\* a finite sampler and a dataset that answers always wake it.
GetReturns == InGet /\ activated ~> ~InGet

\* Cleanup and drop return, whatever the producer was doing when they began:
\* blocked on a full channel, loading, or waiting for its workers.
CleanupReturns ==
  owner \in {"drain", "join", "redrain", "drop_drain", "drop_join"}
    ~> owner \in {"ready", "dropped"}

=============================================================================
