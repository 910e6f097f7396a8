--------------------------- MODULE SubprocessPool ---------------------------
(***************************************************************************)
(* The subprocess backend of the vector environment: one parent thread     *)
(* that drives one child process per environment over a pair of pipes      *)
(* (crates/core/src/finite_subprocess_backend.rs), the framed transport    *)
(* with a timeout on every operation, the process lifecycle and the        *)
(* child's command loop (finite_subprocess.rs), and optionally the mapped  *)
(* region a child leaves its observations in (finite_shmem.rs and          *)
(* crates/shmem).                                                          *)
(*                                                                         *)
(* A request is known by its serial number, counted without bound; what    *)
(* travels is the 64-bit request id, the serial modulo IdSpan.  Reset and  *)
(* step are one operation here: only the payloads differ.                  *)
(***************************************************************************)
EXTENDS Integers, Sequences

CONSTANTS Size,   \* how many environments, and child processes
          Setups  \* what a pool may be built and used with

Env == 0 .. Size - 1

\* batches: the environment ids a caller may ask for at once; span: how many
\* request ids there are before they wrap; room: frames a pipe holds with
\* nobody reading, 0 if none fits; shared: observations travel through the
\* mapped region; requests: bound, requests ever made.
ASSUME PoolAssumption ==
  /\ Size \in Nat \ {0}
  /\ \A s \in Setups : /\ s.batches \subseteq Seq(Env)
                        /\ s.span \in Nat \ {0}
                        /\ s.room \in Nat
                        /\ s.shared \in BOOLEAN
                        /\ s.requests \in Nat

VARIABLES
  setup,        \* one of Setups
  state,        \* of the pool, or "building", "failed", "dropped"
  nextRequest,  \* serial of the next request
  op, phase,    \* the parent's call and where it is
  batch, pos,   \* its requests, and the request or environment it is at
  frame, seen,  \* the response just received, and what was read of the region
  answers,      \* the responses received for the batch
  fault,        \* the call has failed
  outcome,      \* how the last call ended
  requests, responses, \* the pipes, with a frame being written at their end
  child,        \* the process: "none", "running", "dead", "reaped"
  serving, job, \* the child's command loop and the request it holds
  region,       \* the mapped observation of each child
  unkilled      \* environments whose last forced termination failed

parentVars == <<batch, frame, seen, answers>>
wires == <<requests, responses>>
children == <<serving, job, region>>
processes == <<child, unkilled>>
vars == <<setup, state, nextRequest, op, phase, batch, pos, frame, seen, answers,
          fault, outcome, requests, responses, child, serving, job,
          region, unkilled>>

WireId(serial) == serial % setup.span

NoRequest == [serial |-> -1, kind |-> "none"]
NoFrame == [serial |-> -1, status |-> "none"]
Blank == [payload |-> -1, id |-> -1, sum |-> -1]

Init == /\ setup \in Setups
        /\ state = "building"
        /\ nextRequest = 0
        /\ op = "none" /\ phase = "idle"
        /\ batch = <<>> /\ pos = 0
        /\ frame = NoFrame /\ seen = Blank
        /\ answers = <<>>
        /\ fault = FALSE /\ outcome = "none"
        /\ requests = [e \in Env |-> <<>>]
        /\ responses = [e \in Env |-> <<>>]
        /\ child = [e \in Env |-> "none"]
        /\ serving = [e \in Env |-> "read"]
        /\ job = [e \in Env |-> NoRequest]
        /\ region = [e \in Env |-> Blank]
        /\ unkilled = {}

-----------------------------------------------------------------------------
(* Construction and drop.                                                  *)

SpawnWorker == /\ state = "building"
               /\ child' = [child EXCEPT ![pos] = "running"]
               /\ pos' = (pos + 1) % Size
               /\ state' = IF pos + 1 = Size THEN "Open" ELSE state
               /\ UNCHANGED <<nextRequest, op, phase, fault, outcome, unkilled>>
               /\ UNCHANGED <<parentVars, wires, children>>

KillOnDrop == child' = [e \in Env |-> IF child[e] = "running" THEN "dead"
                                      ELSE child[e]]

\* The workers made before the failing one are dropped, hence killed.
SpawnFails == /\ state = "building"
              /\ KillOnDrop
              /\ state' = "failed"
              /\ UNCHANGED <<nextRequest, op, phase, pos, fault, outcome, unkilled>>
              /\ UNCHANGED <<parentVars, wires, children>>

Drop == /\ op = "none"
        /\ state \in {"Open", "Poisoned", "Closed"}
        /\ KillOnDrop
        /\ state' = "dropped"
        /\ UNCHANGED <<nextRequest, op, phase, pos, fault, outcome, unkilled>>
        /\ UNCHANGED <<parentVars, wires, children>>

-----------------------------------------------------------------------------
(* How a frame goes to a child and how one comes from it.                  *)

Writable(e) == child[e] = "running"
Written(pipe) == Len(pipe) <= setup.room

Post(e, kind, serial) ==
  requests' = [requests EXCEPT ![e] = Append(@, [serial |-> serial, kind |-> kind])]

\* A write that timed out leaves a truncated frame the child never completes.
Unpost(e) ==
  requests' = [requests EXCEPT ![e] = SubSeq(@, 1, Len(@) - 1)]

\* Whatever can go wrong between the parent and child e in this phase: the
\* request cannot be encoded or written, no response is there and none comes
\* in time or ever.
WriteBreaks(e) == \/ phase = "send"
                  \/ phase = "sending" /\ ~Writable(e)
WriteTimesOut(e) == phase = "sending" /\ Writable(e) /\ ~Written(requests[e])
\* Seeded fault: a read has no timeout and ends only with the child.
ReadBreaksAtEof(e) == /\ phase = "receive"
                      /\ responses[e] = <<>>
                      /\ child[e] # "running"

ReadBreaks(e) == phase = "receive" /\ responses[e] = <<>>
Fails(e) == \/ /\ WriteBreaks(e) \/ ReadBreaks(e)
               /\ UNCHANGED requests
            \/ /\ WriteTimesOut(e)
               /\ Unpost(e)

\* A response received whole, but not the one to request s.
Mismatch(s) == WireId(frame.serial) # WireId(s)

TakeResponse(e) == /\ responses[e] # <<>>
                   /\ frame' = Head(responses[e])
                   /\ responses' = [responses EXCEPT ![e] = Tail(@)]

-----------------------------------------------------------------------------
(* reset_environments and step_environments.                               *)

\* A call refused by ensure_open, the action count or the id check.
Refuse == /\ op = "none"
          /\ state \in {"Open", "Poisoned", "Closed"}
          /\ outcome' = "error"
          /\ answers' = <<>> /\ batch' = <<>>
          /\ UNCHANGED <<state, nextRequest, op, phase, pos, frame, seen, fault>>
          /\ UNCHANGED <<wires, processes, children>>

StartBatch(ids) ==
  /\ op = "none"
  /\ state = "Open"
  /\ nextRequest + Len(ids) <= setup.requests
  /\ batch' = [i \in 1 .. Len(ids) |-> [env |-> ids[i],
                                        serial |-> nextRequest + i - 1]]
  /\ nextRequest' = nextRequest + Len(ids)
  /\ op' = "batch" /\ phase' = "send" /\ pos' = 1
  /\ answers' = <<>> /\ outcome' = "none"
  /\ UNCHANGED <<state, frame, seen, fault>>
  /\ UNCHANGED <<wires, processes, children>>

At == batch[pos]

BatchSend == /\ op = "batch" /\ phase = "send"
             /\ pos <= Len(batch)
             /\ Writable(At.env)
             /\ Post(At.env, "call", At.serial)
             /\ phase' = "sending"
             /\ UNCHANGED <<state, nextRequest, op, pos, fault, outcome>>
             /\ UNCHANGED <<parentVars, responses, processes, children>>

BatchSent == /\ op = "batch" /\ phase = "sending"
             /\ Writable(At.env) /\ Written(requests[At.env])
             /\ phase' = "send" /\ pos' = pos + 1
             /\ UNCHANGED <<state, nextRequest, op, fault, outcome>>
             /\ UNCHANGED <<parentVars, wires, processes, children>>

BatchAllSent == /\ op = "batch" /\ phase = "send"
                /\ pos > Len(batch)
                /\ phase' = "receive" /\ pos' = 1
                /\ UNCHANGED <<state, nextRequest, op, fault, outcome>>
                /\ UNCHANGED <<parentVars, wires, processes, children>>

BatchReceive == /\ op = "batch" /\ phase = "receive"
                /\ pos <= Len(batch)
                /\ TakeResponse(At.env)
                /\ phase' = IF setup.shared /\ frame'.status = "ok"
                            THEN "read_id" ELSE "check"
                /\ UNCHANGED <<state, nextRequest, op, pos, fault, outcome>>
                /\ UNCHANGED <<batch, seen, answers, requests>>
                /\ UNCHANGED <<processes, children>>

\* read_frame: the request id, the payload, then the checksum.
ReadRegionId == /\ phase = "read_id"
                /\ seen' = [Blank EXCEPT !.id = region[At.env].id]
                /\ phase' = "read_payload"
                /\ UNCHANGED <<state, nextRequest, op, pos, fault, outcome>>
                /\ UNCHANGED <<batch, frame, answers, wires, processes, children>>

ReadRegionPayload == /\ phase = "read_payload"
                     /\ seen' = [seen EXCEPT !.payload = region[At.env].payload]
                     /\ phase' = "read_sum"
                     /\ UNCHANGED <<state, nextRequest, op, pos, fault, outcome>>
                     /\ UNCHANGED <<batch, frame, answers, wires, processes, children>>

ReadRegionSum == /\ phase = "read_sum"
                 /\ seen' = [seen EXCEPT !.sum = region[At.env].sum]
                 /\ phase' = "check"
                 /\ UNCHANGED <<state, nextRequest, op, pos, fault, outcome>>
                 /\ UNCHANGED <<batch, frame, answers, wires, processes, children>>

\* The mapped observation does not belong to the response.
Hydrated == setup.shared /\ frame.status = "ok"
Torn == Hydrated /\ (seen.sum # seen.payload \/ seen.id # WireId(frame.serial))

Acceptable == ~Mismatch(At.serial) /\ ~Torn

Answer == [serial |-> frame.serial, status |-> frame.status,
           value |-> IF Hydrated THEN seen.payload ELSE frame.serial]

\* Seeded fault: the answers are gathered in reverse.
BatchStoreInFront ==
  /\ op = "batch" /\ phase = "check"
  /\ Acceptable
  /\ answers' = <<Answer>> \o answers
  /\ phase' = "receive" /\ pos' = pos + 1
  /\ frame' = NoFrame /\ seen' = Blank
  /\ UNCHANGED <<state, nextRequest, op, fault, outcome, batch>>
  /\ UNCHANGED <<wires, processes, children>>

BatchStore ==
  /\ op = "batch" /\ phase = "check"
  /\ Acceptable
  /\ answers' = Append(answers, Answer)
  /\ phase' = "receive" /\ pos' = pos + 1
  /\ frame' = NoFrame /\ seen' = Blank
  /\ UNCHANGED <<state, nextRequest, op, fault, outcome, batch>>
  /\ UNCHANGED <<wires, processes, children>>

\* Every failure of an exchange gives the whole batch up and poisons the pool.
GiveUp == /\ op' = "none" /\ phase' = "idle" /\ pos' = 0
          /\ frame' = NoFrame /\ seen' = Blank
          /\ outcome' = "error"
          /\ answers' = <<>>
          /\ UNCHANGED <<nextRequest, batch, fault, responses>>
          /\ UNCHANGED <<processes, children>>

\* Seeded fault: a failed exchange leaves the pool open.
BatchFailsOpen == /\ op = "batch"
                  /\ pos <= Len(batch)
                  /\ Fails(At.env)
                  /\ state' = "Open"
                  /\ GiveUp

BatchFails == /\ op = "batch"
              /\ pos <= Len(batch)
              /\ Fails(At.env)
              /\ state' = "Poisoned"
              /\ GiveUp

\* An unacceptable response, or one of another version or malformed.
BatchRejects == /\ op = "batch" /\ phase = "check"
                /\ state' = "Poisoned"
                /\ UNCHANGED requests
                /\ GiveUp

\* Every response is there: a remote failure among them poisons the pool.
BatchFinish == /\ op = "batch" /\ phase = "receive"
               /\ pos > Len(batch)
               /\ IF \E i \in DOMAIN answers : answers[i].status = "failure"
                  THEN /\ state' = "Poisoned"
                       /\ outcome' = "error"
                       /\ answers' = <<>>
                  ELSE /\ outcome' = "ok"
                       /\ UNCHANGED <<state, answers>>
               /\ op' = "none" /\ phase' = "idle" /\ pos' = 0
               /\ UNCHANGED <<nextRequest, batch, frame, seen, fault>>
               /\ UNCHANGED <<wires, processes, children>>

-----------------------------------------------------------------------------
(* close: cooperative for an open pool, forced for a poisoned one.         *)

\* Each environment's exchange makes one request of its own.
StartClose == /\ op = "none"
              /\ state = "Open"
              /\ nextRequest + Size <= setup.requests
              /\ op' = "close" /\ phase' = "send" /\ pos' = 0
              /\ batch' = <<>> /\ answers' = <<>> /\ outcome' = "none"
              /\ UNCHANGED <<state, nextRequest, frame, seen, fault>>
              /\ UNCHANGED <<wires, processes, children>>

StartForcedClose == /\ op = "none"
                    /\ state = "Poisoned"
                    /\ op' = "terminate" /\ phase' = "kill" /\ pos' = 0
                    /\ batch' = <<>> /\ answers' = <<>> /\ outcome' = "none"
                    /\ UNCHANGED <<state, nextRequest, frame, seen, fault>>
                    /\ UNCHANGED <<wires, processes, children>>

CloseSend == /\ op = "close" /\ phase = "send"
             /\ Writable(pos)
             /\ Post(pos, "close", nextRequest)
             /\ nextRequest' = nextRequest + 1
             /\ phase' = "sending"
             /\ UNCHANGED <<state, op, pos, fault, outcome, parentVars>>
             /\ UNCHANGED <<responses, processes, children>>

CloseSent == /\ op = "close" /\ phase = "sending"
             /\ Writable(pos) /\ Written(requests[pos])
             /\ phase' = "receive"
             /\ UNCHANGED <<state, nextRequest, op, pos, fault, outcome>>
             /\ UNCHANGED <<parentVars, wires, processes, children>>

CloseReceive == /\ op = "close" /\ phase = "receive"
                /\ TakeResponse(pos)
                /\ phase' = "check"
                /\ UNCHANGED <<state, nextRequest, op, pos, fault, outcome>>
                /\ UNCHANGED <<batch, seen, answers, requests>>
                /\ UNCHANGED <<processes, children>>

Acknowledged == ~Mismatch(nextRequest - 1) /\ frame.status = "ok"

\* The child, which has answered its close, is reading no more.
CloseInput == /\ op = "close" /\ phase = "check"
              /\ Acknowledged
              /\ phase' = "wait"
              /\ UNCHANGED <<state, nextRequest, op, pos, fault, outcome>>
              /\ UNCHANGED <<parentVars, wires, processes, children>>

CloseReap == /\ op = "close" /\ phase = "wait"
             /\ child[pos] = "dead"
             /\ child' = [child EXCEPT ![pos] = "reaped"]
             /\ IF pos + 1 < Size
                THEN /\ pos' = pos + 1 /\ phase' = "send"
                     /\ UNCHANGED <<state, op, outcome>>
                ELSE /\ state' = "Closed" /\ outcome' = "ok"
                     /\ op' = "none" /\ phase' = "idle" /\ pos' = 0
             /\ frame' = NoFrame
             /\ UNCHANGED <<nextRequest, batch, seen, answers, fault, unkilled>>
             /\ UNCHANGED <<wires, children>>

\* fail_close: keep the error and terminate every worker.
FailClose == /\ fault' = TRUE
             /\ state' = "Poisoned"
             /\ op' = "terminate" /\ phase' = "kill" /\ pos' = 0
             /\ frame' = NoFrame
             /\ UNCHANGED <<nextRequest, batch, seen, answers, outcome>>
             /\ UNCHANGED <<responses, unkilled, children>>

CloseFails == /\ op = "close"
              /\ Fails(pos)
              /\ UNCHANGED child
              /\ FailClose

\* A wrong or failing reply, an input that cannot be closed, a failing wait.
CloseRejects == /\ op = "close"
                /\ phase \in {"check", "wait"}
                /\ UNCHANGED <<requests, child>>
                /\ FailClose

\* The child does not exit in time: it is terminated before the pool is.
CloseWaitTimesOut == /\ op = "close" /\ phase = "wait"
                     /\ child[pos] = "running"
                     /\ \E c \in {"running", "dead", "reaped"} :
                          child' = [child EXCEPT ![pos] = c]
                     /\ UNCHANGED requests
                     /\ FailClose

NextToKill(failed) ==
  IF pos + 1 < Size
  THEN /\ pos' = pos + 1 /\ fault' = failed
       /\ UNCHANGED <<state, op, phase, outcome>>
  ELSE /\ state' = "Closed"
       /\ outcome' = IF failed THEN "error" ELSE "ok"
       /\ op' = "none" /\ phase' = "idle" /\ pos' = 0 /\ fault' = FALSE

\* Seeded fault: the first worker that cannot be terminated ends the loop.
TerminateGivesUp ==
  /\ op = "terminate"
  /\ unkilled' = unkilled \cup {pos}
  /\ state' = "Closed" /\ outcome' = "error"
  /\ op' = "none" /\ phase' = "idle" /\ pos' = 0 /\ fault' = FALSE
  /\ UNCHANGED <<nextRequest, child, parentVars, wires, children>>

Terminate == /\ op = "terminate"
             /\ child[pos] # "reaped"
             /\ child' = [child EXCEPT ![pos] = "reaped"]
             /\ NextToKill(fault)
             /\ UNCHANGED <<nextRequest, unkilled, parentVars, wires, children>>

\* The kill or the wait fails or times out, as the kill of a process that was
\* already reaped always does; the loop goes on.
TerminateFails == /\ op = "terminate"
                  /\ \E c \in {child[pos], "dead"} :
                       child' = [child EXCEPT ![pos] = IF @ = "reaped" THEN @ ELSE c]
                  /\ unkilled' = unkilled \cup {pos}
                  /\ NextToKill(TRUE)
                  /\ UNCHANGED <<nextRequest, parentVars, wires, children>>

-----------------------------------------------------------------------------
(* A child: serve_finite_subprocess, and its process.                      *)

ChildStep(e) == /\ child[e] = "running"
                /\ UNCHANGED <<state, nextRequest, op, phase, pos, fault, outcome>>
                /\ UNCHANGED <<parentVars, unkilled>>

WorkerRead(e) == /\ ChildStep(e)
                 /\ serving[e] = "read"
                 /\ requests[e] # <<>>
                 /\ job' = [job EXCEPT ![e] = Head(requests[e])]
                 /\ requests' = [requests EXCEPT ![e] = Tail(@)]
                 /\ serving' = [serving EXCEPT ![e] = "handle"]
                 /\ UNCHANGED <<responses, child, region>>

\* write_response; a failure, of whatever kind, and a close are the last.
Respond(e, status) ==
  /\ responses' = [responses EXCEPT ![e] =
                     Append(@, [serial |-> job[e].serial, status |-> status])]
  /\ serving' = [serving EXCEPT ![e] =
                   IF status = "failure" \/ job[e].kind = "close"
                   THEN "last" ELSE "write"]

\* The handler fails or panics, or its reply has not the command's kind.
WorkerFails(e) == /\ ChildStep(e)
                  /\ serving[e] = "handle"
                  /\ Respond(e, "failure")
                  /\ UNCHANGED <<requests, child, job, region>>

\* With a mapped region the handler leaves its observation there first.
WorkerHandles(e) == /\ ChildStep(e)
                    /\ serving[e] = "handle"
                    /\ IF setup.shared /\ job[e].kind = "call"
                       THEN /\ serving' = [serving EXCEPT ![e] = "payload"]
                            /\ UNCHANGED responses
                       ELSE Respond(e, "ok")
                    /\ UNCHANGED <<requests, child, job, region>>

WriteRegionPayload(e) ==
  /\ ChildStep(e)
  /\ serving[e] = "payload"
  /\ region' = [region EXCEPT ![e].payload = job[e].serial]
  /\ serving' = [serving EXCEPT ![e] = "header"]
  /\ UNCHANGED <<requests, responses, child, job>>

\* The checksum stands for the payload it was computed from.
WriteRegionHeader(e) ==
  /\ ChildStep(e)
  /\ serving[e] = "header"
  /\ region' = [region EXCEPT ![e].id = WireId(job[e].serial),
                              ![e].sum = job[e].serial]
  /\ serving' = [serving EXCEPT ![e] = "mapped"]
  /\ UNCHANGED <<requests, responses, child, job>>

WorkerMapped(e) == /\ ChildStep(e)
                   /\ serving[e] = "mapped"
                   /\ Respond(e, "ok")
                   /\ UNCHANGED <<requests, child, job, region>>

WorkerWritten(e) == /\ ChildStep(e)
                    /\ serving[e] \in {"write", "last"}
                    /\ Written(responses[e])
                    /\ serving' = [serving EXCEPT ![e] =
                                     IF @ = "last" THEN "exit" ELSE "read"]
                    /\ job' = [job EXCEPT ![e] = NoRequest]
                    /\ UNCHANGED <<requests, responses, child, region>>

\* A child may die at any moment, also after its loop has ended, and takes a
\* response it has not written whole with it.
ChildDies(e) ==
  /\ ChildStep(e)
  /\ child' = [child EXCEPT ![e] = "dead"]
  /\ responses' = IF serving[e] \in {"write", "last"} /\ ~Written(responses[e])
                  THEN [responses EXCEPT ![e] = SubSeq(@, 1, Len(@) - 1)]
                  ELSE responses
  /\ UNCHANGED <<requests, serving, job, region>>

-----------------------------------------------------------------------------
Build == SpawnWorker \/ SpawnFails

Call == \/ \E ids \in setup.batches : StartBatch(ids)
        \/ Refuse \/ StartClose \/ StartForcedClose \/ Drop

ParentStep == /\ UNCHANGED setup
              /\ \/ BatchSend \/ BatchSent \/ BatchAllSent \/ BatchReceive
                 \/ ReadRegionId \/ ReadRegionPayload \/ ReadRegionSum
                 \/ BatchStore \/ BatchFails \/ BatchRejects \/ BatchFinish
                 \/ CloseSend \/ CloseSent \/ CloseReceive \/ CloseInput
                 \/ CloseReap \/ CloseFails \/ CloseRejects \/ CloseWaitTimesOut
                 \/ Terminate \/ TerminateFails

WorkerStep(e) == \/ WorkerRead(e) \/ WorkerHandles(e)
                 \/ WorkerFails(e) \/ WriteRegionPayload(e)
                 \/ WriteRegionHeader(e) \/ WorkerMapped(e)
                 \/ WorkerWritten(e) \/ ChildDies(e)

\* Nobody has to call the pool again.
Rest == op = "none" /\ state # "building" /\ UNCHANGED vars

Next == \/ ParentStep
        \/ /\ UNCHANGED setup
           /\ \/ Build \/ Call \/ Rest
              \/ \E e \in Env : WorkerStep(e)

Spec == Init /\ [][Next]_vars

\* The parent's thread runs and its timers fire.  The children owe nothing.
FairSpec == Spec /\ WF_vars(ParentStep)

-----------------------------------------------------------------------------
(* Properties.                                                             *)

\* Every answer a caller gets is the one its own request caused, in the order
\* of the request, although ids wrap, children fail, answers come late, and
\* an observation travels beside its response.  A poisoned pool never answers.
AnswersMatchRequests ==
  /\ \A i \in DOMAIN answers :
       /\ answers[i].serial = batch[i].serial
       /\ answers[i].status = "ok" => answers[i].value = batch[i].serial
  /\ op = "none" /\ outcome = "ok" => Len(answers) = Len(batch)

\* An open pool between two calls owes and is owed nothing: no pipe holds a
\* frame and no child works, so that no late response can meet a later call.
OpenPoolIsQuiet ==
  state = "Open" /\ op = "none" =>
    \A e \in Env : /\ requests[e] = <<>>
                   /\ responses[e] = <<>>
                   /\ serving[e] \in {"read", "write"}

\* close leaves no child behind unless that child's own forced termination
\* failed: neither a first failure nor an earlier worker's ends the cleanup,
\* and after a close that succeeded every child has been waited for.
CloseReapsEveryChild ==
  state = "Closed" =>
    /\ \A e \in Env : child[e] = "reaped" \/ e \in unkilled
    /\ outcome = "ok" /\ op = "none" => \A e \in Env : child[e] = "reaped"

\* A read of the mapped region never overlaps a write of it: the control
\* channel serializes them (crates/shmem/src/lib.rs, map_file).
MappingSerialized ==
  phase \in {"read_id", "read_payload", "read_sum"} =>
    serving[At.env] \notin {"payload", "header"}

\* Every call returns, whatever the children do or fail to do.
CallReturns == op # "none" ~> op = "none"

=============================================================================
