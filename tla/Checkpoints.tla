----------------------------- MODULE Checkpoints -----------------------------
(***************************************************************************)
(* The checkpoint callback (rl_checkpoint_callback.rs) and its directory   *)
(* (rl_checkpoint_file.rs).  A save is several steps, each of which may    *)
(* fail or be the last of its process; only files and latest survive.  The *)
(* file name holds the iteration, so an iteration saved again rewrites its *)
(* file.                                                                   *)
(***************************************************************************)
EXTENDS EarlyStopping

CONSTANTS Iters,  \* the iterations files are named after
          Broken  \* the content of a file that was opened and not yet encoded

ASSUME CheckpointsAssumption == Iters \subseteq Nat /\ Broken # None

VARIABLES
  files,  \* by iteration: None, Broken or a graph
  latest, \* latest.pth: absent, a link to an iteration's file, or a file
  saver   \* the callback: its step, last_iter, last_time, and the graph to write

disk == <<files, latest>>
checkpointVars == <<disk, saver>>

Absent == [kind |-> "absent", iter |-> None, reaches |-> FALSE, content |-> None]
LinkTo(n, reaches) == [kind |-> "link", iter |-> n, reaches |-> reaches, content |-> None]
FileOf(graph) == [kind |-> "file", iter |-> None, reaches |-> FALSE, content |-> graph]

DiskInit == files = [n \in Iters |-> None] /\ latest = Absent
SaverNew == [step |-> "off", lastIter |-> None, lastTime |-> FALSE, graph |-> None]

Complete(content) == content # None /\ content # Broken
Existing(content) == content # None
\* What latest.pth leads to: a link to a relative path leads nowhere.
LatestContent == IF latest.kind = "link"
                 THEN IF latest.reaches THEN files[latest.iter] ELSE None
                 ELSE latest.content

\* on_hook: what makes a save due.  The clock is read only once a save was timed.
IterationDue(cfg, iter, elapsed) ==
  \/ cfg.every # None /\ cfg.every > 0 /\ (iter + 1) % cfg.every = 0
  \/ cfg.timed /\ (saver.lastTime => elapsed)
\* Seeded fault: the last iteration is taken for saved by any save.
FitEndDueOnce(cfg, iter) == cfg.onFitEnd /\ saver.lastIter = None
FitEndDue(cfg, iter) == cfg.onFitEnd /\ saver.lastIter # iter

BeginSave == saver' = [saver EXCEPT !.step = "note"]
To(step) == saver' = [saver EXCEPT !.step = step, !.graph = IF step \in {"done", "failed"}
                                                              THEN None ELSE @]

-----------------------------------------------------------------------------
(* save, in the order of the code.                                         *)

\* The iteration counts as saved from here on.
Note(iter, graph) ==
  /\ saver.step = "note"
  /\ saver' = [step |-> "create", lastIter |-> iter, lastTime |-> TRUE, graph |-> graph]
  /\ UNCHANGED disk

\* The directory or the name fails and nothing is noted, or the clock, or the
\* graph when everything is.
NoteFails(iter) ==
  /\ saver.step = "note"
  /\ saver' \in {[saver EXCEPT !.step = "failed"],
                 [saver EXCEPT !.step = "failed", !.lastIter = iter],
                 [saver EXCEPT !.step = "failed", !.lastIter = iter, !.lastTime = TRUE]}
  /\ UNCHANGED disk

\* File::create truncates what was there.
CreateFile == /\ saver.step = "create"
              /\ files' = [files EXCEPT ![saver.lastIter] = Broken]
              /\ To("encode")
              /\ UNCHANGED latest

\* Seeded fault: what was encoded is never flushed.
EncodeFileUnflushed(cfg) == /\ saver.step = "encode"
                            /\ To(IF cfg.latest = "" THEN "done" ELSE "remove")
                            /\ UNCHANGED disk
EncodeFile(cfg) == /\ saver.step = "encode"
                   /\ files' = [files EXCEPT ![saver.lastIter] = saver.graph]
                   /\ To(IF cfg.latest = "" THEN "done" ELSE "remove")
                   /\ UNCHANGED latest

\* Seeded fault: a link that leads nowhere is not seen.
PresentFollowed == Existing(LatestContent)
\* exists follows a link, is_link does not; remove_file takes the link itself.
Present == Existing(LatestContent) \/ latest.kind = "link"

\* Seeded fault: only a new link needs its place free.
RemoveForLink(cfg) == /\ saver.step = "remove"
                      /\ latest' = IF Present /\ cfg.latest = "link" THEN Absent ELSE latest
                      /\ To(IF cfg.latest \in {"link", "copy"} THEN cfg.latest ELSE "done")
                      /\ UNCHANGED files
RemoveLatest(cfg) == /\ saver.step = "remove"
                     /\ latest' = IF Present THEN Absent ELSE latest
                     /\ To(IF cfg.latest \in {"link", "copy"} THEN cfg.latest ELSE "done")
                     /\ UNCHANGED files

\* symlink does not replace what is there.
Free == latest.kind = "absent"
Link(cfg) == /\ saver.step = "link"
             /\ latest' = IF Free THEN LinkTo(saver.lastIter, cfg.absolute) ELSE latest
             /\ To(IF Free THEN "done" ELSE "failed")
             /\ UNCHANGED files

\* fs::copy opens its destination first, and writes through a link.
Through == latest.kind = "link" /\ latest.reaches
Put(content) == /\ files' = IF Through THEN [files EXCEPT ![latest.iter] = content] ELSE files
                /\ latest' = IF Through THEN latest ELSE FileOf(content)

OpenCopy == saver.step = "copy" /\ Put(Broken) /\ To("fill")
FillCopy == saver.step = "fill" /\ Put(saver.graph) /\ To("done")

\* A storage call fails; what was done before it stays.
StorageFails == /\ saver.step \in {"create", "encode", "remove", "link", "copy", "fill"}
                /\ To("failed")
                /\ UNCHANGED disk

\* The callback returns.
SaveReturned(result) == saver.step = result /\ saver' = [saver EXCEPT !.step = "off"]
=============================================================================
