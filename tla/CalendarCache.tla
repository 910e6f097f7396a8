--------------------------- MODULE CalendarCache ----------------------------
(***************************************************************************)
(* Calendar files and the cache that providers and storages of all threads *)
(* share: raw lines by file, parsed calendars by frequency and future flag *)
(* ("views"), one LRU budget for both (calendar_provider.rs), over a       *)
(* loader that falls back from the future calendar to the current one      *)
(* (local_calendar_loader.rs) and files that are rewritten in place        *)
(* (file_calendar_backend.rs, calendar_file.rs, calendar_write.rs).  A     *)
(* content is known by its file and the number of the change that wrote it.*)
(***************************************************************************)
EXTENDS Integers, FiniteSets, Sequences, SequencesExt

CONSTANTS Threads,
          Files,      \* calendar files
          Views,      \* pairs of a frequency and a future flag
          FileOf,     \* the file of each view
          Current,    \* the view without the future flag; a view itself if it has none
          Configs,    \* capacities, or None, and whether raw lines are cached
          Doubtful,   \* files that may be missing or malformed at first
          None,
          MaxCalls,   \* bound: calls
          MaxWrites,  \* bound: calls that write a file
          MaxFaults   \* bound: decoders, files and warnings that fail

Locks == {"parsed", "raw"}
Keys == ({"raw"} \X Files) \cup ({"parsed"} \X Views)
\* What a file held after some change; good if the text decoder takes it.
Contents == [file : Files, stamp : Nat, good : BOOLEAN]
ConfigTypes == [capacity : (Nat \ {0}) \cup {None}, cached : BOOLEAN]

ASSUME CalendarAssumption ==
  /\ FileOf \in [Views -> Files] /\ Current \in [Views -> Views]
  /\ \A v \in Views : /\ Current[Current[v]] = Current[v]
                      /\ Current[v] # v => FileOf[Current[v]] # FileOf[v]
  /\ Configs \subseteq ConfigTypes /\ Doubtful \subseteq Files
  /\ MaxCalls \in Nat /\ MaxWrites \in Nat /\ MaxFaults \in Nat
  /\ None \notin Contents \cup Files \cup Views \cup Threads \cup Nat

VARIABLES
  files,     \* the content of each file, or None
  clock,     \* changes of files so far
  locks,     \* the thread that holds parsed_loading and raw_loading, or None
  poisoned,  \* locks that a panic has poisoned
  recency,   \* keys, least recently used first
  entries,   \* what is cached for each key, or None
  calls,     \* what each thread is doing
  config,
  known,     \* the newest content of each file that was answered for each key,
             \* or that the file had when the cache was last cleared
  budget, writes, faults \* what the bounds leave

cache == <<recency, entries>>
mutexes == <<locks, poisoned>>
disk == <<files, clock>>
bounds == <<budget, writes, faults>>
vars == <<disk, mutexes, cache, calls, config, known, bounds>>

Writes == {"append", "overwrite", "edit"}
Operations == {"data", "view", "clear"} \cup Writes
NoCall == [pc |-> "idle", op |-> "clear", view |-> None, file |-> None, got |-> None,
           floor |-> None]

Init == /\ clock = 1
        /\ \E good \in [Files -> BOOLEAN], there \in [Files -> BOOLEAN] :
             /\ \A f \in Files \ Doubtful : good[f] /\ there[f]
             /\ files = [f \in Files |-> IF there[f] THEN [file |-> f, stamp |-> 1, good |-> good[f]]
                                         ELSE None]
        /\ locks = [l \in Locks |-> None] /\ poisoned = {}
        /\ recency = <<>> /\ entries = [k \in Keys |-> None]
        /\ calls = [t \in Threads |-> NoCall]
        /\ config \in Configs
        /\ known = [k \in Keys |-> [f \in Files |-> 0]]
        /\ budget = MaxCalls /\ writes = MaxWrites /\ faults = MaxFaults

Goto(t, place) == calls' = [calls EXCEPT ![t].pc = place]
At(t, place) == calls[t].pc = place
Fault == faults > 0 /\ faults' = faults - 1
Unlocked(t) == [l \in Locks |-> IF locks[l] = t THEN None ELSE locks[l]]

-----------------------------------------------------------------------------
(* The cache: insert_key, parsed, raw.  The entries mutex is held for one  *)
(* step only, and no callback runs under it.                               *)

\* The order of use without a key, which has at most one place in it.
Without(order, k) == IF Contains(order, k)
                     THEN RemoveAt(order, CHOOSE i \in 1 .. Len(order) : order[i] = k)
                     ELSE order
Touched(k) == IF Contains(recency, k) THEN Append(Without(recency, k), k) ELSE recency

\* Seeded fault: raw lines that fall out of the order stay.
EvictedParsed(k) == IF Head(recency)[1] = "raw" THEN entries
                    ELSE [entries EXCEPT ![Head(recency)] = None]
\* The key that falls out of the order takes its entry with it.
Evicted(k) == [entries EXCEPT ![Head(recency)] = None]

Insert(k, content) ==
  IF config.capacity # None /\ ~Contains(recency, k) /\ Len(recency) >= config.capacity
  THEN /\ recency' = Append(Tail(recency), k)
       /\ entries' = [Evicted(k) EXCEPT ![k] = content]
  ELSE /\ recency' = Append(Without(recency, k), k)
       /\ entries' = [entries EXCEPT ![k] = content]

Key(c) == IF c.view = None THEN <<"raw", c.file>> ELSE <<"parsed", c.view>>

\* A call that ends gives up what it holds; failures are not cached.
Returns(t) == /\ calls' = [calls EXCEPT ![t] = NoCall]
              /\ locks' = Unlocked(t)

-----------------------------------------------------------------------------
(* Calls.                                                                  *)

\* Seeded fault: raw loading is locked first.
ClearPathSwapped == <<"wait", "enter", "empty">>
\* Seeded fault: a parsed load in progress is not waited for.
ClearPathBare == <<"wait", "empty", "empty">>
\* CalendarCache::clear locks parsed loading, raw loading, then the entries.
ClearPath == <<"enter", "wait", "empty">>

First == [data |-> "check", view |-> "enter", clear |-> ClearPath[1],
          append |-> "open", overwrite |-> "open", edit |-> "load"]

\* FileCalendarBackend::data and FileCalendarStorage::data of a file,
\* CachedCalendarProvider::query of a view, clear, and the storage's writes.
Begin(t) ==
  /\ At(t, "idle") /\ budget > 0 /\ budget' = budget - 1
  /\ \E op \in Operations, f \in Files \cup {None}, v \in Views \cup {None} :
       /\ op = "clear" <=> f = None
       /\ IF op \in Writes THEN writes > 0 /\ writes' = writes - 1 ELSE UNCHANGED writes
       /\ op = "view" <=> v # None
       /\ op = "view" => f = FileOf[v]
       /\ LET c == [NoCall EXCEPT !.op = op, !.pc = First[op], !.view = v, !.file = f]
          IN calls' = [calls EXCEPT ![t] =
               [c EXCEPT !.floor = IF op \in {"data", "view"} THEN known[Key(c)] ELSE None]]
  /\ UNCHANGED <<disk, mutexes, cache, config, known, faults>>

\* The lock that a thread at this place waits for.
LockAt == [enter |-> "parsed", wait |-> "raw"]
\* Seeded fault: nobody waits for who loads raw lines.
TakesUnwaited(l) == l \notin poisoned /\ (l = "parsed" => locks[l] = None)
Takes(l) == l \notin poisoned /\ locks[l] = None

\* clear goes from lock to lock.
Lock(t) ==
  \E i \in 1 .. 2 :
    /\ calls[t].op = "clear" /\ At(t, ClearPath[i]) /\ ClearPath[i] \in DOMAIN LockAt
    /\ Takes(LockAt[ClearPath[i]])
    /\ locks' = [locks EXCEPT ![LockAt[ClearPath[i]]] = t]
    /\ Goto(t, ClearPath[i + 1])
    /\ UNCHANGED <<disk, poisoned, cache, config, known, bounds>>

\* cache_poisoned, raw_cache_poisoned: an error that no fallback follows.
LockPoisoned(t) ==
  \E place \in DOMAIN LockAt :
    /\ At(t, place)
    /\ locks[LockAt[place]] = None /\ LockAt[place] \in poisoned
    /\ Returns(t)
    /\ UNCHANGED <<disk, poisoned, cache, config, known, bounds>>

Empty(t) ==
  /\ At(t, "empty")
  /\ recency' = <<>> /\ entries' = [k \in Keys |-> None]
  /\ known' = [k \in Keys |-> [f \in Files |-> IF files[f] = None THEN 0 ELSE files[f].stamp]]
  /\ Returns(t)
  /\ UNCHANGED <<disk, poisoned, config, bounds>>

-----------------------------------------------------------------------------
(* Loading.                                                                *)

\* A parsed calendar that is cached is answered without the loader.  The lock
\* and the look under it are one step: nobody can tell a lock taken earlier.
Look(t) ==
  LET k == Key(calls[t]) IN
  /\ calls[t].op = "view" /\ At(t, "enter") /\ Takes("parsed")
  /\ recency' = Touched(k)
  /\ IF entries[k] # None
     THEN /\ calls' = [calls EXCEPT ![t].pc = "answer", ![t].got = entries[k]]
          /\ UNCHANGED locks
     ELSE /\ locks' = [locks EXCEPT !["parsed"] = t]
          /\ Goto(t, "check")
  /\ UNCHANGED <<disk, poisoned, entries, config, known, bounds>>

\* A Value error: the loader tries the current calendar once, after two warnings.
ValueError(t) ==
  LET c == calls[t] IN
  IF c.view # None /\ c.file = FileOf[c.view] /\ Current[c.view] # c.view
  THEN /\ calls' = [calls EXCEPT ![t].pc = "check", ![t].file = FileOf[Current[c.view]],
                                 ![t].got = None]
       /\ locks' = [locks EXCEPT !["raw"] = Unlocked(t)["raw"]]
  ELSE Returns(t)

\* check_calendar_path, also before a cached file is answered.
Check(t) ==
  /\ At(t, "check")
  /\ IF files[calls[t].file] = None THEN ValueError(t)
     ELSE Goto(t, IF config.cached THEN "wait" ELSE "read") /\ UNCHANGED locks
  /\ UNCHANGED <<disk, poisoned, cache, config, known, bounds>>

\* Raw lines that are cached are answered without the file.
Find(t) ==
  LET k == <<"raw", calls[t].file>> IN
  /\ calls[t].op # "clear" /\ At(t, "wait") /\ Takes("raw")
  /\ recency' = Touched(k)
  /\ IF entries[k] # None
     THEN /\ calls' = [calls EXCEPT ![t].pc = "convert", ![t].got = entries[k]]
          /\ UNCHANGED locks
     ELSE /\ locks' = [locks EXCEPT !["raw"] = t]
          /\ Goto(t, "read")
  /\ UNCHANGED <<disk, poisoned, entries, config, known, bounds>>

\* read_calendar_file: all bytes at once, then the decoder.
Read(t) ==
  LET content == files[calls[t].file] IN
  /\ At(t, "read")
  /\ IF content.good
     THEN /\ calls' = [calls EXCEPT ![t].pc = IF config.cached THEN "keep" ELSE "convert",
                                    ![t].got = content]
          /\ UNCHANGED locks
     ELSE ValueError(t)
  /\ UNCHANGED <<disk, poisoned, cache, config, known, bounds>>

Keep(t) ==
  /\ At(t, "keep")
  /\ Insert(<<"raw", calls[t].file>>, calls[t].got)
  /\ locks' = [locks EXCEPT !["raw"] = None]
  /\ Goto(t, "convert")
  /\ UNCHANGED <<disk, poisoned, config, known, bounds>>

Newer(a, b) == IF a < b THEN b ELSE a
Answered(t) == known' = [known EXCEPT ![Key(calls[t])][calls[t].got.file] =
                                         Newer(@, calls[t].got.stamp)]

\* A view is converted, first by values_from_raw and then by the loader, and kept.
Store(t) ==
  /\ At(t, "convert") /\ calls[t].view # None
  /\ Insert(Key(calls[t]), calls[t].got)
  /\ Answered(t)
  /\ Returns(t)
  /\ UNCHANGED <<disk, poisoned, config, bounds>>

\* A view that was found, or a file whose lines are converted by values_from_raw.
Answer(t) ==
  /\ At(t, "answer") \/ (At(t, "convert") /\ calls[t].view = None)
  /\ Answered(t)
  /\ calls' = [calls EXCEPT ![t] = NoCall]
  /\ UNCHANGED <<disk, mutexes, cache, config, bounds>>

-----------------------------------------------------------------------------
(* Writing.  No lock is taken and nothing cached is touched.               *)

Changed(f, good) == /\ clock' = clock + 1
                    /\ files' = [files EXCEPT ![f] = [file |-> f, stamp |-> clock + 1, good |-> good]]

\* read_calendar before an insertion, an assignment or a removal: it creates
\* what is missing.
Load(t) ==
  LET f == calls[t].file IN
  /\ At(t, "load")
  /\ IF files[f] = None THEN Changed(f, TRUE) /\ Goto(t, "open")
     ELSE /\ IF files[f].good THEN Goto(t, "open") ELSE calls' = [calls EXCEPT ![t] = NoCall]
          /\ UNCHANGED disk
  /\ UNCHANGED <<mutexes, cache, config, known, bounds>>

\* The file is opened, and truncated but for an append, before its values are known.
Open(t) ==
  LET f == calls[t].file IN
  /\ At(t, "open")
  /\ IF calls[t].op # "append" \/ files[f] = None THEN Changed(f, TRUE) ELSE UNCHANGED disk
  /\ Goto(t, "flush")
  /\ UNCHANGED <<mutexes, cache, config, known, bounds>>

\* An append to a malformed file leaves it malformed.
Accepted(t) == calls[t].op # "append" \/ files[calls[t].file].good

Flush(t) ==
  LET f == calls[t].file IN
  /\ At(t, "flush")
  /\ Changed(f, Accepted(t))
  /\ calls' = [calls EXCEPT ![t] = NoCall]
  /\ UNCHANGED <<mutexes, cache, config, known, bounds>>

-----------------------------------------------------------------------------
(* Failures.                                                               *)

\* A file, a decoder, a conversion or a warning fails with an error of the
\* other class, a conversion also with a Value error; a write leaves a prefix.
StepFails(t) ==
  /\ Fault
  /\ \/ /\ calls[t].pc \in {"check", "read", "convert", "load", "open"}
        /\ Returns(t)
        /\ UNCHANGED disk
     \/ At(t, "convert") /\ ValueError(t) /\ UNCHANGED disk
     \/ /\ At(t, "flush")
        /\ \E good \in {FALSE, Accepted(t)} : Changed(calls[t].file, good)
        /\ Returns(t)
  /\ UNCHANGED <<poisoned, cache, config, known, budget, writes>>

\* A decoder or a loader panics: the locks it holds are given up poisoned.
Panics(t) ==
  /\ Fault
  /\ calls[t].pc \in {"check", "read", "convert"}
  /\ poisoned' = poisoned \cup {l \in Locks : locks[l] = t}
  /\ Returns(t)
  /\ UNCHANGED <<disk, cache, config, known, budget, writes>>

Step(t) == \/ Lock(t) \/ LockPoisoned(t) \/ Empty(t)
           \/ Look(t) \/ Check(t) \/ Find(t) \/ Read(t) \/ Keep(t)
           \/ Store(t) \/ Answer(t)
           \/ Load(t) \/ Open(t) \/ Flush(t)
Next == \E t \in Threads : Begin(t) \/ Step(t) \/ StepFails(t) \/ Panics(t)

\* A thread inside a call goes on; with finitely many calls nobody who waits
\* for a lock is passed over for ever.
Spec == Init /\ [][Next]_vars /\ \A t \in Threads : WF_vars(Step(t))

-----------------------------------------------------------------------------
(* What is checked.                                                        *)

\* The order of use knows exactly the keys that are cached, each once, so that
\* raw lines and parsed calendars together stay within the one budget.
EntriesMatchRecency ==
  /\ ToSet(recency) = {k \in Keys : entries[k] # None}
  /\ Len(recency) = Cardinality(ToSet(recency))
  /\ config.capacity # None => Len(recency) <= config.capacity

\* Nobody who asks for a file or a view is answered with an older content of a
\* file than an answer to the same question that had been given before, or than
\* the file had when a clear that had returned emptied the cache: evictions,
\* reloads and loads that were under way never bring back what a file held.
AnswersNeverGoBack ==
  \A t \in Threads : calls[t].got # None =>
    calls[t].got.stamp >= calls[t].floor[calls[t].got.file]

\* The threads come to rest: every call returns, whichever loads, clears,
\* errors and panics it meets, and nobody waits for ever for a lock.
CallsComeToRest == []<>(\A t \in Threads : At(t, "idle"))
=============================================================================
