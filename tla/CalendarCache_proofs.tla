------------------------ MODULE CalendarCache_proofs ------------------------
(***************************************************************************)
(* Proofs about CalendarCache, for any threads, files, views, capacities   *)
(* and numbers of calls, writes and faults.                                *)
(***************************************************************************)
EXTENDS CalendarCache, FiniteSetTheorems, FunctionTheorems, SequenceTheorems, TLAPS

Places == {"idle", "enter", "check", "wait", "read", "keep", "convert", "answer",
           "empty", "load", "open", "flush"}
CallTypes == [pc : Places, op : Operations, view : Views \cup {None},
              file : Files \cup {None}, got : Contents \cup {None},
              floor : [Files -> Nat] \cup {None}]
Asks == {"data", "view"}

\* The places each operation goes to, and what it knows there.
CallOK(c) ==
  /\ c \in CallTypes
  /\ c.pc # "idle" /\ c.op # "clear" => c.file \in Files
  /\ c.op = "data" => c.view = None
  /\ c.op = "view" => c.view \in Views
  /\ c.op \in Asks => c.floor \in [Files -> Nat]
  /\ c.op \in Asks => c.pc \in {"enter", "check", "wait", "read", "keep", "convert", "answer"}
  /\ c.op = "data" => c.pc \notin {"enter", "answer"}
  /\ c.op = "clear" => c.pc \in {"idle", "enter", "wait", "empty"}
  /\ c.op \in Writes => c.pc \in {"load", "open", "flush"}
  /\ c.got # None <=> c.pc \in {"keep", "convert", "answer"}
  /\ c.pc \in {"keep", "convert"} => c.got.file = c.file

CallsInv ==
  /\ calls \in [Threads -> CallTypes]
  /\ config \in ConfigTypes
  /\ \A t \in Threads :
       /\ CallOK(calls[t])
       /\ calls[t].op \in Asks /\ calls[t].pc \in {"wait", "read"} => files[calls[t].file] # None
       /\ calls[t].op \in Asks /\ calls[t].pc \in {"wait", "keep"} => config.cached

\* The files and the cache hold contents; a file never goes back.
StoreInv ==
  /\ clock \in Nat
  /\ files \in [Files -> Contents \cup {None}]
  /\ \A f \in Files : files[f] # None => files[f].file = f /\ files[f].stamp <= clock
  /\ entries \in [Keys -> Contents \cup {None}]
  /\ \A f \in Files : entries[<<"raw", f>>] # None => entries[<<"raw", f>>].file = f
  /\ known \in [Keys -> [Files -> Nat]]

\* Who holds which lock.
HoldsParsed(c) == \/ c.op = "view" /\ c.pc \in {"check", "wait", "read", "keep", "convert"}
                  \/ c.op = "clear" /\ c.pc \in {"wait", "empty"}
HoldsRaw(c) == \/ c.op \in Asks /\ config.cached /\ c.pc \in {"read", "keep"}
               \/ c.op = "clear" /\ c.pc = "empty"
LockInv ==
  /\ locks \in [Locks -> Threads \cup {None}]
  /\ \A t \in Threads : /\ locks["parsed"] = t <=> HoldsParsed(calls[t])
                        /\ locks["raw"] = t <=> HoldsRaw(calls[t])

\* What a thread that asks for file f next may get is not older than n.
StampOf(f) == IF files[f] = None THEN 0 ELSE files[f].stamp
Bounded(n, f) ==
  /\ n <= StampOf(f)
  /\ entries[<<"raw", f>>] # None => n <= entries[<<"raw", f>>].stamp
  /\ \A t \in Threads : calls[t].pc = "keep" /\ calls[t].file = f => n <= calls[t].got.stamp

\* No raw lines are cached of a file that somebody reads in order to cache it.
RawInv == /\ ~config.cached => \A f \in Files : entries[<<"raw", f>>] = None
          /\ \A t \in Threads : calls[t].pc \in {"read", "keep"} =>
               entries[<<"raw", calls[t].file>>] = None

\* All that is answered, cached or on the way is no newer than what comes next.
BoundInv ==
  /\ \A t \in Threads : calls[t].got # None => Bounded(calls[t].got.stamp, calls[t].got.file)
  /\ \A k \in Keys : entries[k] # None => Bounded(entries[k].stamp, entries[k].file)
  /\ \A k \in Keys, f \in Files : Bounded(known[k][f], f)

\* What is cached for a key, and what will be, is no older than its answers.
CacheInv ==
  /\ \A k \in Keys : entries[k] # None => known[k][entries[k].file] <= entries[k].stamp
  /\ \A t \in Threads : LET c == calls[t] IN
       c.pc = "answer" /\ entries[Key(c)] # None /\ entries[Key(c)].file = c.got.file =>
         c.got.stamp <= entries[Key(c)].stamp
  /\ \A t \in Threads : LET c == calls[t] IN
       c.op = "view" /\ c.pc \in {"keep", "convert"} =>
         /\ known[Key(c)][c.got.file] <= c.got.stamp
         /\ \A u \in Threads :
              calls[u].pc = "answer" /\ calls[u].view = c.view /\ calls[u].got.file = c.got.file =>
                calls[u].got.stamp <= c.got.stamp

\* A call in progress owes what was known of its key when it began.
FloorInv ==
  \A t \in Threads : calls[t].op \in Asks =>
    /\ \A f \in Files : calls[t].floor[f] <= known[Key(calls[t])][f]
    /\ calls[t].got # None => calls[t].floor[calls[t].got.file] <= calls[t].got.stamp

IInv == CallsInv /\ StoreInv /\ LockInv /\ RawInv /\ BoundInv /\ CacheInv /\ FloorInv
Shape == CallsInv /\ StoreInv /\ LockInv /\ RawInv
Fresh == BoundInv /\ CacheInv /\ FloorInv

-----------------------------------------------------------------------------
(* What the parts of a step do.                                            *)

OthersKept(t) == \A u \in Threads \ {t} : calls'[u] = calls[u]
FilesStay == \A f \in Files : files[f] # None => files'[f] # None

\* "Nothing" is no content, name or thread.
LEMMA NoneIsApart ==
  /\ None \notin Contents /\ None \notin Files
  /\ None \notin Views /\ None \notin Threads /\ None \notin Nat
BY CalendarAssumption

\* A thread goes to another place.
LEMMA Goes ==
  ASSUME calls \in [Threads -> CallTypes], NEW t \in Threads, NEW p \in Places, Goto(t, p)
  PROVE /\ calls' \in [Threads -> CallTypes] /\ OthersKept(t)
        /\ calls'[t].pc = p /\ calls'[t].op = calls[t].op /\ calls'[t].view = calls[t].view
        /\ calls'[t].file = calls[t].file /\ calls'[t].got = calls[t].got
        /\ calls'[t].floor = calls[t].floor
<1> DEFINE c == [calls[t] EXCEPT !.pc = p]
<1>1. calls[t] \in CallTypes
  OBVIOUS
<1>2. c \in CallTypes
  BY <1>1 DEF CallTypes
<1>3. calls' = [calls EXCEPT ![t] = c]
  BY DEF Goto
<1>4. calls' \in [Threads -> CallTypes] /\ OthersKept(t) /\ calls'[t] = c
  BY <1>2, <1>3, Zenon DEF OthersKept
<1> QED BY <1>1, <1>4 DEF CallTypes

\* A thread gets a content.
LEMMA Gets ==
  ASSUME calls \in [Threads -> CallTypes], NEW t \in Threads, NEW p \in Places, NEW g \in Contents,
         calls' = [calls EXCEPT ![t].pc = p, ![t].got = g]
  PROVE /\ calls' \in [Threads -> CallTypes] /\ OthersKept(t)
        /\ calls'[t].pc = p /\ calls'[t].op = calls[t].op /\ calls'[t].view = calls[t].view
        /\ calls'[t].file = calls[t].file /\ calls'[t].got = g
        /\ calls'[t].floor = calls[t].floor
<1> DEFINE c == [calls[t] EXCEPT !.pc = p, !.got = g]
<1>1. calls[t] \in CallTypes
  OBVIOUS
<1>2. c \in CallTypes
  BY <1>1 DEF CallTypes
<1>3. calls' = [calls EXCEPT ![t] = c]
  OBVIOUS
<1>4. calls' \in [Threads -> CallTypes] /\ OthersKept(t) /\ calls'[t] = c
  BY <1>2, <1>3, Zenon DEF OthersKept
<1> QED BY <1>1, <1>4 DEF CallTypes

\* A thread looks for another file.
LEMMA Retries ==
  ASSUME calls \in [Threads -> CallTypes], NEW t \in Threads, NEW f \in Files,
         calls' = [calls EXCEPT ![t].pc = "check", ![t].file = f, ![t].got = None]
  PROVE /\ calls' \in [Threads -> CallTypes] /\ OthersKept(t)
        /\ calls'[t].pc = "check" /\ calls'[t].op = calls[t].op /\ calls'[t].view = calls[t].view
        /\ calls'[t].file = f /\ calls'[t].got = None
        /\ calls'[t].floor = calls[t].floor
<1> DEFINE c == [calls[t] EXCEPT !.pc = "check", !.file = f, !.got = None]
<1>1. calls[t] \in CallTypes
  OBVIOUS
<1>2. c \in CallTypes
  BY <1>1 DEF CallTypes, Places
<1>3. calls' = [calls EXCEPT ![t] = c]
  OBVIOUS
<1>4. calls' \in [Threads -> CallTypes] /\ OthersKept(t) /\ calls'[t] = c
  BY <1>2, <1>3, Zenon DEF OthersKept
<1> QED BY <1>1, <1>4 DEF CallTypes

\* No call is a proper call.
LEMMA NoCallIsOK == CallOK(NoCall)
BY NoneIsApart DEF CallOK, NoCall, CallTypes, Places, Operations, Writes, Asks

\* A thread's call ends.
LEMMA Ends ==
  ASSUME calls \in [Threads -> CallTypes], NEW t \in Threads,
         calls' = [calls EXCEPT ![t] = NoCall]
  PROVE calls' \in [Threads -> CallTypes] /\ OthersKept(t) /\ calls'[t] = NoCall
<1>1. NoCall \in CallTypes
  BY NoCallIsOK DEF CallOK
<1> QED BY <1>1, Zenon DEF OthersKept

\* An insertion adds one key and may cost others their entries.
LEMMA Inserts ==
  ASSUME entries \in [Keys -> Contents \cup {None}], NEW k \in Keys, NEW g \in Contents,
         Insert(k, g)
  PROVE /\ entries' \in [Keys -> Contents \cup {None}]
        /\ entries'[k] = g
        /\ \A j \in Keys \ {k} : entries'[j] = entries[j] \/ entries'[j] = None
<1>1. CASE entries' = [entries EXCEPT ![k] = g]
  BY <1>1
<1>2. CASE entries' = [Evicted(k) EXCEPT ![k] = g]
  <2> DEFINE h == Head(recency)
  <2>1. Evicted(k) = [entries EXCEPT ![h] = None]
    BY DEF Evicted
  <2> HIDE DEF h
  <2>2. /\ Evicted(k) \in [Keys -> Contents \cup {None}]
        /\ \A j \in Keys : Evicted(k)[j] = entries[j] \/ Evicted(k)[j] = None
    BY <2>1
  <2> QED BY <1>2, <2>2
<1> QED BY <1>1, <1>2 DEF Insert

\* The calls stay well formed when that of the acting thread does.
LEMMA CallsKept ==
  ASSUME CallsInv, NEW t \in Threads, OthersKept(t), calls' \in [Threads -> CallTypes],
         CallOK(calls'[t]), UNCHANGED config, FilesStay,
         calls'[t].op \in Asks /\ calls'[t].pc \in {"wait", "read"} =>
           files'[calls'[t].file] # None,
         calls'[t].op \in Asks /\ calls'[t].pc \in {"wait", "keep"} => config.cached
  PROVE CallsInv'
<1>1. ASSUME NEW u \in Threads \ {t}
      PROVE /\ CallOK(calls'[u])
            /\ calls'[u].op \in Asks /\ calls'[u].pc \in {"wait", "read"} =>
                 files'[calls'[u].file] # None
            /\ calls'[u].op \in Asks /\ calls'[u].pc \in {"wait", "keep"} => config'.cached
  <2>1. calls'[u] = calls[u] /\ CallOK(calls[u])
    BY DEF OthersKept, CallsInv
  <2>2. calls[u].op \in Asks /\ calls[u].pc \in {"wait", "read"} => calls[u].file \in Files
    BY <2>1 DEF CallOK, Asks, Operations, Writes, CallTypes
  <2> QED BY <2>1, <2>2 DEF CallsInv, FilesStay
<1> QED BY <1>1 DEF CallsInv, CallOK

\* Locks stay held as they should when those of the acting thread do.
LEMMA LocksKept ==
  ASSUME LockInv, NEW t \in Threads, OthersKept(t), UNCHANGED config,
         locks' \in [Locks -> Threads \cup {None}],
         \A l \in Locks : locks'[l] # locks[l] => locks[l] \in {t, None} /\ locks'[l] \in {t, None},
         locks'["parsed"] = t <=> HoldsParsed(calls'[t]),
         locks'["raw"] = t <=> HoldsRaw(calls'[t])
  PROVE LockInv'
<1>1. ASSUME NEW u \in Threads \ {t}
      PROVE /\ locks'["parsed"] = u <=> HoldsParsed(calls'[u])
            /\ locks'["raw"] = u <=> HoldsRaw(calls'[u])
  <2>1. calls'[u] = calls[u]
    BY DEF OthersKept
  <2>2. \A l \in Locks : locks'[l] = u <=> locks[l] = u
    BY NoneIsApart
  <2> QED BY <2>1, <2>2 DEF LockInv, HoldsParsed, HoldsRaw, Locks
<1> QED BY <1>1 DEF LockInv, HoldsParsed, HoldsRaw

\* A step that stores nothing and answers nothing keeps what is fresh.
Quiet(t) ==
  /\ UNCHANGED <<entries, known>>
  /\ OthersKept(t)
  /\ calls'[t].got = None /\ calls'[t].pc \notin {"keep", "convert", "answer"}
  /\ calls'[t].op \in Asks =>
       \A f \in Files : calls'[t].floor[f] <= known[Key(calls'[t])][f]
  /\ \A f \in Files : StampOf(f) <= StampOf(f)'

\* The key of a call that asks is one of the cache.
LEMMA KeyIsKey ==
  ASSUME NEW c, CallOK(c), c.op \in Asks, c.pc # "idle"
  PROVE Key(c) \in Keys
BY NoneIsApart DEF CallOK, Asks, Key, Keys

\* Stamps are numbers.
LEMMA StampsAreNumbers ==
  ASSUME StoreInv, NEW f \in Files
  PROVE StampOf(f) \in Nat
BY NoneIsApart DEF StampOf, StoreInv, Contents

\* A bound holds on while the file is not older, what is cached of it no less
\* new than the bound, and nobody brings anything older.
LEMMA BoundedStays ==
  ASSUME StoreInv, StoreInv', NEW n \in Nat, NEW f \in Files, Bounded(n, f),
         StampOf(f) <= StampOf(f)',
         entries'[<<"raw", f>>] # None => n <= entries'[<<"raw", f>>].stamp,
         \A u \in Threads : calls'[u].pc = "keep" /\ calls'[u].file = f => n <= calls'[u].got.stamp
  PROVE Bounded(n, f)'
<1>1. StampOf(f) \in Nat
  BY StampsAreNumbers
<1>2. StampOf(f)' \in Nat
  BY NoneIsApart DEF StampOf, StoreInv, Contents
<1>3. n <= StampOf(f)'
  BY <1>1, <1>2 DEF Bounded
<1> QED BY <1>3 DEF Bounded

\* What a thread has got is a content.
LEMMA GotIsContent ==
  ASSUME CallsInv, NEW t \in Threads, calls[t].got # None
  PROVE calls[t].got \in Contents /\ calls[t].got.stamp \in Nat /\ calls[t].got.file \in Files
<1>1. calls[t] \in CallTypes
  BY DEF CallsInv
<1>2. calls[t].got \in Contents
  BY <1>1 DEF CallTypes
<1> QED BY <1>2 DEF Contents

\* A quiet step keeps what is fresh.
LEMMA QuietKeepsFresh ==
  ASSUME Shape, Shape', Fresh, NEW t \in Threads, Quiet(t)
  PROVE Fresh'
<1>0. StoreInv /\ StoreInv' /\ CallsInv /\ CallsInv'
  BY DEF Shape
<1>1. ASSUME NEW n \in Nat, NEW f \in Files, Bounded(n, f)
      PROVE Bounded(n, f)'
  <2>1. \A u \in Threads : calls'[u].pc = "keep" /\ calls'[u].file = f => n <= calls'[u].got.stamp
    BY <1>1 DEF Bounded, Quiet, OthersKept
  <2>2. entries'[<<"raw", f>>] # None => n <= entries'[<<"raw", f>>].stamp
    BY <1>1 DEF Bounded, Quiet
  <2> QED BY <1>0, <1>1, <2>1, <2>2, BoundedStays DEF Quiet
<1>2. \A u \in Threads : calls'[u].got # None => calls'[u] = calls[u] /\ u # t
  BY DEF Quiet, OthersKept
<1>3. BoundInv'
  <2>1. ASSUME NEW u \in Threads, calls'[u].got # None
        PROVE Bounded(calls[u].got.stamp, calls[u].got.file)'
    <3>1. calls'[u] = calls[u]
      BY <1>2, <2>1
    <3>2. calls[u].got.stamp \in Nat /\ calls[u].got.file \in Files
      BY <1>0, <2>1, <3>1, GotIsContent
    <3>3. Bounded(calls[u].got.stamp, calls[u].got.file)
      BY <2>1, <3>1 DEF Fresh, BoundInv
    <3>4. \A n \in Nat, f \in Files : Bounded(n, f) => Bounded(n, f)'
      BY <1>1
    <3> QED
      BY <3>1, <3>2, <3>3, <3>4 DEF Bounded
  <2>2. ASSUME NEW k \in Keys, entries[k] # None
        PROVE Bounded(entries[k].stamp, entries[k].file)'
    <3>1. entries[k].stamp \in Nat /\ entries[k].file \in Files
      BY <1>0, <2>2 DEF StoreInv, Contents
    <3>2. Bounded(entries[k].stamp, entries[k].file)
      BY <2>2 DEF Fresh, BoundInv
    <3>3. entries'[k] = entries[k]
      BY DEF Quiet
    <3>4. \A n \in Nat, f \in Files : Bounded(n, f) => Bounded(n, f)'
      BY <1>1
    <3> QED BY <3>1, <3>2, <3>3, <3>4 DEF Bounded
  <2>3. ASSUME NEW k \in Keys, NEW f \in Files
        PROVE Bounded(known[k][f], f)'
    <3>1. known[k][f] \in Nat
      BY <1>0 DEF StoreInv
    <3>2. Bounded(known[k][f], f)
      BY DEF Fresh, BoundInv
    <3>3. known' = known
      BY DEF Quiet
    <3>4. \A n \in Nat : Bounded(n, f) => Bounded(n, f)'
      BY <1>1
    <3> QED BY <3>1, <3>2, <3>3, <3>4 DEF Bounded
  <2>4. entries' = entries
    BY DEF Quiet
  <2> QED BY <2>1, <2>2, <2>3, <2>4, <1>2 DEF BoundInv
<1>4. CacheInv'
  <2>1. ASSUME NEW u \in Threads, calls'[u].pc \in {"answer", "keep", "convert"}
        PROVE calls'[u] = calls[u]
    BY <2>1 DEF Quiet, OthersKept
  <2>2. CacheInv /\ entries' = entries /\ known' = known
    BY DEF Fresh, Quiet
  <2>3. \A k \in Keys : entries'[k] # None => known'[k][entries'[k].file] <= entries'[k].stamp
    BY <2>2 DEF CacheInv
  <2>4. ASSUME NEW u \in Threads, calls'[u].pc = "answer", entries'[Key(calls'[u])] # None,
               entries'[Key(calls'[u])].file = calls'[u].got.file
        PROVE  calls'[u].got.stamp <= entries'[Key(calls'[u])].stamp
    BY <2>1, <2>2, <2>4 DEF CacheInv
  <2>5. ASSUME NEW u \in Threads, calls'[u].op = "view", calls'[u].pc \in {"keep", "convert"}
        PROVE  /\ known'[Key(calls'[u])][calls'[u].got.file] <= calls'[u].got.stamp
               /\ \A w \in Threads :
                    calls'[w].pc = "answer" /\ calls'[w].view = calls'[u].view
                      /\ calls'[w].got.file = calls'[u].got.file =>
                        calls'[w].got.stamp <= calls'[u].got.stamp
    BY <2>1, <2>2, <2>5 DEF CacheInv
  <2> QED BY <2>3, <2>4, <2>5 DEF CacheInv, Key
<1>5. FloorInv'
  <2>1. \A u \in Threads \ {t} : calls'[u] = calls[u]
    BY DEF Quiet, OthersKept
  <2> QED BY <2>1 DEF Fresh, FloorInv, Quiet, Key
<1> QED BY <1>3, <1>4, <1>5 DEF Fresh

\* No file goes back, and what is stored stays well formed.
DiskOK == /\ StoreInv' /\ FilesStay
          /\ \A f \in Files : StampOf(f) <= StampOf(f)'

\* A disk that is left alone stays in order.
LEMMA DiskUnchanged ==
  ASSUME StoreInv, UNCHANGED <<disk, entries, known>>
  PROVE DiskOK
<1>1. StoreInv' /\ FilesStay
  BY DEF StoreInv, FilesStay, disk
<1>2. ASSUME NEW f \in Files PROVE StampOf(f) <= StampOf(f)'
  <2>1. StampOf(f) \in Nat
    BY StampsAreNumbers
  <2>2. StampOf(f)' = StampOf(f)
    BY DEF StampOf, disk
  <2> QED BY <2>1, <2>2
<1> QED BY <1>1, <1>2 DEF DiskOK

\* A change of a file leaves the disk in order, and the file newer.
LEMMA DiskChanged ==
  ASSUME StoreInv, NEW f \in Files, NEW good \in BOOLEAN, Changed(f, good), UNCHANGED <<entries, known>>
  PROVE DiskOK
<1> DEFINE g == [file |-> f, stamp |-> clock + 1, good |-> good]
<1>1. g \in Contents /\ g.file = f /\ g.stamp = clock + 1
  BY DEF Contents, StoreInv
<1>2. files' = [files EXCEPT ![f] = g] /\ clock' = clock + 1 /\ clock \in Nat
  BY DEF Changed, StoreInv
<1> HIDE DEF g
<1>3. g # None
  BY <1>1, NoneIsApart
<1>4. files' \in [Files -> Contents \cup {None}] /\ files'[f] = g
      /\ \A h \in Files \ {f} : files'[h] = files[h]
  BY <1>1, <1>2 DEF StoreInv
<1>5. FilesStay
  BY <1>3, <1>4 DEF FilesStay
<1>6. ASSUME NEW h \in Files
      PROVE /\ files'[h] # None => files'[h].file = h /\ files'[h].stamp <= clock'
            /\ StampOf(h) <= StampOf(h)'
  <2>1. /\ StampOf(h) \in Nat /\ StampOf(h) <= clock
        /\ files[h] # None => files[h].file = h /\ files[h].stamp \in Nat /\ files[h].stamp <= clock
    BY NoneIsApart DEF StampOf, StoreInv, Contents
  <2>2. CASE h = f
    BY <1>1, <1>2, <1>3, <1>4, <2>1, <2>2 DEF StampOf
  <2>3. CASE h # f
    BY <1>2, <1>4, <2>1, <2>3 DEF StampOf
  <2> QED BY <2>2, <2>3
<1>7. StoreInv'
  BY <1>2, <1>4, <1>6 DEF StoreInv
<1> QED BY <1>5, <1>6, <1>7 DEF DiskOK

\* Only reading without the lock, or into a cache that has them, would hurt.
LEMMA RawKept ==
  ASSUME RawInv, CallsInv, NEW t \in Threads, OthersKept(t), UNCHANGED config,
         \A f \in Files : entries'[<<"raw", f>>] = entries[<<"raw", f>>] \/ entries'[<<"raw", f>>] = None,
         calls'[t].pc \notin {"read", "keep"}
  PROVE RawInv'
<1>1. ASSUME NEW u \in Threads, calls'[u].pc \in {"read", "keep"}
      PROVE entries'[<<"raw", calls'[u].file>>] = None
  <2>1. calls'[u] = calls[u] /\ calls[u].pc \in {"read", "keep"}
    BY <1>1 DEF OthersKept
  <2>2. calls[u].file \in Files
    BY <2>1 DEF CallsInv, CallOK, Writes, Operations, Asks, CallTypes
  <2> QED BY <2>1, <2>2 DEF RawInv
<1> QED BY <1>1 DEF RawInv

\* A call that ends leaves the locks and the other calls in order.
LEMMA ReturnsInShape ==
  ASSUME Shape, NEW t \in Threads, Returns(t), UNCHANGED config, StoreInv', FilesStay,
         \A f \in Files : entries'[<<"raw", f>>] = entries[<<"raw", f>>] \/ entries'[<<"raw", f>>] = None
  PROVE Shape' /\ OthersKept(t) /\ calls'[t] = NoCall
<1>0. CallsInv /\ LockInv /\ RawInv
  BY DEF Shape
<1>1. calls' \in [Threads -> CallTypes] /\ OthersKept(t) /\ calls'[t] = NoCall
  BY <1>0, Ends DEF Returns, CallsInv
<1>2. CallsInv'
  <2>1. NoCall.pc = "idle"
    BY DEF NoCall
  <2> QED BY <1>0, <1>1, <2>1, CallsKept, NoCallIsOK
<1>3. LockInv'
  <2>1. locks' = [l \in Locks |-> IF locks[l] = t THEN None ELSE locks[l]]
    BY DEF Returns, Unlocked
  <2>2. /\ locks' \in [Locks -> Threads \cup {None}]
        /\ \A l \in Locks : /\ locks'[l] # t
                            /\ locks'[l] # locks[l] => locks[l] \in {t, None} /\ locks'[l] \in {t, None}
    BY <1>0, <2>1, NoneIsApart DEF LockInv
  <2>3. ~HoldsParsed(NoCall) /\ ~HoldsRaw(NoCall)
    BY DEF HoldsParsed, HoldsRaw, NoCall, Asks
  <2>4. locks'["parsed"] # t /\ locks'["raw"] # t
    BY <2>2 DEF Locks
  <2> QED BY <1>0, <1>1, <2>2, <2>3, <2>4, LocksKept
<1>4. RawInv'
  BY <1>0, <1>1, RawKept DEF NoCall
<1> QED BY <1>1, <1>2, <1>3, <1>4 DEF Shape

\* A call ends in silence.
LEMMA ReturnsQuietly ==
  ASSUME Shape, Fresh, NEW t \in Threads, Returns(t), UNCHANGED <<entries, known, config>>, DiskOK
  PROVE Shape' /\ Fresh'
<1>1. Shape' /\ OthersKept(t) /\ calls'[t] = NoCall
  BY ReturnsInShape DEF DiskOK
<1>2. Quiet(t)
  BY <1>1 DEF Quiet, DiskOK, NoCall, Asks
<1> QED BY <1>1, <1>2, QuietKeepsFresh

\* A call that holds nothing ends without giving anything up.
LEMMA EndsIsReturns ==
  ASSUME LockInv, NEW t \in Threads, ~HoldsParsed(calls[t]), ~HoldsRaw(calls[t]),
         calls' = [calls EXCEPT ![t] = NoCall], UNCHANGED locks
  PROVE Returns(t)
<1>1. \A l \in Locks : locks[l] # t
  BY DEF LockInv, Locks
<1>2. Unlocked(t) = locks
  BY <1>1 DEF Unlocked, LockInv
<1> QED BY <1>2 DEF Returns

\* A thread goes on without getting or bringing anything.
LEMMA GoesQuietly ==
  ASSUME Shape, Fresh, NEW t \in Threads, NEW p \in Places, Goto(t, p),
         p \notin {"keep", "convert", "answer"}, calls[t].got = None,
         UNCHANGED <<entries, known, config>>, DiskOK, CallOK(calls'[t]),
         p = "read" => entries[<<"raw", calls[t].file>>] = None,
         calls[t].op \in Asks /\ p \in {"wait", "read"} => files[calls[t].file] # None,
         calls[t].op \in Asks /\ p = "wait" => config.cached,
         locks' \in [Locks -> Threads \cup {None}],
         \A l \in Locks : locks'[l] # locks[l] => locks[l] \in {t, None} /\ locks'[l] \in {t, None},
         locks'["parsed"] = t <=> HoldsParsed(calls'[t]),
         locks'["raw"] = t <=> HoldsRaw(calls'[t])
  PROVE Shape' /\ Fresh'
<1>0. CallsInv /\ LockInv /\ RawInv /\ StoreInv'
  BY DEF Shape, DiskOK
<1>1. /\ calls' \in [Threads -> CallTypes] /\ OthersKept(t)
      /\ calls'[t].pc = p /\ calls'[t].op = calls[t].op /\ calls'[t].view = calls[t].view
      /\ calls'[t].file = calls[t].file /\ calls'[t].got = None
      /\ calls'[t].floor = calls[t].floor
  BY <1>0, Goes DEF CallsInv
<1>2. CallsInv'
  <2>1. calls[t].op \in Asks /\ p \in {"wait", "read"} => calls[t].file \in Files
    BY <1>1 DEF CallOK, CallTypes, Operations, Writes, Asks
  <2> QED BY <1>0, <1>1, <2>1, CallsKept DEF DiskOK, FilesStay
<1>3. LockInv'
  BY <1>0, <1>1, LocksKept
<1>4. RawInv'
  <2>1. ASSUME NEW u \in Threads, calls'[u].pc \in {"read", "keep"}
        PROVE entries[<<"raw", calls'[u].file>>] = None
    <3>1. CASE u = t
      BY <1>1, <2>1, <3>1
    <3>2. CASE u # t
      BY <1>0, <1>1, <2>1, <3>2 DEF OthersKept, RawInv
    <3> QED BY <3>1, <3>2
  <2> QED BY <1>0, <2>1 DEF RawInv
<1>5. Shape'
  BY <1>0, <1>2, <1>3, <1>4 DEF Shape
<1>6. Quiet(t)
  <2>1. calls[t].op \in Asks =>
          \A f \in Files : calls[t].floor[f] <= known[Key(calls[t])][f]
    BY DEF Fresh, FloorInv
  <2>2. Key(calls'[t]) = Key(calls[t])
    BY <1>1 DEF Key
  <2> QED BY <1>1, <2>1, <2>2 DEF Quiet, DiskOK
<1> QED BY <1>5, <1>6, QuietKeepsFresh

\* A Value error ends the call or leads to the current calendar.
LEMMA ErrorsQuietly ==
  ASSUME Shape, Fresh, NEW t \in Threads, calls[t].pc \in {"check", "read", "convert"},
         ValueError(t), UNCHANGED <<entries, known, config>>, DiskOK
  PROVE Shape' /\ Fresh'
<1>0. CallsInv /\ LockInv /\ RawInv /\ StoreInv' /\ CallOK(calls[t])
  BY DEF Shape, DiskOK, CallsInv
<1>1. CASE Returns(t)
  BY <1>1, ReturnsQuietly
<1>2. CASE ~Returns(t)
  <2> DEFINE g == FileOf[Current[calls[t].view]]
  <2>1. /\ calls[t].view # None
        /\ calls' = [calls EXCEPT ![t].pc = "check", ![t].file = g, ![t].got = None]
        /\ locks' = [locks EXCEPT !["raw"] = Unlocked(t)["raw"]]
    BY <1>2 DEF ValueError
  <2>2. calls[t].op = "view" /\ calls[t].view \in Views /\ calls[t] \in CallTypes
    BY <1>0, <2>1 DEF CallOK, CallTypes, Operations, Writes, Asks
  <2>3. g \in Files
    BY <2>2, CalendarAssumption
  <2> HIDE DEF g
  <2>4. /\ calls' \in [Threads -> CallTypes] /\ OthersKept(t)
        /\ calls'[t].pc = "check" /\ calls'[t].op = "view" /\ calls'[t].view = calls[t].view
        /\ calls'[t].file = g /\ calls'[t].got = None
        /\ calls'[t].floor = calls[t].floor
    BY <1>0, <2>1, <2>2, <2>3, Retries DEF CallsInv
  <2>5. CallOK(calls'[t])
    BY <1>0, <2>2, <2>3, <2>4, NoneIsApart DEF CallOK, Asks, Writes
  <2>6. CallsInv'
    BY <1>0, <2>4, <2>5, CallsKept DEF DiskOK
  <2>7. LockInv'
    <3>1. Unlocked(t)["raw"] = IF locks["raw"] = t THEN None ELSE locks["raw"]
      BY DEF Unlocked, Locks
    <3>2. /\ locks' \in [Locks -> Threads \cup {None}]
          /\ locks'["parsed"] = locks["parsed"] /\ locks'["raw"] # t
          /\ locks'["raw"] # locks["raw"] => locks["raw"] = t /\ locks'["raw"] = None
      BY <1>0, <2>1, <3>1, NoneIsApart DEF LockInv, Locks
    <3>3. locks["parsed"] = t
      BY <1>0, <2>2 DEF LockInv, HoldsParsed
    <3>4. HoldsParsed(calls'[t]) /\ ~HoldsRaw(calls'[t])
      BY <2>4 DEF HoldsParsed, HoldsRaw
    <3>5. \A l \in Locks : locks'[l] # locks[l] => locks[l] \in {t, None} /\ locks'[l] \in {t, None}
      BY <3>2 DEF Locks
    <3> QED BY <1>0, <2>4, <3>2, <3>3, <3>4, <3>5, LocksKept
  <2>8. RawInv'
    BY <1>0, <2>4, RawKept
  <2>9. Quiet(t)
    <3>1. \A f \in Files : calls[t].floor[f] <= known[Key(calls[t])][f]
      BY <2>2 DEF Fresh, FloorInv, Asks
    <3>2. Key(calls'[t]) = Key(calls[t])
      BY <2>1, <2>4 DEF Key
    <3> QED BY <2>4, <3>1, <3>2 DEF Quiet, DiskOK
  <2>10. Shape'
    BY <1>0, <2>6, <2>7, <2>8 DEF Shape
  <2> QED BY <2>9, <2>10, QuietKeepsFresh
<1> QED BY <1>1, <1>2

-----------------------------------------------------------------------------
(* The steps that bring nothing.                                           *)

\* The invariant holds at first.
LEMMA StartsRight == Init => Shape /\ Fresh
<1> SUFFICES ASSUME Init PROVE Shape /\ Fresh
  OBVIOUS
<1>1. calls = [t \in Threads |-> NoCall] /\ NoCall \in CallTypes
  BY NoCallIsOK DEF Init, CallOK
<1>2. NoCall.pc = "idle" /\ NoCall.op = "clear" /\ NoCall.got = None
  BY DEF NoCall
<1>3. CallsInv
  BY <1>1, <1>2, NoCallIsOK, CalendarAssumption DEF CallsInv, Init, Asks
<1>4. StoreInv
  <2>1. clock = 1
    BY DEF Init
  <2>2. ASSUME NEW f \in Files
        PROVE /\ files[f] \in Contents \cup {None}
              /\ files[f] # None => files[f].file = f /\ files[f].stamp = 1
    BY DEF Init, Contents
  <2>3. files \in [Files -> Contents \cup {None}]
    <3>1. PICK good \in [Files -> BOOLEAN], there \in [Files -> BOOLEAN] :
            files = [f \in Files |-> IF there[f] THEN [file |-> f, stamp |-> 1, good |-> good[f]]
                                     ELSE None]
      BY DEF Init
    <3> QED BY <2>2, <3>1
  <2>4. entries \in [Keys -> Contents \cup {None}] /\ \A k \in Keys : entries[k] = None
    BY DEF Init
  <2>5. known \in [Keys -> [Files -> Nat]]
    BY DEF Init
  <2> QED BY <2>1, <2>2, <2>3, <2>4, <2>5 DEF StoreInv, Keys
<1>5. LockInv
  BY <1>1, <1>2, NoneIsApart DEF LockInv, Init, Locks, HoldsParsed, HoldsRaw, Asks
<1>6. \A k \in Keys : entries[k] = None
  BY DEF Init
<1>7. RawInv
  BY <1>1, <1>2, <1>6 DEF RawInv, Keys
<1>8. BoundInv
  <2>1. ASSUME NEW k \in Keys, NEW f \in Files PROVE Bounded(known[k][f], f)
    <3>1. known[k][f] = 0
      BY DEF Init
    <3>2. 0 <= StampOf(f)
      BY <1>4, StampsAreNumbers
    <3> QED BY <1>1, <1>2, <1>6, <3>1, <3>2 DEF Bounded, Keys
  <2> QED BY <1>1, <1>2, <1>6, <2>1 DEF BoundInv
<1>9. CacheInv /\ FloorInv
  BY <1>1, <1>2, <1>6 DEF CacheInv, FloorInv, Asks
<1> QED BY <1>3, <1>4, <1>5, <1>7, <1>8, <1>9 DEF Shape, Fresh

\* A call that begins owes what is known of its key then.
LEMMA BeginKeeps ==
  ASSUME Shape, Fresh, NEW t \in Threads, Begin(t)
  PROVE Shape' /\ Fresh'
<1>0. /\ CallsInv /\ LockInv /\ RawInv /\ StoreInv /\ CallOK(calls[t]) /\ calls[t].pc = "idle"
      /\ UNCHANGED <<disk, mutexes, cache, config, known>>
  BY DEF Shape, CallsInv, Begin, At
<1>1. UNCHANGED <<entries, known, config, locks>> /\ DiskOK
  BY <1>0, DiskUnchanged DEF cache, mutexes
<1>2. PICK op \in Operations, f \in Files \cup {None}, v \in Views \cup {None} :
        /\ op = "clear" <=> f = None
        /\ op = "view" <=> v # None
        /\ op = "view" => f = FileOf[v]
        /\ LET c == [NoCall EXCEPT !.op = op, !.pc = First[op], !.view = v, !.file = f]
           IN calls' = [calls EXCEPT ![t] =
                [c EXCEPT !.floor = IF op \in {"data", "view"} THEN known[Key(c)] ELSE None]]
  BY DEF Begin
<1> DEFINE c == [NoCall EXCEPT !.op = op, !.pc = First[op], !.view = v, !.file = f]
           d == [c EXCEPT !.floor = IF op \in Asks THEN known[Key(c)] ELSE None]
<1>3. calls' = [calls EXCEPT ![t] = d]
  BY <1>2 DEF Asks
<1>4. First[op] = IF op = "data" THEN "check" ELSE IF op = "view" THEN "enter"
                  ELSE IF op = "clear" THEN "enter" ELSE IF op = "edit" THEN "load" ELSE "open"
  BY DEF First, Operations, Writes, ClearPath
<1>5. /\ c.pc = First[op] /\ c.op = op /\ c.view = v /\ c.file = f /\ c.got = None
      /\ d.pc = First[op] /\ d.op = op /\ d.view = v /\ d.file = f /\ d.got = None
      /\ d.floor = IF op \in Asks THEN known[Key(c)] ELSE None
  BY DEF NoCall
<1>6. Key(d) = Key(c)
  BY <1>5 DEF Key
<1>7. op \in Asks => Key(c) \in Keys
  BY <1>2, <1>5, NoneIsApart DEF Key, Keys, Asks
<1>8. d.floor \in [Files -> Nat] \cup {None} /\ (op \in Asks => d.floor \in [Files -> Nat])
  BY <1>0, <1>5, <1>7 DEF StoreInv
<1>9. d \in CallTypes
  <2>1. First[op] \in Places
    BY <1>4 DEF Places
  <2>2. NoCall \in CallTypes
    BY NoCallIsOK DEF CallOK
  <2>3. c \in CallTypes
    BY <2>1, <2>2 DEF CallTypes
  <2> HIDE DEF c
  <2>4. d.floor \in [Files -> Nat] \cup {None} /\ d = [c EXCEPT !.floor = d.floor]
    BY <1>5, <1>8, <2>3 DEF CallTypes
  <2> QED BY <2>3, <2>4 DEF CallTypes
<1> HIDE DEF c, d
<1>10. CallOK(d)
  BY <1>2, <1>4, <1>5, <1>8, <1>9 DEF CallOK, Asks, Operations, Writes
<1>11. calls' \in [Threads -> CallTypes] /\ OthersKept(t) /\ calls'[t] = d
  BY <1>0, <1>3, <1>9, Zenon DEF CallsInv, OthersKept
<1>12. d.pc \notin {"read", "wait", "keep", "convert", "answer"}
  BY <1>4, <1>5
<1>13. CallsInv'
  BY <1>0, <1>1, <1>10, <1>11, <1>12, CallsKept DEF DiskOK
<1>14. LockInv'
  <2>1. ~HoldsParsed(calls[t]) /\ ~HoldsRaw(calls[t])
    BY <1>0 DEF HoldsParsed, HoldsRaw
  <2>2. ~HoldsParsed(d) /\ ~HoldsRaw(d)
    BY <1>4, <1>5 DEF HoldsParsed, HoldsRaw, Asks
  <2>3. locks' \in [Locks -> Threads \cup {None}] /\ locks'["parsed"] # t /\ locks'["raw"] # t
        /\ locks' = locks
    BY <1>0, <1>1, <2>1 DEF LockInv
  <2> QED BY <1>0, <1>1, <1>11, <2>2, <2>3, LocksKept
<1>15. RawInv'
  BY <1>0, <1>1, <1>11, <1>12, RawKept
<1>16. Quiet(t)
  <2>1. op \in Asks => \A g \in Files : d.floor[g] <= known[Key(d)][g]
    BY <1>0, <1>5, <1>6, <1>7 DEF StoreInv
  <2> QED BY <1>1, <1>5, <1>11, <1>12, <2>1 DEF Quiet, DiskOK
<1>17. Shape'
  BY <1>1, <1>13, <1>14, <1>15 DEF Shape, DiskOK
<1> QED BY <1>16, <1>17, QuietKeepsFresh

\* A clear takes one lock after the other.
LEMMA LockKeeps ==
  ASSUME Shape, Fresh, NEW t \in Threads, Lock(t)
  PROVE Shape' /\ Fresh'
<1>0. /\ CallsInv /\ LockInv /\ RawInv /\ StoreInv /\ CallOK(calls[t])
      /\ UNCHANGED <<disk, poisoned, cache, config, known>> /\ calls[t].op = "clear"
  BY DEF Shape, CallsInv, Lock
<1>1. UNCHANGED <<entries, known, config>> /\ DiskOK
  BY <1>0, DiskUnchanged DEF cache
<1>2. PICK i \in 1 .. 2 :
        /\ At(t, ClearPath[i]) /\ Takes(LockAt[ClearPath[i]])
        /\ locks' = [locks EXCEPT ![LockAt[ClearPath[i]]] = t]
        /\ Goto(t, ClearPath[i + 1])
  BY DEF Lock
<1>3. ClearPath[1] = "enter" /\ ClearPath[2] = "wait" /\ ClearPath[3] = "empty"
  BY DEF ClearPath
<1>4. LockAt["enter"] = "parsed" /\ LockAt["wait"] = "raw"
  BY DEF LockAt
<1>5. CASE i = 1
  <2>1. /\ calls[t].pc = "enter" /\ locks["parsed"] = None
        /\ locks' = [locks EXCEPT !["parsed"] = t] /\ Goto(t, "wait")
    BY <1>2, <1>5, <1>3, <1>4 DEF Takes, At
  <2>2. /\ calls'[t].pc = "wait" /\ calls'[t].op = "clear" /\ calls' \in [Threads -> CallTypes]
        /\ calls'[t].got = calls[t].got
    BY <1>0, <2>1, Goes DEF CallsInv, Places
  <2>3. CallOK(calls'[t]) /\ calls[t].got = None
    BY <1>0, <2>1, <2>2 DEF CallOK, Asks, Writes
  <2>4. /\ locks' \in [Locks -> Threads \cup {None}]
        /\ locks'["parsed"] = t /\ locks'["raw"] = locks["raw"]
        /\ \A l \in Locks : locks'[l] # locks[l] => locks[l] \in {t, None} /\ locks'[l] \in {t, None}
    BY <1>0, <2>1 DEF LockInv, Locks
  <2>5. locks["raw"] # t
    BY <1>0, <2>1 DEF LockInv, HoldsRaw, Asks
  <2>6. HoldsParsed(calls'[t]) /\ ~HoldsRaw(calls'[t])
    BY <2>2 DEF HoldsParsed, HoldsRaw, Asks
  <2> QED
    BY <1>0, <1>1, <2>1, <2>3, <2>4, <2>5, <2>6, GoesQuietly DEF Places, Asks
<1>6. CASE i = 2
  <2>1. /\ calls[t].pc = "wait" /\ locks["raw"] = None
        /\ locks' = [locks EXCEPT !["raw"] = t] /\ Goto(t, "empty")
    BY <1>2, <1>6, <1>3, <1>4 DEF Takes, At
  <2>2. /\ calls'[t].pc = "empty" /\ calls'[t].op = "clear" /\ calls' \in [Threads -> CallTypes]
        /\ calls'[t].got = calls[t].got
    BY <1>0, <2>1, Goes DEF CallsInv, Places
  <2>3. CallOK(calls'[t]) /\ calls[t].got = None
    BY <1>0, <2>1, <2>2 DEF CallOK, Asks, Writes
  <2>4. /\ locks' \in [Locks -> Threads \cup {None}]
        /\ locks'["raw"] = t /\ locks'["parsed"] = locks["parsed"]
        /\ \A l \in Locks : locks'[l] # locks[l] => locks[l] \in {t, None} /\ locks'[l] \in {t, None}
    BY <1>0, <2>1 DEF LockInv, Locks
  <2>5. locks["parsed"] = t
    BY <1>0, <2>1 DEF LockInv, HoldsParsed
  <2>6. HoldsParsed(calls'[t]) /\ HoldsRaw(calls'[t])
    BY <2>2 DEF HoldsParsed, HoldsRaw
  <2> QED
    BY <1>0, <1>1, <2>1, <2>3, <2>4, <2>5, <2>6, GoesQuietly DEF Places, Asks
<1> QED BY <1>5, <1>6

\* A poisoned lock ends the call.
LEMMA LockPoisonedKeeps ==
  ASSUME Shape, Fresh, NEW t \in Threads, LockPoisoned(t)
  PROVE Shape' /\ Fresh'
<1>1. Returns(t) /\ UNCHANGED <<disk, entries, known, config>>
  BY DEF LockPoisoned, cache
<1> QED BY <1>1, DiskUnchanged, ReturnsQuietly DEF Shape

\* A file that is there is looked for in the cache or read.
LEMMA CheckKeeps ==
  ASSUME Shape, Fresh, NEW t \in Threads, Check(t)
  PROVE Shape' /\ Fresh'
<1>0. /\ CallsInv /\ LockInv /\ RawInv /\ StoreInv /\ CallOK(calls[t]) /\ calls[t].pc = "check"
      /\ UNCHANGED <<disk, poisoned, cache, config, known>>
  BY DEF Shape, CallsInv, Check, At
<1>1. UNCHANGED <<entries, known, config>> /\ DiskOK
  BY <1>0, DiskUnchanged DEF cache
<1>2. CASE ValueError(t)
  BY <1>0, <1>1, <1>2, ErrorsQuietly
<1>3. CASE ~ValueError(t)
  <2> DEFINE p == IF config.cached THEN "wait" ELSE "read"
  <2>1. files[calls[t].file] # None /\ Goto(t, p) /\ UNCHANGED locks
    BY <1>3 DEF Check
  <2>2. /\ p \in Places /\ p \in {"read", "wait"} /\ (p = "wait" => config.cached)
        /\ (p = "read" => ~config.cached)
    BY DEF Places
  <2> HIDE DEF p
  <2>3. /\ calls'[t].pc = p /\ calls'[t].op = calls[t].op /\ calls'[t].view = calls[t].view
        /\ calls'[t].file = calls[t].file /\ calls'[t].got = calls[t].got
        /\ calls'[t].floor = calls[t].floor /\ calls' \in [Threads -> CallTypes]
    BY <1>0, <2>1, <2>2, Goes DEF CallsInv
  <2>4. calls[t].op \in Asks /\ calls[t].file \in Files /\ calls[t].got = None
    BY <1>0 DEF CallOK, Asks, Writes, Operations, CallTypes
  <2>5. CallOK(calls'[t])
    BY <1>0, <2>2, <2>3, <2>4 DEF CallOK, Asks, Writes
  <2>6. /\ HoldsParsed(calls'[t]) <=> HoldsParsed(calls[t])
        /\ HoldsRaw(calls'[t]) <=> HoldsRaw(calls[t])
    BY <1>0, <2>2, <2>3, <2>4 DEF HoldsParsed, HoldsRaw, Asks
  <2>7. /\ locks' \in [Locks -> Threads \cup {None}]
        /\ locks'["parsed"] = t <=> HoldsParsed(calls'[t])
        /\ locks'["raw"] = t <=> HoldsRaw(calls'[t])
    BY <1>0, <2>1, <2>6 DEF LockInv
  <2>8. p = "read" => entries[<<"raw", calls[t].file>>] = None
    BY <1>0, <2>1, <2>2, <2>4 DEF RawInv
  <2> QED BY <1>1, <2>1, <2>2, <2>4, <2>5, <2>7, <2>8, GoesQuietly
<1> QED BY <1>2, <1>3

\* A thread that writes holds no lock and has got nothing.
LEMMA WritersHoldNothing ==
  ASSUME NEW c, CallOK(c), c.pc \in {"load", "open", "flush"}
  PROVE c.op \in Writes /\ c.file \in Files /\ c.got = None /\ ~HoldsParsed(c) /\ ~HoldsRaw(c)
BY DEF CallOK, CallTypes, Operations, Writes, Asks, HoldsParsed, HoldsRaw

\* A thread that writes goes on.
LEMMA WriterGoes ==
  ASSUME Shape, Fresh, NEW t \in Threads, calls[t].pc \in {"load", "open"},
         NEW p \in {"open", "flush"}, Goto(t, p), UNCHANGED <<mutexes, cache, config, known>>, DiskOK
  PROVE Shape' /\ Fresh'
<1>0. CallsInv /\ LockInv /\ CallOK(calls[t])
  BY DEF Shape, CallsInv
<1>1. UNCHANGED <<entries, known, config, locks>>
  BY DEF cache, mutexes
<1>2. /\ calls[t].op \in Writes /\ calls[t].file \in Files /\ calls[t].got = None
      /\ ~HoldsParsed(calls[t]) /\ ~HoldsRaw(calls[t])
  BY <1>0, WritersHoldNothing
<1>3. p \in Places
  BY DEF Places
<1>4. /\ calls'[t].pc = p /\ calls'[t].op = calls[t].op /\ calls'[t].view = calls[t].view
      /\ calls'[t].file = calls[t].file /\ calls'[t].got = calls[t].got
      /\ calls'[t].floor = calls[t].floor /\ calls' \in [Threads -> CallTypes]
  BY <1>0, <1>3, Goes DEF CallsInv
<1>5. CallOK(calls'[t])
  BY <1>0, <1>2, <1>4 DEF CallOK, Asks, Writes
<1>6. ~HoldsParsed(calls'[t]) /\ ~HoldsRaw(calls'[t])
  BY <1>2, <1>4 DEF HoldsParsed, HoldsRaw, Asks, Writes
<1>7. locks' \in [Locks -> Threads \cup {None}] /\ locks'["parsed"] # t /\ locks'["raw"] # t
  BY <1>0, <1>1, <1>2 DEF LockInv
<1> QED BY <1>1, <1>2, <1>3, <1>5, <1>6, <1>7, GoesQuietly

\* A thread that writes is done.
LEMMA WriterEnds ==
  ASSUME Shape, Fresh, NEW t \in Threads, calls[t].pc \in {"load", "flush"},
         calls' = [calls EXCEPT ![t] = NoCall], UNCHANGED <<mutexes, cache, config, known>>, DiskOK
  PROVE Shape' /\ Fresh'
<1>1. UNCHANGED <<entries, known, config, locks>>
  BY DEF cache, mutexes
<1>2. ~HoldsParsed(calls[t]) /\ ~HoldsRaw(calls[t])
  BY WritersHoldNothing DEF Shape, CallsInv
<1>3. Returns(t)
  BY <1>1, <1>2, EndsIsReturns DEF Shape
<1> QED BY <1>1, <1>3, ReturnsQuietly

\* A write reads the file, or creates it, first.
LEMMA LoadKeeps ==
  ASSUME Shape, Fresh, NEW t \in Threads, Load(t)
  PROVE Shape' /\ Fresh'
<1>0. /\ CallOK(calls[t]) /\ calls[t].pc = "load" /\ StoreInv
      /\ UNCHANGED <<mutexes, cache, config, known>> /\ UNCHANGED <<entries, known>>
  BY DEF Load, At, Shape, CallsInv, cache
<1>1. calls[t].file \in Files
  BY <1>0, WritersHoldNothing
<1>2. CASE Changed(calls[t].file, TRUE) /\ Goto(t, "open")
  BY <1>0, <1>1, <1>2, DiskChanged, WriterGoes
<1>3. CASE UNCHANGED disk /\ Goto(t, "open")
  BY <1>0, <1>3, DiskUnchanged, WriterGoes
<1>4. CASE UNCHANGED disk /\ calls' = [calls EXCEPT ![t] = NoCall]
  BY <1>0, <1>4, DiskUnchanged, WriterEnds
<1> QED BY <1>2, <1>3, <1>4 DEF Load

\* A write opens the file.
LEMMA OpenKeeps ==
  ASSUME Shape, Fresh, NEW t \in Threads, Open(t)
  PROVE Shape' /\ Fresh'
<1>0. /\ CallOK(calls[t]) /\ calls[t].pc = "open" /\ StoreInv /\ Goto(t, "flush")
      /\ UNCHANGED <<mutexes, cache, config, known>> /\ UNCHANGED <<entries, known>>
  BY DEF Open, At, Shape, CallsInv, cache
<1>1. calls[t].file \in Files
  BY <1>0, WritersHoldNothing
<1>2. CASE Changed(calls[t].file, TRUE)
  BY <1>0, <1>1, <1>2, DiskChanged, WriterGoes
<1>3. CASE UNCHANGED disk
  BY <1>0, <1>3, DiskUnchanged, WriterGoes
<1> QED BY <1>2, <1>3 DEF Open

\* What a flush leaves can be malformed or not, but is one or the other.
LEMMA AcceptedIsBoolean ==
  ASSUME NEW t \in Threads
  PROVE Accepted(t) \in BOOLEAN
BY DEF Accepted

\* A write reaches the file.
LEMMA FlushKeeps ==
  ASSUME Shape, Fresh, NEW t \in Threads, Flush(t)
  PROVE Shape' /\ Fresh'
<1>1. /\ CallOK(calls[t]) /\ calls[t].pc = "flush" /\ StoreInv
      /\ calls' = [calls EXCEPT ![t] = NoCall] /\ Changed(calls[t].file, Accepted(t))
      /\ UNCHANGED <<mutexes, cache, config, known>> /\ UNCHANGED <<entries, known>>
  BY DEF Flush, At, Shape, CallsInv, cache
<1>2. calls[t].file \in Files /\ Accepted(t) \in BOOLEAN
  BY <1>1, WritersHoldNothing, AcceptedIsBoolean
<1> QED BY <1>1, <1>2, DiskChanged, WriterEnds

\* A failure ends the call, or leads to the current calendar.
LEMMA StepFailsKeeps ==
  ASSUME Shape, Fresh, NEW t \in Threads, StepFails(t)
  PROVE Shape' /\ Fresh'
<1>0. /\ CallOK(calls[t]) /\ StoreInv /\ UNCHANGED <<entries, known, config>>
  BY DEF StepFails, Shape, CallsInv, cache
<1>1. CASE Returns(t) /\ UNCHANGED disk
  BY <1>0, <1>1, DiskUnchanged, ReturnsQuietly
<1>2. CASE At(t, "convert") /\ ValueError(t) /\ UNCHANGED disk
  BY <1>0, <1>2, DiskUnchanged, ErrorsQuietly DEF At
<1>3. CASE At(t, "flush") /\ Returns(t) /\ \E good \in {FALSE, Accepted(t)} : Changed(calls[t].file, good)
  <2>1. calls[t].file \in Files
    BY <1>0, <1>3, WritersHoldNothing DEF At
  <2>2. PICK good \in BOOLEAN : Changed(calls[t].file, good)
    BY <1>3, AcceptedIsBoolean
  <2> QED BY <1>0, <1>3, <2>1, <2>2, DiskChanged, ReturnsQuietly
<1> QED BY <1>1, <1>2, <1>3 DEF StepFails

\* A panic ends the call and poisons what it holds.
LEMMA PanicsKeeps ==
  ASSUME Shape, Fresh, NEW t \in Threads, Panics(t)
  PROVE Shape' /\ Fresh'
<1>1. Returns(t) /\ UNCHANGED <<disk, entries, known, config>>
  BY DEF Panics, cache
<1> QED BY <1>1, DiskUnchanged, ReturnsQuietly DEF Shape

-----------------------------------------------------------------------------
(* The steps that look, read, keep, answer and clear.                      *)

\* A thread gets a content that is as new as everything it is held against.
LEMMA GetsFresh ==
  ASSUME Shape, Shape', Fresh, NEW t \in Threads, NEW g \in Contents, OthersKept(t),
         UNCHANGED <<files, entries, known>>,
         calls[t].got = None, calls[t].op \in Asks, calls'[t].op = calls[t].op,
         calls'[t].got = g, calls'[t].floor = calls[t].floor, Key(calls'[t]) = Key(calls[t]),
         Bounded(g.stamp, g.file)', calls[t].floor[g.file] <= g.stamp,
         calls'[t].pc = "keep" => calls'[t].file = g.file /\ files[g.file] = g,
         calls'[t].pc = "answer" => /\ entries[Key(calls[t])] = g
                                    /\ \A u \in Threads : ~HoldsParsed(calls[u]),
         calls'[t].op = "view" /\ calls'[t].pc # "answer" =>
           /\ known[Key(calls[t])][g.file] <= g.stamp
           /\ \A u \in Threads : calls[u].pc = "answer" /\ calls[u].got.file = g.file =>
                calls[u].got.stamp <= g.stamp
  PROVE Fresh'
<1>0. /\ CallsInv /\ StoreInv /\ StoreInv' /\ CallsInv'
      /\ g.stamp \in Nat /\ g.file \in Files
  BY DEF Shape, Contents
<1>1. ASSUME NEW n \in Nat, NEW f \in Files, Bounded(n, f)
      PROVE Bounded(n, f)'
  <2>1. StampOf(f) = StampOf(f)' /\ StampOf(f) \in Nat
    BY <1>0, StampsAreNumbers DEF StampOf
  <2>2. calls'[t].pc = "keep" /\ calls'[t].file = f => n <= g.stamp
    <3>1. SUFFICES ASSUME calls'[t].pc = "keep", calls'[t].file = f PROVE n <= g.stamp
      OBVIOUS
    <3>2. f = g.file /\ files[f] = g
      BY <3>1
    <3>3. StampOf(f) = g.stamp
      BY <3>2, NoneIsApart DEF StampOf
    <3> QED BY <1>1, <3>3 DEF Bounded
  <2>3. \A u \in Threads : calls'[u].pc = "keep" /\ calls'[u].file = f => n <= calls'[u].got.stamp
    BY <1>1, <2>2 DEF Bounded, OthersKept
  <2>4. entries'[<<"raw", f>>] # None => n <= entries'[<<"raw", f>>].stamp
    BY <1>1 DEF Bounded
  <2> QED BY <1>0, <1>1, <2>1, <2>3, <2>4, BoundedStays
<1>2. \A n \in Nat, f \in Files : Bounded(n, f) => Bounded(n, f)'
  BY <1>1
<1>3. BoundInv'
  <2>1. ASSUME NEW u \in Threads, u # t, calls[u].got # None
        PROVE Bounded(calls[u].got.stamp, calls[u].got.file)'
    <3>1. calls'[u] = calls[u]
      BY <2>1 DEF OthersKept
    <3>2. calls[u].got.stamp \in Nat /\ calls[u].got.file \in Files
      BY <1>0, <2>1, GotIsContent
    <3>3. Bounded(calls[u].got.stamp, calls[u].got.file)
      BY <2>1 DEF Fresh, BoundInv
    <3> QED BY <1>2, <3>1, <3>2, <3>3 DEF Bounded
  <2>2. Bounded(calls[t].got.stamp, calls[t].got.file)'
    BY DEF Bounded
  <2>3. ASSUME NEW k \in Keys, entries[k] # None
        PROVE Bounded(entries[k].stamp, entries[k].file)'
    <3>1. entries[k].stamp \in Nat /\ entries[k].file \in Files
      BY <1>0, <2>3 DEF StoreInv, Contents
    <3>2. Bounded(entries[k].stamp, entries[k].file)
      BY <2>3 DEF Fresh, BoundInv
    <3> QED BY <1>2, <3>1, <3>2 DEF Bounded
  <2>4. ASSUME NEW k \in Keys, NEW f \in Files
        PROVE Bounded(known[k][f], f)'
    <3>1. known[k][f] \in Nat /\ Bounded(known[k][f], f)
      BY <1>0 DEF StoreInv, Fresh, BoundInv
    <3> QED BY <1>2, <3>1 DEF Bounded
  <2>5. \A u \in Threads \ {t} : calls'[u] = calls[u]
    BY DEF OthersKept
  <2> QED BY <2>1, <2>2, <2>3, <2>4, <2>5 DEF BoundInv
<1>4. CacheInv'
  <2>1. \A u \in Threads \ {t} : calls'[u] = calls[u]
    BY DEF OthersKept
  <2>2. ASSUME NEW u \in Threads, calls'[u].pc = "answer",
               entries[Key(calls'[u])] # None, entries[Key(calls'[u])].file = calls'[u].got.file
        PROVE calls'[u].got.stamp <= entries[Key(calls'[u])].stamp
    <3>1. CASE u = t
      BY <1>0, <2>2, <3>1
    <3>2. CASE u # t
      BY <2>1, <2>2, <3>2 DEF Fresh, CacheInv
    <3> QED BY <3>1, <3>2
  <2>3. ASSUME NEW u \in Threads, calls'[u].op = "view", calls'[u].pc \in {"keep", "convert"}
        PROVE known[Key(calls'[u])][calls'[u].got.file] <= calls'[u].got.stamp
    <3>1. CASE u = t
      BY <2>3, <3>1
    <3>2. CASE u # t
      BY <2>1, <2>3, <3>2 DEF Fresh, CacheInv
    <3> QED BY <3>1, <3>2
  <2>4. ASSUME NEW u \in Threads, calls'[u].op = "view", calls'[u].pc \in {"keep", "convert"},
               NEW w \in Threads, calls'[w].pc = "answer", calls'[w].view = calls'[u].view,
               calls'[w].got.file = calls'[u].got.file
        PROVE calls'[w].got.stamp <= calls'[u].got.stamp
    <3>1. CASE u = t
      <4>1. w # t
        BY <2>4, <3>1
      <4> QED BY <2>1, <2>4, <3>1, <4>1
    <3>2. CASE u # t /\ w = t
      <4>1. HoldsParsed(calls[u])
        BY <2>1, <2>4, <3>2 DEF HoldsParsed
      <4> QED BY <2>4, <3>2, <4>1
    <3>3. CASE u # t /\ w # t
      BY <2>1, <2>4, <3>3 DEF Fresh, CacheInv
    <3> QED BY <3>1, <3>2, <3>3
  <2>5. \A k \in Keys : entries[k] # None => known[k][entries[k].file] <= entries[k].stamp
    BY DEF Fresh, CacheInv
  <2> QED BY <2>2, <2>3, <2>4, <2>5 DEF CacheInv, Key
<1>5. FloorInv'
  <2>1. \A u \in Threads \ {t} : calls'[u] = calls[u]
    BY DEF OthersKept
  <2>2. ASSUME NEW u \in Threads, calls'[u].op \in Asks
        PROVE /\ \A f \in Files : calls'[u].floor[f] <= known[Key(calls'[u])][f]
              /\ calls'[u].got # None => calls'[u].floor[calls'[u].got.file] <= calls'[u].got.stamp
    <3>1. CASE u = t
      BY <3>1 DEF Fresh, FloorInv
    <3>2. CASE u # t
      BY <2>1, <2>2, <3>2 DEF Fresh, FloorInv
    <3> QED BY <3>1, <3>2
  <2> QED BY <2>2 DEF FloorInv, Key
<1> QED BY <1>3, <1>4, <1>5 DEF Fresh

\* A parsed calendar that is found, or the lock to load it.
LEMMA LookKeeps ==
  ASSUME Shape, Fresh, NEW t \in Threads, Look(t)
  PROVE Shape' /\ Fresh'
<1> DEFINE k == Key(calls[t])
<1>0. /\ CallsInv /\ LockInv /\ RawInv /\ StoreInv /\ CallOK(calls[t])
      /\ calls[t].pc = "enter" /\ calls[t].op = "view" /\ locks["parsed"] = None
      /\ UNCHANGED <<disk, entries, known, config>>
  BY DEF Look, Takes, At, Shape, CallsInv
<1>1. DiskOK
  BY <1>0, DiskUnchanged
<1>2. calls[t].view \in Views /\ calls[t].file \in Files /\ calls[t].got = None /\ k \in Keys
      /\ k = <<"parsed", calls[t].view>>
  BY <1>0, KeyIsKey, NoneIsApart DEF CallOK, Asks, Key
<1>3. CASE entries[k] = None
  <2>1. locks' = [locks EXCEPT !["parsed"] = t] /\ Goto(t, "check")
    BY <1>3 DEF Look
  <2>2. /\ calls'[t].pc = "check" /\ calls'[t].op = "view" /\ calls'[t].view = calls[t].view
        /\ calls'[t].file = calls[t].file /\ calls'[t].got = None
        /\ calls'[t].floor = calls[t].floor /\ calls' \in [Threads -> CallTypes]
    BY <1>0, <1>2, <2>1, Goes DEF CallsInv, Places
  <2>3. CallOK(calls'[t])
    BY <1>0, <1>2, <2>2 DEF CallOK, Asks, Writes
  <2>4. /\ locks' \in [Locks -> Threads \cup {None}]
        /\ locks'["parsed"] = t /\ locks'["raw"] = locks["raw"]
        /\ \A l \in Locks : locks'[l] # locks[l] => locks[l] \in {t, None} /\ locks'[l] \in {t, None}
    BY <1>0, <2>1 DEF LockInv, Locks
  <2>5. locks["raw"] # t
    BY <1>0 DEF LockInv, HoldsRaw
  <2>6. HoldsParsed(calls'[t]) /\ ~HoldsRaw(calls'[t])
    BY <2>2 DEF HoldsParsed, HoldsRaw
  <2> QED
    BY <1>0, <1>1, <1>2, <2>1, <2>3, <2>4, <2>5, <2>6, GoesQuietly DEF Places
<1>4. CASE entries[k] # None
  <2>1. PICK g \in Contents : g = entries[k] /\ g.stamp \in Nat /\ g.file \in Files
    BY <1>0, <1>2, <1>4 DEF StoreInv, Contents
  <2>2. calls' = [calls EXCEPT ![t].pc = "answer", ![t].got = g] /\ UNCHANGED locks
    BY <1>4, <2>1 DEF Look
  <2>3. /\ calls' \in [Threads -> CallTypes] /\ OthersKept(t)
        /\ calls'[t].pc = "answer" /\ calls'[t].op = calls[t].op /\ calls'[t].view = calls[t].view
        /\ calls'[t].file = calls[t].file /\ calls'[t].got = g
        /\ calls'[t].floor = calls[t].floor
    <3>1. "answer" \in Places /\ calls \in [Threads -> CallTypes]
      BY <1>0 DEF Places, CallsInv
    <3> QED BY <2>2, <3>1, Gets
  <2>4. CallOK(calls'[t])
    BY <1>0, <2>3, NoneIsApart DEF CallOK, Asks, Writes
  <2>5. Shape'
    <3>1. CallsInv'
      BY <1>0, <1>1, <2>3, <2>4, CallsKept DEF DiskOK
    <3>2. locks["parsed"] # t /\ locks["raw"] # t
      BY <1>0 DEF LockInv, HoldsParsed, HoldsRaw
    <3>3. ~HoldsParsed(calls'[t]) /\ ~HoldsRaw(calls'[t])
      BY <2>3 DEF HoldsParsed, HoldsRaw
    <3>4. LockInv'
      BY <1>0, <2>2, <2>3, <3>2, <3>3, LocksKept DEF LockInv
    <3>5. RawInv'
      BY <1>0, <2>3, RawKept
    <3> QED BY <1>1, <3>1, <3>4, <3>5 DEF Shape, DiskOK
  <2>6. \A u \in Threads : ~HoldsParsed(calls[u])
    BY <1>0, NoneIsApart DEF LockInv
  <2>7. Bounded(g.stamp, g.file)'
    <3>1. Bounded(g.stamp, g.file)
      BY <1>2, <1>4, <2>1 DEF Fresh, BoundInv
    <3> QED BY <1>0, <2>3, <3>1 DEF Bounded, OthersKept, StampOf, disk
  <2>8. calls[t].floor[g.file] <= g.stamp
    <3>1. calls[t].floor[g.file] <= known[k][g.file]
      BY <1>0, <2>1 DEF Fresh, FloorInv, Asks
    <3>2. known[k][g.file] <= g.stamp
      BY <1>2, <1>4, <2>1 DEF Fresh, CacheInv
    <3>3. calls[t].floor[g.file] \in Nat /\ known[k][g.file] \in Nat
      BY <1>0, <1>2, <2>1 DEF CallOK, Asks, StoreInv
    <3> QED BY <2>1, <3>1, <3>2, <3>3
  <2>9. Key(calls'[t]) = k
    BY <2>3 DEF Key
  <2>10. UNCHANGED <<files, entries, known>> /\ calls[t].op \in Asks
    BY <1>0 DEF disk, Asks
  <2> QED BY <1>0, <1>2, <2>1, <2>3, <2>5, <2>6, <2>7, <2>8, <2>9, <2>10, GetsFresh
<1> QED BY <1>3, <1>4

\* Raw lines that are found, or a lock to load them.
LEMMA FindKeeps ==
  ASSUME Shape, Fresh, NEW t \in Threads, Find(t)
  PROVE Shape' /\ Fresh'
<1> DEFINE r == <<"raw", calls[t].file>>
           k == Key(calls[t])
<1>0. /\ CallsInv /\ LockInv /\ RawInv /\ StoreInv /\ CallOK(calls[t])
      /\ calls[t].pc = "wait" /\ calls[t].op # "clear" /\ locks["raw"] = None
      /\ UNCHANGED <<disk, entries, known, config>>
  BY DEF Find, Takes, At, Shape, CallsInv
<1>1. DiskOK
  BY <1>0, DiskUnchanged
<1>2. calls[t].op \in Asks /\ calls[t].file \in Files /\ calls[t].got = None /\ config.cached
  BY <1>0 DEF CallOK, Asks, CallTypes, Operations, Writes, CallsInv
<1>3. r \in Keys /\ k \in Keys
  BY <1>0, <1>2, KeyIsKey DEF Keys
<1>4. locks["raw"] # t
  BY <1>0, NoneIsApart
<1>5. CASE entries[r] = None
  <2>1. locks' = [locks EXCEPT !["raw"] = t] /\ Goto(t, "read")
    BY <1>5 DEF Find
  <2>2. /\ calls'[t].pc = "read" /\ calls'[t].op = calls[t].op /\ calls'[t].view = calls[t].view
        /\ calls'[t].file = calls[t].file /\ calls'[t].got = None
        /\ calls'[t].floor = calls[t].floor /\ calls' \in [Threads -> CallTypes]
    BY <1>0, <1>2, <2>1, Goes DEF CallsInv, Places
  <2>3. CallOK(calls'[t])
    BY <1>0, <1>2, <2>2 DEF CallOK, Asks, Writes
  <2>4. /\ locks' \in [Locks -> Threads \cup {None}]
        /\ locks'["raw"] = t /\ locks'["parsed"] = locks["parsed"]
        /\ \A l \in Locks : locks'[l] # locks[l] => locks[l] \in {t, None} /\ locks'[l] \in {t, None}
    BY <1>0, <2>1 DEF LockInv, Locks
  <2>5. HoldsRaw(calls'[t]) /\ (HoldsParsed(calls'[t]) <=> HoldsParsed(calls[t]))
    BY <1>0, <1>2, <2>2 DEF HoldsParsed, HoldsRaw, Asks
  <2>6. locks'["parsed"] = t <=> HoldsParsed(calls'[t])
    BY <1>0, <2>4, <2>5 DEF LockInv
  <2>7. files[calls[t].file] # None
    BY <1>0, <1>2 DEF CallsInv
  <2> QED
    BY <1>0, <1>1, <1>2, <1>5, <2>1, <2>3, <2>4, <2>5, <2>6, <2>7, GoesQuietly DEF Places
<1>6. CASE entries[r] # None
  <2>1. PICK g \in Contents : g = entries[r] /\ g.stamp \in Nat /\ g.file \in Files
                              /\ g.file = calls[t].file
    BY <1>0, <1>2, <1>3, <1>6 DEF StoreInv, Contents
  <2>2. calls' = [calls EXCEPT ![t].pc = "convert", ![t].got = g] /\ UNCHANGED locks
    BY <1>6, <2>1 DEF Find
  <2>3. /\ calls' \in [Threads -> CallTypes] /\ OthersKept(t)
        /\ calls'[t].pc = "convert" /\ calls'[t].op = calls[t].op /\ calls'[t].view = calls[t].view
        /\ calls'[t].file = calls[t].file /\ calls'[t].got = g
        /\ calls'[t].floor = calls[t].floor
    <3>1. "convert" \in Places /\ calls \in [Threads -> CallTypes]
      BY <1>0 DEF Places, CallsInv
    <3> QED BY <2>2, <3>1, Gets
  <2>4. CallOK(calls'[t])
    BY <1>0, <1>2, <2>1, <2>3, NoneIsApart DEF CallOK, Asks, Writes
  <2>5. Shape'
    <3>1. CallsInv'
      BY <1>0, <1>1, <2>3, <2>4, CallsKept DEF DiskOK
    <3>2. HoldsParsed(calls'[t]) <=> HoldsParsed(calls[t])
      BY <1>0, <1>2, <2>3 DEF HoldsParsed, Asks
    <3>3. ~HoldsRaw(calls'[t])
      BY <1>2, <2>3 DEF HoldsRaw, Asks
    <3>4. LockInv'
      BY <1>0, <1>4, <2>2, <2>3, <3>2, <3>3, LocksKept DEF LockInv
    <3>5. RawInv'
      BY <1>0, <2>3, RawKept
    <3> QED BY <1>1, <3>1, <3>4, <3>5 DEF Shape, DiskOK
  <2>6. \A n \in Nat : Bounded(n, g.file) => n <= g.stamp
    BY <1>6, <2>1 DEF Bounded
  <2>7. known[k][g.file] \in Nat /\ known[k][g.file] <= g.stamp
    <3>1. known[k][g.file] \in Nat /\ Bounded(known[k][g.file], g.file)
      BY <1>0, <1>3, <2>1 DEF StoreInv, Fresh, BoundInv
    <3> QED BY <2>6, <3>1
  <2>8. \A u \in Threads : calls[u].pc = "answer" /\ calls[u].got.file = g.file =>
          calls[u].got.stamp <= g.stamp
    <3>1. ASSUME NEW u \in Threads, calls[u].pc = "answer", calls[u].got.file = g.file
          PROVE calls[u].got.stamp <= g.stamp
      <4>1. calls[u].got # None
        BY <1>0, <3>1 DEF CallsInv, CallOK
      <4>2. calls[u].got.stamp \in Nat /\ Bounded(calls[u].got.stamp, g.file)
        BY <1>0, <3>1, <4>1, GotIsContent DEF Fresh, BoundInv
      <4> QED BY <2>6, <4>2
    <3> QED BY <3>1
  <2>9. Bounded(g.stamp, g.file)'
    <3>1. Bounded(g.stamp, g.file)
      BY <1>3, <1>6, <2>1 DEF Fresh, BoundInv
    <3> QED BY <1>0, <2>3, <3>1 DEF Bounded, OthersKept, StampOf, disk
  <2>10. calls[t].floor[g.file] <= g.stamp
    <3>1. calls[t].floor[g.file] <= known[k][g.file]
      BY <1>2, <2>1 DEF Fresh, FloorInv
    <3>2. calls[t].floor[g.file] \in Nat
      BY <1>0, <1>2, <2>1 DEF CallOK
    <3> QED BY <2>1, <2>7, <3>1, <3>2
  <2>11. Key(calls'[t]) = k
    BY <2>3 DEF Key
  <2>12. UNCHANGED <<files, entries, known>>
    BY <1>0 DEF disk
  <2> QED BY <1>0, <1>2, <2>1, <2>3, <2>5, <2>7, <2>8, <2>9, <2>10, <2>11, <2>12, GetsFresh
<1> QED BY <1>5, <1>6

\* A file is read: its content is the newest there is.
LEMMA ReadKeeps ==
  ASSUME Shape, Fresh, NEW t \in Threads, Read(t)
  PROVE Shape' /\ Fresh'
<1> DEFINE f == calls[t].file
           k == Key(calls[t])
<1>0. /\ CallsInv /\ LockInv /\ RawInv /\ StoreInv /\ CallOK(calls[t]) /\ calls[t].pc = "read"
      /\ UNCHANGED <<disk, entries, known, config>>
  BY DEF Read, At, Shape, CallsInv, cache
<1>1. DiskOK
  BY <1>0, DiskUnchanged
<1>2. calls[t].op \in Asks /\ f \in Files /\ calls[t].got = None /\ files[f] # None
  BY <1>0 DEF CallOK, Asks, CallTypes, Operations, Writes, CallsInv
<1>3. k \in Keys /\ entries[<<"raw", f>>] = None
  BY <1>0, <1>2, KeyIsKey DEF RawInv
<1>4. CASE ValueError(t)
  BY <1>0, <1>1, <1>4, ErrorsQuietly
<1>5. CASE ~ValueError(t)
  <2> DEFINE p == IF config.cached THEN "keep" ELSE "convert"
  <2>1. PICK g \in Contents : g = files[f] /\ g.stamp \in Nat /\ g.file = f
    BY <1>0, <1>2 DEF StoreInv, Contents
  <2>2. calls' = [calls EXCEPT ![t].pc = p, ![t].got = g] /\ UNCHANGED locks
    BY <1>5, <2>1 DEF Read
  <2>3. /\ p \in Places /\ p \in {"keep", "convert"}
        /\ (p = "keep" => config.cached) /\ (p = "convert" => ~config.cached)
    BY DEF Places
  <2> HIDE DEF p
  <2>4. /\ calls' \in [Threads -> CallTypes] /\ OthersKept(t)
        /\ calls'[t].pc = p /\ calls'[t].op = calls[t].op /\ calls'[t].view = calls[t].view
        /\ calls'[t].file = f /\ calls'[t].got = g
        /\ calls'[t].floor = calls[t].floor
    BY <1>0, <2>2, <2>3, Gets DEF CallsInv
  <2>5. CallOK(calls'[t])
    BY <1>0, <1>2, <2>1, <2>3, <2>4, NoneIsApart DEF CallOK, Asks, Writes
  <2>6. Shape'
    <3>1. CallsInv'
      BY <1>0, <1>1, <2>3, <2>4, <2>5, CallsKept DEF DiskOK
    <3>2. /\ HoldsParsed(calls'[t]) <=> HoldsParsed(calls[t])
          /\ HoldsRaw(calls'[t]) <=> HoldsRaw(calls[t])
      BY <1>0, <1>2, <2>3, <2>4 DEF HoldsParsed, HoldsRaw, Asks
    <3>3. /\ locks' \in [Locks -> Threads \cup {None}]
          /\ locks'["parsed"] = t <=> HoldsParsed(calls'[t])
          /\ locks'["raw"] = t <=> HoldsRaw(calls'[t])
      BY <1>0, <2>2, <3>2 DEF LockInv
    <3>4. LockInv'
      BY <1>0, <2>2, <2>4, <3>3, LocksKept
    <3>5. RawInv'
      BY <1>0, <1>3, <2>4 DEF RawInv, OthersKept
    <3> QED BY <1>1, <3>1, <3>4, <3>5 DEF Shape, DiskOK
  <2>7. StampOf(f) = g.stamp /\ \A n \in Nat : Bounded(n, f) => n <= g.stamp
    BY <1>2, <2>1 DEF StampOf, Bounded
  <2>8. known[k][f] \in Nat /\ known[k][f] <= g.stamp
    <3>1. known[k][f] \in Nat /\ Bounded(known[k][f], f)
      BY <1>0, <1>2, <1>3 DEF StoreInv, Fresh, BoundInv
    <3> QED BY <2>7, <3>1
  <2>9. \A u \in Threads : calls[u].pc = "answer" /\ calls[u].got.file = f =>
          calls[u].got.stamp <= g.stamp
    <3>1. ASSUME NEW u \in Threads, calls[u].pc = "answer", calls[u].got.file = f
          PROVE calls[u].got.stamp <= g.stamp
      <4>1. calls[u].got # None
        BY <1>0, <3>1 DEF CallsInv, CallOK
      <4>2. calls[u].got.stamp \in Nat /\ Bounded(calls[u].got.stamp, f)
        BY <1>0, <3>1, <4>1, GotIsContent DEF Fresh, BoundInv
      <4> QED BY <2>7, <4>2
    <3> QED BY <3>1
  <2>10. Bounded(g.stamp, g.file)'
    <3>1. ASSUME NEW u \in Threads \ {t}
          PROVE calls[u].pc # "keep"
      <4>1. SUFFICES ASSUME calls[u].pc = "keep" PROVE FALSE
        OBVIOUS
      <4>2. calls[u].op \in Asks
        BY <1>0, <4>1 DEF CallsInv, CallOK, CallTypes, Operations, Asks, Writes
      <4>3. config.cached /\ HoldsRaw(calls[u])
        BY <1>0, <4>1, <4>2 DEF CallsInv, HoldsRaw
      <4>4. HoldsRaw(calls[t])
        BY <1>0, <1>2, <4>3 DEF HoldsRaw
      <4> QED BY <1>0, <4>3, <4>4 DEF LockInv
    <3>2. StampOf(g.file)' = g.stamp
      BY <1>0, <2>1, <2>7 DEF StampOf, disk
    <3>3. \A u \in Threads : calls'[u].pc = "keep" => calls'[u].got = g
      BY <2>4, <3>1 DEF OthersKept
    <3> QED BY <1>0, <1>3, <2>1, <3>2, <3>3 DEF Bounded
  <2>11. calls[t].floor[f] <= g.stamp
    <3>1. calls[t].floor[f] <= known[k][f]
      BY <1>2 DEF Fresh, FloorInv
    <3>2. calls[t].floor[f] \in Nat
      BY <1>0, <1>2 DEF CallOK
    <3> QED BY <2>1, <2>8, <3>1, <3>2
  <2>12. Key(calls'[t]) = k
    <3> HIDE DEF k
    <3> QED BY <2>4 DEF Key, k
  <2>13. UNCHANGED <<files, entries, known>>
    BY <1>0 DEF disk
  <2> QED BY <1>0, <1>2, <2>1, <2>3, <2>4, <2>6, <2>8, <2>9, <2>10, <2>11, <2>12, <2>13, GetsFresh
<1> QED BY <1>4, <1>5

\* Raw lines are kept: whoever held them against anything has held it against these.
LEMMA KeepKeeps ==
  ASSUME Shape, Fresh, NEW t \in Threads, Keep(t)
  PROVE Shape' /\ Fresh'
<1>0. /\ CallsInv /\ LockInv /\ RawInv /\ StoreInv /\ CallOK(calls[t]) /\ calls[t].pc = "keep"
      /\ UNCHANGED <<files, clock, known, config>> /\ Goto(t, "convert")
      /\ locks' = [locks EXCEPT !["raw"] = None]
  BY DEF Keep, At, Shape, CallsInv, disk
<1>1. calls[t].op \in Asks /\ calls[t].file \in Files /\ calls[t].got # None /\ config.cached
  BY <1>0 DEF CallOK, Asks, CallTypes, Operations, Writes, CallsInv
<1>2. PICK g \in Contents : g = calls[t].got /\ g.stamp \in Nat /\ g.file \in Files
                            /\ g.file = calls[t].file
  BY <1>0, <1>1, GotIsContent DEF CallOK
<1> DEFINE r == <<"raw", g.file>>
<1>3. r \in Keys /\ Insert(r, g)
  BY <1>2 DEF Keep, Keys
<1> HIDE DEF r
<1>4. /\ entries' \in [Keys -> Contents \cup {None}] /\ entries'[r] = g
      /\ \A j \in Keys \ {r} : entries'[j] = entries[j] \/ entries'[j] = None
  BY <1>0, <1>3, Inserts DEF StoreInv
<1>5. /\ calls'[t].pc = "convert" /\ calls'[t].op = calls[t].op /\ calls'[t].view = calls[t].view
      /\ calls'[t].file = calls[t].file /\ calls'[t].got = g
      /\ calls'[t].floor = calls[t].floor /\ calls' \in [Threads -> CallTypes] /\ OthersKept(t)
  BY <1>0, <1>2, Goes DEF CallsInv, Places
<1>6. ASSUME NEW u \in Threads \ {t}
      PROVE calls[u].pc \notin {"read", "keep"}
  <2>1. SUFFICES ASSUME calls[u].pc \in {"read", "keep"} PROVE FALSE
    OBVIOUS
  <2>2. calls[u].op \in Asks
    BY <1>0, <2>1 DEF CallsInv, CallOK, CallTypes, Operations, Asks, Writes
  <2>3. HoldsRaw(calls[u]) /\ HoldsRaw(calls[t])
    BY <1>0, <1>1, <2>1, <2>2 DEF HoldsRaw
  <2> QED BY <1>0, <2>3 DEF LockInv
<1>7. \A u \in Threads : calls'[u].pc \notin {"read", "keep"}
  BY <1>5, <1>6 DEF OthersKept
<1>8. CallOK(calls'[t])
  BY <1>0, <1>1, <1>2, <1>5, NoneIsApart DEF CallOK, Asks, Writes
<1>9. FilesStay /\ \A f \in Files : StampOf(f)' = StampOf(f)
  BY <1>0 DEF FilesStay, StampOf
<1>10. StoreInv'
  <2>1. \A f \in Files : <<"raw", f>> \in Keys /\ (f # g.file => <<"raw", f>> # r)
    BY DEF r, Keys
  <2>2. \A f \in Files : entries'[<<"raw", f>>] # None => entries'[<<"raw", f>>].file = f
    BY <1>0, <1>4, <2>1 DEF StoreInv, r
  <2> QED BY <1>0, <1>4, <2>2 DEF StoreInv
<1>11. Shape'
  <2>1. CallsInv'
    BY <1>0, <1>5, <1>8, <1>9, CallsKept
  <2>2. locks["raw"] = t
    BY <1>0, <1>1 DEF LockInv, HoldsRaw
  <2>3. /\ locks' \in [Locks -> Threads \cup {None}]
        /\ locks'["raw"] = None /\ locks'["parsed"] = locks["parsed"]
    BY <1>0 DEF LockInv, Locks
  <2>4. \A l \in Locks : locks'[l] # locks[l] => locks[l] \in {t, None} /\ locks'[l] \in {t, None}
    BY <2>2, <2>3 DEF Locks
  <2>5. (HoldsParsed(calls'[t]) <=> HoldsParsed(calls[t])) /\ ~HoldsRaw(calls'[t])
    BY <1>0, <1>1, <1>5 DEF HoldsParsed, HoldsRaw, Asks
  <2>6. locks'["parsed"] = t <=> HoldsParsed(calls'[t])
    BY <1>0, <2>3, <2>5 DEF LockInv
  <2>7. locks'["raw"] # t
    BY <2>3, NoneIsApart
  <2>8. LockInv'
    BY <1>0, <1>5, <2>3, <2>4, <2>5, <2>6, <2>7, LocksKept
  <2>9. RawInv'
    BY <1>0, <1>1, <1>7 DEF RawInv
  <2> QED BY <1>10, <2>1, <2>8, <2>9 DEF Shape
<1>12. \A n \in Nat : Bounded(n, g.file) => n <= g.stamp
  BY <1>0, <1>2 DEF Bounded
<1>13. ASSUME NEW n \in Nat, NEW f \in Files, Bounded(n, f)
       PROVE Bounded(n, f)'
  <2>1. <<"raw", f>> \in Keys /\ (f # g.file => <<"raw", f>> # r)
    BY DEF r, Keys
  <2>2. entries'[<<"raw", f>>] # None => n <= entries'[<<"raw", f>>].stamp
    <3>1. CASE f = g.file
      BY <1>4, <1>12, <1>13, <3>1 DEF r
    <3>2. CASE f # g.file
      BY <1>4, <1>13, <2>1, <3>2 DEF Bounded
    <3> QED BY <3>1, <3>2
  <2>3. n <= StampOf(f)'
    BY <1>9, <1>13 DEF Bounded
  <2> QED BY <1>7, <2>2, <2>3 DEF Bounded
<1>14. \A n \in Nat, f \in Files : Bounded(n, f) => Bounded(n, f)'
  BY <1>13
<1>15. \A u \in Threads : calls'[u].got = calls[u].got /\ calls'[u].op = calls[u].op
         /\ calls'[u].floor = calls[u].floor /\ calls'[u].view = calls[u].view
         /\ calls'[u].file = calls[u].file
  BY <1>2, <1>5 DEF OthersKept
<1>16. BoundInv'
  <2>1. ASSUME NEW u \in Threads, calls[u].got # None
        PROVE Bounded(calls[u].got.stamp, calls[u].got.file)'
    <3>1. calls[u].got.stamp \in Nat /\ calls[u].got.file \in Files
      BY <1>0, <2>1, GotIsContent
    <3>2. Bounded(calls[u].got.stamp, calls[u].got.file)
      BY <2>1 DEF Fresh, BoundInv
    <3> QED BY <1>14, <1>15, <3>1, <3>2 DEF Bounded
  <2>2. ASSUME NEW j \in Keys, entries'[j] # None
        PROVE Bounded(entries[j].stamp, entries[j].file)'
    <3>1. CASE j = r
      <4>1. Bounded(g.stamp, g.file)
        BY <1>1, <1>2 DEF Fresh, BoundInv
      <4>2. Bounded(g.stamp, g.file)'
        BY <1>2, <1>14, <4>1
      <4> QED BY <1>4, <3>1, <4>2 DEF Bounded
    <3>2. CASE j # r
      <4>1. entries'[j] = entries[j] /\ entries[j].stamp \in Nat /\ entries[j].file \in Files
        BY <1>0, <1>4, <2>2, <3>2 DEF StoreInv, Contents
      <4>2. Bounded(entries[j].stamp, entries[j].file)
        BY <2>2, <4>1 DEF Fresh, BoundInv
      <4> QED BY <1>14, <4>1, <4>2 DEF Bounded
    <3> QED BY <3>1, <3>2
  <2>3. ASSUME NEW j \in Keys, NEW f \in Files
        PROVE Bounded(known[j][f], f)'
    <3>1. known[j][f] \in Nat /\ Bounded(known[j][f], f)
      BY <1>0 DEF StoreInv, Fresh, BoundInv
    <3> QED BY <1>0, <1>14, <3>1 DEF Bounded
  <2> QED BY <1>15, <2>1, <2>2, <2>3 DEF BoundInv
<1>17. CacheInv'
  <2>1. ASSUME NEW j \in Keys, entries'[j] # None
        PROVE known[j][entries'[j].file] <= entries'[j].stamp
    <3>1. CASE j = r
      <4>1. known[r][g.file] \in Nat /\ Bounded(known[r][g.file], g.file)
        BY <1>0, <1>2, <1>3 DEF StoreInv, Fresh, BoundInv
      <4> QED BY <1>4, <1>12, <3>1, <4>1
    <3>2. CASE j # r
      BY <1>4, <2>1, <3>2 DEF Fresh, CacheInv
    <3> QED BY <3>1, <3>2
  <2>2. ASSUME NEW u \in Threads, calls'[u].pc = "answer", entries'[Key(calls[u])] # None
        PROVE entries'[Key(calls[u])] = entries[Key(calls[u])] /\ calls[u].pc = "answer"
    <3>1. calls[u].pc = "answer" /\ CallOK(calls[u])
      BY <1>0, <1>5, <2>2 DEF OthersKept, CallsInv
    <3>2. calls[u].op = "view" /\ calls[u].view \in Views
      BY <3>1 DEF CallOK, CallTypes, Operations, Writes, Asks
    <3>3. Key(calls[u]) \in Keys /\ Key(calls[u]) # r
      BY <3>2, NoneIsApart DEF Key, Keys, r
    <3> QED BY <1>4, <2>2, <3>1, <3>3
  <2>3. ASSUME NEW u \in Threads, calls'[u].pc \in {"keep", "convert"}
        PROVE calls[u].pc \in {"keep", "convert"}
    BY <1>0, <1>5, <2>3 DEF OthersKept
  <2>4. \A u \in Threads : calls'[u].pc = "answer" => calls[u].pc = "answer"
    BY <1>5 DEF OthersKept
  <2>5. \A u \in Threads : Key(calls'[u]) = Key(calls[u])
    BY <1>15 DEF Key
  <2> DEFINE AnswerOK(u) ==
        calls[u].pc = "answer" /\ entries[Key(calls[u])] # None
          /\ entries[Key(calls[u])].file = calls[u].got.file =>
            calls[u].got.stamp <= entries[Key(calls[u])].stamp
  <2>6. \A u \in Threads : AnswerOK(u)
    BY DEF Fresh, CacheInv
  <2>7. ASSUME NEW u \in Threads, calls'[u].pc = "answer", entries'[Key(calls'[u])] # None,
               entries'[Key(calls'[u])].file = calls'[u].got.file
        PROVE calls'[u].got.stamp <= entries'[Key(calls'[u])].stamp
    <3>1. Key(calls'[u]) = Key(calls[u]) /\ calls'[u].got = calls[u].got
      BY <1>15, <2>5
    <3>2. entries'[Key(calls[u])] = entries[Key(calls[u])] /\ calls[u].pc = "answer"
      BY <2>2, <2>7, <3>1
    <3> QED BY <2>6, <2>7, <3>1, <3>2
  <2>8. ASSUME NEW u \in Threads, calls'[u].op = "view", calls'[u].pc \in {"keep", "convert"}
        PROVE /\ known[Key(calls'[u])][calls'[u].got.file] <= calls'[u].got.stamp
              /\ \A w \in Threads :
                   calls'[w].pc = "answer" /\ calls'[w].view = calls'[u].view
                     /\ calls'[w].got.file = calls'[u].got.file =>
                       calls'[w].got.stamp <= calls'[u].got.stamp
    BY <1>15, <2>3, <2>4, <2>5, <2>8 DEF Fresh, CacheInv
  <2> HIDE DEF AnswerOK
  <2> QED BY <1>0, <2>1, <2>7, <2>8 DEF CacheInv, Key
<1>18. FloorInv'
  <2>1. \A u \in Threads : Key(calls'[u]) = Key(calls[u])
    BY <1>15 DEF Key
  <2>2. ASSUME NEW u \in Threads, calls'[u].op \in Asks
        PROVE /\ \A f \in Files : calls'[u].floor[f] <= known[Key(calls'[u])][f]
              /\ calls'[u].got # None => calls'[u].floor[calls'[u].got.file] <= calls'[u].got.stamp
    BY <1>15, <2>1, <2>2 DEF Fresh, FloorInv
  <2> QED BY <1>0, <2>2 DEF FloorInv, Key
<1> QED BY <1>11, <1>16, <1>17, <1>18 DEF Fresh

-----------------------------------------------------------------------------
(* The steps that answer.                                                  *)

\* An answer makes known of its key what it holds, and nothing else.
LEMMA AnsweredRaises ==
  ASSUME StoreInv, NEW k \in Keys, NEW g \in Contents,
         known' = [known EXCEPT ![k][g.file] = Newer(@, g.stamp)]
  PROVE /\ known' \in [Keys -> [Files -> Nat]]
        /\ \A j \in Keys, f \in Files :
             /\ known[j][f] <= known'[j][f]
             /\ \/ known'[j][f] = known[j][f]
                \/ j = k /\ f = g.file /\ known'[j][f] = g.stamp
<1> DEFINE n == Newer(known[k][g.file], g.stamp)
<1>1. g.file \in Files /\ g.stamp \in Nat /\ known \in [Keys -> [Files -> Nat]]
  BY DEF Contents, StoreInv
<1>2. n \in Nat /\ known[k][g.file] <= n /\ n \in {known[k][g.file], g.stamp}
  BY <1>1 DEF Newer
<1>3. known' = [known EXCEPT ![k] = [known[k] EXCEPT ![g.file] = n]]
  BY <1>1
<1> HIDE DEF n
<1> QED BY <1>1, <1>2, <1>3

\* A call that ends leaves every bound.
LEMMA EndsKeepsBounds ==
  ASSUME StoreInv, StoreInv', NEW t \in Threads, OthersKept(t), calls'[t] = NoCall, UNCHANGED files,
         \A f \in Files : entries'[<<"raw", f>>] = entries[<<"raw", f>>] \/ entries'[<<"raw", f>>] = None,
         NEW n \in Nat, NEW f \in Files, Bounded(n, f)
  PROVE Bounded(n, f)'
<1>1. StampOf(f)' = StampOf(f)
  BY DEF StampOf
<1>2. \A u \in Threads : calls'[u].pc = "keep" => calls'[u] = calls[u]
  BY DEF OthersKept, NoCall
<1> QED BY <1>1, <1>2 DEF Bounded

\* A call ends; what its step makes known and caches is in order.
LEMMA EndsFresh ==
  ASSUME Shape, Shape', Fresh, NEW t \in Threads, OthersKept(t), calls'[t] = NoCall, UNCHANGED files,
         \A f \in Files : entries'[<<"raw", f>>] = entries[<<"raw", f>>] \/ entries'[<<"raw", f>>] = None,
         (\A k \in Keys : entries[k] # None => Bounded(entries[k].stamp, entries[k].file))',
         (\A k \in Keys, f \in Files : Bounded(known[k][f], f))',
         \A k \in Keys, f \in Files : known[k][f] <= known'[k][f],
         CacheInv'
  PROVE Fresh'
<1>0. CallsInv /\ StoreInv /\ StoreInv'
  BY DEF Shape
<1>1. \A n \in Nat, f \in Files : Bounded(n, f) => Bounded(n, f)'
  BY <1>0, EndsKeepsBounds
<1>2. ASSUME NEW u \in Threads, u # t, calls[u].got # None
      PROVE Bounded(calls[u].got.stamp, calls[u].got.file)'
  <2>1. calls'[u] = calls[u]
    BY <1>2 DEF OthersKept
  <2>2. calls[u].got.stamp \in Nat /\ calls[u].got.file \in Files
    BY <1>0, <1>2, GotIsContent
  <2>3. Bounded(calls[u].got.stamp, calls[u].got.file)
    BY <1>2 DEF Fresh, BoundInv
  <2> QED BY <1>1, <2>1, <2>2, <2>3 DEF Bounded
<1>3. \A u \in Threads \ {t} : calls'[u] = calls[u]
  BY DEF OthersKept
<1>4. BoundInv'
  BY <1>2, <1>3 DEF BoundInv, NoCall
<1>5. FloorInv'
  <2>1. ASSUME NEW u \in Threads, u # t, calls[u].op \in Asks, NEW f \in Files
        PROVE calls[u].floor[f] <= known'[Key(calls[u])][f]
    <3>1. CallOK(calls[u])
      BY <1>0 DEF CallsInv
    <3>2. Key(calls[u]) \in Keys
      BY <2>1, <3>1, KeyIsKey DEF CallOK, Asks
    <3>3. /\ calls[u].floor[f] \in Nat /\ known[Key(calls[u])][f] \in Nat
          /\ known'[Key(calls[u])][f] \in Nat
      BY <1>0, <2>1, <3>1, <3>2 DEF CallOK, StoreInv
    <3>4. calls[u].floor[f] <= known[Key(calls[u])][f]
      BY <2>1 DEF Fresh, FloorInv
    <3> QED BY <3>2, <3>3, <3>4
  <2>2. \A u \in Threads : u # t /\ calls[u].op \in Asks =>
          \A f \in Files : calls[u].floor[f] <= known'[Key(calls[u])][f]
    BY <2>1
  <2>3. \A u \in Threads : u # t /\ calls[u].op \in Asks /\ calls[u].got # None =>
          calls[u].floor[calls[u].got.file] <= calls[u].got.stamp
    BY DEF Fresh, FloorInv
  <2>4. NoCall.op \notin Asks
    BY DEF NoCall, Asks
  <2> QED BY <1>3, <2>2, <2>3, <2>4 DEF FloorInv, Key
<1> QED BY <1>4, <1>5 DEF Fresh

\* An answer is as old as what is cached, or will be, allows.
LEMMA AnswerKeeps ==
  ASSUME Shape, Fresh, NEW t \in Threads, Answer(t)
  PROVE Shape' /\ Fresh'
<1> DEFINE k == Key(calls[t])
<1>0. /\ CallsInv /\ LockInv /\ StoreInv /\ CallOK(calls[t])
      /\ UNCHANGED <<files, clock, locks, entries, config>>
      /\ calls' = [calls EXCEPT ![t] = NoCall]
      /\ calls[t].pc = "answer" \/ (calls[t].pc = "convert" /\ calls[t].view = None)
  BY DEF Answer, At, Shape, CallsInv, disk, mutexes, cache
<1>1. /\ calls[t].op \in Asks /\ calls[t].got # None
      /\ calls[t].op = IF calls[t].pc = "answer" THEN "view" ELSE "data"
  BY <1>0, NoneIsApart DEF CallOK, Asks, CallTypes, Operations, Writes
<1>2. PICK g \in Contents : g = calls[t].got /\ g.stamp \in Nat /\ g.file \in Files
                            /\ (calls[t].op = "data" => g.file = calls[t].file)
  BY <1>0, <1>1, GotIsContent DEF CallOK
<1>3. k \in Keys
  BY <1>0, <1>1, KeyIsKey
<1>4. /\ known' \in [Keys -> [Files -> Nat]]
      /\ \A j \in Keys, f \in Files :
           /\ known[j][f] <= known'[j][f]
           /\ known'[j][f] = known[j][f] \/ (j = k /\ f = g.file /\ known'[j][f] = g.stamp)
  <2>1. known' = [known EXCEPT ![k][g.file] = Newer(@, g.stamp)]
    BY <1>2 DEF Answer, Answered
  <2> HIDE DEF k
  <2> QED BY <1>0, <1>3, <2>1, AnsweredRaises
<1>5. StoreInv' /\ FilesStay
  BY <1>0, <1>4 DEF StoreInv, FilesStay
<1>6. Returns(t)
  BY <1>0, <1>1, EndsIsReturns DEF HoldsParsed, HoldsRaw
<1>7. Shape' /\ OthersKept(t) /\ calls'[t] = NoCall
  BY <1>0, <1>5, <1>6, ReturnsInShape
<1>8. \A n \in Nat, f \in Files : Bounded(n, f) => Bounded(n, f)'
  BY <1>0, <1>5, <1>7, EndsKeepsBounds
<1>9. ASSUME NEW j \in Keys, entries[j] # None
      PROVE Bounded(entries[j].stamp, entries[j].file)'
  <2>1. entries[j].stamp \in Nat /\ entries[j].file \in Files
    BY <1>0, <1>9 DEF StoreInv, Contents
  <2>2. Bounded(entries[j].stamp, entries[j].file)
    BY <1>9 DEF Fresh, BoundInv
  <2> QED BY <1>0, <1>8, <2>1, <2>2 DEF Bounded
<1>10. ASSUME NEW j \in Keys, NEW f \in Files
       PROVE Bounded(known[j][f], f)'
  <2>1. known[j][f] \in Nat /\ Bounded(known[j][f], f) /\ Bounded(g.stamp, g.file)
    BY <1>0, <1>1, <1>2 DEF StoreInv, Fresh, BoundInv
  <2>2. PICK n \in Nat : n = known'[j][f]
    BY <1>4
  <2>3. Bounded(n, f)
    BY <1>2, <1>4, <2>1, <2>2
  <2> QED BY <1>8, <2>2, <2>3 DEF Bounded
<1>11. entries[k] # None /\ entries[k].file = g.file => g.stamp <= entries[k].stamp
  <2>1. CASE calls[t].pc = "answer"
    BY <1>2, <2>1 DEF Fresh, CacheInv
  <2>2. CASE calls[t].pc # "answer"
    <3>1. calls[t].op = "data" /\ calls[t].view = None /\ g.file = calls[t].file
      BY <1>0, <1>1, <1>2, <2>2
    <3>2. k = <<"raw", g.file>>
      BY <3>1 DEF Key
    <3> QED BY <1>1, <1>2, <3>2 DEF Fresh, BoundInv, Bounded
  <2> QED BY <2>1, <2>2
<1>12. CacheInv'
  <2>1. ASSUME NEW j \in Keys, entries[j] # None
        PROVE known'[j][entries[j].file] <= entries[j].stamp
    <3>1. entries[j].file \in Files /\ known[j][entries[j].file] <= entries[j].stamp
      BY <1>0, <2>1 DEF StoreInv, Contents, Fresh, CacheInv
    <3> QED BY <1>4, <1>11, <2>1, <3>1
  <2>2. \A u \in Threads : calls'[u] = calls[u] \/ (u = t /\ calls'[u] = NoCall)
    BY <1>7 DEF OthersKept
  <2>3. ASSUME NEW u \in Threads, calls[u].op = "view", calls[u].pc \in {"keep", "convert"}
        PROVE known'[Key(calls[u])][calls[u].got.file] <= calls[u].got.stamp
    <3>1. /\ Key(calls[u]) \in Keys /\ Key(calls[u]) = <<"parsed", calls[u].view>>
          /\ calls[u].got # None
      <4>1. CallOK(calls[u])
        BY <1>0 DEF CallsInv
      <4> QED BY <2>3, <4>1, KeyIsKey, NoneIsApart DEF CallOK, Asks, Key
    <3>2. calls[u].got.file \in Files
      BY <1>0, <3>1, GotIsContent
    <3>3. known[Key(calls[u])][calls[u].got.file] <= calls[u].got.stamp
      BY <2>3 DEF Fresh, CacheInv
    <3>4. CASE Key(calls[u]) = k /\ calls[u].got.file = g.file
      <4>1. calls[t].view = calls[u].view /\ calls[t].pc = "answer"
        BY <1>0, <3>1, <3>4 DEF Key
      <4>2. g.stamp <= calls[u].got.stamp
        BY <1>2, <2>3, <3>4, <4>1 DEF Fresh, CacheInv
      <4> QED BY <1>4, <3>1, <3>2, <3>3, <4>2
    <3>5. CASE ~(Key(calls[u]) = k /\ calls[u].got.file = g.file)
      BY <1>4, <3>1, <3>2, <3>3, <3>5
    <3> QED BY <3>4, <3>5
  <2>4. NoCall.pc = "idle"
    BY DEF NoCall
  <2>5. ASSUME NEW u \in Threads, calls'[u].pc = "answer"
        PROVE calls'[u] = calls[u]
    BY <2>2, <2>4, <2>5
  <2>6. ASSUME NEW u \in Threads, calls'[u].pc \in {"keep", "convert"}
        PROVE calls'[u] = calls[u]
    BY <2>2, <2>4, <2>6
  <2>7. ASSUME NEW u \in Threads, calls'[u].pc = "answer", entries[Key(calls'[u])] # None,
               entries[Key(calls'[u])].file = calls'[u].got.file
        PROVE calls'[u].got.stamp <= entries[Key(calls'[u])].stamp
    BY <2>5, <2>7 DEF Fresh, CacheInv
  <2>8. ASSUME NEW u \in Threads, calls'[u].op = "view", calls'[u].pc \in {"keep", "convert"}
        PROVE /\ known'[Key(calls'[u])][calls'[u].got.file] <= calls'[u].got.stamp
              /\ \A w \in Threads :
                   calls'[w].pc = "answer" /\ calls'[w].view = calls'[u].view
                     /\ calls'[w].got.file = calls'[u].got.file =>
                       calls'[w].got.stamp <= calls'[u].got.stamp
    BY <2>3, <2>5, <2>6, <2>8 DEF Fresh, CacheInv
  <2>9. entries' = entries
    BY <1>0
  <2> QED BY <2>1, <2>7, <2>8, <2>9 DEF CacheInv, Key
<1>13. (\A j \in Keys : entries[j] # None => Bounded(entries[j].stamp, entries[j].file))'
  BY <1>0, <1>9
<1>14. (\A j \in Keys, f \in Files : Bounded(known[j][f], f))'
  BY <1>10
<1> QED BY <1>0, <1>4, <1>7, <1>12, <1>13, <1>14, EndsFresh

\* A view is kept: it is no older than what was answered of it, and nobody else
\* loads one.
LEMMA StoreKeeps ==
  ASSUME Shape, Fresh, NEW t \in Threads, Store(t)
  PROVE Shape' /\ Fresh'
<1> DEFINE k == Key(calls[t])
<1>0. /\ CallsInv /\ LockInv /\ StoreInv /\ CallOK(calls[t])
      /\ UNCHANGED <<files, clock, config>> /\ Returns(t)
      /\ calls[t].pc = "convert" /\ calls[t].view # None
  BY DEF Store, At, Shape, CallsInv, disk
<1>1. calls[t].op = "view" /\ calls[t].view \in Views /\ calls[t].got # None
  BY <1>0 DEF CallOK, Asks, CallTypes, Operations, Writes
<1>2. PICK g \in Contents : g = calls[t].got /\ g.stamp \in Nat /\ g.file \in Files
  BY <1>0, <1>1, GotIsContent
<1>3. k \in Keys /\ k = <<"parsed", calls[t].view>>
  BY <1>0, <1>1, KeyIsKey DEF Asks, Key
<1>4. \A f \in Files : <<"raw", f>> \in Keys \ {k}
  BY <1>3 DEF Keys
<1>5. /\ known' \in [Keys -> [Files -> Nat]]
      /\ \A j \in Keys, f \in Files :
           /\ known[j][f] <= known'[j][f]
           /\ known'[j][f] = known[j][f] \/ (j = k /\ f = g.file /\ known'[j][f] = g.stamp)
  <2>1. known' = [known EXCEPT ![k][g.file] = Newer(@, g.stamp)]
    BY <1>2 DEF Store, Answered
  <2> HIDE DEF k
  <2> QED BY <1>0, <1>3, <2>1, AnsweredRaises
<1>6. /\ entries' \in [Keys -> Contents \cup {None}] /\ entries'[k] = g
      /\ \A j \in Keys \ {k} : entries'[j] = entries[j] \/ entries'[j] = None
  <2>1. Insert(k, g)
    BY <1>2 DEF Store
  <2> HIDE DEF k
  <2> QED BY <1>0, <1>3, <2>1, Inserts DEF StoreInv
<1>7. \A f \in Files : entries'[<<"raw", f>>] = entries[<<"raw", f>>] \/ entries'[<<"raw", f>>] = None
  BY <1>4, <1>6
<1>8. StoreInv' /\ FilesStay
  BY <1>0, <1>5, <1>6, <1>7 DEF StoreInv, FilesStay
<1>9. Shape' /\ OthersKept(t) /\ calls'[t] = NoCall
  BY <1>0, <1>7, <1>8, ReturnsInShape
<1>10. \A n \in Nat, f \in Files : Bounded(n, f) => Bounded(n, f)'
  BY <1>0, <1>7, <1>8, <1>9, EndsKeepsBounds
<1>11. Bounded(g.stamp, g.file)
  BY <1>1, <1>2 DEF Fresh, BoundInv
<1>12. ASSUME NEW j \in Keys, entries'[j] # None
       PROVE Bounded(entries[j].stamp, entries[j].file)'
  <2>1. CASE j = k
    BY <1>2, <1>6, <1>10, <1>11, <2>1 DEF Bounded
  <2>2. CASE j # k
    <3>1. entries'[j] = entries[j] /\ entries[j].stamp \in Nat /\ entries[j].file \in Files
      BY <1>0, <1>6, <1>12, <2>2 DEF StoreInv, Contents
    <3>2. Bounded(entries[j].stamp, entries[j].file)
      BY <1>12, <3>1 DEF Fresh, BoundInv
    <3> QED BY <1>10, <3>1, <3>2 DEF Bounded
  <2> QED BY <2>1, <2>2
<1>13. ASSUME NEW j \in Keys, NEW f \in Files
       PROVE Bounded(known[j][f], f)'
  <2>1. known[j][f] \in Nat /\ Bounded(known[j][f], f)
    BY <1>0 DEF StoreInv, Fresh, BoundInv
  <2>2. PICK n \in Nat : n = known'[j][f]
    BY <1>5
  <2>3. Bounded(n, f)
    BY <1>5, <1>11, <2>1, <2>2
  <2> QED BY <1>10, <2>2, <2>3 DEF Bounded
<1>14. \A u \in Threads \ {t} : calls'[u] = calls[u]
  BY <1>9 DEF OthersKept
<1>15. NoCall.pc = "idle"
  BY DEF NoCall
<1>16. CacheInv'
  <2>1. ASSUME NEW j \in Keys, entries'[j] # None
        PROVE known'[j][entries'[j].file] <= entries'[j].stamp
    <3>1. CASE j = k
      <4>1. known[k][g.file] <= g.stamp
        BY <1>0, <1>1, <1>2 DEF Fresh, CacheInv
      <4>2. known'[k][g.file] \in {known[k][g.file], g.stamp}
        BY <1>2, <1>3, <1>5
      <4>3. known'[k][g.file] <= g.stamp
        BY <1>2, <4>1, <4>2
      <4> QED BY <1>6, <3>1, <4>3
    <3>2. CASE j # k
      <4>1. entries'[j] = entries[j] /\ entries[j].file \in Files
        BY <1>0, <1>6, <2>1, <3>2 DEF StoreInv, Contents
      <4>2. known[j][entries[j].file] <= entries[j].stamp
        BY <2>1, <4>1 DEF Fresh, CacheInv
      <4> QED BY <1>5, <3>2, <4>1, <4>2
    <3> QED BY <3>1, <3>2
  <2>2. ASSUME NEW u \in Threads \ {t}, calls[u].pc = "answer", entries'[Key(calls[u])] # None,
               entries'[Key(calls[u])].file = calls[u].got.file
        PROVE calls[u].got.stamp <= entries'[Key(calls[u])].stamp
    <3>1. calls[u].op = "view" /\ calls[u].view \in Views /\ CallOK(calls[u])
      <4>1. CallOK(calls[u])
        BY <1>0 DEF CallsInv
      <4> QED BY <2>2, <4>1 DEF CallOK, CallTypes, Operations, Writes, Asks
    <3>2. Key(calls[u]) \in Keys /\ Key(calls[u]) = <<"parsed", calls[u].view>>
      BY <2>2, <3>1, KeyIsKey, NoneIsApart DEF Asks, Key
    <3>3. CASE Key(calls[u]) = k
      <4>1. calls[u].view = calls[t].view /\ calls[u].got.file = g.file
        BY <1>3, <1>6, <2>2, <3>2, <3>3
      <4>2. calls[u].got.stamp <= g.stamp
        BY <1>0, <1>1, <1>2, <2>2, <4>1 DEF Fresh, CacheInv
      <4> QED BY <1>6, <3>3, <4>2
    <3>4. CASE Key(calls[u]) # k
      <4>1. entries'[Key(calls[u])] = entries[Key(calls[u])]
        BY <1>6, <2>2, <3>2, <3>4
      <4> QED BY <2>2, <4>1 DEF Fresh, CacheInv
    <3> QED BY <3>3, <3>4
  <2>3. ASSUME NEW u \in Threads \ {t}, calls[u].op = "view"
        PROVE calls[u].pc \notin {"keep", "convert"}
    BY <1>0, <1>1, <2>3 DEF LockInv, HoldsParsed
  <2>4. ASSUME NEW u \in Threads, calls'[u].pc = "answer", entries'[Key(calls'[u])] # None,
               entries'[Key(calls'[u])].file = calls'[u].got.file
        PROVE calls'[u].got.stamp <= entries'[Key(calls'[u])].stamp
    <3>1. u # t /\ calls'[u] = calls[u]
      BY <1>9, <1>14, <1>15, <2>4
    <3> QED BY <2>2, <2>4, <3>1
  <2>5. ASSUME NEW u \in Threads, calls'[u].op = "view"
        PROVE calls'[u].pc \notin {"keep", "convert"}
    BY <1>9, <1>14, <1>15, <2>3, <2>5
  <2> QED BY <2>1, <2>4, <2>5 DEF CacheInv, Key
<1>17. (\A j \in Keys : entries[j] # None => Bounded(entries[j].stamp, entries[j].file))'
  BY <1>12
<1>18. (\A j \in Keys, f \in Files : Bounded(known[j][f], f))'
  BY <1>13
<1> QED BY <1>0, <1>5, <1>7, <1>9, <1>16, <1>17, <1>18, EndsFresh

\* A cleared cache: nobody else loads, and what the files hold bounds all that is known.
LEMMA EmptyKeeps ==
  ASSUME Shape, Fresh, NEW t \in Threads, Empty(t)
  PROVE Shape' /\ Fresh'
<1>0. /\ CallsInv /\ LockInv /\ StoreInv /\ CallOK(calls[t])
      /\ UNCHANGED <<files, clock, config>> /\ Returns(t) /\ calls[t].pc = "empty"
      /\ entries' = [k \in Keys |-> None]
      /\ known' = [k \in Keys |-> [f \in Files |-> StampOf(f)]]
  BY DEF Empty, At, Shape, CallsInv, disk, StampOf
<1>1. calls[t].op = "clear"
  BY <1>0 DEF CallOK, CallTypes, Operations, Writes, Asks
<1>2. \A f \in Files : StampOf(f) \in Nat /\ StampOf(f)' = StampOf(f) /\ <<"raw", f>> \in Keys
  BY <1>0, StampsAreNumbers DEF StampOf, Keys
<1>3. \A k \in Keys : entries'[k] = None /\ \A f \in Files : known'[k][f] = StampOf(f)
  BY <1>0
<1>4. known' \in [Keys -> [Files -> Nat]] /\ entries' \in [Keys -> Contents \cup {None}]
  BY <1>0, <1>2
<1>5. StoreInv' /\ FilesStay
  BY <1>0, <1>2, <1>3, <1>4 DEF StoreInv, FilesStay
<1>6. Shape' /\ OthersKept(t) /\ calls'[t] = NoCall
  BY <1>0, <1>2, <1>3, <1>5, ReturnsInShape
<1>7. HoldsParsed(calls[t]) /\ HoldsRaw(calls[t])
  BY <1>0, <1>1 DEF HoldsParsed, HoldsRaw
<1>8. ASSUME NEW u \in Threads \ {t}
      PROVE calls[u].pc # "keep" /\ (calls[u].op = "view" => calls[u].pc # "convert")
  <2>1. CallOK(calls[u]) /\ ~HoldsParsed(calls[u]) /\ ~HoldsRaw(calls[u])
    BY <1>0, <1>7 DEF LockInv, CallsInv
  <2>2. calls[u].pc = "keep" => calls[u].op \in Asks /\ config.cached
    BY <1>0, <2>1 DEF CallsInv, CallOK, CallTypes, Operations, Writes, Asks
  <2> QED BY <2>1, <2>2 DEF HoldsParsed, HoldsRaw
<1>9. \A u \in Threads : /\ calls'[u].pc # "keep"
                         /\ calls'[u].op = "view" => calls'[u].pc # "convert"
  BY <1>6, <1>8 DEF OthersKept, NoCall
<1>10. (\A k \in Keys : entries[k] # None => Bounded(entries[k].stamp, entries[k].file))'
  BY <1>3
<1>11. (\A k \in Keys, f \in Files : Bounded(known[k][f], f))'
  <2>1. ASSUME NEW k \in Keys, NEW f \in Files PROVE Bounded(known[k][f], f)'
    <3>1. known'[k][f] <= StampOf(f)'
      <4>1. PICK n \in Nat : n = StampOf(f)
        BY <1>2
      <4>2. known'[k][f] = n /\ StampOf(f)' = n
        BY <1>2, <1>3, <4>1
      <4> QED BY <4>2
    <3>2. entries'[<<"raw", f>>] = None
      BY <1>2, <1>3
    <3> QED BY <1>9, <3>1, <3>2 DEF Bounded
  <2> QED BY <2>1
<1>12. \A k \in Keys, f \in Files : known[k][f] <= known'[k][f]
  BY <1>3 DEF Fresh, BoundInv, Bounded
<1>13. CacheInv'
  <2>1. ASSUME NEW u \in Threads, calls'[u].pc = "answer"
        PROVE entries'[Key(calls'[u])] = None
    <3>1. calls'[u].pc # "idle" /\ CallOK(calls'[u])
      BY <1>6, <2>1 DEF Shape, CallsInv
    <3>2. calls'[u].op \in Asks
      BY <2>1, <3>1 DEF CallOK, CallTypes, Operations, Writes, Asks
    <3> QED BY <1>3, <3>1, <3>2, KeyIsKey
  <2> QED BY <1>3, <1>9, <2>1 DEF CacheInv, Key
<1>14. \A f \in Files : entries'[<<"raw", f>>] = None
  BY <1>2, <1>3
<1> QED BY <1>0, <1>6, <1>10, <1>11, <1>12, <1>13, <1>14, EndsFresh

-----------------------------------------------------------------------------
(* The theorems.                                                           *)

\* Every step keeps the invariant.
LEMMA StepKeeps ==
  ASSUME Shape, Fresh, [Next]_vars
  PROVE Shape' /\ Fresh'
<1>1. CASE UNCHANGED vars
  <2>1. UNCHANGED <<files, clock, locks, entries, calls, config, known>>
    BY <1>1 DEF vars, disk, mutexes, cache
  <2>2. CallsInv' /\ StoreInv' /\ LockInv' /\ RawInv'
    BY <2>1 DEF Shape, CallsInv, StoreInv, LockInv, HoldsParsed, HoldsRaw, RawInv
  <2>3. BoundInv' /\ CacheInv' /\ FloorInv'
    BY <2>1 DEF Fresh, BoundInv, Bounded, StampOf, CacheInv, FloorInv, Key
  <2> QED BY <2>2, <2>3 DEF Shape, Fresh
<1>2. ASSUME NEW t \in Threads, Begin(t) \/ Step(t) \/ StepFails(t) \/ Panics(t)
      PROVE Shape' /\ Fresh'
  BY <1>2, BeginKeeps, StepFailsKeeps, PanicsKeeps, LockKeeps, LockPoisonedKeeps, EmptyKeeps,
     LookKeeps, CheckKeeps, FindKeeps, ReadKeeps, KeepKeeps, StoreKeeps, AnswerKeeps,
     LoadKeeps, OpenKeeps, FlushKeeps DEF Step
<1> QED BY <1>1, <1>2 DEF Next

\* Locks, places, files, entries and all that bounds what is answered next stay
\* as they should, for every schedule of the providers' and storages' calls.
THEOREM CacheInvariant == Spec => []IInv
<1>1. Init => Shape /\ Fresh
  BY StartsRight
<1>2. (Shape /\ Fresh) /\ [Next]_vars => (Shape /\ Fresh)'
  BY StepKeeps
<1>3. Shape /\ Fresh => IInv
  BY DEF Shape, Fresh, IInv
<1> QED BY <1>1, <1>2, <1>3, PTL DEF Spec

\* At most one thread loads a calendar, or clears the cache, at a time, and of
\* those that load raw lines at most one can be between finding none and keeping
\* its own (parsed_loading and raw_loading).
LoadsAlone ==
  \A t, u \in Threads : t # u =>
    /\ ~(HoldsParsed(calls[t]) /\ HoldsParsed(calls[u]))
    /\ ~(HoldsRaw(calls[t]) /\ HoldsRaw(calls[u]))

\* Two loads never overlap.
THEOREM LoadersAreAlone == Spec => []LoadsAlone
<1>1. IInv => LoadsAlone
  BY DEF IInv, LockInv, LoadsAlone
<1> QED BY <1>1, CacheInvariant, PTL

\* No answer of a calendar goes back behind one that was given before it began,
\* or behind what the file had when the cache was cleared, for any threads,
\* files, capacities, writes, failures and panics (CalendarCache).
THEOREM AnswersAreCurrent == Spec => []AnswersNeverGoBack
<1>1. IInv => AnswersNeverGoBack
  <2> SUFFICES ASSUME IInv, NEW t \in Threads, calls[t].got # None
               PROVE calls[t].got.stamp >= calls[t].floor[calls[t].got.file]
    BY DEF AnswersNeverGoBack
  <2>1. CallsInv /\ CallOK(calls[t])
    BY DEF IInv, CallsInv
  <2>2. calls[t].op \in Asks /\ calls[t].floor \in [Files -> Nat]
    BY <2>1 DEF CallOK, CallTypes, Operations, Writes, Asks
  <2>3. calls[t].got.stamp \in Nat /\ calls[t].got.file \in Files
    BY <2>1, GotIsContent
  <2>4. calls[t].floor[calls[t].got.file] <= calls[t].got.stamp
    BY <2>2 DEF IInv, FloorInv
  <2> QED BY <2>2, <2>3, <2>4
<1> QED BY <1>1, CacheInvariant, PTL

-----------------------------------------------------------------------------
(* The order of use.                                                       *)

OrderOK(order) == /\ order \in Seq(Keys)
                  /\ \A i, j \in 1 .. Len(order) : order[i] = order[j] => i = j

\* Each key that is cached has one place in the order, and no other has any.
OrderInv ==
  /\ OrderOK(recency)
  /\ entries \in [Keys -> Contents \cup {None}]
  /\ \A k \in Keys : Contains(recency, k) <=> entries[k] # None
  /\ config \in ConfigTypes
  /\ config.capacity # None => Len(recency) <= config.capacity

\* Where the keys are when one is taken out.
LEMMA RemovedAt ==
  ASSUME NEW s \in Seq(Keys), NEW i \in 1 .. Len(s)
  PROVE /\ RemoveAt(s, i) \in Seq(Keys) /\ Len(RemoveAt(s, i)) = Len(s) - 1
        /\ \A j \in 1 .. Len(s) - 1 : RemoveAt(s, i)[j] = IF j < i THEN s[j] ELSE s[j + 1]
<1> DEFINE a == SubSeq(s, 1, i - 1)
           b == SubSeq(s, i + 1, Len(s))
<1>1. Len(s) \in Nat /\ i \in Nat /\ i >= 1 /\ i <= Len(s)
  OBVIOUS
<1>2. a \in Seq(Keys) /\ Len(a) = i - 1 /\ \A j \in 1 .. i - 1 : a[j] = s[j]
  BY <1>1, SubSeqProperties
<1>3. b \in Seq(Keys) /\ Len(b) = Len(s) - i /\ \A j \in 1 .. Len(s) - i : b[j] = s[j + i]
  BY <1>1, SubSeqProperties
<1> HIDE DEF a, b
<1>4. /\ a \o b \in Seq(Keys) /\ Len(a \o b) = Len(a) + Len(b)
      /\ \A j \in 1 .. Len(a) + Len(b) : (a \o b)[j] = IF j <= Len(a) THEN a[j] ELSE b[j - Len(a)]
  BY <1>2, <1>3, ConcatProperties
<1>5. ASSUME NEW j \in 1 .. Len(s) - 1
      PROVE (a \o b)[j] = IF j < i THEN s[j] ELSE s[j + 1]
  BY <1>1, <1>2, <1>3, <1>4
<1>6. RemoveAt(s, i) = a \o b
  BY DEF RemoveAt, a, b
<1>7. Len(a \o b) = Len(s) - 1
  BY <1>1, <1>2, <1>3, <1>4
<1> QED BY <1>4, <1>5, <1>6, <1>7, Zenon

\* Taking a key out leaves the others, each where it was once.
LEMMA WithoutKey ==
  ASSUME NEW s, OrderOK(s), NEW k
  PROVE LET w == Without(s, k)
        IN /\ OrderOK(w)
           /\ \A x : Contains(w, x) <=> Contains(s, x) /\ x # k
           /\ Len(w) = IF Contains(s, k) THEN Len(s) - 1 ELSE Len(s)
<1> DEFINE w == Without(s, k)
           i == CHOOSE j \in 1 .. Len(s) : s[j] = k
<1>1. CASE ~Contains(s, k)
  BY <1>1 DEF Without
<1>2. CASE Contains(s, k)
  <2>1. i \in 1 .. Len(s) /\ s[i] = k
    BY <1>2 DEF Contains
  <2>2. w = RemoveAt(s, i)
    BY <1>2 DEF Without
  <2> HIDE DEF i, w
  <2>3. /\ w \in Seq(Keys) /\ Len(w) = Len(s) - 1
        /\ \A j \in 1 .. Len(s) - 1 : w[j] = IF j < i THEN s[j] ELSE s[j + 1]
    BY <2>1, <2>2, RemovedAt DEF OrderOK
  <2>4. Len(s) \in Nat /\ \A j, l \in 1 .. Len(s) : s[j] = s[l] => j = l
    BY DEF OrderOK
  <2>5. ASSUME NEW j \in 1 .. Len(w), NEW l \in 1 .. Len(w), w[j] = w[l] PROVE j = l
    BY <2>1, <2>3, <2>4, <2>5
  <2>6. ASSUME NEW x PROVE Contains(w, x) <=> Contains(s, x) /\ x # k
    <3>1. ASSUME NEW j \in 1 .. Len(w), w[j] = x PROVE Contains(s, x) /\ x # k
      <4>1. CASE j < i
        BY <2>1, <2>3, <2>4, <3>1, <4>1 DEF Contains
      <4>2. CASE ~(j < i)
        BY <2>1, <2>3, <2>4, <3>1, <4>2 DEF Contains
      <4> QED BY <4>1, <4>2
    <3>2. ASSUME NEW j \in 1 .. Len(s), s[j] = x, x # k PROVE Contains(w, x)
      <4>1. j # i
        BY <2>1, <3>2
      <4>2. CASE j < i
        <5>1. j \in 1 .. Len(w) /\ w[j] = x
          BY <2>1, <2>3, <2>4, <3>2, <4>2
        <5> QED BY <5>1 DEF Contains
      <4>3. CASE j > i
        <5>1. j - 1 \in 1 .. Len(w) /\ w[j - 1] = x
          BY <2>1, <2>3, <2>4, <3>2, <4>3
        <5> QED BY <5>1 DEF Contains
      <4> QED BY <2>1, <2>4, <4>1, <4>2, <4>3
    <3> QED BY <3>1, <3>2 DEF Contains
  <2> QED BY <1>2, <2>3, <2>5, <2>6 DEF OrderOK, w
<1> QED BY <1>1, <1>2

\* A key that is added is the last.
LEMMA KeyAdded ==
  ASSUME NEW s, OrderOK(s), NEW k \in Keys, ~Contains(s, k)
  PROVE /\ OrderOK(Append(s, k)) /\ Len(Append(s, k)) = Len(s) + 1
        /\ \A x : Contains(Append(s, k), x) <=> Contains(s, x) \/ x = k
<1> DEFINE w == Append(s, k)
<1>1. /\ w \in Seq(Keys) /\ Len(w) = Len(s) + 1 /\ Len(s) \in Nat
      /\ \A j \in 1 .. Len(s) : w[j] = s[j]
      /\ w[Len(s) + 1] = k
  BY DEF OrderOK
<1>2. \A j \in 1 .. Len(w) : j \in 1 .. Len(s) \/ j = Len(s) + 1
  BY <1>1
<1> HIDE DEF w
<1>3. ASSUME NEW j \in 1 .. Len(w), NEW l \in 1 .. Len(w), w[j] = w[l] PROVE j = l
  BY <1>1, <1>2, <1>3 DEF OrderOK, Contains
<1>4. ASSUME NEW x PROVE Contains(w, x) <=> Contains(s, x) \/ x = k
  <2>1. ASSUME NEW j \in 1 .. Len(w), w[j] = x PROVE Contains(s, x) \/ x = k
    BY <1>1, <1>2, <2>1 DEF Contains
  <2>2. ASSUME NEW j \in 1 .. Len(s), s[j] = x PROVE Contains(w, x)
    <3>1. j \in 1 .. Len(w) /\ w[j] = x
      BY <1>1, <2>2
    <3> QED BY <3>1 DEF Contains
  <2>3. Len(s) + 1 \in 1 .. Len(w)
    BY <1>1
  <2> QED BY <1>1, <2>1, <2>2, <2>3 DEF Contains
<1> QED BY <1>1, <1>3, <1>4 DEF OrderOK, w

\* The key that falls out is the first.
LEMMA FirstFallsOut ==
  ASSUME NEW s, OrderOK(s), s # <<>>
  PROVE /\ OrderOK(Tail(s)) /\ Len(Tail(s)) = Len(s) - 1 /\ Head(s) \in Keys
        /\ \A x : Contains(Tail(s), x) <=> Contains(s, x) /\ x # Head(s)
<1> DEFINE w == Tail(s)
<1>1. /\ w \in Seq(Keys) /\ Len(w) = Len(s) - 1 /\ Len(s) \in Nat \ {0}
      /\ \A j \in 1 .. Len(w) : w[j] = s[j + 1]
      /\ Head(s) = s[1] /\ Head(s) \in Keys
  BY DEF OrderOK
<1>2. \A j, l \in 1 .. Len(s) : s[j] = s[l] => j = l
  BY DEF OrderOK
<1> HIDE DEF w
<1>3. ASSUME NEW j \in 1 .. Len(w), NEW l \in 1 .. Len(w), w[j] = w[l] PROVE j = l
  BY <1>1, <1>2, <1>3
<1>4. ASSUME NEW x PROVE Contains(w, x) <=> Contains(s, x) /\ x # Head(s)
  <2>1. ASSUME NEW j \in 1 .. Len(w), w[j] = x PROVE Contains(s, x) /\ x # Head(s)
    BY <1>1, <1>2, <2>1 DEF Contains
  <2>2. ASSUME NEW j \in 1 .. Len(s), s[j] = x, x # Head(s) PROVE Contains(w, x)
    <3>1. j - 1 \in 1 .. Len(w) /\ w[j - 1] = x
      BY <1>1, <2>2
    <3> QED BY <3>1 DEF Contains
  <2> QED BY <2>1, <2>2 DEF Contains
<1> QED BY <1>1, <1>3, <1>4 DEF OrderOK, w

\* A key that is used goes to the end of the order.
LEMMA UsedLast ==
  ASSUME NEW s, OrderOK(s), NEW k \in Keys
  PROVE LET w == Append(Without(s, k), k)
        IN /\ OrderOK(w)
           /\ \A x : Contains(w, x) <=> Contains(s, x) \/ x = k
           /\ Len(w) = IF Contains(s, k) THEN Len(s) ELSE Len(s) + 1
<1> DEFINE v == Without(s, k)
<1>1. /\ OrderOK(v) /\ \A x : Contains(v, x) <=> Contains(s, x) /\ x # k
      /\ Len(v) = IF Contains(s, k) THEN Len(s) - 1 ELSE Len(s)
  BY WithoutKey
<1> HIDE DEF v
<1>2. /\ OrderOK(Append(v, k)) /\ Len(Append(v, k)) = Len(v) + 1
      /\ \A x : Contains(Append(v, k), x) <=> Contains(v, x) \/ x = k
  BY <1>1, KeyAdded
<1>3. Len(s) \in Nat
  BY DEF OrderOK
<1>4. Len(Append(v, k)) = IF Contains(s, k) THEN Len(s) ELSE Len(s) + 1
  BY <1>1, <1>2, <1>3
<1>5. \A x : Contains(Append(v, k), x) <=> Contains(s, x) \/ x = k
  BY <1>1, <1>2
<1> QED BY <1>2, <1>4, <1>5 DEF v

\* A look at a key changes the order only.
LEMMA TouchKeepsOrder ==
  ASSUME OrderInv, NEW k \in Keys, recency' = Touched(k), UNCHANGED <<entries, config>>
  PROVE OrderInv'
<1>1. CASE Contains(recency, k)
  <2> DEFINE w == Append(Without(recency, k), k)
  <2>1. OrderOK(w) /\ (\A x : Contains(w, x) <=> Contains(recency, x) \/ x = k)
        /\ Len(w) = Len(recency)
    BY <1>1, UsedLast DEF OrderInv
  <2>2. recency' = w
    BY <1>1 DEF Touched
  <2> HIDE DEF w
  <2>3. \A x : Contains(w, x) <=> Contains(recency, x)
    BY <1>1, <2>1
  <2>4. OrderOK(recency)' /\ (\A x : Contains(recency, x)' <=> Contains(recency, x))
        /\ Len(recency') = Len(recency)
    BY <2>1, <2>2, <2>3 DEF OrderOK, Contains
  <2> QED BY <2>4 DEF OrderInv
<1>2. CASE ~Contains(recency, k)
  <2>1. recency' = recency
    BY <1>2 DEF Touched
  <2> QED BY <2>1 DEF OrderInv, OrderOK, Contains
<1> QED BY <1>1, <1>2

\* An insertion puts the key last, and the first one out when there is no room.
LEMMA InsertKeepsOrder ==
  ASSUME OrderInv, NEW k \in Keys, NEW g \in Contents, Insert(k, g), config' = config
  PROVE OrderInv'
<1>0. /\ entries' \in [Keys -> Contents \cup {None}] /\ entries'[k] = g /\ g # None
  BY Inserts, NoneIsApart DEF OrderInv
<1>1. CASE config.capacity # None /\ ~Contains(recency, k) /\ Len(recency) >= config.capacity
  <2>1. config.capacity \in Nat \ {0} /\ Len(recency) <= config.capacity /\ Len(recency) \in Nat
    BY <1>1 DEF OrderInv, OrderOK, ConfigTypes
  <2>2. recency # <<>>
    BY <1>1, <2>1
  <2> DEFINE v == Tail(recency)
             h == Head(recency)
             w == Append(v, k)
  <2>3. /\ OrderOK(v) /\ Len(v) = Len(recency) - 1 /\ h \in Keys
        /\ \A x : Contains(v, x) <=> Contains(recency, x) /\ x # h
    BY <2>2, FirstFallsOut DEF OrderInv
  <2>4. recency' = w /\ entries' = [[entries EXCEPT ![h] = None] EXCEPT ![k] = g]
    BY <1>1 DEF Insert, Evicted
  <2> HIDE DEF v, h
  <2>5. /\ OrderOK(w) /\ Len(w) = Len(v) + 1
        /\ \A x : Contains(w, x) <=> Contains(v, x) \/ x = k
    BY <1>1, <2>3, KeyAdded
  <2> HIDE DEF w
  <2>6. Len(w) <= config.capacity
    BY <2>1, <2>3, <2>5
  <2>7. \A x \in Keys : entries'[x] = IF x = k THEN g ELSE IF x = h THEN None ELSE entries[x]
    BY <2>4 DEF OrderInv
  <2>8. \A x \in Keys : Contains(w, x) <=> entries'[x] # None
    BY <1>0, <2>3, <2>5, <2>7 DEF OrderInv
  <2> QED BY <1>0, <2>4, <2>5, <2>6, <2>8 DEF OrderInv, OrderOK, Contains
<1>2. CASE ~(config.capacity # None /\ ~Contains(recency, k) /\ Len(recency) >= config.capacity)
  <2> DEFINE w == Append(Without(recency, k), k)
  <2>1. /\ OrderOK(w) /\ \A x : Contains(w, x) <=> Contains(recency, x) \/ x = k
        /\ Len(w) = IF Contains(recency, k) THEN Len(recency) ELSE Len(recency) + 1
    BY UsedLast DEF OrderInv
  <2>2. recency' = w /\ entries' = [entries EXCEPT ![k] = g]
    BY <1>2 DEF Insert
  <2> HIDE DEF w
  <2>3. config.capacity # None => Len(w) <= config.capacity
    <3>1. ASSUME config.capacity # None PROVE Len(w) <= config.capacity
      <4>1. config.capacity \in Nat /\ Len(recency) <= config.capacity /\ Len(recency) \in Nat
        BY <3>1 DEF OrderInv, OrderOK, ConfigTypes
      <4> QED BY <1>2, <2>1, <3>1, <4>1
    <3> QED BY <3>1
  <2>4. \A x \in Keys : entries'[x] = IF x = k THEN g ELSE entries[x]
    BY <2>2 DEF OrderInv
  <2>5. \A x \in Keys : Contains(w, x) <=> entries'[x] # None
    BY <1>0, <2>1, <2>4 DEF OrderInv
  <2> QED BY <1>0, <2>1, <2>2, <2>3, <2>5 DEF OrderInv, OrderOK, Contains
<1> QED BY <1>1, <1>2

\* Every step keeps the order and the entries together.
LEMMA NextKeepsOrder ==
  ASSUME IInv, OrderInv, [Next]_vars PROVE OrderInv'
<1>1. ASSUME UNCHANGED <<cache, config>> PROVE OrderInv'
  BY <1>1 DEF OrderInv, OrderOK, Contains, cache
<1>2. CASE UNCHANGED vars
  BY <1>1, <1>2 DEF vars
<1>3. ASSUME NEW t \in Threads, Begin(t) \/ Step(t) \/ StepFails(t) \/ Panics(t)
      PROVE OrderInv'
  <2>1. CallsInv /\ CallOK(calls[t]) /\ calls[t] \in CallTypes
    BY DEF IInv, CallsInv, CallOK
  <2>2. CASE Begin(t) \/ StepFails(t) \/ Panics(t)
    BY <1>1, <2>2 DEF Begin, StepFails, Panics
  <2>3. CASE Lock(t) \/ LockPoisoned(t) \/ Check(t) \/ Read(t) \/ Answer(t)
    BY <1>1, <2>3 DEF Lock, LockPoisoned, Check, Read, Answer
  <2>4. CASE Load(t) \/ Open(t) \/ Flush(t)
    BY <1>1, <2>4 DEF Load, Open, Flush
  <2>5. CASE Empty(t)
    <3>1. recency' = <<>> /\ entries' = [k \in Keys |-> None] /\ config' = config
      BY <2>5 DEF Empty
    <3> QED BY <3>1 DEF OrderInv, OrderOK, Contains, ConfigTypes
  <2>6. CASE Look(t)
    <3>1. Key(calls[t]) \in Keys
      BY <2>1, <2>6, KeyIsKey DEF Look, At, Asks
    <3> QED BY <2>6, <3>1, TouchKeepsOrder DEF Look
  <2>7. CASE Find(t)
    <3>1. <<"raw", calls[t].file>> \in Keys
      BY <2>1, <2>7 DEF Find, At, CallOK, Keys
    <3> QED BY <2>7, <3>1, TouchKeepsOrder DEF Find
  <2>8. CASE Keep(t)
    <3>1. <<"raw", calls[t].file>> \in Keys /\ calls[t].got \in Contents
      <4>1. At(t, "keep")  BY <2>8 DEF Keep
      <4>2. calls[t].op # "clear" /\ calls[t].got # None
        BY <2>1, <4>1 DEF At, CallOK
      <4> QED BY <2>1, <4>1, <4>2 DEF At, CallOK, CallTypes, Keys
    <3> QED BY <2>8, <3>1, InsertKeepsOrder DEF Keep
  <2>9. CASE Store(t)
    <3>1. At(t, "convert") /\ calls[t].got \in Contents
      BY <2>1, <2>9 DEF Store, At, CallOK, CallTypes
    <3>2. calls[t].op \in Asks
      BY <2>1, <3>1 DEF At, CallOK, CallTypes, Operations, Writes, Asks
    <3>3. Key(calls[t]) \in Keys
      BY <2>1, <3>1, <3>2, KeyIsKey DEF At
    <3> QED BY <2>9, <3>1, <3>3, InsertKeepsOrder DEF Store
  <2> QED BY <1>3, <2>2, <2>3, <2>4, <2>5, <2>6, <2>7, <2>8, <2>9 DEF Step
<1> QED BY <1>2, <1>3 DEF Next

\* An order without repetition is as long as the set of its keys.
LEMMA LengthIsCount ==
  ASSUME NEW s, OrderOK(s) PROVE Len(s) = Cardinality(ToSet(s))
<1>1. Len(s) \in Nat /\ s \in [1 .. Len(s) -> ToSet(s)]
      /\ \A x \in ToSet(s) : \E i \in 1 .. Len(s) : s[i] = x
  BY DEF OrderOK, ToSet
<1>2. s \in Bijection(1 .. Len(s), ToSet(s))
  BY <1>1, Fun_IsBij DEF OrderOK
<1>3. ExistsBijection(1 .. Len(s), ToSet(s))
  BY <1>2 DEF ExistsBijection
<1>4. IsFiniteSet(1 .. Len(s)) /\ Cardinality(1 .. Len(s)) = Len(s)
  <2>1. 1 \in Int /\ Len(s) \in Int
    BY <1>1
  <2>2. IsFiniteSet(1 .. Len(s))
        /\ Cardinality(1 .. Len(s)) = IF 1 > Len(s) THEN 0 ELSE Len(s) - 1 + 1
    BY <2>1, FS_Interval
  <2> QED BY <1>1, <2>2
<1> QED BY <1>3, <1>4, FS_Bijection

\* Cached are exactly the keys in the order of use, each once, and no more than
\* the budget, for any capacity and any interleaving of loads, clears, evictions
\* and failures.
THEOREM OrderMatchesEntries == Spec => []EntriesMatchRecency
<1>1. Init => OrderInv
  <2> SUFFICES ASSUME Init PROVE OrderInv
    OBVIOUS
  <2>1. recency = <<>> /\ entries = [k \in Keys |-> None] /\ config \in ConfigTypes
    BY CalendarAssumption DEF Init
  <2> QED BY <2>1 DEF OrderInv, OrderOK, Contains, ConfigTypes
<1>2. IInv /\ OrderInv /\ [Next]_vars => OrderInv'
  BY NextKeepsOrder
<1>3. OrderInv => EntriesMatchRecency
  <2> SUFFICES ASSUME OrderInv PROVE EntriesMatchRecency
    OBVIOUS
  <2>1. ToSet(recency) = {k \in Keys : entries[k] # None}
    <3>1. \A k \in ToSet(recency) : k \in Keys /\ Contains(recency, k)
      BY DEF OrderInv, OrderOK, ToSet, Contains
    <3>2. \A k \in Keys : Contains(recency, k) => k \in ToSet(recency)
      BY DEF OrderInv, OrderOK, ToSet, Contains
    <3> QED BY <3>1, <3>2 DEF OrderInv
  <2> QED BY <2>1, LengthIsCount DEF OrderInv, EntriesMatchRecency
<1> QED BY CacheInvariant, <1>1, <1>2, <1>3, PTL DEF Spec
=============================================================================
