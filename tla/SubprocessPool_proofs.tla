------------------------ MODULE SubprocessPool_proofs ------------------------
(***************************************************************************)
(* Proofs about SubprocessPool, for any number of children, batches, ids,  *)
(* pipes and failures: answers belong to their requests, an open pool is   *)
(* quiet between two calls, and close reaps.  The id that travels plays no *)
(* part: what is on the way between parent and child is one line of        *)
(* serials (Line), and its head is what the parent waits for.              *)
(***************************************************************************)
EXTENDS SubprocessPool, TLAPS

-----------------------------------------------------------------------------
(* The invariant.                                                          *)

Reading == {"read_id", "read_payload", "read_sum", "check"}
Working == {"handle", "payload", "header", "mapped"}

Responses == [serial : Int, status : {"ok", "failure"}]
Requests == [serial : Int, kind : {"call", "close"}]
Jobs == [serial : Int, kind : {"none", "call", "close"}]
Mapping == [payload : Int, id : Int, sum : Int]
Answers == [serial : Int, status : {"ok", "failure"}, value : Int]

PoolTypes ==
  /\ setup \in Setups
  /\ requests \in [Env -> Seq(Requests)] /\ responses \in [Env -> Seq(Responses)]
  /\ job \in [Env -> Jobs]
  /\ serving \in [Env -> Working \cup {"read", "write", "last", "exit"}]
  /\ child \in [Env -> {"none", "running", "dead", "reaped"}]
  /\ region \in [Env -> Mapping]
  /\ batch \in Seq([env : Env, serial : Int])
  /\ frame \in [serial : Int, status : {"none", "ok", "failure"}] /\ seen \in Mapping
  /\ answers \in Seq(Answers)
  /\ nextRequest \in Int /\ pos \in Int

\* Where a call can be.
Control ==
  /\ op \in {"none", "batch", "close", "terminate"}
  /\ op = "none" => phase = "idle"
  /\ op = "batch" => phase \in {"send", "sending", "receive"} \cup Reading /\ state = "Open"
  /\ op = "close" => phase \in {"send", "sending", "receive", "check", "wait"} /\ state = "Open"
  /\ op = "terminate" => phase = "kill" /\ state = "Poisoned"

\* The requests of a batch are numbered as they are made; those before the
\* place the call is at have been sent, and then answered, one by one.
BatchInv ==
  /\ \A i, j \in DOMAIN batch : i < j => batch[i].serial < batch[j].serial
  /\ op = "batch" => /\ pos \in 1 .. Len(batch) + 1
                     /\ phase \in {"sending"} \cup Reading => pos <= Len(batch)
                     /\ phase \in {"send", "sending"} => answers = <<>>
                     /\ phase \in {"receive"} \cup Reading => Len(answers) = pos - 1
                     /\ phase \in Reading => frame.serial = At.serial /\ frame.status # "none"
                     /\ phase \in Reading \ {"check"} => setup.shared
  /\ op \in {"close", "terminate"} => batch = <<>> /\ answers = <<>>

\* What parent and child e owe each other.
Outstanding(i) ==
  op = "batch" /\ \/ phase = "send" /\ i < pos
                  \/ phase = "sending" /\ i <= pos
                  \/ phase = "receive" /\ i >= pos
                  \/ phase \in Reading /\ i > pos
Owed(e) == {batch[i].serial : i \in {j \in DOMAIN batch : batch[j].env = e /\ Outstanding(j)}}

Held(e) == IF serving[e] \in Working THEN {job[e]} ELSE {}

\* The responses rs of a child, the request it works on and those it has not
\* read are the serials owed, each once and in order.  Only a child that runs
\* no more may have lost some, none of them before one that is there.
Line(owed, rs, held, qs, running) ==
  /\ \A n \in DOMAIN rs : rs[n].serial \in owed
  /\ \A j \in held : j.serial \in owed /\ j.kind = "call"
  /\ \A n \in DOMAIN qs : qs[n].serial \in owed /\ qs[n].kind = "call"
  /\ \A m, n \in DOMAIN rs : m < n => rs[m].serial < rs[n].serial
  /\ \A m, n \in DOMAIN qs : m < n => qs[m].serial < qs[n].serial
  /\ \A m \in DOMAIN rs, j \in held : rs[m].serial < j.serial
  /\ \A m \in DOMAIN qs, j \in held : j.serial < qs[m].serial
  /\ \A m \in DOMAIN rs, n \in DOMAIN qs : rs[m].serial < qs[n].serial
  /\ \A s \in owed : \/ \E n \in DOMAIN rs : rs[n].serial = s
                     \/ \E j \in held : j.serial = s
                     \/ \E n \in DOMAIN qs : qs[n].serial = s
                     \/ ~running /\ \A n \in DOMAIN rs : rs[n].serial < s

\* Until the pool fails or is closed, for then nobody reads any more.
Orderly == state \in {"building", "Open"} /\ op \in {"none", "batch"}

Lines == Orderly => \A e \in Env : Line(Owed(e), responses[e], Held(e), requests[e],
                                        child[e] = "running")

\* A child that serves no more has failed, and the parent is to find out.
Damaged(e) == \/ \E n \in DOMAIN responses[e] : responses[e][n].status = "failure"
              \/ phase = "check" /\ frame.status = "failure" /\ At.env = e
              \/ \E i \in DOMAIN answers : answers[i].status = "failure"
              \/ /\ child[e] # "running"
                 /\ \E s \in Owed(e) : \A n \in DOMAIN responses[e] : responses[e][n].serial < s
Served == Orderly => \A e \in Env : serving[e] \in {"last", "exit"} =>
                                      op = "batch" /\ Damaged(e)

\* A caller may ask for one environment twice in a batch, but then the second
\* observation can be in the mapped region before the first was read.
AsksOnce == setup.shared => \A ids \in setup.batches : \A i, j \in DOMAIN ids :
                                i # j => ids[i] # ids[j]

\* Otherwise a mapped observation stays there until it was read.
MapInv == setup.shared /\ AsksOnce /\ Orderly =>
  /\ \A i, j \in DOMAIN batch : i # j => batch[i].env # batch[j].env
  /\ \A e \in Env : /\ \A n \in DOMAIN responses[e] : responses[e][n].status = "ok" =>
                                              region[e].payload = responses[e][n].serial
                    /\ serving[e] \in {"header", "mapped"} => region[e].payload = job[e].serial
  /\ op = "batch" /\ phase \in Reading /\ frame.status = "ok" =>
       region[At.env].payload = At.serial
  /\ op = "batch" /\ phase \in {"read_sum", "check"} /\ frame.status = "ok" =>
       seen.payload = At.serial

\* What close has done so far.
CloseInv ==
  /\ fault \in BOOLEAN /\ (op # "terminate" => ~fault)
  /\ op \in {"close", "terminate"} => pos \in Env
  /\ op = "close" => \A e \in Env : e < pos => child[e] = "reaped"
  /\ op = "terminate" => \A e \in Env :
                            e < pos => child[e] = "reaped" \/ (e \in unkilled /\ fault)
  /\ state = "Closed" => op = "none"

Places == PoolTypes /\ Control /\ BatchInv /\ CloseInv
PoolInv == Places /\ Lines /\ Served

-----------------------------------------------------------------------------
(* Lines.                                                                  *)

\* The parent sends a request with a serial greater than all that are owed.
LEMMA LineSend ==
  ASSUME NEW owed \in SUBSET Int, NEW rs \in Seq(Responses), NEW held \in SUBSET Jobs,
         NEW qs \in Seq(Requests), NEW running, Line(owed, rs, held, qs, running),
         NEW q \in Requests, q.kind = "call", \A s \in owed : s < q.serial
  PROVE  Line(owed \cup {q.serial}, rs, held, Append(qs, q), running)
<1> DEFINE qs1 == Append(qs, q)
<1>1. /\ \A n \in DOMAIN qs : n \in DOMAIN qs1 /\ qs1[n] = qs[n]
      /\ \A n \in DOMAIN qs1 : n \in DOMAIN qs \/ qs1[n] = q
      /\ Len(qs) + 1 \in DOMAIN qs1 /\ qs1[Len(qs) + 1] = q
      /\ \A m, n \in DOMAIN qs1 : m < n => m \in DOMAIN qs
  OBVIOUS
<1>2. q.serial \in Int /\ \A n \in DOMAIN qs : qs[n].serial \in owed
  BY DEF Requests, Line
<1> HIDE DEF qs1
<1>3. \A m, n \in DOMAIN qs1 : m < n => qs1[m].serial < qs1[n].serial
  BY <1>1, <1>2 DEF Line
<1>4. \A s \in owed \cup {q.serial} :
         \/ \E n \in DOMAIN rs : rs[n].serial = s
         \/ \E j \in held : j.serial = s
         \/ \E n \in DOMAIN qs1 : qs1[n].serial = s
         \/ ~running /\ \A n \in DOMAIN rs : rs[n].serial < s
  BY <1>1 DEF Line
<1>5. /\ \A m \in DOMAIN qs1, j \in held : j.serial < qs1[m].serial
      /\ \A m \in DOMAIN rs, n \in DOMAIN qs1 : rs[m].serial < qs1[n].serial
      /\ \A n \in DOMAIN qs1 : qs1[n].serial \in owed \cup {q.serial} /\ qs1[n].kind = "call"
  BY <1>1, <1>2 DEF Line
<1>6. /\ \A n \in DOMAIN rs : rs[n].serial \in owed \cup {q.serial}
      /\ \A j \in held : j.serial \in owed \cup {q.serial} /\ j.kind = "call"
      /\ \A m, n \in DOMAIN rs : m < n => rs[m].serial < rs[n].serial
      /\ \A m \in DOMAIN rs, j \in held : rs[m].serial < j.serial
  BY DEF Line
<1> QED  BY <1>3, <1>4, <1>5, <1>6 DEF qs1, Line

\* What the tail of a sequence is.
LEMMA TailIs ==
  ASSUME NEW T, NEW q \in Seq(T), q # <<>>
  PROVE  /\ Tail(q) \in Seq(T) /\ Head(q) = q[1] /\ 1 \in DOMAIN q
         /\ \A n \in DOMAIN Tail(q) : n + 1 \in DOMAIN q /\ Tail(q)[n] = q[n + 1]
         /\ \A n \in DOMAIN q : n # 1 => n - 1 \in DOMAIN Tail(q) /\ Tail(q)[n - 1] = q[n]
         /\ DOMAIN q \subseteq Nat /\ DOMAIN Tail(q) \subseteq Nat
OBVIOUS

\* The parent takes a response: it is to the first request that is owed.
LEMMA LineReceive ==
  ASSUME NEW owed \in SUBSET Int, NEW rs \in Seq(Responses), NEW held \in SUBSET Jobs,
         NEW qs \in Seq(Requests), NEW running, Line(owed, rs, held, qs, running),
         rs # <<>>, NEW s \in owed, \A r \in owed : s <= r
  PROVE  /\ rs[1].serial = s
         /\ Line(owed \ {s}, Tail(rs), held, qs, running)
<1>1. /\ Tail(rs) \in Seq(Responses) /\ 1 \in DOMAIN rs
      /\ \A n \in DOMAIN Tail(rs) : n + 1 \in DOMAIN rs /\ Tail(rs)[n] = rs[n + 1]
      /\ \A n \in DOMAIN rs : n # 1 => n - 1 \in DOMAIN Tail(rs) /\ Tail(rs)[n - 1] = rs[n]
      /\ DOMAIN rs \subseteq 1 .. Len(rs) /\ DOMAIN Tail(rs) \subseteq Nat
      /\ \A n \in DOMAIN Tail(rs) : n + 1 > 1
  BY TailIs
<1> DEFINE tl == Tail(rs)
<1> HIDE DEF tl
<1>2. /\ \A n \in DOMAIN rs : rs[n].serial \in Int
      /\ \A j \in held : j.serial \in Int
      /\ \A n \in DOMAIN qs : qs[n].serial \in Int
      /\ \A n \in DOMAIN rs : n # 1 => 1 < n
  <2>1. \A n \in DOMAIN rs : n # 1 => 1 < n
    BY <1>1
  <2> QED  BY <2>1 DEF Line
<1>3. rs[1].serial = s
  <2>1. s <= rs[1].serial
    BY <1>1 DEF Line
  <2>2. CASE \E n \in DOMAIN rs : rs[n].serial = s
    <3>1. PICK n \in DOMAIN rs : rs[n].serial = s
      BY <2>2
    <3>2. n # 1 => rs[1].serial < s
      BY <1>1, <1>2, <3>1 DEF Line
    <3>3. rs[1].serial \in Int /\ s \in Int
      BY <1>1, <1>2
    <3> QED  BY <2>1, <3>1, <3>2, <3>3
  <2>3. CASE rs[1].serial < s
    BY <1>1, <1>2, <2>1, <2>3
  <2>4. (\E n \in DOMAIN rs : rs[n].serial = s) \/ rs[1].serial < s
    BY <1>1 DEF Line
  <2> QED  BY <2>2, <2>3, <2>4
<1>4. \A n \in DOMAIN tl : tl[n].serial > s /\ tl[n].serial \in owed
  BY <1>1, <1>3 DEF Line, tl
<1>5. /\ \A j \in held : j.serial > s
      /\ \A n \in DOMAIN qs : qs[n].serial > s
  BY <1>1, <1>3 DEF Line
<1>6. \A m, n \in DOMAIN tl : m < n => tl[m].serial < tl[n].serial
  <2>1. \A m, n \in DOMAIN tl : m < n => m + 1 < n + 1
    BY <1>1 DEF tl
  <2> QED  BY <1>1, <2>1 DEF Line, tl
<1>7. /\ \A m \in DOMAIN tl, j \in held : tl[m].serial < j.serial
      /\ \A m \in DOMAIN tl, n \in DOMAIN qs : tl[m].serial < qs[n].serial
  BY <1>1 DEF Line, tl
<1>8. ASSUME NEW r \in owed \ {s}
      PROVE  \/ \E n \in DOMAIN tl : tl[n].serial = r
             \/ \E j \in held : j.serial = r
             \/ \E n \in DOMAIN qs : qs[n].serial = r
             \/ ~running /\ \A n \in DOMAIN tl : tl[n].serial < r
  <2>1. CASE \E n \in DOMAIN rs : rs[n].serial = r
    BY <1>1, <1>3, <2>1 DEF tl
  <2>2. CASE ~running /\ \A n \in DOMAIN rs : rs[n].serial < r
    BY <1>1, <2>2 DEF tl
  <2> QED  BY <2>1, <2>2 DEF Line
<1>9. /\ \A j \in held : j.serial \in owed \ {s} /\ j.kind = "call"
      /\ \A n \in DOMAIN qs : qs[n].serial \in owed \ {s} /\ qs[n].kind = "call"
      /\ \A n \in DOMAIN tl : tl[n].serial \in owed \ {s}
  BY <1>4, <1>5 DEF Line
<1> QED  BY <1>3, <1>6, <1>7, <1>8, <1>9 DEF Line, tl

\* The child takes up the next request.
LEMMA LineRead ==
  ASSUME NEW owed \in SUBSET Int, NEW rs \in Seq(Responses), NEW qs \in Seq(Requests),
         NEW running, Line(owed, rs, {}, qs, running), qs # <<>>
  PROVE  Line(owed, rs, {Head(qs)}, Tail(qs), running)
<1>1. /\ Head(qs) = qs[1] /\ 1 \in DOMAIN qs
      /\ \A n \in DOMAIN Tail(qs) : n + 1 \in DOMAIN qs /\ Tail(qs)[n] = qs[n + 1]
      /\ \A n \in DOMAIN qs : n # 1 => n - 1 \in DOMAIN Tail(qs) /\ Tail(qs)[n - 1] = qs[n]
      /\ \A n \in DOMAIN Tail(qs) : 1 < n + 1
      /\ \A m, n \in DOMAIN Tail(qs) : m < n => m + 1 < n + 1
  BY TailIs
<1> DEFINE tl == Tail(qs)
           h == Head(qs)
<1> HIDE DEF tl, h
<1>2. \A m, n \in DOMAIN tl : m < n => tl[m].serial < tl[n].serial
  BY <1>1 DEF Line, tl
<1>3. /\ \A m \in DOMAIN rs : rs[m].serial < h.serial
      /\ \A m \in DOMAIN tl : h.serial < tl[m].serial
      /\ \A m \in DOMAIN rs, n \in DOMAIN tl : rs[m].serial < tl[n].serial
  BY <1>1 DEF Line, tl, h
<1>4. ASSUME NEW s \in owed
      PROVE  \/ \E n \in DOMAIN rs : rs[n].serial = s
             \/ h.serial = s
             \/ \E n \in DOMAIN tl : tl[n].serial = s
             \/ ~running /\ \A n \in DOMAIN rs : rs[n].serial < s
  <2>1. CASE \E n \in DOMAIN qs : qs[n].serial = s
    BY <1>1, <2>1 DEF tl, h
  <2> QED  BY <2>1 DEF Line
<1>5. /\ h.serial \in owed /\ h.kind = "call"
      /\ \A n \in DOMAIN tl : tl[n].serial \in owed /\ tl[n].kind = "call"
  BY <1>1 DEF Line, tl, h
<1>6. /\ \A n \in DOMAIN rs : rs[n].serial \in owed
      /\ \A m, n \in DOMAIN rs : m < n => rs[m].serial < rs[n].serial
  BY DEF Line
<1> QED  BY <1>2, <1>3, <1>4, <1>5, <1>6 DEF Line, tl, h

\* The child answers the request it works on.
LEMMA LineRespond ==
  ASSUME NEW owed \in SUBSET Int, NEW rs \in Seq(Responses), NEW j \in Jobs,
         NEW qs \in Seq(Requests), Line(owed, rs, {j}, qs, TRUE),
         NEW r \in Responses, r.serial = j.serial
  PROVE  Line(owed, Append(rs, r), {}, qs, TRUE)
<1> DEFINE rs1 == Append(rs, r)
<1>1. /\ \A n \in DOMAIN rs : n \in DOMAIN rs1 /\ rs1[n] = rs[n]
      /\ \A n \in DOMAIN rs1 : n \in DOMAIN rs \/ rs1[n] = r
      /\ Len(rs) + 1 \in DOMAIN rs1 /\ rs1[Len(rs) + 1] = r
      /\ \A m, n \in DOMAIN rs1 : m < n => m \in DOMAIN rs
  OBVIOUS
<1> HIDE DEF rs1
<1>2. \A m, n \in DOMAIN rs1 : m < n => rs1[m].serial < rs1[n].serial
  BY <1>1 DEF Line
<1>3. \A m \in DOMAIN rs1, n \in DOMAIN qs : rs1[m].serial < qs[n].serial
  BY <1>1 DEF Line
<1>4. ASSUME NEW s \in owed
      PROVE  \/ \E n \in DOMAIN rs1 : rs1[n].serial = s
             \/ \E n \in DOMAIN qs : qs[n].serial = s
  <2>1. CASE \E n \in DOMAIN rs : rs[n].serial = s
    BY <1>1, <2>1
  <2>2. CASE j.serial = s
    BY <1>1, <2>2
  <2> QED  BY <2>1, <2>2 DEF Line
<1>5. /\ \A n \in DOMAIN rs1 : rs1[n].serial \in owed
      /\ \A n \in DOMAIN qs : qs[n].serial \in owed /\ qs[n].kind = "call"
      /\ \A m, n \in DOMAIN qs : m < n => qs[m].serial < qs[n].serial
  BY <1>1 DEF Line
<1> QED  BY <1>2, <1>3, <1>4, <1>5 DEF Line, rs1

\* The child dies, perhaps in its last response.
LEMMA LineDies ==
  ASSUME NEW owed \in SUBSET Int, NEW rs \in Seq(Responses), NEW held \in SUBSET Jobs,
         NEW qs \in Seq(Requests), NEW running, Line(owed, rs, held, qs, running)
  PROVE  /\ Line(owed, rs, held, qs, FALSE)
         /\ Len(rs) > 0 => /\ Line(owed, SubSeq(rs, 1, Len(rs) - 1), held, qs, FALSE)
                           /\ \A n \in DOMAIN SubSeq(rs, 1, Len(rs) - 1) :
                                SubSeq(rs, 1, Len(rs) - 1)[n].serial < rs[Len(rs)].serial
<1>1. Line(owed, rs, held, qs, FALSE)
  BY DEF Line
<1>2. ASSUME Len(rs) > 0
      PROVE  /\ Line(owed, SubSeq(rs, 1, Len(rs) - 1), held, qs, FALSE)
             /\ \A n \in DOMAIN SubSeq(rs, 1, Len(rs) - 1) :
                  SubSeq(rs, 1, Len(rs) - 1)[n].serial < rs[Len(rs)].serial
  <2> DEFINE rs1 == SubSeq(rs, 1, Len(rs) - 1)
             last == Len(rs)
  <2>1. /\ \A n \in DOMAIN rs1 : n \in DOMAIN rs /\ rs1[n] = rs[n] /\ n < last
        /\ \A n \in DOMAIN rs : n \in DOMAIN rs1 \/ n = last
        /\ last \in DOMAIN rs
    BY <1>2
  <2> HIDE DEF rs1, last
  <2>2. \A n \in DOMAIN rs1 : rs1[n].serial < rs[last].serial
    BY <2>1 DEF Line
  <2>3. /\ \A m, n \in DOMAIN rs1 : m < n => rs1[m].serial < rs1[n].serial
        /\ \A n \in DOMAIN rs1 : rs1[n].serial \in owed
        /\ \A m \in DOMAIN rs1, j \in held : rs1[m].serial < j.serial
        /\ \A m \in DOMAIN rs1, n \in DOMAIN qs : rs1[m].serial < qs[n].serial
    BY <2>1 DEF Line
  <2>4. ASSUME NEW s \in owed
        PROVE  \/ \E n \in DOMAIN rs1 : rs1[n].serial = s
               \/ \E j \in held : j.serial = s
               \/ \E n \in DOMAIN qs : qs[n].serial = s
               \/ \A n \in DOMAIN rs1 : rs1[n].serial < s
    <3>1. CASE \E n \in DOMAIN rs : rs[n].serial = s
      BY <2>1, <2>2, <3>1
    <3>2. CASE \A n \in DOMAIN rs : rs[n].serial < s
      BY <2>1, <3>2
    <3> QED  BY <3>1, <3>2 DEF Line
  <2>5. /\ \A j \in held : j.serial \in owed /\ j.kind = "call"
        /\ \A n \in DOMAIN qs : qs[n].serial \in owed /\ qs[n].kind = "call"
        /\ \A m, n \in DOMAIN qs : m < n => qs[m].serial < qs[n].serial
        /\ \A m \in DOMAIN qs, j \in held : j.serial < qs[m].serial
    BY DEF Line
  <2>6. Line(owed, rs1, held, qs, FALSE)
    BY <2>3, <2>4, <2>5 DEF Line
  <2> QED  BY <2>2, <2>6 DEF rs1, last
<1> QED  BY <1>1, <1>2

\* Nothing is on the way when nothing is owed.
LEMMA LineEmpty ==
  ASSUME NEW rs \in Seq(Responses), NEW held, NEW qs \in Seq(Requests), NEW running
  PROVE  /\ Line({}, <<>>, {}, <<>>, running)
         /\ Line({}, rs, held, qs, running) => rs = <<>> /\ held = {} /\ qs = <<>>
<1>1. Line({}, <<>>, {}, <<>>, running)
  BY DEF Line
<1>2. ASSUME Line({}, rs, held, qs, running) PROVE rs = <<>> /\ held = {} /\ qs = <<>>
  <2>1. DOMAIN rs = {} /\ held = {} /\ DOMAIN qs = {}
    BY <1>2 DEF Line
  <2> QED  BY <2>1
<1> QED  BY <1>1, <1>2

-----------------------------------------------------------------------------
(* Types and places.                                                       *)

\* What a sequence holds.
LEMMA ElementOf ==
  ASSUME NEW T, NEW q \in Seq(T), NEW n \in DOMAIN q
  PROVE  q[n] \in T
OBVIOUS

\* The request the parent is at.
LEMMA AtIsTyped ==
  ASSUME PoolTypes, BatchInv, op = "batch", pos <= Len(batch)
  PROVE  pos \in DOMAIN batch /\ At.env \in Env /\ At.serial \in Int
<1>1. pos \in DOMAIN batch
  BY DEF PoolTypes, BatchInv
<1>2. batch \in Seq([env : Env, serial : Int])
  BY DEF PoolTypes
<1>3. batch[pos] \in [env : Env, serial : Int]
  BY <1>1, <1>2, ElementOf
<1> QED  BY <1>1, <1>3 DEF At

LEMMA WireIdIsTyped ==
  ASSUME PoolTypes, NEW s \in Int
  PROVE  WireId(s) \in Int
<1>1. setup.span \in Nat \ {0}
  BY PoolAssumption DEF PoolTypes
<1> QED  BY <1>1 DEF WireId

\* Taking a response out of its pipe.
LEMMA TakeIsTyped ==
  ASSUME PoolTypes, NEW e \in Env, TakeResponse(e)
  PROVE  /\ responses[e] # <<>> /\ frame' = responses[e][1]
         /\ frame' \in Responses /\ responses' \in [Env -> Seq(Responses)]
         /\ responses'[e] = Tail(responses[e])
         /\ \A d \in Env \ {e} : responses'[d] = responses[d]
<1>1. responses[e] \in Seq(Responses) /\ responses[e] # <<>>
  BY DEF PoolTypes, TakeResponse
<1>2. /\ Tail(responses[e]) \in Seq(Responses)
      /\ responses[e][1] \in Responses /\ Head(responses[e]) = responses[e][1]
  BY <1>1
<1> QED  BY <1>1, <1>2 DEF PoolTypes, TakeResponse

\* Writing a request.
LEMMA PostIsTyped ==
  ASSUME PoolTypes, NEW e \in Env, NEW kind \in {"call", "close"}, NEW s \in Int,
         Post(e, kind, s)
  PROVE  /\ requests' \in [Env -> Seq(Requests)]
         /\ requests'[e] = Append(requests[e], [serial |-> s, kind |-> kind])
         /\ \A d \in Env \ {e} : requests'[d] = requests[d]
<1> DEFINE q == [serial |-> s, kind |-> kind]
<1>1. q \in Requests /\ requests \in [Env -> Seq(Requests)] /\ requests[e] \in Seq(Requests)
  BY DEF Requests, PoolTypes
<1> HIDE DEF q
<1>2. Append(requests[e], q) \in Seq(Requests)
  BY <1>1
<1>3. requests' = [requests EXCEPT ![e] = Append(requests[e], q)]
  BY DEF Post, q
<1> QED  BY <1>1, <1>2, <1>3 DEF q

\* Giving a request up, perhaps by cutting it off.
LEMMA FailIsTyped ==
  ASSUME PoolTypes, NEW e \in Env, Fails(e)
  PROVE  requests' \in [Env -> Seq(Requests)]
<1>1. requests \in [Env -> Seq(Requests)] /\ requests[e] \in Seq(Requests)
  BY DEF PoolTypes
<1>2. CASE UNCHANGED requests
  BY <1>1, <1>2
<1>3. CASE WriteTimesOut(e) /\ Unpost(e)
  <2>1. setup.room \in Nat /\ ~(Len(requests[e]) <= setup.room)
    BY <1>3, PoolAssumption DEF PoolTypes, WriteTimesOut, Written
  <2>2. Len(requests[e]) > 0
    BY <1>1, <2>1
  <2>3. SubSeq(requests[e], 1, Len(requests[e]) - 1) \in Seq(Requests)
    BY <1>1, <2>2
  <2>4. requests' = [requests EXCEPT ![e] = SubSeq(requests[e], 1, Len(requests[e]) - 1)]
    BY <1>3 DEF Unpost
  <2> QED  BY <1>1, <2>3, <2>4
<1> QED  BY <1>2, <1>3 DEF Fails

\* Every step keeps the types: those of the children.
LEMMA WorkerKeepsTypes ==
  ASSUME PoolTypes, setup' = setup, NEW e \in Env, WorkerStep(e)
  PROVE  PoolTypes'
<1>2. /\ requests[e] \in Seq(Requests) /\ responses[e] \in Seq(Responses) /\ job[e] \in Jobs
      /\ region[e] \in Mapping
  BY DEF PoolTypes
<1>3. ASSUME NEW status \in {"ok", "failure"}, Respond(e, status)
      PROVE  /\ responses' \in [Env -> Seq(Responses)]
             /\ serving' \in [Env -> Working \cup {"read", "write", "last", "exit"}]
  <2> DEFINE r == [serial |-> job[e].serial, status |-> status]
  <2>1. r \in Responses
    BY <1>2 DEF Jobs, Responses
  <2>2. responses' = [responses EXCEPT ![e] = Append(responses[e], r)]
    BY <1>3 DEF Respond
  <2>3. Append(responses[e], r) \in Seq(Responses)
    BY <1>2, <2>1
  <2> HIDE DEF r
  <2>4. responses' \in [Env -> Seq(Responses)]
    BY <2>2, <2>3 DEF PoolTypes
  <2>5. serving' \in [Env -> Working \cup {"read", "write", "last", "exit"}]
    BY <1>3 DEF Respond, PoolTypes
  <2> QED  BY <2>4, <2>5
<1>4. CASE WorkerRead(e)
  <2>1. Head(requests[e]) \in Requests /\ Tail(requests[e]) \in Seq(Requests)
    BY <1>2, <1>4 DEF WorkerRead
  <2>2. Head(requests[e]) \in Jobs
    BY <2>1 DEF Requests, Jobs
  <2>3. job' \in [Env -> Jobs] /\ requests' \in [Env -> Seq(Requests)]
    BY <1>4, <2>1, <2>2 DEF WorkerRead, PoolTypes
  <2>4. serving' \in [Env -> Working \cup {"read", "write", "last", "exit"}]
    BY <1>4 DEF WorkerRead, PoolTypes, Working
  <2> QED  BY <1>4, <2>3, <2>4 DEF WorkerRead, ChildStep, PoolTypes, parentVars
<1>5. CASE WorkerHandles(e)
  <2>1. /\ responses' \in [Env -> Seq(Responses)]
        /\ serving' \in [Env -> Working \cup {"read", "write", "last", "exit"}]
    <3>1. CASE setup.shared /\ job[e].kind = "call"
      BY <1>5, <3>1 DEF WorkerHandles, PoolTypes, Working
    <3> QED  BY <1>3, <1>5, <3>1 DEF WorkerHandles
  <2> QED  BY <1>5, <2>1 DEF WorkerHandles, ChildStep, PoolTypes, parentVars
<1>6. CASE WorkerFails(e)
  BY <1>3, <1>6 DEF WorkerFails, ChildStep, PoolTypes, parentVars
<1>7. CASE WorkerMapped(e)
  BY <1>3, <1>7 DEF WorkerMapped, ChildStep, PoolTypes, parentVars
<1>8. CASE WriteRegionPayload(e)
  <2>1. job[e].serial \in Int
    BY <1>2 DEF Jobs
  <2>2. region' = [region EXCEPT ![e] = [region[e] EXCEPT !.payload = job[e].serial]]
    BY <1>8 DEF WriteRegionPayload
  <2>3. [region[e] EXCEPT !.payload = job[e].serial] \in Mapping
    BY <1>2, <2>1 DEF Mapping
  <2>4. region' \in [Env -> Mapping]
    BY <2>2, <2>3 DEF PoolTypes
  <2>5. serving' \in [Env -> Working \cup {"read", "write", "last", "exit"}]
    BY <1>8 DEF WriteRegionPayload, PoolTypes, Working
  <2> QED  BY <1>8, <2>4, <2>5 DEF WriteRegionPayload, ChildStep, PoolTypes, parentVars
<1>9. CASE WriteRegionHeader(e)
  <2>1. job[e].serial \in Int
    BY <1>2 DEF Jobs
  <2> DEFINE id == WireId(job[e].serial)
  <2>2. id \in Int
    BY <2>1, WireIdIsTyped
  <2>3. region' = [region EXCEPT ![e] = [region[e] EXCEPT !.id = id, !.sum = job[e].serial]]
    BY <1>9 DEF WriteRegionHeader
  <2> HIDE DEF id
  <2>4. [region[e] EXCEPT !.id = id, !.sum = job[e].serial] \in Mapping
    BY <1>2, <2>1, <2>2 DEF Mapping
  <2>5. region' \in [Env -> Mapping]
    BY <2>3, <2>4 DEF PoolTypes
  <2>6. serving' \in [Env -> Working \cup {"read", "write", "last", "exit"}]
    BY <1>9 DEF WriteRegionHeader, PoolTypes, Working
  <2> QED  BY <1>9, <2>5, <2>6 DEF WriteRegionHeader, ChildStep, PoolTypes, parentVars
<1>10. CASE WorkerWritten(e)
  <2>1. NoRequest \in Jobs
    BY DEF NoRequest, Jobs
  <2>2. job' \in [Env -> Jobs]
    BY <1>10, <2>1 DEF WorkerWritten, PoolTypes
  <2>3. serving' \in [Env -> Working \cup {"read", "write", "last", "exit"}]
    BY <1>10 DEF WorkerWritten, PoolTypes
  <2> QED  BY <1>10, <2>2, <2>3 DEF WorkerWritten, ChildStep, PoolTypes, parentVars
<1>11. CASE ChildDies(e)
  <2>1. responses' \in [Env -> Seq(Responses)]
    <3>1. CASE ~Written(responses[e])
      <4>1. setup.room \in Nat
        BY PoolAssumption DEF PoolTypes
      <4>2. Len(responses[e]) > 0
        BY <1>2, <3>1, <4>1 DEF Written
      <4>3. SubSeq(responses[e], 1, Len(responses[e]) - 1) \in Seq(Responses)
        BY <1>2, <4>2
      <4> QED  BY <1>11, <4>3 DEF ChildDies, PoolTypes
    <3> QED  BY <1>11, <3>1 DEF ChildDies, PoolTypes
  <2>2. child' \in [Env -> {"none", "running", "dead", "reaped"}]
    BY <1>11 DEF ChildDies, PoolTypes
  <2> QED  BY <1>11, <2>1, <2>2 DEF ChildDies, ChildStep, PoolTypes, parentVars
<1> QED  BY <1>4, <1>5, <1>6, <1>7, <1>8, <1>9, <1>10, <1>11 DEF WorkerStep

\* Those of the parent's calls.
LEMMA ParentKeepsTypes ==
  ASSUME PoolTypes, Control, BatchInv, CloseInv, ParentStep
  PROVE  PoolTypes'
<1> USE DEF wires, processes, children, parentVars
<1>1. setup' = setup
  BY DEF ParentStep
<1>2. ASSUME op = "batch", pos <= Len(batch)
      PROVE  pos \in DOMAIN batch /\ At.env \in Env /\ At.serial \in Int
  BY <1>2, AtIsTyped
<1>3. phase \in Reading => op \in {"batch", "close"}
  BY DEF Control, Reading
<1>4. op = "batch" /\ phase \in Reading => pos <= Len(batch)
  BY DEF BatchInv
<1>5. phase \in Reading \ {"check"} => op = "batch"
  BY DEF Control, Reading
<1>6. NoFrame \in [serial : Int, status : {"none", "ok", "failure"}] /\ Blank \in Mapping
  BY DEF NoFrame, Blank, Mapping
<1>7. Responses \subseteq [serial : Int, status : {"none", "ok", "failure"}]
  BY DEF Responses
<1>8. op = "close" => pos \in Env
  BY DEF CloseInv
<1>9. Size \in Nat \ {0} /\ Env \subseteq Int
  BY PoolAssumption DEF Env
<1>10. CASE BatchSend
  <2>1. At.env \in Env /\ At.serial \in Int /\ Post(At.env, "call", At.serial)
    BY <1>2, <1>10 DEF BatchSend
  <2>2. requests' \in [Env -> Seq(Requests)]
    BY <2>1, PostIsTyped
  <2> QED  BY <1>1, <1>10, <2>2 DEF PoolTypes, BatchSend
<1>11. CASE CloseSend
  <2>1. nextRequest \in Int /\ pos \in Env /\ Post(pos, "close", nextRequest)
    BY <1>8, <1>11 DEF CloseSend, PoolTypes
  <2>2. requests' \in [Env -> Seq(Requests)]
    BY <2>1, PostIsTyped
  <2> QED  BY <1>1, <1>11, <2>2 DEF PoolTypes, CloseSend
<1>12. CASE BatchSent \/ BatchAllSent
  BY <1>1, <1>12 DEF PoolTypes, BatchSent, BatchAllSent
<1>13. CASE BatchReceive
  <2>1. frame' \in Responses /\ responses' \in [Env -> Seq(Responses)]
    BY <1>2, <1>13, TakeIsTyped DEF BatchReceive
  <2> QED  BY <1>1, <1>7, <1>13, <2>1 DEF PoolTypes, BatchReceive
<1>14. CASE CloseReceive
  <2>1. frame' \in Responses /\ responses' \in [Env -> Seq(Responses)]
    BY <1>8, <1>14, TakeIsTyped DEF CloseReceive
  <2> QED  BY <1>1, <1>7, <1>14, <2>1 DEF PoolTypes, CloseReceive
<1>15. CASE ReadRegionId \/ ReadRegionPayload \/ ReadRegionSum
  <2>1. At.env \in Env
    BY <1>2, <1>4, <1>5, <1>15 DEF ReadRegionId, ReadRegionPayload, ReadRegionSum, Reading
  <2>2. region[At.env] \in Mapping /\ seen \in Mapping
    BY <2>1 DEF PoolTypes
  <2> DEFINE r == region[At.env]
  <2> HIDE DEF r
  <2>3. r.id \in Int /\ r.payload \in Int /\ r.sum \in Int
    BY <2>2 DEF r, Mapping
  <2>4. /\ [Blank EXCEPT !.id = r.id] \in Mapping
        /\ [seen EXCEPT !.payload = r.payload] \in Mapping
        /\ [seen EXCEPT !.sum = r.sum] \in Mapping
    BY <1>6, <2>2, <2>3 DEF Mapping
  <2>5. seen' \in Mapping
    BY <1>15, <2>4 DEF r, ReadRegionId, ReadRegionPayload, ReadRegionSum
  <2> QED  BY <1>1, <1>15, <2>5
           DEF PoolTypes, ReadRegionId, ReadRegionPayload, ReadRegionSum
<1>16. CASE BatchStore
  <2>1. op = "batch" /\ phase = "check" /\ pos <= Len(batch) /\ frame.status # "none"
    BY <1>16 DEF BatchStore, BatchInv, Reading
  <2>2. /\ frame.serial \in Int /\ frame.status \in {"ok", "failure"}
        /\ seen.payload \in Int
    BY <2>1 DEF PoolTypes, Mapping
  <2>3. Answer \in Answers
    BY <2>2 DEF Answer, Answers
  <2>4. answers' \in Seq(Answers)
    BY <1>16, <2>3 DEF BatchStore, PoolTypes
  <2>5. pos' \in Int
    BY <1>16 DEF BatchStore, PoolTypes
  <2> QED  BY <1>1, <1>6, <1>16, <2>4, <2>5 DEF PoolTypes, BatchStore
<1>17. CASE BatchFails \/ BatchRejects
  <2>1. requests' \in [Env -> Seq(Requests)]
    <3>1. CASE BatchFails
      <4>1. At.env \in Env /\ Fails(At.env)
        BY <1>2, <3>1 DEF BatchFails
      <4> QED  BY <4>1, FailIsTyped
    <3>2. CASE BatchRejects
      BY <3>2 DEF BatchRejects, PoolTypes
    <3> QED  BY <1>17, <3>1, <3>2
  <2>2. answers' = <<>> /\ pos' = 0 /\ frame' = NoFrame /\ seen' = Blank
        /\ UNCHANGED <<nextRequest, batch, responses, child, serving, job, region>>
    BY <1>17 DEF BatchFails, BatchRejects, GiveUp
  <2> QED  BY <1>1, <1>6, <2>1, <2>2 DEF PoolTypes
<1>18. CASE BatchFinish
  <2>1. answers' \in Seq(Answers) /\ pos' = 0
    <3>1. (answers' = <<>> \/ answers' = answers) /\ pos' = 0
      BY <1>18 DEF BatchFinish
    <3>2. answers \in Seq(Answers)
      BY DEF PoolTypes
    <3>3. <<>> \in Seq(Answers)
      OBVIOUS
    <3> QED  BY <3>1, <3>2, <3>3
  <2>2. UNCHANGED <<nextRequest, batch, frame, seen, wires, processes, children>>
    BY <1>18 DEF BatchFinish
  <2> QED  BY <1>1, <2>1, <2>2 DEF PoolTypes
<1>19. CASE CloseSent \/ CloseInput
  BY <1>1, <1>19 DEF PoolTypes, CloseSent, CloseInput
<1>20. CASE CloseReap
  <2>1. child' \in [Env -> {"none", "running", "dead", "reaped"}] /\ pos' \in Int
    <3>1. child' = [child EXCEPT ![pos] = "reaped"] /\ (pos' = pos + 1 \/ pos' = 0)
      BY <1>20 DEF CloseReap
    <3>2. pos \in Int /\ child \in [Env -> {"none", "running", "dead", "reaped"}]
      BY DEF PoolTypes
    <3>3. pos' \in Int
      BY <3>1, <3>2
    <3>4. child' \in [Env -> {"none", "running", "dead", "reaped"}]
      BY <3>1, <3>2
    <3> QED  BY <3>3, <3>4
  <2> QED  BY <1>1, <1>6, <1>20, <2>1 DEF PoolTypes, CloseReap
<1>21. CASE CloseFails \/ CloseRejects \/ CloseWaitTimesOut
  <2>1. child' \in [Env -> {"none", "running", "dead", "reaped"}]
    BY <1>21 DEF CloseFails, CloseRejects, CloseWaitTimesOut, PoolTypes
  <2>2. requests' \in [Env -> Seq(Requests)]
    <3>1. CASE CloseFails
      <4>1. pos \in Env /\ Fails(pos)
        BY <1>8, <3>1 DEF CloseFails
      <4> QED  BY <4>1, FailIsTyped
    <3>2. CASE CloseRejects \/ CloseWaitTimesOut
      BY <3>2 DEF CloseRejects, CloseWaitTimesOut, PoolTypes
    <3> QED  BY <1>21, <3>1, <3>2
  <2>3. FailClose
    BY <1>21 DEF CloseFails, CloseRejects, CloseWaitTimesOut
  <2> QED  BY <1>1, <1>6, <2>1, <2>2, <2>3 DEF PoolTypes, FailClose
<1>22. CASE Terminate \/ TerminateFails
  <2>1. child' \in [Env -> {"none", "running", "dead", "reaped"}]
    <3>1. pos \in Env /\ child \in [Env -> {"none", "running", "dead", "reaped"}]
      BY <1>22 DEF Terminate, TerminateFails, CloseInv, PoolTypes
    <3>2. PICK c \in {"none", "running", "dead", "reaped"} : child' = [child EXCEPT ![pos] = c]
      <4>1. CASE Terminate
        BY <4>1 DEF Terminate
      <4>2. CASE TerminateFails
        <5>1. PICK c \in {child[pos], "dead"} :
                child' = [child EXCEPT ![pos] = IF @ = "reaped" THEN @ ELSE c]
          BY <4>2 DEF TerminateFails
        <5>2. child[pos] \in {"none", "running", "dead", "reaped"}
          BY <3>1
        <5> QED  BY <5>1, <5>2
      <4> QED  BY <1>22, <4>1, <4>2
    <3> QED  BY <3>1, <3>2
  <2>2. pos' \in Int
    BY <1>22 DEF Terminate, TerminateFails, NextToKill, PoolTypes
  <2>3. UNCHANGED <<nextRequest, parentVars, wires, children>>
    BY <1>22 DEF Terminate, TerminateFails
  <2> QED  BY <1>1, <2>1, <2>2, <2>3 DEF PoolTypes
<1> QED  BY <1>10, <1>11, <1>12, <1>13, <1>14, <1>15, <1>16, <1>17, <1>18, <1>19, <1>20,
            <1>21, <1>22 DEF ParentStep

\* And those that make, use and drop the pool.
LEMMA CallKeepsTypes ==
  ASSUME PoolTypes, setup' = setup, Build \/ Call \/ Rest
  PROVE  PoolTypes'
<1> USE DEF wires, processes, children, parentVars
<1>1. KillOnDrop => child' \in [Env -> {"none", "running", "dead", "reaped"}]
  BY DEF KillOnDrop, PoolTypes
<1>2. CASE SpawnWorker
  <2>1. child' \in [Env -> {"none", "running", "dead", "reaped"}]
    BY <1>2 DEF SpawnWorker, PoolTypes
  <2>2. pos' \in Int
    BY <1>2, PoolAssumption DEF SpawnWorker, PoolTypes
  <2> QED  BY <1>2, <2>1, <2>2 DEF SpawnWorker, PoolTypes
<1>3. CASE SpawnFails \/ Drop
  BY <1>1, <1>3 DEF SpawnFails, Drop, PoolTypes
<1>4. CASE Refuse \/ StartClose \/ StartForcedClose
  <2>1. /\ batch' = <<>> /\ answers' = <<>> /\ pos' \in {pos, 0}
        /\ UNCHANGED <<nextRequest, frame, seen, wires, processes, children>>
    BY <1>4 DEF Refuse, StartClose, StartForcedClose
  <2> QED  BY <2>1 DEF PoolTypes
<1>5. ASSUME NEW ids \in setup.batches, StartBatch(ids) PROVE PoolTypes'
  <2>1. ids \in Seq(Env)
    BY PoolAssumption DEF PoolTypes
  <2>2. /\ nextRequest \in Int /\ Len(ids) \in Nat
        /\ \A i \in 1 .. Len(ids) : ids[i] \in Env /\ nextRequest + i - 1 \in Int
    BY <2>1 DEF PoolTypes
  <2>3. batch' = [i \in 1 .. Len(ids) |-> [env |-> ids[i], serial |-> nextRequest + i - 1]]
    BY <1>5 DEF StartBatch
  <2>4. batch' \in Seq([env : Env, serial : Int])
    BY <2>2, <2>3
  <2>5. nextRequest' \in Int /\ pos' \in Int /\ answers' = <<>>
    BY <1>5, <2>2 DEF StartBatch
  <2> QED  BY <1>5, <2>4, <2>5 DEF StartBatch, PoolTypes
<1>6. CASE Rest
  BY <1>6 DEF Rest, vars, PoolTypes
<1> QED  BY <1>2, <1>3, <1>4, <1>5, <1>6 DEF Build, Call

-----------------------------------------------------------------------------
(* Where the parent is, and what close has done.                           *)

\* The steps that leave a call where it is.
AtRest == op' = op /\ UNCHANGED <<setup, state, phase, pos, frame, batch, answers, outcome>>

LEMMA WorkersLeaveTheParent ==
  ASSUME setup' = setup, NEW e \in Env, WorkerStep(e) \/ Rest
  PROVE  AtRest /\ UNCHANGED <<nextRequest, fault, seen, unkilled>>
<1>1. ChildStep(e) => AtRest /\ UNCHANGED <<nextRequest, fault, seen, unkilled>>
  BY DEF ChildStep, AtRest, parentVars
<1>2. Rest => AtRest /\ UNCHANGED <<nextRequest, fault, seen, unkilled>>
  BY DEF Rest, vars, AtRest
<1>3. WorkerStep(e) => ChildStep(e)
  BY DEF WorkerStep, WorkerRead, WorkerHandles, WorkerFails, WriteRegionPayload,
         WriteRegionHeader, WorkerMapped, WorkerWritten, ChildDies
<1> QED  BY <1>1, <1>2, <1>3

LEMMA ControlKept ==
  ASSUME Control, [Next]_vars
  PROVE  Control'
<1>1. CASE ParentStep
  BY <1>1 DEF ParentStep, Control, Reading,
     BatchSend, BatchSent, BatchAllSent, BatchReceive, ReadRegionId, ReadRegionPayload,
     ReadRegionSum, BatchStore, BatchFails, BatchRejects, GiveUp, BatchFinish, CloseSend,
     CloseSent, CloseReceive, CloseInput, CloseReap, CloseFails, CloseRejects,
     CloseWaitTimesOut, FailClose, Terminate, TerminateFails, NextToKill
<1>2. CASE setup' = setup /\ (Build \/ Call)
  BY <1>2 DEF Build, Call, Control, Reading, SpawnWorker, SpawnFails, StartBatch, Refuse,
     StartClose, StartForcedClose, Drop
<1>3. ASSUME NEW e \in Env, setup' = setup, WorkerStep(e) \/ Rest PROVE Control'
  BY <1>3, WorkersLeaveTheParent DEF Control, AtRest
<1>4. CASE setup' = setup /\ Rest
  BY <1>4 DEF Rest, vars, Control
<1>5. CASE UNCHANGED vars
  BY <1>5 DEF vars, Control
<1> QED  BY <1>1, <1>2, <1>3, <1>4, <1>5 DEF Next

-----------------------------------------------------------------------------
(* What parent and child owe each other.                                   *)

\* What is on the way has its types.
LEMMA LineIsTyped ==
  ASSUME PoolTypes, NEW e \in Env
  PROVE  /\ Owed(e) \in SUBSET Int /\ Held(e) \in SUBSET Jobs
         /\ responses[e] \in Seq(Responses) /\ requests[e] \in Seq(Requests)
         /\ job[e] \in Jobs
<1>1. batch \in Seq([env : Env, serial : Int])
  BY DEF PoolTypes
<1>2. \A i \in DOMAIN batch : batch[i] \in [env : Env, serial : Int]
  BY <1>1, ElementOf
<1>3. Owed(e) \in SUBSET Int
  BY <1>2 DEF Owed
<1>4. responses[e] \in Seq(Responses) /\ requests[e] \in Seq(Requests) /\ job[e] \in Jobs
  BY DEF PoolTypes
<1> QED  BY <1>3, <1>4 DEF Held

\* The batch as numbers.
LEMMA BatchIs ==
  ASSUME PoolTypes
  PROVE  /\ DOMAIN batch = 1 .. Len(batch) /\ Len(batch) \in Nat
         /\ \A i \in DOMAIN batch : i \in Int /\ batch[i].serial \in Int /\ batch[i].env \in Env
<1>1. batch \in Seq([env : Env, serial : Int])
  BY DEF PoolTypes
<1>2. \A i \in DOMAIN batch : batch[i] \in [env : Env, serial : Int]
  BY <1>1, ElementOf
<1>3. DOMAIN batch = 1 .. Len(batch) /\ Len(batch) \in Nat
  BY <1>1
<1> QED  BY <1>2, <1>3

\* The parent receives the response to the request it is at, whatever the id
\* that travels can tell, and owes and is owed one request less.
LEMMA ReceiveIsNext ==
  ASSUME PoolTypes, Control, BatchInv, Lines, BatchReceive
  PROVE  /\ pos \in DOMAIN batch /\ At.env \in Env
         /\ frame'.serial = At.serial /\ frame'.status # "none"
         /\ Owed(At.env)' = Owed(At.env) \ {At.serial}
         /\ \A e \in Env \ {At.env} : Owed(e)' = Owed(e)
         /\ Line(Owed(At.env)', responses'[At.env], Held(At.env), requests[At.env],
                 child[At.env] = "running")
<1>1. /\ op = "batch" /\ phase = "receive" /\ pos <= Len(batch) /\ TakeResponse(At.env)
      /\ op' = "batch" /\ phase' \in Reading /\ pos' = pos /\ batch' = batch
  BY DEF BatchReceive, Reading
<1>2. pos \in DOMAIN batch /\ At.env \in Env /\ At.serial \in Int
  BY <1>1, AtIsTyped
<1> DEFINE e == At.env
           s == At.serial
           running == (child[e] = "running")
<1>3. /\ responses[e] # <<>> /\ frame' = responses[e][1] /\ frame' \in Responses
      /\ responses'[e] = Tail(responses[e])
  BY <1>1, <1>2, TakeIsTyped
<1>4. Line(Owed(e), responses[e], Held(e), requests[e], running)
  BY <1>1, <1>2 DEF Lines, Orderly, Control
<1>5. /\ \A i \in DOMAIN batch : i \in Int /\ batch[i].serial \in Int
      /\ \A i \in DOMAIN batch : i > pos => batch[i].serial > s
      /\ pos \in Int
  BY <1>2, BatchIs DEF BatchInv, At
<1>6. /\ \A i : Outstanding(i) <=> i >= pos
      /\ \A i : Outstanding(i)' <=> i > pos
  BY <1>1 DEF Outstanding, Reading
<1>7. s \in Owed(e) /\ \A r \in Owed(e) : s <= r
  <2>1. s \in Owed(e)
    BY <1>2, <1>5, <1>6 DEF Owed, At
  <2>2. ASSUME NEW r \in Owed(e) PROVE s <= r
    <3>1. PICK i \in DOMAIN batch : r = batch[i].serial /\ i >= pos
      BY <1>6, <2>2 DEF Owed
    <3> QED  BY <1>2, <1>5, <3>1 DEF At
  <2> QED  BY <2>1, <2>2
<1>8. frame'.serial = s /\ Line(Owed(e) \ {s}, responses'[e], Held(e), requests[e], running)
  <2> HIDE DEF e, s, running
  <2>1. /\ Owed(e) \in SUBSET Int /\ Held(e) \in SUBSET Jobs
        /\ responses[e] \in Seq(Responses) /\ requests[e] \in Seq(Requests)
    BY <1>2, LineIsTyped DEF e
  <2>2. responses[e][1].serial = s
        /\ Line(Owed(e) \ {s}, Tail(responses[e]), Held(e), requests[e], running)
    BY <1>3, <1>4, <1>7, <2>1, LineReceive
  <2> QED  BY <1>3, <2>2
<1>9. Owed(e)' = Owed(e) \ {s}
  <2>1. Owed(e)' = {batch[i].serial : i \in {j \in DOMAIN batch : batch[j].env = e /\ j > pos}}
    BY <1>1, <1>6 DEF Owed, At
  <2>2. Owed(e) = {batch[i].serial : i \in {j \in DOMAIN batch : batch[j].env = e /\ j >= pos}}
    BY <1>6 DEF Owed
  <2>3. \A i \in DOMAIN batch : i >= pos /\ batch[i].serial # s => i > pos
    BY <1>5 DEF At
  <2>4. \A i \in DOMAIN batch : i > pos => i >= pos /\ batch[i].serial # s
    BY <1>5
  <2> QED  BY <2>1, <2>2, <2>3, <2>4
<1>10. ASSUME NEW d \in Env \ {e} PROVE Owed(d)' = Owed(d)
  <2>1. Owed(d)' = {batch[i].serial : i \in {j \in DOMAIN batch : batch[j].env = d /\ j > pos}}
    BY <1>1, <1>6 DEF Owed
  <2>2. Owed(d) = {batch[i].serial : i \in {j \in DOMAIN batch : batch[j].env = d /\ j >= pos}}
    BY <1>6 DEF Owed
  <2>3. \A i \in DOMAIN batch : batch[i].env = d => (i >= pos <=> i > pos)
    BY <1>5 DEF At
  <2> QED  BY <2>1, <2>2, <2>3
<1> QED  BY <1>2, <1>3, <1>8, <1>9, <1>10 DEF Responses

\* The places of a batch, step by step.
LEMMA BatchInvKept ==
  ASSUME PoolTypes, Control, BatchInv, Lines, [Next]_vars
  PROVE  BatchInv'
<1> USE DEF wires, processes, children, parentVars
<1>1. /\ pos \in Int /\ Len(batch) \in Nat /\ Len(answers) \in Nat /\ nextRequest \in Int
      /\ answers \in Seq(Answers)
  BY DEF PoolTypes
<1>2. phase \in Reading \ {"check"} => op = "batch"
  BY DEF Control, Reading
<1>setup. setup' = setup
  BY DEF Next, ParentStep, vars, Rest
<1>3. CASE BatchSend
  BY <1>1, <1>3 DEF BatchInv, BatchSend, Reading, At
<1>4. CASE BatchSent \/ BatchAllSent
  BY <1>1, <1>4 DEF BatchInv, BatchSent, BatchAllSent, Reading, At
<1>5. CASE BatchFails \/ BatchRejects \/ BatchFinish
  <2>1. op' = "none" /\ batch' = batch
    BY <1>5 DEF BatchFails, BatchRejects, BatchFinish, GiveUp
  <2> QED  BY <2>1 DEF BatchInv
<1>6. CASE BatchStore
  <2>1. Len(answers') = Len(answers) + 1 /\ pos \in 1 .. Len(batch) /\ Len(answers) = pos - 1
    BY <1>1, <1>6 DEF BatchStore, BatchInv, Reading
  <2>2. /\ op' = "batch" /\ phase' = "receive" /\ pos' = pos + 1 /\ batch' = batch
    BY <1>6 DEF BatchStore
  <2> QED  BY <1>1, <2>1, <2>2 DEF BatchInv, Reading
<1>7. CASE ReadRegionId \/ ReadRegionPayload \/ ReadRegionSum
  <2>1. /\ op' = op /\ pos' = pos /\ batch' = batch /\ answers' = answers /\ frame' = frame
        /\ setup' = setup /\ phase \in Reading \ {"check"} /\ phase' \in Reading \ {"read_id"}
    BY <1>7, <1>setup
       DEF Reading, ReadRegionId, ReadRegionPayload, ReadRegionSum
  <2> QED  BY <1>1, <1>2, <2>1 DEF BatchInv, Reading, At
<1>8. CASE BatchReceive
  <2>1. frame'.serial = At.serial /\ frame'.status # "none"
    BY <1>8, ReceiveIsNext
  <2>2. /\ op' = op /\ op = "batch" /\ pos' = pos /\ batch' = batch /\ answers' = answers
        /\ phase = "receive" /\ pos <= Len(batch) /\ phase' \in Reading
        /\ phase' # "check" => setup'.shared
    BY <1>8, <1>setup DEF BatchReceive, Reading
  <2>3. At' = At
    BY <2>2 DEF At
  <2> QED  BY <1>1, <2>1, <2>2, <2>3 DEF BatchInv, Reading
<1>9. CASE CloseSend \/ CloseSent \/ CloseReceive \/ CloseInput
  <2>1. op' = "close" /\ op = "close" /\ batch' = batch /\ answers' = answers
    BY <1>9 DEF CloseSend, CloseSent, CloseReceive, CloseInput
  <2> QED  BY <2>1 DEF BatchInv
<1>10. CASE CloseFails \/ CloseRejects \/ CloseWaitTimesOut \/ CloseReap
            \/ Terminate \/ TerminateFails
  <2>1. op' # "batch" /\ op \in {"close", "terminate"} /\ batch' = batch /\ answers' = answers
    BY <1>10 DEF CloseFails, CloseRejects, CloseWaitTimesOut, CloseReap, Terminate,
                 TerminateFails, FailClose, NextToKill
  <2> QED  BY <2>1 DEF BatchInv
<1>11. CASE SpawnWorker \/ SpawnFails \/ Drop \/ Rest
  <2>1. op' = op /\ batch' = batch /\ answers' = answers /\ op # "batch"
    BY <1>11 DEF SpawnWorker, SpawnFails, Drop, Rest, vars, Control
  <2> QED  BY <2>1 DEF BatchInv
<1>12. CASE Refuse \/ StartClose \/ StartForcedClose
  <2>1. op' # "batch" /\ batch' = <<>> /\ answers' = <<>>
    BY <1>12 DEF Refuse, StartClose, StartForcedClose
  <2> QED  BY <2>1 DEF BatchInv
<1>13. ASSUME NEW ids \in setup.batches, StartBatch(ids) PROVE BatchInv'
  <2>1. ids \in Seq(Env)
    BY PoolAssumption DEF PoolTypes
  <2> DEFINE n == Len(ids)
  <2>2. n \in Nat
    BY <2>1
  <2>3. /\ batch' = [i \in 1 .. n |-> [env |-> ids[i], serial |-> nextRequest + i - 1]]
        /\ op' = "batch" /\ phase' = "send" /\ pos' = 1 /\ answers' = <<>>
    BY <1>13 DEF StartBatch
  <2> HIDE DEF n
  <2>4. /\ Len(batch') = n /\ DOMAIN batch' = 1 .. n
        /\ \A i \in 1 .. n : batch'[i].serial = nextRequest + i - 1
    BY <2>2, <2>3
  <2> QED  BY <1>1, <2>2, <2>3, <2>4 DEF BatchInv, Reading
<1>14. ASSUME NEW e \in Env, WorkerStep(e) \/ Rest PROVE BatchInv'
  BY <1>setup, <1>14, WorkersLeaveTheParent DEF BatchInv, AtRest, At
<1>15. CASE UNCHANGED vars
  BY <1>15 DEF vars, BatchInv, At
<1> QED  BY <1>3, <1>4, <1>5, <1>6, <1>7, <1>8, <1>9, <1>10, <1>11, <1>12, <1>13, <1>14, <1>15
         DEF Next, ParentStep, Build, Call

\* A close goes from child to child, and reaps or reports every one.
LEMMA CloseKept ==
  ASSUME PoolTypes, Control, CloseInv, CloseReapsEveryChild, [Next]_vars
  PROVE  CloseInv' /\ CloseReapsEveryChild'
<1> USE DEF wires, processes, children, parentVars
<1>1. /\ Size \in Nat \ {0} /\ \A e \in Env : e \in Int /\ 0 <= e /\ e < Size
      /\ \A i \in Int : 0 <= i /\ i < Size => i \in Env
      /\ pos \in Int
      /\ \A e \in Env : child[e] \in {"none", "running", "dead", "reaped"}
  BY PoolAssumption DEF Env, PoolTypes
<1>2. \A e \in Env : \A c : child' = [child EXCEPT ![pos] = c] =>
        child'[e] = IF e = pos THEN c ELSE child[e]
  BY DEF PoolTypes
\* Nothing of it is disturbed.
<1>3. ASSUME op' = op, pos' = pos, fault' = fault, unkilled' = unkilled, outcome' = outcome,
             state' = state \/ (op = "none" /\ state' # "Closed"),
             \A e \in Env : child[e] = "reaped" => child'[e] = "reaped"
      PROVE  CloseInv' /\ CloseReapsEveryChild'
  BY <1>3 DEF CloseInv, CloseReapsEveryChild
\* A call that is not in close.
<1>4. ASSUME op' \in {"none", "batch"}, fault' = fault, op \in {"none", "batch"},
             state' # "Closed" \/ (state' = state /\ unkilled' = unkilled /\ child' = child
                                   /\ op' = op /\ outcome' # "ok")
      PROVE  CloseInv' /\ CloseReapsEveryChild'
  BY <1>4 DEF CloseInv, CloseReapsEveryChild, Control
<1>5. CASE BatchSend \/ BatchSent \/ BatchAllSent \/ BatchReceive \/ BatchStore
           \/ BatchFails \/ BatchRejects \/ BatchFinish
  <2>1. /\ op = "batch" /\ op' \in {"none", "batch"} /\ fault' = fault
        /\ state' = state \/ state' = "Poisoned"
    BY <1>5 DEF BatchSend, BatchSent, BatchAllSent, BatchReceive, BatchStore, BatchFails,
                BatchRejects, BatchFinish, GiveUp
  <2>2. state' # "Closed"
    BY <2>1 DEF Control
  <2> QED  BY <1>4, <2>1, <2>2
<1>6. CASE ReadRegionId \/ ReadRegionPayload \/ ReadRegionSum
           \/ CloseSent \/ CloseReceive \/ CloseInput \/ CloseSend
  <2>1. UNCHANGED <<op, pos, fault, unkilled, outcome, state, child>>
    BY <1>6 DEF ReadRegionId, ReadRegionPayload, ReadRegionSum, CloseSent, CloseReceive,
                CloseInput, CloseSend
  <2> QED  BY <1>3, <2>1
<1>7. CASE CloseReap
  <2>1. /\ op = "close" /\ child' = [child EXCEPT ![pos] = "reaped"]
        /\ fault' = fault /\ unkilled' = unkilled /\ state # "Closed"
    BY <1>7 DEF CloseReap, Control
  <2>2. \A e \in Env : child'[e] = IF e = pos THEN "reaped" ELSE child[e]
    BY <1>2, <2>1
  <2>3. pos \in Env /\ \A e \in Env : e < pos => child[e] = "reaped"
    BY <2>1 DEF CloseInv
  <2>4. CASE pos + 1 < Size
    <3>1. op' = "close" /\ pos' = pos + 1 /\ state' = state
      BY <1>7, <2>1, <2>4 DEF CloseReap
    <3>2. \A e \in Env : e < pos + 1 => e = pos \/ e < pos
      BY <1>1
    <3>3. pos + 1 \in Env
      BY <1>1, <2>3, <2>4
    <3> QED  BY <2>1, <2>2, <2>3, <3>1, <3>2, <3>3 DEF CloseInv, CloseReapsEveryChild
  <2>5. CASE ~(pos + 1 < Size)
    <3>1. op' = "none" /\ state' = "Closed"
      BY <1>7, <2>5 DEF CloseReap
    <3>2. \A e \in Env : e = pos \/ e < pos
      BY <1>1, <2>5
    <3> QED  BY <2>1, <2>2, <2>3, <3>1, <3>2 DEF CloseInv, CloseReapsEveryChild
  <2> QED  BY <2>4, <2>5
<1>8. CASE CloseFails \/ CloseRejects \/ CloseWaitTimesOut
  <2>1. fault' = TRUE /\ state' = "Poisoned" /\ op' = "terminate" /\ pos' = 0
    BY <1>8 DEF CloseFails, CloseRejects, CloseWaitTimesOut, FailClose
  <2>2. 0 \in Env /\ \A e \in Env : ~(e < 0)
    BY <1>1
  <2> QED  BY <2>1, <2>2 DEF CloseInv, CloseReapsEveryChild
<1>9. CASE Terminate \/ TerminateFails
  <2>1. op = "terminate" /\ pos \in Env /\ fault \in BOOLEAN
        /\ \A e \in Env : e < pos => child[e] = "reaped" \/ (e \in unkilled /\ fault)
    BY <1>9 DEF Terminate, TerminateFails, CloseInv
  <2>2. PICK failed \in BOOLEAN : /\ NextToKill(failed)
                                  /\ fault => failed
                                  /\ unkilled \subseteq unkilled'
                                  /\ child'[pos] = "reaped" \/ (pos \in unkilled' /\ failed)
    <3>1. CASE Terminate
      <4>1. child'[pos] = "reaped" /\ NextToKill(fault) /\ unkilled' = unkilled
        BY <1>2, <2>1, <3>1 DEF Terminate
      <4> QED  BY <2>1, <4>1
    <3>2. CASE TerminateFails
      <4>1. unkilled' = unkilled \cup {pos} /\ NextToKill(TRUE)
        BY <3>2 DEF TerminateFails
      <4> QED  BY <4>1
    <3> QED  BY <1>9, <3>1, <3>2
  <2>3. \A e \in Env : e # pos => child'[e] = child[e]
    BY <1>9 DEF Terminate, TerminateFails, PoolTypes
  <2>4. \A e \in Env : e < pos \/ e = pos =>
          child'[e] = "reaped" \/ (e \in unkilled' /\ failed)
    BY <1>1, <2>1, <2>2, <2>3
  <2>5. CASE pos + 1 < Size
    <3>1. op' = "terminate" /\ pos' = pos + 1 /\ state' = state /\ fault' = failed
      BY <2>1, <2>2, <2>5 DEF NextToKill
    <3>2. pos + 1 \in Env /\ \A e \in Env : e < pos + 1 => e < pos \/ e = pos
      BY <1>1, <2>1, <2>5
    <3> QED  BY <2>1, <2>4, <3>1, <3>2 DEF CloseInv, CloseReapsEveryChild, Control
  <2>6. CASE ~(pos + 1 < Size)
    <3>1. /\ op' = "none" /\ state' = "Closed" /\ fault' = FALSE
          /\ outcome' = "ok" => ~failed
      BY <2>2, <2>6 DEF NextToKill
    <3>2. \A e \in Env : e < pos \/ e = pos
      BY <1>1, <2>6
    <3> QED  BY <2>4, <3>1, <3>2 DEF CloseInv, CloseReapsEveryChild
  <2> QED  BY <2>5, <2>6
<1>10. CASE SpawnWorker \/ SpawnFails \/ Drop \/ Refuse
            \/ (\E ids \in setup.batches : StartBatch(ids))
  <2>1. op \in {"none", "batch"} /\ op' \in {"none", "batch"} /\ fault' = fault
    BY <1>10 DEF SpawnWorker, SpawnFails, Drop, Refuse, StartBatch, Control
  <2>2. state' # "Closed" \/ (state' = state /\ unkilled' = unkilled /\ child' = child
                              /\ op' = op /\ outcome' # "ok")
    BY <1>10 DEF SpawnWorker, SpawnFails, Drop, Refuse, StartBatch
  <2> QED  BY <1>4, <2>1, <2>2
<1>11. CASE StartClose \/ StartForcedClose
  <2>1. /\ op' \in {"close", "terminate"} /\ pos' = 0 /\ state' = state /\ state # "Closed"
        /\ fault' = fault /\ op = "none"
    BY <1>11 DEF StartClose, StartForcedClose
  <2>2. 0 \in Env /\ \A e \in Env : ~(e < 0)
    BY <1>1
  <2> QED  BY <2>1, <2>2 DEF CloseInv, CloseReapsEveryChild
<1>12. ASSUME NEW e \in Env, WorkerStep(e) PROVE CloseInv' /\ CloseReapsEveryChild'
  <2>1. ChildStep(e) /\ (child' = child \/ child' = [child EXCEPT ![e] = "dead"])
    BY <1>12
       DEF WorkerStep, WorkerRead, WorkerHandles, WorkerFails, WriteRegionPayload,
           WriteRegionHeader, WorkerMapped, WorkerWritten, ChildDies
  <2>2. child[e] = "running" /\ UNCHANGED <<op, pos, fault, unkilled, outcome, state>>
    BY <2>1 DEF ChildStep
  <2>3. \A d \in Env : child[d] = "reaped" => child'[d] = "reaped"
    BY <2>1, <2>2 DEF PoolTypes
  <2> QED  BY <1>3, <2>2, <2>3
<1>13. CASE UNCHANGED vars
  BY <1>3, <1>13 DEF vars
<1>14. Rest => UNCHANGED vars
  BY DEF Rest
<1> QED  BY <1>5, <1>6, <1>7, <1>8, <1>9, <1>10, <1>11, <1>12, <1>13, <1>14
         DEF Next, ParentStep, Build, Call

-----------------------------------------------------------------------------
(* The lines, step by step.                                                *)

\* Who owes what is a matter of where the parent is.
LEMMA OwedKept ==
  ASSUME batch' = batch, \A i \in DOMAIN batch : Outstanding(i)' <=> Outstanding(i)
  PROVE  \A e : Owed(e)' = Owed(e)
BY DEF Owed

\* Whoever owes or is owed is in a batch.
LEMMA OwedInBatch == \A e : op # "batch" => Owed(e) = {}
BY DEF Owed, Outstanding

\* Steps of the parent that are not on the wire.
LEMMA LinesUndisturbed ==
  ASSUME Lines, Orderly' => Orderly, \A e \in Env : Owed(e)' = Owed(e),
         UNCHANGED <<responses, requests, serving, job, child>>
  PROVE  Lines'
BY DEF Lines, Held

\* The parent's steps.
LEMMA ParentKeepsLines ==
  ASSUME PoolTypes, Control, BatchInv, Lines, ParentStep
  PROVE  Lines'
<1> USE DEF wires, processes, children, parentVars
<1>1. /\ \A i \in DOMAIN batch : i \in Int /\ 1 <= i /\ i <= Len(batch)
                                 /\ batch[i].serial \in Int /\ batch[i].env \in Env
      /\ pos \in Int /\ Len(batch) \in Nat
  BY BatchIs DEF PoolTypes
<1>2. phase \in Reading \ {"check"} => op = "batch"
  BY DEF Control, Reading
<1>3. op = "batch" => Orderly
  BY DEF Control, Orderly
<1>4. CASE BatchSend
  <2>1. /\ op = "batch" /\ phase = "send" /\ pos <= Len(batch) /\ Post(At.env, "call", At.serial)
        /\ op' = op /\ phase' = "sending" /\ pos' = pos /\ batch' = batch
        /\ UNCHANGED <<responses, serving, job, child>>
    BY <1>4 DEF BatchSend
  <2>2. pos \in DOMAIN batch /\ At.env \in Env /\ At.serial \in Int
    BY <2>1, AtIsTyped
  <2> DEFINE q == [serial |-> At.serial, kind |-> "call"]
  <2>3. /\ \A d \in Env \ {At.env} : requests'[d] = requests[d]
        /\ requests'[At.env] = Append(requests[At.env], q)
    BY <2>1, <2>2, PostIsTyped
  <2>4. q \in Requests /\ q.serial = At.serial /\ q.kind = "call"
    BY <2>2 DEF Requests
  <2> HIDE DEF q
  <2>5. \A i \in DOMAIN batch : /\ Outstanding(i) <=> i < pos
                                /\ Outstanding(i)' <=> i <= pos
    BY <2>1 DEF Outstanding, Reading
  <2>6. \A d \in Env \ {At.env} : Owed(d)' = Owed(d)
    <3>1. \A i \in DOMAIN batch : batch[i].env # At.env => (i < pos <=> i <= pos)
      BY <1>1, <2>2 DEF At
    <3> QED  BY <2>1, <2>5, <3>1 DEF Owed
  <2>7. Owed(At.env)' = Owed(At.env) \cup {At.serial}
    <3>1. \A i \in DOMAIN batch : i <= pos <=> (i < pos \/ i = pos)
      BY <1>1
    <3>2. Owed(At.env)' = {batch[i].serial :
                             i \in {j \in DOMAIN batch : batch[j].env = At.env /\ j <= pos}}
      BY <2>1, <2>5 DEF Owed, At
    <3>3. Owed(At.env) = {batch[i].serial :
                            i \in {j \in DOMAIN batch : batch[j].env = At.env /\ j < pos}}
      BY <2>5 DEF Owed
    <3> QED  BY <2>2, <3>1, <3>2, <3>3 DEF At
  <2>8. \A s \in Owed(At.env) : s < At.serial
    BY <2>2, <2>5 DEF Owed, At, BatchInv
  <2>9. Line(Owed(At.env)', responses'[At.env], Held(At.env)', requests'[At.env],
             child'[At.env] = "running")
    <3> DEFINE e == At.env
               running == (child[e] = "running")
    <3>1. Line(Owed(e), responses[e], Held(e), requests[e], running)
      BY <1>3, <2>1, <2>2 DEF Lines
    <3>2. /\ Owed(e) \in SUBSET Int /\ Held(e) \in SUBSET Jobs
          /\ responses[e] \in Seq(Responses) /\ requests[e] \in Seq(Requests)
      BY <2>2, LineIsTyped
    <3> HIDE DEF e, running
    <3>3. \A s \in Owed(e) : s < q.serial
      BY <2>4, <2>8 DEF e
    <3>4. Line(Owed(e) \cup {q.serial}, responses[e], Held(e), Append(requests[e], q), running)
      BY <2>4, <3>1, <3>2, <3>3, LineSend
    <3>5. At' = At
      BY <2>1 DEF At
    <3>6. Owed(At.env)' = Owed(e) \cup {q.serial} /\ Held(At.env)' = Held(e)
      BY <2>1, <2>4, <2>7, <3>5 DEF e, Held
    <3> QED  BY <2>1, <2>3, <3>4, <3>5, <3>6 DEF e, running
  <2>10. ASSUME NEW d \in Env \ {At.env}
         PROVE  Line(Owed(d)', responses'[d], Held(d)', requests'[d], child'[d] = "running")
    BY <1>3, <2>1, <2>3, <2>6 DEF Lines, Held
  <2> HIDE DEF q
  <2>11. At' = At
    BY <2>1 DEF At
  <2>12. ASSUME NEW d \in Env
         PROVE  Line(Owed(d)', responses'[d], Held(d)', requests'[d], child'[d] = "running")
    BY <2>9, <2>10, <2>11
  <2> QED  BY <2>12 DEF Lines
<1>5. CASE BatchSent \/ BatchAllSent
  <2>1. op = "batch" /\ op' = op /\ batch' = batch
    BY <1>5 DEF BatchSent, BatchAllSent
  <2>2. \A i \in DOMAIN batch : Outstanding(i)' <=> Outstanding(i)
    <3>1. CASE BatchSent
      BY <1>1, <2>1, <3>1 DEF BatchSent, Outstanding, Reading
    <3>2. CASE BatchAllSent
      BY <1>1, <2>1, <3>2 DEF BatchAllSent, Outstanding, Reading
    <3> QED  BY <1>5, <3>1, <3>2
  <2>3. UNCHANGED <<responses, requests, serving, job, child>>
    BY <1>5 DEF BatchSent, BatchAllSent
  <2> QED  BY <1>3, <2>1, <2>2, <2>3, OwedKept, LinesUndisturbed
<1>6. CASE BatchReceive
  <2>1. At.env \in Env /\ \A d \in Env \ {At.env} : responses'[d] = responses[d]
    <3>1. op = "batch" /\ pos <= Len(batch) /\ TakeResponse(At.env)
      BY <1>6 DEF BatchReceive
    <3>2. At.env \in Env
      BY <3>1, AtIsTyped
    <3> QED  BY <3>1, <3>2, TakeIsTyped
  <2>2. UNCHANGED <<requests, serving, job, child>> /\ op = "batch"
    BY <1>6 DEF BatchReceive
  <2>3. /\ \A d \in Env \ {At.env} : Owed(d)' = Owed(d)
        /\ Line(Owed(At.env)', responses'[At.env], Held(At.env), requests[At.env],
                child[At.env] = "running")
    BY <1>6, ReceiveIsNext
  <2>4. At' = At
    BY <1>6 DEF BatchReceive, At
  <2>5. \A d \in Env : Held(d)' = Held(d)
    BY <2>2 DEF Held
  <2>6. ASSUME NEW d \in Env
        PROVE  Line(Owed(d)', responses'[d], Held(d), requests[d], child[d] = "running")
    <3>1. CASE d = At.env
      BY <2>3, <2>4, <3>1
    <3>2. CASE d # At.env
      BY <1>3, <2>1, <2>2, <2>3, <3>2 DEF Lines
    <3> QED  BY <3>1, <3>2
  <2> QED  BY <2>2, <2>5, <2>6 DEF Lines
<1>7. CASE ReadRegionId \/ ReadRegionPayload \/ ReadRegionSum
  <2>1. /\ phase \in Reading \ {"check"} /\ phase' \in Reading
        /\ UNCHANGED <<op, batch, pos, state, responses, requests, serving, job, child>>
    BY <1>7 DEF ReadRegionId, ReadRegionPayload, ReadRegionSum, Reading
  <2>2. \A i \in DOMAIN batch : Outstanding(i)' <=> Outstanding(i)
    BY <2>1 DEF Outstanding, Reading
  <2> QED  BY <1>2, <1>3, <2>1, <2>2, OwedKept, LinesUndisturbed
<1>8. CASE BatchStore
  <2>1. /\ phase = "check" /\ phase' = "receive" /\ pos' = pos + 1 /\ op = "batch"
        /\ UNCHANGED <<op, batch, state, responses, requests, serving, job, child>>
    BY <1>8 DEF BatchStore
  <2>2. \A i \in DOMAIN batch : Outstanding(i)' <=> Outstanding(i)
    BY <1>1, <2>1 DEF Outstanding, Reading
  <2> QED  BY <1>3, <2>1, <2>2, OwedKept, LinesUndisturbed
<1>9. CASE BatchFinish
  <2>1. /\ op = "batch" /\ phase = "receive" /\ pos > Len(batch)
        /\ op' = "none" /\ UNCHANGED <<batch, responses, requests, serving, job, child>>
    BY <1>9 DEF BatchFinish
  <2>2. \A i \in DOMAIN batch : ~Outstanding(i) /\ ~Outstanding(i)'
    BY <1>1, <2>1 DEF Outstanding, Reading
  <2> QED  BY <1>3, <2>1, <2>2, OwedKept, LinesUndisturbed
<1>10. CASE BatchFails \/ BatchRejects \/ CloseSend \/ CloseSent \/ CloseReceive \/ CloseInput
            \/ CloseReap \/ CloseFails \/ CloseRejects \/ CloseWaitTimesOut
            \/ Terminate \/ TerminateFails
  <2>1. ~Orderly'
    BY <1>10
       DEF BatchFails, BatchRejects, CloseSend, CloseSent, CloseReceive, CloseInput, CloseReap,
           CloseFails, CloseRejects, CloseWaitTimesOut, Terminate, TerminateFails, FailClose,
           NextToKill, Orderly
  <2> QED  BY <2>1 DEF Lines
<1> QED  BY <1>4, <1>5, <1>6, <1>7, <1>8, <1>9, <1>10 DEF ParentStep

\* The calls: nothing is owed, before and after.
LEMMA CallKeepsLines ==
  ASSUME PoolTypes, Control, Lines, Build \/ Call \/ Rest
  PROVE  Lines'
<1> USE DEF wires, processes, children, parentVars
<1>1. CASE SpawnFails \/ Drop \/ StartClose \/ StartForcedClose
  <2>1. ~Orderly'
    BY <1>1 DEF SpawnFails, Drop, StartClose, StartForcedClose, Orderly
  <2> QED  BY <2>1 DEF Lines
<1>2. CASE SpawnWorker
  <2>1. /\ op = "none" /\ op' = "none" /\ UNCHANGED <<responses, requests, serving, job>>
        /\ Orderly
    BY <1>2 DEF SpawnWorker, Control, Orderly
  <2>2. ASSUME NEW e \in Env
        PROVE  Line(Owed(e)', responses'[e], Held(e)', requests'[e], child'[e] = "running")
    <3>1. Owed(e) = {} /\ Owed(e)' = {} /\ Held(e)' = Held(e)
      BY <2>1, OwedInBatch DEF Held, Owed, Outstanding
    <3>2. Line({}, responses[e], Held(e), requests[e], child[e] = "running")
      BY <2>1, <3>1 DEF Lines
    <3>3. responses[e] \in Seq(Responses) /\ requests[e] \in Seq(Requests)
      BY DEF PoolTypes
    <3>4. responses[e] = <<>> /\ Held(e) = {} /\ requests[e] = <<>>
      BY <3>2, <3>3, LineEmpty
    <3> QED  BY <2>1, <3>1, <3>4, LineEmpty DEF Line
  <2> QED  BY <2>2 DEF Lines
<1>3. CASE Refuse \/ (\E ids \in setup.batches : StartBatch(ids))
  <2>1. /\ op = "none" /\ UNCHANGED <<responses, requests, serving, job, child, state>>
        /\ op' = "none" \/ (op' = "batch" /\ phase' = "send" /\ pos' = 1)
    BY <1>3 DEF Refuse, StartBatch
  <2>2. \A e \in Env : Owed(e)' = {}
    <3>1. CASE op' = "none"
      BY <3>1 DEF Owed, Outstanding
    <3>2. CASE Refuse
      BY <2>1, <3>1, <3>2 DEF Refuse
    <3>3. ASSUME NEW ids \in setup.batches, StartBatch(ids) PROVE \A e \in Env : Owed(e)' = {}
      <4>1. ids \in Seq(Env)
        BY PoolAssumption DEF PoolTypes
      <4>2. DOMAIN batch' = 1 .. Len(ids) /\ Len(ids) \in Nat
        BY <3>3, <4>1 DEF StartBatch
      <4>3. \A i \in DOMAIN batch' : ~(i < 1)
        BY <4>2
      <4>4. op' = "batch" /\ phase' = "send" /\ pos' = 1
        BY <3>3 DEF StartBatch
      <4>5. \A i \in DOMAIN batch' : ~Outstanding(i)'
        BY <4>3, <4>4 DEF Outstanding, Reading
      <4> QED  BY <4>5 DEF Owed
    <3> QED  BY <1>3, <3>2, <3>3
  <2>3. \A e \in Env : Owed(e)' = Owed(e)
    BY <2>1, <2>2, OwedInBatch
  <2>4. Orderly' => Orderly
    BY <2>1 DEF Orderly
  <2> QED  BY <2>1, <2>3, <2>4, LinesUndisturbed
<1>4. CASE Rest
  <2>1. UNCHANGED <<op, phase, pos, batch, state, responses, requests, serving, job, child>>
    BY <1>4 DEF Rest, vars
  <2>2. \A i \in DOMAIN batch : Outstanding(i)' <=> Outstanding(i)
    BY <2>1 DEF Outstanding
  <2>3. Orderly' => Orderly
    BY <2>1 DEF Orderly
  <2> QED  BY <2>1, <2>2, <2>3, OwedKept, LinesUndisturbed
<1> QED  BY <1>1, <1>2, <1>3, <1>4 DEF Build, Call

\* What a child's step does to its line.
LEMMA WorkerKeepsLine ==
  ASSUME PoolTypes, NEW e \in Env, WorkerStep(e), NEW owed \in SUBSET Int,
         Line(owed, responses[e], Held(e), requests[e], TRUE)
  PROVE  Line(owed, responses'[e], Held(e)', requests'[e], child'[e] = "running")
<1>1. /\ Held(e) \in SUBSET Jobs /\ responses[e] \in Seq(Responses)
      /\ requests[e] \in Seq(Requests) /\ job[e] \in Jobs
  BY LineIsTyped
<1>2. child[e] = "running"
  BY DEF WorkerStep, WorkerRead, WorkerHandles, WorkerFails, WriteRegionPayload,
         WriteRegionHeader, WorkerMapped, WorkerWritten, ChildDies, ChildStep
<1>3. ASSUME NEW status \in {"ok", "failure"}, Respond(e, status), serving[e] \in Working,
             requests' = requests, child' = child
      PROVE  Line(owed, responses'[e], Held(e)', requests'[e], child'[e] = "running")
  <2> DEFINE r == [serial |-> job[e].serial, status |-> status]
  <2>1. r \in Responses /\ r.serial = job[e].serial
    BY <1>1 DEF Jobs, Responses
  <2>2. responses' = [responses EXCEPT ![e] = Append(responses[e], r)]
    BY <1>3 DEF Respond
  <2> HIDE DEF r
  <2>3. responses'[e] = Append(responses[e], r)
    BY <2>2 DEF PoolTypes
  <2>4. serving'[e] \in {"last", "write"}
    BY <1>3 DEF Respond, PoolTypes
  <2>5. Held(e) = {job[e]} /\ Held(e)' = {}
    BY <1>3, <2>4 DEF Held, Working
  <2>6. Line(owed, Append(responses[e], r), {}, requests[e], TRUE)
    BY <1>1, <2>1, <2>5, LineRespond
  <2> QED  BY <1>2, <1>3, <2>3, <2>5, <2>6
<1>4. CASE WorkerRead(e)
  <2>1. /\ serving[e] = "read" /\ requests[e] # <<>>
        /\ job'[e] = Head(requests[e]) /\ requests'[e] = Tail(requests[e])
        /\ serving'[e] = "handle" /\ UNCHANGED <<responses, child>>
    BY <1>4 DEF WorkerRead, PoolTypes
  <2>2. Held(e) = {} /\ Held(e)' = {Head(requests[e])}
    BY <2>1 DEF Held, Working
  <2>3. Line(owed, responses[e], {Head(requests[e])}, Tail(requests[e]), TRUE)
    BY <1>1, <2>1, <2>2, LineRead
  <2> QED  BY <1>2, <2>1, <2>2, <2>3
<1>5. CASE WorkerFails(e) \/ WorkerMapped(e)
  <2>1. /\ Respond(e, "failure") \/ Respond(e, "ok")
        /\ serving[e] \in Working /\ requests' = requests /\ child' = child
    BY <1>5 DEF WorkerFails, WorkerMapped, Working
  <2> QED  BY <1>3, <2>1
<1>6. ASSUME serving[e] \in Working, serving'[e] \in Working,
             UNCHANGED <<responses, requests, child, job>>
      PROVE  Line(owed, responses'[e], Held(e)', requests'[e], child'[e] = "running")
  BY <1>2, <1>6 DEF Held
<1>7. CASE WorkerHandles(e)
  <2>1. CASE setup.shared /\ job[e].kind = "call"
    BY <1>6, <1>7, <2>1 DEF WorkerHandles, Working, PoolTypes
  <2>2. CASE ~(setup.shared /\ job[e].kind = "call")
    <3>1. Respond(e, "ok") /\ serving[e] \in Working /\ requests' = requests /\ child' = child
      BY <1>7, <2>2 DEF WorkerHandles, Working
    <3> QED  BY <1>3, <3>1
  <2> QED  BY <2>1, <2>2
<1>8. CASE WriteRegionPayload(e) \/ WriteRegionHeader(e)
  BY <1>6, <1>8 DEF WriteRegionPayload, WriteRegionHeader, Working, PoolTypes
<1>9. CASE WorkerWritten(e)
  <2>1. /\ serving[e] \in {"write", "last"} /\ serving'[e] \in {"read", "exit"}
        /\ UNCHANGED <<requests, responses, child>>
    BY <1>9 DEF WorkerWritten, PoolTypes
  <2>2. Held(e) = {} /\ Held(e)' = {}
    BY <2>1 DEF Held, Working
  <2> QED  BY <1>2, <2>1, <2>2
<1>10. CASE ChildDies(e)
  <2>1. child'[e] = "dead" /\ UNCHANGED <<requests, serving, job>>
    BY <1>10 DEF ChildDies, PoolTypes
  <2>2. \/ responses'[e] = responses[e]
        \/ Len(responses[e]) > 0 /\ responses'[e] = SubSeq(responses[e], 1, Len(responses[e]) - 1)
    <3>1. setup.room \in Nat
      BY PoolAssumption DEF PoolTypes
    <3>2. ~Written(responses[e]) => Len(responses[e]) > 0
      BY <1>1, <3>1 DEF Written
    <3> QED  BY <1>10, <3>2 DEF ChildDies, PoolTypes
  <2>3. /\ Line(owed, responses[e], Held(e), requests[e], FALSE)
        /\ Len(responses[e]) > 0 =>
             Line(owed, SubSeq(responses[e], 1, Len(responses[e]) - 1), Held(e), requests[e], FALSE)
    BY <1>1, LineDies
  <2>4. Held(e)' = Held(e)
    BY <2>1 DEF Held
  <2> QED  BY <2>1, <2>2, <2>3, <2>4
<1> QED  BY <1>4, <1>5, <1>7, <1>8, <1>9, <1>10 DEF WorkerStep

\* What a child's step leaves to the other children.
LEMMA WorkerIsAlone ==
  ASSUME PoolTypes, NEW e \in Env, WorkerStep(e), NEW d \in Env \ {e}
  PROVE  /\ responses'[d] = responses[d] /\ requests'[d] = requests[d]
         /\ serving'[d] = serving[d] /\ job'[d] = job[d] /\ child'[d] = child[d]
         /\ region'[d] = region[d]
<1>1. \A status : Respond(e, status) => responses'[d] = responses[d] /\ serving'[d] = serving[d]
  BY DEF Respond, PoolTypes
<1> QED  BY <1>1
         DEF PoolTypes, WorkerStep, WorkerRead, WorkerHandles, WorkerFails, WriteRegionPayload,
             WriteRegionHeader, WorkerMapped, WorkerWritten, ChildDies

LEMMA WorkerKeepsLines ==
  ASSUME PoolTypes, Lines, setup' = setup, NEW e \in Env, WorkerStep(e)
  PROVE  /\ Lines'
         /\ Orderly' => Orderly /\ \A d \in Env : Owed(d)' = Owed(d)
<1>1. AtRest
  BY WorkersLeaveTheParent
<1>2. Orderly' => Orderly
  BY <1>1 DEF Orderly, AtRest
<1>3. \A d : Owed(d)' = Owed(d)
  BY <1>1, OwedKept DEF AtRest, Outstanding
<1>4. ASSUME NEW d \in Env, Orderly'
      PROVE  Line(Owed(d)', responses'[d], Held(d)', requests'[d], child'[d] = "running")
  <2>1. Line(Owed(d), responses[d], Held(d), requests[d], child[d] = "running")
    BY <1>2, <1>4 DEF Lines
  <2>2. CASE d = e
    <3>1. child[e] = "running"
      BY DEF WorkerStep, WorkerRead, WorkerHandles, WorkerFails, WriteRegionPayload,
             WriteRegionHeader, WorkerMapped, WorkerWritten, ChildDies, ChildStep
    <3>2. Owed(e) \in SUBSET Int
      BY LineIsTyped
    <3>3. Line(Owed(e), responses[e], Held(e), requests[e], TRUE)
      BY <2>1, <2>2, <3>1
    <3>4. Line(Owed(e), responses'[e], Held(e)', requests'[e], child'[e] = "running")
      BY <3>2, <3>3, WorkerKeepsLine
    <3> QED  BY <1>3, <2>2, <3>4
  <2>3. CASE d # e
    <3>1. /\ responses'[d] = responses[d] /\ requests'[d] = requests[d]
          /\ serving'[d] = serving[d] /\ job'[d] = job[d] /\ child'[d] = child[d]
      BY <2>3, WorkerIsAlone
    <3>2. Held(d)' = Held(d)
      BY <3>1 DEF Held
    <3> QED  BY <1>3, <2>1, <3>1, <3>2
  <2> QED  BY <2>2, <2>3
<1> QED  BY <1>2, <1>3, <1>4 DEF Lines

-----------------------------------------------------------------------------
(* Children that serve no more, step by step.                              *)

\* A damaged child stays so while the parent is where it is.
LEMMA DamageStays ==
  ASSUME AtRest, NEW e \in Env, responses'[e] = responses[e], child'[e] = child[e],
         Owed(e)' = Owed(e)
  PROVE  Damaged(e) => Damaged(e)'
BY DEF AtRest, Damaged, At

\* The parent's steps: a failure is received, stored, and met in the end.
LEMMA ParentKeepsServed ==
  ASSUME PoolTypes, Control, BatchInv, Lines, Served, ParentStep
  PROVE  Served'
<1> USE DEF wires, processes, children, parentVars
<1>1. op = "batch" => Orderly
  BY DEF Control, Orderly
<1>2. phase \in Reading \ {"check"} => op = "batch"
  BY DEF Control, Reading
<1>3. ASSUME op = "batch", op' = "batch", serving' = serving,
             \A e \in Env : serving[e] \in {"last", "exit"} /\ Damaged(e) => Damaged(e)'
      PROVE  Served'
  BY <1>1, <1>3 DEF Served
<1>4. CASE BatchSend \/ BatchSent \/ BatchAllSent
  <2>1. /\ op = "batch" /\ op' = "batch" /\ serving' = serving /\ phase \in {"send", "sending"}
        /\ UNCHANGED <<batch, responses, child, answers>>
    BY <1>4 DEF BatchSend, BatchSent, BatchAllSent
  <2>2. \A i \in DOMAIN batch : Outstanding(i) => Outstanding(i)'
    <3>1. \A i \in DOMAIN batch : i \in Int /\ 1 <= i /\ pos \in Int
      BY BatchIs DEF PoolTypes
    <3>2. BatchSend \/ BatchSent => \A i \in DOMAIN batch : Outstanding(i) => Outstanding(i)'
      BY <3>1 DEF BatchSend, BatchSent, Outstanding, Reading
    <3>3. BatchAllSent => \A i \in DOMAIN batch : Outstanding(i) => Outstanding(i)'
      BY <3>1 DEF BatchAllSent, Outstanding, Reading
    <3> QED  BY <1>4, <3>2, <3>3
  <2>3. \A e \in Env : Owed(e) \subseteq Owed(e)'
    BY <2>1, <2>2 DEF Owed
  <2>4. \A e \in Env : Damaged(e) => Damaged(e)'
    BY <2>1, <2>3 DEF Damaged
  <2> QED  BY <1>3, <2>1, <2>4
<1>5. CASE BatchReceive
  <2>1. /\ op = "batch" /\ op' = "batch" /\ phase = "receive" /\ pos <= Len(batch)
        /\ TakeResponse(At.env) /\ phase' = IF setup.shared /\ frame'.status = "ok"
                                            THEN "read_id" ELSE "check"
        /\ UNCHANGED <<batch, pos, serving, child, answers>>
    BY <1>5 DEF BatchReceive
  <2>2. At' = At /\ At.env \in Env
    BY <2>1, AtIsTyped DEF At
  <2>3. /\ responses[At.env] # <<>> /\ frame' = responses[At.env][1] /\ frame' \in Responses
        /\ responses'[At.env] = Tail(responses[At.env])
        /\ \A d \in Env \ {At.env} : responses'[d] = responses[d]
    BY <2>1, <2>2, TakeIsTyped
  <2>4. /\ Owed(At.env)' = Owed(At.env) \ {At.serial} /\ frame'.serial = At.serial
        /\ \A e \in Env \ {At.env} : Owed(e)' = Owed(e)
    BY <1>5, ReceiveIsNext
  <2>5. ASSUME NEW e \in Env, e # At.env, Damaged(e) PROVE Damaged(e)'
    BY <2>1, <2>3, <2>4, <2>5 DEF Damaged
  <2>6. ASSUME Damaged(At.env) PROVE Damaged(At.env)'
    <3> DEFINE e == At.env
    <3>1. responses[e] \in Seq(Responses) /\ responses[e] # <<>>
      BY <2>2, <2>3 DEF PoolTypes
    <3>2. /\ \A n \in DOMAIN responses'[e] : n + 1 \in DOMAIN responses[e]
                                             /\ responses'[e][n] = responses[e][n + 1]
          /\ \A n \in DOMAIN responses[e] : n # 1 =>
               n - 1 \in DOMAIN responses'[e] /\ responses'[e][n - 1] = responses[e][n]
          /\ 1 \in DOMAIN responses[e]
      BY <2>3, <3>1, TailIs
    <3> HIDE DEF e
    <3>3. CASE \E n \in DOMAIN responses[e] : responses[e][n].status = "failure"
      <4>1. PICK n \in DOMAIN responses[e] : responses[e][n].status = "failure"
        BY <3>3
      <4>2. CASE n = 1
        BY <2>1, <2>2, <2>3, <4>1, <4>2 DEF Damaged, e
      <4>3. CASE n # 1
        BY <2>2, <3>2, <4>1, <4>3 DEF Damaged, e
      <4> QED  BY <4>2, <4>3
    <3>4. CASE \E i \in DOMAIN answers : answers[i].status = "failure"
      BY <2>1, <3>4 DEF Damaged
    <3>5. CASE /\ child[e] # "running"
               /\ \E s \in Owed(e) : \A n \in DOMAIN responses[e] : responses[e][n].serial < s
      <4>1. PICK s \in Owed(e) : \A n \in DOMAIN responses[e] : responses[e][n].serial < s
        BY <3>5
      <4>2. At.serial < s /\ At.serial \in Int
        <5>1. frame'.serial < s /\ At.serial \in Int
          BY <2>1, <2>2, <2>3, <3>2, <4>1, AtIsTyped DEF e
        <5> QED  BY <2>4, <5>1
      <4>3. s # At.serial
        BY <4>2
      <4>4. s \in Owed(e)' /\ \A n \in DOMAIN responses'[e] : responses'[e][n].serial < s
        BY <2>2, <2>4, <3>2, <4>1, <4>3 DEF e
      <4> QED  BY <2>1, <2>2, <3>5, <4>4 DEF Damaged, e
    <3> QED  BY <2>1, <2>6, <3>3, <3>4, <3>5 DEF Damaged, e
  <2>7. \A e \in Env : Damaged(e) => Damaged(e)'
    BY <2>2, <2>5, <2>6
  <2> QED  BY <1>3, <2>1, <2>7
<1>6. CASE ReadRegionId \/ ReadRegionPayload \/ ReadRegionSum
  <2>1. /\ phase \in Reading \ {"check"} /\ phase' \in Reading
        /\ UNCHANGED <<op, batch, pos, responses, serving, child, answers>>
    BY <1>6 DEF ReadRegionId, ReadRegionPayload, ReadRegionSum, Reading
  <2>2. \A i \in DOMAIN batch : Outstanding(i)' <=> Outstanding(i)
    BY <2>1 DEF Outstanding, Reading
  <2>3. \A e : Owed(e)' = Owed(e)
    BY <2>1, <2>2, OwedKept
  <2>4. \A e \in Env : Damaged(e) => Damaged(e)'
    BY <2>1, <2>3 DEF Damaged, Reading
  <2> QED  BY <1>2, <1>3, <2>1, <2>4
<1>7. CASE BatchStore
  <2>1. /\ phase = "check" /\ phase' = "receive" /\ pos' = pos + 1 /\ op = "batch"
        /\ answers' = Append(answers, Answer)
        /\ UNCHANGED <<op, batch, responses, serving, child>>
    BY <1>7 DEF BatchStore
  <2>2. \A i \in DOMAIN batch : Outstanding(i)' <=> Outstanding(i)
    <3>1. \A i \in DOMAIN batch : i \in Int /\ pos \in Int
      BY BatchIs DEF PoolTypes
    <3> QED  BY <2>1, <3>1 DEF Outstanding, Reading
  <2>3. \A e : Owed(e)' = Owed(e)
    BY <2>1, <2>2, OwedKept
  <2>4. /\ \A i \in DOMAIN answers : i \in DOMAIN answers' /\ answers'[i] = answers[i]
        /\ Len(answers) + 1 \in DOMAIN answers' /\ answers'[Len(answers) + 1] = Answer
    BY <2>1 DEF PoolTypes
  <2>5. Answer.status = frame.status
    BY DEF Answer
  <2>6. \A e \in Env : Damaged(e) => Damaged(e)'
    BY <2>1, <2>3, <2>4, <2>5 DEF Damaged
  <2> QED  BY <1>3, <2>1, <2>6
<1>8. CASE BatchFinish
  <2>1. /\ op = "batch" /\ phase = "receive" /\ pos > Len(batch) /\ serving' = serving
        /\ (\E i \in DOMAIN answers : answers[i].status = "failure") => state' = "Poisoned"
    BY <1>8 DEF BatchFinish
  <2>2. CASE \E i \in DOMAIN answers : answers[i].status = "failure"
    BY <2>1, <2>2 DEF Served, Orderly
  <2>3. CASE ~\E i \in DOMAIN answers : answers[i].status = "failure"
    <3>1. ASSUME NEW e \in Env PROVE ~Damaged(e)
      <4>1. Owed(e) = {}
        <5>1. \A i \in DOMAIN batch : i <= Len(batch) /\ i \in Int /\ pos \in Int
                                      /\ Len(batch) \in Int
          BY BatchIs DEF PoolTypes
        <5>2. \A i \in DOMAIN batch : ~Outstanding(i)
          BY <2>1, <5>1 DEF Outstanding, Reading
        <5> QED  BY <5>2 DEF Owed
      <4>2. Line({}, responses[e], Held(e), requests[e], child[e] = "running")
        BY <1>1, <2>1, <4>1 DEF Lines
      <4>3. responses[e] \in Seq(Responses) /\ requests[e] \in Seq(Requests)
        BY DEF PoolTypes
      <4>4. responses[e] = <<>>
        BY <4>2, <4>3, LineEmpty
      <4> QED  BY <2>1, <2>3, <4>1, <4>4 DEF Damaged
    <3> QED  BY <1>1, <2>1, <3>1 DEF Served
  <2> QED  BY <2>2, <2>3
<1>9. CASE BatchFails \/ BatchRejects \/ CloseSend \/ CloseSent \/ CloseReceive \/ CloseInput
            \/ CloseReap \/ CloseFails \/ CloseRejects \/ CloseWaitTimesOut
            \/ Terminate \/ TerminateFails
  <2>1. ~Orderly'
    BY <1>9
       DEF BatchFails, BatchRejects, CloseSend, CloseSent, CloseReceive, CloseInput, CloseReap,
           CloseFails, CloseRejects, CloseWaitTimesOut, Terminate, TerminateFails, FailClose,
           NextToKill, Orderly
  <2> QED  BY <2>1 DEF Served
<1> QED  BY <1>4, <1>5, <1>6, <1>7, <1>8, <1>9 DEF ParentStep

\* The calls: every child serves.
LEMMA CallKeepsServed ==
  ASSUME Control, Served, Build \/ Call \/ Rest
  PROVE  Served'
<1> USE DEF wires, processes, children, parentVars
<1>1. CASE SpawnFails \/ Drop \/ StartClose \/ StartForcedClose
  <2>1. ~Orderly'
    BY <1>1 DEF SpawnFails, Drop, StartClose, StartForcedClose, Orderly
  <2> QED  BY <2>1 DEF Served
<1>2. CASE SpawnWorker \/ Refuse \/ (\E ids \in setup.batches : StartBatch(ids)) \/ Rest
  <2>1. op = "none" /\ serving' = serving /\ (Orderly' => Orderly)
    BY <1>2 DEF SpawnWorker, Refuse, StartBatch, Rest, vars, Control, Orderly
  <2> QED  BY <2>1 DEF Served
<1> QED  BY <1>1, <1>2 DEF Build, Call

\* A child's step: it stops serving with a failure, and takes none back but
\* one that nobody can read any more.
LEMMA WorkerKeepsServed ==
  ASSUME PoolTypes, Control, Lines, Served, setup' = setup, NEW e \in Env, WorkerStep(e)
  PROVE  Served'
<1>1. AtRest
  BY WorkersLeaveTheParent
<1>2. Orderly' => Orderly /\ \A d \in Env : Owed(d)' = Owed(d)
  BY WorkerKeepsLines
<1> SUFFICES ASSUME Orderly', NEW d \in Env, serving'[d] \in {"last", "exit"}
             PROVE  op' = "batch" /\ Damaged(d)'
  BY DEF Served
<1>3. CASE d # e
  <2>1. serving'[d] = serving[d] /\ responses'[d] = responses[d] /\ child'[d] = child[d]
    BY <1>3, WorkerIsAlone
  <2>2. op = "batch" /\ Damaged(d)
    BY <1>2, <2>1 DEF Served
  <2> QED  BY <1>1, <1>2, <2>1, <2>2, DamageStays DEF AtRest
<1>4. CASE d = e
  <2>1. Line(Owed(e), responses[e], Held(e), requests[e], child[e] = "running")
    BY <1>2 DEF Lines
  <2>2. responses[e] \in Seq(Responses)
    BY DEF PoolTypes
  <2>3. ASSUME NEW status \in {"ok", "failure"}, Respond(e, status), serving[e] \in Working
        PROVE  op' = "batch" /\ Damaged(e)'
    <3>1. Held(e) = {job[e]}
      BY <2>3 DEF Held
    <3>2. job[e].serial \in Owed(e) /\ job[e].kind = "call"
      BY <2>1, <3>1 DEF Line
    <3>3. op = "batch"
      BY <3>2, OwedInBatch
    <3>4. status = "failure"
      BY <1>4, <2>3, <3>2 DEF Respond, PoolTypes
    <3> DEFINE r == [serial |-> job[e].serial, status |-> status]
    <3>5. responses'[e] = Append(responses[e], r) /\ r.status = "failure"
      BY <2>3, <3>4 DEF Respond, PoolTypes
    <3> HIDE DEF r
    <3>6. \E n \in DOMAIN responses'[e] : responses'[e][n].status = "failure"
      <4>1. Len(responses[e]) + 1 \in DOMAIN responses'[e]
            /\ responses'[e][Len(responses[e]) + 1] = r
        BY <2>2, <3>5
      <4> QED  BY <3>5, <4>1
    <3> QED  BY <1>1, <3>3, <3>6 DEF AtRest, Damaged
  <2>4. CASE WorkerRead(e) \/ WriteRegionPayload(e) \/ WriteRegionHeader(e)
    <3>1. serving'[e] \in Working
      BY <2>4 DEF WorkerRead, WriteRegionPayload, WriteRegionHeader, PoolTypes, Working
    <3> QED  BY <1>4, <3>1 DEF Working
  <2>5. CASE WorkerHandles(e)
    <3>1. CASE setup.shared /\ job[e].kind = "call"
      BY <1>4, <2>5, <3>1 DEF WorkerHandles, PoolTypes
    <3>2. CASE ~(setup.shared /\ job[e].kind = "call")
      <4>1. Respond(e, "ok") /\ serving[e] \in Working
        BY <2>5, <3>2 DEF WorkerHandles, Working
      <4> QED  BY <1>4, <2>3, <4>1
    <3> QED  BY <3>1, <3>2
  <2>6. CASE WorkerFails(e) \/ WorkerMapped(e)
    <3>1. (Respond(e, "failure") \/ Respond(e, "ok")) /\ serving[e] \in Working
      BY <2>6 DEF WorkerFails, WorkerMapped, Working
    <3> QED  BY <1>4, <2>3, <3>1
  <2>7. CASE WorkerWritten(e)
    <3>1. serving[e] = "last" /\ responses' = responses /\ child' = child
      BY <1>4, <2>7 DEF WorkerWritten, PoolTypes
    <3>2. op = "batch" /\ Damaged(e)
      BY <1>2, <3>1 DEF Served
    <3> QED  BY <1>1, <1>2, <1>4, <3>1, <3>2, DamageStays DEF AtRest
  <2>8. CASE ChildDies(e)
    <3>1. serving' = serving /\ child[e] = "running" /\ child'[e] = "dead"
      BY <2>8 DEF ChildDies, ChildStep, PoolTypes
    <3>2. op = "batch" /\ Damaged(e)
      BY <1>2, <1>4, <3>1 DEF Served
    <3>3. CASE responses'[e] = responses[e]
      BY <1>1, <1>4, <3>1, <3>2, <3>3 DEF AtRest, Damaged, At
    <3>4. CASE responses'[e] # responses[e]
      <4> DEFINE rs == responses[e]
                 rs1 == SubSeq(rs, 1, Len(rs) - 1)
      <4>1. setup.room \in Nat
        BY PoolAssumption DEF PoolTypes
      <4>2. Len(rs) > 0 /\ responses'[e] = rs1
        BY <2>2, <2>8, <3>4, <4>1 DEF ChildDies, Written, PoolTypes
      <4>3. /\ \A n \in DOMAIN rs : n \in DOMAIN rs1 \/ n = Len(rs)
            /\ \A n \in DOMAIN rs1 : rs1[n] = rs[n]
            /\ Len(rs) \in DOMAIN rs
        BY <2>2, <4>2
      <4>4. \A n \in DOMAIN rs1 : rs1[n].serial < rs[Len(rs)].serial
        <5>1. Held(e) \in SUBSET Jobs /\ requests[e] \in Seq(Requests) /\ Owed(e) \in SUBSET Int
          BY LineIsTyped
        <5> QED  BY <2>1, <2>2, <4>2, <5>1, LineDies
      <4>5. rs[Len(rs)].serial \in Owed(e)
        BY <2>1, <4>3 DEF Line
      <4> HIDE DEF rs, rs1
      <4>6. \E s \in Owed(e)' : \A n \in DOMAIN responses'[e] : responses'[e][n].serial < s
        BY <1>2, <4>2, <4>4, <4>5
      <4> QED  BY <1>1, <1>4, <3>1, <3>2, <4>6 DEF Damaged, AtRest
    <3> QED  BY <3>3, <3>4
  <2> QED  BY <2>4, <2>5, <2>6, <2>7, <2>8 DEF WorkerStep
<1> QED  BY <1>3, <1>4

-----------------------------------------------------------------------------
(* The pool is quiet, and close reaps.                                     *)

\* The initial state.
LEMMA InitPool == Init => PoolInv /\ MapInv /\ AnswersMatchRequests /\ CloseReapsEveryChild
<1> SUFFICES ASSUME Init
             PROVE  PoolInv /\ MapInv /\ AnswersMatchRequests /\ CloseReapsEveryChild
  OBVIOUS
<1>1. PoolTypes
  <2>1. Blank \in Mapping /\ NoRequest \in Jobs
    BY DEF Blank, Mapping, NoRequest, Jobs
  <2>2. batch = <<>> /\ answers = <<>> /\ frame = NoFrame /\ seen \in Mapping /\ pos = 0
        /\ nextRequest = 0 /\ setup \in Setups
    BY <2>1 DEF Init
  <2>3. /\ requests \in [Env -> Seq(Requests)] /\ responses \in [Env -> Seq(Responses)]
        /\ job \in [Env -> Jobs] /\ region \in [Env -> Mapping]
        /\ serving \in [Env -> Working \cup {"read", "write", "last", "exit"}]
        /\ child \in [Env -> {"none", "running", "dead", "reaped"}]
    BY <2>1 DEF Init
  <2>4. frame \in [serial : Int, status : {"none", "ok", "failure"}]
    BY <2>2 DEF NoFrame
  <2> QED  BY <2>2, <2>3, <2>4 DEF PoolTypes
<1>2. Control /\ BatchInv
  BY DEF Init, Control, BatchInv
<1>3. Lines
  <2>1. ASSUME NEW e \in Env
        PROVE  Owed(e) = {} /\ Held(e) = {} /\ responses[e] = <<>> /\ requests[e] = <<>>
    BY DEF Init, Owed, Held, Working
  <2> QED  BY <2>1, LineEmpty DEF Lines, Line
<1>4. Served /\ MapInv
  BY DEF Init, Served, MapInv
<1>5. AnswersMatchRequests
  <2>1. answers = <<>> /\ outcome = "none"
    BY DEF Init
  <2> QED  BY <2>1 DEF AnswersMatchRequests
<1>6. CloseInv /\ CloseReapsEveryChild
  BY DEF Init, CloseInv, CloseReapsEveryChild
<1> QED  BY <1>1, <1>2, <1>3, <1>4, <1>5, <1>6 DEF PoolInv, Places

\* Every step keeps the invariant.
LEMMA PoolInvKept ==
  ASSUME PoolInv, CloseReapsEveryChild, [Next]_vars
  PROVE  PoolInv' /\ CloseReapsEveryChild'
<1> USE DEF PoolInv, Places
<1>1. Control' /\ BatchInv' /\ CloseInv' /\ CloseReapsEveryChild'
  BY ControlKept, BatchInvKept, CloseKept
<1>2. CASE ParentStep
  BY <1>1, <1>2, ParentKeepsTypes, ParentKeepsLines, ParentKeepsServed
<1>3. CASE setup' = setup /\ (Build \/ Call \/ Rest)
  BY <1>1, <1>3, CallKeepsTypes, CallKeepsLines, CallKeepsServed
<1>4. ASSUME NEW e \in Env, setup' = setup, WorkerStep(e) PROVE PoolInv'
  BY <1>1, <1>4, WorkerKeepsTypes, WorkerKeepsLines, WorkerKeepsServed
<1>5. CASE UNCHANGED vars
  <2>1. PoolTypes'
    BY <1>5 DEF vars, PoolTypes
  <2>2. UNCHANGED <<op, phase, pos, batch, state, frame, answers,
                    responses, requests, serving, job, child>>
    BY <1>5 DEF vars
  <2>3. \A i \in DOMAIN batch : Outstanding(i)' <=> Outstanding(i)
    BY <2>2 DEF Outstanding
  <2>4. \A e \in Env : Owed(e)' = Owed(e)
    BY <2>2, <2>3, OwedKept
  <2>5. Orderly' => Orderly
    BY <2>2 DEF Orderly
  <2>6. Lines'
    BY <2>2, <2>4, <2>5, LinesUndisturbed
  <2>7. Served'
    BY <2>2, <2>4, <2>5 DEF Served, Damaged, At
  <2> QED  BY <1>1, <2>1, <2>6, <2>7
<1> QED  BY <1>1, <1>2, <1>3, <1>4, <1>5 DEF Next

\* Nothing is on the way where nothing is owed.
LEMMA QuietWhenOpen == PoolInv => OpenPoolIsQuiet
<1> SUFFICES ASSUME PoolInv, state = "Open", op = "none", NEW e \in Env
             PROVE  requests[e] = <<>> /\ responses[e] = <<>> /\ serving[e] \in {"read", "write"}
  BY DEF OpenPoolIsQuiet
<1> USE DEF PoolInv, Places
<1>1. Owed(e) = {} /\ Orderly
  BY OwedInBatch DEF Orderly
<1>2. Line({}, responses[e], Held(e), requests[e], child[e] = "running")
  BY <1>1 DEF Lines
<1>3. responses[e] \in Seq(Responses) /\ requests[e] \in Seq(Requests)
  BY DEF PoolTypes
<1>4. responses[e] = <<>> /\ Held(e) = {} /\ requests[e] = <<>>
  BY <1>2, <1>3, LineEmpty
<1>5. serving[e] \notin Working /\ serving[e] \notin {"last", "exit"}
  BY <1>1, <1>4 DEF Held, Served
<1>6. serving[e] \in Working \cup {"read", "write", "last", "exit"}
  BY DEF PoolTypes
<1> QED  BY <1>4, <1>5, <1>6

\* An open pool between two calls owes and is owed nothing, however the calls
\* before it ended: no late response and no half-done request is left
\* (the poisoning in exchange of finite_subprocess_backend.rs is what it takes).
THEOREM OpenPoolsAreQuiet == Spec => []OpenPoolIsQuiet
<1>1. Init => PoolInv /\ CloseReapsEveryChild
  BY InitPool
<1>2. PoolInv /\ CloseReapsEveryChild /\ [Next]_vars => (PoolInv /\ CloseReapsEveryChild)'
  BY PoolInvKept
<1>3. PoolInv => OpenPoolIsQuiet
  BY QuietWhenOpen
<1> QED  BY <1>1, <1>2, <1>3, PTL DEF Spec

\* close leaves no child that was not waited for, unless its own forced
\* termination failed; a close that succeeds leaves none.
THEOREM CloseReaps == Spec => []CloseReapsEveryChild
<1>1. Init => PoolInv /\ CloseReapsEveryChild
  BY InitPool
<1>2. PoolInv /\ CloseReapsEveryChild /\ [Next]_vars => (PoolInv /\ CloseReapsEveryChild)'
  BY PoolInvKept
<1> QED  BY <1>1, <1>2, PTL DEF Spec

-----------------------------------------------------------------------------
(* Answers, and the mapped region.                                         *)

\* Where no environment is asked twice, a child owes one answer, and none
\* while the parent reads what it left.
LEMMA OneOwed ==
  ASSUME PoolInv, MapInv, setup.shared, AsksOnce, Orderly, NEW e \in Env
  PROVE  /\ \A s, t \in Owed(e) : s = t
         /\ op = "batch" /\ phase \in Reading => Owed(At.env) = {}
<1>1. \A i, j \in DOMAIN batch : i # j => batch[i].env # batch[j].env
  BY DEF MapInv
<1>2. \A s, t \in Owed(e) : s = t
  BY <1>1 DEF Owed
<1>3. ASSUME op = "batch", phase \in Reading PROVE Owed(At.env) = {}
  <2>1. pos \in DOMAIN batch
    BY <1>3, AtIsTyped DEF PoolInv, Places, BatchInv
  <2>2. \A i \in DOMAIN batch : Outstanding(i) => i > pos
    BY <1>3 DEF Outstanding, Reading
  <2>3. \A i \in DOMAIN batch : batch[i].env = At.env => i = pos
    BY <1>1, <2>1 DEF At
  <2>4. pos \in Int
    BY DEF PoolInv, Places, PoolTypes
  <2> QED  BY <2>2, <2>3, <2>4 DEF Owed
<1> QED  BY <1>2, <1>3

\* What the region of a child holds, in the parent's steps.
LEMMA ParentKeepsMap ==
  ASSUME PoolInv, MapInv, ParentStep
  PROVE  MapInv'
<1> USE DEF PoolInv, Places, wires, processes, children, parentVars
<1>1. op = "batch" => Orderly
  BY DEF Control, Orderly
<1>2. setup' = setup /\ (AsksOnce' <=> AsksOnce)
  BY DEF ParentStep, AsksOnce
<1> SUFFICES ASSUME setup.shared, AsksOnce, Orderly' PROVE MapInv'
  BY <1>2 DEF MapInv
<1>3. ASSUME op = "batch", UNCHANGED <<batch, responses, region, serving, job>>,
             op' = "batch" => phase' \notin Reading
      PROVE  MapInv'
  BY <1>1, <1>3 DEF MapInv, Reading
<1>4. CASE BatchSend \/ BatchSent \/ BatchAllSent \/ BatchStore \/ BatchFinish
  <2>1. /\ op = "batch" /\ UNCHANGED <<batch, responses, region, serving, job>>
        /\ op' = "batch" => phase' \notin Reading
    BY <1>4 DEF BatchSend, BatchSent, BatchAllSent, BatchStore, BatchFinish, Reading
  <2> QED  BY <1>3, <2>1
<1>5. CASE BatchReceive
  <2>1. /\ op = "batch" /\ op' = "batch" /\ pos <= Len(batch) /\ TakeResponse(At.env)
        /\ phase' = IF setup.shared /\ frame'.status = "ok" THEN "read_id" ELSE "check"
        /\ UNCHANGED <<batch, pos, region, serving, job>>
    BY <1>5 DEF BatchReceive
  <2>2. At' = At /\ At.env \in Env /\ frame'.serial = At.serial
    BY <1>5, <2>1, AtIsTyped, ReceiveIsNext DEF At
  <2>3. /\ frame' = responses[At.env][1] /\ responses[At.env] # <<>>
        /\ responses'[At.env] = Tail(responses[At.env])
        /\ \A d \in Env \ {At.env} : responses'[d] = responses[d]
    BY <2>1, <2>2, TakeIsTyped
  <2>4. /\ 1 \in DOMAIN responses[At.env]
        /\ \A n \in DOMAIN responses'[At.env] :
             n + 1 \in DOMAIN responses[At.env]
             /\ responses'[At.env][n] = responses[At.env][n + 1]
    <3>1. responses[At.env] \in Seq(Responses)
      BY <2>2 DEF PoolTypes
    <3> QED  BY <2>3, <3>1, TailIs
  <2>5. \A e \in Env : \A n \in DOMAIN responses[e] : responses[e][n].status = "ok" =>
          region[e].payload = responses[e][n].serial
    BY <1>1, <2>1 DEF MapInv
  <2>6. frame'.status = "ok" => region[At.env].payload = At.serial
    BY <2>2, <2>3, <2>4, <2>5
  <2>7. ASSUME NEW e \in Env, NEW n \in DOMAIN responses'[e], responses'[e][n].status = "ok"
        PROVE  region[e].payload = responses'[e][n].serial
    <3>1. CASE e = At.env
      BY <2>4, <2>5, <2>7, <3>1
    <3>2. CASE e # At.env
      BY <2>3, <2>5, <2>7, <3>2
    <3> QED  BY <3>1, <3>2
  <2>8. /\ \A i, j \in DOMAIN batch : i # j => batch[i].env # batch[j].env
        /\ \A e \in Env : serving[e] \in {"header", "mapped"} => region[e].payload = job[e].serial
    BY <1>1, <2>1 DEF MapInv
  <2>9. phase' \in {"read_sum", "check"} => frame'.status # "ok"
    BY <2>1
  <2> QED  BY <2>1, <2>2, <2>6, <2>7, <2>8, <2>9 DEF MapInv
<1>6. CASE ReadRegionId \/ ReadRegionPayload \/ ReadRegionSum
  <2>1. /\ phase \in Reading \ {"check"} /\ op = "batch"
        /\ UNCHANGED <<op, batch, pos, frame, responses, region, serving, job>>
    BY <1>6 DEF ReadRegionId, ReadRegionPayload, ReadRegionSum, Reading, Control
  <2>2. At' = At
    BY <2>1 DEF At
  <2>3. /\ seen \in Mapping
        /\ frame.status = "ok" => region[At.env].payload = At.serial
    BY <1>1, <2>1 DEF MapInv, PoolTypes, Reading
  <2>4. ASSUME phase' \in {"read_sum", "check"}, frame.status = "ok"
        PROVE  seen'.payload = At.serial
    <3>1. CASE ReadRegionId
      BY <2>4, <3>1 DEF ReadRegionId
    <3>2. CASE ReadRegionPayload
      <4>1. seen' = [seen EXCEPT !.payload = region[At.env].payload]
        BY <3>2 DEF ReadRegionPayload
      <4> QED  BY <2>3, <2>4, <4>1 DEF Mapping
    <3>3. CASE ReadRegionSum
      <4>1. seen' = [seen EXCEPT !.sum = region[At.env].sum] /\ phase = "read_sum"
        BY <3>3 DEF ReadRegionSum
      <4>2. seen.payload = At.serial
        BY <1>1, <2>1, <2>4, <4>1 DEF MapInv
      <4> QED  BY <2>3, <4>1, <4>2 DEF Mapping
    <3> QED  BY <1>6, <3>1, <3>2, <3>3
  <2>5. /\ \A i, j \in DOMAIN batch : i # j => batch[i].env # batch[j].env
        /\ \A e \in Env : /\ \A n \in DOMAIN responses[e] : responses[e][n].status = "ok" =>
                               region[e].payload = responses[e][n].serial
                          /\ serving[e] \in {"header", "mapped"} =>
                               region[e].payload = job[e].serial
    BY <1>1, <2>1 DEF MapInv
  <2> QED  BY <2>1, <2>2, <2>3, <2>4, <2>5 DEF MapInv
<1>7. CASE BatchFails \/ BatchRejects \/ CloseSend \/ CloseSent \/ CloseReceive \/ CloseInput
            \/ CloseReap \/ CloseFails \/ CloseRejects \/ CloseWaitTimesOut
            \/ Terminate \/ TerminateFails
  BY <1>7
     DEF BatchFails, BatchRejects, CloseSend, CloseSent, CloseReceive, CloseInput, CloseReap,
         CloseFails, CloseRejects, CloseWaitTimesOut, Terminate, TerminateFails, FailClose,
         NextToKill, Orderly
<1> QED  BY <1>4, <1>5, <1>6, <1>7 DEF ParentStep

\* In the calls.
LEMMA CallKeepsMap ==
  ASSUME PoolInv, MapInv, setup' = setup, Build \/ Call \/ Rest
  PROVE  MapInv'
<1> USE DEF PoolInv, Places, wires, processes, children, parentVars
<1>1. AsksOnce' <=> AsksOnce
  BY DEF AsksOnce
<1> SUFFICES ASSUME setup.shared, AsksOnce, Orderly' PROVE MapInv'
  BY <1>1 DEF MapInv
<1>2. CASE SpawnFails \/ Drop \/ StartClose \/ StartForcedClose
  BY <1>2 DEF SpawnFails, Drop, StartClose, StartForcedClose, Orderly
<1>3. CASE SpawnWorker \/ Refuse \/ Rest
  <2>1. /\ op = "none" /\ op' = "none" /\ Orderly
        /\ UNCHANGED <<responses, region, serving, job>> /\ (batch' = batch \/ batch' = <<>>)
    BY <1>3 DEF SpawnWorker, Refuse, Rest, vars, Control, Orderly
  <2> QED  BY <2>1 DEF MapInv
<1>4. ASSUME NEW ids \in setup.batches, StartBatch(ids) PROVE MapInv'
  <2>1. ids \in Seq(Env)
    BY PoolAssumption DEF PoolTypes
  <2>2. /\ DOMAIN batch' = DOMAIN ids /\ \A i \in DOMAIN ids : batch'[i].env = ids[i]
        /\ op' = "batch" /\ phase' = "send" /\ UNCHANGED <<responses, region, serving, job, state>>
        /\ op = "none"
    BY <1>4, <2>1 DEF StartBatch
  <2>3. \A i, j \in DOMAIN ids : i # j => ids[i] # ids[j]
    BY DEF AsksOnce
  <2>4. Orderly /\ phase' \notin Reading
    BY <2>2 DEF Orderly, Reading
  <2> QED  BY <2>2, <2>3, <2>4 DEF MapInv, Reading
<1> QED  BY <1>2, <1>3, <1>4 DEF Build, Call

\* In a child's steps: it writes its region when no response is there and
\* nobody reads.
LEMMA WorkerKeepsMap ==
  ASSUME PoolInv, MapInv, setup' = setup, NEW e \in Env, WorkerStep(e)
  PROVE  MapInv'
<1> USE DEF PoolInv, Places
<1>1. AtRest
  BY WorkersLeaveTheParent
<1>2. Orderly' => Orderly
  BY WorkerKeepsLines
<1>3. AsksOnce' <=> AsksOnce
  BY DEF AsksOnce
<1> SUFFICES ASSUME setup.shared, AsksOnce, Orderly' PROVE MapInv'
  BY <1>3 DEF MapInv
<1>4. At' = At /\ UNCHANGED <<op, phase, batch, frame, seen>>
  BY <1>1, WorkersLeaveTheParent DEF AtRest, At
<1>5. Line(Owed(e), responses[e], Held(e), requests[e], child[e] = "running")
  BY <1>2 DEF Lines
<1>6. /\ responses[e] \in Seq(Responses) /\ job[e] \in Jobs /\ region[e] \in Mapping
      /\ requests[e] \in Seq(Requests)
  BY DEF PoolTypes
<1>7. /\ \A i, j \in DOMAIN batch : i # j => batch[i].env # batch[j].env
      /\ \A d \in Env : /\ \A n \in DOMAIN responses[d] : responses[d][n].status = "ok" =>
                             region[d].payload = responses[d][n].serial
                        /\ serving[d] \in {"header", "mapped"} =>
                             region[d].payload = job[d].serial
      /\ op = "batch" /\ phase \in Reading /\ frame.status = "ok" =>
           region[At.env].payload = At.serial
      /\ op = "batch" /\ phase \in {"read_sum", "check"} /\ frame.status = "ok" =>
           seen.payload = At.serial
  BY <1>2 DEF MapInv
\* It is enough to look at this child.
<1>8. ASSUME \A n \in DOMAIN responses'[e] : responses'[e][n].status = "ok" =>
                                               region'[e].payload = responses'[e][n].serial,
             serving'[e] \in {"header", "mapped"} => region'[e].payload = job'[e].serial,
             region'[e].payload = region[e].payload
               \/ ~(op = "batch" /\ phase \in Reading /\ At.env = e)
      PROVE  MapInv'
  <2>1. \A d \in Env \ {e} : /\ responses'[d] = responses[d] /\ serving'[d] = serving[d]
                             /\ job'[d] = job[d] /\ region'[d] = region[d]
    BY WorkerIsAlone
  <2>2. op = "batch" /\ phase \in Reading => At.env \in Env
    BY AtIsTyped DEF BatchInv
  <2>3. \A d \in Env : /\ \A n \in DOMAIN responses'[d] : responses'[d][n].status = "ok" =>
                             region'[d].payload = responses'[d][n].serial
                       /\ serving'[d] \in {"header", "mapped"} =>
                            region'[d].payload = job'[d].serial
    BY <1>7, <1>8, <2>1
  <2>4. op = "batch" /\ phase \in Reading => region'[At.env].payload = region[At.env].payload
    BY <1>8, <2>1, <2>2
  <2> QED  BY <1>4, <1>7, <2>3, <2>4 DEF MapInv
\* A response to the request it holds.
<1>9. ASSUME NEW status \in {"ok", "failure"}, Respond(e, status), UNCHANGED <<region, job>>,
             status = "ok" => region[e].payload = job[e].serial
      PROVE  MapInv'
  <2> DEFINE r == [serial |-> job[e].serial, status |-> status]
  <2>1. responses'[e] = Append(responses[e], r)
    BY <1>9 DEF Respond, PoolTypes
  <2>2. r.serial = job[e].serial /\ r.status = status
    OBVIOUS
  <2> HIDE DEF r
  <2>3. \A n \in DOMAIN responses'[e] : \/ n \in DOMAIN responses[e]
                                           /\ responses'[e][n] = responses[e][n]
                                        \/ responses'[e][n] = r
    BY <1>6, <2>1
  <2>4. serving'[e] \notin {"header", "mapped"}
    BY <1>9 DEF Respond, PoolTypes
  <2> QED  BY <1>7, <1>8, <1>9, <2>2, <2>3, <2>4
<1>10. CASE WorkerRead(e) \/ WorkerWritten(e)
  <2>1. responses' = responses /\ region' = region /\ serving'[e] \notin {"header", "mapped"}
    BY <1>10 DEF WorkerRead, WorkerWritten, PoolTypes
  <2> QED  BY <1>7, <1>8, <2>1
<1>11. CASE WorkerFails(e)
  BY <1>9, <1>11 DEF WorkerFails
<1>12. CASE WorkerMapped(e)
  BY <1>7, <1>9, <1>12 DEF WorkerMapped
<1>13. CASE WorkerHandles(e)
  <2>1. Held(e) = {job[e]}
    BY <1>13 DEF WorkerHandles, Held, Working
  <2>2. job[e].kind = "call"
    BY <1>5, <2>1 DEF Line
  <2>3. responses' = responses /\ region' = region /\ serving'[e] = "payload"
    BY <1>13, <2>2 DEF WorkerHandles, PoolTypes
  <2> QED  BY <1>7, <1>8, <2>3
<1>14. CASE WriteRegionPayload(e)
  <2>1. /\ responses' = responses /\ job' = job /\ serving[e] = "payload"
        /\ region' = [region EXCEPT ![e] = [region[e] EXCEPT !.payload = job[e].serial]]
    BY <1>14 DEF WriteRegionPayload
  <2>2. region'[e].payload = job[e].serial
    BY <1>6, <2>1 DEF PoolTypes, Mapping
  <2>3. Held(e) = {job[e]}
    BY <2>1 DEF Held, Working
  <2>4. job[e].serial \in Owed(e) /\ job[e].serial \in Int
    BY <1>5, <1>6, <2>3 DEF Line, Jobs
  <2>5. \A n \in DOMAIN responses[e] : FALSE
    <3>1. \A n \in DOMAIN responses[e] : responses[e][n].serial \in Owed(e)
                                         /\ responses[e][n].serial < job[e].serial
      BY <1>5, <2>3 DEF Line
    <3>2. \A s \in Owed(e) : s = job[e].serial
      BY <1>2, <2>4, OneOwed
    <3> QED  BY <2>4, <3>1, <3>2
  <2>6. ~(op = "batch" /\ phase \in Reading /\ At.env = e)
    BY <1>2, <2>4, OneOwed
  <2> QED  BY <1>8, <2>1, <2>2, <2>5, <2>6
<1>15. CASE WriteRegionHeader(e)
  <2> DEFINE id == WireId(job[e].serial)
             r == [region[e] EXCEPT !.id = id, !.sum = job[e].serial]
  <2>1. /\ responses' = responses /\ job' = job /\ serving[e] = "header"
        /\ region' = [region EXCEPT ![e] = r]
    BY <1>15 DEF WriteRegionHeader
  <2>2. r.payload = region[e].payload
    BY <1>6 DEF Mapping
  <2> HIDE DEF r
  <2>3. region'[e].payload = region[e].payload
    BY <2>1, <2>2 DEF PoolTypes
  <2> QED  BY <1>7, <1>8, <2>1, <2>3
<1>16. CASE ChildDies(e)
  <2>1. region' = region /\ job' = job /\ serving' = serving
    BY <1>16 DEF ChildDies
  <2>2. \A n \in DOMAIN responses'[e] : n \in DOMAIN responses[e]
                                        /\ responses'[e][n] = responses[e][n]
    <3>1. setup.room \in Nat
      BY PoolAssumption DEF PoolTypes
    <3>2. ~Written(responses[e]) => Len(responses[e]) > 0
      BY <1>6, <3>1 DEF Written
    <3>3. \/ responses'[e] = responses[e]
          \/ /\ Len(responses[e]) > 0
             /\ responses'[e] = SubSeq(responses[e], 1, Len(responses[e]) - 1)
      BY <1>16, <3>2 DEF ChildDies, PoolTypes
    <3> QED  BY <1>6, <3>3
  <2> QED  BY <1>7, <1>8, <2>1, <2>2
<1> QED  BY <1>10, <1>11, <1>12, <1>13, <1>14, <1>15, <1>16 DEF WorkerStep

\* Every answer stored is the one to the request the parent was at.
LEMMA AnswersKept ==
  ASSUME PoolInv, MapInv, AsksOnce, AnswersMatchRequests, [Next]_vars
  PROVE  AnswersMatchRequests'
<1> USE DEF PoolInv, Places, wires, processes, children, parentVars
<1>1. ASSUME batch' = batch, answers' = answers,
             op' = "none" /\ outcome' = "ok" => op = "none" /\ outcome = "ok"
      PROVE  AnswersMatchRequests'
  BY <1>1 DEF AnswersMatchRequests
<1>2. ASSUME answers' = <<>>, op' = "none" /\ outcome' = "ok" => batch' = <<>>
      PROVE  AnswersMatchRequests'
  BY <1>2 DEF AnswersMatchRequests
<1>3. CASE BatchSend \/ BatchSent \/ BatchAllSent \/ BatchReceive \/ ReadRegionId
           \/ ReadRegionPayload \/ ReadRegionSum
  <2>1. batch' = batch /\ answers' = answers /\ op' = "batch"
    BY <1>3
       DEF BatchSend, BatchSent, BatchAllSent, BatchReceive, ReadRegionId, ReadRegionPayload,
           ReadRegionSum, Control, Reading
  <2> QED  BY <1>1, <2>1
<1>4. CASE BatchStore
  <2>1. /\ op = "batch" /\ phase = "check" /\ op' = "batch" /\ batch' = batch
        /\ answers' = Append(answers, Answer)
    BY <1>4 DEF BatchStore
  <2>2. /\ pos \in Int /\ Len(answers) = pos - 1 /\ frame.serial = At.serial
    BY <2>1 DEF BatchInv, Reading, PoolTypes
  <2>3. frame.status = "ok" /\ setup.shared => seen.payload = At.serial
    BY <2>1 DEF MapInv, Orderly, Control
  <2>4. /\ Answer.serial = At.serial
        /\ Answer.status = "ok" => Answer.value = At.serial
    BY <2>2, <2>3 DEF Answer, Hydrated
  <2>5. answers \in Seq(Answers)
    BY DEF PoolTypes
  <2> HIDE DEF Answer
  <2>6. \A i \in DOMAIN answers' : \/ i \in DOMAIN answers /\ answers'[i] = answers[i]
                                   \/ i = pos /\ answers'[i] = Answer
    <3> DEFINE a == Answer
    <3> HIDE DEF a
    <3>1. \A i \in DOMAIN Append(answers, a) :
             \/ i \in DOMAIN answers /\ Append(answers, a)[i] = answers[i]
             \/ i = Len(answers) + 1 /\ Append(answers, a)[i] = a
      BY <2>5
    <3> QED  BY <2>1, <2>2, <3>1 DEF a
  <2> QED  BY <2>1, <2>4, <2>6 DEF AnswersMatchRequests, At
<1>5. CASE BatchFails \/ BatchRejects
  BY <1>2, <1>5 DEF BatchFails, BatchRejects, GiveUp
<1>6. CASE BatchFinish
  <2>1. op = "batch" /\ phase = "receive" /\ pos > Len(batch) /\ batch' = batch
    BY <1>6 DEF BatchFinish
  <2>2. (answers' = answers) \/ (answers' = <<>> /\ outcome' = "error")
    BY <1>6 DEF BatchFinish
  <2>3. Len(answers) = Len(batch)
    <3>1. pos \in 1 .. Len(batch) + 1 /\ Len(answers) = pos - 1 /\ Len(batch) \in Nat
      BY <2>1, BatchIs DEF BatchInv
    <3> QED  BY <2>1, <3>1
  <2>4. CASE answers' = answers
    BY <2>1, <2>3, <2>4 DEF AnswersMatchRequests
  <2>5. CASE answers' = <<>> /\ outcome' = "error"
    BY <1>2, <2>5
  <2> QED  BY <2>2, <2>4, <2>5
<1>7. CASE CloseSend \/ CloseSent \/ CloseReceive \/ CloseInput \/ CloseReap \/ CloseFails
           \/ CloseRejects \/ CloseWaitTimesOut \/ Terminate \/ TerminateFails
  <2>1. op \in {"close", "terminate"} /\ batch' = batch /\ answers' = answers
    BY <1>7
       DEF CloseSend, CloseSent, CloseReceive, CloseInput, CloseReap, CloseFails, CloseRejects,
           CloseWaitTimesOut, Terminate, TerminateFails, FailClose
  <2>2. batch = <<>> /\ answers = <<>>
    BY <2>1 DEF BatchInv
  <2> QED  BY <1>2, <2>1, <2>2
<1>8. CASE SpawnWorker \/ SpawnFails \/ Drop
  BY <1>1, <1>8 DEF SpawnWorker, SpawnFails, Drop
<1>9. CASE Refuse \/ StartClose \/ StartForcedClose
           \/ (\E ids \in setup.batches : StartBatch(ids))
  <2>1. answers' = <<>> /\ (op' = "none" => outcome' = "error")
    BY <1>9 DEF Refuse, StartClose, StartForcedClose, StartBatch
  <2> QED  BY <1>2, <2>1
<1>10. ASSUME setup' = setup, NEW e \in Env, WorkerStep(e) PROVE AnswersMatchRequests'
  BY <1>1, <1>10, WorkersLeaveTheParent DEF AtRest
<1>11. CASE UNCHANGED vars
  BY <1>1, <1>11 DEF vars
<1>12. Rest => UNCHANGED vars
  BY DEF Rest
<1> QED  BY <1>3, <1>4, <1>5, <1>6, <1>7, <1>8, <1>9, <1>10, <1>11, <1>12
         DEF Next, ParentStep, Build, Call

\* The whole invariant.
FullInv == /\ PoolInv /\ CloseReapsEveryChild /\ MapInv
           /\ AsksOnce => AnswersMatchRequests

LEMMA FullInvKept == FullInv /\ [Next]_vars => FullInv'
<1> SUFFICES ASSUME FullInv, [Next]_vars PROVE FullInv'
  OBVIOUS
<1> USE DEF FullInv
<1>1. PoolInv' /\ CloseReapsEveryChild'
  BY PoolInvKept
<1>2. MapInv'
  <2>1. CASE ParentStep
    BY <2>1, ParentKeepsMap
  <2>2. CASE setup' = setup /\ (Build \/ Call \/ Rest)
    BY <2>2, CallKeepsMap
  <2>3. ASSUME NEW e \in Env, setup' = setup, WorkerStep(e) PROVE MapInv'
    BY <2>3, WorkerKeepsMap
  <2>4. CASE UNCHANGED vars
    BY <2>4 DEF vars, MapInv, AsksOnce, Orderly, At
  <2> QED  BY <2>1, <2>2, <2>3, <2>4 DEF Next
<1>3. AsksOnce' <=> AsksOnce
  BY DEF Next, ParentStep, Rest, vars, AsksOnce
<1>4. AsksOnce => AnswersMatchRequests'
  BY AnswersKept
<1> QED  BY <1>1, <1>2, <1>3, <1>4

LEMMA FullInvHolds == Spec => []FullInv
<1>1. Init => FullInv
  BY InitPool DEF FullInv
<1> QED  BY <1>1, FullInvKept, PTL DEF Spec

\* Every answer a caller gets is the one its own request caused, in the order
\* of the requests, although the ids that travel wrap, children fail and die,
\* and frames are cut off; through a mapped region, as long as no batch asks one
\* environment twice.
THEOREM AnswersAreTheRequests == Spec => [](AsksOnce => AnswersMatchRequests)
<1>1. FullInv => (AsksOnce => AnswersMatchRequests)
  BY DEF FullInv
<1> QED  BY <1>1, FullInvHolds, PTL

\* The control channel then also keeps a read of the mapped region from
\* overlapping a write of it, as map_file in crates/shmem/src/lib.rs requires.
THEOREM MappingIsSerialized == Spec => [](AsksOnce => MappingSerialized)
<1>1. FullInv => (AsksOnce => MappingSerialized)
  <2> SUFFICES ASSUME FullInv, AsksOnce, phase \in Reading \ {"check"}
               PROVE  serving[At.env] \notin {"payload", "header"}
    BY DEF MappingSerialized, Reading
  <2> USE DEF FullInv, PoolInv, Places
  <2>1. op = "batch" /\ phase \in Reading
    BY DEF Control, Reading
  <2>2. At.env \in Env
    BY <2>1, AtIsTyped DEF BatchInv
  <2>3. setup.shared /\ Orderly
    BY <2>1 DEF BatchInv, Control, Orderly
  <2>4. Owed(At.env) = {}
    BY <2>1, <2>2, <2>3, OneOwed
  <2>5. Line({}, responses[At.env], Held(At.env), requests[At.env], child[At.env] = "running")
    BY <2>2, <2>3, <2>4 DEF Lines
  <2>6. Held(At.env) = {}
    BY <2>5 DEF Line
  <2> QED  BY <2>6 DEF Held, Working
<1> QED  BY <1>1, FullInvHolds, PTL

=============================================================================
