-------------------------- MODULE TokenSinks_proofs --------------------------
(* That no frame is lost in silence, and that text a Redis sink gathered   *)
(* is always taken by a send, whatever the writers, replicas and faults.   *)
EXTENDS MCTokenStream, TLAPS

(***************************************************************************)
(* Types.                                                                  *)
(***************************************************************************)
Closings == {"end", "fail", "flush"}
Kinds == {"text", "frame"} \cup Closings
Row == [kind : Kinds, frames : Seq(Frame), by : Writer \cup {"timer"},
        call : {"timer", "write"} \cup Closings, last : BOOLEAN, seq : Nat, tries : Nat]
SqlWrites == [text : Seq(Frame), queue : Seq(Row), failure : BOOLEAN]
Steps == {"queued", "push", "set", "over", "publish"}
Sent == [kind : Kinds, frames : Seq(Frame), by : Writer \cup {"tail"},
         call : {"text", "write"} \cup Closings, step : Steps, parts : Seq(Seq(Frame))]
RedisWrites == [text : Seq(Frame), flushQueued : BOOLEAN, queue : Seq(Sent), failure : BOOLEAN]

RunTypes == /\ stage \in [Writer -> Stage]
            /\ home \in [Writer -> Replica]
            /\ clock \in [Writer -> [Writer -> Nat]]
            /\ refused \in SUBSET Writer
            /\ missed \in [Replica -> SUBSET Frame]
SqlTypes == /\ w \in [Replica -> SqlWrites]
            /\ rows \in Seq([kind : {"chunk"} \cup Closings, frames : Seq(Frame)])
RedisTypes == w \in [Replica -> RedisWrites]

(***************************************************************************)
(* The inductive invariant.                                                *)
(***************************************************************************)
(* A replica holds a frame of a: gathered, in a send, or lost untold.      *)
By(a, frames) == \E i \in 1 .. Len(frames) : frames[i].by = a
Lost(p, a) == \E frame \in missed[p] : frame.by = a
SqlHeld(p, a) == \/ Lost(p, a)
                 \/ By(a, w[p].text)
                 \/ \E i \in 1 .. Len(w[p].queue) : By(a, w[p].queue[i].frames)
InSend(send, a) == \/ By(a, send.frames)
                   \/ \E k \in 1 .. Len(send.parts) : By(a, send.parts[k])
RedisHeld(p, a) == \/ Lost(p, a)
                   \/ By(a, w[p].text)
                   \/ \E i \in 1 .. Len(w[p].queue) : InSend(w[p].queue[i], a)

(* A loss that was not told is kept as a failure for the next call. *)
Kept == \A p \in Replica : missed[p] # {} => w[p].failure

(* Only a writer's own replica holds its frames, and none once the writer  *)
(* is through with its last call accepted.                                 *)
Through(a) == stage[a] \in {"done", "joined"} /\ a \notin refused
SqlOwn   == \A p \in Replica, a \in Writer : SqlHeld(p, a) => home[a] = p /\ ~Through(a)
RedisOwn == \A p \in Replica, a \in Writer : RedisHeld(p, a) => home[a] = p /\ ~Through(a)

(* What a closing call queued is in its writer's replica, and the writer   *)
(* does not make that call again while it is there.                        *)
After(call) == (IF call = "end" THEN {"end", "failed"} ELSE {})
                 \cup {"fail", "flush", "done", "joined", "dead"}
ClosedBy(q, a) == q.by = a /\ q.call \in Closings
Closers == \A p \in Replica, a \in Writer : \A i \in 1 .. Len(w[p].queue) :
  ClosedBy(w[p].queue[i], a) => home[a] = p /\ stage[a] \in After(w[p].queue[i].call)

(* Behind what a closing call awaits, its writer has nothing. *)
SqlLast == \A p \in Replica, a \in Writer : \A i \in 1 .. Len(w[p].queue) :
  ClosedBy(w[p].queue[i], a) /\ w[p].queue[i].last /\ stage[a] = w[p].queue[i].call
    => /\ ~By(a, w[p].text)
       /\ \A j \in i + 1 .. Len(w[p].queue) : ~By(a, w[p].queue[j].frames)
Takes(send) == send.step = "queued" /\ send.kind # "flush"
RedisLast == \A p \in Replica, a \in Writer : \A i \in 1 .. Len(w[p].queue) :
  ClosedBy(w[p].queue[i], a) /\ stage[a] = w[p].queue[i].call
    => /\ By(a, w[p].text) => \E j \in 1 .. i : Takes(w[p].queue[j])
       /\ \A j \in i + 1 .. Len(w[p].queue) : ~InSend(w[p].queue[j], a)

(* Gathered text has a text send that has not started. *)
Drained == \A p \in Replica :
  /\ w[p].text # <<>> => w[p].flushQueued
  /\ w[p].flushQueued => \E i \in 1 .. Len(w[p].queue) :
       w[p].queue[i].kind = "text" /\ w[p].queue[i].step = "queued"

(* A send that pushes has something to push. *)
Pushes == \A p \in Replica : \A i \in 1 .. Len(w[p].queue) :
  w[p].queue[i].step = "push" => w[p].queue[i].parts # <<>>

SqlInv   == RunTypes /\ SqlTypes /\ Kept /\ Closers /\ SqlOwn /\ SqlLast
RedisInv == RunTypes /\ RedisTypes /\ Kept /\ Closers /\ RedisOwn /\ RedisLast /\ Drained
              /\ Pushes
Inv == /\ transport \in {"sql", "redis"}
       /\ transport = "sql" => SqlInv
       /\ transport = "redis" => RedisInv

(***************************************************************************)
(* Sequences.                                                              *)
(***************************************************************************)
LEMMA Shorter ==
  ASSUME NEW S, NEW s \in Seq(S), s # <<>>
  PROVE  /\ s[1] \in S /\ Tail(s) \in Seq(S) /\ Len(s) \in Nat /\ Len(s) >= 1
         /\ Len(Tail(s)) = Len(s) - 1
         /\ \A i \in 1 .. Len(Tail(s)) : i + 1 \in 1 .. Len(s) /\ Tail(s)[i] = s[i + 1]
OBVIOUS

LEMMA Joined ==
  ASSUME NEW S, NEW s \in Seq(S), NEW t \in Seq(S)
  PROVE  /\ s \o t \in Seq(S) /\ Len(s) \in Nat /\ Len(t) \in Nat
         /\ Len(s \o t) = Len(s) + Len(t)
         /\ \A i \in 1 .. Len(s) : (s \o t)[i] = s[i]
         /\ \A i \in 1 .. Len(t) : (s \o t)[Len(s) + i] = t[i]
OBVIOUS

LEMMA Appended ==
  ASSUME NEW S, NEW s \in Seq(S), NEW x \in S
  PROVE  /\ Append(s, x) \in Seq(S) /\ Len(s) \in Nat
         /\ Len(Append(s, x)) = Len(s) + 1
         /\ Append(s, x)[Len(s) + 1] = x
         /\ \A i \in 1 .. Len(s) : Append(s, x)[i] = s[i]
OBVIOUS

LEMMA Associates ==
  ASSUME NEW S, NEW s \in Seq(S), NEW t \in Seq(S), NEW u \in Seq(S)
  PROVE  (s \o t) \o u = s \o (t \o u)
<1> DEFINE l == (s \o t) \o u
           r == s \o (t \o u)
<1>1. /\ s \o t \in Seq(S) /\ t \o u \in Seq(S) /\ l \in Seq(S) /\ r \in Seq(S)
      /\ Len(s) \in Nat /\ Len(t) \in Nat /\ Len(u) \in Nat
      /\ Len(s \o t) = Len(s) + Len(t) /\ Len(t \o u) = Len(t) + Len(u)
      /\ Len(l) = Len(s) + Len(t) + Len(u) /\ Len(r) = Len(s) + Len(t) + Len(u)
  BY Joined
<1>2. ASSUME NEW i \in 1 .. Len(l) PROVE l[i] = r[i]
  BY <1>1
<1> HIDE DEF l, r
<1>3. l = r
  BY <1>1, <1>2
<1> QED BY <1>3 DEF l, r

LEMMA NothingBy == \A a : ~By(a, <<>>)
BY DEF By

LEMMA AppendBy ==
  ASSUME NEW s \in Seq(Frame), NEW f \in Frame, NEW a, By(a, Append(s, f))
  PROVE  By(a, s) \/ f.by = a
BY Appended DEF By

LEMMA OneBy ==
  ASSUME NEW f \in Frame, NEW a, By(a, <<f>>)
  PROVE  f.by = a
BY DEF By

LEMMA Framed ==
  ASSUME RunTypes, NEW a \in Writer
  PROVE  NextFrame(a) \in Frame /\ NextFrame(a).by = a
BY DEF RunTypes, NextFrame, Frame

LEMMA Later ==
  ASSUME NEW x \in Nat, NEW y \in Nat
  PROVE  Max({x, y}) \in Nat
<1>1. CASE x >= y
  <2>1. x \in {x, y} /\ \A z \in {x, y} : x >= z
    BY <1>1
  <2> QED BY <2>1 DEF Max
<1>2. CASE y >= x
  <2>1. y \in {x, y} /\ \A z \in {x, y} : y >= z
    BY <1>2
  <2> QED BY <2>1 DEF Max
<1> QED BY <1>1, <1>2

(***************************************************************************)
(* The run: what its writers and its replicas do without the sink.         *)
(***************************************************************************)
LEMMA SameRun ==
  ASSUME NEW a \in Writer, NEW p \in Replica, NEW write
  PROVE  /\ Sql!Throw(a) => Throw(a)
         /\ Redis!Throw(a) => Throw(a)
         /\ Sql!Begin(a) => Begin(a)
         /\ Redis!Begin(a) => Begin(a)
         /\ Sql!Join(a) => Join(a)
         /\ Redis!Join(a) => Join(a)
         /\ Sql!Crash(p, write) => Crash(p, write)
         /\ Redis!Crash(p, write) => Crash(p, write)
<1>1. Sql!Writer = Writer /\ Redis!Writer = Writer /\ Sql!Settled = Settled /\ Redis!Settled = Settled
  BY DEF Sql!Writer, Redis!Writer, Writer, Sql!Settled, Redis!Settled, Settled
<1>2. /\ Sql!Throw(a) => Throw(a)
      /\ Redis!Throw(a) => Throw(a)
  BY DEF Sql!Throw, Redis!Throw, Throw
<1>3. /\ Sql!Begin(a) => Begin(a)
      /\ Redis!Begin(a) => Begin(a)
  BY DEF Sql!Begin, Redis!Begin, Begin
<1>4. /\ Sql!Join(a) => Join(a)
      /\ Redis!Join(a) => Join(a)
  BY <1>1 DEF Sql!Join, Redis!Join, Join, Sql!Max, Redis!Max, Max
<1>5. /\ Sql!Crash(p, write) => Crash(p, write)
      /\ Redis!Crash(p, write) => Crash(p, write)
  BY <1>1 DEF Sql!Crash, Redis!Crash, Crash
<1> QED BY <1>2, <1>3, <1>4, <1>5

(* A writer starts, throws, or is back, and calls nothing.                 *)
Onward == /\ \A a \in Writer : \/ stage'[a] = stage[a]
                               \/ stage[a] \in {"out", "run", "framed"} /\ stage'[a] \in {"run", "failed"}
                               \/ stage[a] = "done" /\ stage'[a] = "joined"
          /\ RunTypes'
          /\ UNCHANGED <<home, refused, w, missed>>

LEMMA RunOnward ==
  ASSUME RunTypes, NEW a \in Writer,
         Throw(a) \/ (a \in Delegate /\ (Begin(a) \/ Join(a)))
  PROVE  Onward
<1>t. Turn \in Writer /\ Delegate \subseteq Writer
  BY DEF Writer
<1>1. CASE Throw(a)
  BY <1>1 DEF Throw, RunTypes, Onward, Stage
<1>2. CASE a \in Delegate /\ Begin(a)
  BY <1>t, <1>2 DEF Begin, RunTypes, Onward, Stage
<1>3. CASE a \in Delegate /\ Join(a)
  <2>1. \A b \in Writer : Max({clock[Turn][b], clock[a][b]}) \in Nat
    BY <1>t, Later DEF RunTypes
  <2>2. clock' \in [Writer -> [Writer -> Nat]]
    BY <1>t, <1>3, <2>1 DEF Join, RunTypes
  <2> QED BY <1>t, <1>3, <2>2 DEF Join, RunTypes, Onward, Stage
<1> QED BY <1>1, <1>2, <1>3

LEMMA CrashTypes ==
  ASSUME RunTypes, NEW p \in Replica, NEW write, Crash(p, write)
  PROVE  RunTypes'
<1>1. stage' \in [Writer -> Stage]
  <2>1. CASE stage' = [b \in Writer |-> "dead"]
    BY <2>1 DEF Stage
  <2>2. CASE stage' = [b \in Writer |->
               IF home[b] # p THEN stage[b]
               ELSE CASE stage[b] \in {"framed", "write"} -> "run"
                      [] stage[b] \in {"end", "flush"}    -> "again"
                      [] stage[b] = "fail"               -> "failed"
                      [] OTHER                           -> stage[b]]
    <3>1. ASSUME NEW b \in Writer PROVE stage'[b] \in Stage
      BY <2>2, <3>1 DEF RunTypes, Stage
    <3> QED BY <2>2, <3>1
  <2> QED BY <2>1, <2>2 DEF Crash
<1> QED BY <1>1 DEF Crash, RunTypes

(* A replica that dies takes what it held with it, and its writers go on   *)
(* elsewhere, making an interrupted call again.                            *)
Died(p, write) ==
  /\ RunTypes'
  /\ UNCHANGED refused
  /\ w' = [w EXCEPT ![p] = write]
  /\ missed' = [missed EXCEPT ![p] = {}]
  /\ \A a \in Writer : /\ home[a] # p => home'[a] = home[a]
                       /\ stage'[a] \in {"done", "joined"} => stage'[a] = stage[a]
                       /\ home[a] # p => stage'[a] \in {stage[a], "dead"}

LEMMA CrashDied ==
  ASSUME RunTypes, NEW p \in Replica, NEW write, Crash(p, write)
  PROVE  Died(p, write)
<1>1. RunTypes' /\ UNCHANGED refused /\ w' = [w EXCEPT ![p] = write] /\ missed' = [missed EXCEPT ![p] = {}]
  BY CrashTypes DEF Crash
<1>2. ASSUME NEW a \in Writer
      PROVE  /\ home[a] # p => home'[a] = home[a]
             /\ stage'[a] \in {"done", "joined"} => stage'[a] = stage[a]
             /\ home[a] # p => stage'[a] \in {stage[a], "dead"}
  BY <1>2 DEF Crash, RunTypes, Stage
<1> QED BY <1>1, <1>2 DEF Died

(***************************************************************************)
(* The SQL sink.                                                           *)
(***************************************************************************)
SqlRows == Seq([kind : {"chunk"} \cup Closings, frames : Seq(Frame)])

LEMMA SqlOnward ==
  ASSUME SqlInv, Onward, rows' \in SqlRows
  PROVE  SqlInv'
<1>1. RunTypes' /\ SqlTypes' /\ Kept'
  BY DEF SqlInv, Onward, SqlTypes, Kept, SqlRows
<1>2. Closers' /\ SqlLast'
  <2> SUFFICES ASSUME NEW q \in Replica, NEW a \in Writer, NEW i \in 1 .. Len(w'[q].queue),
                      ClosedBy(w'[q].queue[i], a)
               PROVE  /\ home'[a] = q /\ stage'[a] \in After(w'[q].queue[i].call)
                      /\ w'[q].queue[i].last /\ stage'[a] = w'[q].queue[i].call
                           => /\ ~By(a, w'[q].text)
                              /\ \A j \in i + 1 .. Len(w'[q].queue) : ~By(a, w'[q].queue[j].frames)
    BY DEF Closers, SqlLast
  <2>1. w' = w /\ home' = home
    BY DEF Onward
  <2>2. home[a] = q /\ stage[a] \in After(w[q].queue[i].call)
    BY <2>1 DEF SqlInv, Closers
  <2>3. stage'[a] \in After(w[q].queue[i].call)
    BY <2>1, <2>2 DEF Onward, After, ClosedBy, Closings
  <2>4. stage'[a] = w[q].queue[i].call => stage[a] = stage'[a]
    BY <2>1, <2>2 DEF Onward, After, ClosedBy, Closings
  <2> QED BY <2>1, <2>2, <2>3, <2>4 DEF SqlInv, SqlLast
<1>3. \A p \in Replica, a \in Writer : SqlHeld(p, a)' => SqlHeld(p, a)
  BY DEF Onward, SqlHeld, Lost, By
<1>4. \A a \in Writer : Through(a)' => Through(a)
  BY DEF Onward, Through
<1>5. SqlOwn'
  BY <1>3, <1>4 DEF SqlInv, SqlOwn, Onward
<1> QED BY <1>1, <1>2, <1>5 DEF SqlInv

LEMMA SqlDied ==
  ASSUME SqlInv, NEW p \in Replica, Died(p, Sql!RunWrites), UNCHANGED rows
  PROVE  SqlInv'
<1>1. /\ w'[p] = Sql!RunWrites /\ missed'[p] = {}
      /\ \A q \in Replica : q # p => w'[q] = w[q] /\ missed'[q] = missed[q]
      /\ Sql!RunWrites \in SqlWrites
      /\ Sql!RunWrites.text = <<>> /\ Sql!RunWrites.queue = <<>>
  BY DEF SqlInv, SqlTypes, RunTypes, Died, Sql!RunWrites, SqlWrites
<1>2. RunTypes' /\ SqlTypes'
  BY <1>1 DEF SqlInv, SqlTypes, Died
<1>3. Kept'
  BY <1>1 DEF SqlInv, Kept
<1>4. ASSUME NEW q \in Replica, NEW a \in Writer, SqlHeld(q, a)'
      PROVE  q # p /\ SqlHeld(q, a)
  BY <1>1, <1>4 DEF SqlHeld, Lost, By
<1>5. SqlOwn'
  <2> SUFFICES ASSUME NEW q \in Replica, NEW a \in Writer, SqlHeld(q, a)'
               PROVE  home'[a] = q /\ ~Through(a)'
    BY DEF SqlOwn
  <2>1. q # p /\ home[a] = q /\ ~Through(a)
    BY <1>4 DEF SqlInv, SqlOwn
  <2> QED BY <2>1 DEF Died, Through
<1>6. Closers' /\ SqlLast'
  <2> SUFFICES ASSUME NEW q \in Replica, NEW a \in Writer, NEW i \in 1 .. Len(w'[q].queue),
                      ClosedBy(w'[q].queue[i], a)
               PROVE  /\ home'[a] = q /\ stage'[a] \in After(w'[q].queue[i].call)
                      /\ w'[q].queue[i].last /\ stage'[a] = w'[q].queue[i].call
                           => /\ ~By(a, w'[q].text)
                              /\ \A j \in i + 1 .. Len(w'[q].queue) : ~By(a, w'[q].queue[j].frames)
    BY DEF Closers, SqlLast
  <2>1. q # p /\ w'[q] = w[q]
    BY <1>1
  <2>2. home[a] = q /\ stage[a] \in After(w[q].queue[i].call)
    BY <2>1 DEF SqlInv, Closers
  <2>3. home'[a] = q /\ stage'[a] \in {stage[a], "dead"}
    BY <2>1, <2>2 DEF Died
  <2>4. stage'[a] = w[q].queue[i].call => stage[a] = stage'[a]
    BY <2>1, <2>3 DEF ClosedBy, Closings
  <2> QED BY <2>1, <2>2, <2>3, <2>4 DEF SqlInv, SqlLast, After
<1> QED BY <1>2, <1>3, <1>5, <1>6 DEF SqlInv

(* The head of a queue is dealt with: the call that awaited it settles.    *)
LEMMA SqlAttempted ==
  ASSUME SqlInv, NEW p \in Replica, NEW ok \in BOOLEAN, w[p].queue # <<>>,
         Sql!Attempted(p, ok), rows' \in SqlRows
  PROVE  SqlInv'
<1> DEFINE row == w[p].queue[1]
           raises == /\ row.by # "timer" /\ stage[row.by] = row.call /\ ok
                     /\ row.last /\ row.call # "write" /\ w[p].failure
           settles == row.by # "timer" /\ stage[row.by] = row.call /\ (row.last \/ ~ok)
<1>1. /\ w \in [Replica -> SqlWrites] /\ w[p] \in SqlWrites /\ w[p].queue \in Seq(Row)
      /\ row \in Row /\ row.frames \in Seq(Frame)
      /\ w[p].failure \in BOOLEAN
  <2>1. w \in [Replica -> SqlWrites] /\ w[p] \in SqlWrites
    BY DEF SqlInv, SqlTypes
  <2>2. w[p].queue \in Seq(Row) /\ w[p].failure \in BOOLEAN
    BY <2>1 DEF SqlWrites
  <2>3. row \in Row
    BY <2>2, Shorter
  <2> QED BY <2>1, <2>2, <2>3 DEF Row
<1>2. /\ w' = [w EXCEPT ![p].queue = Tail(@),
                        ![p].failure = ~raises /\ (w[p].failure \/ (row.by = "timer" /\ ~ok))]
      /\ missed' = [missed EXCEPT ![p] = IF raises THEN {}
                      ELSE IF row.by = "timer" /\ ~ok THEN @ \cup ToSet(row.frames) ELSE @]
      /\ UNCHANGED <<home, clock>>
  BY DEF Sql!Attempted, Sql!Keeps, Sql!Next1, Sql!Nobody, Sql!ToSet, ToSet
<1>3. IF settles THEN Sql!Settles(row.by, row.call, ok /\ ~raises) ELSE UNCHANGED <<stage, refused>>
  BY DEF Sql!Attempted, Sql!Next1, Sql!Nobody
<1>4. /\ w'[p].text = w[p].text /\ w'[p].queue = Tail(w[p].queue)
      /\ w'[p].failure = (~raises /\ (w[p].failure \/ (row.by = "timer" /\ ~ok)))
      /\ w' \in [Replica -> SqlWrites]
      /\ \A q \in Replica : q # p => w'[q] = w[q]
  BY <1>1, <1>2, Shorter DEF SqlWrites
<1>5. /\ missed' \in [Replica -> SUBSET Frame]
      /\ \A q \in Replica : q # p => missed'[q] = missed[q]
      /\ missed'[p] = IF raises THEN {}
                      ELSE IF row.by = "timer" /\ ~ok THEN missed[p] \cup ToSet(row.frames)
                      ELSE missed[p]
  <2>1. ToSet(row.frames) \subseteq Frame
    BY <1>1 DEF ToSet
  <2> QED BY <1>2, <2>1 DEF SqlInv, RunTypes
<1>6. /\ stage' \in [Writer -> Stage] /\ refused \subseteq refused' /\ refused' \subseteq Writer
      /\ \A a \in Writer : stage'[a] # stage[a]
           => settles /\ a = row.by /\ stage[a] = row.call
      /\ \A a \in Writer : stage'[a] # stage[a] /\ stage'[a] \in {"done", "joined"} /\ a \notin refused'
           => ok /\ ~raises /\ row.call \in Closings
      /\ \A a \in Writer : stage'[a] # stage[a]
           => /\ stage[a] \in {"write"} \cup Closings
              /\ stage'[a] \in {"done", "failed", "framed"} /\ (stage[a] \in {"fail", "flush"} => stage'[a] = "done")
      /\ \A a \in Writer : stage'[a] = "framed" => stage[a] \in {"framed", "write"}
  <2>1. CASE settles
    <3>1. row.by \in Writer /\ row.call \in {"write"} \cup Closings
      BY <1>1, <2>1 DEF Row, SqlInv, RunTypes, Stage
    <3> QED BY <1>1, <1>3, <2>1, <3>1, ZenonT(60) DEF Sql!Settles, SqlInv, RunTypes, Stage, Closings
  <2>2. CASE ~settles
    BY <1>3, <2>2, SMTT(30) DEF SqlInv, RunTypes
  <2> QED BY <2>1, <2>2
<1>7. RunTypes' /\ SqlTypes'
  BY <1>2, <1>4, <1>5, <1>6, Zenon DEF RunTypes, SqlInv, SqlTypes, SqlRows
<1>8. Kept'
  BY <1>4, <1>5 DEF Kept, SqlInv
<1>9. \A q \in Replica : \A i \in 1 .. Len(w'[q].queue) :
        LET j == IF q = p THEN i + 1 ELSE i
        IN  j \in 1 .. Len(w[q].queue) /\ w'[q].queue[i] = w[q].queue[j]
  <2> TAKE q \in Replica
  <2>1. CASE q = p
    <3>1. w'[q].queue = Tail(w[p].queue)
      BY <1>4, <2>1
    <3> HIDE DEF row
    <3> QED BY <1>1, <2>1, <3>1, Shorter
  <2>2. CASE q # p
    BY <1>4, <2>2, SMTT(30)
  <2> QED BY <2>1, <2>2
<1>10. ASSUME NEW q \in Replica, NEW a \in Writer, SqlHeld(q, a)'
       PROVE  SqlHeld(q, a)
  <2>1. CASE Lost(q, a)'
    BY <1>1, <1>5, <2>1, Shorter DEF Lost, SqlHeld, By, ToSet
  <2>2. CASE By(a, w'[q].text)
    BY <1>4, <2>2 DEF SqlHeld
  <2>3. CASE \E i \in 1 .. Len(w'[q].queue) : By(a, w'[q].queue[i].frames)
    BY <1>9, <2>3 DEF SqlHeld
  <2> QED BY <1>10, <2>1, <2>2, <2>3 DEF SqlHeld, By
<1>11. ASSUME NEW a \in Writer, Through(a)', ~Through(a)
       PROVE  \A q \in Replica : ~SqlHeld(q, a)'
  <2>1. stage'[a] # stage[a]
    BY <1>6, <1>11 DEF Through
  <2>2. ok /\ ~raises /\ row.call \in Closings /\ settles /\ a = row.by /\ stage[a] = row.call /\ row.last
    BY <1>6, <1>11, <2>1 DEF Through
  <2>3. ~w[p].failure /\ missed[p] = {} /\ missed'[p] = {}
    BY <1>1, <1>5, <2>2 DEF SqlInv, Kept, Closings
  <2>4. ClosedBy(row, a) /\ 1 \in 1 .. Len(w[p].queue)
    BY <1>1, <2>2, Shorter DEF ClosedBy
  <2>5. home[a] = p
    BY <2>4 DEF SqlInv, Closers
  <2>6. ~By(a, w[p].text) /\ \A j \in 2 .. Len(w[p].queue) : ~By(a, w[p].queue[j].frames)
    BY <2>2, <2>4, SMTT(30) DEF SqlInv, SqlLast
  <2>7. ~SqlHeld(p, a)'
    <3>1. \A i \in 1 .. Len(w'[p].queue) : i + 1 \in 2 .. Len(w[p].queue) /\ w'[p].queue[i] = w[p].queue[i + 1]
      BY <1>1, <1>4, Shorter
    <3> QED BY <1>4, <2>3, <2>6, <3>1 DEF SqlHeld, Lost, By
  <2> QED BY <1>10, <2>5, <2>7 DEF SqlInv, SqlOwn
<1>12. SqlOwn'
  BY <1>2, <1>10, <1>11 DEF SqlInv, SqlOwn
<1>13. Closers'
  <2> SUFFICES ASSUME NEW q \in Replica, NEW a \in Writer, NEW i \in 1 .. Len(w'[q].queue),
                      ClosedBy(w'[q].queue[i], a)
               PROVE  home'[a] = q /\ stage'[a] \in After(w'[q].queue[i].call)
    BY DEF Closers, ClosedBy
  <2>1. PICK k \in 1 .. Len(w[q].queue) : w'[q].queue[i] = w[q].queue[k]
    BY <1>9
  <2>2. home[a] = q /\ stage[a] \in After(w[q].queue[k].call)
    BY <2>1 DEF SqlInv, Closers
  <2>3. CASE stage'[a] = stage[a]
    BY <1>2, <2>1, <2>2, <2>3, SMTT(30)
  <2>4. CASE stage'[a] # stage[a]
    <3>1. \/ stage[a] \in {"fail", "flush"} /\ stage'[a] = "done"
          \/ /\ stage[a] = "end" /\ stage'[a] \in {"done", "failed"}
             /\ w[q].queue[k].call = "end"
      BY <1>6, <2>2, <2>4 DEF After, Closings
    <3> QED BY <1>2, <2>1, <2>2, <3>1 DEF After
  <2> QED BY <2>3, <2>4
<1>14. SqlLast'
  <2> SUFFICES ASSUME NEW q \in Replica, NEW a \in Writer, NEW i \in 1 .. Len(w'[q].queue),
                      ClosedBy(w'[q].queue[i], a), w'[q].queue[i].last,
                      stage'[a] = w'[q].queue[i].call
               PROVE  /\ ~By(a, w'[q].text)
                      /\ \A j \in i + 1 .. Len(w'[q].queue) : ~By(a, w'[q].queue[j].frames)
    BY DEF SqlLast, By
  <2>1. stage'[a] = stage[a]
    BY <1>6 DEF ClosedBy, Closings
  <2>2. PICK k \in 1 .. Len(w[q].queue) :
          w'[q].queue[i] = w[q].queue[k] /\ k = IF q = p THEN i + 1 ELSE i
    BY <1>9
  <2>3. /\ ~By(a, w[q].text)
        /\ \A j \in k + 1 .. Len(w[q].queue) : ~By(a, w[q].queue[j].frames)
    BY <2>1, <2>2 DEF SqlInv, SqlLast
  <2>4. ASSUME NEW j \in i + 1 .. Len(w'[q].queue)
        PROVE  ~By(a, w'[q].queue[j].frames)
    <3>1. w'[q] \in SqlWrites
      BY <1>4
    <3>2. j \in 1 .. Len(w'[q].queue) /\ j \in Nat /\ i \in Nat
      BY <3>1 DEF SqlWrites
    <3>3. PICK m \in 1 .. Len(w[q].queue) :
            w'[q].queue[j] = w[q].queue[m] /\ m = IF q = p THEN j + 1 ELSE j
      BY <1>9, <3>2
    <3>4. m \in k + 1 .. Len(w[q].queue)
      BY <2>2, <3>2, <3>3
    <3> QED BY <2>3, <3>3, <3>4
  <2> QED BY <1>4, <2>3, <2>4
<1> QED BY <1>7, <1>8, <1>12, <1>13, <1>14 DEF SqlInv

(* Calls (of the writers in C, at most one) that queue rows behind the     *)
(* others and leave no text gathered.                                      *)
Enqueues(p, added, C) ==
  /\ w' = [w EXCEPT ![p].queue = @ \o added, ![p].text = <<>>]
  /\ UNCHANGED <<missed, home, refused, rows>>
  /\ RunTypes'
  /\ \A b \in Writer \ C : stage'[b] = stage[b]
  /\ \A b \in C : /\ home[b] = p
                  /\ stage[b] \in {"run", "framed", "failed", "again"}
                  /\ stage'[b] \in {"write"} \cup Closings
                  /\ stage[b] = "failed" => stage'[b] \in {"fail", "flush"}
  /\ \A b \in Writer : \A i \in 1 .. Len(added) :
       /\ By(b, added[i].frames) => By(b, w[p].text) \/ (b \in C /\ stage'[b] = "write")
       /\ ClosedBy(added[i], b) => b \in C /\ added[i].call = stage'[b]
       /\ ClosedBy(added[i], b) /\ added[i].last => i = Len(added)

LEMMA SqlEnqueued ==
  ASSUME SqlInv, NEW p \in Replica, NEW added \in Seq(Row), NEW C \in SUBSET Writer,
         Enqueues(p, added, C)
  PROVE  SqlInv'
<1>a. /\ w' = [w EXCEPT ![p].queue = @ \o added, ![p].text = <<>>]
      /\ UNCHANGED <<missed, home, refused, rows>>
      /\ RunTypes'
  BY DEF Enqueues
<1>b. /\ \A b \in Writer \ C : stage'[b] = stage[b]
      /\ \A b \in C : /\ home[b] = p
                      /\ stage[b] \in {"run", "framed", "failed", "again"}
                      /\ stage'[b] \in {"write"} \cup Closings
                      /\ stage[b] = "failed" => stage'[b] \in {"fail", "flush"}
  BY DEF Enqueues
<1>c. \A b \in Writer : \A i \in 1 .. Len(added) :
        /\ By(b, added[i].frames) => By(b, w[p].text) \/ (b \in C /\ stage'[b] = "write")
        /\ ClosedBy(added[i], b) => b \in C /\ added[i].call = stage'[b]
        /\ ClosedBy(added[i], b) /\ added[i].last => i = Len(added)
  BY DEF Enqueues
<1>1. w \in [Replica -> SqlWrites] /\ w[p] \in SqlWrites /\ w[p].queue \in Seq(Row)
  BY DEF SqlInv, SqlTypes, SqlWrites
<1>2. /\ w'[p].text = <<>> /\ w'[p].queue = w[p].queue \o added
      /\ w'[p].failure = w[p].failure
      /\ w' \in [Replica -> SqlWrites]
      /\ \A q \in Replica : q # p => w'[q] = w[q]
  <2>1. w[p].queue \o added \in Seq(Row)
    BY <1>1, Joined
  <2>2. /\ w'[p] = [w[p] EXCEPT !.queue = w[p].queue \o added, !.text = <<>>]
        /\ \A q \in Replica : q # p => w'[q] = w[q]
        /\ w' = [w EXCEPT ![p] = w'[p]]
    BY <1>a, <1>1
  <2>3. w'[p] \in SqlWrites /\ w'[p].text = <<>> /\ w'[p].queue = w[p].queue \o added
        /\ w'[p].failure = w[p].failure
    <3>1. <<>> \in Seq(Frame)
      OBVIOUS
    <3> QED BY <1>1, <2>1, <2>2, <3>1 DEF SqlWrites
  <2> QED BY <1>1, <2>2, <2>3
<1>3. SqlTypes' /\ Kept'
  BY <1>a, <1>2 DEF SqlInv, SqlTypes, Kept
<1>4. ASSUME NEW q \in Replica, NEW i \in 1 .. Len(w'[q].queue)
      PROVE  \/ i \in 1 .. Len(w[q].queue) /\ w'[q].queue[i] = w[q].queue[i]
             \/ /\ q = p /\ i - Len(w[p].queue) \in 1 .. Len(added) /\ i > Len(w[p].queue)
                /\ w'[q].queue[i] = added[i - Len(w[p].queue)]
  <2>1. CASE q = p
    <3>1. Len(w'[q].queue) = Len(w[p].queue) + Len(added) /\ Len(w[p].queue) \in Nat /\ Len(added) \in Nat
      BY <1>1, <1>2, <2>1, Joined, ZenonT(60)
    <3>2. CASE i \in 1 .. Len(w[p].queue)
      BY <1>1, <1>2, <2>1, <3>2, Joined
    <3>3. CASE i - Len(w[p].queue) \in 1 .. Len(added)
      <4> DEFINE k == i - Len(w[p].queue)
      <4>1. Len(w[p].queue) + k = i /\ i > Len(w[p].queue)
        BY <3>1, <3>3
      <4>2. w'[q].queue[Len(w[p].queue) + k] = added[k]
        BY <1>1, <1>2, <2>1, <3>3, Joined
      <4> QED BY <2>1, <3>3, <4>1, <4>2
    <3>4. i \in 1 .. Len(w[p].queue) + Len(added)
      BY <1>4, <3>1
    <3>5. i \in 1 .. Len(w[p].queue) \/ i - Len(w[p].queue) \in 1 .. Len(added)
      BY <3>1, <3>4
    <3> QED BY <3>2, <3>3, <3>5
  <2>2. CASE q # p
    BY <1>2, <1>4, <2>2
  <2> QED BY <2>1, <2>2
<1>5. ASSUME NEW q \in Replica, NEW b \in Writer, SqlHeld(q, b)'
      PROVE  SqlHeld(q, b) \/ (b \in C /\ q = p)
  <2>1. CASE Lost(q, b)'
    BY <1>a, <2>1 DEF SqlHeld, Lost
  <2>2. CASE By(b, w'[q].text)
    <3>1. q # p
      BY <1>2, <2>2, NothingBy
    <3> QED BY <1>2, <2>2, <3>1 DEF SqlHeld
  <2>3. CASE \E i \in 1 .. Len(w'[q].queue) : By(b, w'[q].queue[i].frames)
    <3>1. PICK i \in 1 .. Len(w'[q].queue) : By(b, w'[q].queue[i].frames)
      BY <2>3
    <3>2. CASE i \in 1 .. Len(w[q].queue) /\ w'[q].queue[i] = w[q].queue[i]
      BY <3>1, <3>2 DEF SqlHeld
    <3>3. CASE q = p /\ i - Len(w[p].queue) \in 1 .. Len(added) /\ w'[q].queue[i] = added[i - Len(w[p].queue)]
      BY <1>c, <3>1, <3>3 DEF SqlHeld
    <3> QED BY <1>4, <3>2, <3>3
  <2> QED BY <1>5, <2>1, <2>2, <2>3 DEF SqlHeld, By
<1>6. \A b \in Writer : Through(b)' => b \notin C /\ Through(b)
  BY <1>a, <1>b DEF Through, Closings
<1>7. SqlOwn'
  BY <1>a, <1>b, <1>5, <1>6 DEF SqlInv, SqlOwn
<1>8. ASSUME NEW q \in Replica, NEW b \in Writer, NEW i \in 1 .. Len(w[q].queue), ClosedBy(w[q].queue[i], b)
      PROVE  /\ home'[b] = q /\ stage'[b] \in After(w[q].queue[i].call)
             /\ stage'[b] = w[q].queue[i].call => b \notin C /\ stage[b] = stage'[b]
  <2>1. home[b] = q /\ stage[b] \in After(w[q].queue[i].call)
    BY <1>8 DEF SqlInv, Closers
  <2> QED BY <1>a, <1>b, <2>1 DEF After, Closings
<1>9. Closers'
  <2> SUFFICES ASSUME NEW q \in Replica, NEW b \in Writer, NEW i \in 1 .. Len(w'[q].queue),
                      ClosedBy(w'[q].queue[i], b)
               PROVE  home'[b] = q /\ stage'[b] \in After(w'[q].queue[i].call)
    BY DEF Closers, ClosedBy
  <2>1. CASE i \in 1 .. Len(w[q].queue) /\ w'[q].queue[i] = w[q].queue[i]
    BY <1>8, <2>1
  <2>2. CASE q = p /\ i - Len(w[p].queue) \in 1 .. Len(added) /\ w'[q].queue[i] = added[i - Len(w[p].queue)]
    <3> DEFINE k == i - Len(w[p].queue)
    <3>1. b \in C /\ added[k].call = stage'[b] /\ added[k].call \in Closings
      BY <1>c, <2>2 DEF ClosedBy
    <3> QED BY <1>a, <1>b, <2>2, <3>1 DEF After, Closings
  <2> QED BY <1>4, <2>1, <2>2
<1>10. SqlLast'
  <2> SUFFICES ASSUME NEW q \in Replica, NEW b \in Writer, NEW i \in 1 .. Len(w'[q].queue),
                      ClosedBy(w'[q].queue[i], b), w'[q].queue[i].last,
                      stage'[b] = w'[q].queue[i].call
               PROVE  /\ ~By(b, w'[q].text)
                      /\ \A j \in i + 1 .. Len(w'[q].queue) : ~By(b, w'[q].queue[j].frames)
    BY DEF SqlLast
  <2>l. Len(w'[q].queue) \in Nat /\ Len(w[q].queue) \in Nat /\ Len(added) \in Nat
    BY <1>1, <1>2 DEF SqlWrites
  <2>1. CASE i \in 1 .. Len(w[q].queue) /\ w'[q].queue[i] = w[q].queue[i]
    <3>1. b \notin C /\ stage[b] = w[q].queue[i].call
      BY <1>8, <2>1
    <3>2. ~By(b, w[q].text) /\ \A j \in i + 1 .. Len(w[q].queue) : ~By(b, w[q].queue[j].frames)
      BY <2>1, <3>1 DEF SqlInv, SqlLast
    <3>3. ~By(b, w'[q].text)
      BY <1>2, <3>2, NothingBy
    <3>4. ASSUME NEW j \in i + 1 .. Len(w'[q].queue), By(b, w'[q].queue[j].frames)
          PROVE  FALSE
      <4>1. j \in 1 .. Len(w'[q].queue)
        BY <2>1, <2>l
      <4>2. CASE j \in 1 .. Len(w[q].queue) /\ w'[q].queue[j] = w[q].queue[j]
        <5>1. j \in i + 1 .. Len(w[q].queue)
          BY <4>2, <2>l
        <5> QED BY <3>2, <3>4, <4>2, <5>1
      <4>3. CASE q = p /\ j - Len(w[p].queue) \in 1 .. Len(added) /\ w'[q].queue[j] = added[j - Len(w[p].queue)]
        BY <1>c, <3>1, <3>2, <3>4, <4>3
      <4>4. \/ j \in 1 .. Len(w[q].queue) /\ w'[q].queue[j] = w[q].queue[j]
            \/ /\ q = p /\ j - Len(w[p].queue) \in 1 .. Len(added)
               /\ w'[q].queue[j] = added[j - Len(w[p].queue)]
        BY <1>4, <4>1
      <4> QED BY <4>2, <4>3, <4>4
    <3> QED BY <3>3, <3>4
  <2>2. CASE /\ q = p /\ i - Len(w[p].queue) \in 1 .. Len(added)
             /\ w'[q].queue[i] = added[i - Len(w[p].queue)]
    <3>1. i - Len(w[p].queue) = Len(added)
      BY <1>c, <2>2
    <3>2. Len(w'[q].queue) = Len(w[p].queue) + Len(added)
      <4>1. w'[q].queue = w[p].queue \o added
        BY <1>2, <2>2
      <4> QED BY <1>1, <4>1, Joined
    <3>3. i = Len(w'[q].queue)
      BY <2>2, <2>l, <3>1, <3>2
    <3> QED BY <1>2, <2>2, <2>l, <3>3, NothingBy
  <2> QED BY <1>4, <2>1, <2>2
<1> QED BY <1>a, <1>3, <1>7, <1>9, <1>10 DEF SqlInv

LEMMA SqlGathered ==
  ASSUME SqlInv, NEW p \in Replica, NEW by, NEW call,
         \/ by = "timer" /\ call = "timer"
         \/ by \in Writer /\ call \in {"write"} \cup Closings
  PROVE  /\ Sql!Gathered(p, by, call) \in Seq(Row)
         /\ Len(Sql!Gathered(p, by, call)) \in {0, 1}
         /\ \A i \in 1 .. Len(Sql!Gathered(p, by, call)) :
              LET row == Sql!Gathered(p, by, call)[i]
              IN  row.frames = w[p].text /\ row.by = by /\ row.call = call /\ ~row.last
<1> DEFINE row == Sql!Row("text", w[p].text, by, call, FALSE)
<1>1. w[p].text \in Seq(Frame)
  BY DEF SqlInv, SqlTypes, SqlWrites
<1>2. /\ row \in Row /\ row.frames = w[p].text /\ row.by = by /\ row.call = call /\ row.last = FALSE
  BY <1>1 DEF Sql!Row, Row, Kinds, Sql!NoStatement, Closings
<1>3. Sql!Gathered(p, by, call) = IF w[p].text = <<>> THEN <<>> ELSE <<row>>
  BY DEF Sql!Gathered
<1> HIDE DEF row
<1> QED BY <1>2, <1>3

LEMMA SqlRaiseFirst ==
  ASSUME SqlInv, NEW a \in Writer, Sql!RaiseFirst(a)
  PROVE  SqlInv'
<1> DEFINE p == home[a]
<1>1. /\ p \in Replica /\ stage[a] \in {"run", "framed"}
      /\ w' = [w EXCEPT ![p].failure = FALSE] /\ missed' = [missed EXCEPT ![p] = {}]
      /\ stage' = [stage EXCEPT ![a] = "failed"] /\ refused' = refused
      /\ UNCHANGED <<home, clock, rows>>
  BY DEF SqlInv, RunTypes, Sql!RaiseFirst, Sql!MayWrite, Sql!Settles, Sql!sqlVars
<1> HIDE DEF p
<1>2. /\ w' \in [Replica -> SqlWrites] /\ missed' \in [Replica -> SUBSET Frame]
      /\ missed'[p] = {}
      /\ \A q \in Replica : /\ w'[q].text = w[q].text /\ w'[q].queue = w[q].queue
                            /\ q # p => w'[q] = w[q] /\ missed'[q] = missed[q]
  BY <1>1 DEF SqlInv, RunTypes, SqlTypes, SqlWrites
<1>3. RunTypes' /\ SqlTypes' /\ Kept'
  BY <1>1, <1>2 DEF SqlInv, RunTypes, SqlTypes, Kept, Stage
<1>4. ASSUME NEW q \in Replica, NEW b \in Writer, SqlHeld(q, b)'
      PROVE  SqlHeld(q, b)
  <2>1. CASE Lost(q, b)'
    BY <1>2, <2>1 DEF SqlHeld, Lost
  <2> QED BY <1>2, <1>4, <2>1 DEF SqlHeld, By
<1>5. \A b \in Writer : Through(b)' => Through(b)
  BY <1>1 DEF Through, SqlInv, RunTypes
<1>6. SqlOwn'
  BY <1>1, <1>4, <1>5 DEF SqlInv, SqlOwn
<1>7. Closers' /\ SqlLast'
  <2> SUFFICES ASSUME NEW q \in Replica, NEW b \in Writer, NEW i \in 1 .. Len(w'[q].queue),
                      ClosedBy(w'[q].queue[i], b)
               PROVE  /\ home'[b] = q /\ stage'[b] \in After(w'[q].queue[i].call)
                      /\ w'[q].queue[i].last /\ stage'[b] = w'[q].queue[i].call
                           => /\ ~By(b, w'[q].text)
                              /\ \A j \in i + 1 .. Len(w'[q].queue) : ~By(b, w'[q].queue[j].frames)
    BY DEF Closers, SqlLast
  <2>1. home[b] = q /\ stage[b] \in After(w[q].queue[i].call)
    BY <1>2 DEF SqlInv, Closers
  <2>2. b # a
    BY <1>1, <2>1 DEF After
  <2>3. stage'[b] = stage[b]
    BY <1>1, <2>2 DEF SqlInv, RunTypes
  <2> QED BY <1>1, <1>2, <2>1, <2>3 DEF SqlInv, SqlLast
<1> QED BY <1>3, <1>6, <1>7 DEF SqlInv

LEMMA SqlWriteText ==
  ASSUME SqlInv, NEW a \in Writer, Sql!WriteText(a)
  PROVE  SqlInv'
<1> DEFINE p == home[a]
           f == NextFrame(a)
<1>1. /\ p \in Replica /\ stage[a] \in {"run", "framed"}
      /\ w' = [w EXCEPT ![p].text = Append(@, f)]
      /\ stage' = [stage EXCEPT ![a] = "run"]
      /\ clock' = [clock EXCEPT ![a][a] = @ + 1]
      /\ UNCHANGED <<home, refused, missed, rows>>
  BY DEF SqlInv, RunTypes, Sql!WriteText, Sql!MayWrite, Sql!NextFrame, NextFrame, Sql!Counted, Sql!sqlVars
<1>2. f \in Frame /\ f.by = a
  BY Framed DEF SqlInv
<1> HIDE DEF p, f
<1>3. w[p] \in SqlWrites /\ w[p].text \in Seq(Frame) /\ w \in [Replica -> SqlWrites]
  BY <1>1 DEF SqlInv, SqlTypes, SqlWrites
<1>4. /\ w' \in [Replica -> SqlWrites]
      /\ w'[p].text = Append(w[p].text, f)
      /\ \A q \in Replica : /\ w'[q].queue = w[q].queue /\ w'[q].failure = w[q].failure
                            /\ q # p => w'[q] = w[q]
  <2>1. Append(w[p].text, f) \in Seq(Frame)
    BY <1>2, <1>3, Appended
  <2> QED BY <1>1, <1>3, <2>1 DEF SqlWrites
<1>5. RunTypes' /\ SqlTypes' /\ Kept'
  BY <1>1, <1>4 DEF SqlInv, RunTypes, SqlTypes, Kept, Stage
<1>6. ASSUME NEW q \in Replica, NEW b \in Writer, By(b, w'[q].text)
      PROVE  By(b, w[q].text) \/ (b = a /\ q = p)
  BY <1>2, <1>3, <1>4, <1>6, AppendBy
<1>7. ASSUME NEW q \in Replica, NEW b \in Writer, SqlHeld(q, b)'
      PROVE  SqlHeld(q, b) \/ (b = a /\ q = p)
  <2>1. CASE Lost(q, b)'
    BY <1>1, <2>1 DEF SqlHeld, Lost
  <2>2. CASE By(b, w'[q].text)
    BY <1>6, <2>2 DEF SqlHeld
  <2>3. CASE \E i \in 1 .. Len(w'[q].queue) : By(b, w'[q].queue[i].frames)
    BY <1>4, <2>3 DEF SqlHeld
  <2> QED BY <1>7, <2>1, <2>2, <2>3 DEF SqlHeld, By
<1>8. \A b \in Writer : Through(b)' => Through(b) /\ b # a
  BY <1>1 DEF Through, SqlInv, RunTypes
<1>9. SqlOwn'
  <2> SUFFICES ASSUME NEW q \in Replica, NEW b \in Writer, SqlHeld(q, b)'
               PROVE  home'[b] = q /\ ~Through(b)'
    BY DEF SqlOwn
  <2>1. CASE SqlHeld(q, b)
    BY <1>1, <1>8, <2>1 DEF SqlInv, SqlOwn
  <2>2. CASE b = a /\ q = p
    BY <1>1, <1>8, <2>2 DEF p
  <2> QED BY <1>7, <2>1, <2>2
<1>10. Closers' /\ SqlLast'
  <2> SUFFICES ASSUME NEW q \in Replica, NEW b \in Writer, NEW i \in 1 .. Len(w'[q].queue),
                      ClosedBy(w'[q].queue[i], b)
               PROVE  /\ home'[b] = q /\ stage'[b] \in After(w'[q].queue[i].call)
                      /\ w'[q].queue[i].last /\ stage'[b] = w'[q].queue[i].call
                           => /\ ~By(b, w'[q].text)
                              /\ \A j \in i + 1 .. Len(w'[q].queue) : ~By(b, w'[q].queue[j].frames)
    BY DEF Closers, SqlLast
  <2>1. home[b] = q /\ stage[b] \in After(w[q].queue[i].call)
    BY <1>4 DEF SqlInv, Closers
  <2>2. b # a
    BY <1>1, <2>1 DEF After
  <2>3. stage'[b] = stage[b]
    BY <1>1, <2>2 DEF SqlInv, RunTypes
  <2> QED BY <1>1, <1>4, <1>6, <2>1, <2>2, <2>3 DEF SqlInv, SqlLast
<1> QED BY <1>5, <1>9, <1>10 DEF SqlInv

LEMMA SqlWriteFrame ==
  ASSUME SqlInv, NEW a \in Writer, Sql!WriteFrame(a)
  PROVE  SqlInv'
<1> DEFINE p == home[a]
           f == NextFrame(a)
           last == Sql!Row("frame", <<f>>, a, "write", TRUE)
           ahead == Sql!Gathered(p, a, "write")
<1>1. /\ p \in Replica /\ stage[a] \in {"run", "framed"}
      /\ w' = [w EXCEPT ![p].queue = @ \o ahead \o <<last>>, ![p].text = <<>>]
      /\ stage' = [stage EXCEPT ![a] = "write"]
      /\ clock' = [clock EXCEPT ![a][a] = @ + 1]
      /\ UNCHANGED <<home, refused, missed, rows>>
  BY DEF SqlInv, RunTypes, Sql!WriteFrame, Sql!MayWrite, Sql!NextFrame, NextFrame, Sql!Counted,
         Sql!sqlVars, Sql!Enqueue
<1>2. f \in Frame /\ f.by = a
  BY Framed DEF SqlInv
<1>3. /\ last \in Row /\ last.frames = <<f>> /\ last.call = "write" /\ \A b : ~ClosedBy(last, b)
  BY <1>2 DEF Sql!Row, Row, Kinds, Sql!NoStatement, ClosedBy, Closings
<1>4. /\ ahead \in Seq(Row) /\ Len(ahead) \in Nat
      /\ \A i \in 1 .. Len(ahead) : /\ ahead[i].frames = w[p].text /\ ahead[i].call = "write"
                                    /\ \A b : ~ClosedBy(ahead[i], b)
  BY <1>1, SqlGathered DEF ClosedBy, Closings
<1> DEFINE added == ahead \o <<last>>
<1> HIDE DEF ahead, last, f, p
<1>5. /\ added \in Seq(Row) /\ Len(added) = Len(ahead) + 1 /\ added[Len(ahead) + 1] = last
      /\ \A i \in 1 .. Len(ahead) : added[i] = ahead[i]
  BY <1>3, <1>4, Joined
<1>6. w' = [w EXCEPT ![p].queue = @ \o added, ![p].text = <<>>]
  <2>1. w[p].queue \in Seq(Row)
    BY <1>1 DEF SqlInv, SqlTypes, SqlWrites
  <2>2. w[p].queue \o ahead \o <<last>> = w[p].queue \o added
    <3>1. <<last>> \in Seq(Row)
      BY <1>3
    <3>2. \A s, t, u \in Seq(Row) : (s \o t) \o u = s \o (t \o u)
      BY Associates
    <3> QED BY <1>4, <2>1, <3>1, <3>2, Zenon DEF added
  <2> QED BY <1>1, <2>2
<1> HIDE DEF added
<1>7. ASSUME NEW b \in Writer, NEW i \in 1 .. Len(added)
      PROVE  /\ By(b, added[i].frames) => By(b, w[p].text) \/ b = a
             /\ ~ClosedBy(added[i], b)
  <2>1. CASE i \in 1 .. Len(ahead)
    BY <1>4, <1>5, <2>1
  <2>2. CASE i = Len(ahead) + 1
    BY <1>2, <1>3, <1>5, <2>2, OneBy
  <2> QED BY <1>4, <1>5, <2>1, <2>2
<1>8. RunTypes'
  BY <1>1 DEF SqlInv, RunTypes, Stage
<1> DEFINE C == {a}
<1>9. /\ C \in SUBSET Writer
      /\ \A b \in Writer \ C : stage'[b] = stage[b]
      /\ \A b \in C : /\ home[b] = p
                      /\ stage[b] \in {"run", "framed", "failed", "again"}
                      /\ stage'[b] \in {"write"} \cup Closings
                      /\ stage[b] = "failed" => stage'[b] \in {"fail", "flush"}
      /\ a \in C /\ stage'[a] = "write"
  BY <1>1 DEF SqlInv, RunTypes, p
<1> HIDE DEF C
<1>10. \A b \in Writer : \A i \in 1 .. Len(added) :
          /\ By(b, added[i].frames) => By(b, w[p].text) \/ (b \in C /\ stage'[b] = "write")
          /\ ClosedBy(added[i], b) => b \in C /\ added[i].call = stage'[b]
          /\ ClosedBy(added[i], b) /\ added[i].last => i = Len(added)
  BY <1>7, <1>9
<1>11. Enqueues(p, added, C)
  BY <1>1, <1>6, <1>8, <1>9, <1>10 DEF Enqueues
<1> QED BY <1>1, <1>5, <1>9, <1>11, SqlEnqueued

LEMMA SqlClose ==
  ASSUME SqlInv, NEW a \in Writer, Sql!Close(a)
  PROVE  SqlInv'
<1> DEFINE p == home[a]
           call == Closing(a)
           last == Sql!Row(call, <<>>, a, call, TRUE)
           ahead == Sql!Gathered(p, a, call)
<1>1. /\ p \in Replica /\ stage[a] \in {"run", "framed", "failed", "again"}
      /\ w' = [w EXCEPT ![p].queue = @ \o ahead \o <<last>>, ![p].text = <<>>]
      /\ stage' = [stage EXCEPT ![a] = call]
      /\ UNCHANGED <<home, clock, refused, missed, rows>>
  BY DEF SqlInv, RunTypes, Sql!Close, Sql!MayClose, Sql!Closing, Closing, Sql!sqlVars, Sql!Enqueue
<1>2. call \in Closings /\ (stage[a] = "failed" => call \in {"fail", "flush"})
  BY DEF Closing, Closings
<1>3. /\ last \in Row /\ last.frames = <<>> /\ last.call = call /\ last.by = a
  <2>1. <<>> \in Seq(Frame)
    OBVIOUS
  <2> QED BY <1>2, <2>1 DEF Sql!Row, Row, Kinds, Sql!NoStatement, Closings
<1>4. /\ ahead \in Seq(Row) /\ Len(ahead) \in Nat
      /\ \A i \in 1 .. Len(ahead) : /\ ahead[i].frames = w[p].text /\ ahead[i].call = call
                                    /\ ahead[i].by = a /\ ~ahead[i].last
  BY <1>1, <1>2, SqlGathered
<1> DEFINE added == ahead \o <<last>>
<1> HIDE DEF ahead, last, call, p
<1>5. /\ added \in Seq(Row) /\ Len(added) = Len(ahead) + 1 /\ added[Len(ahead) + 1] = last
      /\ \A i \in 1 .. Len(ahead) : added[i] = ahead[i]
  BY <1>3, <1>4, Joined
<1>6. w' = [w EXCEPT ![p].queue = @ \o added, ![p].text = <<>>]
  <2>1. w[p].queue \in Seq(Row)
    BY <1>1 DEF SqlInv, SqlTypes, SqlWrites
  <2>2. w[p].queue \o ahead \o <<last>> = w[p].queue \o added
    <3>1. <<last>> \in Seq(Row)
      BY <1>3
    <3>2. \A s, t, u \in Seq(Row) : (s \o t) \o u = s \o (t \o u)
      BY Associates
    <3> QED BY <1>4, <2>1, <3>1, <3>2, Zenon DEF added
  <2> QED BY <1>1, <2>2
<1> HIDE DEF added
<1>7. ASSUME NEW b \in Writer, NEW i \in 1 .. Len(added)
      PROVE  /\ By(b, added[i].frames) => By(b, w[p].text)
             /\ ClosedBy(added[i], b) => b = a /\ added[i].call = call
             /\ ClosedBy(added[i], b) /\ added[i].last => i = Len(added)
  <2>1. CASE i \in 1 .. Len(ahead)
    BY <1>4, <1>5, <2>1 DEF ClosedBy
  <2>2. CASE i = Len(ahead) + 1
    BY <1>3, <1>5, <2>2, NothingBy DEF ClosedBy
  <2> QED BY <1>4, <1>5, <2>1, <2>2
<1>8. RunTypes'
  BY <1>1, <1>2 DEF SqlInv, RunTypes, Stage, Closings
<1> DEFINE C == {a}
<1>9. /\ C \in SUBSET Writer
      /\ \A b \in Writer \ C : stage'[b] = stage[b]
      /\ \A b \in C : /\ home[b] = p
                      /\ stage[b] \in {"run", "framed", "failed", "again"}
                      /\ stage'[b] \in {"write"} \cup Closings
                      /\ stage[b] = "failed" => stage'[b] \in {"fail", "flush"}
      /\ a \in C /\ stage'[a] = call
  BY <1>1, <1>2 DEF SqlInv, RunTypes, p
<1> HIDE DEF C
<1>10. \A b \in Writer : \A i \in 1 .. Len(added) :
          /\ By(b, added[i].frames) => By(b, w[p].text) \/ (b \in C /\ stage'[b] = "write")
          /\ ClosedBy(added[i], b) => b \in C /\ added[i].call = stage'[b]
          /\ ClosedBy(added[i], b) /\ added[i].last => i = Len(added)
  BY <1>7, <1>9
<1>11. Enqueues(p, added, C)
  BY <1>1, <1>6, <1>8, <1>9, <1>10 DEF Enqueues
<1> QED BY <1>1, <1>5, <1>9, <1>11, SqlEnqueued

LEMMA SqlTimer ==
  ASSUME SqlInv, NEW p \in Replica, Sql!Timer(p)
  PROVE  SqlInv'
<1> DEFINE added == Sql!Gathered(p, "timer", "timer")
<1>1. /\ w' = [w EXCEPT ![p].queue = @ \o added, ![p].text = <<>>]
      /\ UNCHANGED <<stage, home, clock, refused, missed, rows>>
  BY DEF Sql!Timer, Sql!Nobody, Sql!sqlVars, Sql!writerVars
<1>2. /\ added \in Seq(Row)
      /\ \A b \in Writer : \A i \in 1 .. Len(added) : added[i].frames = w[p].text /\ ~ClosedBy(added[i], b)
  BY SqlGathered DEF ClosedBy, Closings
<1> HIDE DEF added
<1>3. RunTypes'
  BY <1>1 DEF SqlInv, RunTypes
<1> DEFINE C == {}
<1>4. /\ C \in SUBSET Writer /\ \A b \in C : FALSE
      /\ \A b \in Writer \ C : stage'[b] = stage[b]
  BY <1>1
<1> HIDE DEF C
<1>5. Enqueues(p, added, C)
  BY <1>1, <1>2, <1>3, <1>4 DEF Enqueues
<1> QED BY <1>2, <1>4, <1>5, SqlEnqueued

LEMMA SameRow ==
  ASSUME NEW row \in Row, NEW seq \in Nat, NEW tries \in Nat,
         NEW head, head \in {[row EXCEPT !.seq = seq], [row EXCEPT !.seq = seq, !.tries = tries]}
  PROVE  /\ head \in Row /\ head.frames = row.frames /\ head.by = row.by
         /\ head.call = row.call /\ head.last = row.last
BY DEF Row

(* The statement of the head of a queue is begun, or begun again.          *)
LEMMA SqlTried ==
  ASSUME SqlInv, NEW p \in Replica, w[p].queue # <<>>, NEW head \in Row,
         head.frames = w[p].queue[1].frames, head.by = w[p].queue[1].by,
         head.call = w[p].queue[1].call, head.last = w[p].queue[1].last,
         w' = [w EXCEPT ![p].queue = [w[p].queue EXCEPT ![1] = head]],
         UNCHANGED <<stage, home, clock, refused, missed, rows>>
  PROVE  SqlInv'
<1>1. w \in [Replica -> SqlWrites] /\ w[p] \in SqlWrites /\ w[p].queue \in Seq(Row)
      /\ Len(w[p].queue) \in Nat /\ 1 \in 1 .. Len(w[p].queue)
  <2>1. w \in [Replica -> SqlWrites] /\ w[p].queue \in Seq(Row)
    BY DEF SqlInv, SqlTypes, SqlWrites
  <2> QED BY <2>1, Shorter
<1> DEFINE queue == [w[p].queue EXCEPT ![1] = head]
<1>4. /\ queue \in Seq(Row)
      /\ Len(queue) = Len(w[p].queue)
      /\ \A i \in 1 .. Len(w[p].queue) : queue[i] = IF i = 1 THEN head ELSE w[p].queue[i]
  BY <1>1
<1>5. /\ w' \in [Replica -> SqlWrites]
      /\ w'[p].queue = queue
      /\ \A q \in Replica : /\ w'[q].text = w[q].text /\ w'[q].failure = w[q].failure
                            /\ q # p => w'[q] = w[q]
  <2>1. w' = [w EXCEPT ![p].queue = queue]
    OBVIOUS
  <2> HIDE DEF queue
  <2>2. /\ w'[p] = [w[p] EXCEPT !.queue = queue]
        /\ w' = [w EXCEPT ![p] = w'[p]]
        /\ \A q \in Replica : q # p => w'[q] = w[q]
    BY <1>1, <2>1
  <2>3. w'[p] \in SqlWrites /\ w'[p].queue = queue
        /\ w'[p].text = w[p].text /\ w'[p].failure = w[p].failure
    BY <1>1, <1>4, <2>2 DEF SqlWrites
  <2> QED BY <1>1, <2>2, <2>3
<1> HIDE DEF queue
<1>6. \A q \in Replica :
        /\ Len(w'[q].queue) = Len(w[q].queue)
        /\ \A i \in 1 .. Len(w[q].queue) :
             /\ w'[q].queue[i].frames = w[q].queue[i].frames /\ w'[q].queue[i].by = w[q].queue[i].by
             /\ w'[q].queue[i].call = w[q].queue[i].call /\ w'[q].queue[i].last = w[q].queue[i].last
  <2> TAKE q \in Replica
  <2>1. CASE q = p
    BY <1>4, <1>5, <2>1
  <2>2. CASE q # p
    BY <1>5, <2>2
  <2> QED BY <2>1, <2>2
<1>7. RunTypes' /\ SqlTypes' /\ Kept'
  BY <1>5, SMTT(30) DEF SqlInv, RunTypes, SqlTypes, Kept
<1>8. SqlOwn'
  <2> SUFFICES ASSUME NEW q \in Replica, NEW b \in Writer, SqlHeld(q, b)'
               PROVE  SqlHeld(q, b)
    BY DEF SqlInv, SqlOwn, Through
  <2>1. CASE Lost(q, b)'
    BY <2>1 DEF SqlHeld, Lost
  <2>2. CASE By(b, w'[q].text)
    BY <1>5, <2>2, SMTT(30) DEF SqlHeld
  <2>3. CASE \E i \in 1 .. Len(w'[q].queue) : By(b, w'[q].queue[i].frames)
    BY <1>6, <2>3 DEF SqlHeld
  <2> QED BY <2>1, <2>2, <2>3, Zenon DEF SqlHeld, By
<1>9. Closers' /\ SqlLast'
  <2> SUFFICES ASSUME NEW q \in Replica, NEW b \in Writer, NEW i \in 1 .. Len(w'[q].queue),
                      ClosedBy(w'[q].queue[i], b)
               PROVE  /\ home'[b] = q /\ stage'[b] \in After(w'[q].queue[i].call)
                      /\ w'[q].queue[i].last /\ stage'[b] = w'[q].queue[i].call
                           => /\ ~By(b, w'[q].text)
                              /\ \A j \in i + 1 .. Len(w'[q].queue) : ~By(b, w'[q].queue[j].frames)
    BY SMTT(30) DEF Closers, SqlLast
  <2>1. ClosedBy(w[q].queue[i], b) /\ i \in 1 .. Len(w[q].queue)
    BY <1>6 DEF ClosedBy
  <2>2. home'[b] = q /\ stage'[b] \in After(w'[q].queue[i].call)
    BY <1>6, <2>1 DEF SqlInv, Closers
  <2>3. ASSUME w'[q].queue[i].last, stage'[b] = w'[q].queue[i].call
        PROVE  /\ ~By(b, w'[q].text)
               /\ \A j \in i + 1 .. Len(w'[q].queue) : ~By(b, w'[q].queue[j].frames)
    <3>1. /\ ~By(b, w[q].text)
          /\ \A j \in i + 1 .. Len(w[q].queue) : ~By(b, w[q].queue[j].frames)
      BY <1>6, <2>1, <2>3 DEF SqlInv, SqlLast
    <3>2. Len(w[q].queue) \in Nat
      BY DEF SqlInv, SqlTypes, SqlWrites
    <3>3. \A j \in i + 1 .. Len(w'[q].queue) : j \in 1 .. Len(w[q].queue)
      BY <1>6, <2>1, <3>2
    <3>4. \A j \in i + 1 .. Len(w'[q].queue) : ~By(b, w'[q].queue[j].frames)
      BY <1>6, <3>1, <3>3
    <3> QED BY <1>5, <3>1, <3>4, SMTT(30)
  <2> QED BY <2>2, <2>3
<1> QED BY <1>7, <1>8, <1>9 DEF SqlInv

(* What does not concern what a replica is writing.                        *)
LEMMA SqlElsewhere ==
  ASSUME SqlInv, UNCHANGED <<stage, home, clock, refused, w, missed>>, rows' \in SqlRows
  PROVE  SqlInv'
<1>1. Onward
  BY DEF SqlInv, RunTypes, Onward
<1> QED BY <1>1, SqlOnward

LEMMA SqlSendStep ==
  ASSUME SqlInv, NEW p \in Replica, Sql!SqlSend(p)
  PROVE  SqlInv'
<1> USE DEF Sql!sqlVars, Sql!writerVars
<1>r. rows \in SqlRows /\ Len(rows) \in Nat
  BY DEF SqlInv, SqlTypes, SqlRows
<1>q. ASSUME w[p].queue # <<>> PROVE w[p].queue[1] \in Row /\ w[p].queue \in Seq(Row)
  <2>1. w[p].queue \in Seq(Row)
    BY DEF SqlInv, SqlTypes, SqlWrites
  <2> QED BY <1>q, <2>1, Shorter
<1>1. CASE Sql!Flushed(p)
  <2>1. w[p].queue # <<>> /\ Sql!Attempted(p, TRUE) /\ rows' = rows
    BY <1>1 DEF Sql!Flushed
  <2> QED BY <1>r, <2>1, SqlAttempted
<1>2. CASE Sql!ReadMax(p)
  <2> DEFINE head == [w[p].queue[1] EXCEPT !.seq = Len(rows) + 1]
  <2>1. /\ w[p].queue # <<>> /\ w' = [w EXCEPT ![p].queue[1].seq = Len(rows) + 1]
        /\ UNCHANGED <<stage, home, clock, refused, missed, rows>>
    BY <1>2 DEF Sql!ReadMax
  <2>2. w' = [w EXCEPT ![p].queue = [w[p].queue EXCEPT ![1] = head]]
    BY <2>1
  <2>3. /\ head \in Row /\ head.frames = w[p].queue[1].frames /\ head.by = w[p].queue[1].by
        /\ head.call = w[p].queue[1].call /\ head.last = w[p].queue[1].last
    <3>1. w[p].queue[1] \in Row /\ Len(rows) + 1 \in Nat /\ 0 \in Nat
      BY <1>q, <1>r, <2>1
    <3> QED BY <3>1, SameRow
  <2> HIDE DEF head
  <2> QED BY <2>1, <2>2, <2>3, SqlTried
<1>3. CASE Sql!Insert(p)
  <2>1. w[p].queue # <<>> /\ Sql!Attempted(p, TRUE)
    BY <1>3 DEF Sql!Insert, Sql!Begun
  <2>2. rows' \in SqlRows
    <3> DEFINE row == w[p].queue[1]
               kind == IF row.kind \in {"text", "frame"} THEN "chunk" ELSE row.kind
               x == [kind |-> kind, frames |-> row.frames]
    <3>1. x \in [kind : {"chunk"} \cup Closings, frames : Seq(Frame)]
      BY <1>q, <2>1 DEF Row, Kinds
    <3>2. rows' = Append(rows, x)
      BY <1>3 DEF Sql!Insert, Sql!Next1
    <3> HIDE DEF x
    <3> QED BY <1>r, <3>1, <3>2 DEF SqlRows
  <2> QED BY <2>1, <2>2, SqlAttempted
<1>4. CASE Sql!Collide(p)
  <2>1. w[p].queue # <<>> /\ rows' = rows
    BY <1>4 DEF Sql!Collide, Sql!Begun
  <2>2. CASE Sql!Next1(p).tries < Attempts
    <3> DEFINE head == [w[p].queue[1] EXCEPT !.seq = 0, !.tries = @ + 1]
    <3>1. /\ w' = [w EXCEPT ![p].queue[1].seq = 0, ![p].queue[1].tries = @ + 1]
          /\ UNCHANGED <<stage, home, clock, refused, missed, rows>>
      BY <1>4, <2>2 DEF Sql!Collide, Sql!NoStatement
    <3>2. w' = [w EXCEPT ![p].queue = [w[p].queue EXCEPT ![1] = head]]
      <4>1. w[p].queue \in Seq(Row) /\ w[p].queue[1] \in Row /\ 1 \in DOMAIN w[p].queue
        BY <1>q, <2>1
      <4>2. DOMAIN w = Replica /\ w[p] \in SqlWrites
        BY DEF SqlInv, SqlTypes
      <4> DEFINE begun == [w EXCEPT ![p].queue[1].seq = 0]
      <4>3. w' = [begun EXCEPT ![p].queue[1].tries = @ + 1]
        BY <3>1, Zenon
      <4>4. /\ begun[p].queue[1] = [w[p].queue[1] EXCEPT !.seq = 0]
            /\ begun[p].queue = [w[p].queue EXCEPT ![1] = begun[p].queue[1]]
            /\ begun[p] = [w[p] EXCEPT !.queue = begun[p].queue]
            /\ begun = [w EXCEPT ![p] = begun[p]]
        BY <4>1, <4>2 DEF SqlWrites
      <4> HIDE DEF begun
      <4> QED BY <4>1, <4>2, <4>3, <4>4 DEF SqlWrites, Row
    <3>3. /\ head \in Row /\ head.frames = w[p].queue[1].frames /\ head.by = w[p].queue[1].by
          /\ head.call = w[p].queue[1].call /\ head.last = w[p].queue[1].last
      <4>1. w[p].queue[1] \in Row /\ 0 \in Nat /\ w[p].queue[1].tries + 1 \in Nat
        BY <1>q, <2>1, SMTT(30) DEF Row
      <4> QED BY <4>1, SameRow, ZenonT(60)
    <3> HIDE DEF head
    <3> QED BY <2>1, <3>1, <3>2, <3>3, SqlTried
  <2>3. CASE ~(Sql!Next1(p).tries < Attempts)
    <3>1. Sql!Attempted(p, FALSE)
      BY <1>4, <2>3 DEF Sql!Collide
    <3> QED BY <1>r, <2>1, <3>1, SqlAttempted
  <2> QED BY <2>2, <2>3
<1>5. CASE Sql!Refuse(p)
  <2>1. w[p].queue # <<>> /\ Sql!Attempted(p, FALSE) /\ rows' = rows
    BY <1>5 DEF Sql!Refuse, Sql!Begun
  <2> QED BY <1>r, <2>1, SqlAttempted
<1> QED BY <1>1, <1>2, <1>3, <1>4, <1>5 DEF Sql!SqlSend

LEMMA SqlStepKeeps ==
  ASSUME SqlInv, Sql!SqlNext
  PROVE  SqlInv'
<1> USE DEF Sql!sqlVars, Sql!runVars
<1>r. rows \in SqlRows /\ <<>> \in SqlRows
  BY DEF SqlInv, SqlTypes, SqlRows
<1>w. Sql!Writer = Writer /\ Delegate \subseteq Writer
  BY DEF Sql!Writer, Writer
<1>1. CASE \E a \in Writer : Sql!SqlCall(a)
  BY <1>1, SqlRaiseFirst, SqlWriteText, SqlWriteFrame, SqlClose DEF Sql!SqlCall
<1>2. CASE \E p \in Replica : Sql!Timer(p) \/ Sql!SqlSend(p)
  BY <1>2, SqlTimer, SqlSendStep
<1>3. CASE \E r \in Reader : Sql!SqlRead(r)
  <2>1. UNCHANGED <<stage, home, clock, refused, w, missed, rows>>
    BY <1>3 DEF Sql!SqlRead, Sql!Subscribe, Sql!Poll, Sql!writerVars
  <2> QED BY <1>r, <2>1, SqlElsewhere, SMTT(30)
<1>4. CASE Sql!SqlRun /\ UNCHANGED Sql!sqlVars
  <2>1. CASE \E p \in Replica : Sql!Crash(p, Sql!RunWrites)
    <3>1. PICK p \in Replica : Sql!Crash(p, Sql!RunWrites)
      BY <2>1
    <3>2. Died(p, Sql!RunWrites)
      BY <1>w, <3>1, SameRun, CrashDied DEF SqlInv, Writer
    <3> QED BY <3>2, <1>4, <3>1, SqlDied
  <2>2. CASE \E a \in Writer : Sql!Throw(a) \/ (a \in Delegate /\ (Sql!Begin(a) \/ Sql!Join(a)))
    <3>1. PICK a \in Writer : Throw(a) \/ (a \in Delegate /\ (Begin(a) \/ Join(a)))
      <4>1. PICK a \in Writer : Sql!Throw(a) \/ (a \in Delegate /\ (Sql!Begin(a) \/ Sql!Join(a)))
        BY <2>2
      <4>2. \E p \in Replica : TRUE
        BY DEF SqlInv, RunTypes
      <4> QED BY <4>1, <4>2, SameRun
    <3>2. Onward
      BY <3>1, RunOnward DEF SqlInv
    <3> QED BY <1>4, <1>r, <3>2, SqlOnward
  <2> QED BY <1>4, <1>w, <2>1, <2>2 DEF Sql!SqlRun
<1>5. CASE Sql!Lapse \/ Sql!PurgeSelect \/ Sql!PurgeDelete
  <2>1. UNCHANGED <<stage, home, clock, refused, w, missed>> /\ rows' \in SqlRows
    BY <1>5, <1>r DEF Sql!Lapse, Sql!PurgeSelect, Sql!PurgeDelete
  <2> QED BY <2>1, SqlElsewhere
<1> QED BY <1>w, <1>1, <1>2, <1>3, <1>4, <1>5 DEF Sql!SqlNext

(***************************************************************************)
(* The Redis sink.                                                         *)
(***************************************************************************)
LEMMA RedisHoldsNext ==
  ASSUME NEW q \in Replica, NEW b \in Writer, RedisHeld(q, b)'
  PROVE  \/ Lost(q, b)'
         \/ By(b, w'[q].text)
         \/ \E i \in 1 .. Len(w'[q].queue) : InSend(w'[q].queue[i], b)
BY Zenon DEF RedisHeld, By, InSend

LEMMA RedisOnward ==
  ASSUME RedisInv, Onward
  PROVE  RedisInv'
<1>1. RunTypes' /\ RedisTypes' /\ Kept' /\ Drained' /\ Pushes'
  BY DEF RedisInv, Onward, RedisTypes, Kept, Drained, Pushes
<1>2. Closers' /\ RedisLast'
  <2> SUFFICES ASSUME NEW q \in Replica, NEW a \in Writer, NEW i \in 1 .. Len(w'[q].queue),
                      ClosedBy(w'[q].queue[i], a)
               PROVE  /\ home'[a] = q /\ stage'[a] \in After(w'[q].queue[i].call)
                      /\ stage'[a] = w'[q].queue[i].call
                           => /\ By(a, w'[q].text) => \E j \in 1 .. i : Takes(w'[q].queue[j])
                              /\ \A j \in i + 1 .. Len(w'[q].queue) : ~InSend(w'[q].queue[j], a)
    BY DEF Closers, RedisLast
  <2>1. w' = w /\ home' = home
    BY DEF Onward
  <2>2. home[a] = q /\ stage[a] \in After(w[q].queue[i].call)
    BY <2>1 DEF RedisInv, Closers
  <2>3. stage'[a] \in After(w[q].queue[i].call)
    BY <2>1, <2>2 DEF Onward, After, ClosedBy, Closings
  <2>4. stage'[a] = w[q].queue[i].call => stage[a] = stage'[a]
    BY <2>1, <2>2, SMTT(30) DEF Onward, After, ClosedBy, Closings
  <2> QED BY <2>1, <2>2, <2>3, <2>4 DEF RedisInv, RedisLast
<1>3. \A p \in Replica, a \in Writer : RedisHeld(p, a)' => RedisHeld(p, a)
  BY ZenonT(60) DEF Onward, RedisHeld, Lost, By, InSend
<1>4. \A a \in Writer : Through(a)' => Through(a)
  BY DEF Onward, Through
<1>5. RedisOwn'
  BY <1>3, <1>4 DEF RedisInv, RedisOwn, Onward
<1> QED BY <1>1, <1>2, <1>5 DEF RedisInv

LEMMA RedisDied ==
  ASSUME RedisInv, NEW p \in Replica, Died(p, Redis!RunWrites)
  PROVE  RedisInv'
<1>1. /\ w'[p] = Redis!RunWrites /\ missed'[p] = {}
      /\ \A q \in Replica : q # p => w'[q] = w[q] /\ missed'[q] = missed[q]
      /\ Redis!RunWrites \in RedisWrites /\ ~Redis!RunWrites.flushQueued
      /\ Redis!RunWrites.text = <<>> /\ Redis!RunWrites.queue = <<>>
  BY DEF RedisInv, RedisTypes, RunTypes, Died, Redis!RunWrites, RedisWrites
<1>2. RunTypes' /\ RedisTypes'
  BY <1>1 DEF RedisInv, RedisTypes, Died
<1>3. Kept' /\ Drained' /\ Pushes'
  BY <1>1 DEF RedisInv, Kept, Drained, Pushes
<1>4. ASSUME NEW q \in Replica, NEW a \in Writer, RedisHeld(q, a)'
      PROVE  q # p /\ RedisHeld(q, a)
  <2>1. CASE Lost(q, a)'
    BY <1>1, <2>1 DEF RedisHeld, Lost
  <2>2. CASE By(a, w'[q].text)
    BY <1>1, <2>2, NothingBy DEF RedisHeld
  <2>3. CASE \E i \in 1 .. Len(w'[q].queue) : InSend(w'[q].queue[i], a)
    BY <1>1, <2>3 DEF RedisHeld
  <2> QED BY <1>4, <2>1, <2>2, <2>3, RedisHoldsNext
<1>5. RedisOwn'
  <2> SUFFICES ASSUME NEW q \in Replica, NEW a \in Writer, RedisHeld(q, a)'
               PROVE  home'[a] = q /\ ~Through(a)'
    BY DEF RedisOwn
  <2>1. q # p /\ home[a] = q /\ ~Through(a)
    BY <1>4 DEF RedisInv, RedisOwn
  <2> QED BY <2>1 DEF Died, Through
<1>6. Closers' /\ RedisLast'
  <2> SUFFICES ASSUME NEW q \in Replica, NEW a \in Writer, NEW i \in 1 .. Len(w'[q].queue),
                      ClosedBy(w'[q].queue[i], a)
               PROVE  /\ home'[a] = q /\ stage'[a] \in After(w'[q].queue[i].call)
                      /\ stage'[a] = w'[q].queue[i].call
                           => /\ By(a, w'[q].text) => \E j \in 1 .. i : Takes(w'[q].queue[j])
                              /\ \A j \in i + 1 .. Len(w'[q].queue) : ~InSend(w'[q].queue[j], a)
    BY DEF Closers, RedisLast
  <2>1. q # p /\ w'[q] = w[q]
    BY <1>1
  <2>2. home[a] = q /\ stage[a] \in After(w[q].queue[i].call)
    BY <2>1 DEF RedisInv, Closers
  <2>3. home'[a] = q /\ stage'[a] \in {stage[a], "dead"}
    BY <2>1, <2>2 DEF Died
  <2>4. stage'[a] = w[q].queue[i].call => stage[a] = stage'[a]
    BY <2>1, <2>3 DEF ClosedBy, Closings
  <2> QED BY <2>1, <2>2, <2>3, <2>4 DEF RedisInv, RedisLast, After
<1> QED BY <1>2, <1>3, <1>5, <1>6 DEF RedisInv

(* The head of a queue is dealt with: the call that awaited it settles.    *)
LEMMA RedisAttempted ==
  ASSUME RedisInv, NEW p \in Replica, NEW ok \in BOOLEAN, w[p].queue # <<>>,
         ~Takes(w[p].queue[1]), Redis!Attempted(p, ok)
  PROVE  RedisInv'
<1> DEFINE send == w[p].queue[1]
           settles == send.by # "tail" /\ stage[send.by] = send.call
           raises == settles /\ ok /\ w[p].failure
           left == UNION {ToSet(part) : part \in ToSet(send.parts)}
<1>1. /\ w \in [Replica -> RedisWrites] /\ w[p] \in RedisWrites /\ w[p].queue \in Seq(Sent)
      /\ send \in Sent /\ send.frames \in Seq(Frame) /\ send.parts \in Seq(Seq(Frame))
      /\ w[p].failure \in BOOLEAN
  <2>1. w \in [Replica -> RedisWrites] /\ w[p] \in RedisWrites
    BY DEF RedisInv, RedisTypes
  <2>2. w[p].queue \in Seq(Sent) /\ w[p].failure \in BOOLEAN
    BY <2>1 DEF RedisWrites
  <2>3. send \in Sent
    BY <2>2, Shorter
  <2> QED BY <2>1, <2>2, <2>3 DEF Sent
<1>2. /\ w' = [w EXCEPT ![p].queue = Tail(@),
                        ![p].failure = IF raises THEN FALSE
                                       ELSE @ \/ (send.by = "tail" /\ ~ok)]
      /\ missed' = [missed EXCEPT ![p] = IF raises THEN {}
                      ELSE IF send.by = "tail" /\ ~ok THEN @ \cup left ELSE @]
      /\ UNCHANGED <<home, clock>>
  BY DEF Redis!Attempted, Redis!Sending, Redis!Nobody, Redis!ToSet, ToSet
<1>3. IF settles THEN Redis!Settles(send.by, send.call, ok /\ ~raises) ELSE UNCHANGED <<stage, refused>>
  BY DEF Redis!Attempted, Redis!Sending, Redis!Nobody
<1>t. \A frame \in left : frame \in Frame /\ \E k \in 1 .. Len(send.parts) : By(frame.by, send.parts[k])
  <2> TAKE frame \in left
  <2>1. PICK k \in 1 .. Len(send.parts) : frame \in ToSet(send.parts[k])
    <3>1. PICK part \in ToSet(send.parts) : frame \in ToSet(part)
      OBVIOUS
    <3>2. PICK k \in DOMAIN send.parts : part = send.parts[k]
      BY <3>1 DEF ToSet
    <3>3. DOMAIN send.parts = 1 .. Len(send.parts)
      BY <1>1
    <3> QED BY <3>1, <3>2, <3>3
  <2>2. send.parts[k] \in Seq(Frame)
    BY <1>1
  <2>3. PICK i \in 1 .. Len(send.parts[k]) : frame = send.parts[k][i]
    <3> DEFINE part == send.parts[k]
    <3>1. frame \in ToSet(part) /\ part \in Seq(Frame)
      BY <2>1, <2>2
    <3> HIDE DEF part
    <3>2. DOMAIN part = 1 .. Len(part)
      BY <3>1
    <3>3. \E i \in 1 .. Len(part) : frame = part[i]
      BY <3>1, <3>2, Zenon DEF ToSet
    <3> QED BY <3>3 DEF part
  <2>4. frame \in Frame
    BY <2>2, <2>3
  <2>5. By(frame.by, send.parts[k])
    BY <2>3 DEF By
  <2> QED BY <2>4, <2>5
<1> HIDE DEF left
<1>4. /\ w'[p].text = w[p].text /\ w'[p].queue = Tail(w[p].queue)
      /\ w'[p].flushQueued = w[p].flushQueued
      /\ w'[p].failure = IF raises THEN FALSE ELSE w[p].failure \/ (send.by = "tail" /\ ~ok)
      /\ w' \in [Replica -> RedisWrites]
      /\ \A q \in Replica : q # p => w'[q] = w[q]
  BY <1>1, <1>2, Shorter DEF RedisWrites
<1>5. /\ missed' \in [Replica -> SUBSET Frame]
      /\ \A q \in Replica : q # p => missed'[q] = missed[q]
      /\ missed'[p] = IF raises THEN {}
                      ELSE IF send.by = "tail" /\ ~ok THEN missed[p] \cup left
                      ELSE missed[p]
  BY <1>2, <1>t DEF RedisInv, RunTypes
<1>6. /\ stage' \in [Writer -> Stage] /\ refused \subseteq refused' /\ refused' \subseteq Writer
      /\ \A a \in Writer : stage'[a] # stage[a]
           => settles /\ a = send.by /\ stage[a] = send.call
      /\ \A a \in Writer : stage'[a] # stage[a] /\ stage'[a] \in {"done", "joined"} /\ a \notin refused'
           => ok /\ ~raises /\ send.call \in Closings
      /\ \A a \in Writer : stage'[a] # stage[a]
           => /\ stage[a] \in {"write"} \cup Closings
              /\ stage'[a] \in {"done", "failed", "framed"} /\ (stage[a] \in {"fail", "flush"} => stage'[a] = "done")
      /\ \A a \in Writer : stage'[a] = "framed" => stage[a] \in {"framed", "write"}
  <2>1. CASE settles
    <3>1. send.by \in Writer /\ send.call \in {"write"} \cup Closings
      BY <1>1, <2>1 DEF Sent, RedisInv, RunTypes, Stage
    <3> QED BY <1>1, <1>3, <2>1, <3>1, ZenonT(60) DEF Redis!Settles, RedisInv, RunTypes, Stage, Closings
  <2>2. CASE ~settles
    BY <1>3, <2>2 DEF RedisInv, RunTypes
  <2> QED BY <2>1, <2>2
<1>7. RunTypes' /\ RedisTypes'
  BY <1>2, <1>4, <1>5, <1>6, Zenon DEF RunTypes, RedisInv, RedisTypes
<1>8. Kept'
  BY <1>4, <1>5 DEF Kept, RedisInv
<1>9. \A q \in Replica : \A i \in 1 .. Len(w'[q].queue) :
        LET j == IF q = p THEN i + 1 ELSE i
        IN  j \in 1 .. Len(w[q].queue) /\ w'[q].queue[i] = w[q].queue[j]
  <2> TAKE q \in Replica
  <2>1. CASE q = p
    <3>1. w'[q].queue = Tail(w[p].queue)
      BY <1>4, <2>1
    <3> HIDE DEF send
    <3> QED BY <1>1, <2>1, <3>1, Shorter
  <2>2. CASE q # p
    BY <1>4, <2>2
  <2> QED BY <2>1, <2>2
<1>s. \A k \in 1 .. Len(w[p].queue) : k # 1 =>
        k - 1 \in 1 .. Len(w'[p].queue) /\ w'[p].queue[k - 1] = w[p].queue[k]
  BY <1>1, <1>4, Shorter, SMTT(30)
<1>10. ASSUME NEW q \in Replica, NEW a \in Writer, RedisHeld(q, a)'
       PROVE  RedisHeld(q, a)
  <2>1. CASE Lost(q, a)'
    <3>1. PICK frame \in missed'[q] : frame.by = a
      BY <2>1 DEF Lost
    <3>2. CASE frame \in missed[q]
      BY <3>1, <3>2 DEF Lost, RedisHeld
    <3>3. CASE q = p /\ frame \in left
      <4>1. InSend(send, a) /\ 1 \in 1 .. Len(w[p].queue)
        <5>1. \E k \in 1 .. Len(send.parts) : By(a, send.parts[k])
          BY <1>t, <3>1, <3>3
        <5>2. w[p].queue \in Seq(Sent)
          BY <1>1
        <5>3. 1 \in 1 .. Len(w[p].queue)
          BY <5>2, Shorter
        <5> QED BY <5>1, <5>3 DEF InSend
      <4> QED BY <3>3, <4>1 DEF RedisHeld
    <3> QED BY <1>5, <3>1, <3>2, <3>3
  <2>2. CASE By(a, w'[q].text)
    BY <1>4, <2>2 DEF RedisHeld
  <2>3. CASE \E i \in 1 .. Len(w'[q].queue) : InSend(w'[q].queue[i], a)
    BY <1>9, <2>3 DEF RedisHeld
  <2> QED BY <1>10, <2>1, <2>2, <2>3, RedisHoldsNext
<1>11. ASSUME NEW a \in Writer, Through(a)', ~Through(a)
       PROVE  \A q \in Replica : ~RedisHeld(q, a)'
  <2>1. stage'[a] # stage[a]
    BY <1>6, <1>11 DEF Through
  <2>2. ok /\ ~raises /\ send.call \in Closings /\ settles /\ a = send.by /\ stage[a] = send.call
    BY <1>6, <1>11, <2>1 DEF Through
  <2>3. ~w[p].failure /\ missed[p] = {} /\ missed'[p] = {}
    BY <1>1, <1>5, <2>2 DEF RedisInv, Kept, Closings
  <2>4. ClosedBy(send, a) /\ 1 \in 1 .. Len(w[p].queue)
    BY <1>1, <2>2, Shorter DEF ClosedBy
  <2>5. home[a] = p
    BY <2>4 DEF RedisInv, Closers
  <2>6. /\ By(a, w[p].text) => \E j \in 1 .. 1 : Takes(w[p].queue[j])
        /\ \A j \in 1 + 1 .. Len(w[p].queue) : ~InSend(w[p].queue[j], a)
    BY <2>2, <2>4 DEF RedisInv, RedisLast
  <2>7. ~By(a, w[p].text) /\ \A j \in 2 .. Len(w[p].queue) : ~InSend(w[p].queue[j], a)
    BY <2>6
  <2>8. ~RedisHeld(p, a)'
    <3>1. \A i \in 1 .. Len(w'[p].queue) : i + 1 \in 2 .. Len(w[p].queue) /\ w'[p].queue[i] = w[p].queue[i + 1]
      BY <1>1, <1>4, Shorter
    <3>2. ~Lost(p, a)'
      BY <2>3 DEF Lost
    <3>3. \A i \in 1 .. Len(w'[p].queue) : ~InSend(w'[p].queue[i], a)
      BY <2>7, <3>1
    <3>4. ~By(a, w'[p].text)
      BY <1>4, <2>7
    <3> QED BY <3>2, <3>3, <3>4 DEF RedisHeld, By, InSend
  <2> QED BY <1>10, <2>5, <2>8 DEF RedisInv, RedisOwn
<1>12. RedisOwn'
  BY <1>2, <1>10, <1>11 DEF RedisInv, RedisOwn
<1>13. Closers'
  <2> SUFFICES ASSUME NEW q \in Replica, NEW a \in Writer, NEW i \in 1 .. Len(w'[q].queue),
                      ClosedBy(w'[q].queue[i], a)
               PROVE  home'[a] = q /\ stage'[a] \in After(w'[q].queue[i].call)
    BY DEF Closers, ClosedBy
  <2>1. PICK k \in 1 .. Len(w[q].queue) : w'[q].queue[i] = w[q].queue[k]
    BY <1>9
  <2>2. home[a] = q /\ stage[a] \in After(w[q].queue[k].call)
    BY <2>1 DEF RedisInv, Closers
  <2>3. CASE stage'[a] = stage[a]
    BY <1>2, <2>1, <2>2, <2>3
  <2>4. CASE stage'[a] # stage[a]
    <3>1. \/ stage[a] \in {"fail", "flush"} /\ stage'[a] = "done"
          \/ /\ stage[a] = "end" /\ stage'[a] \in {"done", "failed"}
             /\ w[q].queue[k].call = "end"
      BY <1>6, <2>2, <2>4 DEF After, Closings
    <3> QED BY <1>2, <2>1, <2>2, <3>1 DEF After
  <2> QED BY <2>3, <2>4
<1>14. RedisLast'
  <2> SUFFICES ASSUME NEW q \in Replica, NEW a \in Writer, NEW i \in 1 .. Len(w'[q].queue),
                      ClosedBy(w'[q].queue[i], a), stage'[a] = w'[q].queue[i].call
               PROVE  /\ By(a, w'[q].text) => \E j \in 1 .. i : Takes(w'[q].queue[j])
                      /\ \A j \in i + 1 .. Len(w'[q].queue) : ~InSend(w'[q].queue[j], a)
    BY DEF RedisLast
  <2>1. stage'[a] = stage[a]
    BY <1>6 DEF ClosedBy, Closings
  <2>2. PICK k \in 1 .. Len(w[q].queue) :
          w'[q].queue[i] = w[q].queue[k] /\ k = IF q = p THEN i + 1 ELSE i
    BY <1>9
  <2>3. /\ By(a, w[q].text) => \E j \in 1 .. k : Takes(w[q].queue[j])
        /\ \A j \in k + 1 .. Len(w[q].queue) : ~InSend(w[q].queue[j], a)
    BY <2>1, <2>2 DEF RedisInv, RedisLast
  <2>n. w'[q] \in RedisWrites /\ Len(w'[q].queue) \in Nat /\ Len(w[q].queue) \in Nat
    BY <1>1, <1>4 DEF RedisWrites
  <2>4. ASSUME NEW j \in i + 1 .. Len(w'[q].queue)
        PROVE  ~InSend(w'[q].queue[j], a)
    <3>2. j \in 1 .. Len(w'[q].queue) /\ j \in Nat /\ i \in Nat
      BY <2>n
    <3>3. PICK m \in 1 .. Len(w[q].queue) :
            w'[q].queue[j] = w[q].queue[m] /\ m = IF q = p THEN j + 1 ELSE j
      BY <1>9, <3>2
    <3>4. m \in k + 1 .. Len(w[q].queue)
      BY <2>2, <3>2, <3>3
    <3> QED BY <2>3, <3>3, <3>4
  <2>5. ASSUME By(a, w'[q].text)
        PROVE  \E j \in 1 .. i : Takes(w'[q].queue[j])
    <3>1. By(a, w[q].text)
      BY <1>4, <2>5
    <3>2. PICK j \in 1 .. k : Takes(w[q].queue[j])
      BY <2>3, <3>1
    <3>3. CASE q # p
      BY <1>4, <2>2, <3>2, <3>3
    <3>4. CASE q = p
      <4>1. j # 1 /\ j \in 1 .. Len(w[p].queue)
        BY <2>2, <2>n, <3>2, <3>4
      <4>2. w'[p].queue[j - 1] = w[p].queue[j] /\ j - 1 \in 1 .. i
        <5>1. k = i + 1 /\ j \in Nat /\ i \in Nat
          BY <2>2, <2>n, <3>2, <3>4
        <5>2. j - 1 \in 1 .. i
          BY <3>2, <4>1, <5>1
        <5> QED BY <1>s, <4>1, <5>2
      <4> QED BY <3>2, <3>4, <4>2
    <3> QED BY <3>3, <3>4
  <2> QED BY <2>4, <2>5
<1>15. Drained'
  <2> SUFFICES ASSUME NEW q \in Replica
               PROVE  /\ w'[q].text # <<>> => w'[q].flushQueued
                      /\ w'[q].flushQueued => \E i \in 1 .. Len(w'[q].queue) :
                           w'[q].queue[i].kind = "text" /\ w'[q].queue[i].step = "queued"
    BY DEF Drained
  <2>1. w'[q].text = w[q].text /\ w'[q].flushQueued = w[q].flushQueued
    BY <1>4
  <2>2. ASSUME w[q].flushQueued
        PROVE  \E i \in 1 .. Len(w'[q].queue) :
                 w'[q].queue[i].kind = "text" /\ w'[q].queue[i].step = "queued"
    <3>1. PICK i \in 1 .. Len(w[q].queue) : w[q].queue[i].kind = "text" /\ w[q].queue[i].step = "queued"
      BY <2>2 DEF RedisInv, Drained
    <3>2. CASE q # p
      BY <1>4, <3>1, <3>2
    <3>3. CASE q = p
      BY <1>s, <3>1, <3>3 DEF Takes
    <3> QED BY <3>2, <3>3
  <2> QED BY <2>1, <2>2 DEF RedisInv, Drained
<1>16. Pushes'
  <2> SUFFICES ASSUME NEW q \in Replica, NEW i \in 1 .. Len(w'[q].queue)
               PROVE  w'[q].queue[i].step = "push" => w'[q].queue[i].parts # <<>>
    BY DEF Pushes
  <2>1. PICK k \in 1 .. Len(w[q].queue) : w'[q].queue[i] = w[q].queue[k]
    BY <1>9
  <2> QED BY <2>1 DEF RedisInv, Pushes
<1> QED BY <1>7, <1>8, <1>12, <1>13, <1>14, <1>15, <1>16 DEF RedisInv

LEMMA RedisRaiseFirst ==
  ASSUME RedisInv, NEW a \in Writer, Redis!RaiseFirst(a)
  PROVE  RedisInv'
<1> DEFINE p == home[a]
<1>1. /\ p \in Replica /\ stage[a] \in {"run", "framed", "failed", "again"}
      /\ w' = [w EXCEPT ![p].failure = FALSE] /\ missed' = [missed EXCEPT ![p] = {}]
      /\ UNCHANGED <<home, clock>>
      /\ \A b \in Writer \ {a} : stage'[b] = stage[b]
      /\ stage' \in [Writer -> Stage] /\ refused \subseteq refused' /\ refused' \subseteq Writer
      /\ \/ stage'[a] = "failed"
         \/ stage'[a] = "done" /\ a \in refused'
  <2>1. p \in Replica
    BY DEF RedisInv, RunTypes
  <2>2. /\ w' = [w EXCEPT ![p].failure = FALSE] /\ missed' = [missed EXCEPT ![p] = {}]
        /\ UNCHANGED <<home, clock>>
    BY DEF Redis!RaiseFirst
  <2>3. CASE Redis!MayWrite(a) /\ Redis!Settles(a, "text", FALSE)
    BY <2>1, <2>2, <2>3 DEF Redis!MayWrite, Redis!Settles, RedisInv, RunTypes, Stage
  <2>4. CASE Redis!MayClose(a) /\ Redis!Settles(a, Redis!Closing(a), FALSE)
             /\ Redis!Closing(a) \in {"end", "fail"}
    BY <2>1, <2>2, <2>4 DEF Redis!MayClose, Redis!Settles, RedisInv, RunTypes, Stage
  <2> QED BY <2>3, <2>4 DEF Redis!RaiseFirst, Redis!Closing
<1> HIDE DEF p
<1>2. /\ w' \in [Replica -> RedisWrites] /\ missed' \in [Replica -> SUBSET Frame]
      /\ missed'[p] = {}
      /\ \A q \in Replica : /\ w'[q].text = w[q].text /\ w'[q].queue = w[q].queue
                            /\ w'[q].flushQueued = w[q].flushQueued
                            /\ q # p => w'[q] = w[q] /\ missed'[q] = missed[q]
  BY <1>1, Zenon DEF RedisInv, RunTypes, RedisTypes, RedisWrites
<1>3. RunTypes' /\ RedisTypes' /\ Kept'
  BY <1>1, <1>2 DEF RedisInv, RunTypes, RedisTypes, Kept
<1>4. ASSUME NEW q \in Replica, NEW b \in Writer, RedisHeld(q, b)'
      PROVE  RedisHeld(q, b)
  <2>1. CASE Lost(q, b)'
    BY <1>2, <2>1 DEF RedisHeld, Lost
  <2>2. CASE By(b, w'[q].text)
    BY <1>2, <2>2 DEF RedisHeld
  <2>3. CASE \E i \in 1 .. Len(w'[q].queue) : InSend(w'[q].queue[i], b)
    BY <1>2, <2>3 DEF RedisHeld
  <2> QED BY <1>4, <2>1, <2>2, <2>3, RedisHoldsNext
<1>5. \A b \in Writer : Through(b)' => Through(b)
  BY <1>1 DEF Through
<1>6. RedisOwn'
  BY <1>1, <1>4, <1>5 DEF RedisInv, RedisOwn
<1>7. Closers' /\ RedisLast'
  <2> SUFFICES ASSUME NEW q \in Replica, NEW b \in Writer, NEW i \in 1 .. Len(w'[q].queue),
                      ClosedBy(w'[q].queue[i], b)
               PROVE  /\ home'[b] = q /\ stage'[b] \in After(w'[q].queue[i].call)
                      /\ stage'[b] = w'[q].queue[i].call
                           => /\ By(b, w'[q].text) => \E j \in 1 .. i : Takes(w'[q].queue[j])
                              /\ \A j \in i + 1 .. Len(w'[q].queue) : ~InSend(w'[q].queue[j], b)
    BY DEF Closers, RedisLast
  <2>1. home[b] = q /\ stage[b] \in After(w[q].queue[i].call)
    BY <1>2 DEF RedisInv, Closers
  <2>2. stage'[b] \in After(w[q].queue[i].call)
    BY <1>1, <2>1 DEF After
  <2>3. stage'[b] = w[q].queue[i].call => stage'[b] = stage[b]
    BY <1>1, <1>2 DEF ClosedBy, Closings
  <2> QED BY <1>1, <1>2, <2>1, <2>2, <2>3 DEF RedisInv, RedisLast
<1>8. Drained' /\ Pushes'
  BY <1>2 DEF RedisInv, Drained, Pushes
<1> QED BY <1>3, <1>6, <1>7, <1>8 DEF RedisInv

(* Calls of the writers in C that gather text, or queue sends behind the   *)
(* others.                                                                 *)
Gathers(p, added, C) ==
  /\ w' \in [Replica -> RedisWrites]
  /\ \A q \in Replica : q # p => w'[q] = w[q]
  /\ w'[p].queue = w[p].queue \o added /\ w'[p].failure = w[p].failure
  /\ UNCHANGED <<missed, home, refused>> /\ RunTypes'
  /\ \A b \in Writer \ C : stage'[b] = stage[b]
  /\ \A b \in C : /\ home[b] = p
                  /\ stage[b] \in {"run", "framed", "failed", "again"}
                  /\ stage'[b] \in {"run", "write"} \cup Closings
                  /\ stage[b] = "failed" => stage'[b] \in {"fail", "flush"}
  /\ \A b \in Writer : By(b, w'[p].text) => By(b, w[p].text) \/ (b \in C /\ stage'[b] = "run")
  /\ w'[p].text # <<>> => w'[p].flushQueued
  /\ w'[p].flushQueued => \/ w[p].flushQueued
                          \/ \E i \in 1 .. Len(added) : added[i].kind = "text" /\ added[i].step = "queued"
  /\ \A i \in 1 .. Len(added) : added[i].step = "queued"
  /\ \A b \in Writer : \A i \in 1 .. Len(added) :
       /\ InSend(added[i], b) => b \in C /\ stage'[b] = "write"
       /\ ClosedBy(added[i], b) => /\ b \in C /\ added[i].call = stage'[b] /\ i = Len(added)
                                   /\ w'[p].flushQueued \/ Takes(added[i])

LEMMA RedisGathered ==
  ASSUME RedisInv, NEW p \in Replica, NEW added \in Seq(Sent), NEW C \in SUBSET Writer,
         Gathers(p, added, C)
  PROVE  RedisInv'
<1>a. /\ w' \in [Replica -> RedisWrites]
      /\ \A q \in Replica : q # p => w'[q] = w[q]
      /\ w'[p].queue = w[p].queue \o added /\ w'[p].failure = w[p].failure
      /\ UNCHANGED <<missed, home, refused>> /\ RunTypes'
  BY DEF Gathers
<1>b. /\ \A b \in Writer \ C : stage'[b] = stage[b]
      /\ \A b \in C : /\ home[b] = p
                      /\ stage[b] \in {"run", "framed", "failed", "again"}
                      /\ stage'[b] \in {"run", "write"} \cup Closings
                      /\ stage[b] = "failed" => stage'[b] \in {"fail", "flush"}
  BY DEF Gathers
<1>c. /\ \A b \in Writer : By(b, w'[p].text) => By(b, w[p].text) \/ (b \in C /\ stage'[b] = "run")
      /\ w'[p].text # <<>> => w'[p].flushQueued
      /\ w'[p].flushQueued => \/ w[p].flushQueued
                              \/ \E i \in 1 .. Len(added) : added[i].kind = "text" /\ added[i].step = "queued"
      /\ \A i \in 1 .. Len(added) : added[i].step = "queued"
  BY DEF Gathers
<1>d. \A b \in Writer : \A i \in 1 .. Len(added) :
        /\ InSend(added[i], b) => b \in C /\ stage'[b] = "write"
        /\ ClosedBy(added[i], b) => /\ b \in C /\ added[i].call = stage'[b] /\ i = Len(added)
                                    /\ w'[p].flushQueued \/ Takes(added[i])
  BY DEF Gathers
<1>1. \A q \in Replica : /\ w[q] \in RedisWrites /\ w[q].queue \in Seq(Sent) /\ Len(w[q].queue) \in Nat
                         /\ w'[q] \in RedisWrites /\ w'[q].queue \in Seq(Sent) /\ Len(w'[q].queue) \in Nat
  BY <1>a DEF RedisInv, RedisTypes, RedisWrites
<1>2. Len(added) \in Nat /\ Len(w'[p].queue) = Len(w[p].queue) + Len(added)
  BY <1>1, <1>a, Joined
<1>3. RedisTypes' /\ Kept'
  BY <1>a DEF RedisInv, RedisTypes, Kept
<1>o. ASSUME NEW q \in Replica, NEW i \in 1 .. Len(w[q].queue)
      PROVE  w'[q].queue[i] = w[q].queue[i] /\ i \in 1 .. Len(w'[q].queue)
  <2>1. CASE q = p
    BY <1>1, <1>2, <1>a, <2>1, Joined
  <2>2. CASE q # p
    BY <1>a, <2>2
  <2> QED BY <2>1, <2>2
<1>n. ASSUME NEW k \in 1 .. Len(added)
      PROVE  /\ w'[p].queue[Len(w[p].queue) + k] = added[k]
             /\ Len(w[p].queue) + k \in 1 .. Len(w'[p].queue)
  BY <1>1, <1>2, <1>a, Joined
<1>4. ASSUME NEW q \in Replica, NEW i \in 1 .. Len(w'[q].queue)
      PROVE  \/ i \in 1 .. Len(w[q].queue) /\ w'[q].queue[i] = w[q].queue[i]
             \/ /\ q = p /\ i - Len(w[p].queue) \in 1 .. Len(added)
                /\ w'[q].queue[i] = added[i - Len(w[p].queue)]
  <2>1. CASE i \in 1 .. Len(w[q].queue)
    BY <1>o, <2>1
  <2>2. CASE i \notin 1 .. Len(w[q].queue)
    <3>1. q = p
      BY <1>a, <2>2
    <3> DEFINE k == i - Len(w[p].queue)
    <3>2. k \in 1 .. Len(added) /\ Len(w[p].queue) + k = i
      <4>1. i \notin 1 .. Len(w[p].queue) /\ i \in 1 .. Len(w[p].queue) + Len(added)
        BY <1>2, <1>4, <2>2, <3>1
      <4>2. Len(w[p].queue) \in Nat /\ Len(added) \in Nat
        BY <1>1, <1>2
      <4> QED BY <4>1, <4>2
    <3>3. w'[p].queue[Len(w[p].queue) + k] = added[k]
      BY <1>n, <3>2, Zenon
    <3> QED BY <3>1, <3>2, <3>3
  <2> QED BY <2>1, <2>2
<1>5. ASSUME NEW q \in Replica, NEW b \in Writer, RedisHeld(q, b)'
      PROVE  RedisHeld(q, b) \/ (b \in C /\ q = p)
  <2>1. CASE Lost(q, b)'
    BY <1>a, <2>1 DEF RedisHeld, Lost
  <2>2. CASE By(b, w'[q].text)
    BY <1>a, <1>c, <2>2 DEF RedisHeld
  <2>3. CASE \E i \in 1 .. Len(w'[q].queue) : InSend(w'[q].queue[i], b)
    <3>1. PICK i \in 1 .. Len(w'[q].queue) : InSend(w'[q].queue[i], b)
      BY <2>3
    <3>2. CASE i \in 1 .. Len(w[q].queue) /\ w'[q].queue[i] = w[q].queue[i]
      BY <3>1, <3>2 DEF RedisHeld
    <3>3. CASE q = p /\ i - Len(w[p].queue) \in 1 .. Len(added) /\ w'[q].queue[i] = added[i - Len(w[p].queue)]
      BY <1>d, <3>1, <3>3
    <3> QED BY <1>4, <3>2, <3>3
  <2> QED BY <1>5, <2>1, <2>2, <2>3, RedisHoldsNext
<1>6. \A b \in Writer : Through(b)' => b \notin C /\ Through(b)
  BY <1>a, <1>b DEF Through, Closings
<1>7. RedisOwn'
  BY <1>a, <1>b, <1>5, <1>6 DEF RedisInv, RedisOwn
<1>8. ASSUME NEW q \in Replica, NEW b \in Writer, NEW i \in 1 .. Len(w[q].queue), ClosedBy(w[q].queue[i], b)
      PROVE  /\ home'[b] = q /\ stage'[b] \in After(w[q].queue[i].call)
             /\ stage'[b] = w[q].queue[i].call => b \notin C /\ stage[b] = stage'[b]
  <2>1. home[b] = q /\ stage[b] \in After(w[q].queue[i].call)
    BY <1>8 DEF RedisInv, Closers
  <2> QED BY <1>a, <1>b, <2>1 DEF After, Closings
<1>9. Closers'
  <2> SUFFICES ASSUME NEW q \in Replica, NEW b \in Writer, NEW i \in 1 .. Len(w'[q].queue),
                      ClosedBy(w'[q].queue[i], b)
               PROVE  home'[b] = q /\ stage'[b] \in After(w'[q].queue[i].call)
    BY DEF Closers, ClosedBy
  <2>1. CASE i \in 1 .. Len(w[q].queue) /\ w'[q].queue[i] = w[q].queue[i]
    BY <1>8, <2>1
  <2>2. CASE q = p /\ i - Len(w[p].queue) \in 1 .. Len(added) /\ w'[q].queue[i] = added[i - Len(w[p].queue)]
    <3> DEFINE k == i - Len(w[p].queue)
    <3>1. b \in C /\ added[k].call = stage'[b] /\ added[k].call \in Closings
      BY <1>d, <2>2 DEF ClosedBy
    <3> QED BY <1>a, <1>b, <2>2, <3>1 DEF After, Closings
  <2> QED BY <1>4, <2>1, <2>2
<1>10. ASSUME NEW q \in Replica, w'[q].flushQueued
       PROVE  \E i \in 1 .. Len(w'[q].queue) : w'[q].queue[i].kind = "text" /\ w'[q].queue[i].step = "queued"
  <2>1. CASE w[q].flushQueued
    <3>1. PICK i \in 1 .. Len(w[q].queue) : w[q].queue[i].kind = "text" /\ w[q].queue[i].step = "queued"
      BY <2>1 DEF RedisInv, Drained
    <3> QED BY <1>o, <3>1
  <2>2. CASE q = p /\ \E i \in 1 .. Len(added) : added[i].kind = "text" /\ added[i].step = "queued"
    BY <1>n, <2>2
  <2> QED BY <1>a, <1>c, <1>10, <2>1, <2>2
<1>11. Drained'
  BY <1>a, <1>c, <1>10 DEF RedisInv, Drained
<1>12. RedisLast'
  <2> SUFFICES ASSUME NEW q \in Replica, NEW b \in Writer, NEW i \in 1 .. Len(w'[q].queue),
                      ClosedBy(w'[q].queue[i], b), stage'[b] = w'[q].queue[i].call
               PROVE  /\ By(b, w'[q].text) => \E j \in 1 .. i : Takes(w'[q].queue[j])
                      /\ \A j \in i + 1 .. Len(w'[q].queue) : ~InSend(w'[q].queue[j], b)
    BY DEF RedisLast
  <2>1. CASE i \in 1 .. Len(w[q].queue) /\ w'[q].queue[i] = w[q].queue[i]
    <3>1. b \notin C /\ stage[b] = w[q].queue[i].call
      BY <1>8, <2>1
    <3>2. /\ By(b, w[q].text) => \E j \in 1 .. i : Takes(w[q].queue[j])
          /\ \A j \in i + 1 .. Len(w[q].queue) : ~InSend(w[q].queue[j], b)
      BY <2>1, <3>1 DEF RedisInv, RedisLast
    <3>3. ASSUME By(b, w'[q].text)
          PROVE  \E j \in 1 .. i : Takes(w'[q].queue[j])
      <4>1. By(b, w[q].text)
        BY <1>a, <1>c, <3>1, <3>3
      <4>2. PICK j \in 1 .. i : Takes(w[q].queue[j])
        BY <3>2, <4>1
      <4>3. j \in 1 .. Len(w[q].queue)
        BY <1>1, <2>1
      <4> QED BY <1>o, <4>2, <4>3
    <3>4. ASSUME NEW j \in i + 1 .. Len(w'[q].queue), InSend(w'[q].queue[j], b)
          PROVE  FALSE
      <4>1. j \in 1 .. Len(w'[q].queue)
        BY <1>1, <2>1
      <4>2. CASE j \in 1 .. Len(w[q].queue) /\ w'[q].queue[j] = w[q].queue[j]
        <5>1. j \in i + 1 .. Len(w[q].queue)
          BY <1>1, <4>2
        <5> QED BY <3>2, <3>4, <4>2, <5>1
      <4>3. CASE q = p /\ j - Len(w[p].queue) \in 1 .. Len(added) /\ w'[q].queue[j] = added[j - Len(w[p].queue)]
        BY <1>d, <3>1, <3>4, <4>3
      <4>4. \/ j \in 1 .. Len(w[q].queue) /\ w'[q].queue[j] = w[q].queue[j]
            \/ /\ q = p /\ j - Len(w[p].queue) \in 1 .. Len(added)
               /\ w'[q].queue[j] = added[j - Len(w[p].queue)]
        BY <1>4, <4>1
      <4> QED BY <4>2, <4>3, <4>4
    <3> QED BY <3>3, <3>4
  <2>2. CASE /\ q = p /\ i - Len(w[p].queue) \in 1 .. Len(added)
             /\ w'[q].queue[i] = added[i - Len(w[p].queue)]
    <3> DEFINE k == i - Len(w[p].queue)
    <3>1. k = Len(added) /\ (w'[p].flushQueued \/ Takes(added[k]))
      BY <1>d, <2>2
    <3>2. i = Len(w'[q].queue)
      BY <1>1, <1>2, <2>2, <3>1, SMTT(30)
    <3>3. \E j \in 1 .. i : Takes(w'[q].queue[j])
      <4>1. CASE w'[p].flushQueued
        BY <1>10, <2>2, <3>2, <4>1 DEF Takes
      <4>2. CASE Takes(added[k])
        BY <1>1, <2>2, <3>2, <4>2
      <4> QED BY <3>1, <4>1, <4>2
    <3> QED BY <1>1, <3>2, <3>3
  <2> QED BY <1>4, <2>1, <2>2
<1>13. Pushes'
  <2> SUFFICES ASSUME NEW q \in Replica, NEW i \in 1 .. Len(w'[q].queue)
               PROVE  w'[q].queue[i].step = "push" => w'[q].queue[i].parts # <<>>
    BY DEF Pushes
  <2>1. CASE i \in 1 .. Len(w[q].queue) /\ w'[q].queue[i] = w[q].queue[i]
    BY <2>1 DEF RedisInv, Pushes
  <2>2. CASE q = p /\ i - Len(w[p].queue) \in 1 .. Len(added) /\ w'[q].queue[i] = added[i - Len(w[p].queue)]
    BY <1>c, <2>2
  <2> QED BY <1>4, <2>1, <2>2
<1> QED BY <1>a, <1>3, <1>7, <1>9, <1>11, <1>12, <1>13 DEF RedisInv

(* What queueText() does to what a replica writes.                         *)
Queued(write) == IF write.flushQueued THEN <<>> ELSE <<Redis!TextSend>>

LEMMA TextQueued ==
  ASSUME NEW write \in RedisWrites
  PROVE  /\ Queued(write) \in Seq(Sent)
         /\ Redis!QueueText(write) \in RedisWrites
         /\ Redis!QueueText(write).queue = write.queue \o Queued(write)
         /\ Redis!QueueText(write).text = write.text
         /\ Redis!QueueText(write).failure = write.failure
         /\ Redis!QueueText(write).flushQueued
         /\ write.flushQueued \/ \E i \in 1 .. Len(Queued(write)) :
              Queued(write)[i].kind = "text" /\ Queued(write)[i].step = "queued"
         /\ \A i \in 1 .. Len(Queued(write)) :
              /\ Queued(write)[i].step = "queued"
              /\ \A b : ~InSend(Queued(write)[i], b) /\ ~ClosedBy(Queued(write)[i], b)
<1>1. write.queue \in Seq(Sent)
  BY DEF RedisWrites
<1>2. CASE write.flushQueued
  <2>1. write.queue \o <<>> = write.queue /\ <<>> \in Seq(Sent) /\ Len(<<>>) = 0
    BY <1>1
  <2>2. Redis!QueueText(write) = write /\ Queued(write) = <<>>
    BY <1>2 DEF Redis!QueueText, Queued
  <2>3. \A i \in 1 .. Len(<<>>) : FALSE
    BY <2>1
  <2> QED BY <1>2, <2>1, <2>2, <2>3
<1>3. CASE ~write.flushQueued
  <2> DEFINE send == Redis!TextSend
             added == <<send>>
  <2>1. /\ send \in Sent /\ send.kind = "text" /\ send.step = "queued" /\ send.call = "text"
        /\ send.frames = <<>> /\ send.parts = <<>>
    <3>1. <<>> \in Seq(Frame) /\ <<>> \in Seq(Seq(Frame))
      OBVIOUS
    <3> QED BY <3>1 DEF Redis!TextSend, Redis!Send, Redis!Nobody, Sent, Kinds, Steps
  <2>2. \A b : ~InSend(send, b) /\ ~ClosedBy(send, b)
    BY <2>1, NothingBy DEF InSend, ClosedBy, Closings
  <2>3. /\ Redis!QueueText(write) = [write EXCEPT !.flushQueued = TRUE, !.queue = Append(@, send)]
        /\ Queued(write) = added
    BY <1>3 DEF Redis!QueueText, Queued
  <2> HIDE DEF send
  <2>4. added \in Seq(Sent) /\ Len(added) = 1 /\ added[1] = send
    BY <2>1
  <2>5. Append(write.queue, send) = write.queue \o added /\ Append(write.queue, send) \in Seq(Sent)
    BY <1>1, <2>1
  <2>6. /\ Redis!QueueText(write) \in RedisWrites
        /\ Redis!QueueText(write).queue = write.queue \o added
        /\ Redis!QueueText(write).text = write.text
        /\ Redis!QueueText(write).failure = write.failure
        /\ Redis!QueueText(write).flushQueued
    BY <2>3, <2>5 DEF RedisWrites
  <2> HIDE DEF added
  <2>7. \A i \in 1 .. Len(added) : added[i] = send
    BY <2>4
  <2>8. 1 \in 1 .. Len(added)
    BY <2>4
  <2> QED BY <2>1, <2>2, <2>3, <2>4, <2>6, <2>7, <2>8
<1> QED BY <1>2, <1>3

LEMMA RedisWriteText ==
  ASSUME RedisInv, NEW a \in Writer, Redis!WriteText(a)
  PROVE  RedisInv'
<1> DEFINE p == home[a]
           f == NextFrame(a)
           write == [w[p] EXCEPT !.text = Append(@, f)]
           added == Queued(write)
<1>1. /\ p \in Replica /\ stage[a] \in {"run", "framed"}
      /\ stage' = [stage EXCEPT ![a] = "run"]
      /\ clock' = [clock EXCEPT ![a][a] = @ + 1]
      /\ UNCHANGED <<home, refused, missed>>
  BY DEF RedisInv, RunTypes, Redis!WriteText, Redis!MayWrite, Redis!Counted
<1>2. f \in Frame /\ f.by = a
  BY Framed DEF RedisInv
<1>3. /\ w[p] \in RedisWrites /\ w[p].text \in Seq(Frame) /\ w \in [Replica -> RedisWrites]
      /\ w' = [w EXCEPT ![p] = Redis!QueueText(write)]
  <2>1. w \in [Replica -> RedisWrites] /\ w[p] \in RedisWrites
    BY <1>1 DEF RedisInv, RedisTypes
  <2>3. w' = [w EXCEPT ![p] = Redis!QueueText(write)]
    <3>1. w' = [w EXCEPT ![home[a]] = Redis!QueueText([w[home[a]] EXCEPT !.text = Append(@, Redis!NextFrame(a))])]
      BY DEF Redis!WriteText
    <3>2. Redis!NextFrame(a) = f
      BY DEF Redis!NextFrame, NextFrame
    <3>3. [w[home[a]] EXCEPT !.text = Append(@, Redis!NextFrame(a))] = write
      BY <3>2
    <3> HIDE DEF write
    <3> QED BY <3>1, <3>3
  <2> QED BY <2>1, <2>3 DEF RedisWrites
<1> HIDE DEF p, f
<1>4. /\ write \in RedisWrites /\ write.text = Append(w[p].text, f) /\ write.queue = w[p].queue
      /\ write.failure = w[p].failure /\ write.flushQueued = w[p].flushQueued
  <2>1. Append(w[p].text, f) \in Seq(Frame)
    BY <1>2, <1>3, Appended
  <2> QED BY <1>3, <2>1 DEF RedisWrites
<1> HIDE DEF write
<1>5. /\ added \in Seq(Sent)
      /\ Redis!QueueText(write) \in RedisWrites
      /\ Redis!QueueText(write).queue = write.queue \o added
      /\ Redis!QueueText(write).text = write.text
      /\ Redis!QueueText(write).failure = write.failure
      /\ Redis!QueueText(write).flushQueued
      /\ write.flushQueued \/ \E i \in 1 .. Len(added) : added[i].kind = "text" /\ added[i].step = "queued"
      /\ \A i \in 1 .. Len(added) : /\ added[i].step = "queued"
                                    /\ \A b : ~InSend(added[i], b) /\ ~ClosedBy(added[i], b)
  BY <1>4, TextQueued
<1> HIDE DEF added
<1>6. /\ w' \in [Replica -> RedisWrites] /\ w'[p] = Redis!QueueText(write)
      /\ \A q \in Replica : q # p => w'[q] = w[q]
  BY <1>1, <1>3, <1>5
<1>7. RunTypes'
  BY <1>1 DEF RedisInv, RunTypes, Stage
<1>8. \A b \in Writer : By(b, w'[p].text) => By(b, w[p].text) \/ b = a
  <2>1. w'[p].text = Append(w[p].text, f)
    BY <1>4, <1>5, <1>6
  <2> QED BY <1>2, <1>3, <2>1, AppendBy
<1> DEFINE C == {a}
<1>9. /\ C \in SUBSET Writer /\ a \in C /\ stage'[a] = "run"
      /\ \A b \in Writer \ C : stage'[b] = stage[b]
      /\ \A b \in C : /\ home[b] = p
                      /\ stage[b] \in {"run", "framed", "failed", "again"}
                      /\ stage'[b] \in {"run", "write"} \cup Closings
                      /\ stage[b] = "failed" => stage'[b] \in {"fail", "flush"}
  BY <1>1 DEF RedisInv, RunTypes, p
<1> HIDE DEF C
<1>10. Gathers(p, added, C)
  BY <1>1, <1>4, <1>5, <1>6, <1>7, <1>8, <1>9 DEF Gathers
<1> QED BY <1>1, <1>5, <1>9, <1>10, RedisGathered

LEMMA RedisWriteFrame ==
  ASSUME RedisInv, NEW a \in Writer, Redis!WriteFrame(a)
  PROVE  RedisInv'
<1> DEFINE p == home[a]
           f == NextFrame(a)
           send == Redis!Send("frame", <<f>>, a, "write")
           added == <<send>>
<1>1. /\ p \in Replica /\ stage[a] \in {"run", "framed"}
      /\ w' = [w EXCEPT ![p].queue = Append(@, send)]
      /\ stage' = [stage EXCEPT ![a] = "write"]
      /\ clock' = [clock EXCEPT ![a][a] = @ + 1]
      /\ UNCHANGED <<home, refused, missed>>
  BY DEF RedisInv, RunTypes, Redis!WriteFrame, Redis!MayWrite, Redis!NextFrame, NextFrame, Redis!Counted
<1>2. f \in Frame /\ f.by = a
  BY Framed DEF RedisInv
<1> HIDE DEF p, f
<1>3. /\ send \in Sent /\ send.frames = <<f>> /\ send.call = "write" /\ send.step = "queued"
      /\ send.parts = <<>>
  <2>1. <<f>> \in Seq(Frame) /\ <<>> \in Seq(Seq(Frame))
    BY <1>2
  <2> QED BY <2>1 DEF Redis!Send, Sent, Kinds, Steps
<1>4. \A b : ~ClosedBy(send, b) /\ (InSend(send, b) => b = a)
  BY <1>2, <1>3, OneBy DEF ClosedBy, Closings, InSend
<1> HIDE DEF send
<1>5. added \in Seq(Sent) /\ Len(added) = 1 /\ added[1] = send
  BY <1>3
<1>6. w \in [Replica -> RedisWrites] /\ w[p] \in RedisWrites /\ w[p].queue \in Seq(Sent)
  BY <1>1 DEF RedisInv, RedisTypes, RedisWrites
<1>7. Append(w[p].queue, send) = w[p].queue \o added /\ Append(w[p].queue, send) \in Seq(Sent)
  BY <1>3, <1>6
<1> HIDE DEF added
<1>8. /\ w' \in [Replica -> RedisWrites] /\ w'[p].queue = w[p].queue \o added
      /\ w'[p].text = w[p].text /\ w'[p].failure = w[p].failure
      /\ w'[p].flushQueued = w[p].flushQueued
      /\ \A q \in Replica : q # p => w'[q] = w[q]
  BY <1>1, <1>6, <1>7 DEF RedisWrites
<1>9. RunTypes'
  BY <1>1 DEF RedisInv, RunTypes, Stage
<1> DEFINE C == {a}
<1>10. /\ C \in SUBSET Writer /\ a \in C /\ stage'[a] = "write"
       /\ \A b \in Writer \ C : stage'[b] = stage[b]
       /\ \A b \in C : /\ home[b] = p
                       /\ stage[b] \in {"run", "framed", "failed", "again"}
                       /\ stage'[b] \in {"run", "write"} \cup Closings
                       /\ stage[b] = "failed" => stage'[b] \in {"fail", "flush"}
  BY <1>1 DEF RedisInv, RunTypes, p
<1> HIDE DEF C
<1>11. w[p].text # <<>> => w[p].flushQueued
  BY <1>1 DEF RedisInv, Drained
<1>12. Gathers(p, added, C)
  BY <1>1, <1>3, <1>4, <1>5, <1>8, <1>9, <1>10, <1>11 DEF Gathers
<1> QED BY <1>1, <1>5, <1>10, <1>12, RedisGathered

LEMMA RedisClose ==
  ASSUME RedisInv, NEW a \in Writer, Redis!Close(a)
  PROVE  RedisInv'
<1> DEFINE p == home[a]
           call == Closing(a)
           send == Redis!Send(call, <<>>, a, call)
           queued == IF call = "flush" THEN Redis!QueueText(w[p]) ELSE w[p]
           ahead == IF call = "flush" THEN Queued(w[p]) ELSE <<>>
           added == ahead \o <<send>>
<1>1. /\ p \in Replica /\ stage[a] \in {"run", "framed", "failed", "again"}
      /\ stage' = [stage EXCEPT ![a] = call]
      /\ UNCHANGED <<home, clock, refused, missed>>
  BY DEF RedisInv, RunTypes, Redis!Close, Redis!MayClose, Redis!Closing, Closing
<1>2. call \in Closings /\ (stage[a] = "failed" => call \in {"fail", "flush"})
  BY DEF Closing, Closings
<1>3. w' = [w EXCEPT ![p] = [queued EXCEPT !.queue = Append(@, send)]]
  BY DEF Redis!Close, Redis!Closing, Closing
<1>4. w \in [Replica -> RedisWrites] /\ w[p] \in RedisWrites /\ w[p].queue \in Seq(Sent)
  BY <1>1 DEF RedisInv, RedisTypes, RedisWrites
<1>5. /\ send \in Sent /\ send.kind = call /\ send.call = call /\ send.by = a /\ send.step = "queued"
      /\ send.frames = <<>> /\ send.parts = <<>>
  <2>1. <<>> \in Seq(Frame) /\ <<>> \in Seq(Seq(Frame))
    OBVIOUS
  <2> QED BY <1>2, <2>1 DEF Redis!Send, Sent, Kinds, Steps, Closings
<1>6. \A b : ~InSend(send, b) /\ (ClosedBy(send, b) => b = a)
  BY <1>5, NothingBy DEF ClosedBy, InSend
<1> HIDE DEF p, call, send
<1>7. /\ queued \in RedisWrites /\ queued.queue = w[p].queue \o ahead
      /\ queued.text = w[p].text /\ queued.failure = w[p].failure
      /\ ahead \in Seq(Sent)
      /\ \A i \in 1 .. Len(ahead) : /\ ahead[i].step = "queued"
                                    /\ \A b : ~InSend(ahead[i], b) /\ ~ClosedBy(ahead[i], b)
      /\ queued.text # <<>> => queued.flushQueued
      /\ queued.flushQueued => \/ w[p].flushQueued
                               \/ \E i \in 1 .. Len(ahead) : ahead[i].kind = "text" /\ ahead[i].step = "queued"
      /\ queued.flushQueued \/ Takes(send)
  <2>1. CASE call = "flush"
    BY <1>4, <2>1, TextQueued
  <2>2. CASE call # "flush"
    <3>1. w[p].queue \o <<>> = w[p].queue /\ <<>> \in Seq(Sent) /\ \A i \in 1 .. Len(<<>>) : FALSE
      BY <1>4
    <3>2. w[p].text # <<>> => w[p].flushQueued
      BY <1>1 DEF RedisInv, Drained
    <3> QED BY <1>4, <1>5, <2>2, <3>1, <3>2 DEF Takes
  <2> QED BY <2>1, <2>2
<1> HIDE DEF queued, ahead
<1>8. /\ added \in Seq(Sent) /\ Len(ahead) \in Nat /\ Len(added) = Len(ahead) + 1
      /\ added[Len(ahead) + 1] = send
      /\ \A i \in 1 .. Len(ahead) : added[i] = ahead[i]
      /\ Append(queued.queue, send) = w[p].queue \o added
      /\ Append(queued.queue, send) \in Seq(Sent)
  <2> DEFINE one == <<send>>
  <2>1. one \in Seq(Sent) /\ Len(one) = 1 /\ one[1] = send
    BY <1>5
  <2>2. queued.queue \in Seq(Sent) /\ Append(queued.queue, send) = queued.queue \o one
    <3>1. queued.queue \in Seq(Sent)
      BY <1>7 DEF RedisWrites
    <3> QED BY <1>5, <3>1
  <2> HIDE DEF one
  <2>3. queued.queue \o one = w[p].queue \o (ahead \o one)
    <3>1. ASSUME NEW s \in Seq(Sent), NEW t \in Seq(Sent), NEW u \in Seq(Sent)
          PROVE  (s \o t) \o u = s \o (t \o u)
      BY Associates
    <3>2. (w[p].queue \o ahead) \o one = w[p].queue \o (ahead \o one)
      <4>1. w[p].queue \in Seq(Sent) /\ ahead \in Seq(Sent) /\ one \in Seq(Sent)
        BY <1>4, <1>7, <2>1
      <4> QED BY <4>1, <3>1, Zenon
    <3>3. queued.queue = w[p].queue \o ahead
      BY <1>7
    <3> QED BY <3>2, <3>3, Zenon
  <2>4. added = ahead \o one
    BY DEF one
  <2>5. /\ added \in Seq(Sent) /\ Len(ahead) \in Nat /\ Len(added) = Len(ahead) + 1
        /\ added[Len(ahead) + 1] = send
        /\ \A i \in 1 .. Len(ahead) : added[i] = ahead[i]
    BY <1>7, <2>1, <2>4, Joined
  <2> QED BY <1>5, <2>2, <2>3, <2>4, <2>5, Appended
<1> HIDE DEF added
<1>9. /\ w' \in [Replica -> RedisWrites] /\ w'[p].queue = w[p].queue \o added
      /\ w'[p].text = w[p].text /\ w'[p].failure = w[p].failure
      /\ w'[p].flushQueued = queued.flushQueued
      /\ \A q \in Replica : q # p => w'[q] = w[q]
  <2>1. w'[p] = [queued EXCEPT !.queue = w[p].queue \o added]
    BY <1>1, <1>3, <1>4, <1>8
  <2>2. /\ w'[p] \in RedisWrites /\ w'[p].queue = w[p].queue \o added
        /\ w'[p].text = queued.text /\ w'[p].failure = queued.failure
        /\ w'[p].flushQueued = queued.flushQueued
    <3>1. w[p].queue \o added \in Seq(Sent)
      BY <1>8
    <3> QED BY <1>7, <2>1, <3>1 DEF RedisWrites
  <2> QED BY <1>1, <1>3, <1>4, <1>7, <2>2
<1>10. RunTypes'
  BY <1>1, <1>2 DEF RedisInv, RunTypes, Stage, Closings
<1> DEFINE C == {a}
<1>11. /\ C \in SUBSET Writer /\ a \in C /\ stage'[a] = call
       /\ \A b \in Writer \ C : stage'[b] = stage[b]
       /\ \A b \in C : /\ home[b] = p
                       /\ stage[b] \in {"run", "framed", "failed", "again"}
                       /\ stage'[b] \in {"run", "write"} \cup Closings
                       /\ stage[b] = "failed" => stage'[b] \in {"fail", "flush"}
  BY <1>1, <1>2 DEF RedisInv, RunTypes, p
<1> HIDE DEF C
<1>12. ASSUME NEW i \in 1 .. Len(added)
       PROVE  /\ added[i].step = "queued"
              /\ \A b : ~InSend(added[i], b)
              /\ \A b : ClosedBy(added[i], b) =>
                   b = a /\ added[i].call = call /\ i = Len(added)
                   /\ (queued.flushQueued \/ Takes(added[i]))
  <2>1. CASE i \in 1 .. Len(ahead)
    BY <1>7, <1>8, <2>1
  <2>2. CASE i = Len(ahead) + 1
    BY <1>5, <1>6, <1>7, <1>8, <2>2
  <2> QED BY <1>8, <2>1, <2>2
<1>13. queued.flushQueued => \/ w[p].flushQueued
                             \/ \E i \in 1 .. Len(added) : added[i].kind = "text" /\ added[i].step = "queued"
  <2>1. \A i \in 1 .. Len(ahead) : i \in 1 .. Len(added) /\ added[i] = ahead[i]
    BY <1>8
  <2> QED BY <1>7, <2>1
<1>14. Gathers(p, added, C)
  <2>1. /\ \A b \in Writer : By(b, w'[p].text) => By(b, w[p].text) \/ (b \in C /\ stage'[b] = "run")
        /\ w'[p].text # <<>> => w'[p].flushQueued
        /\ w'[p].flushQueued => \/ w[p].flushQueued
                                \/ \E i \in 1 .. Len(added) : added[i].kind = "text" /\ added[i].step = "queued"
    BY <1>7, <1>9, <1>13
  <2>2. \A b \in Writer : \A i \in 1 .. Len(added) :
          /\ InSend(added[i], b) => b \in C /\ stage'[b] = "write"
          /\ ClosedBy(added[i], b) => /\ b \in C /\ added[i].call = stage'[b] /\ i = Len(added)
                                      /\ w'[p].flushQueued \/ Takes(added[i])
    <3> TAKE b \in Writer
    <3> TAKE i \in 1 .. Len(added)
    <3>1. ~InSend(added[i], b)
      BY <1>12
    <3>2. ASSUME ClosedBy(added[i], b)
          PROVE  /\ b \in C /\ added[i].call = stage'[b] /\ i = Len(added)
                 /\ w'[p].flushQueued \/ Takes(added[i])
      <4>1. /\ b = a /\ added[i].call = call /\ i = Len(added)
            /\ queued.flushQueued \/ Takes(added[i])
        BY <1>12, <3>2
      <4>2. w'[p].flushQueued = queued.flushQueued
        BY <1>9
      <4> QED BY <1>11, <4>1, <4>2
    <3> QED BY <3>1, <3>2
  <2> QED BY <1>1, <1>9, <1>10, <1>11, <1>12, <2>1, <2>2 DEF Gathers
<1> QED BY <1>1, <1>8, <1>11, <1>14, RedisGathered

(* The head of a queue takes the gathered text, or goes one command on.    *)
Moves(p, head) ==
  /\ w' \in [Replica -> RedisWrites]
  /\ \A q \in Replica : q # p => w'[q] = w[q]
  /\ w'[p].queue = [w[p].queue EXCEPT ![1] = head] /\ w'[p].failure = w[p].failure
  /\ head.by = w[p].queue[1].by /\ head.call = w[p].queue[1].call
  /\ head.step = "push" => head.parts # <<>>
  /\ \A b \in Writer : InSend(head, b) => InSend(w[p].queue[1], b) \/ By(b, w[p].text)
  /\ \/ /\ w'[p].text = w[p].text /\ w'[p].flushQueued = w[p].flushQueued
        /\ ~Takes(w[p].queue[1])
     \/ /\ w'[p].text = <<>>
        /\ w'[p].flushQueued => w[p].flushQueued /\ w[p].queue[1].kind # "text"

LEMMA RedisHead ==
  ASSUME RedisInv, NEW p \in Replica, w[p].queue # <<>>, NEW head \in Sent,
         Moves(p, head), UNCHANGED <<stage, home, clock, refused, missed>>
  PROVE  RedisInv'
<1>1. /\ w' \in [Replica -> RedisWrites]
      /\ \A q \in Replica : q # p => w'[q] = w[q]
      /\ w'[p].queue = [w[p].queue EXCEPT ![1] = head] /\ w'[p].failure = w[p].failure
      /\ head.by = w[p].queue[1].by /\ head.call = w[p].queue[1].call
      /\ head.step = "push" => head.parts # <<>>
      /\ \A b \in Writer : InSend(head, b) => InSend(w[p].queue[1], b) \/ By(b, w[p].text)
  BY DEF Moves
<1>2. \/ /\ w'[p].text = w[p].text /\ w'[p].flushQueued = w[p].flushQueued
         /\ ~Takes(w[p].queue[1])
      \/ /\ w'[p].text = <<>>
         /\ w'[p].flushQueued => w[p].flushQueued /\ w[p].queue[1].kind # "text"
  BY DEF Moves
<1>3. /\ w[p].queue \in Seq(Sent) /\ Len(w[p].queue) \in Nat /\ 1 \in 1 .. Len(w[p].queue)
      /\ Len(w'[p].queue) = Len(w[p].queue) /\ w'[p].queue[1] = head
      /\ \A i \in 1 .. Len(w[p].queue) : i # 1 => w'[p].queue[i] = w[p].queue[i]
  <2>1. w[p].queue \in Seq(Sent)
    BY DEF RedisInv, RedisTypes, RedisWrites
  <2>2. Len(w[p].queue) \in Nat /\ 1 \in 1 .. Len(w[p].queue)
    BY <2>1, Shorter
  <2> QED BY <1>1, <2>1, <2>2
<1>4. RunTypes' /\ RedisTypes'
  BY <1>1 DEF RedisInv, RunTypes, RedisTypes
<1>5. Kept'
  <2>1. \A q \in Replica : w'[q].failure = w[q].failure
    BY <1>1
  <2> QED BY <2>1 DEF RedisInv, Kept
<1>6. ASSUME NEW q \in Replica, NEW i \in 1 .. Len(w'[q].queue)
      PROVE  /\ i \in 1 .. Len(w[q].queue) /\ Len(w'[q].queue) = Len(w[q].queue)
             /\ w'[q].queue[i].by = w[q].queue[i].by /\ w'[q].queue[i].call = w[q].queue[i].call
             /\ \/ w'[q].queue[i] = w[q].queue[i]
                \/ q = p /\ i = 1
  <2>1. CASE q # p
    BY <1>1, <2>1
  <2>2. CASE q = p
    BY <1>1, <1>3, <2>2
  <2> QED BY <2>1, <2>2
<1>7. ASSUME NEW q \in Replica, NEW b \in Writer, RedisHeld(q, b)'
      PROVE  RedisHeld(q, b)
  <2>1. CASE Lost(q, b)'
    BY <2>1 DEF RedisHeld, Lost
  <2>2. CASE By(b, w'[q].text)
    <3>1. CASE q # p
      BY <1>1, <2>2, <3>1 DEF RedisHeld
    <3>2. CASE q = p
      BY <1>2, <2>2, <3>2, NothingBy DEF RedisHeld
    <3> QED BY <3>1, <3>2
  <2>3. CASE \E i \in 1 .. Len(w'[q].queue) : InSend(w'[q].queue[i], b)
    <3>1. PICK i \in 1 .. Len(w'[q].queue) : InSend(w'[q].queue[i], b)
      BY <2>3
    <3>2. CASE w'[q].queue[i] = w[q].queue[i]
      BY <1>6, <3>1, <3>2 DEF RedisHeld
    <3>3. CASE q = p /\ i = 1
      <4>1. InSend(w[p].queue[1], b) \/ By(b, w[p].text)
        BY <1>1, <1>3, <3>1, <3>3
      <4> QED BY <1>3, <3>3, <4>1 DEF RedisHeld
    <3> QED BY <1>6, <3>2, <3>3
  <2>4. \/ Lost(q, b)'
        \/ By(b, w'[q].text)
        \/ \E i \in 1 .. Len(w'[q].queue) : InSend(w'[q].queue[i], b)
    BY <1>7, RedisHoldsNext
  <2> QED BY <2>1, <2>2, <2>3, <2>4
<1>8. RedisOwn'
  BY <1>7 DEF RedisInv, RedisOwn, Through
<1>9. Closers' /\ RedisLast'
  <2> SUFFICES ASSUME NEW q \in Replica, NEW b \in Writer, NEW i \in 1 .. Len(w'[q].queue),
                      ClosedBy(w'[q].queue[i], b)
               PROVE  /\ home'[b] = q /\ stage'[b] \in After(w'[q].queue[i].call)
                      /\ stage'[b] = w'[q].queue[i].call
                           => /\ By(b, w'[q].text) => \E j \in 1 .. i : Takes(w'[q].queue[j])
                              /\ \A j \in i + 1 .. Len(w'[q].queue) : ~InSend(w'[q].queue[j], b)
    BY DEF Closers, RedisLast
  <2>1. ClosedBy(w[q].queue[i], b) /\ i \in 1 .. Len(w[q].queue)
    BY <1>6 DEF ClosedBy
  <2>2. home'[b] = q /\ stage'[b] \in After(w'[q].queue[i].call)
    BY <1>6, <2>1 DEF RedisInv, Closers
  <2>3. ASSUME stage'[b] = w'[q].queue[i].call
        PROVE  /\ By(b, w'[q].text) => \E j \in 1 .. i : Takes(w'[q].queue[j])
               /\ \A j \in i + 1 .. Len(w'[q].queue) : ~InSend(w'[q].queue[j], b)
    <3>1. /\ By(b, w[q].text) => \E j \in 1 .. i : Takes(w[q].queue[j])
          /\ \A j \in i + 1 .. Len(w[q].queue) : ~InSend(w[q].queue[j], b)
      BY <1>6, <2>1, <2>3 DEF RedisInv, RedisLast
    <3>2. Len(w'[q].queue) = Len(w[q].queue) /\ Len(w[q].queue) \in Nat /\ i \in Nat /\ i >= 1
      <4>1. Len(w[q].queue) \in Nat
        BY DEF RedisInv, RedisTypes, RedisWrites
      <4> QED BY <1>6, <2>1, <4>1
    <3>3. ASSUME NEW j \in i + 1 .. Len(w'[q].queue) PROVE ~InSend(w'[q].queue[j], b)
      <4>1. j # 1 /\ j \in 1 .. Len(w'[q].queue) /\ j \in i + 1 .. Len(w[q].queue)
        BY <3>2
      <4>2. w'[q].queue[j] = w[q].queue[j]
        BY <1>6, <4>1
      <4> QED BY <3>1, <4>1, <4>2
    <3>4. ASSUME By(b, w'[q].text) PROVE \E j \in 1 .. i : Takes(w'[q].queue[j])
      <4>1. w'[q].text = w[q].text /\ (q = p => ~Takes(w[q].queue[1]))
        BY <1>1, <1>2, <3>4, NothingBy
      <4>2. PICK j \in 1 .. i : Takes(w[q].queue[j])
        BY <3>1, <3>4, <4>1
      <4>3. j \in 1 .. Len(w'[q].queue) /\ ~(q = p /\ j = 1)
        BY <3>2, <4>1, <4>2
      <4>4. w'[q].queue[j] = w[q].queue[j]
        BY <1>6, <4>3
      <4> QED BY <4>2, <4>4
    <3> QED BY <3>3, <3>4
  <2> QED BY <2>2, <2>3
<1>10. Drained'
  <2> SUFFICES ASSUME NEW q \in Replica
               PROVE  /\ w'[q].text # <<>> => w'[q].flushQueued
                      /\ w'[q].flushQueued => \E i \in 1 .. Len(w'[q].queue) :
                           w'[q].queue[i].kind = "text" /\ w'[q].queue[i].step = "queued"
    BY DEF Drained
  <2>1. CASE q # p
    BY <1>1, <2>1 DEF RedisInv, Drained
  <2>2. CASE q = p
    <3>1. w'[p].text # <<>> => w'[p].flushQueued
      BY <1>2 DEF RedisInv, Drained
    <3>2. ASSUME w'[p].flushQueued
          PROVE  \E i \in 1 .. Len(w'[p].queue) :
                   w'[p].queue[i].kind = "text" /\ w'[p].queue[i].step = "queued"
      <4>1. w[p].flushQueued
        BY <1>2, <3>2
      <4>2. PICK i \in 1 .. Len(w[p].queue) :
              w[p].queue[i].kind = "text" /\ w[p].queue[i].step = "queued"
        BY <4>1 DEF RedisInv, Drained
      <4>3. i # 1
        BY <1>2, <3>2, <4>2 DEF Takes
      <4> QED BY <1>3, <4>2, <4>3
    <3> QED BY <2>2, <3>1, <3>2
  <2> QED BY <2>1, <2>2
<1>11. Pushes'
  <2> SUFFICES ASSUME NEW q \in Replica, NEW i \in 1 .. Len(w'[q].queue)
               PROVE  w'[q].queue[i].step = "push" => w'[q].queue[i].parts # <<>>
    BY DEF Pushes
  <2>1. CASE w'[q].queue[i] = w[q].queue[i]
    BY <1>6, <2>1 DEF RedisInv, Pushes
  <2>2. CASE q = p /\ i = 1
    BY <1>1, <1>3, <2>2
  <2> QED BY <1>6, <2>1, <2>2
<1> QED BY <1>4, <1>5, <1>8, <1>9, <1>10, <1>11 DEF RedisInv

(* A replica's writes with another send at the head of its queue.          *)
WithHead(v, p, head) == [v EXCEPT ![p].queue[1] = head]

LEMMA HeadSet ==
  ASSUME NEW v \in [Replica -> RedisWrites], NEW p \in Replica, v[p].queue # <<>>,
         NEW head \in Sent
  PROVE  /\ WithHead(v, p, head) \in [Replica -> RedisWrites]
         /\ \A q \in Replica : q # p => WithHead(v, p, head)[q] = v[q]
         /\ WithHead(v, p, head)[p].queue = [v[p].queue EXCEPT ![1] = head]
         /\ WithHead(v, p, head)[p].queue # <<>>
         /\ WithHead(v, p, head)[p].queue[1] = head
         /\ WithHead(v, p, head)[p].text = v[p].text
         /\ WithHead(v, p, head)[p].flushQueued = v[p].flushQueued
         /\ WithHead(v, p, head)[p].failure = v[p].failure
<1> DEFINE queue == [v[p].queue EXCEPT ![1] = head]
           x == WithHead(v, p, head)
<1>1. v[p] \in RedisWrites /\ v[p].queue \in Seq(Sent)
  BY DEF RedisWrites
<1>2. x = [v EXCEPT ![p] = [v[p] EXCEPT !.queue = queue]]
  BY DEF WithHead
<1>3. queue \in Seq(Sent) /\ queue # <<>> /\ queue[1] = head
  BY <1>1
<1> HIDE DEF queue, x
<1>4. x[p] = [v[p] EXCEPT !.queue = queue] /\ \A q \in Replica : q # p => x[q] = v[q]
  BY <1>2
<1>5. /\ x[p].queue = queue /\ x[p].text = v[p].text /\ x[p].flushQueued = v[p].flushQueued
      /\ x[p].failure = v[p].failure /\ x[p] \in RedisWrites
  BY <1>1, <1>3, <1>4 DEF RedisWrites
<1>6. x \in [Replica -> RedisWrites]
  BY <1>1, <1>2, <1>4, <1>5
<1> QED BY <1>3, <1>4, <1>5, <1>6 DEF queue, x

LEMMA TwoParts ==
  ASSUME NEW s \in Seq(Frame), NEW t \in Seq(Frame)
  PROVE  /\ Redis!Part(s) \o Redis!Part(t) \in Seq(Seq(Frame))
         /\ \A k \in 1 .. Len(Redis!Part(s) \o Redis!Part(t)) :
              (Redis!Part(s) \o Redis!Part(t))[k] \in {s, t}
<1> DEFINE S == Seq(Frame)
<1>1. ASSUME NEW x \in S
      PROVE  /\ Redis!Part(x) \in Seq(S)
             /\ \A k \in 1 .. Len(Redis!Part(x)) : Redis!Part(x)[k] = x
  <2> HIDE DEF S
  <2>1. CASE x = <<>>
    BY <2>1 DEF Redis!Part
  <2>2. CASE x # <<>>
    <3>1. Redis!Part(x) = <<x>>
      BY <2>2 DEF Redis!Part
    <3> QED BY <3>1
  <2> QED BY <2>1, <2>2
<1> DEFINE u == Redis!Part(s)
           v == Redis!Part(t)
<1>2. /\ u \in Seq(S) /\ v \in Seq(S)
      /\ \A k \in 1 .. Len(u) : u[k] = s
      /\ \A k \in 1 .. Len(v) : v[k] = t
  BY <1>1
<1> HIDE DEF u, v, S
<1>3. /\ u \o v \in Seq(S) /\ Len(u) \in Nat /\ Len(v) \in Nat
      /\ Len(u \o v) = Len(u) + Len(v)
      /\ \A i \in 1 .. Len(u) : (u \o v)[i] = u[i]
      /\ \A i \in 1 .. Len(v) : (u \o v)[Len(u) + i] = v[i]
  BY <1>2, Joined
<1>4. ASSUME NEW k \in 1 .. Len(u \o v) PROVE (u \o v)[k] \in {s, t}
  <2>1. CASE k \in 1 .. Len(u)
    BY <1>2, <1>3, <2>1
  <2>2. CASE k \notin 1 .. Len(u)
    <3>1. k - Len(u) \in 1 .. Len(v) /\ Len(u) + (k - Len(u)) = k
      BY <1>3, <2>2
    <3>2. (u \o v)[Len(u) + (k - Len(u))] = v[k - Len(u)]
      BY <1>3, <3>1
    <3> QED BY <1>2, <3>1, <3>2
  <2> QED BY <2>1, <2>2
<1> QED BY <1>3, <1>4 DEF u, v, S

LEMMA RedisStart ==
  ASSUME RedisInv, NEW p \in Replica, Redis!Start(p)
  PROVE  RedisInv'
<1> DEFINE send == w[p].queue[1]
           parts == Redis!Part(w[p].text) \o Redis!Part(send.frames)
           step == IF parts # <<>> THEN "push" ELSE IF send.kind = "text" THEN "over" ELSE "set"
           still == w[p].flushQueued /\ send.kind # "text"
           taken == [w EXCEPT ![p].text = <<>>, ![p].flushQueued = still]
           first == [taken[p].queue[1] EXCEPT !.step = step]
           begun == WithHead(taken, p, first)
           head == [begun[p].queue[1] EXCEPT !.parts = parts]
<1>1. /\ w[p].queue # <<>> /\ send.step = "queued"
      /\ UNCHANGED <<stage, home, clock, refused, missed>>
  BY SMTT(30) DEF Redis!Start, Redis!At, Redis!Sending, Redis!writerVars
<1>2. w' = [w EXCEPT ![p].text = <<>>,
                     ![p].flushQueued = still,
                     ![p].queue[1].step = step,
                     ![p].queue[1].parts = parts]
  BY DEF Redis!Start, Redis!Sending, Redis!StillQueued
<1>3. w' = WithHead(begun, p, head)
  BY <1>2 DEF WithHead
<1> HIDE DEF head, begun, first
<1>4. /\ w \in [Replica -> RedisWrites] /\ w[p] \in RedisWrites /\ w[p].queue \in Seq(Sent)
      /\ w[p].text \in Seq(Frame) /\ w[p].flushQueued \in BOOLEAN /\ w[p].failure \in BOOLEAN
  <2>1. w \in [Replica -> RedisWrites] /\ w[p] \in RedisWrites
    BY DEF RedisInv, RedisTypes
  <2> QED BY <2>1 DEF RedisWrites
<1>5. send \in Sent /\ send.frames \in Seq(Frame)
  <2>1. send \in Sent
    BY <1>1, <1>4, Shorter
  <2> QED BY <2>1 DEF Sent
<1>6. parts \in Seq(Seq(Frame)) /\ \A k \in 1 .. Len(parts) : parts[k] \in {w[p].text, send.frames}
  <2>1. w[p].text \in Seq(Frame) /\ send.frames \in Seq(Frame)
    BY <1>4, <1>5
  <2> HIDE DEF send
  <2> QED BY <2>1, TwoParts
<1> HIDE DEF parts
<1>7. step \in Steps /\ (step = "push" => parts # <<>>) /\ still \in BOOLEAN
  BY <1>4 DEF Steps
<1>8. still => w[p].flushQueued /\ send.kind # "text"
  OBVIOUS
<1> HIDE DEF step, still, send
<1>9. /\ taken \in [Replica -> RedisWrites] /\ taken[p].queue = w[p].queue
      /\ taken[p].text = <<>> /\ taken[p].flushQueued = still /\ taken[p].failure = w[p].failure
      /\ \A q \in Replica : q # p => taken[q] = w[q]
  <2>1. taken = [w EXCEPT ![p] = [w[p] EXCEPT !.text = <<>>, !.flushQueued = still]]
    BY <1>4
  <2>2. <<>> \in Seq(Frame)
    OBVIOUS
  <2> HIDE DEF taken
  <2> QED BY <1>4, <1>7, <2>1, <2>2 DEF RedisWrites
<1> HIDE DEF taken
<1>10. first = [send EXCEPT !.step = step]
  BY <1>9 DEF first, send
<1>11. first \in Sent
  BY <1>5, <1>7, <1>10 DEF Sent
<1>12. /\ begun \in [Replica -> RedisWrites] /\ begun[p].queue # <<>>
       /\ \A q \in Replica : q # p => begun[q] = taken[q]
       /\ begun[p].queue = [taken[p].queue EXCEPT ![1] = first] /\ begun[p].queue[1] = first
       /\ begun[p].text = taken[p].text /\ begun[p].flushQueued = taken[p].flushQueued
       /\ begun[p].failure = taken[p].failure
  BY <1>1, <1>9, <1>11, HeadSet DEF begun
<1>13. head = [first EXCEPT !.parts = parts]
  BY <1>12 DEF head
<1>14. /\ head \in Sent /\ head.by = send.by /\ head.call = send.call /\ head.frames = send.frames
       /\ head.step = step /\ head.parts = parts
  BY <1>5, <1>6, <1>7, <1>10, <1>13 DEF Sent
<1>15. /\ w' \in [Replica -> RedisWrites]
       /\ \A q \in Replica : q # p => w'[q] = begun[q]
       /\ w'[p].queue = [begun[p].queue EXCEPT ![1] = head]
       /\ w'[p].text = begun[p].text /\ w'[p].flushQueued = begun[p].flushQueued
       /\ w'[p].failure = begun[p].failure
  BY <1>3, <1>12, <1>14, HeadSet
<1>16. w'[p].queue = [w[p].queue EXCEPT ![1] = head]
  BY <1>1, <1>4, <1>9, <1>12, <1>15
<1>17. \A b \in Writer : InSend(head, b) => InSend(send, b) \/ By(b, w[p].text)
  <2> SUFFICES ASSUME NEW b \in Writer, InSend(head, b)
               PROVE  By(b, send.frames) \/ By(b, w[p].text)
    BY DEF InSend
  <2>1. CASE By(b, head.frames)
    BY <1>14, <2>1
  <2>2. CASE \E k \in 1 .. Len(head.parts) : By(b, head.parts[k])
    BY <1>6, <1>14, <2>2
  <2> QED BY <2>1, <2>2 DEF InSend
<1>18. Moves(p, head)
  <2>1. w'[p].text = <<>> /\ w'[p].flushQueued = still /\ w'[p].failure = w[p].failure
    BY <1>9, <1>12, <1>15
  <2>2. \A q \in Replica : q # p => w'[q] = w[q]
    BY <1>9, <1>12, <1>15
  <2>3. w' \in [Replica -> RedisWrites]
    BY <1>15
  <2> QED BY <1>7, <1>8, <1>14, <1>16, <1>17, <2>1, <2>2, <2>3 DEF Moves, send
<1> QED BY <1>1, <1>14, <1>18, RedisHead

LEMMA RedisPush ==
  ASSUME RedisInv, NEW p \in Replica, Redis!Push(p)
  PROVE  RedisInv'
<1> DEFINE send == w[p].queue[1]
           left == Tail(send.parts)
           step == IF left # <<>> THEN "push"
                   ELSE IF send.kind \in {"end", "fail"} THEN "set" ELSE "publish"
           first == [send EXCEPT !.parts = left]
           begun == WithHead(w, p, first)
           head == [begun[p].queue[1] EXCEPT !.step = step]
<1>1. /\ w[p].queue # <<>> /\ send.step = "push"
      /\ UNCHANGED <<stage, home, clock, refused, missed>>
  BY SMTT(30) DEF Redis!Push, Redis!At, Redis!Sending, Redis!writerVars
<1>2. w' = [w EXCEPT ![p].queue[1].parts = left, ![p].queue[1].step = step]
  BY DEF Redis!Push, Redis!Sending
<1>3. w' = WithHead(begun, p, head)
  BY <1>2 DEF WithHead
<1> HIDE DEF head, begun, first
<1>4. w \in [Replica -> RedisWrites] /\ w[p] \in RedisWrites /\ w[p].queue \in Seq(Sent)
  BY DEF RedisInv, RedisTypes, RedisWrites
<1>5. /\ send \in Sent /\ 1 \in 1 .. Len(w[p].queue) /\ send.parts \in Seq(Seq(Frame))
  <2>1. send \in Sent /\ 1 \in 1 .. Len(w[p].queue)
    BY <1>1, <1>4, Shorter
  <2> QED BY <2>1 DEF Sent
<1>6. send.parts # <<>>
  BY <1>1, <1>5 DEF RedisInv, Pushes
<1>7. /\ left \in Seq(Seq(Frame))
      /\ \A k \in 1 .. Len(left) : k + 1 \in 1 .. Len(send.parts) /\ left[k] = send.parts[k + 1]
  BY <1>5, <1>6, Shorter
<1> HIDE DEF left
<1>8. step \in Steps /\ (step = "push" => left # <<>>)
  BY DEF Steps
<1> HIDE DEF step, send
<1>9. first \in Sent
  BY <1>5, <1>7 DEF Sent, first
<1>10. /\ begun \in [Replica -> RedisWrites] /\ begun[p].queue # <<>>
       /\ \A q \in Replica : q # p => begun[q] = w[q]
       /\ begun[p].queue = [w[p].queue EXCEPT ![1] = first] /\ begun[p].queue[1] = first
       /\ begun[p].text = w[p].text /\ begun[p].flushQueued = w[p].flushQueued
       /\ begun[p].failure = w[p].failure
  BY <1>1, <1>4, <1>9, HeadSet DEF begun
<1>11. head = [first EXCEPT !.step = step]
  BY <1>10 DEF head
<1>12. /\ head \in Sent /\ head.by = send.by /\ head.call = send.call /\ head.frames = send.frames
       /\ head.step = step /\ head.parts = left
  BY <1>5, <1>7, <1>8, <1>11 DEF Sent, first
<1>13. /\ w' \in [Replica -> RedisWrites]
       /\ \A q \in Replica : q # p => w'[q] = begun[q]
       /\ w'[p].queue = [begun[p].queue EXCEPT ![1] = head]
       /\ w'[p].text = begun[p].text /\ w'[p].flushQueued = begun[p].flushQueued
       /\ w'[p].failure = begun[p].failure
  BY <1>3, <1>10, <1>12, HeadSet
<1>14. w'[p].queue = [w[p].queue EXCEPT ![1] = head]
  BY <1>1, <1>4, <1>10, <1>13
<1>15. \A b \in Writer : InSend(head, b) => InSend(send, b)
  BY <1>7, <1>12 DEF InSend
<1>16. Moves(p, head)
  <2>1. /\ w'[p].text = w[p].text /\ w'[p].flushQueued = w[p].flushQueued
        /\ w'[p].failure = w[p].failure
    BY <1>10, <1>13
  <2>2. \A q \in Replica : q # p => w'[q] = w[q]
    BY <1>10, <1>13
  <2>3. w' \in [Replica -> RedisWrites] /\ ~Takes(send)
    BY <1>1, <1>13 DEF Takes, send
  <2> QED BY <1>8, <1>12, <1>14, <1>15, <2>1, <2>2, <2>3 DEF Moves, send
<1> QED BY <1>1, <1>12, <1>16, RedisHead

LEMMA RedisSetTerminal ==
  ASSUME RedisInv, NEW p \in Replica, Redis!SetTerminal(p)
  PROVE  RedisInv'
<1> DEFINE send == w[p].queue[1]
           head == [send EXCEPT !.step = "publish"]
<1>1. /\ w[p].queue # <<>> /\ send.step = "set"
      /\ UNCHANGED <<stage, home, clock, refused, missed>>
  BY DEF Redis!SetTerminal, Redis!At, Redis!Sending, Redis!writerVars
<1>2. w' = WithHead(w, p, head)
  BY DEF Redis!SetTerminal, WithHead
<1>3. w \in [Replica -> RedisWrites] /\ w[p] \in RedisWrites /\ w[p].queue \in Seq(Sent)
  BY DEF RedisInv, RedisTypes, RedisWrites
<1>4. send \in Sent
  BY <1>1, <1>3, Shorter
<1> HIDE DEF send
<1>5. /\ head \in Sent /\ head.by = send.by /\ head.call = send.call /\ head.frames = send.frames
      /\ head.step = "publish" /\ head.parts = send.parts
  BY <1>4 DEF Sent, Steps
<1> HIDE DEF head
<1>6. /\ w' \in [Replica -> RedisWrites]
      /\ \A q \in Replica : q # p => w'[q] = w[q]
      /\ w'[p].queue = [w[p].queue EXCEPT ![1] = head]
      /\ w'[p].text = w[p].text /\ w'[p].flushQueued = w[p].flushQueued
      /\ w'[p].failure = w[p].failure
  BY <1>1, <1>2, <1>3, <1>5, HeadSet
<1>7. Moves(p, head)
  <2>1. ~Takes(send) /\ \A b \in Writer : InSend(head, b) => InSend(send, b)
    BY <1>1, <1>5 DEF Takes, InSend, send
  <2> QED BY <1>5, <1>6, <2>1 DEF Moves, send
<1> QED BY <1>1, <1>5, <1>7, RedisHead

LEMMA RedisSendStep ==
  ASSUME RedisInv, NEW p \in Replica, Redis!RedisSend(p)
  PROVE  RedisInv'
<1>1. CASE Redis!Start(p) \/ Redis!Push(p) \/ Redis!SetTerminal(p)
  BY <1>1, RedisStart, RedisPush, RedisSetTerminal
<1>2. CASE Redis!Done(p)
  <2>1. w[p].queue # <<>> /\ ~Takes(w[p].queue[1]) /\ Redis!Attempted(p, TRUE)
    BY <1>2 DEF Redis!Done, Redis!At, Redis!Sending, Takes
  <2> QED BY <2>1, RedisAttempted
<1>3. CASE Redis!Publish(p)
  <2>1. w[p].queue # <<>> /\ ~Takes(w[p].queue[1]) /\ Redis!Attempted(p, TRUE)
    <3>1. Redis!At(p, "publish") /\ Redis!Attempted(p, TRUE)
      BY <1>3, Zenon DEF Redis!Publish
    <3> QED BY <3>1 DEF Redis!At, Redis!Sending, Takes
  <2> QED BY <2>1, RedisAttempted
<1>4. CASE Redis!Refuse(p)
  <2>1. w[p].queue # <<>> /\ ~Takes(w[p].queue[1]) /\ Redis!Attempted(p, FALSE)
    BY <1>4 DEF Redis!Refuse, Redis!At, Redis!Sending, Takes
  <2> QED BY <2>1, RedisAttempted
<1> QED BY <1>1, <1>2, <1>3, <1>4 DEF Redis!RedisSend

LEMMA RedisStepKeeps ==
  ASSUME RedisInv, Redis!RedisNext
  PROVE  RedisInv'
<1>w. Redis!Writer = Writer /\ Delegate \subseteq Writer
  BY DEF Redis!Writer, Writer
<1>e. UNCHANGED <<stage, home, clock, refused, w, missed>> => RedisInv'
  <2> SUFFICES ASSUME UNCHANGED <<stage, home, clock, refused, w, missed>>
               PROVE  RedisInv'
    OBVIOUS
  <2>1. Onward
    BY DEF RedisInv, RunTypes, Onward
  <2> QED BY <2>1, RedisOnward
<1>1. CASE \E a \in Writer : Redis!RedisCall(a)
  BY <1>1, RedisRaiseFirst, RedisWriteText, RedisWriteFrame, RedisClose DEF Redis!RedisCall
<1>2. CASE \E p \in Replica : Redis!RedisSend(p)
  BY <1>2, RedisSendStep
<1>3. CASE \E r \in Reader : Redis!Subscribe(r) \/ Redis!RedisRead(r)
  <2>1. UNCHANGED <<stage, home, clock, refused, w, missed>>
    BY <1>3 DEF Redis!RedisRead, Redis!Subscribe, Redis!Drain, Redis!Check, Redis!Rest, Redis!Wake,
                Redis!Silence, Redis!writerVars, Redis!runVars
  <2> QED BY <1>e, <2>1
<1>4. CASE Redis!Expire
  <2>1. UNCHANGED <<stage, home, clock, refused, w, missed>>
    BY <1>4 DEF Redis!Expire, Redis!runVars
  <2> QED BY <1>e, <2>1
<1>5. CASE \E p \in Replica : Redis!Crash(p, Redis!RunWrites)
  <2>1. PICK p \in Replica : Redis!Crash(p, Redis!RunWrites)
    BY <1>5
  <2>2. Died(p, Redis!RunWrites)
    BY <1>w, <2>1, SameRun, CrashDied DEF RedisInv, Writer
  <2> QED BY <2>2, RedisDied
<1>6. CASE \E a \in Writer : Redis!Throw(a) \/ (a \in Delegate /\ (Redis!Begin(a) \/ Redis!Join(a)))
  <2>1. PICK a \in Writer : Throw(a) \/ (a \in Delegate /\ (Begin(a) \/ Join(a)))
    <3>1. PICK a \in Writer : Redis!Throw(a) \/ (a \in Delegate /\ (Redis!Begin(a) \/ Redis!Join(a)))
      BY <1>6
    <3>2. \E p \in Replica : TRUE
      BY DEF RedisInv, RunTypes
    <3> QED BY <3>1, <3>2, SameRun
  <2>2. Onward
    BY <2>1, RunOnward DEF RedisInv
  <2> QED BY <2>2, RedisOnward
<1> QED BY <1>w, <1>1, <1>2, <1>3, <1>4, <1>5, <1>6 DEF Redis!RedisNext

(***************************************************************************)
(* The runs.                                                               *)
(***************************************************************************)
LEMMA Begins == Init => Inv
<1> SUFFICES ASSUME Init PROVE Inv
  OBVIOUS
<1>s. /\ StreamInit(Sql!RunWrites) <=> Sql!StreamInit(Sql!RunWrites)
      /\ StreamInit(Redis!RunWrites) <=> Redis!StreamInit(Redis!RunWrites)
  BY DEF StreamInit, Sql!StreamInit, Redis!StreamInit, Writer, Sql!Writer, Redis!Writer
<1>1. ASSUME NEW write, StreamInit(write), write.text = <<>>, write.queue = <<>>
      PROVE  /\ RunTypes /\ Kept /\ Closers /\ SqlOwn /\ SqlLast /\ RedisOwn /\ RedisLast /\ Pushes
             /\ \A p \in Replica : w[p] = write
  <2>1. RunTypes
    BY <1>1 DEF StreamInit, RunTypes, Stage
  <2>2. \A p \in Replica : w[p] = write /\ missed[p] = {}
    BY <1>1 DEF StreamInit
  <2>3. \A p \in Replica, a \in Writer : ~SqlHeld(p, a) /\ ~RedisHeld(p, a)
    BY <1>1, <2>2, NothingBy DEF SqlHeld, RedisHeld, Lost
  <2> QED BY <1>1, <2>1, <2>2, <2>3 DEF Kept, Closers, SqlOwn, SqlLast, RedisOwn, RedisLast, Pushes
<1>2. CASE transport = "sql" /\ Sql!SqlInit
  <2>1. /\ StreamInit(Sql!RunWrites) /\ rows = <<>>
        /\ Sql!RunWrites.text = <<>> /\ Sql!RunWrites.queue = <<>> /\ Sql!RunWrites \in SqlWrites
    BY <1>2, <1>s DEF Sql!SqlInit, Sql!RunWrites, SqlWrites
  <2>2. SqlTypes
    BY <2>1 DEF StreamInit, SqlTypes
  <2> QED BY <1>1, <1>2, <2>1, <2>2 DEF Inv, SqlInv
<1>3. CASE transport = "redis" /\ Redis!RedisInit
  <2>1. /\ StreamInit(Redis!RunWrites) /\ ~Redis!RunWrites.flushQueued
        /\ Redis!RunWrites.text = <<>> /\ Redis!RunWrites.queue = <<>>
        /\ Redis!RunWrites \in RedisWrites
    BY <1>3, <1>s DEF Redis!RedisInit, Redis!RunWrites, RedisWrites
  <2>2. RedisTypes
    BY <2>1 DEF StreamInit, RedisTypes
  <2>3. Drained
    BY <1>1, <2>1 DEF Drained
  <2> QED BY <1>1, <1>3, <2>1, <2>2, <2>3 DEF Inv, RedisInv
<1> QED BY <1>2, <1>3 DEF Init

LEMMA Keeps == Inv /\ [Next]_vars => Inv'
<1> SUFFICES ASSUME Inv, [Next]_vars PROVE Inv'
  OBVIOUS
<1>1. CASE SqlStep
  <2>1. transport = "sql" /\ transport' = transport /\ SqlInv'
    BY <1>1, SqlStepKeeps DEF SqlStep, Inv
  <2> QED BY <2>1 DEF Inv
<1>2. CASE RedisStep
  <2>1. transport = "redis" /\ transport' = transport /\ RedisInv'
    BY <1>2, RedisStepKeeps DEF RedisStep, Inv
  <2> QED BY <2>1 DEF Inv
<1>3. CASE UNCHANGED vars
  <2>1. transport' = transport /\ rows' = rows /\ UNCHANGED <<stage, home, clock, refused, w, missed>>
    BY <1>3 DEF vars, runVars, sqlVars
  <2>2. CASE transport = "sql"
    <3>1. SqlInv /\ rows' \in SqlRows
      BY <2>1, <2>2 DEF Inv, SqlInv, SqlTypes, SqlRows
    <3> QED BY <2>1, <2>2, <3>1, SqlElsewhere DEF Inv
  <2>3. CASE transport = "redis"
    <3>1. RedisInv /\ Onward
      BY <2>1, <2>3 DEF Inv, RedisInv, RunTypes, Onward
    <3> QED BY <2>1, <2>3, <3>1, RedisOnward DEF Inv
  <2> QED BY <2>2, <2>3 DEF Inv
<1> QED BY <1>1, <1>2, <1>3 DEF Next

LEMMA Invariant == Spec => []Inv
BY Begins, Keeps, PTL DEF Spec

(* A frame the transport refused with nobody awaiting it is not lost in    *)
(* silence: when its writer is through, in the SQL sink as in the Redis    *)
(* sink, some call of the run in that replica was rejected, whatever the   *)
(* writers, the replicas, those that die and the sends that fail.          *)
THEOREM NoLossInSilence == Spec => []LossIsTold
<1>1. Inv => LossIsTold
  <2> SUFFICES ASSUME Inv, NEW a \in Writer, stage[a] \in {"done", "joined"}, a \notin refused,
                      NEW frame \in missed[home[a]]
               PROVE  frame.by # a
    BY DEF LossIsTold
  <2>1. home[a] \in Replica
    BY DEF Inv, SqlInv, RedisInv, RunTypes
  <2>2. frame.by = a => SqlHeld(home[a], a) /\ RedisHeld(home[a], a)
    BY DEF SqlHeld, RedisHeld, Lost
  <2> QED BY <2>1, <2>2 DEF Inv, SqlInv, RedisInv, SqlOwn, RedisOwn, Through
<1> QED BY <1>1, Invariant, PTL

(* Text the Redis sink gathered is never stranded: a send that has not     *)
(* started yet takes it, although the flag that keeps a second text send   *)
(* from being queued is reset by one send and read by another's call.      *)
THEOREM NothingIsStranded == Spec => []NothingStranded
<1>1. Inv => NothingStranded
  <2> SUFFICES ASSUME Inv, transport = "redis", NEW p \in Replica, w[p].text # <<>>
               PROVE  \E i \in DOMAIN w[p].queue :
                        w[p].queue[i].step = "queued" /\ w[p].queue[i].kind # "flush"
    BY DEF NothingStranded, Redis!NothingStranded
  <2>1. PICK i \in 1 .. Len(w[p].queue) : w[p].queue[i].kind = "text" /\ w[p].queue[i].step = "queued"
    BY DEF Inv, RedisInv, Drained
  <2>2. w[p].queue \in Seq(Sent)
    BY DEF Inv, RedisInv, RedisTypes, RedisWrites
  <2> QED BY <2>1, <2>2
<1> QED BY <1>1, Invariant, PTL

=============================================================================
