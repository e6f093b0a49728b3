-------------------------- MODULE ChatQueue_proofs --------------------------
(* What becomes of a message that is queued, and of a thread that is       *)
(* claimed, under either runner: for any messages, requests and modes, and *)
(* any number of refusals and restarts.                                    *)
EXTENDS DurableRuns, SequenceTheorems, TLAPS

(***************************************************************************)
(* A queue of entries: what each operation of the store makes of it.       *)
(***************************************************************************)

(* The messages that wait in a queue; none of them waits twice. *)
Msgs(q) == {q[i].id.message : i \in DOMAIN q}
Once(q) == \A i, j \in DOMAIN q : q[i].id.message = q[j].id.message => i = j

(* y is q with e put in at place j. *)
Put(y, q, j, e) ==
  /\ j \in 1 .. Len(q) + 1 /\ Len(y) = Len(q) + 1
  /\ \A k \in 1 .. Len(q) + 1 : y[k] = IF k = j THEN e ELSE q[IF k < j THEN k ELSE k - 1]

LEMMA RemoveOne ==
  ASSUME NEW E, NEW q \in Seq(E), NEW i \in DOMAIN q
  PROVE  /\ RemoveAt(q, i) \in Seq(E) /\ Len(RemoveAt(q, i)) = Len(q) - 1
         /\ \A k \in 1 .. Len(q) - 1 : RemoveAt(q, i)[k] = q[IF k < i THEN k ELSE k + 1]
<1> DEFINE a == SubSeq(q, 1, i - 1)
           b == SubSeq(q, i + 1, Len(q))
<1>1. Len(q) \in Nat /\ i \in 1 .. Len(q) /\ \A k \in 1 .. Len(q) : q[k] \in E
  BY LenProperties
<1>2. a \in Seq(E) /\ Len(a) = i - 1 /\ \A k \in 1 .. i - 1 : a[k] = q[k]
  BY <1>1, SubSeqProperties
<1>3. b \in Seq(E) /\ Len(b) = Len(q) - i /\ \A k \in 1 .. Len(q) - i : b[k] = q[k + i]
  <2>1. /\ b \in Seq(E) /\ Len(b) = IF i + 1 <= Len(q) THEN Len(q) - (i + 1) + 1 ELSE 0
        /\ \A k \in 1 .. Len(q) - (i + 1) + 1 : b[k] = q[(i + 1) + k - 1]
    BY <1>1, SubSeqProperties
  <2> HIDE DEF b
  <2> QED BY <1>1, <2>1
<1> HIDE DEF a, b
<1>4. /\ a \o b \in Seq(E) /\ Len(a \o b) = Len(a) + Len(b)
      /\ \A k \in 1 .. Len(a) + Len(b) : (a \o b)[k] = IF k <= Len(a) THEN a[k] ELSE b[k - Len(a)]
  BY <1>2, <1>3, ConcatProperties
<1>5. RemoveAt(q, i) = a \o b
  BY DEF RemoveAt, a, b
<1> DEFINE y == a \o b
<1> HIDE DEF y
<1>6. /\ y \in Seq(E) /\ Len(y) = Len(q) - 1
      /\ \A k \in 1 .. Len(q) - 1 : y[k] = IF k <= i - 1 THEN a[k] ELSE b[k - (i - 1)]
  <2>1. /\ y \in Seq(E) /\ Len(y) = Len(a) + Len(b)
        /\ \A k \in 1 .. Len(a) + Len(b) : y[k] = IF k <= Len(a) THEN a[k] ELSE b[k - Len(a)]
    BY <1>4 DEF y
  <2>2. Len(a) = i - 1 /\ Len(a) + Len(b) = Len(q) - 1
    BY <1>1, <1>2, <1>3
  <2> QED BY <2>1, <2>2
<1>7. ASSUME NEW k \in 1 .. Len(q) - 1 PROVE y[k] = q[IF k < i THEN k ELSE k + 1]
  <2>1. CASE k < i
    BY <1>1, <1>2, <1>6, <2>1
  <2>2. CASE ~(k < i)
    <3>1. k - (i - 1) \in 1 .. Len(q) - i /\ k - (i - 1) + i = k + 1
      BY <1>1, <2>2
    <3>2. y[k] = b[k - (i - 1)]
      <4>1. ~(k <= i - 1)
        BY <1>1, <2>2
      <4> QED BY <1>6, <4>1
    <3> QED BY <1>3, <2>2, <3>1, <3>2
  <2> QED BY <2>1, <2>2
<1> QED BY <1>5, <1>6, <1>7 DEF y

LEMMA InsertOne ==
  ASSUME NEW E, NEW q \in Seq(E), NEW j \in 1 .. Len(q) + 1, NEW e \in E
  PROVE  InsertAt(q, j, e) \in Seq(E) /\ Put(InsertAt(q, j, e), q, j, e)
<1> DEFINE a == SubSeq(q, 1, j - 1)
           b == SubSeq(q, j, Len(q))
<1>1. Len(q) \in Nat /\ j \in 1 .. Len(q) + 1 /\ \A k \in 1 .. Len(q) : q[k] \in E
  BY LenProperties
<1>2. a \in Seq(E) /\ Len(a) = j - 1 /\ \A k \in 1 .. j - 1 : a[k] = q[k]
  BY <1>1, SubSeqProperties
<1>3. /\ b \in Seq(E) /\ Len(b) = Len(q) - j + 1
      /\ \A k \in 1 .. Len(q) - j + 1 : b[k] = q[j + k - 1]
  <2>1. /\ b \in Seq(E) /\ Len(b) = IF j <= Len(q) THEN Len(q) - j + 1 ELSE 0
        /\ \A k \in 1 .. Len(q) - j + 1 : b[k] = q[j + k - 1]
    BY <1>1, SubSeqProperties
  <2> HIDE DEF b
  <2> QED BY <1>1, <2>1
<1>4. <<e>> \in Seq(E) /\ Len(<<e>>) = 1 /\ <<e>>[1] = e
  OBVIOUS
<1> DEFINE x == <<e>>
<1> HIDE DEF a, b, x
<1>5. /\ a \o x \in Seq(E) /\ Len(a \o x) = j
      /\ \A k \in 1 .. j : (a \o x)[k] = IF k < j THEN a[k] ELSE e
  <2>1. /\ a \o x \in Seq(E) /\ Len(a \o x) = Len(a) + Len(x)
        /\ \A k \in 1 .. Len(a) + Len(x) :
             (a \o x)[k] = IF k <= Len(a) THEN a[k] ELSE x[k - Len(a)]
    BY <1>2, <1>4, ConcatProperties DEF x
  <2> QED BY <1>1, <1>2, <1>4, <2>1 DEF x
<1> DEFINE y == a \o x
<1> HIDE DEF y
<1>6. y \in Seq(E) /\ Len(y) = j /\ \A k \in 1 .. j : y[k] = IF k < j THEN a[k] ELSE e
  BY <1>5 DEF y
<1>7. /\ y \o b \in Seq(E) /\ Len(y \o b) = Len(y) + Len(b)
      /\ \A k \in 1 .. Len(y) + Len(b) : (y \o b)[k] = IF k <= Len(y) THEN y[k] ELSE b[k - Len(y)]
  BY <1>3, <1>6, ConcatProperties
<1>8. InsertAt(q, j, e) = y \o b
  BY DEF InsertAt, a, b, x, y
<1> DEFINE z == y \o b
<1> HIDE DEF z
<1>9. /\ z \in Seq(E) /\ Len(z) = Len(q) + 1
      /\ \A k \in 1 .. Len(q) + 1 : z[k] = IF k <= j THEN y[k] ELSE b[k - j]
  BY <1>1, <1>3, <1>6, <1>7 DEF z
<1>10. ASSUME NEW k \in 1 .. Len(q) + 1
       PROVE  z[k] = IF k = j THEN e ELSE q[IF k < j THEN k ELSE k - 1]
  <2>1. CASE k <= j
    BY <1>1, <1>2, <1>6, <1>9, <2>1
  <2>2. CASE ~(k <= j)
    <3>1. k - j \in 1 .. Len(q) - j + 1 /\ j + (k - j) - 1 = k - 1
      BY <1>1, <2>2
    <3>2. z[k] = b[k - j]
      BY <1>1, <1>9, <2>2
    <3> QED BY <1>1, <1>3, <2>2, <3>1, <3>2
  <2> QED BY <2>1, <2>2
<1> QED BY <1>8, <1>9, <1>10 DEF z, Put

LEMMA PrependOne ==
  ASSUME NEW E, NEW q \in Seq(E), NEW e \in E
  PROVE  /\ <<e>> \o q \in Seq(E) /\ Len(<<e>> \o q) = Len(q) + 1
         /\ \A k \in 1 .. Len(q) + 1 : (<<e>> \o q)[k] = IF k = 1 THEN e ELSE q[k - 1]
<1> DEFINE x == <<e>>
<1>1. x \in Seq(E) /\ Len(x) = 1 /\ x[1] = e
  OBVIOUS
<1> HIDE DEF x
<1>2. /\ x \o q \in Seq(E) /\ Len(x \o q) = Len(x) + Len(q)
      /\ \A k \in 1 .. Len(x) + Len(q) : (x \o q)[k] = IF k <= Len(x) THEN x[k] ELSE q[k - Len(x)]
  BY <1>1, ConcatProperties
<1>3. Len(q) \in Nat
  BY LenProperties
<1> QED BY <1>1, <1>2, <1>3 DEF x

LEMMA Removed ==
  ASSUME NEW E, NEW q \in Seq(E), NEW i \in DOMAIN q, Once(q)
  PROVE  /\ Once(RemoveAt(q, i))
         /\ Msgs(RemoveAt(q, i)) = Msgs(q) \ {q[i].id.message}
<1> DEFINE y == RemoveAt(q, i)
           n == Len(q)
<1>1. n \in Nat /\ i \in 1 .. n /\ DOMAIN q = 1 .. n
  BY LenProperties
<1>2. /\ y \in Seq(E) /\ Len(y) = n - 1
      /\ \A k \in 1 .. n - 1 : y[k] = q[IF k < i THEN k ELSE k + 1]
  BY RemoveOne
<1> HIDE DEF y, n
<1>3. DOMAIN y = 1 .. n - 1
  BY <1>1, <1>2, LenProperties
<1>4. Once(y)
  <2> SUFFICES ASSUME NEW k \in 1 .. n - 1, NEW l \in 1 .. n - 1, y[k].id.message = y[l].id.message
               PROVE  k = l
    BY <1>3 DEF Once
  <2> DEFINE f(x) == IF x < i THEN x ELSE x + 1
  <2>1. f(k) \in 1 .. n /\ f(l) \in 1 .. n /\ (f(k) = f(l) => k = l)
    BY <1>1
  <2>2. y[k] = q[f(k)] /\ y[l] = q[f(l)]
    BY <1>2
  <2> HIDE DEF f
  <2> QED BY <1>1, <2>1, <2>2 DEF Once
<1>5. Msgs(y) \subseteq Msgs(q) \ {q[i].id.message}
  <2> SUFFICES ASSUME NEW k \in 1 .. n - 1
               PROVE  y[k].id.message \in Msgs(q) /\ y[k].id.message # q[i].id.message
    BY <1>3 DEF Msgs
  <2> DEFINE f == IF k < i THEN k ELSE k + 1
  <2>1. f \in 1 .. n /\ f # i
    BY <1>1
  <2>2. y[k] = q[f]
    BY <1>2
  <2> HIDE DEF f
  <2> QED BY <1>1, <2>1, <2>2 DEF Once, Msgs
<1>6. Msgs(q) \ {q[i].id.message} \subseteq Msgs(y)
  <2> SUFFICES ASSUME NEW l \in 1 .. n, l # i PROVE q[l].id.message \in Msgs(y)
    BY <1>1 DEF Msgs
  <2> DEFINE k == IF l < i THEN l ELSE l - 1
  <2>1. k \in 1 .. n - 1 /\ (IF k < i THEN k ELSE k + 1) = l
    BY <1>1
  <2>2. y[k] = q[l]
    BY <1>2, <2>1
  <2> HIDE DEF k
  <2> QED BY <1>3, <2>1, <2>2 DEF Msgs
<1> QED BY <1>4, <1>5, <1>6 DEF y

LEMMA Inserted ==
  ASSUME NEW E, NEW q \in Seq(E), NEW y \in Seq(E), NEW e \in E, NEW j, Put(y, q, j, e)
  PROVE  /\ Once(q) /\ e.id.message \notin Msgs(q) => Once(y)
         /\ Msgs(y) = Msgs(q) \cup {e.id.message}
<1> DEFINE n == Len(q)
<1>1. /\ n \in Nat /\ j \in 1 .. n + 1 /\ DOMAIN q = 1 .. n /\ DOMAIN y = 1 .. n + 1
      /\ \A k \in 1 .. n + 1 : y[k] = IF k = j THEN e ELSE q[IF k < j THEN k ELSE k - 1]
  BY LenProperties DEF Put
<1> HIDE DEF n
<1>2. ASSUME Once(q), e.id.message \notin Msgs(q) PROVE Once(y)
  <2> SUFFICES ASSUME NEW k \in 1 .. n + 1, NEW l \in 1 .. n + 1,
                      y[k].id.message = y[l].id.message
               PROVE  k = l
    BY <1>1 DEF Once
  <2> DEFINE f(x) == IF x < j THEN x ELSE x - 1
  <2>1. /\ k # j => f(k) \in 1 .. n /\ y[k] = q[f(k)]
        /\ l # j => f(l) \in 1 .. n /\ y[l] = q[f(l)]
        /\ k # j /\ l # j /\ f(k) = f(l) => k = l
    BY <1>1
  <2>2. (k = j => y[k] = e) /\ (l = j => y[l] = e)
    BY <1>1
  <2> HIDE DEF f
  <2> QED BY <1>1, <1>2, <2>1, <2>2 DEF Once, Msgs
<1>3. Msgs(y) \subseteq Msgs(q) \cup {e.id.message}
  <2> SUFFICES ASSUME NEW k \in 1 .. n + 1
               PROVE  y[k].id.message \in Msgs(q) \cup {e.id.message}
    BY <1>1 DEF Msgs
  <2> DEFINE f == IF k < j THEN k ELSE k - 1
  <2>1. k # j => f \in 1 .. n /\ y[k] = q[f]
    BY <1>1
  <2>2. k = j => y[k] = e
    BY <1>1
  <2> HIDE DEF f
  <2> QED BY <1>1, <2>1, <2>2 DEF Msgs
<1>4. e.id.message \in Msgs(y)
  <2>1. j \in 1 .. n + 1 /\ y[j] = e
    BY <1>1
  <2> QED BY <1>1, <2>1 DEF Msgs
<1>5. Msgs(q) \subseteq Msgs(y)
  <2> SUFFICES ASSUME NEW l \in 1 .. n PROVE q[l].id.message \in Msgs(y)
    BY <1>1 DEF Msgs
  <2> DEFINE k == IF l < j THEN l ELSE l + 1
  <2>1. k \in 1 .. n + 1 /\ k # j /\ (IF k < j THEN k ELSE k - 1) = l
    BY <1>1
  <2> HIDE DEF k
  <2>2. y[k] = q[l]
    BY <1>1, <2>1
  <2> QED BY <1>1, <2>1, <2>2 DEF Msgs
<1> QED BY <1>2, <1>3, <1>4, <1>5

(* A message put back at the head, or sent to the tail. *)
LEMMA Prepended ==
  ASSUME NEW E, NEW q \in Seq(E), NEW e \in E
  PROVE  /\ Once(q) /\ e.id.message \notin Msgs(q) => Once(<<e>> \o q)
         /\ Msgs(<<e>> \o q) = Msgs(q) \cup {e.id.message}
<1> DEFINE y == <<e>> \o q
<1>1. /\ y \in Seq(E) /\ Len(y) = Len(q) + 1 /\ Len(q) \in Nat
      /\ \A k \in 1 .. Len(q) + 1 : y[k] = IF k = 1 THEN e ELSE q[k - 1]
  BY PrependOne, LenProperties
<1> HIDE DEF y
<1>2. Put(y, q, 1, e)
  BY <1>1 DEF Put
<1>3. /\ Once(q) /\ e.id.message \notin Msgs(q) => Once(y)
      /\ Msgs(y) = Msgs(q) \cup {e.id.message}
  BY <1>1, <1>2, Inserted
<1> QED BY <1>3 DEF y

LEMMA Appended ==
  ASSUME NEW E, NEW q \in Seq(E), NEW e \in E
  PROVE  /\ Once(q) /\ e.id.message \notin Msgs(q) => Once(Append(q, e))
         /\ Msgs(Append(q, e)) = Msgs(q) \cup {e.id.message}
<1> DEFINE y == Append(q, e)
<1>1. /\ y \in Seq(E) /\ Len(y) = Len(q) + 1 /\ Len(q) \in Nat
      /\ \A k \in 1 .. Len(q) : y[k] = q[k]
      /\ y[Len(q) + 1] = e
  BY AppendProperties, LenProperties
<1> HIDE DEF y
<1>2. Put(y, q, Len(q) + 1, e)
  BY <1>1 DEF Put
<1>3. /\ Once(q) /\ e.id.message \notin Msgs(q) => Once(y)
      /\ Msgs(y) = Msgs(q) \cup {e.id.message}
  BY <1>1, <1>2, Inserted
<1> QED BY <1>3 DEF y

(* A waiting message that goes to another place, or is marked. *)
LEMMA Moved ==
  ASSUME NEW E, NEW q \in Seq(E), NEW i \in DOMAIN q, NEW j \in DOMAIN q, Once(q)
  PROVE  /\ InsertAt(RemoveAt(q, i), j, q[i]) \in Seq(E)
         /\ Once(InsertAt(RemoveAt(q, i), j, q[i]))
         /\ Msgs(InsertAt(RemoveAt(q, i), j, q[i])) = Msgs(q)
<1> DEFINE r == RemoveAt(q, i)
           e == q[i]
           y == InsertAt(r, j, e)
<1>1. i \in 1 .. Len(q) /\ j \in 1 .. Len(q) /\ Len(q) \in Nat /\ e \in E
  BY LenProperties
<1>2. r \in Seq(E) /\ Len(r) = Len(q) - 1 /\ Once(r) /\ Msgs(r) = Msgs(q) \ {e.id.message}
  BY RemoveOne, Removed
<1> HIDE DEF r, e
<1>3. j \in 1 .. Len(r) + 1
  BY <1>1, <1>2
<1>4. y \in Seq(E) /\ Put(y, r, j, e)
  BY <1>1, <1>2, <1>3, InsertOne
<1> HIDE DEF y
<1>5. Once(y) /\ Msgs(y) = Msgs(r) \cup {e.id.message}
  BY <1>1, <1>2, <1>4, Inserted
<1>6. e.id.message \in Msgs(q)
  BY DEF Msgs, e
<1> QED BY <1>2, <1>4, <1>5, <1>6 DEF r, e, y

LEMMA Marked ==
  ASSUME NEW n, NEW q \in Seq([id : n, interrupt : BOOLEAN]), NEW i \in DOMAIN q
  PROVE  /\ [q EXCEPT ![i].interrupt = TRUE] \in Seq([id : n, interrupt : BOOLEAN])
         /\ Once(q) => Once([q EXCEPT ![i].interrupt = TRUE])
         /\ Msgs([q EXCEPT ![i].interrupt = TRUE]) = Msgs(q)
<1> DEFINE E == [id : n, interrupt : BOOLEAN]
           e == [q[i] EXCEPT !.interrupt = TRUE]
           y == [q EXCEPT ![i] = e]
<1>1. i \in 1 .. Len(q) /\ q[i] \in E /\ DOMAIN q = 1 .. Len(q)
  BY LenProperties
<1>2. e \in E /\ e.id = q[i].id
  BY <1>1
<1> HIDE DEF e, E
<1>3. /\ y \in Seq(E) /\ Len(y) = Len(q)
      /\ \A j \in 1 .. Len(q) : y[j] = IF j = i THEN e ELSE q[j]
  BY <1>1, <1>2, ExceptSeq DEF E
<1> HIDE DEF y
<1>4. DOMAIN y = DOMAIN q /\ \A j \in DOMAIN q : y[j].id = q[j].id
  BY <1>1, <1>2, <1>3, LenProperties
<1>5. (Once(q) => Once(y)) /\ Msgs(y) = Msgs(q)
  BY <1>4 DEF Once, Msgs
<1>6. [q EXCEPT ![i].interrupt = TRUE] = y
  BY DEF y, e
<1> QED BY <1>3, <1>5, <1>6 DEF E

(***************************************************************************)
(* The shape of the state.  The copy of an id is one of as many as there   *)
(* were refused starts.                                                    *)
(***************************************************************************)
Ids(n) == [message : Message, copy : 0 .. n]
Entries(n) == [id : Ids(n), interrupt : BOOLEAN]

Sending  == {"alive", "take", "begin", "refuse", "enqueue"}
Carrying == {"launch", "spawn", "restore"}
Claiming == {"remove", "giveback", "restorePause", "restoreFree"} \cup Carrying
Errand   == Sending \cup {"lift", "kick", "judge", "look", "still", "waits", "move", "cancel", "ask"}
Place == Errand \cup Claiming \cup
         {"new", "guard", "list", "vacate", "pause", "setpause", "leave", "claim", "running",
          "plan", "close", "done"}

Progress(n) ==
  [pc : Place, mode : {"settle", "auto", "queue", "interrupt", "resume", "prioritize", "clear"},
   saw : Id \cup {NoRun}, holding : Id \cup {NoRun}, head : Entries(n) \cup {NoEntry},
   outcome : {"completed", "failed", "cancelled"}, attempt : 0 .. MaxDrainAttempts]

(* A settling run is on no errand; what a task reads at a place it has set *)
(* before; a start that is put back was refused.                           *)
Shape(t, r, n) ==
  /\ r.pc \in Errand => t \notin Id
  /\ r.pc \in {"lift", "move"} => r.mode \in {"interrupt", "prioritize", "resume", "clear"}
  /\ r.pc \in Claiming \cup {"pause", "setpause", "claim", "move"} => r.head \in Entries(n)
  /\ r.pc = "restore" => r.head.id.copy < n
  /\ r.pc \in {"vacate", "pause", "setpause", "claim", "remove", "giveback"}
       => r.attempt < MaxDrainAttempts

Sound(t, r, n) == r \in Progress(n) /\ Shape(t, r, n)

QType ==
  /\ queue \in Seq(Entries(failures))
  /\ holder \in Id \cup {NoRun}
  /\ task \in [Tasks -> Progress(failures)]
  /\ \A t \in Tasks : Shape(t, task[t], failures)
  /\ ran \in [Message -> Nat]
  /\ failures \in 0 .. MaxFailures /\ crashes \in Nat

LEMMA MoreIds ==
  ASSUME NEW n \in Nat, NEW k \in Nat, n <= k
  PROVE  /\ Ids(n) \subseteq Ids(k) /\ Entries(n) \subseteq Entries(k)
         /\ Progress(n) \subseteq Progress(k)
         /\ Seq(Entries(n)) \subseteq Seq(Entries(k))
         /\ \A t, r : Shape(t, r, n) /\ r \in Progress(n) => Shape(t, r, k)
<1>1. Ids(n) \subseteq Ids(k)
  BY DEF Ids
<1>2. Entries(n) \subseteq Entries(k)
  BY <1>1 DEF Entries
<1>3. Progress(n) \subseteq Progress(k)
  BY <1>2 DEF Progress
<1>4. Seq(Entries(n)) \subseteq Seq(Entries(k))
  BY <1>2
<1>5. ASSUME NEW t, NEW r \in Progress(n), Shape(t, r, n) PROVE Shape(t, r, k)
  <2>1. r.pc = "restore" => r.head.id.copy \in Nat
    BY <1>5 DEF Shape, Claiming, Carrying, Entries, Ids
  <2> QED BY <1>2, <1>5, <2>1 DEF Shape
<1> QED BY <1>1, <1>2, <1>3, <1>4, <1>5

LEMMA SomeIds == failures \in 0 .. MaxFailures => Ids(failures) \subseteq Id
BY MaximaAssumption DEF Ids, Id

(* A task at rest. *)
LEMMA AtRest ==
  ASSUME NEW n \in Nat, NEW t
  PROVE  /\ Sound(t, Fresh, n) /\ Sound(t, Over, n)
         /\ Sound(t, [Fresh EXCEPT !.pc = "running"], n)
BY MaximaAssumption DEF Sound, Fresh, Over, Progress, Shape, Place, Errand, Sending, Claiming,
                        Carrying

(* One task takes a step, or one starts a run. *)
TaskType ==
  /\ task' \in [Tasks -> Progress(failures')]
  /\ \A u \in Tasks : Shape(u, task'[u], failures')

Counts == failures' \in {failures, failures + 1} /\ failures' <= MaxFailures
Takes(t, n) == task' = [task EXCEPT ![t] = n] /\ Sound(t, n, failures')

LEMMA TaskStep ==
  ASSUME QType, NEW t \in Tasks, NEW n, Counts, Takes(t, n)
  PROVE  TaskType
<1>1. failures \in Nat /\ failures' \in Nat /\ failures <= failures'
  BY DEF QType, Counts
<1>2. \A u \in Tasks : task[u] \in Progress(failures') /\ Shape(u, task[u], failures')
  BY <1>1, MoreIds DEF QType
<1> QED BY <1>2 DEF QType, Sound, TaskType, Takes

LEMMA BeginStep ==
  ASSUME QType, NEW t \in Tasks, NEW id \in Id, NEW after, Begins(t, id, after),
         UNCHANGED failures,
         after = "done" \/ Sound(t, [task[t] EXCEPT !.pc = after], failures)
  PROVE  TaskType /\ ran' \in [Message -> Nat]
<1> DEFINE n == IF after = "done" THEN Over ELSE [task[t] EXCEPT !.pc = after]
           b == [Fresh EXCEPT !.pc = "running"]
<1>1. failures \in Nat /\ id \in Tasks /\ id.message \in Message
  BY MaximaAssumption DEF QType, Tasks, Id
<1>2. Sound(t, n, failures) /\ Sound(id, b, failures)
  BY <1>1, AtRest
<1>3. task' = [task EXCEPT ![t] = n, ![id] = b]
  BY DEF Begins
<1>4. \A u \in Tasks : Sound(u, task[u], failures)
  BY DEF QType, Sound
<1> HIDE DEF n, b
<1>5. \A u \in Tasks : Sound(u, task'[u], failures)
  BY <1>1, <1>2, <1>3, <1>4 DEF QType
<1>6. ran' \in [Message -> Nat]
  BY <1>1 DEF Begins, QType
<1> QED BY <1>3, <1>5, <1>6 DEF QType, Sound, TaskType

(* What a task has to have set before it goes to a place. *)
Allows(t, to, n) ==
  /\ to \in Place
  /\ to \in Errand => t \notin Id
  /\ to \in {"lift", "move"} => task[t].mode \in {"interrupt", "prioritize", "resume", "clear"}
  /\ to \in Claiming \cup {"pause", "setpause", "claim", "move"} => task[t].head \in Entries(n)
  /\ to = "restore" => task[t].head.id.copy < n
  /\ to \in {"vacate", "pause", "setpause", "claim", "remove", "giveback"}
       => task[t].attempt < MaxDrainAttempts

LEMMA GotoStep ==
  ASSUME QType, NEW t \in Tasks, NEW to, Goto(t, to), Counts,
         to = "done" \/ Allows(t, to, failures')
  PROVE  TaskType
<1>1. failures \in Nat /\ failures' \in Nat /\ failures <= failures'
  BY DEF QType, Counts
<1>2. task[t] \in Progress(failures')
  BY <1>1, MoreIds DEF QType
<1> DEFINE r == [task[t] EXCEPT !.pc = to]
<1>3. CASE to = "done"
  <2>1. Takes(t, Over)
    BY <1>1, <1>3, AtRest DEF Goto, Takes
  <2> QED BY <2>1, TaskStep
<1>4. CASE to # "done"
  <2>1. r \in Progress(failures') /\ r.pc = to /\ r.mode = task[t].mode
        /\ r.head = task[t].head /\ r.attempt = task[t].attempt
    BY <1>2, <1>4 DEF Progress, Allows
  <2>2. task' = [task EXCEPT ![t] = r]
    BY <1>4 DEF Goto
  <2> HIDE DEF r
  <2>3. Takes(t, r)
    BY <1>4, <2>1, <2>2 DEF Allows, Shape, Sound, Takes
  <2> QED BY <2>3, TaskStep
<1> QED BY <1>3, <1>4

LEMMA BecomesStep ==
  ASSUME QType, NEW t \in Tasks, NEW n, Becomes(t, n), UNCHANGED failures, Sound(t, n, failures)
  PROVE  TaskType
<1>1. Counts
  BY MaximaAssumption DEF QType, Counts
<1>2. Takes(t, n)
  BY DEF Becomes, Takes
<1> QED BY <1>1, <1>2, TaskStep

LEMMA FailsStep ==
  ASSUME QType, Fails
  PROVE  /\ failures' = failures + 1 /\ failures' \in 0 .. MaxFailures /\ Counts
         /\ queue \in Seq(Entries(failures'))
BY MaximaAssumption, MoreIds DEF QType, Fails, Counts

(* What each task sets. *)
LEMMA Reads ==
  ASSUME QType, NEW t \in Tasks
  PROVE  /\ task[t] \in Progress(failures) /\ Shape(t, task[t], failures)
         /\ failures \in Nat /\ failures <= MaxFailures
         /\ task[t].saw \in Id \cup {NoRun} /\ task[t].holding \in Id \cup {NoRun}
         /\ task[t].mode \in {"settle", "auto", "queue", "interrupt", "resume", "prioritize", "clear"}
         /\ task[t].attempt \in 0 .. MaxDrainAttempts
         /\ t \in Message \cup Visit => t \notin Id
BY NamesAssumption, MaximaAssumption DEF QType, Progress
(* The type of the state, of every action. *)
LEMMA Typed ==
  ASSUME TaskType, failures' \in 0 .. MaxFailures, queue' \in Seq(Entries(failures')),
         holder' \in Id \cup {NoRun}, ran' \in [Message -> Nat], crashes' \in Nat
  PROVE  QType'
BY DEF QType, TaskType

Elsewhere == UNCHANGED <<queue, holder, ran, failures, crashes>>

LEMMA TypedAsIs == ASSUME QType, TaskType, Elsewhere PROVE QType'
BY Typed DEF QType, Elsewhere

LEMMA GoesOn ==
  ASSUME QType, NEW t \in Tasks, NEW to, Goto(t, to), UNCHANGED failures,
         to = "done" \/ Allows(t, to, failures)
  PROVE  TaskType
<1>1. Counts
  BY MaximaAssumption DEF QType, Counts
<1>2. to = "done" \/ Allows(t, to, failures')
  OBVIOUS
<1> QED BY <1>1, <1>2, GotoStep

LEMMA DrainType ==
  ASSUME QType, NEW t \in Tasks, Lift(t) \/ Kick(t) \/ Judge(t) \/ Guard(t) \/ List(t)
  PROVE  QType'
<1> USE DEF At
<1>0. UNCHANGED failures /\ Elsewhere
  BY DEF Lift, Kick, Judge, Guard, List, Elsewhere, store, runner, history
<1>1. CASE Lift(t)
  <2> DEFINE to == CASE task[t].mode = "interrupt"  -> "cancel"
                     [] task[t].mode = "prioritize" -> "look"
                     [] task[t].mode = "resume"     -> "kick"
                     [] task[t].mode = "clear"      -> "done"
  <2>1. Goto(t, to)
    BY <1>1 DEF Lift
  <2>2. to \in {"cancel", "look", "kick", "done"} /\ t \notin Id
    BY <1>1, Reads DEF Lift, Shape, Errand
  <2> HIDE DEF to
  <2>3. to = "done" \/ Allows(t, to, failures)
    BY <2>2 DEF Allows, Place, Errand, Claiming, Carrying
  <2> QED BY <1>0, <2>1, <2>3, GoesOn, TypedAsIs
<1>2. CASE Kick(t)
  <2> DEFINE n == [task[t] EXCEPT !.pc = "judge", !.saw = holder]
  <2>1. Becomes(t, n) /\ t \notin Id
    BY <1>2, Reads DEF Kick, Shape, Errand
  <2>2. n \in Progress(failures) /\ n.pc = "judge"
    BY Reads DEF QType, Progress, Place, Errand
  <2> HIDE DEF n
  <2>3. Sound(t, n, failures)
    BY <2>1, <2>2 DEF Sound, Shape, Claiming, Carrying
  <2> QED BY <1>0, <2>1, <2>3, BecomesStep, TypedAsIs
<1>3. CASE Judge(t)
  <2>1. CASE Goto(t, "done")
    BY <1>0, <2>1, GoesOn, TypedAsIs
  <2> DEFINE n == [task[t] EXCEPT !.pc = "guard", !.holding = task[t].saw,
                                  !.outcome = "completed"]
  <2>2. CASE Becomes(t, n)
    <3>1. n \in Progress(failures) /\ n.pc = "guard"
      BY Reads DEF Progress, Place
    <3> HIDE DEF n
    <3>2. Sound(t, n, failures)
      BY <3>1 DEF Sound, Shape, Claiming, Carrying, Errand, Sending
    <3> QED BY <1>0, <2>2, <3>2, BecomesStep, TypedAsIs
  <2> QED BY <1>3, <2>1, <2>2 DEF Judge
<1>4. CASE Guard(t)
  <2> DEFINE to == IF holder = task[t].holding THEN "list" ELSE AfterDrain(t)
  <2>1. Goto(t, to)
    BY <1>4 DEF Guard
  <2>2. to \in {"list", "close", "done"}
    BY DEF AfterDrain
  <2> HIDE DEF to
  <2>3. to = "done" \/ Allows(t, to, failures)
    BY <2>2 DEF Allows, Place, Errand, Claiming, Carrying, Sending
  <2> QED BY <1>0, <2>1, <2>3, GoesOn, TypedAsIs
<1>5. CASE List(t)
  <2>1. ASSUME NEW to \in {"leave", "close", "done"}, Goto(t, to) PROVE QType'
    <3>1. to = "done" \/ Allows(t, to, failures)
      BY <2>1 DEF Allows, Place, Errand, Claiming, Carrying, Sending
    <3> QED BY <1>0, <2>1, <3>1, GoesOn, TypedAsIs
  <2>2. ASSUME task[t].attempt < MaxDrainAttempts, Goto(t, "vacate") PROVE QType'
    <3>1. Allows(t, "vacate", failures)
      BY <2>2 DEF Allows, Place, Errand, Claiming, Carrying, Sending
    <3> QED BY <1>0, <2>2, <3>1, GoesOn, TypedAsIs
  <2> DEFINE n == [task[t] EXCEPT !.pc = "pause", !.head = Head(queue)]
  <2>3. ASSUME task[t].attempt < MaxDrainAttempts, queue # <<>>, Becomes(t, n) PROVE QType'
    <3>1. Head(queue) \in Entries(failures)
      BY <2>3, HeadTailProperties DEF QType
    <3>2. /\ n \in Progress(failures) /\ n.pc = "pause" /\ n.head \in Entries(failures)
          /\ n.attempt < MaxDrainAttempts
      BY <2>3, <3>1, Reads DEF Progress, Place
    <3> HIDE DEF n
    <3>3. Sound(t, n, failures)
      BY <3>2 DEF Sound, Shape, Claiming, Carrying, Errand, Sending
    <3> QED BY <1>0, <2>3, <3>3, BecomesStep, TypedAsIs
  <2>4. task[t].attempt \in 0 .. MaxDrainAttempts /\ MaxDrainAttempts \in Nat
    BY Reads, MaximaAssumption
  <2>5. AfterDrain(t) \in {"close", "done"}
    BY DEF AfterDrain
  <2>6. CASE task[t].attempt = MaxDrainAttempts
    BY <1>5, <2>1, <2>4, <2>5, <2>6 DEF List
  <2>7. CASE task[t].attempt < MaxDrainAttempts /\ queue = <<>>
    BY <1>5, <2>1, <2>2, <2>5, <2>4, <2>7 DEF List
  <2>8. CASE task[t].attempt < MaxDrainAttempts /\ queue # <<>>
    <3>1. Becomes(t, n)
      BY <1>5, <2>4, <2>8 DEF List
    <3> QED BY <2>3, <2>8, <3>1
  <2> QED BY <2>4, <2>6, <2>7, <2>8
<1> QED BY <1>1, <1>2, <1>3, <1>4, <1>5
LEMMA AgainType ==
  ASSUME QType, NEW t \in Tasks, Again(t), task[t].attempt < MaxDrainAttempts, UNCHANGED failures
  PROVE  TaskType
<1> DEFINE n == [task[t] EXCEPT !.pc = "list", !.holding = NoRun, !.head = NoEntry,
                                !.attempt = @ + 1]
<1>1. Becomes(t, n)
  BY DEF Again
<1>2. n \in Progress(failures) /\ n.pc = "list"
  <2>1. task[t].attempt + 1 \in 0 .. MaxDrainAttempts /\ "list" \in Place
    BY Reads, MaximaAssumption DEF Place
  <2> QED BY <2>1, Reads DEF Progress
<1> HIDE DEF n
<1>3. Sound(t, n, failures)
  BY <1>2 DEF Sound, Shape, Claiming, Carrying, Errand, Sending
<1> QED BY <1>1, <1>3, BecomesStep

LEMMA Released ==
  ASSUME QType, NEW id, Release(id)
  PROVE  holder' \in Id \cup {NoRun}
BY DEF QType, Release

LEMMA ThenAfter ==
  ASSUME QType, NEW t \in Tasks, NEW to \in {"close", "done", "leave", "restorePause"},
         Goto(t, to), UNCHANGED failures, to = "restorePause" => task[t].head \in Entries(failures)
  PROVE  TaskType
<1>1. to = "done" \/ Allows(t, to, failures)
  BY DEF Allows, Place, Errand, Claiming, Carrying, Sending
<1> QED BY <1>1, GoesOn

LEMMA PlanType ==
  ASSUME QType, NEW t \in Tasks,
         Vacate(t) \/ ReadPause(t) \/ SetPause(t) \/ Leave(t) \/ Claim(t) \/ TakeOut(t)
           \/ GiveBack(t)
  PROVE  QType'
<1> USE DEF At
<1>0. AfterDrain(t) \in {"close", "done"}
  BY DEF AfterDrain
<1>1. /\ task[t].pc \in {"vacate", "pause", "setpause", "claim", "remove", "giveback"}
           => task[t].attempt < MaxDrainAttempts
      /\ task[t].pc \in Claiming \cup {"pause", "setpause", "claim", "move"}
           => task[t].head \in Entries(failures)
  BY Reads DEF Shape
<1>2. CASE Vacate(t)
  <2>1. TaskType
    BY <1>1, <1>2, AgainType DEF Vacate, history
  <2>2. holder' \in Id \cup {NoRun}
    BY <1>2, Released DEF Vacate
  <2> QED BY <1>2, <2>1, <2>2, Typed DEF Vacate, runner, history, QType
<1>3. CASE ReadPause(t)
  <2>1. ASSUME NEW to \in {"leave", "setpause", "claim"}, Goto(t, to), Counts PROVE TaskType
    <3>1. task[t].head \in Entries(failures') /\ task[t].attempt < MaxDrainAttempts
      BY <1>1, <1>3, <2>1, MoreIds DEF ReadPause, QType, Counts
    <3>2. Allows(t, to, failures')
      BY <3>1 DEF Allows, Place, Errand, Claiming, Carrying, Sending
    <3> QED BY <2>1, <3>2, GotoStep
  <2>2. /\ Counts /\ failures' \in 0 .. MaxFailures /\ queue \in Seq(Entries(failures'))
        /\ \E to \in {"leave", "setpause", "claim"} : Goto(t, to)
    <3>1. CASE UNCHANGED failures
      <4>1. \E to \in {"leave", "setpause", "claim"} : Goto(t, to)
        BY <1>3 DEF ReadPause
      <4> QED BY <3>1, <4>1, MaximaAssumption DEF Counts, QType
    <3>2. CASE Fails /\ Goto(t, "setpause")
      BY <3>2, FailsStep
    <3> QED BY <1>3, <3>1, <3>2 DEF ReadPause
  <2>3. TaskType
    BY <2>1, <2>2
  <2> QED BY <1>3, <2>2, <2>3, Typed DEF ReadPause, store, runner, QType
<1>4. CASE SetPause(t) \/ Leave(t)
  <2>1. TaskType
    BY <1>0, <1>4, ThenAfter DEF SetPause, Leave, history
  <2>2. holder' \in Id \cup {NoRun}
    BY <1>4, Released DEF SetPause, Leave, QType
  <2> QED BY <1>4, <2>1, <2>2, Typed DEF SetPause, Leave, runner, history, QType
<1>5. CASE Claim(t)
  <2> DEFINE id == task[t].head.id
             n == [task[t] EXCEPT !.pc = "remove", !.holding = id]
  <2>1. id \in Id /\ task[t].head \in Entries(failures)
    BY <1>1, <1>5, SomeIds DEF Claim, QType, Entries
  <2>2. CASE holder' = id /\ Becomes(t, n)
    <3>1. /\ n \in Progress(failures) /\ n.pc = "remove" /\ n.head \in Entries(failures)
          /\ n.attempt < MaxDrainAttempts
      BY <1>1, <1>5, <2>1, Reads DEF Claim, Progress, Place, Claiming
    <3> HIDE DEF n
    <3>2. Sound(t, n, failures)
      BY <3>1 DEF Sound, Shape, Claiming, Carrying, Errand, Sending
    <3>3. TaskType
      BY <1>5, <2>2, <3>2, BecomesStep DEF Claim, history
    <3> HIDE DEF id
    <3> QED BY <1>5, <2>1, <2>2, <3>3, Typed DEF Claim, runner, history, QType
  <2>3. CASE Goto(t, AfterDrain(t)) /\ UNCHANGED holder
    <3>1. TaskType
      BY <1>0, <1>5, <2>3, ThenAfter DEF Claim, history
    <3> QED BY <1>5, <2>3, <3>1, Typed DEF Claim, runner, history, QType
  <2> QED BY <1>5, <2>2, <2>3 DEF Claim
<1>6. CASE TakeOut(t)
  <2>1. ASSUME NEW to \in {"launch", "giveback"}, Goto(t, to) PROVE TaskType
    <3>1. Allows(t, to, failures) /\ UNCHANGED failures
      BY <1>1, <1>6 DEF TakeOut, Allows, Place, Errand, Claiming, Carrying, Sending, history
    <3> QED BY <2>1, <3>1, GoesOn
  <2>2. queue' \in Seq(Entries(failures)) /\ TaskType
    <3>1. CASE Queued(task[t].head.id)
      <4>1. Position(task[t].head.id) \in DOMAIN queue
        BY <3>1 DEF Queued, Position
      <4>2. Without(task[t].head.id) \in Seq(Entries(failures))
        BY <4>1, RemoveOne DEF Without, QType
      <4> QED BY <1>6, <2>1, <3>1, <4>2 DEF TakeOut
    <3>2. CASE ~Queued(task[t].head.id)
      BY <1>6, <2>1, <3>2 DEF TakeOut, QType
    <3> QED BY <3>1, <3>2
  <2> QED BY <1>6, <2>2, Typed DEF TakeOut, runner, history, QType
<1>7. CASE GiveBack(t)
  <2>1. TaskType
    BY <1>1, <1>7, AgainType DEF GiveBack, history
  <2>2. holder' \in Id \cup {NoRun}
    BY <1>7, Released DEF GiveBack
  <2> QED BY <1>7, <2>1, <2>2, Typed DEF GiveBack, runner, history, QType
<1> QED BY <1>2, <1>3, <1>4, <1>5, <1>6, <1>7
(* The run that a task starts, or cannot start, was its own message or the  *)
(* head that it took out.                                                   *)
LEMMA BeginType ==
  ASSUME QType, NEW t \in Tasks, NEW id \in Id, NEW after \in {"close", "done"},
         Begins(t, id, after), UNCHANGED <<queue, holder, failures, crashes>>
  PROVE  QType'
<1> DEFINE n == [task[t] EXCEPT !.pc = after]
<1>1. n \in Progress(failures) /\ n.pc = after
  BY Reads DEF Progress, Place
<1> HIDE DEF n
<1>2. after = "done" \/ Sound(t, n, failures)
  BY <1>1 DEF Sound, Shape, Claiming, Carrying, Errand, Sending
<1>3. TaskType /\ ran' \in [Message -> Nat]
  BY <1>2, BeginStep DEF n
<1> QED BY <1>3, Typed DEF QType

LEMMA RefusedType ==
  ASSUME QType, NEW t \in Tasks, NEW to \in {"refuse", "restore"}, Goto(t, to), Fails,
         to = "restore" => task[t].head \in Entries(failures), to = "refuse" => t \notin Id,
         UNCHANGED <<queue, holder, ran, crashes>>
  PROVE  QType'
<1>1. /\ failures' = failures + 1 /\ failures' \in 0 .. MaxFailures /\ Counts
      /\ queue \in Seq(Entries(failures'))
  BY FailsStep
<1>2. to = "restore" => task[t].head \in Entries(failures') /\ task[t].head.id.copy < failures'
  <2>1. Entries(failures) \subseteq Entries(failures') /\ failures \in Nat
    BY <1>1, MoreIds DEF QType
  <2>2. to = "restore" => task[t].head.id.copy \in 0 .. failures
    BY DEF Entries, Ids
  <2> QED BY <1>1, <2>1, <2>2
<1>3. Allows(t, to, failures')
  BY <1>2 DEF Allows, Place, Errand, Claiming, Carrying, Sending
<1>4. TaskType
  BY <1>1, <1>3, GotoStep
<1> QED BY <1>1, <1>4, Typed DEF QType

LEMMA StartsType ==
  ASSUME QType, NEW t \in Tasks, Starts(t) \/ (t \in Id /\ Spawn(t))
  PROVE  QType'
<1> USE DEF At
<1>0. AfterDrain(t) \in {"close", "done"}
  BY DEF AfterDrain
<1>1. /\ task[t].pc \in Claiming => task[t].head \in Entries(failures)
      /\ task[t].pc = "restore" => task[t].head.id.copy < failures
  BY Reads DEF Shape
<1>2. task[t].head \in Entries(failures) => task[t].head.id \in Id
  BY SomeIds DEF QType, Entries
<1>3. CASE Launch(t) \/ (t \in Id /\ Spawn(t))
  <2>1. task[t].head \in Entries(failures)
    BY <1>1, <1>3 DEF Launch, Spawn, Claiming, Carrying
  <2>2. ASSUME NEW after \in {"close", "done"}, Begins(t, task[t].head.id, after),
               UNCHANGED <<store, failures, crashes>>
        PROVE  QType'
    BY <1>2, <2>1, <2>2, BeginType DEF store
  <2>3. ASSUME Goto(t, "restore"), Fails, UNCHANGED <<store, ran, crashes>> PROVE QType'
    BY <2>1, <2>3, RefusedType DEF store
  <2> QED BY <1>0, <1>3, <2>2, <2>3 DEF Launch, Spawn, runner
<1>4. CASE Restore(t)
  <2> DEFINE again == [task[t].head.id EXCEPT !.copy = @ + 1]
             e == [id |-> again, interrupt |-> FALSE]
  <2>1. e \in Entries(failures)
    <3>1. task[t].head \in Entries(failures) /\ task[t].head.id.copy < failures
      BY <1>1, <1>4 DEF Restore, Claiming, Carrying
    <3>2. task[t].head.id \in Ids(failures) /\ failures \in Nat
      BY <3>1 DEF Entries, QType
    <3>3. again \in Ids(failures)
      BY <3>1, <3>2 DEF Ids
    <3> QED BY <3>3 DEF Entries
  <2>2. queue' = <<e>> \o queue
    BY <1>4 DEF Restore
  <2> HIDE DEF e
  <2>3. queue' \in Seq(Entries(failures))
    BY <2>1, <2>2, PrependOne DEF QType
  <2>4. TaskType
    BY <1>1, <1>4, ThenAfter DEF Restore, Claiming, Carrying, history
  <2> QED BY <1>4, <2>3, <2>4, Typed DEF Restore, runner, history, QType
<1>5. CASE RestorePause(t)
  <2>1. Allows(t, "restoreFree", failures)
    BY <1>1, <1>5 DEF RestorePause, Allows, Place, Errand, Claiming, Carrying, Sending
  <2>2. TaskType
    BY <1>5, <2>1, GoesOn DEF RestorePause, history
  <2> QED BY <1>5, <2>2, Typed DEF RestorePause, runner, history, QType
<1>6. CASE RestoreFree(t)
  <2>1. TaskType
    BY <1>0, <1>6, ThenAfter DEF RestoreFree, history
  <2>2. holder' \in Id \cup {NoRun}
    BY <1>6, Released DEF RestoreFree
  <2> QED BY <1>6, <2>1, <2>2, Typed DEF RestoreFree, history, QType
<1> QED BY <1>3, <1>4, <1>5, <1>6 DEF Starts

LEMMA SendType ==
  ASSUME QType, NEW m \in Message, SendStep(m)
  PROVE  QType'
<1> USE DEF At
<1>0. m \in Tasks /\ m \notin Id /\ First(m) \in Ids(failures) /\ First(m) \in Id
  BY NamesAssumption, MaximaAssumption DEF Tasks, First, Ids, Id, QType
<1>1. CASE SendLooks(m)
  <2>1. PICK mode \in Modes :
          Becomes(m, [task[m] EXCEPT !.pc = "alive", !.mode = mode, !.saw = holder])
    BY <1>1 DEF SendLooks
  <2> DEFINE n == [task[m] EXCEPT !.pc = "alive", !.mode = mode, !.saw = holder]
  <2>2. n \in Progress(failures) /\ n.pc = "alive"
    <3>1. mode \in {"auto", "queue", "interrupt"} /\ holder \in Id \cup {NoRun}
      BY ModesAssumption DEF QType
    <3> QED BY <1>0, <3>1, Reads DEF Progress, Place, Errand, Sending
  <2>3. Becomes(m, n)
    BY <2>1
  <2> HIDE DEF n
  <2>4. Sound(m, n, failures)
    BY <1>0, <2>2 DEF Sound, Shape, Claiming, Carrying
  <2>5. TaskType
    BY <1>0, <1>1, <2>3, <2>4, BecomesStep DEF SendLooks, history
  <2> QED BY <1>1, <2>5, Typed DEF SendLooks, store, history, QType
<1>2. CASE SendJudges(m)
  <2> DEFINE free == task[m].saw = NoRun \/ ~Alive(task[m].saw)
             to == IF free /\ task[m].mode # "queue" THEN "take" ELSE "enqueue"
             mode == IF free /\ task[m].mode = "interrupt" THEN "auto" ELSE task[m].mode
             n == [task[m] EXCEPT !.pc = to, !.mode = mode]
  <2>1. Becomes(m, n)
    BY <1>0, <1>2, Reads DEF SendJudges, Progress
  <2>2. n \in Progress(failures) /\ n.pc \in {"take", "enqueue"}
    <3>1. mode \in {"settle", "auto", "queue", "interrupt", "resume", "prioritize", "clear"}
          /\ to \in {"take", "enqueue"}
      BY <1>0, Reads
    <3> HIDE DEF mode, to
    <3> QED BY <1>0, <3>1, Reads DEF Progress, Place, Errand, Sending
  <2> HIDE DEF n
  <2>3. Sound(m, n, failures)
    BY <1>0, <2>2 DEF Sound, Shape, Claiming, Carrying
  <2>4. TaskType
    BY <1>0, <1>2, <2>1, <2>3, BecomesStep DEF SendJudges, history
  <2> QED BY <1>2, <2>4, Typed DEF SendJudges, store, history, QType
<1>3. ASSUME NEW to \in {"begin", "enqueue", "kick"}, Goto(m, to), UNCHANGED failures
      PROVE  TaskType
  <2>1. Allows(m, to, failures)
    BY <1>0 DEF Allows, Place, Errand, Claiming, Carrying, Sending
  <2> QED BY <1>0, <1>3, <2>1, GoesOn
<1>4. CASE SendTakes(m)
  <2>1. TaskType
    BY <1>3, <1>4 DEF SendTakes, history
  <2>2. holder' \in Id \cup {NoRun}
    BY <1>0, <1>4 DEF SendTakes, QType
  <2> QED BY <1>4, <2>1, <2>2, Typed DEF SendTakes, history, QType
<1>5. CASE SendBegins(m)
  <2>1. ASSUME Begins(m, First(m), "done"), UNCHANGED <<store, failures, crashes>> PROVE QType'
    BY <1>0, <2>1, BeginType DEF store
  <2>2. ASSUME Fails, Goto(m, "refuse"), UNCHANGED <<store, ran, crashes>> PROVE QType'
    BY <1>0, <2>2, RefusedType DEF store
  <2> QED BY <1>5, <2>1, <2>2 DEF SendBegins
<1>6. CASE SendRefused(m)
  <2>1. TaskType
    BY <1>0, <1>6, ThenAfter DEF SendRefused
  <2>2. holder' \in Id \cup {NoRun}
    BY <1>6, Released DEF SendRefused
  <2> QED BY <1>6, <2>1, <2>2, Typed DEF SendRefused, QType
<1>7. CASE Enqueue(m)
  <2> DEFINE e == [id |-> First(m), interrupt |-> task[m].mode = "interrupt"]
  <2>1. e \in Entries(failures)
    BY <1>0 DEF Entries
  <2>2. queue' = <<e>> \o queue \/ queue' = Append(queue, e)
    BY <1>7 DEF Enqueue
  <2> HIDE DEF e
  <2>3. queue' \in Seq(Entries(failures))
    <3>1. queue \in Seq(Entries(failures))
      BY DEF QType
    <3>2. <<e>> \o queue \in Seq(Entries(failures))
      BY <2>1, <3>1, PrependOne
    <3>3. Append(queue, e) \in Seq(Entries(failures))
      BY <2>1, <3>1, AppendProperties
    <3> QED BY <2>2, <3>2, <3>3
  <2>4. TaskType
    <3>1. CASE task[m].mode = "interrupt"
      <4>1. Goto(m, "lift") /\ UNCHANGED failures
        BY <1>7, <3>1 DEF Enqueue, history
      <4>2. Allows(m, "lift", failures)
        BY <1>0, <3>1 DEF Allows, Place, Errand, Claiming, Carrying, Sending
      <4> QED BY <1>0, <4>1, <4>2, GoesOn
    <3>2. CASE task[m].mode # "interrupt"
      BY <1>3, <1>7, <3>2 DEF Enqueue, history
    <3> QED BY <3>1, <3>2
  <2> QED BY <1>7, <2>3, <2>4, Typed DEF Enqueue, history, QType
<1> QED BY <1>1, <1>2, <1>4, <1>5, <1>6, <1>7 DEF SendStep
LEMMA RequestType ==
  ASSUME QType, NEW v \in Visit, QueueRequest(v) \/ Stop(v) \/ AskStop(v)
  PROVE  QType'
<1> USE DEF At
<1>0. v \in Tasks /\ v \notin Id
  BY NamesAssumption DEF Tasks
<1>1. queue \in Seq(Entries(failures))
  BY DEF QType
<1>2. ASSUME Elsewhere, NEW n, Becomes(v, n), n \in Progress(failures),
             n.pc \in {"lift", "still", "cancel"} \/ (n.pc = "move" /\ n.head \in Entries(failures)),
             n.mode \in {"interrupt", "prioritize", "resume", "clear"} \/ n.pc \in {"still", "cancel"}
      PROVE  QType'
  <2>1. Sound(v, n, failures)
    BY <1>0, <1>2 DEF Sound, Shape, Claiming, Carrying
  <2>2. TaskType
    BY <1>0, <1>2, <2>1, BecomesStep DEF Elsewhere
  <2> QED BY <1>2, <2>2, TypedAsIs
<1>3. ASSUME UNCHANGED failures, NEW to, Goto(v, to),
             to \in {"done", "kick", "waits", "cancel"}
               \/ (to = "lift" /\ task[v].mode \in {"interrupt", "prioritize", "resume", "clear"})
      PROVE  TaskType
  <2>1. to = "done" \/ Allows(v, to, failures)
    BY <1>0, <1>3 DEF Allows, Place, Errand, Claiming, Carrying, Sending
  <2> QED BY <1>0, <1>3, <2>1, GoesOn
<1>5. CASE Resume(v)
  <2> DEFINE n == [task[v] EXCEPT !.pc = "lift", !.mode = "resume"]
  <2>1. n \in Progress(failures) /\ n.pc = "lift" /\ n.mode = "resume"
    BY <1>0, Reads DEF Progress, Place, Errand
  <2>2. Becomes(v, n) /\ Elsewhere
    BY <1>5 DEF Resume, Elsewhere, store, history
  <2> HIDE DEF n
  <2> QED BY <1>2, <2>1, <2>2
<1>6. CASE TakeBack(v) \/ Reorder(v)
  <2>1. PICK i \in DOMAIN queue, j \in DOMAIN queue :
          queue' = RemoveAt(queue, i) \/ queue' = InsertAt(RemoveAt(queue, i), j, queue[i])
    BY <1>6 DEF TakeBack, Reorder
  <2>2. RemoveAt(queue, i) \in Seq(Entries(failures)) /\ Len(RemoveAt(queue, i)) = Len(queue) - 1
    BY <1>1, RemoveOne
  <2>3. queue[i] \in Entries(failures) /\ j \in 1 .. Len(RemoveAt(queue, i)) + 1
    BY <1>1, <2>2, LenProperties
  <2>4. InsertAt(RemoveAt(queue, i), j, queue[i]) \in Seq(Entries(failures))
    BY <2>2, <2>3, InsertOne
  <2>5. TaskType
    BY <1>3, <1>6 DEF TakeBack, Reorder, history
  <2> QED BY <1>6, <2>1, <2>2, <2>4, <2>5, Typed DEF TakeBack, Reorder, history, QType
<1>7. CASE Clear(v)
  <2> DEFINE n == [task[v] EXCEPT !.pc = "lift", !.mode = "clear"]
  <2>1. n \in Progress(failures) /\ n.pc = "lift" /\ n.mode = "clear"
    BY <1>0, Reads DEF Progress, Place, Errand
  <2>2. Becomes(v, n) /\ UNCHANGED failures
    BY <1>7 DEF Clear
  <2> HIDE DEF n
  <2>3. Sound(v, n, failures)
    BY <1>0, <2>1 DEF Sound, Shape, Claiming, Carrying
  <2>4. TaskType
    BY <1>0, <2>2, <2>3, BecomesStep
  <2>5. queue' \in Seq(Entries(failures))
    BY <1>7 DEF Clear
  <2> QED BY <1>7, <2>4, <2>5, Typed DEF Clear, QType
<1>8. CASE Prioritize(v)
  <2>1. PICK i \in DOMAIN queue :
          /\ queue' = [queue EXCEPT ![i].interrupt = TRUE]
          /\ Becomes(v, [task[v] EXCEPT !.pc = "move", !.mode = "prioritize",
                                        !.head = [id |-> queue[i].id, interrupt |-> TRUE]])
    BY <1>8 DEF Prioritize
  <2> DEFINE e == [id |-> queue[i].id, interrupt |-> TRUE]
             n == [task[v] EXCEPT !.pc = "move", !.mode = "prioritize", !.head = e]
  <2>2. e \in Entries(failures)
    <3>1. queue[i] \in Entries(failures)
      BY <1>1, LenProperties
    <3> QED BY <3>1 DEF Entries
  <2>3. n \in Progress(failures) /\ n.pc = "move" /\ n.mode = "prioritize" /\ n.head = e
    BY <1>0, <2>2, Reads DEF Progress, Place, Errand
  <2>4. Becomes(v, n) /\ UNCHANGED failures
    BY <1>8, <2>1 DEF Prioritize, history
  <2> HIDE DEF n, e
  <2>5. Sound(v, n, failures)
    BY <1>0, <2>2, <2>3 DEF Sound, Shape, Claiming, Carrying
  <2>6. TaskType
    BY <1>0, <2>4, <2>5, BecomesStep
  <2>7. queue' \in Seq(Entries(failures))
    BY <1>1, <2>1, Marked DEF Entries
  <2> QED BY <1>8, <2>6, <2>7, Typed DEF Prioritize, history, QType
<1>9. CASE Move(v)
  <2>1. task[v].head \in Entries(failures)
        /\ task[v].mode \in {"interrupt", "prioritize", "resume", "clear"}
    BY <1>0, <1>9, Reads DEF Move, Shape
  <2>2. TaskType
    BY <1>3, <1>9, <2>1 DEF Move, history
  <2>3. queue' \in Seq(Entries(failures))
    <3>1. CASE Queued(task[v].head.id)
      <4>1. Position(task[v].head.id) \in DOMAIN queue
        BY <3>1 DEF Queued, Position
      <4>2. Without(task[v].head.id) \in Seq(Entries(failures))
        BY <1>1, <4>1, RemoveOne DEF Without
      <4>3. <<task[v].head>> \o Without(task[v].head.id) \in Seq(Entries(failures))
        BY <2>1, <4>2, PrependOne
      <4> QED BY <1>9, <3>1, <4>3 DEF Move
    <3>2. CASE ~Queued(task[v].head.id)
      BY <1>1, <1>9, <3>2 DEF Move
    <3> QED BY <3>1, <3>2
  <2> QED BY <1>9, <2>2, <2>3, Typed DEF Move, history, QType
<1>10. CASE Look(v) \/ AskStop(v)
  <2>1. PICK pc \in {"still", "cancel"} : Becomes(v, [task[v] EXCEPT !.pc = pc, !.saw = holder])
    BY <1>10 DEF Look, AskStop
  <2> DEFINE n == [task[v] EXCEPT !.pc = pc, !.saw = holder]
  <2>2. n \in Progress(failures) /\ n.pc = pc
    <3>1. pc \in Place /\ holder \in Id \cup {NoRun}
      BY DEF Place, Errand, QType
    <3> QED BY <1>0, <3>1, Reads DEF Progress
  <2>3. Becomes(v, n) /\ Elsewhere
    BY <1>10, <2>1 DEF Look, AskStop, Elsewhere, store, history
  <2> HIDE DEF n
  <2> QED BY <1>2, <2>2, <2>3
<1>11. CASE Still(v)
  <2> DEFINE busy == task[v].saw # NoRun /\ Alive(task[v].saw)
             to == CASE ~busy -> "kick"
                     [] busy /\ task[v].saw = task[v].head.id -> "done"
                     [] OTHER -> "waits"
  <2>1. Goto(v, to)
    BY <1>11 DEF Still
  <2>2. to \in {"kick", "done", "waits"}
    OBVIOUS
  <2> HIDE DEF to
  <2>3. TaskType /\ Elsewhere
    BY <1>3, <1>11, <2>1, <2>2 DEF Still, Elsewhere, store, history
  <2> QED BY <2>3, TypedAsIs
<1>12. CASE Waits(v)
  <2>1. TaskType /\ Elsewhere
    BY <1>3, <1>12 DEF Waits, Elsewhere, store, history
  <2> QED BY <2>1, TypedAsIs
<1>13. CASE Stop(v)
  <2>1. TaskType /\ Elsewhere
    BY <1>3, <1>13 DEF Stop, Elsewhere, store, history
  <2> QED BY <2>1, TypedAsIs
<1> QED BY <1>5, <1>6, <1>7, <1>8, <1>9, <1>10, <1>11, <1>12, <1>13 DEF QueueRequest

LEMMA WorksType ==
  ASSUME QType, NEW t \in Tasks, Works(t)
  PROVE  QType'
BY DrainType, PlanType, StartsType, SendType, RequestType DEF Works, Plan
LEMMA RunType ==
  ASSUME QType, NEW t \in Tasks, Cancel(t) \/ (t \in Id /\ (RunEnds(t) \/ RunCloses(t)))
  PROVE  QType'
<1> USE DEF At
<1>1. CASE Cancel(t)
  <2>1. TaskType /\ Elsewhere
    BY <1>1, GoesOn DEF Cancel, Elsewhere, store, history
  <2> QED BY <2>1, TypedAsIs
<1>2. CASE t \in Id /\ RunEnds(t)
  <2>1. PICK outcome \in {"completed", "failed", "cancelled"} :
          Becomes(t, [task[t] EXCEPT !.pc = "guard", !.holding = t, !.outcome = outcome])
    BY <1>2 DEF RunEnds
  <2> DEFINE n == [task[t] EXCEPT !.pc = "guard", !.holding = t, !.outcome = outcome]
  <2>2. n \in Progress(failures) /\ n.pc = "guard"
    BY <1>2, Reads DEF Progress, Place
  <2>3. Becomes(t, n) /\ Elsewhere
    BY <1>2, <2>1 DEF RunEnds, Elsewhere, store, history
  <2> HIDE DEF n
  <2>4. Sound(t, n, failures)
    BY <2>2 DEF Sound, Shape, Claiming, Carrying, Errand, Sending
  <2> QED BY <2>3, <2>4, BecomesStep, TypedAsIs DEF Elsewhere
<1>3. CASE t \in Id /\ RunCloses(t)
  <2>1. TaskType /\ holder' \in Id \cup {NoRun}
    BY <1>3, GoesOn, Released DEF RunCloses, history
  <2> QED BY <1>3, <2>1, Typed DEF RunCloses, history, QType
<1> QED BY <1>1, <1>2, <1>3

LEMMA CrashType == ASSUME QType, Crash PROVE QType'
<1>1. failures \in Nat /\ UNCHANGED <<queue, holder, ran, failures>> /\ crashes' \in Nat
  BY DEF QType, Crash, Crashes, store
<1>2. \A t \in Tasks : Sound(t, IF task[t].pc = "new" THEN Fresh ELSE Over, failures')
  BY <1>1, AtRest
<1>3. TaskType
  BY <1>2 DEF Crash, TaskType, Sound
<1> QED BY <1>1, <1>3, Typed DEF QType

LEMMA BodyType ==
  ASSUME QType, NEW id \in Id,
         Ends(id) \/ Halts(id) \/ EndedOutside(id) \/ LooksBack(id) \/ Journal(id) \/ Closes(id)
           \/ WorkerEnds(id)
  PROVE  QType'
<1> USE DEF At
<1>0. id \in Tasks
  BY DEF Tasks
<1>1. ASSUME Elsewhere, NEW n, Becomes(id, n), n \in Progress(failures), n.pc \in {"plan", "guard"}
      PROVE  QType'
  <2>1. Sound(id, n, failures)
    BY <1>1 DEF Sound, Shape, Claiming, Carrying, Errand, Sending
  <2> QED BY <1>0, <1>1, <2>1, BecomesStep, TypedAsIs DEF Elsewhere
<1>2. CASE Ends(id)
  <2>1. PICK outcome \in {"completed", "failed"} :
          Becomes(id, [task[id] EXCEPT !.pc = "plan", !.holding = id, !.outcome = outcome])
    BY <1>2 DEF Ends
  <2> DEFINE n == [task[id] EXCEPT !.pc = "plan", !.holding = id, !.outcome = outcome]
  <2>2. n \in Progress(failures) /\ n.pc = "plan"
    BY <1>0, Reads DEF Progress, Place
  <2>3. Becomes(id, n) /\ Elsewhere
    BY <1>2, <2>1 DEF Ends, Elsewhere, store, history
  <2> HIDE DEF n
  <2> QED BY <1>1, <2>2, <2>3
<1>3. CASE LooksBack(id)
  <2> DEFINE o == IF task[id].outcome = "completed" /\ id \in cancelled THEN "cancelled"
                  ELSE task[id].outcome
             n == [task[id] EXCEPT !.pc = "guard", !.outcome = o]
  <2>1. Becomes(id, n) /\ Elsewhere
    BY <1>0, <1>3, Reads DEF LooksBack, Elsewhere, store, history, Progress
  <2>2. n \in Progress(failures) /\ n.pc = "guard"
    BY <1>0, Reads DEF Progress, Place
  <2> HIDE DEF n
  <2> QED BY <1>1, <2>1, <2>2
<1>4. CASE WorkerEnds(id)
  <2> DEFINE o == IF task[id].outcome = "failed" THEN "failed" ELSE "completed"
             n == [Fresh EXCEPT !.pc = "plan", !.holding = id, !.outcome = o]
  <2>1. Becomes(id, n) /\ UNCHANGED failures
    BY <1>4 DEF WorkerEnds
  <2>2. n \in Progress(failures) /\ n.pc = "plan"
    <3>1. o \in {"completed", "failed", "cancelled"} /\ 0 \in 0 .. MaxDrainAttempts
      BY MaximaAssumption
    <3> HIDE DEF o
    <3> QED BY <3>1 DEF Progress, Place, Fresh
  <2> HIDE DEF n
  <2>3. Sound(id, n, failures)
    BY <2>2 DEF Sound, Shape, Claiming, Carrying, Errand, Sending
  <2>4. TaskType
    BY <1>0, <2>1, <2>3, BecomesStep
  <2> QED BY <1>4, <2>4, Typed DEF WorkerEnds, store, QType, Crashes
<1>5. CASE Halts(id) \/ EndedOutside(id) \/ Closes(id)
  <2>1. PICK to \in {"close", "done"} : Goto(id, to)
    BY <1>5 DEF Halts, EndedOutside, Closes
  <2>2. TaskType
    BY <1>0, <1>5, <2>1, ThenAfter DEF Halts, EndedOutside, Closes, history
  <2>3. holder' \in Id \cup {NoRun}
    BY <1>5, Released DEF Halts, EndedOutside, Closes, store, QType
  <2> QED BY <1>5, <2>2, <2>3, Typed DEF Halts, EndedOutside, Closes, store, history, QType
<1>6. CASE Journal(id)
  <2>1. Allows(id, "spawn", failures)
    BY <1>0, <1>6, Reads DEF Journal, Allows, Shape, Place, Errand, Claiming, Carrying, Sending
  <2>2. TaskType /\ Elsewhere
    BY <1>0, <1>6, <2>1, GoesOn DEF Journal, Elsewhere, store, history
  <2> QED BY <2>2, TypedAsIs
<1> QED BY <1>2, <1>3, <1>4, <1>5, <1>6

LEMMA StopType ==
  ASSUME QType, NEW t \in Request, Detail(t) \/ Tell(t)
  PROVE  QType'
<1> USE DEF At
<1>0. t \in Tasks /\ t \notin Id
  BY NamesAssumption DEF Tasks, Request
<1>1. ASSUME Elsewhere, NEW n, Becomes(t, n), n \in Progress(failures), n.pc \in {"ask", "guard"}
      PROVE  QType'
  <2>1. Sound(t, n, failures)
    BY <1>0, <1>1 DEF Sound, Shape, Claiming, Carrying
  <2> QED BY <1>0, <1>1, <2>1, BecomesStep, TypedAsIs DEF Elsewhere
<1>2. CASE Detail(t)
  <2> DEFINE h == IF Known(task[t].saw) THEN task[t].saw ELSE NoRun
             n == [task[t] EXCEPT !.pc = "ask", !.holding = h]
  <2>1. Becomes(t, n) /\ Elsewhere
    BY <1>2 DEF Detail, Elsewhere, store, history
  <2>2. n \in Progress(failures) /\ n.pc = "ask"
    BY <1>0, Reads DEF Progress, Place, Errand
  <2> HIDE DEF n
  <2> QED BY <1>1, <2>1, <2>2
<1>3. CASE Tell(t)
  <2>1. Elsewhere
    BY <1>3 DEF Tell, Elsewhere, store, history
  <2>2. CASE Goto(t, "done")
    BY <1>0, <2>1, <2>2, GoesOn, TypedAsIs DEF Elsewhere
  <2> DEFINE n == [task[t] EXCEPT !.pc = "guard", !.outcome = "cancelled"]
  <2>3. CASE Becomes(t, n)
    <3>1. n \in Progress(failures) /\ n.pc = "guard"
      BY <1>0, Reads DEF Progress, Place
    <3> HIDE DEF n
    <3> QED BY <1>1, <2>1, <2>3, <3>1
  <2> QED BY <1>3, <2>2, <2>3 DEF Tell
<1> QED BY <1>2, <1>3

LEMMA NextType == ASSUME QType, Next \/ DNext PROVE QType'
<1>1. ASSUME NEW t \in Tasks, Step(t) PROVE QType'
  BY <1>1, WorksType, RequestType, RunType DEF Step
<1>2. ASSUME NEW t \in Request, RequestStep(t) PROVE QType'
  <2>1. t \in Tasks
    BY DEF Request, Tasks
  <2> QED BY <1>2, <2>1, WorksType, StopType, RequestType DEF RequestStep
<1>3. ASSUME NEW id \in Id, BodyStep(id) \/ WorkerEnds(id) PROVE QType'
  <2>1. id \in Tasks
    BY DEF Tasks
  <2> QED BY <1>3, <2>1, DrainType, PlanType, StartsType, BodyType DEF BodyStep, Plan, Starts
<1> QED BY <1>1, <1>2, <1>3, CrashType DEF Next, DNext
(***************************************************************************)
(* Where a message is.                                                     *)
(***************************************************************************)

(* The message a task has in its hand. *)
Hand(t) == IF InHand(t) THEN {MessageOf(t)} ELSE {}

(* A message is with its sender, in the queue, in one hand, or started, or *)
(* none of these when it is gone.                                          *)
Kept(m) ==
  /\ \A t, u \in Tasks : m \in Hand(t) /\ m \in Hand(u) => t = u
  /\ ran[m] <= 1
  /\ ran[m] = 1 \/ m \in Msgs(queue) => task[m].pc # "new"
  /\ m \in Msgs(queue) => ran[m] = 0
  /\ \A t \in Tasks : m \in Hand(t) => ran[m] = 0 /\ m \notin Msgs(queue) /\ task[m].pc # "new"
  /\ \/ task[m].pc = "new" \/ ran[m] > 0 \/ m \in gone \/ m \in Msgs(queue)
     \/ \E t \in Tasks : m \in Hand(t)

(* Every run there is was started for its message. *)
Tokens ==
  /\ Once(queue)
  /\ \A m \in Message : Kept(m)
  /\ \A id \in Id : task[id].pc # "new" => ran[id.message] = 1

LEMMA SameHand ==
  ASSUME NEW t \in Tasks, task'[t] = task[t]
  PROVE  Hand(t)' = Hand(t)
BY DEF Hand, InHand, MessageOf

(* What task t does leaves the other tasks' hands alone. *)
Alone(t) == \A u \in Tasks \ {t} : Hand(u)' = Hand(u)
SameNew == \A u \in Message \cup Id : task'[u].pc = "new" <=> task[u].pc = "new"

(* Between its hand and the queue a task passes messages on; what it lets go *)
(* of is gone.                                                               *)
Passes(t) ==
  /\ Alone(t) /\ SameNew
  /\ Once(queue') /\ Msgs(queue') \cap Hand(t)' = {}
  /\ Msgs(queue') \cup Hand(t)' \subseteq Msgs(queue) \cup Hand(t)
  /\ (Msgs(queue) \cup Hand(t)) \ (Msgs(queue') \cup Hand(t)') \subseteq gone'
  /\ gone \subseteq gone' /\ ran' = ran

LEMMA PassesKeeps ==
  ASSUME Tokens, NEW t \in Tasks, Passes(t)
  PROVE  Tokens'
<1>1. ASSUME NEW m \in Message PROVE Kept(m)'
  <2> USE DEF Passes
  <2>1. \A u \in Tasks : u # t => (m \in Hand(u)' <=> m \in Hand(u))
    BY DEF Alone
  <2>2. task'[m].pc = "new" <=> task[m].pc = "new"
    BY DEF SameNew
  <2>3. Kept(m)
    BY DEF Tokens
  <2>4. \A u \in Tasks : u # t /\ m \in Hand(u) => m \notin Msgs(queue) \cup Hand(t)
    BY <2>3 DEF Kept
  <2>5. m \in Msgs(queue') \cup Hand(t)' => ran[m] = 0 /\ task[m].pc # "new"
    BY <2>3 DEF Kept
  <2>6. \A u, v \in Tasks : m \in Hand(u)' /\ m \in Hand(v)' => u = v
    BY <2>1, <2>3, <2>4 DEF Kept
  <2>7. /\ ran'[m] <= 1
        /\ ran'[m] = 1 \/ m \in Msgs(queue') => task'[m].pc # "new"
        /\ m \in Msgs(queue') => ran'[m] = 0
    BY <2>2, <2>3, <2>5 DEF Kept
  <2>8. \A u \in Tasks : m \in Hand(u)' =>
          ran'[m] = 0 /\ m \notin Msgs(queue') /\ task'[m].pc # "new"
    BY <2>1, <2>2, <2>3, <2>4, <2>5 DEF Kept
  <2>9. \/ task'[m].pc = "new" \/ ran'[m] > 0 \/ m \in gone' \/ m \in Msgs(queue')
        \/ \E u \in Tasks : m \in Hand(u)'
    BY <2>1, <2>2, <2>3 DEF Kept
  <2> QED BY <2>6, <2>7, <2>8, <2>9 DEF Kept, Msgs
<1>2. \A id \in Id : task'[id].pc # "new" => ran'[id.message] = 1
  BY DEF Tokens, Passes, SameNew
<1>3. Once(queue')
  BY DEF Passes
<1> QED BY <1>1, <1>2, <1>3 DEF Tokens, Once

(* A message is sent: from then on it is in its sender's hand. *)
LEMMA SentKeeps ==
  ASSUME Tokens, NEW m \in Message, m \notin Id, ran \in [Message -> Nat],
         Alone(m), Hand(m)' = {m}, task[m].pc = "new", task'[m].pc # "new",
         \A u \in (Message \cup Id) \ {m} : task'[u].pc = "new" <=> task[u].pc = "new",
         UNCHANGED <<queue, ran, gone>>
  PROVE  Tokens'
<1>0. m \in Tasks
  BY DEF Tasks
<1>1. ASSUME NEW k \in Message PROVE Kept(k)'
  <2>1. Kept(k) /\ Kept(m)
    BY DEF Tokens
  <2>2. \A u \in Tasks : u # m => (k \in Hand(u)' <=> k \in Hand(u))
    BY DEF Alone
  <2>3. CASE k = m
    <3>1. ran[m] = 0 /\ m \notin Msgs(queue) /\ \A u \in Tasks : m \notin Hand(u)
      BY <2>1 DEF Kept
    <3> QED BY <1>0, <2>2, <2>3, <3>1 DEF Kept, Msgs
  <2>4. CASE k # m
    <3>1. k \notin Hand(m) /\ k \notin Hand(m)'
      <4>1. Hand(m) = {}
        BY DEF Hand, InHand
      <4> QED BY <2>4, <4>1
    <3>2. \A u \in Tasks : k \in Hand(u)' <=> k \in Hand(u)
      BY <2>2, <3>1
    <3>3. task'[k].pc = "new" <=> task[k].pc = "new"
      BY <2>4
    <3> QED BY <2>1, <3>2, <3>3 DEF Kept, Msgs
  <2> QED BY <2>3, <2>4
<1>2. \A id \in Id : task'[id].pc # "new" => ran'[id.message] = 1
  BY DEF Tokens
<1>3. Once(queue')
  BY DEF Tokens
<1> QED BY <1>1, <1>2, <1>3 DEF Tokens, Once

(* A message is started: it leaves the hand it was in. *)
LEMMA StartedKeeps ==
  ASSUME Tokens, QType, NEW t \in Tasks, NEW id \in Id, NEW after \in {"close", "done"},
         Begins(t, id, after), id.message \in Hand(t), UNCHANGED <<queue, gone>>
  PROVE  Tokens'
<1> DEFINE m == id.message
<1>0. m \in Message /\ id \in Tasks /\ Kept(m) /\ ran \in [Message -> Nat] /\ DOMAIN task = Tasks
  BY DEF Id, Tasks, Tokens, QType
<1>1. Hand(t) = {m} /\ ran[m] = 0 /\ m \notin Msgs(queue) /\ task[m].pc # "new"
  BY <1>0 DEF Hand, Kept
<1>2. task[id].pc = "new"
  BY <1>0, <1>1 DEF Tokens
<1>3. t # id /\ task[t].pc # "new"
  <2>1. task[t].pc # "new"
    BY <1>1 DEF Hand, InHand
  <2> QED BY <1>2, <2>1
<1>4. /\ task'[t].pc = after /\ task'[id].pc = "running"
      /\ \A u \in Tasks \ {t, id} : task'[u] = task[u]
      /\ ran' = [ran EXCEPT ![m] = @ + 1]
  BY <1>0, <1>3, AtRest, Reads DEF Begins, Over, Fresh, Progress, QType
<1> HIDE DEF m
<1>5. Hand(t)' = {} /\ Hand(id)' = {} /\ Hand(id) = {}
  BY <1>2, <1>4 DEF Hand, InHand
<1>6. \A u \in Tasks \ {t} : Hand(u)' = Hand(u)
  BY <1>4, <1>5, SameHand
<1>7. ran'[m] = 1 /\ \A k \in Message \ {m} : ran'[k] = ran[k]
  BY <1>0, <1>1, <1>4
<1>8. \A u \in Message : task'[u].pc = "new" => task[u].pc = "new"
  BY <1>3, <1>4 DEF Tasks
<1>9. \A u \in Message : task[u].pc = "new" => task'[u].pc = "new"
  <2>1. id \notin Message
    BY NamesAssumption
  <2> QED BY <1>3, <1>4, <2>1 DEF Tasks
<1>10. ASSUME NEW k \in Message PROVE Kept(k)'
  <2>1. Kept(k)
    BY DEF Tokens
  <2>2. CASE k = m
    BY <1>0, <1>1, <1>5, <1>6, <1>7, <1>8, <2>2 DEF Kept, Msgs
  <2>3. CASE k # m
    <3>1. \A u \in Tasks : k \in Hand(u)' <=> k \in Hand(u)
      BY <1>1, <1>5, <1>6, <2>3
    <3>2. ran'[k] = ran[k] /\ (task'[k].pc = "new" <=> task[k].pc = "new")
      BY <1>7, <1>8, <1>9, <2>3
    <3> QED BY <2>1, <3>1, <3>2 DEF Kept, Msgs
  <2> QED BY <2>2, <2>3
<1>11. ASSUME NEW i \in Id, task'[i].pc # "new" PROVE ran'[i.message] = 1
  <2>1. i.message \in Message
    BY DEF Id
  <2>2. CASE i = id
    BY <1>7, <2>2 DEF m
  <2>3. CASE i # id
    <3>1. task[i].pc # "new"
      BY <1>3, <1>4, <1>11, <2>3 DEF Tasks
    <3> QED BY <1>1, <1>7, <2>1, <3>1 DEF Tokens
  <2> QED BY <2>2, <2>3
<1>12. Once(queue')
  BY DEF Tokens
<1> QED BY <1>10, <1>11, <1>12 DEF Tokens, Once

(* The process ends: what was in a hand is gone. *)
LEMMA CrashKeeps ==
  ASSUME Tokens, Crash
  PROVE  Tokens'
<1>1. \A t \in Tasks : Hand(t)' = {}
  BY DEF Crash, Hand, InHand, Fresh, Over
<1>2. \A t \in Tasks : task'[t].pc = "new" <=> task[t].pc = "new"
  BY DEF Crash, Fresh, Over
<1>3. \A t \in Tasks : Hand(t) \subseteq gone'
  BY DEF Crash, Hand
<1>4. UNCHANGED <<queue, ran>> /\ gone \subseteq gone'
  BY DEF Crash, store
<1>5. ASSUME NEW m \in Message PROVE Kept(m)'
  <2>1. Kept(m) /\ (task'[m].pc = "new" <=> task[m].pc = "new")
    BY <1>2 DEF Tokens, Tasks
  <2> QED BY <1>1, <1>3, <1>4, <2>1 DEF Kept, Msgs
<1>6. \A id \in Id : task'[id].pc # "new" => ran'[id.message] = 1
  BY <1>2, <1>4 DEF Tokens, Tasks
<1>7. Once(queue')
  BY <1>4 DEF Tokens
<1> QED BY <1>5, <1>6, <1>7 DEF Tokens, Once
LEMMA Went ==
  ASSUME QType, NEW t \in Tasks, NEW to, Goto(t, to)
  PROVE  /\ task'[t].pc = to
         /\ to # "done" => task'[t] = [task[t] EXCEPT !.pc = to]
         /\ \A u \in Tasks \ {t} : task'[u] = task[u]
<1>1. DOMAIN task = Tasks
  BY DEF QType
<1>2. CASE to = "done"
  BY <1>1, <1>2 DEF Goto, Over, Fresh
<1>3. CASE to # "done"
  <2>1. task'[t] = [task[t] EXCEPT !.pc = to] /\ \A u \in Tasks \ {t} : task'[u] = task[u]
    BY <1>1, <1>3 DEF Goto
  <2>2. [task[t] EXCEPT !.pc = to].pc = to
    BY Reads DEF Progress
  <2> QED BY <1>3, <2>1, <2>2
<1> QED BY <1>2, <1>3

LEMMA Turned ==
  ASSUME QType, NEW t \in Tasks, NEW n, Becomes(t, n)
  PROVE  task'[t] = n /\ \A u \in Tasks \ {t} : task'[u] = task[u]
BY DEF QType, Becomes

Others(t) == \A u \in Tasks \ {t} : task'[u] = task[u]

LEMMA AloneThen ==
  ASSUME NEW t \in Tasks, Others(t), task'[t].pc # "new",
         t \in Visit \/ task[t].pc # "new"
  PROVE  Alone(t) /\ SameNew
<1>1. Alone(t)
  BY SameHand DEF Others, Alone
<1>2. ASSUME NEW u \in Message \cup Id PROVE task'[u].pc = "new" <=> task[u].pc = "new"
  <2>1. u \in Tasks /\ u \notin Visit
    BY NamesAssumption DEF Tasks
  <2> QED BY <2>1 DEF Others
<1> QED BY <1>1, <1>2 DEF SameNew

(* A step that moves no message. *)
Busy == Sending \cup Carrying
Quiet(t) ==
  /\ Others(t)
  /\ task[t].pc \notin Busy /\ task'[t].pc \notin Busy
  /\ task'[t].pc # "new" /\ (t \in Visit \/ task[t].pc # "new")
  /\ UNCHANGED <<queue, ran, gone>>

LEMMA QuietKeeps ==
  ASSUME Tokens, NEW t \in Tasks, Quiet(t)
  PROVE  Tokens'
<1>1. Alone(t) /\ SameNew
  BY AloneThen DEF Quiet
<1>2. Hand(t) = {} /\ Hand(t)' = {}
  BY DEF Quiet, Hand, InHand, Busy, Sending, Carrying
<1>3. Passes(t)
  BY <1>1, <1>2 DEF Passes, Quiet, Tokens
<1> QED BY <1>3, PassesKeeps

(***************************************************************************)
(* Who answers for the thread.                                             *)
(***************************************************************************)

(* A start that is under way has the thread for its run. *)
HoldsFor(t, id) ==
  \/ t \in Message /\ task[t].pc \in {"begin", "refuse"} /\ id = First(t)
  \/ task[t].pc \in Claiming /\ task[t].head.id = id

(* The run is not over, or is being started: it gives the thread back. *)
Answers(id) == \/ task[id].pc \notin {"new", "done"}
               \/ \E t \in Tasks : HoldsFor(t, id)

(* A run of S that has the thread will give it back. *)
Held(S) == holder \in S => Answers(holder)

LEMMA SameHold ==
  ASSUME NEW t \in Tasks, task'[t] = task[t]
  PROVE  \A id : HoldsFor(t, id)' <=> HoldsFor(t, id)
BY DEF HoldsFor

(* What a step of t has to see to when the thread stays with whom it was, or *)
(* is let go.                                                                *)
Steady(t) ==
  /\ Others(t) /\ holder' \in {holder, NoRun}
  /\ t \in Id => task'[t].pc \notin {"new", "done"} \/ holder' # t
  /\ \A id \in Id : HoldsFor(t, id) => HoldsFor(t, id)' \/ holder' # id

LEMMA SteadyKeeps ==
  ASSUME NEW S, NEW z, z \subseteq S \cap Id, Held(S), NEW t \in Tasks, Steady(t), holder' \in z
  PROVE  Answers(holder)'
<1>1. holder' = holder /\ holder \in Id /\ holder \in Tasks /\ Answers(holder)
  BY NoRunAssumption DEF Steady, Held, Tasks
<1>2. CASE task[holder].pc \notin {"new", "done"}
  BY <1>1, <1>2 DEF Steady, Others, Answers
<1>3. ASSUME NEW u \in Tasks, HoldsFor(u, holder) PROVE Answers(holder)'
  <2>1. HoldsFor(u, holder)'
    BY <1>1, <1>3, SameHold DEF Steady, Others
  <2> QED BY <2>1 DEF Answers
<1> QED BY <1>1, <1>2, <1>3 DEF Answers
(***************************************************************************)
(* Steps that move no message and claim nothing.                           *)
(***************************************************************************)
Plain(t) ==
  /\ Quiet(t) /\ task[t].pc \notin Claiming /\ holder' \in {holder, NoRun}
  /\ t \in Id => task'[t].pc # "done"

LEMMA PlainSteady == ASSUME NEW t \in Tasks, Plain(t) PROVE Steady(t)
BY DEF Plain, Quiet, Busy, Sending, HoldsFor, Steady

Rests(t) ==
  /\ task[t].pc \notin Busy \cup Claiming /\ (t \in Visit \/ task[t].pc # "new")
  /\ UNCHANGED <<queue, ran, gone>> /\ holder' \in {holder, NoRun}

LEMMA PlainGoto ==
  ASSUME QType, NEW t \in Tasks, NEW to, Goto(t, to), Rests(t), to \notin Busy \cup {"new"},
         t \in Id => to # "done"
  PROVE  Plain(t)
<1>1. task'[t].pc = to /\ \A u \in Tasks \ {t} : task'[u] = task[u]
  BY Went
<1> QED BY <1>1 DEF Plain, Quiet, Rests, Others

LEMMA PlainBecomes ==
  ASSUME QType, NEW t \in Tasks, NEW n, Becomes(t, n), Rests(t), n.pc \notin Busy \cup {"new", "done"}
  PROVE  Plain(t)
BY Turned DEF Plain, Quiet, Rests, Others

LEMMA PlainDrain ==
  ASSUME QType, NEW t \in Tasks,
         \/ Lift(t) \/ Kick(t) \/ Judge(t) \/ Guard(t) \/ List(t)
         \/ Vacate(t) \/ ReadPause(t) \/ SetPause(t) \/ Leave(t)
  PROVE  Plain(t)
<1> USE DEF At, Busy, Sending, Carrying, Claiming
<1>0. AfterDrain(t) \in {"close", "done"} /\ (t \in Id => AfterDrain(t) = "close")
  BY DEF AfterDrain
<1>2. ASSUME NEW pc \in {"lift", "kick", "judge", "guard", "list", "vacate", "pause", "setpause", "leave"},
             task[t].pc = pc, UNCHANGED <<queue, ran, gone>>, holder' \in {holder, NoRun}
      PROVE  Rests(t)
  BY <1>2 DEF Rests
<1>3. CASE Lift(t)
  <2> DEFINE to == CASE task[t].mode = "interrupt"  -> "cancel"
                     [] task[t].mode = "prioritize" -> "look"
                     [] task[t].mode = "resume"     -> "kick"
                     [] task[t].mode = "clear"      -> "done"
  <2>1. Goto(t, to) /\ Rests(t)
    BY <1>2, <1>3 DEF Lift, history
  <2>2. to \in {"cancel", "look", "kick", "done"} /\ t \notin Id
    BY <1>3, Reads DEF Lift, Shape, Errand
  <2> HIDE DEF to
  <2> QED BY <2>1, <2>2, PlainGoto
<1>4. CASE Kick(t)
  <2> DEFINE n == [task[t] EXCEPT !.pc = "judge", !.saw = holder]
  <2>1. Becomes(t, n) /\ Rests(t)
    BY <1>2, <1>4 DEF Kick, store, history
  <2>2. n.pc = "judge"
    BY Reads DEF Progress
  <2> HIDE DEF n
  <2> QED BY <2>1, <2>2, PlainBecomes
<1>5. CASE Judge(t)
  <2> DEFINE n == [task[t] EXCEPT !.pc = "guard", !.holding = task[t].saw,
                                  !.outcome = "completed"]
  <2>1. Rests(t) /\ t \notin Id
    BY <1>2, <1>5, Reads DEF Judge, store, history, Shape, Errand
  <2>2. CASE Goto(t, "done")
    BY <2>1, <2>2, PlainGoto
  <2>3. CASE Becomes(t, n)
    <3>1. n.pc = "guard"
      BY Reads DEF Progress
    <3> HIDE DEF n
    <3> QED BY <2>1, <2>3, <3>1, PlainBecomes
  <2> QED BY <1>5, <2>2, <2>3 DEF Judge
<1>6. CASE Guard(t)
  <2> DEFINE to == IF holder = task[t].holding THEN "list" ELSE AfterDrain(t)
  <2>1. Goto(t, to) /\ Rests(t)
    BY <1>2, <1>6 DEF Guard, store, history
  <2>2. to \in {"list", "close", "done"} /\ (t \in Id => to # "done")
    BY <1>0
  <2> HIDE DEF to
  <2> QED BY <2>1, <2>2, PlainGoto
<1>7. CASE List(t)
  <2> DEFINE n == [task[t] EXCEPT !.pc = "pause", !.head = Head(queue)]
  <2>1. Rests(t)
    BY <1>2, <1>7 DEF List, store, history
  <2>2. ASSUME NEW to \in {"leave", "vacate", AfterDrain(t)}, Goto(t, to) PROVE Plain(t)
    BY <1>0, <2>1, <2>2, PlainGoto
  <2>3. CASE Becomes(t, n)
    <3>1. n.pc = "pause"
      BY Reads DEF Progress
    <3> HIDE DEF n
    <3> QED BY <2>1, <2>3, <3>1, PlainBecomes
  <2>4. task[t].attempt \in 0 .. MaxDrainAttempts /\ MaxDrainAttempts \in Nat
    BY Reads, MaximaAssumption
  <2>5. CASE task[t].attempt = MaxDrainAttempts
    BY <1>7, <2>2, <2>4, <2>5 DEF List
  <2>6. CASE task[t].attempt < MaxDrainAttempts /\ queue = <<>>
    BY <1>7, <2>2, <2>4, <2>6 DEF List
  <2>7. CASE task[t].attempt < MaxDrainAttempts /\ queue # <<>>
    <3>1. Becomes(t, n)
      BY <1>7, <2>4, <2>7 DEF List
    <3> QED BY <2>3, <3>1
  <2> QED BY <2>4, <2>5, <2>6, <2>7
<1>8. CASE Vacate(t)
  <2> DEFINE n == [task[t] EXCEPT !.pc = "list", !.holding = NoRun, !.head = NoEntry,
                                  !.attempt = @ + 1]
  <2>1. Becomes(t, n) /\ Rests(t)
    BY <1>2, <1>8 DEF Vacate, Again, Release, history
  <2>2. n.pc = "list"
    BY Reads DEF Progress
  <2> HIDE DEF n
  <2> QED BY <2>1, <2>2, PlainBecomes
<1>9. CASE ReadPause(t)
  <2>1. Rests(t)
    BY <1>2, <1>9 DEF ReadPause, store
  <2>2. PICK to \in {"leave", "setpause", "claim"} : Goto(t, to)
    BY <1>9 DEF ReadPause
  <2> QED BY <2>1, <2>2, PlainGoto
<1>10. CASE SetPause(t) \/ Leave(t)
  <2>1. Rests(t)
    BY <1>2, <1>10 DEF SetPause, Leave, Release, history
  <2>2. Goto(t, "leave") \/ Goto(t, AfterDrain(t))
    BY <1>10 DEF SetPause, Leave
  <2> QED BY <1>0, <2>1, <2>2, PlainGoto
<1> QED BY <1>3, <1>4, <1>5, <1>6, <1>7, <1>8, <1>9, <1>10
LEMMA PlainRequest ==
  ASSUME QType, NEW v \in Visit,
         Resume(v) \/ Look(v) \/ Still(v) \/ Waits(v) \/ Stop(v) \/ AskStop(v)
  PROVE  Plain(v)
<1> USE DEF At, Busy, Sending, Carrying, Claiming
<1>0. v \in Tasks /\ v \notin Id
  BY NamesAssumption DEF Tasks
<1>1. Rests(v)
  BY DEF Resume, Look, Still, Waits, Stop, AskStop, Asks, Rests, store, history
<1>2. CASE Resume(v)
  <2> DEFINE n == [task[v] EXCEPT !.pc = "lift", !.mode = "resume"]
  <2>1. Becomes(v, n) /\ n.pc = "lift"
    BY <1>0, <1>2, Reads DEF Resume, Progress
  <2> HIDE DEF n
  <2> QED BY <1>0, <1>1, <2>1, PlainBecomes
<1>3. CASE Look(v) \/ AskStop(v)
  <2>1. PICK pc \in {"still", "cancel"} : Becomes(v, [task[v] EXCEPT !.pc = pc, !.saw = holder])
    BY <1>3 DEF Look, AskStop
  <2> DEFINE n == [task[v] EXCEPT !.pc = pc, !.saw = holder]
  <2>2. Becomes(v, n) /\ n.pc = pc
    BY <1>0, <2>1, Reads DEF Progress
  <2> HIDE DEF n
  <2> QED BY <1>0, <1>1, <2>2, PlainBecomes
<1>4. CASE Still(v)
  <2> DEFINE busy == task[v].saw # NoRun /\ Alive(task[v].saw)
             to == CASE ~busy -> "kick"
                     [] busy /\ task[v].saw = task[v].head.id -> "done"
                     [] OTHER -> "waits"
  <2>1. Goto(v, to)
    BY <1>4 DEF Still
  <2>2. to \in {"kick", "done", "waits"}
    OBVIOUS
  <2> HIDE DEF to
  <2> QED BY <1>0, <1>1, <2>1, <2>2, PlainGoto
<1>5. CASE Waits(v) \/ Stop(v)
  <2>1. PICK to \in {"cancel", "done"} : Goto(v, to)
    BY <1>5 DEF Waits, Stop
  <2> QED BY <1>0, <1>1, <2>1, PlainGoto
<1> QED BY <1>2, <1>3, <1>4, <1>5

LEMMA PlainRun ==
  ASSUME QType, NEW t \in Tasks,
         \/ Cancel(t) \/ (t \in Id /\ RunEnds(t))
         \/ (t \in Request /\ (Detail(t) \/ Tell(t)))
         \/ (t \in Id /\ (Ends(t) \/ Halts(t) \/ LooksBack(t)))
  PROVE  Plain(t)
<1> USE DEF At, Busy, Sending, Carrying, Claiming
<1>0. t \in Request => t \notin Id
  BY NamesAssumption DEF Request
<1>1. Rests(t)
  BY DEF Cancel, RunEnds, Detail, Tell, Ends, Halts, LooksBack, Rests, store, history
<1>2. CASE Cancel(t)
  <2>1. Goto(t, "done") /\ t \notin Id
    BY <1>2, Reads DEF Cancel, Shape, Errand
  <2> QED BY <1>1, <2>1, PlainGoto
<1>3. CASE t \in Id /\ (RunEnds(t) \/ Ends(t))
  <2>1. PICK pc \in {"guard", "plan"}, outcome \in {"completed", "failed", "cancelled"} :
          Becomes(t, [task[t] EXCEPT !.pc = pc, !.holding = t, !.outcome = outcome])
    BY <1>3 DEF RunEnds, Ends
  <2> DEFINE n == [task[t] EXCEPT !.pc = pc, !.holding = t, !.outcome = outcome]
  <2>2. Becomes(t, n) /\ n.pc = pc
    BY <2>1, Reads DEF Progress
  <2> HIDE DEF n
  <2> QED BY <1>1, <2>2, PlainBecomes
<1>4. CASE t \in Request /\ Detail(t)
  <2> DEFINE n == [task[t] EXCEPT !.pc = "ask",
                     !.holding = IF Known(task[t].saw) THEN task[t].saw ELSE NoRun]
  <2>1. Becomes(t, n)
    BY <1>4 DEF Detail
  <2>2. n.pc = "ask"
    BY Reads DEF Progress
  <2> HIDE DEF n
  <2> QED BY <1>1, <2>1, <2>2, PlainBecomes
<1>5. CASE t \in Request /\ Tell(t)
  <2> DEFINE n == [task[t] EXCEPT !.pc = "guard", !.outcome = "cancelled"]
  <2>1. CASE Goto(t, "done")
    BY <1>0, <1>1, <1>5, <2>1, PlainGoto
  <2>2. CASE Becomes(t, n)
    <3>1. n.pc = "guard"
      BY Reads DEF Progress
    <3> HIDE DEF n
    <3> QED BY <1>1, <2>2, <3>1, PlainBecomes
  <2> QED BY <1>5, <2>1, <2>2 DEF Tell
<1>6. CASE t \in Id /\ Halts(t)
  BY <1>1, <1>6, PlainGoto DEF Halts
<1>7. CASE t \in Id /\ LooksBack(t)
  <2>1. PICK o : Becomes(t, [task[t] EXCEPT !.pc = "guard", !.outcome = o])
    BY <1>7, Reads DEF LooksBack, Progress
  <2> DEFINE n == [task[t] EXCEPT !.pc = "guard", !.outcome = o]
  <2>2. Becomes(t, n) /\ n.pc = "guard"
    BY <2>1, Reads DEF Progress
  <2> HIDE DEF n
  <2> QED BY <1>1, <2>2, PlainBecomes
<1> QED BY <1>2, <1>3, <1>4, <1>5, <1>6, <1>7
(***************************************************************************)
(* Steps that claim the thread, give a claim back, or pass a message on.   *)
(***************************************************************************)

(* The message at the head of a plan that has one. *)
LEMMA HeadIs ==
  ASSUME QType, NEW t \in Tasks, task[t].pc \in Claiming \cup {"claim", "move"}
  PROVE  /\ task[t].head \in Entries(failures) /\ task[t].head.id \in Id
         /\ task[t].head.id.message \in Message
<1>1. task[t].head \in Entries(failures)
  BY Reads DEF Shape
<1> QED BY <1>1, SomeIds DEF Entries, QType, Id

LEMMA PassesSame ==
  ASSUME Tokens, NEW t \in Tasks, Others(t), task'[t].pc # "new", t \in Visit \/ task[t].pc # "new",
         Hand(t)' = Hand(t), UNCHANGED <<queue, ran, gone>>,
         \A m \in Hand(t) : m \in Message
  PROVE  Tokens'
<1>1. Alone(t) /\ SameNew
  BY AloneThen
<1>2. Msgs(queue) \cap Hand(t) = {}
  BY DEF Tokens, Kept
<1>3. Passes(t)
  BY <1>1, <1>2 DEF Passes, Tokens
<1> QED BY <1>3, PassesKeeps

LEMMA TakesOut ==
  ASSUME QType, NEW id, Queued(id), Once(queue)
  PROVE  /\ Once(Without(id)) /\ Msgs(Without(id)) = Msgs(queue) \ {id.message}
         /\ id.message \in Msgs(queue)
<1> DEFINE i == Position(id)
<1>1. i \in DOMAIN queue /\ queue[i].id = id
  BY DEF Queued, Position
<1>2. queue \in Seq(Entries(failures))
  BY DEF QType
<1> HIDE DEF i
<1>3. Once(RemoveAt(queue, i)) /\ Msgs(RemoveAt(queue, i)) = Msgs(queue) \ {id.message}
  BY <1>1, <1>2, Removed
<1>4. id.message \in Msgs(queue)
  BY <1>1 DEF Msgs
<1> QED BY <1>3, <1>4 DEF Without, i

LEMMA ClaimStep ==
  ASSUME QType, Tokens, NEW t \in Tasks, Claim(t)
  PROVE  Tokens' /\ (Steady(t) \/ Answers(holder)')
<1> USE DEF At
<1>1. AfterDrain(t) \in {"close", "done"} /\ (t \in Id => AfterDrain(t) = "close")
  BY DEF AfterDrain
<1> DEFINE id == task[t].head.id
           n == [task[t] EXCEPT !.pc = "remove", !.holding = id]
<1>2. CASE holder' = id /\ Becomes(t, n)
  <2>1. n.pc = "remove" /\ n.head.id = id
    BY Reads DEF Progress
  <2> HIDE DEF n
  <2>2. Quiet(t) /\ task'[t] = n
    BY <1>2, <2>1, Turned
       DEF Claim, Quiet, Others, Busy, Sending, Carrying, runner, history
  <2>3. HoldsFor(t, holder)'
    BY <1>2, <2>1, <2>2 DEF HoldsFor, Claiming
  <2> QED BY <2>2, <2>3, QuietKeeps DEF Answers
<1>3. CASE Goto(t, AfterDrain(t)) /\ UNCHANGED holder
  <2>1. Rests(t)
    BY <1>3 DEF Claim, Rests, Busy, Sending, Carrying, Claiming, history
  <2>2. Plain(t)
    BY <1>1, <1>3, <2>1, PlainGoto DEF Busy, Sending, Carrying
  <2> QED BY <2>2, PlainSteady, QuietKeeps DEF Plain
<1> QED BY <1>2, <1>3 DEF Claim

LEMMA GiveBackStep ==
  ASSUME QType, Tokens, NEW t \in Tasks, GiveBack(t) \/ RestorePause(t) \/ RestoreFree(t)
  PROVE  Tokens' /\ Steady(t)
<1> USE DEF At
<1>1. AfterDrain(t) \in {"close", "done"} /\ (t \in Id => AfterDrain(t) = "close")
  BY DEF AfterDrain
<1>2. /\ task[t].pc \in {"giveback", "restorePause", "restoreFree"}
      /\ UNCHANGED <<queue, ran, gone>>
  BY DEF GiveBack, RestorePause, RestoreFree, history
<1>3. \A id : HoldsFor(t, id) => id = task[t].head.id
  BY <1>2 DEF HoldsFor
<1>4. CASE GiveBack(t)
  <2> DEFINE n == [task[t] EXCEPT !.pc = "list", !.holding = NoRun, !.head = NoEntry,
                                  !.attempt = @ + 1]
  <2>1. Becomes(t, n) /\ n.pc = "list"
    BY <1>4, Reads DEF GiveBack, Again, Progress
  <2> HIDE DEF n
  <2>2. Others(t) /\ task'[t].pc = "list"
    BY <2>1, Turned DEF Others
  <2>3. Quiet(t)
    BY <1>2, <2>2 DEF Quiet, Busy, Sending, Carrying
  <2>4. holder' \in {holder, NoRun} /\ holder' # task[t].head.id
    BY <1>2, <1>4, HeadIs, NoRunAssumption DEF GiveBack, Release, Claiming
  <2>5. Steady(t)
    BY <1>3, <2>2, <2>4 DEF Steady
  <2> QED BY <2>3, <2>5, QuietKeeps
<1>5. CASE RestorePause(t)
  <2>1. /\ task'[t] = [task[t] EXCEPT !.pc = "restoreFree"] /\ Others(t)
        /\ task'[t].pc = "restoreFree"
    BY <1>5, Went DEF RestorePause, Others
  <2>2. task'[t].head = task[t].head
    BY <2>1, Reads DEF Progress
  <2>3. Quiet(t)
    BY <1>2, <2>1 DEF Quiet, Busy, Sending, Carrying
  <2>4. \A id : HoldsFor(t, id) => HoldsFor(t, id)'
    BY <1>3, <2>1, <2>2 DEF HoldsFor, Claiming
  <2>5. Steady(t)
    BY <1>5, <2>1, <2>4 DEF Steady, RestorePause
  <2> QED BY <2>3, <2>5, QuietKeeps
<1>6. CASE RestoreFree(t)
  <2>1. task'[t].pc = AfterDrain(t) /\ Others(t)
    BY <1>6, Went DEF RestoreFree, Others
  <2>2. Quiet(t)
    BY <1>1, <1>2, <2>1 DEF Quiet, Busy, Sending, Carrying
  <2>3. holder' \in {holder, NoRun} /\ holder' # task[t].head.id
    BY <1>2, <1>6, HeadIs, NoRunAssumption DEF RestoreFree, Release, Claiming
  <2>4. Steady(t)
    BY <1>1, <1>3, <2>1, <2>3 DEF Steady
  <2> QED BY <2>2, <2>4, QuietKeeps
<1> QED BY <1>4, <1>5, <1>6

(* A claim that goes on with the same head. *)
LEMMA OnwardSteady ==
  ASSUME NEW t \in Tasks, Others(t), UNCHANGED holder, task[t].pc \in Claiming,
         task'[t].pc \in Claiming, task'[t].head = task[t].head
  PROVE  Steady(t)
<1>1. \A id : HoldsFor(t, id) => HoldsFor(t, id)'
  BY DEF HoldsFor, Claiming, Carrying
<1> QED BY <1>1 DEF Steady, Claiming, Carrying

LEMMA PassStep ==
  ASSUME QType, Tokens, NEW t \in Tasks,
         \/ TakeOut(t) \/ Restore(t)
         \/ Journal(t)
         \/ /\ (Launch(t) \/ Spawn(t)) /\ Fails
            /\ Goto(t, "restore") /\ UNCHANGED <<store, ran, gone>>
  PROVE  Tokens' /\ Steady(t)
<1> USE DEF At
<1> DEFINE m == task[t].head.id.message
<1>0. task[t].pc \in {"remove", "launch", "spawn", "restore"}
  BY DEF TakeOut, Restore, Journal, Launch, Spawn
<1>1. m \in Message /\ task[t].pc \in Claiming
  BY <1>0, HeadIs DEF Claiming, Carrying
<1>2. PICK to \in {"launch", "giveback", "restorePause", "spawn", "restore"} : Goto(t, to)
  BY DEF TakeOut, Restore, Journal
<1>3. task'[t].pc = to /\ task'[t] = [task[t] EXCEPT !.pc = to] /\ Others(t)
  BY <1>2, Went DEF Others
<1>4. task'[t].head = task[t].head
  BY <1>3, Reads DEF Progress
<1>5. UNCHANGED <<holder, ran, gone>>
  BY DEF TakeOut, Restore, Journal, store, history
<1>6. Steady(t)
  BY <1>1, <1>3, <1>4, <1>5, OnwardSteady DEF Claiming, Carrying
<1>7. Alone(t) /\ SameNew
  BY <1>1, <1>3, AloneThen DEF Claiming, Carrying
<1>8. /\ Hand(t) = IF task[t].pc \in Carrying THEN {m} ELSE {}
      /\ Hand(t)' = IF to \in Carrying THEN {m} ELSE {}
  BY <1>0, <1>3, <1>4 DEF Hand, InHand, MessageOf, Carrying
<1>9. Kept(m)
  BY <1>1 DEF Tokens
<1> HIDE DEF m
<1>10. CASE TakeOut(t)
  <2>1. CASE Queued(task[t].head.id)
    <3>1. queue' = Without(task[t].head.id)
      BY <1>10, <2>1 DEF TakeOut
    <3>2. Once(queue') /\ Msgs(queue') = Msgs(queue) \ {m} /\ m \in Msgs(queue)
      BY <2>1, <3>1, TakesOut DEF Tokens, m
    <3>3. Hand(t) = {} /\ Hand(t)' \subseteq {m} /\ (to = "launch" => Hand(t)' = {m})
      BY <1>8, <1>10 DEF TakeOut, Carrying
    <3>4. to = "launch"
      <4>1. Goto(t, "launch")
        BY <1>10, <2>1 DEF TakeOut
      <4> QED BY <1>3, <4>1, Went
    <3>5. Passes(t)
      BY <1>5, <1>7, <3>2, <3>3, <3>4 DEF Passes
    <3> QED BY <1>6, <3>5, PassesKeeps
  <2>2. CASE ~Queued(task[t].head.id)
    <3>1. UNCHANGED queue /\ Goto(t, "giveback")
      BY <1>10, <2>2 DEF TakeOut
    <3>2. to = "giveback"
      BY <1>3, <3>1, Went
    <3>3. Hand(t) = {} /\ Hand(t)' = {}
      BY <1>8, <1>10, <3>2 DEF TakeOut, Carrying
    <3>4. Passes(t)
      BY <1>5, <1>7, <3>1, <3>3 DEF Passes, Tokens
    <3> QED BY <1>6, <3>4, PassesKeeps
  <2> QED BY <2>1, <2>2
<1>11. CASE Restore(t)
  <2> DEFINE e == [id |-> [task[t].head.id EXCEPT !.copy = @ + 1], interrupt |-> FALSE]
  <2>1. e \in [id : {e.id}, interrupt : BOOLEAN] /\ e.id.message = m
    BY <1>1, HeadIs DEF Entries, Ids, m
  <2>2. queue' = <<e>> \o queue
    BY <1>11 DEF Restore
  <2>3. to = "restorePause"
    <3>1. Goto(t, "restorePause")
      BY <1>11 DEF Restore
    <3> QED BY <1>3, <3>1, Went
  <2>4. Hand(t) = {m} /\ Hand(t)' = {}
    BY <1>8, <1>11, <2>3 DEF Restore, Carrying
  <2>5. m \notin Msgs(queue)
    BY <1>9, <2>4 DEF Kept
  <2> DEFINE E == Entries(failures) \cup {e}
  <2>6. queue \in Seq(E) /\ e \in E
    BY DEF QType
  <2> HIDE DEF e, E
  <2>7. Once(queue') /\ Msgs(queue') = Msgs(queue) \cup {m}
    BY <2>1, <2>2, <2>5, <2>6, Prepended DEF Tokens
  <2>8. Passes(t)
    BY <1>5, <1>7, <2>4, <2>7 DEF Passes
  <2> QED BY <1>6, <2>8, PassesKeeps
<1>12. CASE ~TakeOut(t) /\ ~Restore(t)
  <2>1. Goto(t, "spawn") \/ Goto(t, "restore")
    BY <1>12 DEF Journal
  <2>2. to \in {"spawn", "restore"}
    BY <1>3, <2>1, Went
  <2>3. task[t].pc \in Carrying /\ UNCHANGED queue
    BY <1>12 DEF Journal, Launch, Spawn, Carrying, store
  <2>4. Hand(t)' = Hand(t) /\ Hand(t) = {m}
    BY <1>8, <2>2, <2>3 DEF Carrying
  <2> QED BY <1>1, <1>3, <1>5, <1>6, <2>2, <2>3, <2>4, PassesSame DEF Carrying
<1> QED BY <1>10, <1>11, <1>12
(* A start that succeeds: who had the thread for the run, gives it to it. *)
LEMMA BeginKeeps ==
  ASSUME QType, Tokens, NEW t \in Tasks, NEW id \in Id, NEW after \in {"close", "done"},
         Begins(t, id, after), id.message \in Hand(t), t \in Id => after = "close",
         \A x : HoldsFor(t, x) => x = id, UNCHANGED <<queue, holder, gone>>
  PROVE  Tokens' /\ (holder \in Id /\ Answers(holder) => Answers(holder)')
<1>1. Tokens'
  BY StartedKeeps
<1>2. id \in Tasks /\ id.message \in Message /\ DOMAIN task = Tasks
  BY DEF Id, Tasks, QType
<1>3. task[id].pc = "new" /\ t # id
  <2>1. task[t].pc # "new"
    BY DEF Hand, InHand
  <2>2. ran[id.message] = 0
    BY <1>2 DEF Tokens, Kept
  <2> QED BY <2>1, <2>2 DEF Tokens
<1>4. /\ task'[t].pc = after /\ task'[id].pc = "running"
      /\ \A u \in Tasks \ {t, id} : task'[u] = task[u]
  BY <1>2, <1>3, Reads DEF Begins, Over, Fresh, Progress
<1>5. ASSUME holder \in Id, Answers(holder) PROVE Answers(holder)'
  <2>1. holder' = holder /\ holder \in Tasks
    BY <1>5 DEF Tasks
  <2>2. CASE task[holder].pc \notin {"new", "done"}
    <3>1. task'[holder].pc \notin {"new", "done"}
      BY <1>3, <1>4, <1>5, <2>1, <2>2
    <3> QED BY <2>1, <3>1 DEF Answers
  <2>3. ASSUME NEW u \in Tasks, HoldsFor(u, holder) PROVE Answers(holder)'
    <3>1. CASE u = t
      BY <1>4, <2>1, <2>3, <3>1 DEF Answers
    <3>2. u # id
      BY <1>3, <2>3 DEF HoldsFor, Claiming, Carrying
    <3>3. CASE u # t
      <4>1. HoldsFor(u, holder)'
        BY <1>4, <2>1, <2>3, <3>2, <3>3, SameHold
      <4> QED BY <4>1 DEF Answers
    <3> QED BY <3>1, <3>3
  <2> QED BY <1>5, <2>2, <2>3 DEF Answers
<1> QED BY <1>1, <1>5

LEMMA LaunchStep ==
  ASSUME QType, Tokens, NEW t \in Tasks, Launch(t) \/ (t \in Id /\ Spawn(t))
  PROVE  Tokens' /\ (Steady(t) \/ (holder' = holder /\
                        (holder \in Id /\ Answers(holder) => Answers(holder)')))
<1> USE DEF At
<1> DEFINE id == task[t].head.id
<1>1. id \in Id /\ id.message \in Message /\ task[t].pc \in {"launch", "spawn"}
  BY HeadIs DEF Launch, Spawn, Claiming, Carrying
<1>2. Hand(t) = {id.message} /\ \A x : HoldsFor(t, x) => x = id
  BY <1>1 DEF Hand, InHand, MessageOf, HoldsFor
<1> HIDE DEF id
<1>3. ASSUME NEW after \in {"close", "done"}, t \in Id => after = "close", Begins(t, id, after),
             UNCHANGED <<store, gone>>
      PROVE  Tokens' /\ holder' = holder /\ (holder \in Id /\ Answers(holder) => Answers(holder)')
  BY <1>1, <1>2, <1>3, BeginKeeps DEF store
<1>4. AfterDrain(t) \in {"close", "done"} /\ (t \in Id => AfterDrain(t) = "close")
  BY DEF AfterDrain
<1>5. CASE Fails /\ Goto(t, "restore") /\ UNCHANGED <<store, ran, gone>>
  BY <1>5, PassStep
<1>6. CASE Begins(t, id, AfterDrain(t)) /\ UNCHANGED <<store, gone>>
  BY <1>3, <1>4, <1>6
<1>7. CASE t \in Id /\ Begins(t, id, "close") /\ UNCHANGED <<store, gone>>
  BY <1>3, <1>7
<1> QED BY <1>5, <1>6, <1>7 DEF Launch, Spawn, id
LEMMA SendTokens ==
  ASSUME QType, Tokens, NEW m \in Message, SendStep(m)
  PROVE  Tokens' /\ (\/ Steady(m) \/ Answers(holder)'
                     \/ (holder' = holder /\ (holder \in Id /\ Answers(holder) => Answers(holder)')))
<1> USE DEF At
<1>0. m \in Tasks /\ m \notin Id /\ First(m) \in Id /\ First(m).message = m
  BY NamesAssumption, MaximaAssumption DEF Tasks, First, Id
<1>1. /\ task[m].pc \in Sending => Hand(m) = {m} /\ MessageOf(m) = m
      /\ task'[m].pc \in Sending => Hand(m)' = {m}
      /\ task'[m].pc \in {"lift", "kick", "done"} => Hand(m)' = {}
  BY DEF Hand, InHand, MessageOf, Sending
<1>2. task[m].pc \in Sending => \A x : HoldsFor(m, x) => x = First(m) /\ task[m].pc \in {"begin", "refuse"}
  BY DEF HoldsFor, Sending, Claiming, Carrying
<1>3. task[m].pc \in Sending => Kept(m) /\ m \notin Msgs(queue)
  BY <1>0, <1>1 DEF Tokens, Kept
<1>4. CASE SendLooks(m)
  <2>1. PICK mode \in Modes :
          Becomes(m, [task[m] EXCEPT !.pc = "alive", !.mode = mode, !.saw = holder])
    BY <1>4 DEF SendLooks
  <2> DEFINE n == [task[m] EXCEPT !.pc = "alive", !.mode = mode, !.saw = holder]
  <2>2. Becomes(m, n) /\ n.pc = "alive"
    BY <1>0, <2>1, Reads DEF Progress
  <2> HIDE DEF n
  <2>3. task'[m].pc = "alive" /\ Others(m)
    BY <1>0, <2>2, Turned DEF Others
  <2>4. task[m].pc = "new" /\ UNCHANGED <<queue, holder, ran, gone>>
    BY <1>4 DEF SendLooks, store, history
  <2>5. Alone(m) /\ \A u \in (Message \cup Id) \ {m} : task'[u].pc = "new" <=> task[u].pc = "new"
    BY <2>3, SameHand DEF Others, Alone, Tasks
  <2>6. Hand(m)' = {m} /\ ran \in [Message -> Nat]
    BY <1>1, <2>3 DEF Sending, QType
  <2>7. Tokens'
    BY <1>0, <2>3, <2>4, <2>5, <2>6, SentKeeps
  <2>8. Steady(m)
    BY <1>0, <2>3, <2>4 DEF Steady, HoldsFor, Claiming, Carrying
  <2> QED BY <2>7, <2>8
<1>5. ASSUME task[m].pc \in Sending, task'[m].pc \in Sending, Others(m),
             UNCHANGED <<queue, ran, gone>>
      PROVE  Tokens'
  <2>1. task[m].pc # "new" /\ task'[m].pc # "new" /\ Hand(m)' = Hand(m) /\ Hand(m) = {m}
    BY <1>1, <1>5 DEF Sending
  <2> QED BY <1>0, <1>5, <2>1, PassesSame
<1>6. CASE SendJudges(m)
  <2>1. PICK pc \in {"take", "enqueue"},
             mode \in {"settle", "auto", "queue", "interrupt", "resume", "prioritize", "clear"} :
          Becomes(m, [task[m] EXCEPT !.pc = pc, !.mode = mode])
    BY <1>0, <1>6, Reads DEF SendJudges, Progress
  <2> DEFINE n == [task[m] EXCEPT !.pc = pc, !.mode = mode]
  <2>2. Becomes(m, n) /\ n.pc = pc
    BY <1>0, <2>1, Reads DEF Progress
  <2> HIDE DEF n
  <2>3. task'[m].pc = pc /\ Others(m)
    BY <1>0, <2>2, Turned DEF Others
  <2>4. task[m].pc = "alive" /\ UNCHANGED <<queue, holder, ran, gone>>
    BY <1>6 DEF SendJudges, store, history
  <2>5. Tokens'
    BY <1>5, <2>3, <2>4 DEF Sending
  <2>6. Steady(m)
    BY <1>0, <1>2, <2>3, <2>4 DEF Steady, Sending
  <2> QED BY <2>5, <2>6
<1>7. CASE SendTakes(m)
  <2>1. PICK to \in {"begin", "enqueue"} : Goto(m, to) /\ (to = "begin" => holder' = First(m))
                                          /\ (to = "enqueue" => UNCHANGED holder)
    BY <1>7 DEF SendTakes
  <2>2. task'[m].pc = to /\ Others(m)
    BY <1>0, <2>1, Went DEF Others
  <2>3. task[m].pc = "take" /\ UNCHANGED <<queue, ran, gone>>
    BY <1>7 DEF SendTakes, history
  <2>4. Tokens'
    BY <1>5, <2>2, <2>3 DEF Sending
  <2>5. CASE to = "begin"
    <3>1. HoldsFor(m, holder)'
      BY <2>1, <2>2, <2>5 DEF HoldsFor
    <3> QED BY <1>0, <2>4, <3>1 DEF Answers
  <2>6. CASE to = "enqueue"
    <3>1. Steady(m)
      BY <1>0, <1>2, <2>1, <2>2, <2>3, <2>6 DEF Steady, Sending
    <3> QED BY <2>4, <3>1
  <2> QED BY <2>5, <2>6
<1>8. CASE SendBegins(m)
  <2>1. task[m].pc = "begin" /\ UNCHANGED <<queue, holder, gone>>
    BY <1>8 DEF SendBegins, store
  <2>2. CASE Begins(m, First(m), "done")
    <3>1. /\ \A x : HoldsFor(m, x) => x = First(m)
          /\ First(m).message \in Hand(m)
      BY <1>0, <1>1, <1>2, <2>1 DEF Sending
    <3>2. Tokens' /\ (holder \in Id /\ Answers(holder) => Answers(holder)')
      BY <1>0, <2>1, <2>2, <3>1, BeginKeeps
    <3> QED BY <2>1, <3>2
  <2>3. CASE Goto(m, "refuse") /\ UNCHANGED ran
    <3>1. task'[m].pc = "refuse" /\ Others(m)
      BY <1>0, <2>3, Went DEF Others
    <3>2. Tokens'
      BY <1>5, <2>1, <2>3, <3>1 DEF Sending
    <3>3. \A x : HoldsFor(m, x) => HoldsFor(m, x)'
      BY <1>2, <2>1, <3>1 DEF HoldsFor, Sending
    <3>4. Steady(m)
      BY <1>0, <2>1, <3>1, <3>3 DEF Steady
    <3> QED BY <3>2, <3>4
  <2> QED BY <1>8, <2>2, <2>3 DEF SendBegins
<1>9. CASE SendRefused(m)
  <2>1. /\ task[m].pc = "refuse" /\ Goto(m, "done") /\ Release(First(m))
        /\ gone' = gone \cup {m} /\ UNCHANGED <<queue, ran>>
    BY <1>9 DEF SendRefused
  <2>2. task'[m].pc = "done" /\ Others(m)
    BY <1>0, <2>1, Went DEF Others
  <2>3. Alone(m) /\ SameNew
    BY <1>0, <2>1, <2>2, AloneThen
  <2>4. Passes(m)
    BY <1>1, <1>3, <2>1, <2>2, <2>3 DEF Passes, Tokens, Sending
  <2>5. holder' \in {holder, NoRun} /\ holder' # First(m)
    BY <1>0, <2>1, NoRunAssumption DEF Release
  <2>6. Steady(m)
    BY <1>0, <1>2, <2>1, <2>2, <2>5 DEF Steady, Sending
  <2> QED BY <1>0, <2>4, <2>6, PassesKeeps
<1>10. CASE Enqueue(m)
  <2> DEFINE e == [id |-> First(m), interrupt |-> task[m].mode = "interrupt"]
  <2>1. task[m].pc = "enqueue" /\ UNCHANGED <<holder, ran, gone>>
    BY <1>10 DEF Enqueue, history
  <2>2. PICK to \in {"lift", "kick"} : Goto(m, to)
    BY <1>10 DEF Enqueue
  <2>3. task'[m].pc = to /\ Others(m)
    BY <1>0, <2>2, Went DEF Others
  <2>4. Alone(m) /\ SameNew
    BY <1>0, <2>1, <2>3, AloneThen
  <2>5. queue' = <<e>> \o queue \/ queue' = Append(queue, e)
    BY <1>10 DEF Enqueue
  <2>6. e.id.message = m
    BY <1>0
  <2> DEFINE E == Entries(failures) \cup {e}
  <2>7. queue \in Seq(E) /\ e \in E
    BY DEF QType
  <2> HIDE DEF e, E
  <2>8. Once(queue') /\ Msgs(queue') = Msgs(queue) \cup {m}
    <3>1. Once(queue) /\ m \notin Msgs(queue)
      BY <1>3, <2>1 DEF Tokens, Sending
    <3>2. Once(<<e>> \o queue) /\ Msgs(<<e>> \o queue) = Msgs(queue) \cup {m}
      BY <2>6, <2>7, <3>1, Prepended
    <3>3. Once(Append(queue, e)) /\ Msgs(Append(queue, e)) = Msgs(queue) \cup {m}
      BY <2>6, <2>7, <3>1, Appended
    <3> QED BY <2>5, <3>2, <3>3
  <2>9. Hand(m) = {m} /\ Hand(m)' = {}
    BY <1>1, <2>1, <2>3 DEF Sending
  <2>10. Passes(m)
    BY <2>1, <2>4, <2>8, <2>9 DEF Passes
  <2>11. Steady(m)
    BY <1>0, <1>2, <2>1, <2>3 DEF Steady, Sending
  <2> QED BY <1>0, <2>10, <2>11, PassesKeeps
<1> QED BY <1>4, <1>6, <1>7, <1>8, <1>9, <1>10 DEF SendStep
LEMMA RequestTokens ==
  ASSUME QType, Tokens, NEW v \in Visit,
         TakeBack(v) \/ Reorder(v) \/ Clear(v) \/ Prioritize(v) \/ Move(v)
  PROVE  Tokens' /\ Steady(v)
<1> USE DEF At
<1>0. v \in Tasks /\ v \notin Id /\ v \notin Message /\ queue \in Seq(Entries(failures)) /\ Once(queue)
  BY NamesAssumption DEF Tasks, QType, Tokens
<1>1. ASSUME NEW pc \in {"done", "lift", "move"}, task'[v].pc = pc, Others(v), UNCHANGED <<holder, ran>>,
             Once(queue'), Msgs(queue') \subseteq Msgs(queue),
             Msgs(queue) \ Msgs(queue') \subseteq gone', gone \subseteq gone'
      PROVE  Tokens' /\ Steady(v)
  <2>1. task[v].pc \in {"new", "move"}
    BY DEF TakeBack, Reorder, Clear, Prioritize, Move, Asks
  <2>2. Alone(v) /\ SameNew
    BY <1>0, <1>1, AloneThen
  <2>3. Hand(v) = {} /\ Hand(v)' = {}
    BY <1>0, <1>1, <2>1 DEF Hand, InHand
  <2>4. Passes(v)
    BY <1>1, <2>2, <2>3 DEF Passes
  <2>5. Steady(v)
    BY <1>0, <1>1, <2>1 DEF Steady, HoldsFor, Claiming, Carrying
  <2> QED BY <1>0, <2>4, <2>5, PassesKeeps
<1>2. CASE TakeBack(v)
  <2>1. PICK i \in DOMAIN queue : /\ queue' = RemoveAt(queue, i)
                                  /\ gone' = gone \cup {queue[i].id.message}
    BY <1>2 DEF TakeBack
  <2>2. Once(queue') /\ Msgs(queue') = Msgs(queue) \ {queue[i].id.message}
    BY <1>0, <2>1, Removed
  <2>3. task'[v].pc = "done" /\ Others(v)
    BY <1>0, <1>2, Went DEF TakeBack, Others
  <2>4. UNCHANGED <<holder, ran>>
    BY <1>2 DEF TakeBack
  <2> QED BY <1>1, <2>1, <2>2, <2>3, <2>4
<1>3. CASE Reorder(v)
  <2>1. PICK i \in DOMAIN queue, j \in DOMAIN queue :
          queue' = InsertAt(RemoveAt(queue, i), j, queue[i])
    BY <1>3 DEF Reorder
  <2>2. Once(queue') /\ Msgs(queue') = Msgs(queue)
    BY <1>0, <2>1, Moved
  <2>3. task'[v].pc = "done" /\ Others(v)
    BY <1>0, <1>3, Went DEF Reorder, Others
  <2>4. UNCHANGED <<holder, ran, gone>>
    BY <1>3 DEF Reorder, history
  <2> QED BY <1>1, <2>2, <2>3, <2>4
<1>4. CASE Clear(v)
  <2> DEFINE n == [task[v] EXCEPT !.pc = "lift", !.mode = "clear"]
  <2>1. Becomes(v, n) /\ n.pc = "lift"
    BY <1>0, <1>4, Reads DEF Clear, Progress
  <2> HIDE DEF n
  <2>2. task'[v].pc = "lift" /\ Others(v)
    BY <1>0, <2>1, Turned DEF Others
  <2>3. Once(queue') /\ Msgs(queue') = {}
    <3>1. queue' = <<>> /\ DOMAIN queue' = {}
      BY <1>4 DEF Clear
    <3> QED BY <3>1 DEF Once, Msgs
  <2>4. gone' = gone \cup Msgs(queue) /\ UNCHANGED <<holder, ran>>
    BY <1>4 DEF Clear, Msgs
  <2> QED BY <1>1, <2>2, <2>3, <2>4
<1>5. CASE Prioritize(v)
  <2>1. PICK i \in DOMAIN queue :
          /\ queue' = [queue EXCEPT ![i].interrupt = TRUE]
          /\ Becomes(v, [task[v] EXCEPT !.pc = "move", !.mode = "prioritize",
                                        !.head = [id |-> queue[i].id, interrupt |-> TRUE]])
    BY <1>5 DEF Prioritize
  <2> DEFINE n == [task[v] EXCEPT !.pc = "move", !.mode = "prioritize",
                                  !.head = [id |-> queue[i].id, interrupt |-> TRUE]]
  <2>2. Becomes(v, n) /\ n.pc = "move"
    BY <1>0, <2>1, Reads DEF Progress
  <2> HIDE DEF n
  <2>3. task'[v].pc = "move" /\ Others(v)
    BY <1>0, <2>2, Turned DEF Others
  <2>4. Once(queue') /\ Msgs(queue') = Msgs(queue)
    BY <1>0, <2>1, Marked DEF Entries
  <2>5. UNCHANGED <<holder, ran, gone>>
    BY <1>5 DEF Prioritize, history
  <2> QED BY <1>1, <2>3, <2>4, <2>5
<1>6. CASE Move(v)
  <2>1. UNCHANGED <<holder, ran, gone>> /\ task[v].pc = "move"
    BY <1>6 DEF Move, history
  <2>2. PICK to \in {"lift", "done"} : Goto(v, to)
    BY <1>6 DEF Move
  <2>3. task'[v].pc = to /\ Others(v)
    BY <1>0, <2>2, Went DEF Others
  <2> DEFINE id == task[v].head.id
  <2>4. CASE Queued(id)
    <3>1. Once(Without(id)) /\ Msgs(Without(id)) = Msgs(queue) \ {id.message} /\ id.message \in Msgs(queue)
      BY <1>0, <2>4, TakesOut
    <3>2. Without(id) \in Seq(Entries(failures))
      <4>1. Position(id) \in DOMAIN queue
        BY <2>4 DEF Queued, Position
      <4> QED BY <1>0, <4>1, RemoveOne DEF Without
    <3>3. task[v].head \in Entries(failures)
      BY <1>0, <2>1, HeadIs
    <3>4. queue' = <<task[v].head>> \o Without(id)
      BY <1>6, <2>4 DEF Move
    <3> DEFINE e == task[v].head
               w == Without(id)
    <3>5. w \in Seq(Entries(failures)) /\ e \in Entries(failures) /\ e.id.message = id.message
          /\ Once(w) /\ Msgs(w) = Msgs(queue) \ {id.message} /\ queue' = <<e>> \o w
      BY <3>1, <3>2, <3>3, <3>4
    <3> HIDE DEF e, w, id
    <3>6. Once(queue') /\ Msgs(queue') = Msgs(queue)
      <4>1. e.id.message \notin Msgs(w)
        BY <3>5
      <4>2. Once(<<e>> \o w) /\ Msgs(<<e>> \o w) = Msgs(w) \cup {e.id.message}
        BY <3>5, <4>1, Prepended
      <4> QED BY <3>1, <3>5, <4>2
    <3> QED BY <1>1, <2>1, <2>3, <3>6
  <2>5. CASE ~Queued(id)
    <3>1. UNCHANGED queue
      BY <1>6, <2>5 DEF Move
    <3> QED BY <1>0, <1>1, <2>1, <2>3, <3>1
  <2> QED BY <2>4, <2>5
<1> QED BY <1>2, <1>3, <1>4, <1>5, <1>6

(* A run closes; or the runtime ends it, and it no longer counts as running. *)
LEMMA CloseStep ==
  ASSUME QType, Tokens, NEW id \in Id, RunCloses(id) \/ Closes(id) \/ EndedOutside(id)
  PROVE  /\ Tokens'
         /\ \/ Steady(id)
            \/ /\ EndedOutside(id) /\ holder' = holder
               /\ holder \in live' /\ holder \in Id /\ Answers(holder) => Answers(holder)'
<1> USE DEF At
<1>0. id \in Tasks
  BY DEF Tasks
<1>1. /\ task[id].pc \in {"close", "running"} /\ Goto(id, "done")
      /\ UNCHANGED <<queue, ran, gone>>
  BY DEF RunCloses, Closes, EndedOutside, store, history
<1>2. task'[id].pc = "done" /\ Others(id)
  BY <1>0, <1>1, Went DEF Others
<1>3. Tokens'
  <2>1. Quiet(id)
    BY <1>1, <1>2 DEF Quiet, Busy, Sending, Carrying
  <2> QED BY <1>0, <2>1, QuietKeeps
<1>4. \A x : ~HoldsFor(id, x)
  BY <1>1 DEF HoldsFor, Claiming, Carrying
<1>5. CASE RunCloses(id) \/ Closes(id)
  <2>1. holder' \in {holder, NoRun} /\ holder' # id
    BY <1>5, NoRunAssumption DEF RunCloses, Closes, Release
  <2>2. Steady(id)
    BY <1>2, <1>4, <2>1 DEF Steady
  <2> QED BY <1>3, <2>2
<1>6. CASE EndedOutside(id)
  <2>1. holder' = holder /\ live' = live \ {id}
    BY <1>6 DEF EndedOutside, store
  <2>2. ASSUME holder \in live', holder \in Id, Answers(holder) PROVE Answers(holder)'
    <3>1. holder # id /\ holder \in Tasks
      BY <2>1, <2>2 DEF Tasks
    <3>2. CASE task[holder].pc \notin {"new", "done"}
      BY <1>2, <2>1, <3>1, <3>2 DEF Others, Answers
    <3>3. ASSUME NEW u \in Tasks, HoldsFor(u, holder) PROVE Answers(holder)'
      <4>1. HoldsFor(u, holder)'
        BY <1>2, <1>4, <2>1, <3>3, SameHold DEF Others
      <4> QED BY <4>1 DEF Answers
    <3> QED BY <2>2, <3>2, <3>3 DEF Answers
  <2> QED BY <1>3, <1>6, <2>1, <2>2
<1> QED BY <1>5, <1>6

(* Another worker takes a body over: what was out of the queue is gone. *)
LEMMA WorkerEndsKeeps ==
  ASSUME QType, Tokens, NEW id \in Id, WorkerEnds(id)
  PROVE  Tokens'
<1> USE DEF At
<1> DEFINE n == [Fresh EXCEPT !.pc = "plan", !.holding = id,
                   !.outcome = IF task[id].outcome = "failed" THEN "failed" ELSE "completed"]
<1>0. id \in Tasks /\ id \notin Message
  BY NamesAssumption DEF Tasks
<1>1. Becomes(id, n) /\ task[id].pc \in Planning /\ UNCHANGED <<queue, ran>>
  BY DEF WorkerEnds, store
<1>2. n.pc = "plan"
  BY DEF Fresh
<1> HIDE DEF n
<1>3. task'[id].pc = "plan" /\ Others(id)
  BY <1>0, <1>1, <1>2, Turned DEF Others
<1>4. Alone(id) /\ SameNew
  BY <1>0, <1>1, <1>3, AloneThen DEF Planning
<1>5. Hand(id)' = {} /\ Hand(id) \subseteq gone' /\ gone \subseteq gone'
  BY <1>0, <1>1, <1>3 DEF WorkerEnds, Hand, InHand, MessageOf, Planning
<1>6. Passes(id)
  BY <1>1, <1>4, <1>5 DEF Passes, Tokens
<1> QED BY <1>0, <1>6, PassesKeeps

(***************************************************************************)
(* Every step, under either runner.                                        *)
(***************************************************************************)

(* Who has the thread answers for it after a step of t as before. *)
Stood(t) ==
  \/ Steady(t)
  \/ Answers(holder)'
  \/ holder' = holder /\ (holder \in Id /\ Answers(holder) => Answers(holder)')

LEMMA PlainKeeps == ASSUME Tokens, NEW t \in Tasks, Plain(t) PROVE Tokens' /\ Stood(t)
BY QuietKeeps, PlainSteady DEF Plain, Stood

LEMMA WorksKeeps ==
  ASSUME QType, Tokens, NEW t \in Tasks, Works(t)
  PROVE  Tokens' /\ Stood(t)
<1>1. CASE \/ Lift(t) \/ Kick(t) \/ Judge(t) \/ Guard(t) \/ List(t)
           \/ Vacate(t) \/ ReadPause(t) \/ SetPause(t) \/ Leave(t)
  BY <1>1, PlainDrain, PlainKeeps
<1>2. CASE Claim(t)
  BY <1>2, ClaimStep DEF Stood
<1>3. CASE GiveBack(t) \/ RestorePause(t) \/ RestoreFree(t)
  BY <1>3, GiveBackStep DEF Stood
<1>4. CASE TakeOut(t) \/ Restore(t)
  BY <1>4, PassStep DEF Stood
<1>5. CASE Launch(t)
  BY <1>5, LaunchStep DEF Stood
<1>6. CASE t \in Message /\ SendStep(t)
  BY <1>6, SendTokens DEF Stood
<1>7. CASE t \in Visit /\ (Resume(t) \/ Look(t) \/ Still(t) \/ Waits(t))
  BY <1>7, PlainRequest, PlainKeeps
<1>8. CASE t \in Visit /\ (TakeBack(t) \/ Reorder(t) \/ Clear(t) \/ Prioritize(t) \/ Move(t))
  BY <1>8, RequestTokens DEF Stood
<1> QED BY <1>1, <1>2, <1>3, <1>4, <1>5, <1>6, <1>7, <1>8 DEF Works, Plan, Starts, QueueRequest

LEMMA InlineKeeps ==
  ASSUME QType, Tokens, NEW t \in Tasks, Step(t)
  PROVE  Tokens' /\ Stood(t)
<1>1. CASE Works(t)
  BY <1>1, WorksKeeps
<1>2. CASE Cancel(t) \/ (t \in Id /\ RunEnds(t))
  BY <1>2, PlainRun, PlainKeeps
<1>3. CASE t \in Visit /\ Stop(t)
  BY <1>3, PlainRequest, PlainKeeps
<1>4. CASE t \in Id /\ RunCloses(t)
  <2>1. ~EndedOutside(t)
    BY <1>4 DEF RunCloses, EndedOutside, At
  <2> QED BY <1>4, <2>1, CloseStep DEF Stood
<1> QED BY <1>1, <1>2, <1>3, <1>4 DEF Step

LEMMA RequestKeeps ==
  ASSUME QType, Tokens, NEW t \in Request, RequestStep(t)
  PROVE  t \in Tasks /\ Tokens' /\ Stood(t)
<1>1. t \in Tasks
  BY DEF Tasks, Request
<1>2. CASE Works(t)
  BY <1>1, <1>2, WorksKeeps
<1>3. CASE Detail(t) \/ Tell(t)
  BY <1>1, <1>3, PlainRun, PlainKeeps
<1>4. CASE t \in Visit /\ AskStop(t)
  BY <1>1, <1>4, PlainRequest, PlainKeeps
<1> QED BY <1>1, <1>2, <1>3, <1>4 DEF RequestStep

LEMMA BodyKeeps ==
  ASSUME QType, Tokens, NEW id \in Id, BodyStep(id)
  PROVE  /\ id \in Tasks /\ Tokens'
         /\ \/ Stood(id)
            \/ /\ holder' = holder
               /\ holder \in live' /\ holder \in Id /\ Answers(holder) => Answers(holder)'
<1>0. id \in Tasks
  BY DEF Tasks
<1>1. CASE Ends(id) \/ Halts(id) \/ LooksBack(id)
  BY <1>0, <1>1, PlainRun, PlainKeeps
<1>2. CASE EndedOutside(id) \/ Closes(id)
  BY <1>0, <1>2, CloseStep DEF Stood
<1>3. CASE Plan(id) \/ Restore(id) \/ RestorePause(id) \/ RestoreFree(id)
  BY <1>0, <1>3, WorksKeeps DEF Works, Starts
<1>4. CASE Journal(id)
  BY <1>0, <1>4, PassStep DEF Stood
<1>5. CASE Spawn(id)
  BY <1>0, <1>5, LaunchStep DEF Stood
<1> QED BY <1>1, <1>2, <1>3, <1>4, <1>5 DEF BodyStep

LEMMA StoodKeeps ==
  ASSUME NEW S, S \subseteq Id, Held(S), NEW t \in Tasks, Stood(t), holder' \in S
  PROVE  Answers(holder)'
<1>1. CASE Steady(t)
  BY <1>1, SteadyKeeps
<1>2. CASE ~Steady(t)
  BY <1>2 DEF Stood, Held
<1> QED BY <1>1, <1>2

(***************************************************************************)
(* The inline runner.                                                      *)
(***************************************************************************)
QueueInv == QType /\ Tokens /\ (crashes = 0 => Held(Id))

LEMMA Start ==
  ASSUME Init \/ DInit
  PROVE  QType /\ Tokens /\ holder = NoRun
<1> USE DEF Init, DInit
<1>1. queue = <<>> /\ failures = 0 /\ crashes = 0 /\ task = [t \in Tasks |-> Fresh]
      /\ ran = [m \in Message |-> 0] /\ holder = NoRun
  OBVIOUS
<1>2. \A t \in Tasks : Sound(t, Fresh, 0)
  BY AtRest
<1>3. QType
  BY <1>1, <1>2, MaximaAssumption DEF QType, Sound
<1>4. \A t \in Tasks : Hand(t) = {} /\ task[t].pc = "new"
  BY <1>1 DEF Hand, InHand, Fresh
<1>5. DOMAIN queue = {}
  BY <1>1
<1>6. Msgs(queue) = {} /\ Once(queue)
  BY <1>5 DEF Msgs, Once
<1>7. \A m \in Message : Kept(m)
  BY <1>1, <1>4, <1>6 DEF Kept, Tasks
<1> QED BY <1>1, <1>3, <1>4, <1>6, <1>7 DEF Tokens, Tasks

LEMMA WorksOnly ==
  ASSUME NEW t, Works(t) \/ Plan(t) \/ Restore(t) \/ RestorePause(t) \/ RestoreFree(t)
  PROVE  /\ crashes' = crashes
         /\ ~Launch(t) /\ ~(t \in Message /\ SendBegins(t)) => live' = live
BY DEF Works, Lift, Kick, Judge, Plan, Guard, List, Vacate, ReadPause, SetPause, Leave, Claim,
       TakeOut, GiveBack, Starts, Launch, Restore, RestorePause, RestoreFree, SendStep, SendLooks,
       SendJudges, SendTakes, SendBegins, SendRefused, Enqueue, QueueRequest, Resume, TakeBack,
       Reorder, Clear, Prioritize, Move, Look, Still, Waits, history, runner

LEMMA NoRestart ==
  ASSUME NEW t, Step(t) \/ RequestStep(t) \/ BodyStep(t)
  PROVE  crashes' = crashes
<1>1. CASE Works(t) \/ Plan(t) \/ Restore(t) \/ RestorePause(t) \/ RestoreFree(t)
  BY <1>1, WorksOnly
<1>2. CASE Cancel(t) \/ Stop(t) \/ RunEnds(t) \/ RunCloses(t)
  BY <1>2 DEF Cancel, Stop, RunEnds, RunCloses, history
<1>3. CASE Detail(t) \/ Tell(t) \/ AskStop(t)
  BY <1>3 DEF Detail, Tell, AskStop, history
<1>4. CASE \/ Ends(t) \/ Halts(t) \/ EndedOutside(t) \/ LooksBack(t)
           \/ Journal(t) \/ Spawn(t) \/ Closes(t)
  BY <1>4 DEF Ends, Halts, EndedOutside, LooksBack, Journal, Spawn, Closes, history
<1> QED BY <1>1, <1>2, <1>3, <1>4 DEF Step, RequestStep, BodyStep

LEMMA InlineInduction == QueueInv /\ [Next]_vars => QueueInv'
<1> SUFFICES ASSUME QueueInv, [Next]_vars PROVE QueueInv'
  OBVIOUS
<1>0. QType /\ Tokens /\ crashes \in Nat
  BY DEF QueueInv, QType
<1>1. ASSUME NEW t \in Tasks, Step(t) PROVE QueueInv'
  <2>1. QType' /\ Tokens' /\ Stood(t) /\ crashes' = crashes
    BY <1>0, <1>1, NextType, InlineKeeps, NoRestart DEF Next
  <2>2. ASSUME crashes' = 0, holder' \in Id PROVE Answers(holder)'
    <3>1. Held(Id)
      BY <2>1, <2>2 DEF QueueInv
    <3> QED BY <2>1, <2>2, <3>1, StoodKeeps
  <2> QED BY <2>1, <2>2 DEF QueueInv, Held
<1>2. CASE Crash
  <2>1. QType' /\ Tokens'
    BY <1>0, <1>2, CrashType, CrashKeeps
  <2>2. crashes' # 0
    BY <1>0, <1>2 DEF Crash, Crashes
  <2> QED BY <2>1, <2>2 DEF QueueInv
<1>3. CASE UNCHANGED vars
  <2> USE <1>3 DEF vars, store, runner, history
  <2>1. QType' /\ Tokens'
    BY <1>0 DEF QType, Tokens, Once, Kept, Msgs, Hand, InHand, MessageOf, Shape
  <2>2. Held(Id)' <=> Held(Id)
    BY DEF Held, Answers, HoldsFor
  <2> QED BY <2>1, <2>2 DEF QueueInv
<1> QED BY <1>1, <1>2, <1>3 DEF Next

LEMMA TokensMean == ASSUME QType, Tokens PROVE StartedOnce /\ NothingLost
<1>1. ASSUME NEW m \in Message PROVE
        /\ ran[m] <= 1
        /\ \/ task[m].pc = "new" \/ ran[m] > 0 \/ m \in gone \/ Waiting(m)
           \/ \E t \in Tasks : InHand(t) /\ MessageOf(t) = m
  <2>1. Kept(m)
    BY DEF Tokens
  <2>2. m \in Msgs(queue) => Waiting(m)
    BY DEF Msgs, Waiting
  <2>3. \A t \in Tasks : m \in Hand(t) => InHand(t) /\ MessageOf(t) = m
    BY DEF Hand
  <2> QED BY <2>1, <2>2, <2>3 DEF Kept
<1> QED BY <1>1 DEF StartedOnce, NothingLost

LEMMA IdleAnswersNot ==
  ASSUME Idle, NEW id \in Id
  PROVE  ~Answers(id)
<1>1. \A t \in Tasks : task[t].pc \in {"new", "done"}
  BY DEF Idle
<1>2. \A t \in Tasks : ~HoldsFor(t, id)
  BY <1>1 DEF HoldsFor, Claiming, Carrying
<1> QED BY <1>1, <1>2 DEF Answers, Tasks

LEMMA QueueInductive == Spec => []QueueInv
<1>1. Init => QueueInv
  BY Start, NoRunAssumption DEF QueueInv, Held
<1> QED BY <1>1, InlineInduction, PTL DEF Spec

(* However many drains, removals and sends reach for a message, and however *)
(* often its start is refused or the process restarts, it is one turn at    *)
(* most (chat-queue.service.ts, removeQueuedMessage as the claim on it).     *)
THEOREM OneTurn == Spec => []StartedOnce
<1>1. QueueInv => StartedOnce
  BY TokensMean DEF QueueInv
<1> QED BY <1>1, QueueInductive, PTL

(* A message that was sent waits, was started, was taken back, refused or    *)
(* lost with the process, or is in the hand of a task that will start it or  *)
(* put it back.                                                              *)
THEOREM KeptSafe == Spec => []NothingLost
<1>1. QueueInv => NothingLost
  BY TokensMean DEF QueueInv
<1> QED BY <1>1, QueueInductive, PTL

(* Until the process restarts, no claim on the thread is left behind: when   *)
(* nothing is under way, the thread is free.                                 *)
THEOREM NoClaimLeft == Spec => []ThreadFreed
<1>1. QueueInv => ThreadFreed
  BY IdleAnswersNot DEF QueueInv, QType, Held, ThreadFreed
<1> QED BY <1>1, QueueInductive, PTL

(***************************************************************************)
(* The durable runner.                                                     *)
(***************************************************************************)
DurableInv == QType /\ Tokens /\ live \subseteq Id /\ (crashes = 0 => Held(live))

LEMMA NewlyLive ==
  ASSUME QType, NEW t \in Tasks, (t \in Request /\ RequestStep(t)) \/ (t \in Id /\ BodyStep(t))
  PROVE  \/ live' \subseteq live
         \/ \E id \in Id : live' = live \cup {id} /\ task'[id].pc = "running"
<1> USE DEF At
<1>0. DOMAIN task = Tasks
  BY DEF QType
<1>1. ASSUME NEW id \in Id, NEW after, Begins(t, id, after)
      PROVE  \E i \in Id : live' = live \cup {i} /\ task'[i].pc = "running"
  <2>1. id \in Tasks
    BY DEF Tasks
  <2> QED BY <1>0, <1>1, <2>1 DEF Begins, Fresh
<1>2. CASE Launch(t) \/ Spawn(t)
  <2>1. task[t].head.id \in Id
    BY <1>2, HeadIs DEF Launch, Spawn, Claiming, Carrying
  <2> QED BY <1>1, <1>2, <2>1 DEF Launch, Spawn, runner
<1>3. CASE SendBegins(t) /\ t \in Message
  <2>1. First(t) \in Id
    BY <1>3, MaximaAssumption DEF First, Id
  <2> QED BY <1>1, <1>3, <2>1 DEF SendBegins, runner
<1>4. CASE /\ Works(t) \/ Plan(t) \/ Restore(t) \/ RestorePause(t) \/ RestoreFree(t)
           /\ ~Launch(t) /\ ~(t \in Message /\ SendBegins(t))
  BY <1>4, WorksOnly
<1>5. CASE Detail(t) \/ Tell(t) \/ AskStop(t)
  BY <1>5 DEF Detail, Tell, AskStop, runner
<1>6. CASE \/ Ends(t) \/ Halts(t) \/ EndedOutside(t) \/ LooksBack(t) \/ Journal(t) \/ Closes(t)
  BY <1>6 DEF Ends, Halts, EndedOutside, LooksBack, Journal, Closes, runner
<1> QED BY <1>2, <1>3, <1>4, <1>5, <1>6 DEF RequestStep, BodyStep
LEMMA DurableInduction == DurableInv /\ [DNext]_vars => DurableInv'
<1> SUFFICES ASSUME DurableInv, [DNext]_vars PROVE DurableInv'
  OBVIOUS
<1>0. QType /\ Tokens /\ crashes \in Nat /\ live \subseteq Id
  BY DEF DurableInv, QType
<1>1. ASSUME NEW t \in Tasks, Tokens', crashes' = crashes,
             (t \in Request /\ RequestStep(t)) \/ (t \in Id /\ BodyStep(t)),
             \/ Stood(t)
             \/ /\ holder' = holder
                /\ holder \in live' /\ holder \in Id /\ Answers(holder) => Answers(holder)'
      PROVE  DurableInv'
  <2>1. QType'
    BY <1>0, <1>1, NextType DEF DNext
  <2>2. \/ live' \subseteq live
        \/ \E id \in Id : live' = live \cup {id} /\ task'[id].pc = "running"
    BY <1>0, <1>1, NewlyLive
  <2>3. ASSUME crashes' = 0, holder' \in live' PROVE Answers(holder)'
    <3>1. Held(live)
      BY <1>1, <2>3 DEF DurableInv
    <3>2. CASE holder' \in live
      <4>1. CASE Stood(t)
        BY <1>0, <3>1, <3>2, <4>1, StoodKeeps
      <4>2. CASE ~Stood(t)
        BY <1>0, <1>1, <2>3, <3>1, <3>2, <4>2 DEF Held
      <4> QED BY <4>1, <4>2
    <3>3. CASE holder' \notin live
      BY <2>2, <2>3, <3>3 DEF Answers
    <3> QED BY <3>2, <3>3
  <2>4. live' \subseteq Id
    BY <1>0, <2>2
  <2> QED BY <1>1, <2>1, <2>3, <2>4 DEF DurableInv, Held
<1>2. ASSUME NEW t \in Request, RequestStep(t) PROVE DurableInv'
  <2>1. t \in Tasks /\ Tokens' /\ Stood(t) /\ crashes' = crashes
    BY <1>0, <1>2, RequestKeeps, NoRestart
  <2> QED BY <1>1, <1>2, <2>1
<1>3. ASSUME NEW id \in Id, BodyStep(id) PROVE DurableInv'
  <2>1. /\ id \in Tasks /\ Tokens' /\ crashes' = crashes
        /\ \/ Stood(id)
           \/ /\ holder' = holder
              /\ holder \in live' /\ holder \in Id /\ Answers(holder) => Answers(holder)'
    BY <1>0, <1>3, BodyKeeps, NoRestart
  <2> QED BY <1>1, <1>3, <2>1
<1>4. ASSUME NEW id \in Id, WorkerEnds(id) PROVE DurableInv'
  <2>1. QType' /\ Tokens'
    BY <1>0, <1>4, NextType, WorkerEndsKeeps DEF DNext
  <2>2. crashes' # 0 /\ live' = live
    BY <1>0, <1>4 DEF WorkerEnds, Crashes, runner
  <2> QED BY <1>0, <2>1, <2>2 DEF DurableInv
<1>5. CASE UNCHANGED vars
  <2> USE <1>5 DEF vars, store, runner, history
  <2>1. QType' /\ Tokens'
    BY <1>0 DEF QType, Tokens, Once, Kept, Msgs, Hand, InHand, MessageOf, Shape
  <2>2. Held(live)' <=> Held(live)
    BY DEF Held, Answers, HoldsFor
  <2> QED BY <2>1, <2>2 DEF DurableInv
<1> QED BY <1>2, <1>3, <1>4, <1>5 DEF DNext

LEMMA DurableInductive == DSpec => []DurableInv
<1>1. DInit => DurableInv
  BY Start, NoRunAssumption DEF DurableInv, Held, DInit
<1> QED BY <1>1, DurableInduction, PTL DEF DSpec

(* Under the durable runner too, with bodies that any worker takes over: a   *)
(* message is one turn at most, and none is lost on the way.                 *)
THEOREM DurableKeptSafe == DSpec => [](StartedOnce /\ NothingLost)
<1>1. DurableInv => StartedOnce /\ NothingLost
  BY TokensMean DEF DurableInv
<1> QED BY <1>1, DurableInductive, PTL

(* Until a worker ends, no claim outlives the turn it was made for: when     *)
(* nothing is under way, no run that still counts as running has the thread. *)
THEOREM NotWedged == DSpec => []NeverWedged
<1>1. DurableInv => NeverWedged
  BY IdleAnswersNot DEF DurableInv, Held, NeverWedged
<1> QED BY <1>1, DurableInductive, PTL
=============================================================================
