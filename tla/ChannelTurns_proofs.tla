------------------------- MODULE ChannelTurns_proofs -------------------------
(* What the keys of the channel store give one conversation, for any       *)
(* number of messages, questions, ends of the process and errors: a piece  *)
(* is sent once and a reply whole, a message starts one turn, a question   *)
(* has one outcome.                                                        *)
EXTENDS ChannelTurns, TLAPS

Places == {"idle", "act", "answer", "asked", "settle", "mark", "tell", "clear", "begin",
           "start", "done", "nothing", "read", "post", "arm", "follow", "read_out",
           "send", "sending", "parked"}
Works == [at : Places, todo : Seq(Pieces), next : Nat, then : Places,
          got : Records \cup {NoQuestion}, applied : BOOLEAN]
Timers == {"none", "set", "mark", "look", "drop", "skip", "resume", "over", "failed"}

TypeOK ==
  /\ script \in Scripts
  /\ line \in Seq(Jobs)
  /\ work \in Works
  /\ key \in [Message -> {"free", "taken", "nothing"} \cup Message]
  /\ question \in Records \cup {NoQuestion}
  /\ settled \in [Message -> {"free", "taken", "timeout"} \cup Message]
  /\ run \in [Message -> {"none", "plain", "asks", "answered", "skipped", "elsewhere", "stopped"}]
  /\ timer \in [Message -> Timers]
  /\ sent \in [Pieces -> Nat] /\ stray \in [Pieces -> Nat]
  /\ starts \in [Message -> Nat] /\ orphans \in [Message -> Nat]

(* Nothing is in hand without a job, a question is answered from a record, *)
(* and a run that is read has an id.                                       *)
Reads == {"read", "post", "arm", "follow", "read_out"}
Answers == {"answer", "asked", "settle", "mark", "tell", "clear", "done"}
Sending == work.at \in {"send", "sending"}
Held ==
  /\ line = <<>> => work.at = "idle"
  /\ work.at \in Answers => work.got \in Records
  /\ work.at \in Reads \/ (Sending /\ work.then \in Reads) => Reading \in Message
  /\ Sending => work.then \in (Reads \ {"read"}) \cup {"nothing"}
  /\ work.at = "sending" => work.todo # <<>>

(* The key of a message is free as long as no send for it returned. *)
Fresh == \A m \in Message : key[m] = "free" => starts[m] = orphans[m]
Starting == /\ OneTurn
            /\ Fresh
            /\ work.at = "start" => starts[Job.of] = orphans[Job.of] /\ key[Job.of] = "taken"

(* A claim of a question is marked by the one that made it. *)
Settling ==
  /\ SettledByOne
  /\ work.at = "mark" => settled[work.got.run] = "taken" /\ timer[work.got.run] # "mark"
  /\ work.at = "tell" => settled[work.got.run] \in Message
  /\ \A r \in Message : /\ timer[r] = "mark" => settled[r] = "taken"
                        /\ timer[r] \in {"look", "drop", "skip"} => settled[r] = "timeout"

(* A piece has one number in its phase, whichever way the phase goes. *)
Number(p) == CASE p.part \in {"opening", "next", "unclear"} -> 0
               [] p.part \in {"question", "again"} -> 1
               [] p.part = "rest" -> IF script.questions[p.of] = 0 THEN 0 ELSE 2
SlotOf(p) == [by |-> p.by, of |-> p.of, n |-> Number(p)]
Numbered ==
  /\ work.at \in {"act", "answer", "asked", "read"} => work.next = 0
  /\ work.at = "post" => work.next = 1
  /\ work.at = "follow" => work.next = 2 /\ script.questions[Reading] # 0
  /\ Sending => /\ \A i \in 1 .. Len(work.todo) : Number(work.todo[i]) = work.next + i - 1
                /\ work.then = "post" => work.next + Len(work.todo) = 1
                /\ work.then = "follow" => /\ work.next + Len(work.todo) = 2
                                           /\ script.questions[Reading] # 0
  /\ work.at = "sending" =>
       /\ Slot \in slots
       /\ \A p \in Pieces : SlotOf(p) = Slot => sent[p] = stray[p]
Recorded == \A p \in Pieces : sent[p] # stray[p] => SlotOf(p) \in slots

(* The inductive invariant. *)
Inv == TypeOK /\ Held /\ Starting /\ Settling /\ Numbered /\ Recorded /\ SentOnce

LEMMA Counted ==
  ASSUME NEW S, NEW f \in [S -> Nat], NEW x \in S
  PROVE  /\ [f EXCEPT ![x] = f[x] + 1] \in [S -> Nat]
         /\ [f EXCEPT ![x] = f[x] + 1][x] = f[x] + 1
         /\ \A y \in S : y # x => [f EXCEPT ![x] = f[x] + 1][y] = f[y]
OBVIOUS

LEMMA LineGrows ==
  ASSUME NEW S, NEW s \in Seq(S), NEW x \in S
  PROVE  /\ Append(s, x) \in Seq(S) /\ Append(s, x) # <<>>
         /\ s # <<>> => Head(Append(s, x)) = Head(s)
OBVIOUS

LEMMA Parts ==
  ASSUME NEW S, NEW s \in Seq(S)
  PROVE  <<>> \in Seq(S) /\ (s # <<>> => Head(s) \in S /\ Tail(s) \in Seq(S))
OBVIOUS

(* The worker's locals keep their type along its moves. *)
LEMMA WorkMoves ==
  ASSUME work \in Works, NEW p \in Places
  PROVE  /\ [work EXCEPT !.at = p] \in Works
         /\ Idle \in Works
         /\ Restart(p) \in Works
         /\ \A ps \in Seq(Pieces) :
              [work EXCEPT !.at = "send", !.todo = ps, !.then = p] \in Works
         /\ \A g \in Records, b \in BOOLEAN :
              /\ [work EXCEPT !.at = p, !.got = g] \in Works
              /\ [work EXCEPT !.got = g, !.applied = b, !.at = p] \in Works
         /\ work.todo # <<>> => NextPiece \in Works /\ Head(work.todo) \in Pieces
<1>p. "idle" \in Places /\ "send" \in Places
  BY DEF Places
<1>1. [work EXCEPT !.at = p] \in Works
  BY DEF Works
<1>2. Idle \in Works
  BY <1>p DEF Idle, Works
<1>3. Restart(p) \in Works
  BY <1>2 DEF Restart, Works
<1>4. ASSUME NEW ps \in Seq(Pieces)
      PROVE  [work EXCEPT !.at = "send", !.todo = ps, !.then = p] \in Works
  BY <1>p DEF Works
<1>5. ASSUME NEW g \in Records, NEW b \in BOOLEAN
      PROVE  /\ [work EXCEPT !.at = p, !.got = g] \in Works
             /\ [work EXCEPT !.got = g, !.applied = b, !.at = p] \in Works
  BY DEF Works
<1>6. ASSUME NEW ps \in Seq(Pieces), NEW n \in Nat
      PROVE  [work EXCEPT !.at = "send", !.todo = ps, !.next = n] \in Works
  BY <1>p DEF Works
<1>7. ASSUME work.todo # <<>>
      PROVE  NextPiece \in Works /\ Head(work.todo) \in Pieces
  <2>1. work.todo \in Seq(Pieces) /\ work.next \in Nat
    BY DEF Works
  <2>2. Head(work.todo) \in Pieces /\ Tail(work.todo) \in Seq(Pieces) /\ work.next + 1 \in Nat
    BY <2>1, <1>7, Parts
  <2> QED BY <2>2, <1>6 DEF NextPiece
<1> QED BY <1>1, <1>2, <1>3, <1>4, <1>5, <1>7

(* The first job, and the line without it. *)
LEMMA JobType ==
  ASSUME line \in Seq(Jobs), line # <<>>
  PROVE  Job \in Jobs /\ Job.of \in Message /\ Tail(line) \in Seq(Jobs)
<1>1. Job \in Jobs /\ Tail(line) \in Seq(Jobs)
  BY Parts DEF Job
<1> QED BY <1>1 DEF Jobs

LEMMA PieceType ==
  ASSUME NEW m \in Message
  PROVE  /\ \A p \in {"opening", "question", "rest"} : Piece("run", m, p) \in Pieces
         /\ \A p \in {"next", "unclear", "again"} : Piece("message", m, p) \in Pieces
BY DEF Piece, Pieces

(* What a phase sends. *)
LEMMA ThingsToSay ==
  ASSUME NEW m \in Message
  PROVE  /\ <<>> \in Seq(Pieces)
         /\ \A p \in {"opening", "question", "rest"} : <<Piece("run", m, p)>> \in Seq(Pieces)
         /\ Opening(m) \in Seq(Pieces)
         /\ <<Piece("message", m, "next")>> \in Seq(Pieces)
         /\ <<Piece("message", m, "unclear"), Piece("message", m, "again")>> \in Seq(Pieces)
BY PieceType DEF Opening

LEMMA InitHolds == Init => Inv
<1> SUFFICES ASSUME Init PROVE Inv
  OBVIOUS
<1>1. TypeOK
  <2>1. Idle \in Works
    BY Parts DEF Idle, Works, Places
  <2> QED BY <2>1, NamesAssumption DEF Init, TypeOK, Timers
<1>2. Held /\ Starting /\ Settling /\ Numbered
  BY <1>1, NamesAssumption
  DEF Init, Idle, Held, Answers, Reads, Sending, Starting, OneTurn, Fresh, Settling, SettledByOne,
      Numbered
<1>3. Recorded /\ SentOnce
  BY DEF Init, Recorded, SentOnce
<1> QED BY <1>1, <1>2, <1>3 DEF Inv

(* The types but that of the worker, when it moves and its locals have it. *)
LEMMA TypeStep == TypeOK /\ Held /\ [Next]_vars => TypeOK'
<1> SUFFICES ASSUME TypeOK, Held, [Next]_vars PROVE TypeOK'
  OBVIOUS
<1> USE DEF outside, jobs, store, person, turns, bounds
<1>j. line # <<>> => Job \in Jobs /\ Job.of \in Message /\ Tail(line) \in Seq(Jobs)
  BY JobType DEF TypeOK
<1>w. work \in Works /\ "idle" \in Places
  BY DEF Places, TypeOK
<1>g. ASSUME NEW p \in Places, Goes(p) PROVE work' \in Works
  BY <1>g, <1>w, WorkMoves DEF Goes
<1>s. ASSUME NEW ps \in Seq(Pieces), NEW p \in Places, Sends(ps, p) PROVE work' \in Works
  BY <1>s, <1>w, WorkMoves DEF Sends
<1>e. ASSUME Errs, line # <<>> PROVE work' \in Works /\ line' \in Seq(Jobs)
  <2>1. Phase \in Places
    BY DEF Phase, Places
  <2> QED BY <1>e, <2>1, <1>j, <1>w, WorkMoves DEF Errs, Ends, TypeOK
<1>n. ASSUME NEW o, Ends(o), line # <<>> PROVE work' \in Works /\ line' \in Seq(Jobs)
  BY <1>n, <1>j, <1>w, WorkMoves DEF Ends
<1>1. CASE Begin
  <2>1. work' \in Works /\ line' \in Seq(Jobs)
    BY <1>1, <1>j, <1>w, <1>g, <1>s, WorkMoves DEF Begin, At, Phase, Places, TypeOK
  <2>2. key' \in [Message -> {"free", "taken", "nothing"} \cup Message] /\ sent' \in [Pieces -> Nat]
    BY <1>1, <1>j DEF Begin, At, TypeOK
  <2> QED
    BY <1>1, <2>1, <2>2, <1>j DEF Begin, At, TypeOK
<1>2. CASE Look
  <2>1. CASE question = NoQuestion
    BY <1>2, <2>1, <1>g DEF Look, At, Places, TypeOK
  <2>2. CASE question # NoQuestion
    <3>1. question \in Records /\ (question.last = Job.of) \in BOOLEAN
      BY <2>2 DEF TypeOK
    <3>2. \A p \in Places : [work EXCEPT !.got = question, !.applied = question.last = Job.of,
                                           !.at = p] \in Works
      BY <3>1, <1>w, WorkMoves
    <3>3. (IF question.last = Job.of THEN "asked" ELSE "answer") \in Places
      BY DEF Places
    <3>4. work' \in Works
      BY <1>2, <2>2, <3>2, <3>3 DEF Look
    <3> QED BY <1>2, <3>4 DEF Look, TypeOK
  <2> QED BY <2>1, <2>2
<1>3. CASE Answer
  <2>1. line # <<>> /\ work.got \in Records /\ Job.of \in Message
    BY <1>3, <1>j DEF Answer, At, Answers, Held
  <2> DEFINE r == Asked(work.got.run, work.got.index + 1, Job.of)
  <2>2. r \in Records
    BY <2>1 DEF Asked, Records
  <2> HIDE DEF r
  <2>3. CASE question' = r /\ work' = [work EXCEPT !.at = "asked", !.got = r]
    <3>1. work' \in Works
      BY <2>2, <2>3, <1>w, WorkMoves DEF Places
    <3> QED BY <1>3, <2>2, <2>3, <3>1 DEF Answer, TypeOK
  <2>4. CASE UNCHANGED question /\ Goes("nothing")
    BY <1>3, <2>4, <1>g DEF Answer, Places, TypeOK
  <2>5. CASE /\ UNCHANGED question
             /\ Sends(<<Piece("message", Job.of, "unclear"), Piece("message", Job.of, "again")>>,
                      "nothing")
    BY <1>3, <2>1, <2>5, <1>s, ThingsToSay DEF Answer, Places, TypeOK
  <2> QED BY <1>3, <2>3, <2>4, <2>5 DEF Answer, r
<1>4. CASE AskNext
  <2>1. work' \in Works /\ line' \in Seq(Jobs)
    BY <1>4, <1>j, <1>w, <1>g, <1>s, ThingsToSay DEF AskNext, At, Places, TypeOK
  <2>2. key' \in [Message -> {"free", "taken", "nothing"} \cup Message] /\ sent' \in [Pieces -> Nat]
    BY <1>4, <1>j DEF AskNext, At, TypeOK
  <2> QED
    BY <1>4, <2>1, <2>2, <1>j DEF AskNext, At, TypeOK
<1>5. CASE Settle
  <2>1. work' \in Works /\ line' \in Seq(Jobs)
    BY <1>5, <1>j, <1>w, <1>g, <1>s DEF Settle, At, Places, TypeOK
  <2>2. key' \in [Message -> {"free", "taken", "nothing"} \cup Message] /\ sent' \in [Pieces -> Nat]
    BY <1>5, <1>j DEF Settle, At, TypeOK
  <2> QED
    BY <1>5, <2>1, <2>2, <1>j DEF Settle, At, TypeOK
<1>6. CASE Mark
  <2>1. work' \in Works /\ line' \in Seq(Jobs)
    BY <1>6, <1>j, <1>w, <1>g, <1>s DEF Mark, At, Places, TypeOK
  <2>2. key' \in [Message -> {"free", "taken", "nothing"} \cup Message] /\ sent' \in [Pieces -> Nat]
    BY <1>6, <1>j DEF Mark, At, TypeOK
  <2> QED
    BY <1>6, <2>1, <2>2, <1>j DEF Mark, At, TypeOK
<1>7. CASE Tell
  <2>1. work' \in Works /\ line' \in Seq(Jobs)
    BY <1>7, <1>j, <1>w, <1>g, <1>s, <1>e, <1>n DEF Tell, At, Places, TypeOK
  <2>2. key' \in [Message -> {"free", "taken", "nothing"} \cup Message] /\ sent' \in [Pieces -> Nat]
    BY <1>7, <1>j DEF Tell, At, TypeOK
  <2> QED
    BY <1>7, <2>1, <2>2, <1>j DEF Tell, At, TypeOK
<1>8. CASE Clear
  <2>1. work' \in Works /\ line' \in Seq(Jobs)
    BY <1>8, <1>j, <1>w, <1>g, <1>s DEF Clear, At, Places, TypeOK
  <2>2. key' \in [Message -> {"free", "taken", "nothing"} \cup Message] /\ sent' \in [Pieces -> Nat]
    BY <1>8, <1>j DEF Clear, At, TypeOK
  <2> QED
    BY <1>8, <2>1, <2>2, <1>j DEF Clear, At, TypeOK
<1>9. CASE Claim
  <2>1. work' \in Works /\ line' \in Seq(Jobs)
    BY <1>9, <1>j, <1>w, <1>g, <1>s, <1>n DEF Claim, At, Places, TypeOK
  <2>2. key' \in [Message -> {"free", "taken", "nothing"} \cup Message] /\ sent' \in [Pieces -> Nat]
    BY <1>9, <1>j DEF Claim, At, TypeOK
  <2> QED
    BY <1>9, <2>1, <2>2, <1>j DEF Claim, At, TypeOK
<1>10. CASE Start
  <2>1. line # <<>> /\ Job.of \in Message /\ script \in Scripts
    BY <1>10, <1>j DEF Start, At, TypeOK
  <2>2. Asked(Job.of, 0, NoMessage) \in Records
    BY <2>1 DEF Asked, Records
  <2>3. [work EXCEPT !.at = "done", !.got = Asked(Job.of, 0, NoMessage)] \in Works
    BY <2>2, <1>w, WorkMoves DEF Places
  <2>6. work' \in Works /\ line' \in Seq(Jobs)
    BY <1>10, <2>1, <2>3, <1>e DEF Start, TypeOK
  <2>4. starts' \in [Message -> Nat] /\ orphans' \in [Message -> Nat]
    <3>1. starts \in [Message -> Nat] /\ orphans \in [Message -> Nat]
      BY DEF TypeOK
    <3>2. /\ starts' \in {starts, [starts EXCEPT ![Job.of] = starts[Job.of] + 1]}
          /\ orphans' \in {orphans, [orphans EXCEPT ![Job.of] = orphans[Job.of] + 1]}
      BY <1>10 DEF Start
    <3>3. /\ [starts EXCEPT ![Job.of] = starts[Job.of] + 1] \in [Message -> Nat]
          /\ [orphans EXCEPT ![Job.of] = orphans[Job.of] + 1] \in [Message -> Nat]
      BY <2>1, <3>1, Counted
    <3> QED BY <3>1, <3>2, <3>3
  <2>5. /\ key' \in [Message -> {"free", "taken", "nothing"} \cup Message]
        /\ run' \in [Message -> {"none", "plain", "asks", "answered", "skipped", "elsewhere", "stopped"}]
    BY <1>10, <2>1 DEF Start, TypeOK
  <2> QED BY <1>10, <2>4, <2>5, <2>6 DEF Start, TypeOK
<1>11. CASE Done
  <2>1. Restart("read") \in Works
    BY <1>w, WorkMoves DEF Places
  <2>2. work' \in Works /\ line' \in Seq(Jobs)
    BY <1>11, <2>1, <1>n DEF Done, At, TypeOK
  <2>3. key' \in [Message -> {"free", "taken", "nothing"} \cup Message]
    BY <1>11, <1>j DEF Done, At, Records, Answers, Held, TypeOK
  <2> QED BY <1>11, <2>2, <2>3 DEF Done, TypeOK
<1>12. CASE Read
  <2>1. work' \in Works /\ line' \in Seq(Jobs)
    BY <1>12, <1>j, <1>w, <1>g, <1>s, ThingsToSay DEF Read, At, Reads, Held, Places, TypeOK
  <2>2. key' \in [Message -> {"free", "taken", "nothing"} \cup Message] /\ sent' \in [Pieces -> Nat]
    BY <1>12, <1>j DEF Read, At, TypeOK
  <2> QED
    BY <1>12, <2>1, <2>2, <1>j DEF Read, At, TypeOK
<1>13. CASE Post
  <2>1. work' \in Works /\ line' \in Seq(Jobs)
    BY <1>13, <1>j, <1>w, <1>g, <1>s, ThingsToSay DEF Post, At, Reads, Held, Places, TypeOK
  <2>2. key' \in [Message -> {"free", "taken", "nothing"} \cup Message] /\ sent' \in [Pieces -> Nat]
    BY <1>13, <1>j DEF Post, At, Asked, Records, NoMessage, Reads, Held, TypeOK
  <2> QED
    BY <1>13, <2>1, <2>2, <1>j DEF Post, At, Asked, Records, NoMessage, Reads, Held, TypeOK
<1>14. CASE Arm
  <2>1. work' \in Works /\ line' \in Seq(Jobs)
    BY <1>14, <1>j, <1>w, <1>g, <1>s, <1>e, <1>n DEF Arm, At, Places, TypeOK
  <2>2. key' \in [Message -> {"free", "taken", "nothing"} \cup Message] /\ sent' \in [Pieces -> Nat]
    BY <1>14, <1>j DEF Arm, At, Reads, Timers, Held, TypeOK
  <2> QED
    BY <1>14, <2>1, <2>2, <1>j DEF Arm, At, Reads, Timers, Held, TypeOK
<1>15. CASE Follow
  <2>1. work' \in Works /\ line' \in Seq(Jobs)
    BY <1>15, <1>j, <1>w, <1>g, <1>s, <1>n, ThingsToSay DEF Follow, At, Reads, Held, Places, TypeOK
  <2>2. key' \in [Message -> {"free", "taken", "nothing"} \cup Message] /\ sent' \in [Pieces -> Nat]
    BY <1>15, <1>j DEF Follow, At, TypeOK
  <2> QED
    BY <1>15, <2>1, <2>2, <1>j DEF Follow, At, TypeOK
<1>16. CASE ReadOut
  <2>1. work' \in Works /\ line' \in Seq(Jobs)
    BY <1>16, <1>j, <1>w, <1>g, <1>s, <1>n DEF ReadOut, At, TypeOK
  <2>2. key' \in [Message -> {"free", "taken", "nothing"} \cup Message] /\ sent' \in [Pieces -> Nat]
    BY <1>16, <1>j DEF ReadOut, At, TypeOK
  <2> QED
    BY <1>16, <2>1, <2>2, <1>j DEF ReadOut, At, TypeOK
<1>17. CASE TakeSlot
  <2>1. work' \in Works /\ line' \in Seq(Jobs)
    BY <1>17, <1>j, <1>w, <1>g, <1>s, WorkMoves DEF TakeSlot, At, Sending, Held, Places, Reads, TypeOK
  <2>2. key' \in [Message -> {"free", "taken", "nothing"} \cup Message] /\ sent' \in [Pieces -> Nat]
    BY <1>17, <1>j DEF TakeSlot, At, TypeOK
  <2> QED
    BY <1>17, <2>1, <2>2, <1>j DEF TakeSlot, At, TypeOK
<1>18. CASE Send
  <2>1. line # <<>> /\ work.todo # <<>>
    BY <1>18 DEF Send, At, Held
  <2>2. Head(work.todo) \in Pieces /\ NextPiece \in Works
    BY <2>1, <1>w, WorkMoves
  <2>3. work' \in Works /\ line' \in Seq(Jobs)
    BY <1>18, <2>1, <2>2, <1>e DEF Send, TypeOK
  <2>4. sent' \in [Pieces -> Nat] /\ stray' \in [Pieces -> Nat]
    <3>1. sent \in [Pieces -> Nat] /\ stray \in [Pieces -> Nat]
      BY DEF TypeOK
    <3>2. /\ sent' \in {sent, [sent EXCEPT ![Head(work.todo)] = sent[Head(work.todo)] + 1]}
          /\ stray' \in {stray, [stray EXCEPT ![Head(work.todo)] = stray[Head(work.todo)] + 1]}
      BY <1>18 DEF Send
    <3> QED BY <2>2, <3>1, <3>2, Counted
  <2> QED BY <1>18, <2>3, <2>4 DEF Send, TypeOK
<1>19. ASSUME NEW m \in Message, Webhook(m) PROVE TypeOK'
  <2>1. [kind |-> "message", of |-> m] \in Jobs
    BY DEF Jobs
  <2>2. Append(line, [kind |-> "message", of |-> m]) \in Seq(Jobs)
    BY <2>1, LineGrows DEF TypeOK
  <2> QED BY <1>19, <2>2 DEF Webhook, Take, Enqueue, Enqueued, Throws, TypeOK
<1>20. ASSUME NEW r \in Message, Timeout(r) PROVE TypeOK'
  <2>1. Expire(r) \/ ExpireMark(r) => TypeOK'
    BY DEF Expire, ExpireMark, TimerGoes, Timers, TypeOK
  <2>2. ExpireLook(r) \/ ExpireDrop(r) => TypeOK'
    BY DEF ExpireLook, ExpireDrop, TimerGoes, Timers, TypeOK
  <2>3. Skip(r) => TypeOK'
    BY DEF Skip, Throws, TimerGoes, Timers, TypeOK
  <2>4. Resume(r) => TypeOK'
    <3>1. [kind |-> "resume", of |-> r] \in Jobs
      BY DEF Jobs
    <3>2. Append(line, [kind |-> "resume", of |-> r]) \in Seq(Jobs)
      BY <3>1, LineGrows DEF TypeOK
    <3> QED BY <3>2 DEF Resume, Enqueued, TimerErrs, Throws, TimerGoes, Timers, TypeOK
  <2>5. TimerFails(r) => TypeOK'
    BY DEF TimerFails, TimerErrs, Throws, TimerGoes, Timers, TypeOK
  <2> QED BY <1>20, <2>1, <2>2, <2>3, <2>4, <2>5 DEF Timeout
<1>21. ASSUME NEW r \in Message, AnswerElsewhere(r) PROVE TypeOK'
  BY <1>21 DEF AnswerElsewhere, TypeOK
<1>22. CASE Crash
  BY <1>22, <1>w, WorkMoves DEF Crash, Timers, TypeOK
<1>23. CASE UNCHANGED vars
  BY <1>23 DEF vars, TypeOK
<1>24. CASE Fails
  BY <1>24, <1>e DEF Fails, TypeOK
<1> QED
  BY <1>1, <1>2, <1>3, <1>4, <1>5, <1>6, <1>7, <1>8, <1>9, <1>10, <1>11, <1>12, <1>13, <1>14, <1>15, <1>16, <1>17, <1>18, <1>19, <1>20, <1>21, <1>22, <1>23, <1>24 DEF Next, Handling

(* A step of the webhooks, of a timer or of another surface leaves the     *)
(* worker its job and what it does with it.                                *)
Around == \/ \E m \in Message : Webhook(m) \/ Timeout(m) \/ AnswerElsewhere(m)
          \/ UNCHANGED vars

LEMMA AroundTheWorker ==
  ASSUME TypeOK, Around
  PROVE  /\ UNCHANGED <<script, work, key, slots, person, turns>>
         /\ line # <<>> => line' # <<>> /\ Job' = Job
<1> USE DEF outside, jobs, store, person, turns, bounds
<1>1. ASSUME NEW m \in Message, Webhook(m) \/ Timeout(m) \/ AnswerElsewhere(m)
      PROVE  UNCHANGED <<script, work, key, slots, person, turns>>
  BY <1>1 DEF Webhook, Take, Enqueue, Timeout, TimerFails, Expire, ExpireMark, ExpireLook,
              ExpireDrop, Skip, Resume, AnswerElsewhere
<1>2. ASSUME NEW m \in Message, Webhook(m) \/ Timeout(m) \/ AnswerElsewhere(m)
      PROVE  line' = line \/ \E j \in Jobs : line' = Append(line, j)
  <2>1. \A k \in {"message", "resume"} : [kind |-> k, of |-> m] \in Jobs
    BY DEF Jobs
  <2> QED
    BY <1>2, <2>1
    DEF Webhook, Take, Enqueue, Enqueued, Timeout, TimerFails, Expire, ExpireMark, ExpireLook,
        ExpireDrop, Skip, Resume, AnswerElsewhere
<1>3. ASSUME line # <<>>, NEW j \in Jobs, line' = Append(line, j)
      PROVE  line' # <<>> /\ Job' = Job
  BY <1>3, LineGrows DEF TypeOK, Job
<1>4. ASSUME line # <<>>, line' = line
      PROVE  line' # <<>> /\ Job' = Job
  BY <1>4 DEF Job
<1> QED BY <1>1, <1>2, <1>3, <1>4 DEF Around, vars

(* A step of the worker goes on with its job or ends it. *)
LEMMA Handled ==
  ASSUME Handling
  PROVE  line # <<>> /\ ((line' = line /\ Job' = Job) \/ work' = Idle)
<1> USE DEF jobs
<1>1. Errs => line' = line \/ work' = Idle
  BY DEF Errs, Ends
<1>2. line # <<>> /\ (line' = line \/ work' = Idle)
  <2>1. CASE Begin \/ Look \/ Answer \/ AskNext \/ Settle \/ Mark \/ Clear
    BY <2>1 DEF Begin, Look, Answer, AskNext, Settle, Mark, Clear, At
  <2>2. CASE Tell \/ Claim \/ Start \/ Done
    BY <1>1, <2>2 DEF Tell, Claim, Start, Done, At, Ends
  <2>3. CASE Read \/ Post \/ Arm \/ Follow \/ ReadOut \/ TakeSlot \/ Send
    BY <1>1, <2>3 DEF Read, Post, Arm, Follow, ReadOut, TakeSlot, Send, At, Ends
  <2>4. CASE Fails
    BY <1>1, <2>4 DEF Fails
  <2> QED BY <2>1, <2>2, <2>3, <2>4 DEF Handling
<1> QED BY <1>2 DEF Job

LEMMA HeldStep == TypeOK /\ TypeOK' /\ Held /\ Starting /\ [Next]_vars => Held'
<1> SUFFICES ASSUME TypeOK, TypeOK', Held, Starting, [Next]_vars PROVE Held'
  OBVIOUS
<1> USE DEF outside, jobs, store, person, turns, bounds, Answers, Reads, Sending
<1>i. work' = Idle => Held'
  BY DEF Idle, Held
<1>1. CASE Around
  BY <1>1, AroundTheWorker DEF Held, Reading, TypeOK
<1>2. CASE Crash
  BY <1>2, <1>i DEF Crash
<1>3. CASE Handling
  <2>j. line # <<>> /\ ((line' = line /\ Job' = Job) \/ work' = Idle)
    BY <1>3, Handled
  <2>w. work \in Works /\ work' \in Works
    BY DEF TypeOK
  <2>e. ASSUME work' = Restart(Phase), line' = line, Job' = Job,
                Phase = "read" => key' = key
         PROVE  Held'
    <3>1. Job.of \in Message
      BY <2>j, JobType DEF TypeOK
    <3>2. work'.at = Phase /\ Phase \in {"act", "read"}
      BY <2>e DEF Restart, Idle, Phase
    <3>3. Phase = "read" => Reading' \in Message
      BY <2>e, <3>1 DEF Phase, Result, Reading
    <3> QED BY <2>j, <2>e, <3>2, <3>3 DEF Held
  <2>1. CASE Begin
    BY <2>1, <2>j, <2>w, <2>e, <1>i DEF Begin, At, Goes, Errs, Ends, Restart, Idle, Phase, Result, Works, Reading, Held
  <2>2. CASE Look
    BY <2>2, <2>j, <2>w, <2>e, <1>i DEF Look, At, Goes, Errs, Ends, Works, Reading, Held
  <2>3. CASE Answer
    <3>1. CASE Goes("nothing") \/ Sends(<<Piece("message", Job.of, "unclear"),
                                        Piece("message", Job.of, "again")>>, "nothing")
      BY <2>3, <3>1, <2>j, <2>w DEF Answer, At, Goes, Sends, Works, Held
    <3>2. CASE \E r \in Records : work' = [work EXCEPT !.at = "asked", !.got = r]
      BY <2>3, <3>2, <2>j, <2>w DEF Answer, At, Works, Held
    <3>3. Asked(work.got.run, work.got.index + 1, Job.of) \in Records
      BY <2>3, <2>j, JobType DEF Answer, At, Held, Asked, Records, TypeOK
    <3> QED BY <2>3, <3>1, <3>2, <3>3 DEF Answer
  <2>4. CASE AskNext
    BY <2>4, <2>j, <2>w, <2>e, <1>i DEF AskNext, At, Goes, Errs, Ends, Sends, Works, Reading, Held
  <2>5. CASE Settle
    BY <2>5, <2>j, <2>w, <2>e, <1>i DEF Settle, At, Goes, Errs, Ends, Works, Reading, Held
  <2>6. CASE Mark
    BY <2>6, <2>j, <2>w, <2>e, <1>i DEF Mark, At, Goes, Errs, Ends, Works, Reading, Held
  <2>7. CASE Tell
    BY <2>7, <2>j, <2>w, <2>e, <1>i DEF Tell, At, Goes, Errs, Ends, Works, Reading, Held
  <2>8. CASE Clear
    BY <2>8, <2>j, <2>w, <2>e, <1>i DEF Clear, At, Goes, Errs, Ends, Works, Reading, Held
  <2>9. CASE Claim
    BY <2>9, <2>j, <2>w, <2>e, <1>i DEF Claim, At, Goes, Errs, Ends, Works, Reading, Held
  <2>10. CASE Start
    <3>1. Job.of \in Message /\ work.at = "start" /\ key[Job.of] = "taken"
      BY <2>10, <2>j, JobType DEF Start, At, Starting, TypeOK
    <3>2. CASE /\ work' = [work EXCEPT !.at = "done", !.got = Asked(Job.of, 0, NoMessage)]
               /\ line' = line
      <4>1. Asked(Job.of, 0, NoMessage) \in Records
        BY <3>1 DEF Asked, Records
      <4>2. work'.at = "done" /\ work'.got \in Records
        BY <3>2, <4>1, <2>w DEF Works
      <4> QED BY <2>j, <3>2, <4>2 DEF Held
    <3>3. CASE Errs
      <4>1. CASE work' = Restart(Phase) /\ line' = line /\ Job' = Job
        <5>1. CASE Job.kind = "resume"
          BY <4>1, <5>1, <3>1, <2>j DEF Restart, Idle, Phase, Reading, Held
        <5>2. CASE Job.kind # "resume"
          <6>1. Phase = "act"
            BY <5>2, <3>1, NamesAssumption DEF Phase, Result
          <6> QED BY <4>1, <6>1, <2>j DEF Restart, Idle, Held
        <5> QED BY <5>1, <5>2
      <4> QED BY <3>3, <4>1, <1>i DEF Errs, Ends, Job
    <3> QED BY <2>10, <3>2, <3>3 DEF Start
  <2>11. CASE Done
    <3>1. CASE At("nothing")
      BY <2>11, <3>1, <1>i DEF Done, At, Ends
    <3>2. CASE At("done") /\ line' = line /\ key' = [key EXCEPT ![Job.of] = work.got.run]
                          /\ work' = Restart("read")
      <4>1. Job.of \in Message /\ work.got.run \in Message
        BY <3>2, JobType DEF At, Held, Records, TypeOK
      <4>2. Job' = Job /\ key'[Job.of] = work.got.run
        BY <3>2, <4>1 DEF Job, TypeOK
      <4>3. Reading' \in Message
        BY <4>1, <4>2 DEF Reading
      <4> QED BY <2>j, <3>2, <4>3 DEF Restart, Idle, Held
    <3> QED BY <2>11, <3>1, <3>2 DEF Done
  <2>12. CASE Read
    <3>1. Reading' = Reading /\ line' = line /\ Reading \in Message
      BY <2>12 DEF Read, At, Reading, Job, Held
    <3>2. CASE \E ps \in Seq(Pieces), p \in {"read_out", "follow", "post"} : Sends(ps, p)
      BY <2>12, <3>1, <3>2, <2>j, <2>w DEF Read, At, Sends, Works, Held
    <3>3. \/ Sends(<<Piece("run", Reading, "rest")>>, "read_out")
          \/ Sends(Opening(Reading), "follow")
          \/ Sends(<<Piece("run", Reading, "opening")>>, "post")
      BY <2>12 DEF Read
    <3> QED BY <3>1, <3>2, <3>3, ThingsToSay
  <2>13. CASE Post
    BY <2>13, <2>j, <2>w, <2>e, <1>i DEF Post, At, Goes, Errs, Ends, Sends, Works, Reading, Held
  <2>14. CASE Arm
    BY <2>14, <2>j, <2>w, <2>e, <1>i DEF Arm, At, Goes, Errs, Ends, Works, Reading, Held
  <2>15. CASE Follow
    BY <2>15, <2>j, <2>w, <2>e, <1>i DEF Follow, At, Goes, Errs, Ends, Sends, Works, Reading, Held
  <2>16. CASE ReadOut
    BY <2>16, <2>j, <2>w, <2>e, <1>i DEF ReadOut, At, Goes, Errs, Ends, Works, Reading, Held
  <2>17. CASE TakeSlot
    <3>1. Reading' = Reading /\ line' = line
      BY <2>17 DEF TakeSlot, At, Reading, Job
    <3>2. CASE work.todo = <<>>
      <4>1. work' = [work EXCEPT !.at = work.then] /\ work.then \in Reads \cup {"nothing"}
        BY <2>17, <3>2 DEF TakeSlot, At, Goes, Held
      <4>2. work'.at = work.then
        BY <4>1, <2>w DEF Works
      <4> QED BY <2>17, <3>1, <4>1, <4>2, <2>j DEF TakeSlot, At, Held
    <3>3. CASE work.todo # <<>>
      <4>1. work' = NextPiece \/ Goes("sending")
        BY <2>17, <3>3 DEF TakeSlot
      <4>2. /\ work'.then = work.then
            /\ work'.at = "send" \/ (work'.at = "sending" /\ work'.todo = work.todo)
        BY <4>1, <2>w DEF NextPiece, Goes, Works
      <4> QED BY <2>17, <3>1, <3>3, <4>2, <2>j DEF TakeSlot, At, Held
    <3> QED BY <3>2, <3>3
  <2>18. CASE Send
    <3>1. CASE Errs
      BY <2>18, <3>1, <2>e, <1>i, <2>j DEF Send, Errs, Ends, Job
    <3>2. CASE work' = NextPiece /\ UNCHANGED <<line, key>>
      <4>1. Reading' = Reading
        BY <3>2 DEF Reading, Job
      <4>2. work'.then = work.then /\ work'.at = "send"
        BY <3>2, <2>w DEF NextPiece, Works
      <4> QED BY <2>18, <3>2, <4>1, <4>2, <2>j DEF Send, At, Held
    <3> QED BY <2>18, <3>1, <3>2 DEF Send
  <2>19. CASE Fails
    BY <2>19, <2>e, <1>i, <2>j DEF Fails, Errs, Ends, Job
  <2> QED BY <1>3, <2>1, <2>2, <2>3, <2>4, <2>5, <2>6, <2>7, <2>8, <2>9, <2>10, <2>11, <2>12, <2>13, <2>14, <2>15, <2>16, <2>17, <2>18, <2>19 DEF Handling
<1> QED BY <1>1, <1>2, <1>3 DEF Next, Around

(* Only the actions named so reach their places. *)
LEMMA Reached ==
  ASSUME TypeOK, Held, Handling
  PROVE  /\ work'.at = "start" => Claim
         /\ work'.at = "mark" => Settle
         /\ work'.at = "tell" => Settle \/ Mark
<1> DEFINE Elsewhere == work'.at \notin {"start", "mark", "tell"}
<1> USE DEF jobs
<1>w. work \in Works
  BY DEF TypeOK
<1>g. ASSUME NEW p \in Places \ {"start", "mark", "tell"}, Goes(p) PROVE Elsewhere
  BY <1>g, <1>w DEF Goes, Works
<1>s. ASSUME NEW ps, NEW p, Sends(ps, p) PROVE Elsewhere
  BY <1>s, <1>w DEF Sends, Works
<1>r. Elsewhere \/ ~ (work' \in {Idle, Restart("act"), Restart("read")})
  BY DEF Idle, Restart
<1>e. Errs => work' \in {Idle, Restart("act"), Restart("read")}
  BY DEF Errs, Ends, Phase
<1>n. \A o : Ends(o) => work' = Idle
  BY DEF Ends
<1>1. CASE Begin
  BY <1>1, <1>r DEF Begin, Phase
<1>2. CASE Look
  BY <1>2, <1>w, <1>g DEF Look, Places, Works
<1>3. CASE Answer
  BY <1>3, <1>w, <1>g, <1>s DEF Answer, Places, Works
<1>4. CASE AskNext
  BY <1>4, <1>g, <1>s DEF AskNext, Places
<1>5. CASE Settle
  <2>1. Elsewhere \/ Goes("mark") \/ Goes("tell")
    BY <1>5, <1>g DEF Settle, Places
  <2>2. Goes("mark") \/ Goes("tell") => work'.at # "start"
    BY <1>w DEF Goes, Works
  <2> QED BY <1>5, <2>1, <2>2
<1>6. CASE Mark
  BY <1>6, <1>w DEF Mark, Goes, Works
<1>7. CASE Tell
  BY <1>7, <1>g, <1>e, <1>n, <1>r DEF Tell, Places
<1>8. CASE Clear
  BY <1>8, <1>g DEF Clear, Places
<1>9. CASE Claim
  <2>1. Goes("start") => work'.at = "start"
    BY <1>w DEF Goes, Works
  <2> QED BY <1>9, <1>n, <1>r, <2>1 DEF Claim
<1>10. CASE Start
  BY <1>10, <1>w, <1>e, <1>r DEF Start, Works
<1>11. CASE Done
  BY <1>11, <1>n, <1>r DEF Done
<1>12. CASE Read
  BY <1>12, <1>s DEF Read
<1>13. CASE Post
  BY <1>13, <1>s DEF Post
<1>14. CASE Arm
  BY <1>14, <1>e, <1>g, <1>r DEF Arm, Places
<1>15. CASE Follow
  BY <1>15, <1>s, <1>n, <1>r DEF Follow
<1>16. CASE ReadOut
  BY <1>16, <1>n, <1>r DEF ReadOut
<1>17. CASE TakeSlot
  <2>1. work.at = "send" => work.then \in Places \ {"start", "mark", "tell"}
    BY DEF Held, Sending, Reads, Places
  <2>2. work' = NextPiece => Elsewhere
    BY <1>w DEF NextPiece, Works
  <2>3. "sending" \in Places \ {"start", "mark", "tell"}
    BY DEF Places
  <2> QED BY <1>17, <1>g, <2>1, <2>2, <2>3 DEF TakeSlot, At
<1>18. CASE Send
  <2>1. work' = NextPiece => Elsewhere
    BY <1>w DEF NextPiece, Works
  <2> QED BY <1>18, <1>e, <1>r, <2>1 DEF Send
<1>19. CASE Fails
  BY <1>19, <1>e, <1>r DEF Fails
<1> QED BY <1>1, <1>2, <1>3, <1>4, <1>5, <1>6, <1>7, <1>8, <1>9, <1>10, <1>11, <1>12, <1>13, <1>14, <1>15, <1>16, <1>17, <1>18, <1>19 DEF Handling

LEMMA StartingStep == TypeOK /\ TypeOK' /\ Held /\ Starting /\ [Next]_vars => Starting'
<1> SUFFICES ASSUME TypeOK, TypeOK', Held, Starting, [Next]_vars PROVE Starting'
  OBVIOUS
<1> USE DEF outside, jobs, store, person, turns, bounds
<1>1. CASE Around
  <2>1. UNCHANGED <<work, key, turns>> /\ (work.at = "start" => Job' = Job)
    BY <1>1, AroundTheWorker DEF Held
  <2> QED BY <2>1 DEF Starting, OneTurn, Fresh
<1>2. CASE Crash
  BY <1>2 DEF Crash, Idle, Starting, OneTurn, Fresh
<1>3. CASE Handling
  <2>j. line # <<>> /\ Job.of \in Message
    BY <1>3, Handled, JobType DEF TypeOK
  <2>1. CASE Claim
    <3>1. CASE Ends("failed") /\ UNCHANGED <<key, turns>>
      BY <3>1 DEF Ends, Idle, Starting, OneTurn, Fresh
    <3>2. CASE /\ key[Job.of] = "free" /\ key' = [key EXCEPT ![Job.of] = "taken"]
               /\ UNCHANGED <<line, turns>>
      BY <2>j, <3>2 DEF Job, Starting, OneTurn, Fresh, TypeOK
    <3> QED BY <2>1, <3>1, <3>2 DEF Claim
  <2>2. CASE Start
    <3>1. starts[Job.of] = orphans[Job.of] /\ key[Job.of] = "taken"
      BY <2>2 DEF Start, At, Starting
    <3>t. starts \in [Message -> Nat] /\ orphans \in [Message -> Nat]
      BY DEF TypeOK
    <3>2. work'.at # "start"
      BY <2>2, <1>3, Reached DEF Start, Claim, At
    <3>o. \A m \in Message : m # Job.of => key'[m] = key[m]
      BY <2>2, <2>j DEF Start, TypeOK
    <3>3. CASE /\ starts' = [starts EXCEPT ![Job.of] = starts[Job.of] + 1]
               /\ UNCHANGED <<key, orphans>>
      <4>1. /\ starts'[Job.of] = orphans'[Job.of] + 1
            /\ \A m \in Message : m # Job.of => starts'[m] = starts[m] /\ orphans'[m] = orphans[m]
        BY <2>j, <3>1, <3>3, <3>t, Counted
      <4>2. orphans'[Job.of] \in Nat /\ key'[Job.of] # "free"
        BY <2>j, <3>1, <3>3, <3>t
      <4>3. OneTurn'
        BY <4>1, <4>2 DEF Starting, OneTurn
      <4>4. Fresh'
        BY <3>o, <4>1, <4>2 DEF Starting, Fresh
      <4> QED BY <3>2, <4>3, <4>4 DEF Starting
    <3>4. CASE \/ UNCHANGED turns
               \/ /\ starts' = [starts EXCEPT ![Job.of] = starts[Job.of] + 1]
                  /\ orphans' = [orphans EXCEPT ![Job.of] = orphans[Job.of] + 1]
      <4>1. /\ starts'[Job.of] = orphans'[Job.of]
            /\ \A m \in Message : m # Job.of => starts'[m] = starts[m] /\ orphans'[m] = orphans[m]
        BY <2>j, <3>1, <3>4, <3>t, Counted
      <4>2. orphans'[Job.of] \in Nat
        BY <2>j, <3>4, <3>t, Counted
      <4>3. OneTurn'
        BY <4>1, <4>2 DEF Starting, OneTurn
      <4>4. Fresh'
        BY <3>o, <4>1 DEF Starting, Fresh
      <4> QED BY <3>2, <4>3, <4>4 DEF Starting
    <3> QED BY <2>2, <3>3, <3>4 DEF Start
  <2>3. CASE Done
    <3>1. work'.at # "start"
      BY <2>3, <1>3, Reached DEF Done, Claim, At
    <3>2. \E v \in {"nothing"} \cup Message : key' = [key EXCEPT ![Job.of] = v]
      BY <2>3 DEF Done, At, Held, Answers, Records
    <3>3. UNCHANGED turns
      BY <2>3 DEF Done
    <3> QED BY <2>j, <3>1, <3>2, <3>3, NamesAssumption DEF Starting, OneTurn, Fresh, TypeOK
  <2>4. CASE ~ (Claim \/ Start \/ Done)
    <3>1. UNCHANGED <<key, turns>>
      <4>1. CASE Begin \/ Look \/ Answer \/ AskNext \/ Settle \/ Mark \/ Tell \/ Clear
        BY <4>1 DEF Begin, Look, Answer, AskNext, Settle, Mark, Tell, Clear
      <4>2. CASE Read \/ Post \/ Arm \/ Follow \/ ReadOut \/ TakeSlot \/ Send \/ Fails
        BY <4>2 DEF Read, Post, Arm, Follow, ReadOut, TakeSlot, Send, Fails
      <4> QED BY <1>3, <2>4, <4>1, <4>2 DEF Handling
    <3>2. work'.at # "start"
      BY <1>3, <2>4, Reached
    <3> QED BY <3>1, <3>2 DEF Starting, OneTurn, Fresh
  <2> QED BY <2>1, <2>2, <2>3, <2>4
<1> QED BY <1>1, <1>2, <1>3 DEF Next, Around

(* The claim of a question and its mark, against the claim and the mark of *)
(* its timeout.                                                            *)
LEMMA SettlingStep == TypeOK /\ TypeOK' /\ Held /\ Settling /\ [Next]_vars => Settling'
<1> SUFFICES ASSUME TypeOK, TypeOK', Held, Settling, [Next]_vars PROVE Settling'
  OBVIOUS
<1> USE DEF outside, jobs, store, person, turns, bounds
<1>w. work \in Works
  BY DEF TypeOK
<1>1. ASSUME NEW r \in Message, Timeout(r) PROVE Settling'
  <2>g. work.at \in {"mark", "tell"} => work.got.run \in Message
    BY DEF Held, Answers, Records
  <2>1. CASE Expire(r)
    <3>1. CASE /\ settled[r] = "free" /\ settled' = [settled EXCEPT ![r] = "taken"]
               /\ TimerGoes(r, "mark")
      BY <2>1, <2>g, <3>1, NamesAssumption
      DEF Expire, TimerGoes, Settling, SettledByOne, TypeOK
    <3>2. CASE /\ UNCHANGED settled
               /\ \/ settled[r] = "timeout" /\ TimerGoes(r, "look")
                  \/ TimerGoes(r, "over")
      BY <2>1, <2>g, <3>2, NamesAssumption
      DEF Expire, TimerGoes, Settling, SettledByOne, TypeOK
    <3> QED BY <2>1, <3>1, <3>2 DEF Expire
  <2>2. CASE ExpireMark(r)
    BY <2>2, <2>g, NamesAssumption DEF ExpireMark, TimerGoes, Settling, SettledByOne, TypeOK
  <2>3. CASE ExpireLook(r)
    BY <2>3, <2>g, NamesAssumption DEF ExpireLook, TimerGoes, Settling, SettledByOne, TypeOK
  <2>4. CASE ExpireDrop(r)
    BY <2>4, <2>g, NamesAssumption DEF ExpireDrop, TimerGoes, Settling, SettledByOne, TypeOK
  <2>5. CASE Skip(r)
    BY <2>5, <2>g, NamesAssumption DEF Skip, Throws, TimerGoes, Settling, SettledByOne, TypeOK
  <2>6. CASE Resume(r)
    BY <2>6, <2>g, NamesAssumption
    DEF Resume, TimerErrs, Throws, TimerGoes, Settling, SettledByOne, TypeOK
  <2>7. CASE TimerFails(r)
    BY <2>7, <2>g, NamesAssumption
    DEF TimerFails, TimerErrs, Throws, TimerGoes, Settling, SettledByOne, TypeOK
  <2> QED BY <1>1, <2>1, <2>2, <2>3, <2>4, <2>5, <2>6, <2>7 DEF Timeout
<1>2. CASE Crash
  BY <1>2 DEF Crash, Idle, Settling, SettledByOne, TypeOK
<1>3. ASSUME NEW m \in Message, Webhook(m) \/ AnswerElsewhere(m) PROVE Settling'
  <2>1. CASE Webhook(m)
    <3>1. UNCHANGED <<settled, timer, run, work>>
      BY <2>1 DEF Webhook, Take, Enqueue
    <3> QED BY <3>1 DEF Settling, SettledByOne
  <2>2. CASE AnswerElsewhere(m)
    <3>1. /\ UNCHANGED <<settled, timer, work>>
          /\ \A r \in Message : run'[r] = run[r] \/ run'[r] = "elsewhere"
      BY <2>2 DEF AnswerElsewhere, TypeOK
    <3> QED BY <3>1 DEF Settling, SettledByOne
  <2> QED BY <1>3, <2>1, <2>2
<1>4. CASE Handling
  <2>j. line # <<>> /\ Job.of \in Message
    BY <1>4, Handled, JobType DEF TypeOK
  <2>1. CASE Settle
    <3>1. work.got.run \in Message
      BY <2>1 DEF Settle, At, Held, Answers, Records
    <3>2. \A p \in {"mark", "tell", "begin"} : Goes(p) => work'.at = p /\ work'.got = work.got
      BY <1>w DEF Goes, Works
    <3>3. UNCHANGED <<run, timer>>
      BY <2>1 DEF Settle
    <3>4. CASE settled[work.got.run] = "free" /\ Goes("mark")
               /\ settled' = [settled EXCEPT ![work.got.run] = "taken"]
      <4>1. work'.at = "mark" /\ work'.got = work.got
        BY <3>2, <3>4
      <4>2. timer[work.got.run] # "mark"
        BY <3>1, <3>4, NamesAssumption DEF Settling
      <4>3. /\ settled'[work.got.run] = "taken"
            /\ \A r \in Message : r # work.got.run => settled'[r] = settled[r]
        BY <3>1, <3>4 DEF TypeOK
      <4> QED BY <3>1, <3>3, <3>4, <4>1, <4>2, <4>3, NamesAssumption DEF Settling, SettledByOne
    <3>5. CASE settled[work.got.run] = Job.of /\ Goes("tell") /\ UNCHANGED settled
      <4>1. work'.at = "tell" /\ work'.got = work.got
        BY <3>2, <3>5
      <4> QED BY <2>j, <3>3, <3>5, <4>1 DEF Settling, SettledByOne
    <3>6. CASE Goes("begin") /\ UNCHANGED settled
      <4>1. work'.at = "begin"
        BY <3>2, <3>6
      <4> QED BY <3>3, <3>6, <4>1 DEF Settling, SettledByOne
    <3> QED BY <2>1, <3>4, <3>5, <3>6 DEF Settle
  <2>2. CASE Mark
    <3>1. work.got.run \in Message /\ work.at = "mark"
      BY <2>2 DEF Mark, At, Held, Answers, Records
    <3>2. work'.at = "tell" /\ work'.got = work.got
      BY <2>2, <1>w DEF Mark, Goes, Works
    <3> QED BY <2>2, <2>j, <3>1, <3>2, NamesAssumption DEF Mark, Settling, SettledByOne, TypeOK
  <2>3. CASE ~ (Settle \/ Mark)
    <3>1. work'.at \notin {"mark", "tell"}
      BY <1>4, <2>3, Reached
    <3>2. CASE Tell
      <4>1. work.got.run \in Message /\ work.at = "tell" /\ UNCHANGED <<settled, timer>>
        BY <3>2 DEF Tell, At, Held, Answers, Records
      <4> QED BY <3>1, <3>2, <4>1, NamesAssumption DEF Tell, Settling, SettledByOne, TypeOK
    <3>3. CASE Start
      BY <3>1, <3>3, <2>j DEF Start, Settling, SettledByOne, TypeOK
    <3>4. CASE Arm \/ Follow
      BY <3>1, <3>4 DEF Arm, Follow, Settling, SettledByOne, TypeOK
    <3>5. CASE UNCHANGED <<settled, timer, run>>
      BY <3>1, <3>5 DEF Settling, SettledByOne
    <3>6. Tell \/ Start \/ Arm \/ Follow \/ UNCHANGED <<settled, timer, run>>
      <4>1. CASE Begin \/ Look \/ Answer \/ AskNext \/ Clear \/ Claim \/ Done
        BY <4>1 DEF Begin, Look, Answer, AskNext, Clear, Claim, Done
      <4>2. CASE Read \/ Post \/ ReadOut \/ TakeSlot \/ Send \/ Fails
        BY <4>2 DEF Read, Post, ReadOut, TakeSlot, Send, Fails
      <4> QED BY <1>4, <2>3, <4>1, <4>2 DEF Handling
    <3> QED BY <3>2, <3>3, <3>4, <3>5, <3>6
  <2> QED BY <2>1, <2>2, <2>3
<1>5. CASE UNCHANGED vars
  BY <1>5 DEF vars, Settling, SettledByOne
<1> QED BY <1>1, <1>2, <1>3, <1>4, <1>5 DEF Next

(* The numbers of what a phase sends. *)
LEMMA Numbers ==
  ASSUME TypeOK, NEW m \in Message
  PROVE  /\ script.questions[m] \in Nat
         /\ Number(Piece("run", m, "opening")) = 0
         /\ Number(Piece("run", m, "question")) = 1
         /\ Number(Piece("run", m, "rest")) = IF script.questions[m] = 0 THEN 0 ELSE 2
         /\ Number(Piece("message", m, "next")) = 0
         /\ Number(Piece("message", m, "unclear")) = 0
         /\ Number(Piece("message", m, "again")) = 1
<1>1. script.questions[m] \in Nat
  BY ScriptsAssumption DEF TypeOK
<1> QED BY <1>1 DEF Number, Piece

(* The sends that begin are numbered from where the phase is. *)
LEMMA SendsNumbered ==
  ASSUME work \in Works, NEW ps \in Seq(Pieces), NEW place, Sends(ps, place),
         UNCHANGED <<script, line, key>>,
         \A i \in 1 .. Len(ps) : Number(ps[i]) = work.next + i - 1,
         place = "post" => work.next + Len(ps) = 1,
         place = "follow" => work.next + Len(ps) = 2 /\ script.questions[Reading] # 0
  PROVE  Numbered'
<1>1. work' = [work EXCEPT !.at = "send", !.todo = ps, !.then = place]
  BY DEF Sends
<1>2. work'.at = "send" /\ work'.todo = ps /\ work'.then = place /\ work'.next = work.next
  BY <1>1 DEF Works
<1>3. Reading' = Reading
  BY DEF Reading, Job
<1>4. \A i \in 1 .. Len(ps) : Number(ps[i])' = Number(ps[i])
  BY DEF Number
<1> QED BY <1>2, <1>3, <1>4 DEF Numbered, Sending, Number

(* Past a piece, the others keep their numbers. *)
LEMMA NextNumbered ==
  ASSUME work \in Works, work.todo # <<>>, Sending, Numbered, work' = NextPiece,
         UNCHANGED <<script, line, key>>
  PROVE  Numbered'
<1>1. work.todo \in Seq(Pieces) /\ work.next \in Nat
  BY DEF Works
<1>2. /\ work'.at = "send" /\ work'.todo = Tail(work.todo)
      /\ work'.then = work.then /\ work'.next = work.next + 1
  BY DEF NextPiece, Works
<1>3. Reading' = Reading
  BY DEF Reading, Job
<1>4. Len(work.todo) \in Nat \ {0} /\ Len(Tail(work.todo)) = Len(work.todo) - 1
  BY <1>1
<1>5. \A i \in 1 .. Len(Tail(work.todo)) :
        /\ Tail(work.todo)[i] = work.todo[i + 1]
        /\ i + 1 \in 1 .. Len(work.todo)
  BY <1>1, <1>4
<1>6. \A i \in 1 .. Len(work.todo) : Number(work.todo[i]) = work.next + i - 1
  BY DEF Numbered
<1>7. \A i \in 1 .. Len(Tail(work.todo)) : Number(Tail(work.todo)[i]) = (work.next + 1) + i - 1
  <2> TAKE i \in 1 .. Len(Tail(work.todo))
  <2>1. i \in Nat /\ Number(work.todo[i + 1]) = work.next + (i + 1) - 1
    BY <1>4, <1>5, <1>6
  <2> QED BY <1>1, <1>5, <2>1
<1>8. (\A i \in 1 .. Len(work.todo) : Number(work.todo[i]) = work.next + i - 1)'
  <2>1. \A q : Number(q)' = Number(q)
    BY DEF Number
  <2> QED BY <1>2, <1>7, <2>1
<1>9. /\ work'.then = "post" => work'.next + Len(work'.todo) = 1
      /\ work'.then = "follow" => /\ work'.next + Len(work'.todo) = 2
                                  /\ script'.questions[Reading'] # 0
  BY <1>1, <1>2, <1>3, <1>4 DEF Numbered
<1> QED BY <1>2, <1>8, <1>9 DEF Numbered, Sending

(* The pieces a phase has still to send. *)
ToDo == IF Sending THEN {work.todo[i] : i \in 1 .. Len(work.todo)} ELSE {}

LEMMA FirstToDo ==
  ASSUME work \in Works, work.todo # <<>>, Sending
  PROVE  /\ Head(work.todo) \in ToDo /\ Head(work.todo) \in Pieces
         /\ ToDo = {Head(work.todo)} \cup {Tail(work.todo)[i] : i \in 1 .. Len(Tail(work.todo))}
<1>1. work.todo \in Seq(Pieces)
  BY DEF Works
<1>2. /\ Len(work.todo) \in Nat \ {0} /\ Head(work.todo) = work.todo[1]
      /\ Head(work.todo) \in Pieces
      /\ Len(Tail(work.todo)) = Len(work.todo) - 1
      /\ \A i \in 1 .. Len(work.todo) - 1 : Tail(work.todo)[i] = work.todo[i + 1]
  BY <1>1
<1>3. \A i \in 1 .. Len(work.todo) : i = 1 \/ (i - 1 \in 1 .. Len(work.todo) - 1 /\ i = (i - 1) + 1)
  BY <1>2
<1>4. \A i \in 1 .. Len(work.todo) - 1 : i + 1 \in 1 .. Len(work.todo)
  BY <1>2
<1>5. ToDo = {work.todo[i] : i \in 1 .. Len(work.todo)} /\ 1 \in 1 .. Len(work.todo)
  BY <1>2 DEF ToDo
<1>6. ASSUME NEW p \in ToDo
      PROVE  p \in {Head(work.todo)} \cup {Tail(work.todo)[i] : i \in 1 .. Len(Tail(work.todo))}
  <2>1. PICK i \in 1 .. Len(work.todo) : p = work.todo[i]
    BY <1>5
  <2>2. CASE i = 1
    BY <1>2, <2>1, <2>2
  <2>3. CASE i - 1 \in 1 .. Len(work.todo) - 1
    <3>1. Tail(work.todo)[i - 1] = p
      BY <1>2, <1>3, <2>1, <2>3
    <3> QED BY <1>2, <2>3, <3>1
  <2> QED BY <1>3, <2>2, <2>3
<1>7. ASSUME NEW i \in 1 .. Len(Tail(work.todo)) PROVE Tail(work.todo)[i] \in ToDo
  BY <1>2, <1>4, <1>5
<1>8. Head(work.todo) \in ToDo
  BY <1>2, <1>5
<1> QED BY <1>2, <1>6, <1>7, <1>8

(* The piece in hand has the number that was taken for it. *)
LEMMA InHand ==
  ASSUME work \in Works, work.todo # <<>>, Sending, Numbered
  PROVE  SlotOf(Head(work.todo)) = Slot
<1>1. work.todo \in Seq(Pieces) /\ work.next \in Nat
  BY DEF Works
<1>2. 1 \in 1 .. Len(work.todo) /\ Head(work.todo) = work.todo[1]
  BY <1>1
<1>3. Number(work.todo[1]) = work.next + 1 - 1
  BY <1>2 DEF Numbered
<1> QED BY <1>1, <1>2, <1>3 DEF SlotOf, Slot

LEMMA NumberedStep ==
  TypeOK /\ Held /\ Numbered /\ Recorded /\ SentOnce /\ [Next]_vars
    => (Numbered /\ Recorded /\ SentOnce)'
<1> SUFFICES ASSUME TypeOK, Held, Numbered, Recorded, SentOnce, [Next]_vars
             PROVE  (Numbered /\ Recorded /\ SentOnce)'
  OBVIOUS
<1> USE DEF outside, jobs, store, person, turns, bounds
<1>w. work \in Works
  BY DEF TypeOK
<1>s. UNCHANGED script
  BY DEF Next, vars, Webhook, Take, Enqueue, Timeout, TimerFails, Expire, ExpireMark, ExpireLook,
         ExpireDrop, Skip, Resume, AnswerElsewhere, Handling, Begin, Look, Answer, AskNext, Settle,
         Mark, Tell, Clear, Claim, Start, Done, Read, Post, Arm, Follow, ReadOut, TakeSlot, Send,
         Fails, Crash
<1>p. \A q : SlotOf(q)' = SlotOf(q)
  BY <1>s DEF SlotOf, Number
<1>k. UNCHANGED <<slots, sent, stray>> => (Recorded /\ SentOnce)'
  BY <1>p DEF Recorded, SentOnce
<1>z. \/ work'.at \in {"act", "answer", "asked", "read"} /\ work'.next = 0
      \/ work'.at \in {"idle", "settle", "mark", "tell", "clear", "begin", "start", "done", "nothing",
                       "arm", "parked", "read_out"}
      => Numbered'
  BY DEF Numbered, Sending
<1>r. work' \in {Idle, Restart("act"), Restart("read")} => Numbered'
  BY <1>z DEF Idle, Restart
<1>e. Errs => work' \in {Idle, Restart("act"), Restart("read")}
  BY DEF Errs, Ends, Phase
<1>n. \A o : Ends(o) => work' = Idle
  BY DEF Ends
<1>g. \A p : Goes(p) => work'.at = p /\ work'.next = work.next
  BY <1>w DEF Goes, Works
<1>1. CASE Around
  <2>1. UNCHANGED <<script, work, key, slots, sent, stray>> /\ (line # <<>> => Job' = Job)
    BY <1>1, AroundTheWorker
  <2>2. work.at # "idle" => Reading' = Reading
    BY <2>1 DEF Held, Reading
  <2>3. Slot' = Slot
    BY <2>1 DEF Slot
  <2>4. \A q : Number(q)' = Number(q)
    BY <1>s DEF Number
  <2>5. Numbered'
    BY <2>1, <2>2, <2>3, <2>4, <1>p DEF Numbered, Sending
  <2> QED BY <2>1, <2>5, <1>k
<1>2. CASE Crash
  BY <1>2, <1>r, <1>k DEF Crash
<1>3. CASE Handling
  <2>j. line # <<>> /\ Job.of \in Message
    BY <1>3, Handled, JobType DEF TypeOK
  <2>q. work.at \in Reads => Reading \in Message /\ script.questions[Reading] \in Nat
    BY Numbers DEF Held
  <2>1. CASE \/ Begin \/ Look \/ Settle \/ Mark \/ Tell \/ Clear \/ Claim \/ Start \/ Done
             \/ Arm \/ ReadOut \/ Fails
    <3>1. UNCHANGED <<slots, sent, stray>>
      BY <2>1 DEF Begin, Look, Settle, Mark, Tell, Clear, Claim, Start, Done, Arm, ReadOut, Fails
    <3>2. Begin => Numbered'
      BY <1>r DEF Begin, Phase
    <3>3. Look => Numbered'
      <4>1. CASE Look /\ question = NoQuestion
        BY <4>1, <1>g, <1>z DEF Look
      <4>2. CASE Look /\ question # NoQuestion
        BY <4>2, <1>w, <1>z DEF Look, At, Works, Numbered
      <4> QED BY <4>1, <4>2
    <3>4. Settle \/ Mark \/ Clear => Numbered'
      BY <1>g, <1>z DEF Settle, Mark, Clear
    <3>5. Tell \/ Claim \/ Arm \/ ReadOut \/ Fails => Numbered'
      BY <1>g, <1>z, <1>r, <1>e, <1>n DEF Tell, Claim, Arm, ReadOut, Fails
    <3>6. Start => Numbered'
      BY <1>w, <1>z, <1>r, <1>e DEF Start, Works
    <3>7. Done => Numbered'
      BY <1>r, <1>n DEF Done
    <3> QED BY <2>1, <3>1, <3>2, <3>3, <3>4, <3>5, <3>6, <3>7, <1>k
  <2>2. CASE Answer
    <3>1. UNCHANGED <<slots, sent, stray, line, key>> /\ work.next = 0 /\ work.at = "answer"
      BY <2>2 DEF Answer, At, Numbered
    <3>2. Goes("nothing") => Numbered'
      BY <1>g, <1>z
    <3>3. \A r : work' = [work EXCEPT !.at = "asked", !.got = r] => Numbered'
      BY <3>1, <1>w, <1>z DEF Works
    <3>4. CASE Sends(<<Piece("message", Job.of, "unclear"), Piece("message", Job.of, "again")>>,
                     "nothing")
      <4> DEFINE ps == <<Piece("message", Job.of, "unclear"), Piece("message", Job.of, "again")>>
      <4>1. ps \in Seq(Pieces)
        BY <2>j, ThingsToSay
      <4>2. \A i \in 1 .. Len(ps) : Number(ps[i]) = 0 + i - 1
        BY <2>j, Numbers
      <4> HIDE DEF ps
      <4>3. Sends(ps, "nothing")
        BY <3>4 DEF ps
      <4> QED BY <4>1, <4>2, <4>3, <3>1, <1>k, <1>s, <1>w, SendsNumbered
    <3> QED BY <2>2, <3>1, <3>2, <3>3, <3>4, <1>k DEF Answer
  <2>3. CASE AskNext
    <3>1. UNCHANGED <<slots, sent, stray, line, key>> /\ work.next = 0
      BY <2>3 DEF AskNext, At, Numbered
    <3>2. Goes("settle") => Numbered'
      BY <1>g, <1>z
    <3>3. CASE Sends(<<Piece("message", Job.of, "next")>>, "nothing")
      <4> DEFINE ps == <<Piece("message", Job.of, "next")>>
      <4>1. ps \in Seq(Pieces)
        BY <2>j, ThingsToSay
      <4>2. \A i \in 1 .. Len(ps) : Number(ps[i]) = 0 + i - 1
        BY <2>j, Numbers
      <4> HIDE DEF ps
      <4>3. Sends(ps, "nothing")
        BY <3>3 DEF ps
      <4> QED BY <4>1, <4>2, <4>3, <3>1, <1>k, <1>s, <1>w, SendsNumbered
    <3> QED BY <2>3, <3>1, <3>2, <3>3, <1>k DEF AskNext
  <2>4. CASE Read
    <3>1. UNCHANGED <<slots, sent, stray, line, key>> /\ work.next = 0 /\ Reading \in Message
      BY <2>4, <2>q DEF Read, At, Numbered, Reads
    <3>2. CASE script.questions[Reading] = 0 /\ Sends(<<Piece("run", Reading, "rest")>>, "read_out")
      <4> DEFINE ps == <<Piece("run", Reading, "rest")>>
      <4>1. ps \in Seq(Pieces)
        BY <3>1, ThingsToSay
      <4>2. \A i \in 1 .. Len(ps) : Number(ps[i]) = 0 + i - 1
        BY <3>1, <3>2, Numbers
      <4> HIDE DEF ps
      <4>3. Sends(ps, "read_out")
        BY <3>2 DEF ps
      <4> QED BY <4>1, <4>2, <4>3, <3>1, <1>k, <1>s, <1>w, SendsNumbered
    <3>3. CASE script.questions[Reading] # 0 /\ Sends(Opening(Reading), "follow")
      <4> DEFINE ps == Opening(Reading)
      <4>1. ps \in Seq(Pieces)
        BY <3>1, ThingsToSay
      <4>2. Len(ps) = 2 /\ \A i \in 1 .. Len(ps) : Number(ps[i]) = 0 + i - 1
        BY <3>1, Numbers DEF Opening
      <4> HIDE DEF ps
      <4>3. Sends(ps, "follow")
        BY <3>3 DEF ps
      <4> QED BY <4>1, <4>2, <4>3, <3>1, <3>3, <1>k, <1>s, <1>w, SendsNumbered
    <3>4. CASE Sends(<<Piece("run", Reading, "opening")>>, "post")
      <4> DEFINE ps == <<Piece("run", Reading, "opening")>>
      <4>1. ps \in Seq(Pieces)
        BY <3>1, ThingsToSay
      <4>2. Len(ps) = 1 /\ \A i \in 1 .. Len(ps) : Number(ps[i]) = 0 + i - 1
        BY <3>1, Numbers
      <4> HIDE DEF ps
      <4>3. Sends(ps, "post")
        BY <3>4 DEF ps
      <4> QED BY <4>1, <4>2, <4>3, <3>1, <1>k, <1>s, <1>w, SendsNumbered
    <3> QED BY <2>4, <3>1, <3>2, <3>3, <3>4, <1>k DEF Read
  <2>5. CASE Post
    <3>1. UNCHANGED <<slots, sent, stray, line, key>> /\ work.next = 1 /\ Reading \in Message
      BY <2>5, <2>q DEF Post, At, Numbered, Reads
    <3> DEFINE ps == <<Piece("run", Reading, "question")>>
    <3>2. ps \in Seq(Pieces)
      BY <3>1, ThingsToSay
    <3>3. \A i \in 1 .. Len(ps) : Number(ps[i]) = 1 + i - 1
      BY <3>1, Numbers
    <3>4. Sends(ps, "arm")
      BY <2>5 DEF Post
    <3> HIDE DEF ps
    <3> QED BY <3>1, <3>2, <3>3, <3>4, <1>k, <1>s, <1>w, SendsNumbered
  <2>6. CASE Follow
    <3>1. /\ UNCHANGED <<slots, sent, stray, key>> /\ work.next = 2 /\ Reading \in Message
          /\ script.questions[Reading] # 0
      BY <2>6, <2>q DEF Follow, At, Numbered, Reads
    <3>2. CASE Ends("timeout")
      BY <3>1, <3>2, <1>n, <1>r, <1>k
    <3>3. CASE /\ Sends(IF run[Reading] = "stopped" THEN <<>> ELSE <<Piece("run", Reading, "rest")>>,
                       "read_out")
               /\ UNCHANGED line
      <4> DEFINE ps == IF run[Reading] = "stopped" THEN <<>> ELSE <<Piece("run", Reading, "rest")>>
      <4>1. ps \in Seq(Pieces)
        BY <3>1, ThingsToSay
      <4>2. \A i \in 1 .. Len(ps) : Number(ps[i]) = 2 + i - 1
        BY <3>1, Numbers
      <4> HIDE DEF ps
      <4>3. Sends(ps, "read_out")
        BY <3>3 DEF ps
      <4> QED BY <4>1, <4>2, <4>3, <3>1, <3>3, <1>k, <1>s, <1>w, SendsNumbered
    <3> QED BY <2>6, <3>2, <3>3 DEF Follow
  <2>7. CASE TakeSlot
    <3>1. UNCHANGED <<sent, stray, line, key>> /\ work.at = "send" /\ Reading' = Reading
      BY <2>7 DEF TakeSlot, At, Reading, Job
    <3>2. CASE work.todo = <<>>
      <4>1. UNCHANGED slots /\ work'.at = work.then /\ work'.next = work.next
        BY <2>7, <3>2, <1>g DEF TakeSlot
      <4>2. work.then \in {"post", "arm", "follow", "read_out", "nothing"}
        BY <3>1 DEF Held, Sending, Reads
      <4>3. Len(work.todo) = 0 /\ work.next \in Nat
        BY <3>2, <1>w DEF Works
      <4>4. work.then \in {"arm", "read_out", "nothing"} => Numbered'
        BY <4>1, <1>z
      <4>5. work.then = "post" => Numbered'
        BY <3>1, <4>1, <4>3 DEF Numbered, Sending
      <4>6. work.then = "follow" => Numbered'
        BY <3>1, <4>1, <4>3, <1>s DEF Numbered, Sending
      <4> QED BY <3>1, <4>1, <4>2, <4>4, <4>5, <4>6, <1>k
    <3>3. CASE work.todo # <<>> /\ Slot \in slots
      <4>1. UNCHANGED slots /\ work' = NextPiece /\ Sending
        BY <2>7, <3>1, <3>3 DEF TakeSlot, Sending
      <4> QED BY <3>1, <3>3, <4>1, <1>w, <1>s, <1>k, NextNumbered
    <3>4. CASE work.todo # <<>> /\ Slot \notin slots
      <4>1. slots' = slots \cup {Slot} /\ Goes("sending")
        BY <2>7, <3>4 DEF TakeSlot
      <4>2. /\ work'.at = "sending" /\ work'.todo = work.todo /\ work'.next = work.next
            /\ work'.then = work.then
        BY <4>1, <1>w DEF Goes, Works
      <4>3. Slot' = Slot /\ Slot' \in slots'
        BY <4>1, <4>2 DEF Slot
      <4>4. \A q \in Pieces : SlotOf(q) = Slot => sent[q] = stray[q]
        BY <3>4 DEF Recorded
      <4>5. \A q : Number(q)' = Number(q)
        BY <1>s DEF Number
      <4>6. Numbered'
        BY <3>1, <4>2, <4>3, <4>4, <4>5, <1>p, <1>s DEF Numbered, Sending
      <4>7. (Recorded /\ SentOnce)'
        BY <3>1, <4>1, <1>p DEF Recorded, SentOnce
      <4> QED BY <4>6, <4>7
    <3> QED BY <3>2, <3>3, <3>4
  <2>8. CASE Send
    <3>1. /\ UNCHANGED key /\ work.at = "sending" /\ work.todo # <<>> /\ Sending
          /\ Slot \in slots /\ \A q \in Pieces : SlotOf(q) = Slot => sent[q] = stray[q]
      BY <2>8 DEF Send, At, Held, Numbered, Sending
    <3>h. PICK h \in Pieces : h = Head(work.todo) /\ SlotOf(h) = Slot
      BY <3>1, <1>w, FirstToDo, InHand
    <3>t. sent \in [Pieces -> Nat] /\ stray \in [Pieces -> Nat] /\ sent[h] = stray[h]
      BY <3>1, <3>h DEF TypeOK
    <3>2. CASE /\ Errs
               /\ \/ UNCHANGED <<sent, stray>>
                  \/ /\ sent' = [sent EXCEPT ![h] = sent[h] + 1]
                     /\ stray' = [stray EXCEPT ![h] = stray[h] + 1]
               /\ slots' \in {slots, slots \ {Slot}}
      <4>1. /\ sent'[h] = stray'[h] /\ stray'[h] \in Nat
            /\ \A q \in Pieces : q # h => sent'[q] = sent[q] /\ stray'[q] = stray[q]
        BY <3>2, <3>t, Counted
      <4>2. ASSUME NEW q \in Pieces, sent'[q] # stray'[q] PROVE SlotOf(q) \in slots'
        <5>1. q # h /\ sent[q] # stray[q]
          BY <4>1, <4>2
        <5>2. SlotOf(q) \in slots /\ SlotOf(q) # Slot
          BY <3>1, <5>1 DEF Recorded
        <5> QED BY <3>2, <5>2
      <4>3. SentOnce'
        BY <4>1 DEF SentOnce
      <4>4. Recorded'
        BY <4>2, <1>p DEF Recorded
      <4> QED BY <3>2, <4>3, <4>4, <1>e, <1>r
    <3>3. CASE /\ sent' = [sent EXCEPT ![h] = sent[h] + 1]
               /\ work' = NextPiece /\ UNCHANGED <<line, slots, stray>>
      <4>1. /\ sent'[h] = stray'[h] + 1 /\ stray'[h] \in Nat
            /\ \A q \in Pieces : q # h => sent'[q] = sent[q] /\ stray'[q] = stray[q]
        BY <3>3, <3>t, Counted
      <4>2. SentOnce'
        BY <4>1 DEF SentOnce
      <4>3. Recorded'
        BY <3>1, <3>3, <3>h, <4>1, <1>p DEF Recorded
      <4> QED BY <3>1, <3>3, <4>2, <4>3, <1>w, <1>s, NextNumbered
    <3> QED BY <2>8, <3>h, <3>2, <3>3 DEF Send
  <2> QED BY <1>3, <2>1, <2>2, <2>3, <2>4, <2>5, <2>6, <2>7, <2>8 DEF Handling
<1> QED BY <1>1, <1>2, <1>3 DEF Next, Around

LEMMA Invariant == Spec => []Inv
<1>1. Inv /\ [Next]_vars => Inv'
  BY TypeStep, HeldStep, StartingStep, SettlingStep, NumberedStep DEF Inv
<1> QED BY InitHolds, <1>1, PTL DEF Spec

(* A message starts at most one turn, whatever repeats of its phase the     *)
(* ends of the process and the errors bring, and one more for a send that  *)
(* threw after it had started one: the key of the message is claimed       *)
(* before service.send, and given back only by the attempt that threw      *)
(* (act).                                                                  *)
THEOREM OneTurnForAMessage == Spec => []OneTurn
<1>1. Inv => OneTurn
  BY DEF Inv, Starting
<1> QED BY Invariant, <1>1, PTL

(* A run is answered by the message, or skipped by the timer, that settled  *)
(* its question, and not by both: settleQuestion claims one key for both.  *)
THEOREM OneOutcomeOfAQuestion == Spec => []SettledByOne
<1>1. Inv => SettledByOne
  BY DEF Inv, Settling
<1> QED BY Invariant, <1>1, PTL

(* No piece reaches the person twice, though a phase is run from its start *)
(* again and the stream of a run is read from its first frame again, but   *)
(* for the sends of it that threw when it had been delivered: what is said *)
(* has one number in its phase, which the outbox takes once, and gives     *)
(* back only when the send threw.                                          *)
THEOREM NothingSaidTwice == Spec => []SentOnce
<1>1. Inv => SentOnce
  BY DEF Inv
<1> QED BY Invariant, <1>1, PTL

(***************************************************************************)
(* A whole reply: what a read passes on the way to its end was told.       *)
(***************************************************************************)
Told(p) == sent[p] > 0 \/ p \in torn
Said(p) == p.by = "run" /\ p \in SaidBy(p.of)

(* A run of which no start returned is not one that is read. *)
Unstarted == \A m \in Message : starts[m] = orphans[m] => run[m] = "none"

(* A message that came to a turn is not acted on again: its key stays. *)
Acts == Answers \cup {"act", "begin", "start", "nothing"}
ActPlace == work.at \in Acts \/ (Sending /\ work.then = "nothing")
Acting == ActPlace => key[Job.of] \notin Message

(* The number of a piece is taken by the one who tells it. *)
SlotsTold == \A p \in Pieces :
  Said(p) /\ SlotOf(p) \in slots => Told(p) \/ (work.at = "sending" /\ Head(work.todo) = p)

(* What must have been told when a read gets to a place. *)
Place == IF Sending THEN work.then ELSE work.at
AskedWith(r) == {Piece("run", r, "opening"), Piece("run", r, "question")}
Due(place) == CASE place = "follow"   -> AskedWith(Reading)
                [] place = "read_out" -> SaidBy(Reading) \ Stopped(Reading)
                [] OTHER -> {}
Owing == /\ Place \in {"post", "follow"} => script.questions[Reading] # 0
         /\ \A p \in ToDo : p.by = "run" => p \in SaidBy(Reading)
         /\ \A p \in Due(Place) : Told(p) \/ p \in ToDo

Outcomes == {"none", "failed", "handled", "replied", "parked", "timeout"}
Replies == /\ outcome \in [Jobs -> Outcomes]
           /\ \A j \in Jobs : outcome[j] = "replied" => ReadBy(j) \in Message
           /\ WholeReply

Whole == Unstarted /\ Acting /\ SlotsTold /\ Owing /\ Replies

LEMMA InitWhole == Init => Whole
<1> SUFFICES ASSUME Init PROVE Whole
  OBVIOUS
<1>1. /\ work.at = "idle" /\ ~ Sending /\ ToDo = {} /\ Place = "idle"
  BY DEF Init, Idle, Sending, ToDo, Place
<1>2. Unstarted /\ Acting /\ SlotsTold
  BY <1>1 DEF Init, Unstarted, Acting, ActPlace, Acts, Answers, SlotsTold
<1>3. Due(Place) = {}
  BY <1>1 DEF Due
<1>4. Owing
  BY <1>1, <1>3 DEF Owing
<1>5. Replies
  BY DEF Init, Replies, Outcomes, WholeReply
<1> QED BY <1>2, <1>4, <1>5 DEF Whole

(* What is not taken back: what was told, a key that names a turn, a stop. *)
LEMMA ScriptStays == [Next]_vars => UNCHANGED script
BY DEF Next, vars, outside, Webhook, Take, Enqueue, Timeout, TimerFails, Expire, ExpireMark,
       ExpireLook, ExpireDrop, Skip, Resume, AnswerElsewhere, Handling, Begin, Look, Answer, AskNext,
       Settle, Mark, Tell, Clear, Claim, Start, Done, Read, Post, Arm, Follow, ReadOut, TakeSlot,
       Send, Fails, Crash

LEMMA ToldStays ==
  ASSUME TypeOK, Held, Numbered, SentOnce, [Next]_vars, NEW p \in Pieces, Told(p)
  PROVE  Told(p)'
<1> USE DEF outside, jobs, store, person, turns, bounds
<1>1. CASE Around
  BY <1>1, AroundTheWorker DEF Told
<1>2. CASE Crash
  BY <1>2 DEF Crash, Told
<1>3. CASE Send
  <2>1. work.at = "sending" /\ Sending /\ work.todo # <<>>
    BY <1>3 DEF Send, At, Sending, Held
  <2>2. Head(work.todo) \in Pieces /\ sent \in [Pieces -> Nat]
    BY <2>1, FirstToDo DEF TypeOK
  <2>3. sent' \in {sent, [sent EXCEPT ![Head(work.todo)] = sent[Head(work.todo)] + 1]}
    BY <1>3 DEF Send
  <2>4. sent[p] > 0 => sent'[p] > 0
    BY <2>2, <2>3, Counted
  <2>5. torn \subseteq torn'
    BY <1>3 DEF Send
  <2> QED BY <2>4, <2>5 DEF Told
<1>4. CASE Handling /\ ~ Send
  <2>1. UNCHANGED person
    BY <1>4 DEF Handling, Begin, Look, Answer, AskNext, Settle, Mark, Tell, Clear, Claim, Start,
                Done, Read, Post, Arm, Follow, ReadOut, TakeSlot, Fails
  <2> QED BY <2>1 DEF Told
<1> QED BY <1>1, <1>2, <1>3, <1>4 DEF Next, Around

(* A run is changed by its start and by what settles what it asks. *)
LEMMA RunMoves ==
  ASSUME TypeOK, Held, Starting, Unstarted, [Next]_vars, NEW r \in Message
  PROVE  /\ run'[r] = run[r] \/ run[r] = "asks"
            \/ (starts[r] = orphans[r] /\ starts'[r] # orphans'[r])
         /\ starts[r] # orphans[r] => starts'[r] # orphans'[r]
<1> USE DEF outside, jobs, store, person, turns, bounds
<1>1. CASE Around
  BY <1>1 DEF Around, vars, Webhook, Take, Enqueue, Timeout, TimerFails, Expire, ExpireMark,
              ExpireLook, ExpireDrop, Skip, Resume, AnswerElsewhere, TypeOK
<1>2. CASE Crash
  BY <1>2 DEF Crash
<1>3. CASE Handling
  <2>1. CASE Start
    <3>1. Job.of \in Message /\ starts[Job.of] = orphans[Job.of]
      BY <2>1, Handled, JobType DEF Start, At, Starting, TypeOK, Handling
    <3>2. run \in [Message -> {"none", "plain", "asks", "answered", "skipped", "elsewhere", "stopped"}]
          /\ starts \in [Message -> Nat] /\ orphans \in [Message -> Nat]
      BY DEF TypeOK
    <3>3. r # Job.of => run'[r] = run[r] /\ starts'[r] = starts[r] /\ orphans'[r] = orphans[r]
      BY <2>1, <3>1, <3>2 DEF Start
    <3>4. CASE run' # run
      <4>1. starts' = [starts EXCEPT ![Job.of] = starts[Job.of] + 1] /\ UNCHANGED orphans
        BY <2>1, <3>4 DEF Start
      <4>2. starts'[Job.of] # orphans'[Job.of]
        BY <3>1, <3>2, <4>1, Counted
      <4> QED BY <3>1, <3>3, <4>2
    <3>5. CASE run' = run
      BY <3>1, <3>3, <3>5
    <3> QED BY <3>4, <3>5
  <2>2. CASE Tell \/ Follow
    <3>1. work.at = "tell" => work.got.run \in Message
      BY DEF Held, Answers, Records
    <3>2. UNCHANGED turns
      BY <2>2 DEF Tell, Follow
    <3> QED BY <2>2, <3>1, <3>2 DEF Tell, Follow, At, TypeOK
  <2>3. CASE ~ (Start \/ Tell \/ Follow)
    BY <1>3, <2>3 DEF Handling, Begin, Look, Answer, AskNext, Settle, Mark, Clear, Claim,
                      Done, Read, Post, Arm, ReadOut, TakeSlot, Send, Fails
  <2> QED BY <2>1, <2>2, <2>3
<1> QED BY <1>1, <1>2, <1>3 DEF Next, Around

LEMMA UnstartedStep ==
  TypeOK /\ Held /\ Starting /\ Unstarted /\ [Next]_vars => Unstarted'
<1> SUFFICES ASSUME TypeOK, Held, Starting, Unstarted, [Next]_vars, NEW m \in Message,
                    starts'[m] = orphans'[m]
             PROVE  run'[m] = "none"
  BY DEF Unstarted
<1>1. starts[m] = orphans[m] /\ run[m] = "none"
  BY RunMoves DEF Unstarted
<1> QED BY <1>1, RunMoves

LEMMA StopStays ==
  ASSUME TypeOK, Held, Starting, Unstarted, [Next]_vars, NEW r \in Message
  PROVE  SaidBy(r)' \ Stopped(r)' \subseteq SaidBy(r) \ Stopped(r)
<1>1. SaidBy(r)' = SaidBy(r)
  BY ScriptStays DEF SaidBy
<1>2. run[r] = "stopped" => run'[r] = "stopped"
  BY RunMoves DEF Unstarted
<1> QED BY <1>1, <1>2 DEF Stopped

LEMMA KeyStays ==
  ASSUME TypeOK, Held, Starting, Acting, [Next]_vars, NEW m \in Message, key[m] \in Message
  PROVE  key'[m] = key[m]
<1> USE DEF outside, jobs, store, person, turns, bounds
<1>1. CASE Around
  BY <1>1, AroundTheWorker
<1>2. CASE Crash
  BY <1>2 DEF Crash
<1>3. CASE Handling
  <2>j. Job.of \in Message
    BY <1>3, Handled, JobType DEF TypeOK
  <2>1. CASE Claim \/ Start
    BY <2>1, <2>j, NamesAssumption DEF Claim, Start, At, Starting, TypeOK
  <2>2. CASE Done
    <3>1. key[Job.of] \notin Message
      BY <2>2 DEF Done, At, Acting, ActPlace, Acts, Answers
    <3>2. m # Job.of
      BY <3>1
    <3> QED BY <2>2, <2>j, <3>2 DEF Done, TypeOK
  <2>3. CASE ~ (Claim \/ Start \/ Done)
    BY <1>3, <2>3 DEF Handling, Begin, Look, Answer, AskNext, Settle, Mark, Tell, Clear,
                      Read, Post, Arm, Follow, ReadOut, TakeSlot, Send, Fails
  <2> QED BY <2>1, <2>2, <2>3
<1> QED BY <1>1, <1>2, <1>3 DEF Next, Around

(* A phase acts as long as its message came to nothing yet. *)
LEMMA ActingStep ==
  TypeOK /\ TypeOK' /\ Held /\ Starting /\ Acting /\ [Next]_vars => Acting'
<1> SUFFICES ASSUME TypeOK, TypeOK', Held, Starting, Acting, [Next]_vars PROVE Acting'
  OBVIOUS
<1> USE DEF outside, jobs, store, person, turns, bounds
<1>w. work \in Works
  BY DEF TypeOK
<1>1. CASE Around
  <2>1. UNCHANGED <<work, key>> /\ (line # <<>> => Job' = Job)
    BY <1>1, AroundTheWorker
  <2>2. CASE line = <<>>
    BY <2>1, <2>2 DEF Held, Acting, ActPlace, Acts, Answers, Sending
  <2> QED BY <2>1, <2>2 DEF Acting, ActPlace, Sending
<1>i. work' \in {Idle, Restart("read")} => Acting'
  BY DEF Idle, Restart, Acting, ActPlace, Acts, Answers, Sending
<1>2. CASE Crash
  BY <1>2, <1>i DEF Crash
<1>3. CASE Handling
  <2>j. Job.of \in Message /\ ((line' = line /\ Job' = Job) \/ work' = Idle)
    BY <1>3, Handled, JobType DEF TypeOK
  <2>b. Phase = "act" => key[Job.of] \notin Message
    BY DEF Phase, Result
  <2>p. Phase \in {"act", "read"}
    BY DEF Phase
  <2>r. work' = Restart(Phase) /\ line' = line /\ UNCHANGED key => Acting'
    BY <2>b, <2>j, <2>p, <1>i DEF Acting, Job
  <2>e. Errs /\ UNCHANGED key => Acting'
    BY <2>r, <1>i DEF Errs, Ends
  <2>k. ActPlace /\ UNCHANGED <<line, key>> => Acting'
    BY DEF Acting, Job
  <2>n. \A o : Ends(o) => Acting'
    BY <1>i DEF Ends
  <2>s. \A ps, place : Sends(ps, place) /\ place \in Reads => Acting'
    BY <1>w DEF Sends, Works, Reads, Acting, ActPlace, Acts, Answers, Sending
  <2>1. CASE Begin
    BY <2>1, <2>r DEF Begin
  <2>2. CASE Look \/ Answer \/ AskNext \/ Settle \/ Mark \/ Clear
    <3>1. ActPlace /\ UNCHANGED <<line, key>>
      BY <2>2 DEF Look, Answer, AskNext, Settle, Mark, Clear, At, ActPlace, Acts, Answers
    <3> QED BY <3>1, <2>k
  <2>3. CASE Tell
    <3>1. ActPlace /\ UNCHANGED key
      BY <2>3 DEF Tell, At, ActPlace, Acts, Answers
    <3> QED BY <2>3, <3>1, <2>k, <2>e, <2>n DEF Tell
  <2>4. CASE Claim
    <3>1. CASE key' = [key EXCEPT ![Job.of] = "taken"] /\ UNCHANGED line
      <4>1. Job' = Job /\ key'[Job.of] = "taken"
        BY <3>1, <2>j DEF Job, TypeOK
      <4> QED BY <4>1, NamesAssumption DEF Acting
    <3> QED BY <2>4, <3>1, <2>n DEF Claim
  <2>5. CASE Start
    <3>1. ActPlace
      BY <2>5 DEF Start, At, ActPlace, Acts
    <3>2. CASE key' = [key EXCEPT ![Job.of] = "free"] /\ Errs
      <4>1. key'[Job.of] = "free"
        BY <3>2, <2>j DEF TypeOK
      <4>2. line' = line /\ Job' = Job => Acting'
        BY <4>1, NamesAssumption DEF Acting
      <4> QED BY <2>j, <4>2, <1>i
    <3> QED BY <2>5, <3>1, <3>2, <2>k, <2>e DEF Start
  <2>6. CASE Done
    BY <2>6, <2>n, <1>i DEF Done
  <2>7. CASE Read \/ Post \/ Follow
    BY <2>7, <2>s, <2>n DEF Read, Post, Follow, Reads
  <2>8. CASE Arm \/ ReadOut \/ Fails
    <3>1. Goes("parked") => Acting'
      BY <1>w DEF Goes, Works, Acting, ActPlace, Acts, Answers, Sending
    <3> QED BY <2>8, <3>1, <2>n, <2>e DEF Arm, ReadOut, Fails
  <2>9. CASE TakeSlot
    <3>1. Sending /\ UNCHANGED <<line, key>> /\ work.then \in Reads \cup {"nothing"}
      BY <2>9 DEF TakeSlot, At, Sending, Held
    <3>2. CASE Goes(work.then)
      <4>1. work'.at = work.then
        BY <3>2, <1>w DEF Goes, Works
      <4>2. CASE work.then = "nothing"
        BY <3>1, <4>2, <2>k DEF ActPlace
      <4>3. CASE work.then \in Reads
        BY <4>1, <4>3 DEF Acting, ActPlace, Acts, Answers, Reads, Sending
      <4> QED BY <3>1, <4>2, <4>3
    <3>3. CASE work' = NextPiece \/ Goes("sending")
      <4>1. work'.at \in {"send", "sending"} /\ work'.then = work.then
        BY <3>3, <1>w DEF NextPiece, Goes, Works
      <4>2. ActPlace' => ActPlace
        BY <3>1, <4>1 DEF ActPlace, Acts, Answers, Sending
      <4> QED BY <3>1, <4>2, <2>k DEF Acting
    <3> QED BY <2>9, <3>2, <3>3 DEF TakeSlot
  <2>10. CASE Send
    <3>1. CASE work' = NextPiece /\ UNCHANGED <<line, key>>
      <4>1. work'.at = "send" /\ work'.then = work.then /\ Sending
        BY <2>10, <3>1, <1>w DEF NextPiece, Works, Send, At, Sending
      <4>2. ActPlace' => ActPlace
        BY <4>1 DEF ActPlace, Acts, Answers, Sending
      <4> QED BY <3>1, <4>2, <2>k DEF Acting
    <3> QED BY <2>10, <3>1, <2>e DEF Send
  <2> QED BY <1>3, <2>1, <2>2, <2>3, <2>4, <2>5, <2>6, <2>7, <2>8, <2>9, <2>10 DEF Handling
<1> QED BY <1>1, <1>2, <1>3 DEF Next, Around

(* A run's pieces have a number each. *)
LEMMA OneNumberEach ==
  ASSUME TypeOK, NEW p \in Pieces, NEW q \in Pieces, Said(p), SlotOf(p) = SlotOf(q),
         q.by = "run" => Said(q)
  PROVE  p = q
<1>1. p.by = q.by /\ p.of = q.of /\ Number(p) = Number(q)
  BY DEF SlotOf
<1>2. p.by = "run" /\ q.by = "run" /\ p.of \in Message
  BY <1>1 DEF Said, Pieces
<1> DEFINE r == p.of
<1>3. p \in SaidBy(r) /\ q \in SaidBy(r)
  BY <1>1, <1>2 DEF Said
<1>4. /\ p = Piece("run", r, p.part) /\ q = Piece("run", r, q.part)
      /\ p.part \in {"opening", "question", "rest"} /\ q.part \in {"opening", "question", "rest"}
      /\ script.questions[r] = 0 => p.part = "rest" /\ q.part = "rest"
  BY <1>3 DEF SaidBy, Piece
<1>5. p.part = q.part
  BY <1>1, <1>4 DEF Number
<1> QED BY <1>4, <1>5

(* What a run is to say are pieces, and of that run. *)
LEMMA SaidPieces ==
  ASSUME NEW r \in Message
  PROVE  /\ AskedWith(r) \subseteq Pieces /\ SaidBy(r) \subseteq Pieces
         /\ \A p \in SaidBy(r) : p.by = "run" /\ Said(p)
         /\ script.questions[r] # 0 => SaidBy(r) = AskedWith(r) \cup {Piece("run", r, "rest")}
         /\ script.questions[r] = 0 => SaidBy(r) = {Piece("run", r, "rest")}
<1>1. AskedWith(r) \subseteq Pieces /\ SaidBy(r) \subseteq Pieces
  BY PieceType DEF AskedWith, SaidBy
<1>2. \A p \in SaidBy(r) : p.by = "run" /\ p.of = r
  BY DEF SaidBy, Piece
<1>3. \A p \in SaidBy(r) : Said(p)
  BY <1>2 DEF Said
<1>4. /\ script.questions[r] # 0 => SaidBy(r) = AskedWith(r) \cup {Piece("run", r, "rest")}
      /\ script.questions[r] = 0 => SaidBy(r) = {Piece("run", r, "rest")}
  BY Zenon DEF AskedWith, SaidBy
<1> QED BY <1>1, <1>2, <1>3, <1>4

(* The piece in hand, if it is a run's, is one the run is to say. *)
LEMMA FirstSaid ==
  ASSUME TypeOK, Owing, Sending, work.todo # <<>>, Head(work.todo).by = "run"
  PROVE  Said(Head(work.todo))
<1>1. Head(work.todo) \in SaidBy(Reading)
  BY FirstToDo DEF Owing, TypeOK
<1>2. Head(work.todo).of = Reading
  BY <1>1 DEF SaidBy, Piece
<1> QED BY <1>1, <1>2 DEF Said

LEMMA SlotsToldStep ==
  TypeOK /\ Held /\ Numbered /\ SentOnce /\ Owing /\ SlotsTold /\ [Next]_vars => SlotsTold'
<1> SUFFICES ASSUME TypeOK, Held, Numbered, SentOnce, Owing, SlotsTold, [Next]_vars,
                    NEW p \in Pieces, Said(p)', SlotOf(p)' \in slots'
             PROVE  Told(p)' \/ (work'.at = "sending" /\ Head(work'.todo) = p)
  BY DEF SlotsTold
<1> USE DEF outside, jobs, store, person, turns, bounds
<1>1. Said(p) /\ SlotOf(p)' = SlotOf(p)
  BY ScriptStays DEF Said, SaidBy, SlotOf, Number
<1>2. SlotOf(p) \in slots => Told(p) \/ (work.at = "sending" /\ Head(work.todo) = p)
  BY <1>1 DEF SlotsTold
<1>3. Told(p) => Told(p)'
  BY ToldStays
<1>4. CASE Around
  BY <1>1, <1>2, <1>3, <1>4, AroundTheWorker
<1>5. CASE Crash
  <2>1. work.at = "sending" => line # <<>>
    BY DEF Held
  <2> QED BY <1>1, <1>2, <1>3, <1>5, <2>1 DEF Crash, At, Told
<1>6. CASE TakeSlot
  <2>1. work.at = "send" /\ Sending
    BY <1>6 DEF TakeSlot, At, Sending
  <2>2. CASE slots' = slots
    BY <1>1, <1>2, <1>3, <2>1, <2>2
  <2>3. CASE work.todo # <<>> /\ slots' = slots \cup {Slot} /\ Goes("sending")
    <3>1. work'.at = "sending" /\ work'.todo = work.todo
      BY <2>3 DEF Goes, TypeOK, Works
    <3>2. SlotOf(Head(work.todo)) = Slot /\ Head(work.todo) \in Pieces
      BY <2>1, <2>3, InHand, FirstToDo DEF TypeOK
    <3>3. SlotOf(p) = Slot => p = Head(work.todo)
      BY <1>1, <2>1, <2>3, <3>2, OneNumberEach, FirstSaid
    <3> QED BY <1>1, <1>2, <1>3, <2>1, <2>3, <3>1, <3>3
  <2> QED BY <1>6, <2>2, <2>3 DEF TakeSlot
<1>7. CASE Send
  <2>1. /\ work.at = "sending" /\ Sending /\ work.todo # <<>>
        /\ SlotOf(Head(work.todo)) = Slot /\ Head(work.todo) \in Pieces
    BY <1>7, InHand, FirstToDo DEF Send, At, Sending, Held, TypeOK
  <2>2. sent \in [Pieces -> Nat]
    BY DEF TypeOK
  <2>3. CASE sent' = [sent EXCEPT ![Head(work.todo)] = sent[Head(work.todo)] + 1] /\ UNCHANGED slots
    <3>1. sent'[Head(work.todo)] > 0
      BY <2>1, <2>2, <2>3, Counted
    <3> QED BY <1>1, <1>2, <1>3, <2>3, <3>1 DEF Told
  <2>4. CASE slots' = slots \ {Slot}
    BY <1>1, <1>2, <1>3, <2>1, <2>4
  <2>5. CASE torn' = torn \cup {Head(work.todo)} /\ UNCHANGED slots
    BY <1>1, <1>2, <1>3, <2>5 DEF Told
  <2> QED BY <1>7, <2>3, <2>4, <2>5 DEF Send
<1>8. CASE Handling /\ ~ (TakeSlot \/ Send)
  <2>1. UNCHANGED slots /\ work.at # "sending"
    BY <1>8 DEF Handling, Begin, Look, Answer, AskNext, Settle, Mark, Tell, Clear, Claim, Start,
                Done, Read, Post, Arm, Follow, ReadOut, Fails, Calling, At
  <2> QED BY <1>1, <1>2, <1>3, <2>1
<1> QED BY <1>4, <1>5, <1>6, <1>7, <1>8 DEF Next, Around

LEMMA OutcomeMoves ==
  ASSUME [Next]_vars
  PROVE  \/ outcome' = outcome
         \/ /\ Handling
            /\ \E o \in Outcomes : /\ outcome' = [outcome EXCEPT ![Job] = o]
                                   /\ o = "replied" => ReadOut /\ At("read_out")
<1> USE DEF outside, jobs, store, person, turns, bounds
<1>e. Errs => \/ outcome' = outcome
              \/ \E o \in Outcomes : o # "replied" /\ outcome' = [outcome EXCEPT ![Job] = o]
  BY DEF Errs, Ends, Outcomes
<1>1. CASE Around \/ Crash
  BY <1>1 DEF Around, vars, Webhook, Take, Enqueue, Timeout, TimerFails, Expire, ExpireMark,
              ExpireLook, ExpireDrop, Skip, Resume, AnswerElsewhere, Crash
<1>2. CASE Begin \/ Look \/ Answer \/ AskNext \/ Settle \/ Mark \/ Clear \/ Read \/ Post \/ TakeSlot
  BY <1>2 DEF Begin, Look, Answer, AskNext, Settle, Mark, Clear, Read, Post, TakeSlot
<1>3. CASE Tell \/ Start \/ Arm \/ Send \/ Fails
  BY <1>3, <1>e DEF Tell, Start, Arm, Send, Fails, Ends, Outcomes, Handling
<1>4. CASE Claim \/ Done \/ Follow \/ ReadOut
  BY <1>4 DEF Claim, Done, Follow, ReadOut, Ends, Outcomes, Handling
<1> QED BY <1>1, <1>2, <1>3, <1>4 DEF Next, Around, Handling

LEMMA RepliesStep ==
  TypeOK /\ Held /\ Starting /\ Numbered /\ SentOnce /\ Whole /\ [Next]_vars => Replies'
<1> SUFFICES ASSUME TypeOK, Held, Starting, Numbered, SentOnce, Whole, [Next]_vars
             PROVE  Replies'
  OBVIOUS
<1> USE DEF Whole
<1>1. outcome' \in [Jobs -> Outcomes]
  BY OutcomeMoves DEF Replies
<1>2. ASSUME NEW j \in Jobs, outcome'[j] = "replied"
      PROVE  /\ ReadBy(j)' = ReadBy(j) /\ ReadBy(j) \in Message
             /\ \A p \in SaidBy(ReadBy(j)) \ Stopped(ReadBy(j)) : Told(p)
  <2>1. CASE outcome[j] = "replied"
    <3>1. ReadBy(j) \in Message /\ j.of \in Message
      BY <2>1 DEF Replies, Jobs
    <3>2. ReadBy(j)' = ReadBy(j)
      BY <3>1, KeyStays DEF ReadBy
    <3> QED BY <2>1, <3>1, <3>2 DEF Replies, WholeReply, Told
  <2>2. CASE outcome[j] # "replied"
    <3>1. ReadOut /\ At("read_out") /\ j = Job
      BY <1>2, <2>2, OutcomeMoves DEF Replies
    <3>2. work.at = "read_out" /\ Reading \in Message /\ UNCHANGED key
      BY <3>1 DEF ReadOut, At, Held, Reads, store
    <3>3. ReadBy(j) = Reading /\ ReadBy(j)' = ReadBy(j)
      BY <3>1, <3>2 DEF ReadBy, Reading
    <3>4. ToDo = {} /\ Due(Place) = SaidBy(Reading) \ Stopped(Reading)
      BY <3>2 DEF ToDo, Sending, Place, Due
    <3> QED BY <3>2, <3>3, <3>4 DEF Owing
  <2> QED BY <2>1, <2>2
<1>3. ASSUME NEW j \in Jobs, outcome'[j] = "replied"
      PROVE  /\ ReadBy(j)' \in Message
             /\ \A p \in (SaidBy(ReadBy(j)) \ Stopped(ReadBy(j)))' : Told(p)'
  <2>1. PICK r \in Message : r = ReadBy(j) /\ r = ReadBy(j)'
    BY <1>2, <1>3
  <2>2. SaidBy(r)' \ Stopped(r)' \subseteq SaidBy(r) \ Stopped(r)
    BY StopStays
  <2>3. (SaidBy(ReadBy(j)) \ Stopped(ReadBy(j)))' = SaidBy(r)' \ Stopped(r)'
    BY <2>1 DEF SaidBy, Stopped
  <2>4. \A p \in SaidBy(r) \ Stopped(r) : Told(p)'
    BY <1>2, <1>3, <2>1, SaidPieces, ToldStays
  <2> QED BY <2>1, <2>2, <2>3, <2>4
<1> QED BY <1>1, <1>3 DEF Replies, WholeReply, Told

(* What is due at a place of a read stays due, or is less. *)
LEMMA DueStays ==
  ASSUME TypeOK, Held, Starting, Unstarted, [Next]_vars, Place' = Place, Reading' = Reading
  PROVE  Due(Place)' \subseteq Due(Place)
<1>1. CASE Place = "read_out"
  <2>1. Reading \in Message
    BY <1>1 DEF Place, Held, Reads
  <2>2. SaidBy(Reading)' \ Stopped(Reading)' \subseteq SaidBy(Reading) \ Stopped(Reading)
    <3>1. PICK r \in Message : r = Reading /\ r = Reading'
      BY <2>1
    <3>2. /\ SaidBy(Reading)' = SaidBy(r)' /\ Stopped(Reading)' = Stopped(r)'
          /\ SaidBy(Reading) = SaidBy(r) /\ Stopped(Reading) = Stopped(r)
      BY <3>1 DEF SaidBy, Stopped
    <3> QED BY <3>2, StopStays
  <2> QED BY <1>1, <2>2 DEF Due
<1>2. CASE Place # "read_out"
  BY <1>2 DEF Due, AskedWith
<1> QED BY <1>1, <1>2

LEMMA DuePieces ==
  ASSUME TypeOK, Held, Owing, NEW p \in Due(Place)
  PROVE  p \in Pieces /\ Said(p)
<1>1. Place \in {"follow", "read_out"} /\ Reading \in Message
  BY DEF Due, Place, Held, Reads
<1>2. CASE Place = "follow"
  <2>1. p \in AskedWith(Reading) /\ script.questions[Reading] # 0
    BY <1>2 DEF Due, Owing
  <2> QED BY <1>1, <2>1, SaidPieces
<1>3. CASE Place = "read_out"
  BY <1>1, <1>3, SaidPieces DEF Due
<1> QED BY <1>1, <1>2, <1>3

(* The sends that begin are what the run is to say next. *)
LEMMA OwingSends ==
  ASSUME work \in Works, NEW ps \in Seq(Pieces), NEW place, Sends(ps, place),
         UNCHANGED <<script, line, key>>,
         place \in {"post", "follow"} => script.questions[Reading] # 0,
         \A i \in 1 .. Len(ps) : ps[i].by = "run" => ps[i] \in SaidBy(Reading),
         \A p \in Due(place)' : Told(p)' \/ \E i \in 1 .. Len(ps) : p = ps[i]
  PROVE  Owing'
<1>1. work'.at = "send" /\ work'.todo = ps /\ work'.then = place
  BY DEF Sends, Works
<1>2. Place' = place /\ ToDo' = {ps[i] : i \in 1 .. Len(ps)}
  BY <1>1 DEF Place, ToDo, Sending
<1>3. Reading' = Reading /\ SaidBy(Reading)' = SaidBy(Reading)
  BY DEF Reading, Job, SaidBy
<1>4. Due(Place)' = Due(place)'
  BY <1>2 DEF Due
<1> QED BY <1>2, <1>3, <1>4 DEF Owing

(* A piece is passed when it was told. *)
LEMMA OwingNext ==
  ASSUME TypeOK, Held, Starting, Numbered, SentOnce, Unstarted, Owing, [Next]_vars,
         work.todo # <<>>, Sending, work' = NextPiece, UNCHANGED <<line, key>>,
         NEW h \in Pieces, h = Head(work.todo), h \in Due(Place) => Told(h)'
  PROVE  Owing'
<1>w. work \in Works /\ UNCHANGED script
  BY ScriptStays DEF TypeOK
<1>1. work'.at = "send" /\ work'.todo = Tail(work.todo) /\ work'.then = work.then
  BY <1>w DEF NextPiece, Works
<1>2. Place' = Place /\ ToDo' = {Tail(work.todo)[i] : i \in 1 .. Len(Tail(work.todo))}
  BY <1>1 DEF Place, ToDo, Sending
<1>3. Reading' = Reading /\ SaidBy(Reading)' = SaidBy(Reading)
  BY <1>w DEF Reading, Job, SaidBy
<1>4. ToDo = {Head(work.todo)} \cup ToDo'
  BY <1>w, <1>2, FirstToDo
<1>5. Due(Place)' \subseteq Due(Place)
  BY <1>2, <1>3, DueStays
<1>6. ASSUME NEW p \in Due(Place)' PROVE Told(p)' \/ p \in ToDo'
  <2>1. p \in Due(Place) /\ p \in Pieces
    BY <1>5, DuePieces
  <2>2. Told(p) \/ p \in ToDo
    BY <2>1 DEF Owing
  <2> QED BY <1>4, <2>1, <2>2, ToldStays
<1> QED BY <1>w, <1>2, <1>3, <1>4, <1>6 DEF Owing

(* What stays where it was owes what it owed. *)
LEMMA OwingStays ==
  ASSUME TypeOK, Held, Starting, Numbered, SentOnce, Unstarted, Owing, [Next]_vars,
         Place' = Place, Reading' = Reading, ToDo' = ToDo
  PROVE  Owing'
<1>1. UNCHANGED script
  BY ScriptStays
<1>2. SaidBy(Reading)' = SaidBy(Reading)
  BY <1>1 DEF SaidBy
<1>3. Due(Place)' \subseteq Due(Place)
  BY DueStays
<1>4. ASSUME NEW p \in Due(Place)' PROVE Told(p)' \/ p \in ToDo'
  <2>1. p \in Due(Place) /\ p \in Pieces
    BY <1>3, DuePieces
  <2> QED BY <2>1, ToldStays DEF Owing
<1> QED BY <1>1, <1>2, <1>4 DEF Owing

LEMMA OwingStep ==
  TypeOK /\ Held /\ Starting /\ Numbered /\ SentOnce /\ Whole /\ [Next]_vars => Owing'
<1> SUFFICES ASSUME TypeOK, Held, Starting, Numbered, SentOnce, Whole, [Next]_vars
             PROVE  Owing'
  OBVIOUS
<1> USE DEF outside, jobs, store, person, turns, bounds, Whole
<1>w. work \in Works /\ UNCHANGED script
  BY ScriptStays DEF TypeOK
<1>z. work'.at \in Places \ {"post", "follow", "read_out", "send", "sending"} => Owing'
  BY DEF Owing, Place, ToDo, Sending, Due
<1>r. work' \in {Idle, Restart("act"), Restart("read")} => Owing'
  BY <1>z DEF Idle, Restart, Places
<1>e. Errs => Owing'
  BY <1>r DEF Errs, Ends, Phase
<1>n. \A o : Ends(o) => Owing'
  BY <1>r DEF Ends
<1>g. \A p : Goes(p) => work'.at = p
  BY <1>w DEF Goes, Works
<1>1. CASE Around
  <2>1. UNCHANGED work /\ (line # <<>> => Job' = Job) /\ UNCHANGED key
    BY <1>1, AroundTheWorker
  <2>2. CASE line = <<>>
    BY <2>1, <2>2, <1>z DEF Held, Places
  <2>3. CASE line # <<>>
    <3>1. Place' = Place /\ ToDo' = ToDo /\ Reading' = Reading
      BY <2>1, <2>3 DEF Place, ToDo, Sending, Reading
    <3> QED BY <3>1, OwingStays
  <2> QED BY <2>2, <2>3
<1>2. CASE Crash
  BY <1>2, <1>r DEF Crash
<1>3. CASE Handling
  <2>j. line # <<>> /\ Job.of \in Message
    BY <1>3, Handled, JobType DEF TypeOK
  <2>q. work.at \in Reads => Reading \in Message /\ Place = work.at /\ ToDo = {}
    BY DEF Held, Reads, Place, Sending, ToDo
  <2>1. CASE Begin \/ Look \/ Settle \/ Mark \/ Tell \/ Clear
    <3>1. Begin => Owing'
      BY <1>r DEF Begin, Phase
    <3>2. Look => Owing'
      <4>1. CASE Look /\ question = NoQuestion
        BY <4>1, <1>g, <1>z DEF Look, Places
      <4>2. CASE Look /\ question # NoQuestion
        <5>1. work'.at \in {"asked", "answer"}
          BY <4>2, <1>w DEF Look, Works
        <5> QED BY <5>1, <1>z DEF Places
      <4> QED BY <4>1, <4>2
    <3>3. Settle \/ Mark \/ Clear => Owing'
      BY <1>g, <1>z DEF Settle, Mark, Clear, Places
    <3>4. Tell => Owing'
      BY <1>g, <1>z, <1>e, <1>n DEF Tell, Places
    <3> QED BY <2>1, <3>1, <3>2, <3>3, <3>4
  <2>2. CASE Claim \/ Start \/ Done \/ Arm \/ ReadOut \/ Fails
    <3>1. Claim \/ Arm \/ ReadOut \/ Fails => Owing'
      BY <1>g, <1>z, <1>e, <1>n DEF Claim, Arm, ReadOut, Fails, Places
    <3>2. Start => Owing'
      BY <1>w, <1>z, <1>e DEF Start, Works, Places
    <3>3. Done => Owing'
      BY <1>r, <1>n DEF Done
    <3> QED BY <2>2, <3>1, <3>2, <3>3
  <2>3. CASE Answer \/ AskNext
    <3>1. UNCHANGED <<line, key>>
      BY <2>3 DEF Answer, AskNext
    <3>2. \A p : Goes(p) /\ p \in {"nothing", "settle"} => Owing'
      BY <1>g, <1>z DEF Places
    <3>3. \A r : work' = [work EXCEPT !.at = "asked", !.got = r] => Owing'
      BY <1>w, <1>z DEF Works, Places
    <3>4. ASSUME NEW ps \in {<<Piece("message", Job.of, "unclear"), Piece("message", Job.of, "again")>>,
                             <<Piece("message", Job.of, "next")>>},
                 Sends(ps, "nothing")
          PROVE  Owing'
      <4>1. ps \in Seq(Pieces)
        BY <2>j, ThingsToSay
      <4>2. \A i \in 1 .. Len(ps) : ps[i].by = "message"
        BY DEF Piece
      <4>3. Due("nothing")' = {}
        BY DEF Due
      <4> HIDE <3>4
      <4> QED BY <3>1, <3>4, <4>1, <4>2, <4>3, <1>w, OwingSends
    <3>5. Answer => Owing'
      BY <3>2, <3>3, <3>4 DEF Answer
    <3>6. AskNext => Owing'
      BY <3>2, <3>4 DEF AskNext
    <3> QED BY <2>3, <3>5, <3>6
  <2>4. CASE Read
    <3>1. UNCHANGED <<line, key, run>> /\ Reading \in Message /\ Reading' = Reading
      BY <2>4, <2>q DEF Read, At, Reads, Reading, Job
    <3>2. CASE script.questions[Reading] = 0 /\ Sends(<<Piece("run", Reading, "rest")>>, "read_out")
      <4> DEFINE ps == <<Piece("run", Reading, "rest")>>
      <4>1. ps \in Seq(Pieces) /\ Len(ps) = 1 /\ ps[1] = Piece("run", Reading, "rest")
        BY <3>1, ThingsToSay
      <4>2. SaidBy(Reading) = {Piece("run", Reading, "rest")}
        BY <3>1, <3>2, SaidPieces
      <4>3. Due("read_out")' \subseteq {Piece("run", Reading, "rest")}
        BY <3>1, <4>2, <1>w DEF Due, SaidBy
      <4> HIDE DEF ps
      <4>4. Sends(ps, "read_out")
        BY <3>2 DEF ps
      <4> QED BY <3>1, <4>1, <4>2, <4>3, <4>4, <1>w, OwingSends
    <3>3. CASE script.questions[Reading] # 0 /\ Sends(Opening(Reading), "follow")
      <4> DEFINE ps == Opening(Reading)
      <4>1. /\ ps \in Seq(Pieces) /\ Len(ps) = 2
            /\ ps[1] = Piece("run", Reading, "opening") /\ ps[2] = Piece("run", Reading, "question")
        BY <3>1, ThingsToSay DEF Opening
      <4>2. AskedWith(Reading) \subseteq SaidBy(Reading)
        BY <3>1, <3>3, SaidPieces
      <4>3. Due("follow")' = AskedWith(Reading)
        BY <3>1 DEF Due, AskedWith
      <4> HIDE DEF ps
      <4>4. Sends(ps, "follow")
        BY <3>3 DEF ps
      <4>5. \A p \in Due("follow")' : \E i \in 1 .. Len(ps) : p = ps[i]
        BY <4>1, <4>3 DEF AskedWith
      <4>6. \A i \in 1 .. Len(ps) : ps[i] \in SaidBy(Reading)
        BY <4>1, <4>2 DEF AskedWith
      <4> QED BY <3>1, <3>3, <4>1, <4>4, <4>5, <4>6, <1>w, OwingSends
    <3>4. CASE script.questions[Reading] # 0 /\ Sends(<<Piece("run", Reading, "opening")>>, "post")
      <4> DEFINE ps == <<Piece("run", Reading, "opening")>>
      <4>1. ps \in Seq(Pieces) /\ Len(ps) = 1 /\ ps[1] = Piece("run", Reading, "opening")
        BY <3>1, ThingsToSay
      <4>2. AskedWith(Reading) \subseteq SaidBy(Reading)
        BY <3>1, <3>4, SaidPieces
      <4>3. Due("post")' = {}
        BY DEF Due
      <4> HIDE DEF ps
      <4>4. Sends(ps, "post")
        BY <3>4 DEF ps
      <4> QED BY <3>1, <3>4, <4>1, <4>2, <4>3, <4>4, <1>w, OwingSends DEF AskedWith
    <3> QED BY <2>4, <3>2, <3>3, <3>4 DEF Read
  <2>5. CASE Post
    <3>1. /\ UNCHANGED <<line, key>> /\ Reading \in Message /\ script.questions[Reading] # 0
          /\ Sends(<<Piece("run", Reading, "question")>>, "arm")
      BY <2>5, <2>q DEF Post, At, Reads, Owing
    <3> DEFINE ps == <<Piece("run", Reading, "question")>>
    <3>2. ps \in Seq(Pieces) /\ Len(ps) = 1 /\ ps[1] = Piece("run", Reading, "question")
      BY <3>1, ThingsToSay
    <3>3. AskedWith(Reading) \subseteq SaidBy(Reading)
      BY <3>1, SaidPieces
    <3>4. Due("arm")' = {}
      BY DEF Due
    <3> HIDE DEF ps
    <3>5. Sends(ps, "arm")
      BY <3>1 DEF ps
    <3> QED BY <3>1, <3>2, <3>3, <3>4, <3>5, <1>w, OwingSends DEF AskedWith
  <2>6. CASE Follow
    <3>1. /\ Reading \in Message /\ script.questions[Reading] # 0
          /\ \A p \in AskedWith(Reading) : Told(p)
      BY <2>6, <2>q DEF Follow, At, Reads, Owing, Due
    <3>2. CASE Ends("timeout")
      BY <3>2, <1>n
    <3>3. CASE /\ UNCHANGED <<line, run, key>>
               /\ Sends(IF run[Reading] = "stopped" THEN <<>> ELSE <<Piece("run", Reading, "rest")>>,
                        "read_out")
      <4> DEFINE rest == Piece("run", Reading, "rest")
                 ps == IF run[Reading] = "stopped" THEN <<>> ELSE <<rest>>
      <4>1. /\ ps \in Seq(Pieces)
            /\ \A i \in 1 .. Len(ps) : ps[i] = rest
            /\ run[Reading] # "stopped" => Len(ps) = 1 /\ ps[1] = rest
        BY <3>1, ThingsToSay
      <4>2. SaidBy(Reading) = AskedWith(Reading) \cup {rest} /\ AskedWith(Reading) \subseteq Pieces
        BY <3>1, SaidPieces
      <4>3. Reading' = Reading /\ SaidBy(Reading)' = SaidBy(Reading)
        BY <3>3, <1>w DEF Reading, Job, SaidBy
      <4>4. Due("read_out")' = SaidBy(Reading) \ Stopped(Reading)
        BY <3>3, <4>3 DEF Due, Stopped
      <4>5. \A p \in AskedWith(Reading) : Told(p)'
        BY <3>1, <4>2, ToldStays
      <4>6. run[Reading] = "stopped" => Stopped(Reading) = {rest}
        BY DEF Stopped
      <4> HIDE DEF ps
      <4>7. Sends(ps, "read_out")
        BY <3>3 DEF ps
      <4>8. \A p \in Due("read_out")' : Told(p)' \/ \E i \in 1 .. Len(ps) : p = ps[i]
        BY <4>1, <4>2, <4>4, <4>5, <4>6
      <4> QED BY <3>3, <4>1, <4>2, <4>7, <4>8, <1>w, OwingSends
    <3> QED BY <2>6, <3>2, <3>3 DEF Follow
  <2>7. CASE TakeSlot
    <3>1. /\ UNCHANGED <<line, key>> /\ work.at = "send" /\ Sending /\ Reading' = Reading
          /\ work.then \in (Reads \ {"read"}) \cup {"nothing"}
      BY <2>7 DEF TakeSlot, At, Reading, Job, Sending, Held
    <3>2. CASE work.todo = <<>> /\ Goes(work.then)
      <4>1. work'.at = work.then
        BY <3>2, <1>g
      <4>2. Place' = Place /\ ToDo' = {}
        BY <3>1, <4>1 DEF Place, ToDo, Sending, Reads
      <4>3. ToDo = {}
        BY <3>2 DEF ToDo
      <4> QED BY <3>1, <4>2, <4>3, OwingStays
    <3>3. CASE work.todo # <<>> /\ Slot \in slots /\ work' = NextPiece
      <4>1. PICK h \in Pieces : h = Head(work.todo)
        BY <3>1, <3>3, <1>w, FirstToDo
      <4>2. ASSUME h \in Due(Place) PROVE Told(h)'
        <5>1. Said(h) /\ SlotOf(h) = Slot
          BY <3>1, <3>3, <4>1, <4>2, <1>w, DuePieces, InHand
        <5>2. Told(h)
          BY <3>1, <3>3, <5>1 DEF SlotsTold
        <5> QED BY <5>2, ToldStays
      <4> QED BY <3>1, <3>3, <4>1, <4>2, OwingNext
    <3>4. CASE Goes("sending")
      <4>1. work'.at = "sending" /\ work'.todo = work.todo /\ work'.then = work.then
        BY <3>4, <1>w DEF Goes, Works
      <4>2. Place' = Place /\ ToDo' = ToDo
        BY <3>1, <4>1 DEF Place, ToDo, Sending
      <4> QED BY <3>1, <4>2, OwingStays
    <3> QED BY <2>7, <3>2, <3>3, <3>4 DEF TakeSlot
  <2>8. CASE Send
    <3>1. work.at = "sending" /\ Sending /\ work.todo # <<>> /\ UNCHANGED key
      BY <2>8 DEF Send, At, Sending, Held
    <3>2. CASE /\ sent' = [sent EXCEPT ![Head(work.todo)] = sent[Head(work.todo)] + 1]
               /\ work' = NextPiece /\ UNCHANGED line
      <4>1. PICK h \in Pieces : h = Head(work.todo)
        BY <3>1, <1>w, FirstToDo
      <4>2. sent \in [Pieces -> Nat]
        BY DEF TypeOK
      <4>3. Told(h)'
        <5>1. sent'[h] > 0
          BY <3>2, <4>1, <4>2, Counted
        <5> QED BY <5>1 DEF Told
      <4> QED BY <3>1, <3>2, <4>1, <4>3, OwingNext
    <3> QED BY <2>8, <3>2, <1>e DEF Send
  <2> QED BY <1>3, <2>1, <2>2, <2>3, <2>4, <2>5, <2>6, <2>7, <2>8 DEF Handling
<1> QED BY <1>1, <1>2, <1>3 DEF Next, Around

(* What a read that ended as replied had to say was all sent, but for the   *)
(* sends that were cut short with their number taken, by an end of the     *)
(* process or by an error that kept it: a piece is passed over only when   *)
(* its number is taken, and the number is taken by the one who sends.      *)
THEOREM ReplyIsWhole == Spec => []WholeReply
<1>1. Inv /\ Whole /\ [Next]_vars => Inv' /\ Whole'
  <2>1. Inv /\ [Next]_vars => Inv'
    BY TypeStep, HeldStep, StartingStep, SettlingStep, NumberedStep DEF Inv
  <2> QED BY <2>1, UnstartedStep, ActingStep, SlotsToldStep, OwingStep, RepliesStep DEF Inv, Whole
<1>2. Whole => WholeReply
  BY DEF Whole, Replies
<1> QED BY InitHolds, InitWhole, <1>1, <1>2, PTL DEF Spec
=============================================================================
