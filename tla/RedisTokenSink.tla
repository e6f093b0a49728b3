--------------------------- MODULE RedisTokenSink ---------------------------
(***************************************************************************)
(* RedisTokenStreamSink: the stream of a run in a Redis list, its terminal *)
(* in a key beside it, and a channel whose messages wake the readers.      *)
(* Text is gathered while the sends before it are on the wire: a send      *)
(* takes what is gathered when it starts.  Every command is a step of its  *)
(* own, any of them may be refused, and a message may be lost.             *)
(***************************************************************************)
EXTENDS StreamRun

CONSTANT Faulty   \* which sends Redis may refuse: "text", "call"

VARIABLES chunks,   \* the list <prefix>:<run>:chunks
          terminal, \* the key <prefix>:<run>:state
          sub       \* per reader, where its subscribe() is

redisVars == <<chunks, terminal, sub>>

Nobody == "tail"
None == "none"

RunWrites == [text |-> <<>>, flushQueued |-> FALSE, queue |-> <<>>, failure |-> FALSE]

(* index: chunks read; woken: the armed wake has been resolved; check:     *)
(* checkTerminal; silent, gone, found: as in the code; saw: the last drain *)
(* read a chunk.                                                           *)
Attached == [at |-> "drain", index |-> 0, woken |-> FALSE, check |-> TRUE,
             silent |-> FALSE, gone |-> FALSE, saw |-> FALSE, found |-> None]

RedisInit ==
  /\ StreamInit(RunWrites)
  /\ chunks = <<>>
  /\ terminal = None
  /\ sub = [r \in Reader |-> Attached]

Send(kind, frames, by, call) ==
  [kind |-> kind, frames |-> frames, by |-> by, call |-> call,
   step |-> "queued", parts |-> <<>>]
TextSend == Send("text", <<>>, Nobody, "text")

(* queueText: a send of the gathered text, unless one waits to start. *)
QueueText(write) ==
  IF write.flushQueued THEN write
  ELSE [write EXCEPT !.flushQueued = TRUE, !.queue = Append(@, TextSend)]

(* raiseFailure, before a write, an end or a fail is queued. *)
RaiseFirst(a) ==
  /\ w[home[a]].failure
  /\ \/ MayWrite(a) /\ Settles(a, "text", FALSE)
     \/ MayClose(a) /\ Closing(a) # "flush" /\ Settles(a, Closing(a), FALSE)
  /\ w' = [w EXCEPT ![home[a]].failure = FALSE]
  /\ missed' = [missed EXCEPT ![home[a]] = {}]
  /\ UNCHANGED <<home, clock, stream, over, got, reader, crashes, faults, redisVars>>

WriteText(a) ==
  LET gathered == [w[home[a]] EXCEPT !.text = Append(@, NextFrame(a))]
  IN  /\ MayWrite(a) /\ ~w[home[a]].failure
      /\ w' = [w EXCEPT ![home[a]] = QueueText(gathered)]
      /\ clock' = Counted(a)
      /\ stage' = [stage EXCEPT ![a] = "run"]
      /\ UNCHANGED <<home, refused, missed, stream, over, got, reader, crashes, faults, redisVars>>

WriteFrame(a) ==
  /\ MayWrite(a) /\ ~w[home[a]].failure
  /\ w' = [w EXCEPT ![home[a]].queue =
             Append(@, Send("frame", <<NextFrame(a)>>, a, "write"))]
  /\ clock' = Counted(a)
  /\ stage' = [stage EXCEPT ![a] = "write"]
  /\ UNCHANGED <<home, refused, missed, stream, over, got, reader, crashes, faults, redisVars>>

Close(a) ==
  LET call   == Closing(a)
      write  == w[home[a]]
      queued == IF call = "flush" THEN QueueText(write) ELSE write
      closed == [queued EXCEPT !.queue = Append(@, Send(call, <<>>, a, call))]
  IN  /\ MayClose(a)
      /\ call # "flush" => ~write.failure
      /\ w' = [w EXCEPT ![home[a]] = closed]
      /\ stage' = [stage EXCEPT ![a] = call]
      /\ UNCHANGED <<home, clock, refused, missed, stream, over, got, reader, crashes, faults, redisVars>>

(***************************************************************************)
(* The tail: one send at a time, command by command.                       *)
(***************************************************************************)
Sending(p) == w[p].queue[1]
At(p, step) == w[p].queue # <<>> /\ Sending(p).step = step

(* The send is over: the call awaiting it settles and raises a failure it  *)
(* finds; a send nobody awaits leaves its failure to the next call.        *)
Attempted(p, ok) ==
  LET send    == Sending(p)
      awaited == send.by # Nobody /\ stage[send.by] = send.call
      raises  == awaited /\ ok /\ w[p].failure
  IN  /\ w' = [w EXCEPT ![p].queue = Tail(@),
                        ![p].failure = IF raises THEN FALSE
                                       ELSE @ \/ (send.by = Nobody /\ ~ok)]
      /\ missed' = [missed EXCEPT ![p] =
                      IF raises THEN {}
                      ELSE IF send.by = Nobody /\ ~ok THEN @ \cup UNION {ToSet(part) : part \in ToSet(send.parts)}
                      ELSE @]
      /\ IF awaited THEN Settles(send.by, send.call, ok /\ ~raises)
                    ELSE UNCHANGED <<stage, refused>>
      /\ UNCHANGED <<home, clock>>

(* A text send that starts makes room for the next one. *)
StaysQueued(p) == w[p].flushQueued   \* mutant: the flag is never reset
StillQueued(p) == w[p].flushQueued /\ Sending(p).kind # "text"

Part(frames) == IF frames = <<>> THEN <<>> ELSE <<frames>>

(* The send starts: it takes the gathered text as its first chunk.  A      *)
(* flush() sends nothing of its own: it has seen the tail settle.          *)
Start(p) ==
  /\ At(p, "queued") /\ Sending(p).kind # "flush"
  /\ LET send  == Sending(p)
         parts == Part(w[p].text) \o Part(send.frames)
         step  == IF parts # <<>> THEN "push" ELSE IF send.kind = "text" THEN "over" ELSE "set"
     IN  w' = [w EXCEPT ![p].text = <<>>,
                        ![p].flushQueued = StillQueued(p),
                        ![p].queue[1].step = step,
                        ![p].queue[1].parts = parts]
  /\ UNCHANGED <<writerVars, missed, stream, over, got, reader, crashes, faults, redisVars>>

Done(p) ==
  /\ At(p, "over") \/ (At(p, "queued") /\ Sending(p).kind = "flush")
  /\ Attempted(p, TRUE)
  /\ UNCHANGED <<stream, over, got, reader, crashes, faults, redisVars>>

Push(p) ==
  /\ At(p, "push")
  /\ LET send == Sending(p)
         left == Tail(send.parts)
     IN  /\ chunks' = Append(chunks, Head(send.parts))
         /\ stream' = stream \o Head(send.parts)
         /\ w' = [w EXCEPT ![p].queue[1].parts = left,
                           ![p].queue[1].step =
                             IF left # <<>> THEN "push"
                             ELSE IF send.kind \in {"end", "fail"} THEN "set" ELSE "publish"]
  /\ UNCHANGED <<writerVars, missed, over, got, reader, crashes, faults, terminal, sub>>

SetTerminal(p) ==
  /\ At(p, "set")
  /\ terminal' = Sending(p).kind
  /\ over' = terminal'
  /\ w' = [w EXCEPT ![p].queue[1].step = "publish"]
  /\ UNCHANGED <<writerVars, missed, stream, got, reader, crashes, faults, chunks, sub>>

(* The message reaches every reader attached, but for the lost ones. *)
Woken(p, lost) ==
  [r \in Reader |->
     IF reader[r] # "following" \/ r \in lost THEN sub[r]
     ELSE [sub[r] EXCEPT !.woken = TRUE,
                         !.check = @ \/ Sending(p).kind \in {"end", "fail"}]]

Publish(p) ==
  /\ At(p, "publish")
  /\ \E lost \in SUBSET {r \in Reader : reader[r] = "following"} :
       /\ faults + Cardinality(lost) <= MaxFaults
       /\ faults' = faults + Cardinality(lost)
       /\ sub' = Woken(p, lost)
  /\ Attempted(p, TRUE)
  /\ UNCHANGED <<stream, over, got, reader, crashes, chunks, terminal>>

(* A command of the send is refused: what it pushed stays pushed.  A chunk *)
(* is published while the TTL is armed, so the readers may be woken though *)
(* the send fails; a terminal is published after its TTL.                  *)
Refuse(p) ==
  /\ \E step \in {"push", "set", "publish"} : At(p, step)
  /\ faults < MaxFaults
  /\ (IF Sending(p).kind = "text" THEN "text" ELSE "call") \in Faulty
  /\ faults' = faults + 1
  /\ Attempted(p, FALSE)
  /\ \/ UNCHANGED sub
     \/ At(p, "publish") /\ Sending(p).kind \notin {"end", "fail"} /\ sub' = Woken(p, {})
  /\ UNCHANGED <<stream, over, got, reader, crashes, chunks, terminal>>

(***************************************************************************)
(* A reader's loop.                                                        *)
(***************************************************************************)
Reading(r, at) == reader[r] = "following" /\ sub[r].at = at

(* The channel is subscribed before anything is read; the service attaches *)
(* a reader only to a run whose stream is still there.                     *)
Subscribe(r) ==
  /\ reader[r] = "away"
  /\ (stream = <<>> /\ over = "open") \/ chunks # <<>> \/ terminal # None
  /\ reader' = [reader EXCEPT ![r] = "following"]
  /\ UNCHANGED <<writerVars, w, missed, stream, over, got, crashes, faults, redisVars>>

Unread(r) == SubSeq(chunks, sub[r].index + 1, Len(chunks))

(* The wake is armed before the list is read. *)
Drain(r) ==
  /\ Reading(r, "drain")
  /\ got' = [got EXCEPT ![r] = @ \o FlattenSeq(Unread(r))]
  /\ sub' = [sub EXCEPT ![r].at = "check",
                        ![r].woken = FALSE,
                        ![r].gone  = sub[r].silent,
                        ![r].saw   = Unread(r) # <<>>,
                        ![r].index = @ + Len(Unread(r))]
  /\ UNCHANGED <<writerVars, w, missed, stream, over, reader, crashes, faults, chunks, terminal>>

LooksOnEnd(r) == sub[r].check   \* mutant: a lost wake is never made up for
Looks(r) == sub[r].check \/ sub[r].gone

(* The terminal is read when it can have changed; without one, a reader    *)
(* that heard nothing for a TTL and read nothing now stops following.      *)
Check(r) ==
  /\ Reading(r, "check")
  /\ LET found == Looks(r) /\ terminal # None
         stops == ~found /\ sub[r].gone /\ ~sub[r].saw
     IN  /\ sub' = [sub EXCEPT ![r].check  = FALSE,
                               ![r].found  = IF found THEN terminal ELSE None,
                               ![r].silent = FALSE,
                               ![r].at     = IF found THEN "rest" ELSE "wait"]
         /\ reader' = [reader EXCEPT ![r] = IF stops THEN "gone" ELSE @]
  /\ UNCHANGED <<writerVars, w, missed, stream, over, got, crashes, faults, chunks, terminal>>

(* The chunks pushed before the terminal and after the last drain. *)
Rest(r) ==
  /\ Reading(r, "rest")
  /\ got' = [got EXCEPT ![r] = @ \o FlattenSeq(Unread(r))]
  /\ reader' = [reader EXCEPT ![r] = sub[r].found]
  /\ sub' = [sub EXCEPT ![r] = Attached]
  /\ UNCHANGED <<writerVars, w, missed, stream, over, crashes, faults, chunks, terminal>>

Wake(r) ==
  /\ Reading(r, "wait") /\ sub[r].woken
  /\ sub' = [sub EXCEPT ![r].at = "drain"]
  /\ UNCHANGED <<runVars, chunks, terminal>>

Busy(p) == w[p].queue # <<>> \/ w[p].text # <<>>
Quiet == Settled /\ \A p \in Replica : ~Busy(p)

(* A TTL passed since the reader's last wake with nothing heard: the run   *)
(* is through, or was left.                                                *)
Silence(r) ==
  /\ Reading(r, "wait") /\ ~sub[r].woken /\ Quiet
  /\ sub' = [sub EXCEPT ![r].at = "drain", ![r].silent = TRUE]
  /\ UNCHANGED <<runVars, chunks, terminal>>

(* The keys expire a TTL after the last write, the list, armed first, no   *)
(* later than the terminal.  A reader may be anywhere in its loop: a slow  *)
(* consumer holds its yields, a wake may be lost, and its own TTL is       *)
(* counted from its last drain, not from the writer's last write.          *)
Expire ==
  /\ Quiet
  /\ \/ chunks # <<>> /\ chunks' = <<>> /\ UNCHANGED terminal
     \/ chunks = <<>> /\ terminal # None /\ terminal' = None /\ UNCHANGED chunks
  /\ UNCHANGED <<runVars, sub>>

(* Something of a run that is over is no longer in Redis. *)
Expired == \/ over # "open" /\ terminal = None
           \/ stream # <<>> /\ chunks = <<>>

(* Text that is gathered is never stranded: some send that has not started *)
(* yet, of text or of a call behind it, will take it.                      *)
NothingStranded ==
  \A p \in Replica : w[p].text # <<>>
    => \E i \in DOMAIN w[p].queue : w[p].queue[i].step = "queued" /\ w[p].queue[i].kind # "flush"

RedisSend(p) == Start(p) \/ Done(p) \/ Push(p) \/ SetTerminal(p) \/ Publish(p) \/ Refuse(p)
RedisCall(a) == RaiseFirst(a) \/ WriteText(a) \/ WriteFrame(a) \/ Close(a)
RedisRead(r) == Drain(r) \/ Check(r) \/ Rest(r) \/ Wake(r) \/ Silence(r)

RedisNext ==
  \/ \E a \in Writer : RedisCall(a)
  \/ \E p \in Replica : RedisSend(p)
  \/ \E r \in Reader : Subscribe(r) \/ RedisRead(r)
  \/ (\E a \in Writer : Throw(a)) /\ UNCHANGED redisVars
  \/ (\E c \in Delegate : Begin(c) \/ Join(c)) /\ UNCHANGED redisVars
  \/ (\E p \in Replica : Crash(p, RunWrites)) /\ UNCHANGED redisVars
  \/ Expire
=============================================================================
