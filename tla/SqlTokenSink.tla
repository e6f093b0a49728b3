---------------------------- MODULE SqlTokenSink ----------------------------
(***************************************************************************)
(* SqlTokenStreamSink: the stream of a run in a table.  A replica gathers  *)
(* text and queues each row behind the ones it queued before; the row's    *)
(* number is read and inserted by one statement, which another replica's   *)
(* may beat; a reader polls the rows past its cursor; a purge selects the  *)
(* runs nobody wrote for a TTL and deletes them in a second statement.     *)
(***************************************************************************)
EXTENDS StreamRun

CONSTANTS Attempts,  \* APPEND_ATTEMPTS
          ReadPage,  \* READ_PAGE
          Faulty     \* which sends the database may refuse: "text", "call"

VARIABLES rows,    \* agent_stream_frame: the run's rows; seq is the index
          cursor,  \* per reader, the seq of the last row it read
          lapsed,  \* the run's last row is older than the TTL
          picked   \* a purge has selected the run and not yet deleted it

sqlVars == <<rows, cursor, lapsed, picked>>

Nobody == "timer"
NoStatement == 0   \* the row's statement has not read MAX(seq) yet

RunWrites == [text |-> <<>>, queue |-> <<>>, failure |-> FALSE]

SqlInit ==
  /\ StreamInit(RunWrites)
  /\ rows = <<>>
  /\ cursor = [r \in Reader |-> 0]
  /\ lapsed = FALSE
  /\ picked = FALSE

(* A row to be written; `last` when the call `call` of `by` settles on it. *)
Row(kind, frames, by, call, last) ==
  [kind |-> kind, frames |-> frames, by |-> by, call |-> call, last |-> last,
   seq |-> NoStatement, tries |-> 1]

(* flushText: the gathered text, if any, becomes one queued row. *)
Gathered(p, by, call) ==
  IF w[p].text = <<>> THEN <<>>
  ELSE <<Row("text", w[p].text, by, call, FALSE)>>

(* A call that queues the gathered text and then `row`. *)
EnqueueAhead(p, by, call, row) ==   \* mutant: the frame overtakes the text
  w' = [w EXCEPT ![p].queue = @ \o <<row>> \o Gathered(p, by, call),
                 ![p].text  = <<>>]
Enqueue(p, by, call, row) ==
  w' = [w EXCEPT ![p].queue = @ \o Gathered(p, by, call) \o <<row>>,
                 ![p].text  = <<>>]

(* raiseFailure, at the start of a write: its call is rejected. *)
RaiseFirst(a) ==
  /\ MayWrite(a) /\ w[home[a]].failure
  /\ w' = [w EXCEPT ![home[a]].failure = FALSE]
  /\ missed' = [missed EXCEPT ![home[a]] = {}]
  /\ Settles(a, "text", FALSE)
  /\ UNCHANGED <<home, clock, stream, over, got, reader, crashes, faults, sqlVars>>

WriteText(a) ==
  /\ MayWrite(a) /\ ~w[home[a]].failure
  /\ w' = [w EXCEPT ![home[a]].text = Append(@, NextFrame(a))]
  /\ clock' = Counted(a)
  /\ stage' = [stage EXCEPT ![a] = "run"]
  /\ UNCHANGED <<home, refused, missed, stream, over, got, reader, crashes, faults, sqlVars>>

WriteFrame(a) ==
  /\ MayWrite(a) /\ ~w[home[a]].failure
  /\ Enqueue(home[a], a, "write", Row("frame", <<NextFrame(a)>>, a, "write", TRUE))
  /\ clock' = Counted(a)
  /\ stage' = [stage EXCEPT ![a] = "write"]
  /\ UNCHANGED <<home, refused, missed, stream, over, got, reader, crashes, faults, sqlVars>>

(* end, fail: the terminal row; flush: awaits the tail, writing no row. *)
Close(a) ==
  /\ MayClose(a)
  /\ Enqueue(home[a], a, Closing(a), Row(Closing(a), <<>>, a, Closing(a), TRUE))
  /\ stage' = [stage EXCEPT ![a] = Closing(a)]
  /\ UNCHANGED <<home, clock, refused, missed, stream, over, got, reader, crashes, faults, sqlVars>>

(* The timer set when the first text was gathered. *)
Timer(p) ==
  /\ w[p].text # <<>>
  /\ w' = [w EXCEPT ![p].queue = @ \o Gathered(p, Nobody, "timer"), ![p].text = <<>>]
  /\ UNCHANGED <<writerVars, missed, stream, over, got, reader, crashes, faults, sqlVars>>

(***************************************************************************)
(* The tail: one row at a time.                                            *)
(***************************************************************************)
Next1(p) == w[p].queue[1]

(* What the next call is to raise: a failure of a row nobody awaited. *)
KeepsNothing(p, ok) == w[p].failure   \* mutant: the timer's failure is dropped
Keeps(p, ok) == w[p].failure \/ (Next1(p).by = Nobody /\ ~ok)

(* Next1(p) is written or given up: the call it belongs to may settle, a   *)
(* row nobody awaits leaves its failure to the next call, and a closing    *)
(* call raises a failure it finds.                                         *)
Attempted(p, ok) ==
  LET row     == Next1(p)
      awaited == row.by # Nobody /\ stage[row.by] = row.call
      raises  == awaited /\ ok /\ row.last /\ row.call # "write" /\ w[p].failure
  IN  /\ w' = [w EXCEPT ![p].queue = Tail(@),
                        ![p].failure = ~raises /\ Keeps(p, ok)]
      /\ missed' = [missed EXCEPT ![p] =
                      IF raises THEN {}
                      ELSE IF row.by = Nobody /\ ~ok THEN @ \cup ToSet(row.frames)
                      ELSE @]
      /\ IF awaited /\ (row.last \/ ~ok)
         THEN Settles(row.by, row.call, ok /\ ~raises)
         ELSE UNCHANGED <<stage, refused>>
      /\ UNCHANGED <<home, clock>>

Begun(p) == w[p].queue # <<>> /\ Next1(p).seq # NoStatement

(* flush() has seen the tail settle. *)
Flushed(p) ==
  /\ w[p].queue # <<>> /\ Next1(p).kind = "flush"
  /\ Attempted(p, TRUE)
  /\ UNCHANGED <<stream, over, got, reader, crashes, faults, sqlVars>>

(* INSERT ... SELECT MAX(seq) + 1: what the statement reads, *)
ReadMax(p) ==
  /\ w[p].queue # <<>> /\ Next1(p).kind # "flush" /\ ~Begun(p)
  /\ w' = [w EXCEPT ![p].queue[1].seq = Len(rows) + 1]
  /\ UNCHANGED <<writerVars, missed, stream, over, got, reader, crashes, faults, sqlVars>>

(* and what it inserts, when no other replica took the number meanwhile. *)
Insert(p) ==
  /\ Begun(p) /\ Next1(p).seq = Len(rows) + 1
  /\ LET row  == Next1(p)
         kind == IF row.kind \in {"text", "frame"} THEN "chunk" ELSE row.kind
     IN  /\ rows' = Append(rows, [kind |-> kind, frames |-> row.frames])
         /\ IF over # "open" THEN UNCHANGED <<stream, over>>
            ELSE /\ stream' = stream \o row.frames
                 /\ over' = IF kind = "chunk" THEN over ELSE kind
  /\ lapsed' = FALSE
  /\ Attempted(p, TRUE)
  /\ UNCHANGED <<got, reader, crashes, faults, cursor, picked>>

(* A lost race is retried, up to APPEND_ATTEMPTS. *)
Collide(p) ==
  /\ Begun(p) /\ Next1(p).seq <= Len(rows)
  /\ IF Next1(p).tries < Attempts
     THEN /\ w' = [w EXCEPT ![p].queue[1].seq = NoStatement, ![p].queue[1].tries = @ + 1]
          /\ UNCHANGED <<writerVars, missed>>
     ELSE Attempted(p, FALSE)
  /\ UNCHANGED <<stream, over, got, reader, crashes, faults, sqlVars>>

(* Any other error of the database ends the attempt at once. *)
Refuse(p) ==
  /\ Begun(p) /\ faults < MaxFaults
  /\ (IF Next1(p).kind = "text" THEN "text" ELSE "call") \in Faulty
  /\ faults' = faults + 1
  /\ Attempted(p, FALSE)
  /\ UNCHANGED <<stream, over, got, reader, crashes, sqlVars>>

(***************************************************************************)
(* Readers and the purge.                                                  *)
(***************************************************************************)
(* The service attaches a reader only to a run that is not over for long.  *)
Subscribe(r) ==
  /\ reader[r] = "away" /\ ~lapsed
  /\ reader' = [reader EXCEPT ![r] = "following"]
  /\ UNCHANGED <<writerVars, w, missed, stream, over, got, crashes, faults, sqlVars>>

Unread(r) == SubSeq(rows, cursor[r] + 1, Len(rows))

(* One poll: a page of rows past the cursor, in order, up to a terminal. *)
Poll(r) ==
  /\ reader[r] = "following" /\ Unread(r) # <<>>
  /\ LET page == SubSeq(Unread(r), 1, Min({ReadPage, Len(Unread(r))}))
         end  == Min({Len(page)} \cup {i \in DOMAIN page : page[i].kind # "chunk"})
     IN  /\ cursor' = [cursor EXCEPT ![r] = @ + end]
         /\ got' = [got EXCEPT ![r] = @ \o FlattenSeq([i \in 1..end |-> page[i].frames])]
         /\ reader' = [reader EXCEPT ![r] =
                         IF page[end].kind = "chunk" THEN @ ELSE page[end].kind]
  /\ UNCHANGED <<writerVars, w, missed, stream, over, crashes, faults, rows, lapsed, picked>>

Busy(p) == w[p].queue # <<>> \/ w[p].text # <<>>

(* A TTL passes with nothing written for the run: it is through, or was    *)
(* left, and its readers, who poll every second, have read all of it.      *)
Lapse ==
  /\ rows # <<>> /\ ~lapsed
  /\ Settled /\ \A p \in Replica : ~Busy(p)
  /\ \A r \in Reader : reader[r] = "following" => Unread(r) = <<>>
  /\ lapsed' = TRUE
  /\ UNCHANGED <<runVars, rows, cursor, picked>>

(* purgeExpired, which any run's end may start in any replica. *)
PurgeSelect ==
  /\ lapsed /\ rows # <<>> /\ ~picked
  /\ picked' = TRUE
  /\ UNCHANGED <<runVars, rows, cursor, lapsed>>

PurgeDelete ==
  /\ picked
  /\ rows' = <<>>
  /\ picked' = FALSE
  /\ UNCHANGED <<runVars, cursor, lapsed>>

SqlSend(p) == Flushed(p) \/ ReadMax(p) \/ Insert(p) \/ Collide(p) \/ Refuse(p)
SqlCall(a) == RaiseFirst(a) \/ WriteText(a) \/ WriteFrame(a) \/ Close(a)
SqlRead(r) == Subscribe(r) \/ Poll(r)
SqlRun == \/ \E a \in Writer : Throw(a)
          \/ \E c \in Delegate : Begin(c) \/ Join(c)
          \/ \E p \in Replica : Crash(p, RunWrites)

SqlNext ==
  \/ \E a \in Writer : SqlCall(a)
  \/ \E p \in Replica : Timer(p) \/ SqlSend(p)
  \/ \E r \in Reader : SqlRead(r)
  \/ SqlRun /\ UNCHANGED sqlVars
  \/ Lapse \/ PurgeSelect \/ PurgeDelete
=============================================================================
