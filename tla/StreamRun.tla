----------------------------- MODULE StreamRun -----------------------------
(***************************************************************************)
(* A run that writes one stream through a TokenStreamSink: the turn itself *)
(* and the sub-agents it delegates to, each in some replica, and what is   *)
(* common to the sinks that gather text before they send it.  Each writer  *)
(* awaits its own calls; writers in the same replica share what the sink   *)
(* has gathered there.  A delegate's writer never ends the stream: it      *)
(* flushes where it would have.                                            *)
(***************************************************************************)
EXTENDS Naturals, Sequences, FiniteSets, SequencesExt, FiniteSetsExt

CONSTANTS Turn,         \* the writer that owns the stream's end
          Delegate,     \* the writers of its sub-agents
          Replica,
          Reader,
          MaxWrites,    \* bound: per writer, the frames it writes
          MaxCrashes,   \* bound: replicas that die
          MaxFaults     \* bound: sends the transport refuses, wakes it loses

Writer == {Turn} \cup Delegate

ASSUME TurnAssumption   == Turn \notin Delegate
ASSUME BoundsAssumption == /\ MaxWrites \in [Writer -> Nat]
                           /\ MaxCrashes \in Nat /\ MaxFaults \in Nat

VARIABLES stage,    \* where each writer is, or the call it awaits
          home,     \* the replica each writer runs in
          clock,    \* per writer, how many frames of each writer it knows of
          refused,  \* writers whose last closing call was rejected
          w,        \* per replica, the sink's write side of the run (RunWrites)
          missed,   \* per replica, lost frames no caller has been told of
          stream,   \* the frames the transport took, in order
          over,     \* "open", or the terminal it holds: "end" or "fail"
          got,      \* the frames each reader was given
          reader,   \* "away", "following", "gone", or the terminal it saw
          crashes,  \* replicas that died so far
          faults    \* transport faults so far

writerVars == <<stage, home, clock, refused>>
runVars == <<stage, home, clock, refused, w, missed, stream, over, got, reader,
             crashes, faults>>

Stage == {"out", "run", "framed", "write", "failed", "again", "end", "fail", "flush",
          "done", "joined", "dead"}
Frame == [by : Writer, at : [Writer -> Nat]]

(* The frame a writes next: it knows of every frame counted in `at`. *)
NextFrame(a) == [by |-> a, at |-> [clock[a] EXCEPT ![a] = @ + 1]]
Counted(a) == [clock EXCEPT ![a][a] = @ + 1]
MayWrite(a) == stage[a] \in {"run", "framed"} /\ clock[a][a] < MaxWrites[a]

(* The call that ends a writer: end() or fail() for the turn, whose        *)
(* delegates are all back by then; flush() for a delegate either way.      *)
Closing(a) == IF a # Turn THEN "flush"
              ELSE IF stage[a] = "failed" THEN "fail" ELSE "end"
MayClose(a) == /\ stage[a] \in {"run", "framed", "failed", "again"}
               /\ a = Turn => \A c \in Delegate : stage[c] \in {"out", "joined"}

(* A writer whose call `call` settles; a rejected write or end makes the   *)
(* turn fail its stream instead (the runner's catch).                      *)
Settles(a, call, ok) ==
  /\ stage' = [stage EXCEPT ![a] =
       CASE call = "write"              -> IF ok THEN "framed" ELSE "failed"
         [] call = "end"                -> IF ok THEN "done" ELSE "failed"
         [] call \in {"fail", "flush"}  -> "done"
         [] OTHER                       -> "failed"]
  /\ refused' = IF call \in {"fail", "flush"} /\ ~ok THEN refused \cup {a} ELSE refused

StreamInit(write) ==
  /\ stage = [a \in Writer |-> IF a = Turn THEN "run" ELSE "out"]
  /\ home \in [Writer -> Replica]
  /\ clock = [a \in Writer |-> [b \in Writer |-> 0]]
  /\ refused = {}
  /\ w = [p \in Replica |-> write]
  /\ missed = [p \in Replica |-> {}]
  /\ stream = <<>>
  /\ over = "open"
  /\ got = [r \in Reader |-> <<>>]
  /\ reader = [r \in Reader |-> "away"]
  /\ crashes = 0
  /\ faults = 0

(* The turn has announced the call (its frame is written): the delegate    *)
(* starts, knowing of everything the turn wrote.                           *)
Begin(c) ==
  /\ stage[Turn] = "framed" /\ stage[c] = "out"
  /\ stage' = [stage EXCEPT ![c] = "run"]
  /\ clock' = [clock EXCEPT ![c] = clock[Turn]]
  /\ UNCHANGED <<home, refused, w, missed, stream, over, got, reader, crashes, faults>>

(* The writer's own work fails: its model call or its code throws. *)
Throw(a) ==
  /\ stage[a] \in {"run", "framed"}
  /\ stage' = [stage EXCEPT ![a] = "failed"]
  /\ UNCHANGED <<home, clock, refused, w, missed, stream, over, got, reader, crashes, faults>>

(* The delegate's result reaches the turn. *)
Join(c) ==
  /\ stage[Turn] \in {"run", "framed", "failed"} /\ stage[c] = "done"
  /\ stage' = [stage EXCEPT ![c] = "joined"]
  /\ clock' = [clock EXCEPT ![Turn] =
                 [b \in Writer |-> Max({clock[Turn][b], clock[c][b]})]]
  /\ UNCHANGED <<home, refused, w, missed, stream, over, got, reader, crashes, faults>>

(* Nothing more is called on the sink for the run. *)
Settled == stage[Turn] \in {"done", "dead"}

(* A replica dies with what it had gathered and queued.  The inline runner *)
(* never resumes the run; the durable engine runs its writers elsewhere,   *)
(* without writing what a checkpoint holds a second time.                  *)
Crash(p, write) ==
  /\ crashes < MaxCrashes /\ ~Settled
  /\ crashes' = crashes + 1
  /\ w' = [w EXCEPT ![p] = write]
  /\ missed' = [missed EXCEPT ![p] = {}]
  /\ \/ /\ \E a \in Writer : home[a] = p /\ stage[a] \notin {"out", "done", "joined"}
        /\ stage' = [a \in Writer |-> "dead"]
        /\ UNCHANGED home
     \/ \E q \in Replica \ {p} :
          /\ home' = [a \in Writer |-> IF home[a] = p THEN q ELSE home[a]]
          /\ stage' = [a \in Writer |->
               IF home[a] # p THEN stage[a]
               ELSE CASE stage[a] \in {"framed", "write"} -> "run"
                      [] stage[a] \in {"end", "flush"}    -> "again"
                      [] stage[a] = "fail"               -> "failed"
                      [] OTHER                           -> stage[a]]
  /\ UNCHANGED <<clock, refused, stream, over, got, reader, faults>>

(***************************************************************************)
(* Properties.                                                             *)
(***************************************************************************)
(* A frame that was gathered and then refused by the transport with nobody *)
(* awaiting it is not lost in silence: by the time its writer is through,  *)
(* some call of the run in that replica was rejected.                      *)
LossIsTold ==
  \A a \in Writer :
    stage[a] \in {"done", "joined"} /\ a \notin refused
      => \A frame \in missed[home[a]] : frame.by # a
=============================================================================
