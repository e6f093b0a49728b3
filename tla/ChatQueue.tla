------------------------------ MODULE ChatQueue ------------------------------
(***************************************************************************)
(* The message queue of one thread (ChatQueueService), the requests that   *)
(* use it (AgentService) and the runs that settle into it                  *)
(* (InlineAgentRunner), in one process over a store whose every call takes *)
(* effect at one instant.  Each `await` of the code is a step boundary: a  *)
(* request or a settling run reads, waits, and acts on what it read.       *)
(*                                                                         *)
(* A run has the id of the message it starts (`Id`); the id of a message   *)
(* that is put back after a failed start is new (the next copy).           *)
(***************************************************************************)
EXTENDS Integers, FiniteSets, Sequences, SequencesExt

CONSTANTS Message,           \* messages people send
          Visit,             \* other requests on the thread
          NoRun,             \* activeStreamId: null
          Modes,             \* the send modes in use: "auto", "queue", "interrupt"
          Kinds,             \* the other requests in use
          MaxDrainAttempts,  \* MAX_DRAIN_ATTEMPTS
          MaxFailures,       \* bound: starts the runner or the quota refuses
          MaxCrashes,        \* bound: restarts of the process
          MaxEvents          \* bound: visits, refusals and restarts together

Id == [message : Message, copy : 0..MaxFailures]
First(m) == [message |-> m, copy |-> 0]

ASSUME ModesAssumption   == Modes \subseteq {"auto", "queue", "interrupt"}
ASSUME KindsAssumption   == Kinds \subseteq {"resume", "prioritize", "remove", "stop",
                                                "reorder", "clear"}
ASSUME NoRunAssumption   == NoRun \notin Id
ASSUME NamesAssumption   == /\ Message \cap Visit = {}
                            /\ (Message \cup Visit) \cap Id = {}
ASSUME MaximaAssumption  == MaxDrainAttempts \in Nat \ {0} /\ MaxFailures \in Nat
ASSUME EventsAssumption  == MaxCrashes \in Nat /\ MaxEvents \in Nat

Entry == [id : Id, interrupt : BOOLEAN]
NoEntry == [id |-> NoRun, interrupt |-> FALSE]

VARIABLES queue,     \* the waiting messages, the head first
          paused,    \* whether the queue has a pause
          holder,    \* the thread's activeStreamId
          live,      \* runs the runner has registered
          starting,  \* claims launch() is handing to the runner
          cancelled, \* runs a Stop was asked of
          task,      \* where each request and each settling run is
          ran,       \* how often each message was started
          gone,      \* messages that were removed, refused, or lost with a crash
          failures, crashes
store == <<queue, paused, holder>>
runner == <<live, starting, cancelled>>
history == <<ran, gone, failures, crashes>>
vars == <<store, runner, task, history>>

\* A request is a message being sent or a visit; a run settles under its own id.
Tasks == Message \cup Visit \cup Id

\* saw: the holder a request read; holding: who has the thread, as far as plan
\* knows; head: the entry plan read.
Fresh == [pc |-> "new", mode |-> "settle", saw |-> NoRun, holding |-> NoRun, head |-> NoEntry,
          outcome |-> "completed", attempt |-> 0]
Over  == [Fresh EXCEPT !.pc = "done"]

Init ==
  /\ queue = <<>> /\ paused = FALSE /\ holder = NoRun
  /\ live = {} /\ starting = {} /\ cancelled = {}
  /\ task = [t \in Tasks |-> Fresh]
  /\ ran = [m \in Message |-> 0]
  /\ gone = {}
  /\ failures = 0 /\ crashes = 0

-----------------------------------------------------------------------------
(* Steps of a task, and the store's admission.                             *)

At(t, pc)   == task[t].pc = pc
Goto(t, to) == task' = [task EXCEPT ![t] = IF to = "done" THEN Over ELSE [@ EXCEPT !.pc = to]]
Becomes(t, next) == task' = [task EXCEPT ![t] = next]

Queued(id) == \E i \in DOMAIN queue : queue[i].id = id
Position(id) == CHOOSE i \in DOMAIN queue : queue[i].id = id
Without(id) == RemoveAt(queue, Position(id))

\* isAlive: launch() has it, or the inline runner knows it.
Alive(id) == id \in starting \cup live

\* claimActiveStream: free, already the claimant's, or held by the one it replaces.
Claimable(id, replacing) == holder = NoRun \/ holder = id \/ holder = replacing

\* releaseActiveStream: only while this run still has it.
Release(id) == holder' = IF holder = id THEN NoRun ELSE holder

\* The runner registers the run in the step that starts it.
Begins(t, id, after) ==
  /\ live' = live \cup {id}
  /\ ran' = [ran EXCEPT ![id.message] = @ + 1]
  /\ task' = [task EXCEPT ![t] = IF after = "done" THEN Over ELSE [@ EXCEPT !.pc = after],
                          ![id] = [Fresh EXCEPT !.pc = "running"]]

\* What a task does when its drain is over: a settling run has yet to close.
AfterDrain(t) == IF t \in Id THEN "close" ELSE "done"

\* The bounds: a visit, a refusal or a restart still has room in the behaviour.
Room    == Cardinality({v \in Visit : ~At(v, "new")}) + failures + crashes < MaxEvents
Asks(v) == At(v, "new") /\ Room
Fails   == failures < MaxFailures /\ Room /\ failures' = failures + 1
Crashes == crashes < MaxCrashes /\ Room /\ crashes' = crashes + 1

-----------------------------------------------------------------------------
(* Sending a message (AgentService.send).                                  *)

SendLooks(m) ==
  /\ At(m, "new")
  /\ \E mode \in Modes :
       Becomes(m, [task[m] EXCEPT !.pc = "alive", !.mode = mode, !.saw = holder])
  /\ UNCHANGED <<store, runner, history>>

\* Only a live holder is remembered as one to interrupt.
SendJudges(m) ==
  /\ At(m, "alive")
  /\ LET free == task[m].saw = NoRun \/ ~Alive(task[m].saw)
         to   == IF free /\ task[m].mode # "queue" THEN "take" ELSE "enqueue"
     IN  Becomes(m, [task[m] EXCEPT !.pc = to,
                                    !.mode = IF free /\ @ = "interrupt" THEN "auto" ELSE @])
  /\ UNCHANGED <<store, runner, history>>

SendTakes(m) ==
  /\ At(m, "take")
  /\ IF Claimable(First(m), task[m].saw)
     THEN holder' = First(m) /\ Goto(m, "begin")
     ELSE Goto(m, "enqueue") /\ UNCHANGED holder
  /\ UNCHANGED <<queue, paused, runner, history>>

\* startClaimed.
SendBegins(m) ==
  /\ At(m, "begin")
  /\ \/ /\ Begins(m, First(m), "done")
        /\ UNCHANGED <<store, starting, cancelled, gone, failures, crashes>>
     \/ /\ Fails
        /\ Goto(m, "refuse")
        /\ UNCHANGED <<store, runner, ran, gone, crashes>>

\* Mutant: the thread stays claimed for a turn that could not start.
SendRefusedHolding(m) ==
  /\ At(m, "refuse")
  /\ gone' = gone \cup {m}
  /\ Goto(m, "done")
  /\ UNCHANGED <<store, runner, ran, failures, crashes>>

SendRefused(m) ==
  /\ At(m, "refuse")
  /\ Release(First(m))
  /\ gone' = gone \cup {m}
  /\ Goto(m, "done")
  /\ UNCHANGED <<queue, paused, runner, ran, failures, crashes>>

\* enqueue: an interrupt goes to the head, lifts the pause and cancels the run it
\* saw; any other send goes to the tail and kicks the queue.
Enqueue(m) ==
  /\ At(m, "enqueue")
  /\ IF task[m].mode = "interrupt"
     THEN /\ queue' = <<[id |-> First(m), interrupt |-> TRUE]>> \o queue
          /\ Goto(m, "lift")
     ELSE /\ queue' = Append(queue, [id |-> First(m), interrupt |-> FALSE])
          /\ Goto(m, "kick")
  /\ UNCHANGED <<paused, holder, runner, history>>

SendStep(m) == \/ SendLooks(m) \/ SendJudges(m) \/ SendTakes(m) \/ SendBegins(m)
               \/ SendRefused(m) \/ Enqueue(m)

-----------------------------------------------------------------------------
(* The other requests.                                                     *)

\* resumeQueue.
Resume(v) ==
  /\ Asks(v) /\ "resume" \in Kinds
  /\ Becomes(v, [task[v] EXCEPT !.pc = "lift", !.mode = "resume"])
  /\ UNCHANGED <<store, runner, history>>

\* removeQueuedMessage, by the person who sent it.
TakeBack(v) ==
  /\ Asks(v) /\ "remove" \in Kinds
  /\ \E i \in DOMAIN queue :
       /\ queue' = RemoveAt(queue, i)
       /\ gone' = gone \cup {queue[i].id.message}
  /\ Goto(v, "done")
  /\ UNCHANGED <<paused, holder, runner, ran, failures, crashes>>

\* updateQueuedMessage: a waiting message goes to another place of the queue.
Reorder(v) ==
  /\ Asks(v) /\ "reorder" \in Kinds
  /\ \E i, j \in DOMAIN queue :
       i # j /\ queue' = InsertAt(RemoveAt(queue, i), j, queue[i])
  /\ Goto(v, "done")
  /\ UNCHANGED <<paused, holder, runner, history>>

\* clearQueue: every waiting message is dropped, then the pause.
Clear(v) ==
  /\ Asks(v) /\ "clear" \in Kinds
  /\ queue' = <<>>
  /\ gone' = gone \cup {queue[i].id.message : i \in DOMAIN queue}
  /\ Becomes(v, [task[v] EXCEPT !.pc = "lift", !.mode = "clear"])
  /\ UNCHANGED <<paused, holder, runner, ran, failures, crashes>>

\* cancel: a Stop of the run that has the thread.
Stop(v) ==
  /\ Asks(v) /\ "stop" \in Kinds
  /\ holder # NoRun
  /\ cancelled' = cancelled \cup {holder}
  /\ Goto(v, "done")
  /\ UNCHANGED <<store, live, starting, history>>

\* interruptQueuedMessage: mark it, move it to the head, lift the pause, and
\* cancel the live run if the message still waits then.
Prioritize(v) ==
  /\ Asks(v) /\ "prioritize" \in Kinds
  /\ \E i \in DOMAIN queue :
       /\ queue' = [queue EXCEPT ![i].interrupt = TRUE]
       /\ Becomes(v, [task[v] EXCEPT !.pc = "move", !.mode = "prioritize",
                                     !.head = [id |-> queue[i].id, interrupt |-> TRUE]])
  /\ UNCHANGED <<paused, holder, runner, history>>

\* Mutant: the message is put at the head though it left the queue meanwhile.
MoveAnyway(v) ==
  /\ At(v, "move")
  /\ queue' = <<task[v].head>> \o (IF Queued(task[v].head.id) THEN Without(task[v].head.id)
                                   ELSE queue)
  /\ Goto(v, "lift")
  /\ UNCHANGED <<paused, holder, runner, history>>

Move(v) ==
  /\ At(v, "move")
  /\ IF Queued(task[v].head.id)
     THEN queue' = <<task[v].head>> \o Without(task[v].head.id) /\ Goto(v, "lift")
     ELSE UNCHANGED queue /\ Goto(v, "done")
  /\ UNCHANGED <<paused, holder, runner, history>>

Lift(t) ==
  /\ At(t, "lift")
  /\ paused' = FALSE
  /\ Goto(t, CASE task[t].mode = "interrupt"  -> "cancel"
               [] task[t].mode = "prioritize" -> "look"
               [] task[t].mode = "resume"     -> "kick"
               [] task[t].mode = "clear"      -> "done")
  /\ UNCHANGED <<queue, holder, runner, history>>

Look(v) ==
  /\ At(v, "look")
  /\ Becomes(v, [task[v] EXCEPT !.pc = "still", !.saw = holder])
  /\ UNCHANGED <<store, runner, history>>

\* A message that is the running turn already cancels nothing.
Still(v) ==
  /\ At(v, "still")
  /\ LET busy == task[v].saw # NoRun /\ Alive(task[v].saw)
     IN  Goto(v, CASE ~busy -> "kick"
                   [] busy /\ task[v].saw = task[v].head.id -> "done"
                   [] OTHER -> "waits")
  /\ UNCHANGED <<store, runner, history>>

Waits(v) ==
  /\ At(v, "waits")
  /\ Goto(v, IF Queued(task[v].head.id) THEN "cancel" ELSE "done")
  /\ UNCHANGED <<store, runner, history>>

Cancel(t) ==
  /\ At(t, "cancel")
  /\ cancelled' = cancelled \cup {task[t].saw}
  /\ Goto(t, "done")
  /\ UNCHANGED <<store, live, starting, history>>

QueueRequest(v) == \/ Resume(v) \/ TakeBack(v) \/ Reorder(v) \/ Clear(v) \/ Prioritize(v)
                   \/ Move(v) \/ Look(v) \/ Still(v) \/ Waits(v)

-----------------------------------------------------------------------------
(* kick: drain an idle thread, or one held by a run that is gone.          *)

Kick(t) ==
  /\ At(t, "kick")
  /\ Becomes(t, [task[t] EXCEPT !.pc = "judge", !.saw = holder])
  /\ UNCHANGED <<store, runner, history>>

\* A live holder's settle drains; a stale one is drained as if it completed.
Judge(t) ==
  /\ At(t, "judge")
  /\ LET saw == task[t].saw
     IN  IF saw # NoRun /\ Alive(saw)
         THEN Goto(t, "done")
         ELSE Becomes(t, [task[t] EXCEPT !.pc = "guard", !.holding = saw,
                                         !.outcome = "completed"])
  /\ UNCHANGED <<store, runner, history>>

-----------------------------------------------------------------------------
(* plan: what follows on the thread.                                       *)

\* Only who has the thread moves it on.
Guard(t) ==
  /\ At(t, "guard")
  /\ Goto(t, IF holder = task[t].holding THEN "list" ELSE AfterDrain(t))
  /\ UNCHANGED <<store, runner, history>>

List(t) ==
  /\ At(t, "list")
  /\ LET mine == task[t].holding # NoRun
     IN  CASE task[t].attempt = MaxDrainAttempts -> Goto(t, IF mine THEN "leave" ELSE AfterDrain(t))
           [] task[t].attempt < MaxDrainAttempts /\ queue = <<>> ->
                Goto(t, IF mine THEN "vacate" ELSE AfterDrain(t))
           [] OTHER -> Becomes(t, [task[t] EXCEPT !.pc = "pause", !.head = Head(queue)])
  /\ UNCHANGED <<store, runner, history>>

Again(t) == Becomes(t, [task[t] EXCEPT !.pc = "list", !.holding = NoRun, !.head = NoEntry,
                                       !.attempt = @ + 1])

\* Mutant: an empty queue is not read once more after the release.
VacateAtOnce(t) ==
  /\ At(t, "vacate")
  /\ Release(task[t].holding)
  /\ Goto(t, AfterDrain(t))
  /\ UNCHANGED <<queue, paused, runner, history>>

\* The queue was empty: free the thread, then look once more.
Vacate(t) ==
  /\ At(t, "vacate")
  /\ Release(task[t].holding)
  /\ Again(t)
  /\ UNCHANGED <<queue, paused, runner, history>>

Pauses(outcome, entry) == outcome = "failed" \/ (outcome = "cancelled" /\ ~entry.interrupt)

\* A pause there is stays; the run's outcome makes one, or the quota of the head's actor.
ReadPause(t) ==
  /\ At(t, "pause")
  /\ LET stops == Pauses(task[t].outcome, task[t].head)
     IN  \/ paused /\ Goto(t, "leave") /\ UNCHANGED failures
         \/ ~paused /\ stops /\ Goto(t, "setpause") /\ UNCHANGED failures
         \/ ~paused /\ ~stops /\ Goto(t, "claim") /\ UNCHANGED failures
         \/ /\ ~paused /\ ~stops /\ Fails
            /\ Goto(t, "setpause")
  /\ UNCHANGED <<store, runner, ran, gone, crashes>>

SetPause(t) ==
  /\ At(t, "setpause")
  /\ paused' = TRUE
  /\ Goto(t, "leave")
  /\ UNCHANGED <<queue, holder, runner, history>>

Leave(t) ==
  /\ At(t, "leave")
  /\ Release(task[t].holding)
  /\ Goto(t, AfterDrain(t))
  /\ UNCHANGED <<queue, paused, runner, history>>

Claim(t) ==
  /\ At(t, "claim")
  /\ LET id == task[t].head.id
     IN  IF Claimable(id, task[t].holding)
         THEN /\ holder' = id
              /\ Becomes(t, [task[t] EXCEPT !.pc = "remove", !.holding = id])
         ELSE /\ Goto(t, AfterDrain(t))
              /\ UNCHANGED holder
  /\ UNCHANGED <<queue, paused, runner, history>>

\* Mutant: the head is taken out, whichever message that is by now.
TakeOutHead(t) ==
  /\ At(t, "remove")
  /\ IF Queued(task[t].head.id)
     THEN queue' = Tail(queue) /\ Goto(t, "launch")
     ELSE Goto(t, "giveback") /\ UNCHANGED queue
  /\ UNCHANGED <<paused, holder, runner, history>>

\* removeQueuedMessage: whoever removes it starts it.
TakeOut(t) ==
  /\ At(t, "remove")
  /\ IF Queued(task[t].head.id)
     THEN queue' = Without(task[t].head.id) /\ Goto(t, "launch")
     ELSE Goto(t, "giveback") /\ UNCHANGED queue
  /\ UNCHANGED <<paused, holder, runner, history>>

\* Mutant: a claim for a message that is gone is kept.
GiveBackNothing(t) ==
  /\ At(t, "giveback")
  /\ Again(t)
  /\ UNCHANGED <<store, runner, history>>

GiveBack(t) ==
  /\ At(t, "giveback")
  /\ Release(task[t].head.id)
  /\ Again(t)
  /\ UNCHANGED <<queue, paused, runner, history>>

Plan(t) == \/ Guard(t) \/ List(t) \/ Vacate(t) \/ ReadPause(t) \/ SetPause(t) \/ Leave(t)
           \/ Claim(t) \/ TakeOut(t) \/ GiveBack(t)

-----------------------------------------------------------------------------
(* launch: start what the plan took out, or restore it.                    *)

Launch(t) ==
  /\ At(t, "launch")
  /\ LET id == task[t].head.id
     IN  \/ /\ Begins(t, id, AfterDrain(t))
            /\ UNCHANGED <<store, starting, cancelled, gone, failures, crashes>>
         \/ /\ Fails
            /\ starting' = starting \cup {id}
            /\ Goto(t, "restore")
            /\ UNCHANGED <<store, live, cancelled, ran, gone, crashes>>

\* Mutant: a turn that could not start is dropped.
RestoreNothing(t) ==
  /\ At(t, "restore")
  /\ Goto(t, "restorePause")
  /\ UNCHANGED <<store, runner, history>>

\* Back to the head under a new id, without its interrupt.
Restore(t) ==
  /\ At(t, "restore")
  /\ LET again == [task[t].head.id EXCEPT !.copy = @ + 1]
     IN  queue' = <<[id |-> again, interrupt |-> FALSE]>> \o queue
  /\ Goto(t, "restorePause")
  /\ UNCHANGED <<paused, holder, runner, history>>

RestorePause(t) ==
  /\ At(t, "restorePause")
  /\ paused' = TRUE
  /\ Goto(t, "restoreFree")
  /\ UNCHANGED <<queue, holder, runner, history>>

\* Mutant: the claim of a turn that was put back is kept.
RestoreHolding(t) ==
  /\ At(t, "restoreFree")
  /\ starting' = starting \ {task[t].head.id}
  /\ Goto(t, AfterDrain(t))
  /\ UNCHANGED <<store, live, cancelled, history>>

RestoreFree(t) ==
  /\ At(t, "restoreFree")
  /\ LET id == task[t].head.id
     IN  Release(id) /\ starting' = starting \ {id}
  /\ Goto(t, AfterDrain(t))
  /\ UNCHANGED <<queue, paused, live, cancelled, history>>

Starts(t) == Launch(t) \/ Restore(t) \/ RestorePause(t) \/ RestoreFree(t)

-----------------------------------------------------------------------------
(* A run: it ends, settles into the queue, and is forgotten.               *)

\* A Stop that came too late to interrupt it still counts as one.
RunEnds(id) ==
  /\ At(id, "running")
  /\ \E outcome \in {"completed", "failed", "cancelled"} :
       /\ outcome # "failed" => (outcome = "cancelled" <=> id \in cancelled)
       /\ Becomes(id, [task[id] EXCEPT !.pc = "guard", !.holding = id, !.outcome = outcome])
  /\ UNCHANGED <<store, runner, history>>

\* releaseThreadRun, then the runner forgets the run and its Stop.
RunCloses(id) ==
  /\ At(id, "close")
  /\ Release(id)
  /\ live' = live \ {id}
  /\ cancelled' = cancelled \ {id}
  /\ Goto(id, "done")
  /\ UNCHANGED <<queue, paused, starting, history>>

\* ("spawn" is the durable runner's.)  The process ends: what it had in memory is gone, with the messages that were
\* out of the queue and not started, or not in it yet.
InHand(t) == \/ t \in Message /\ task[t].pc \in {"alive", "take", "begin", "refuse", "enqueue"}
             \/ task[t].pc \in {"launch", "spawn", "restore"}
MessageOf(t) == IF t \in Message /\ task[t].pc \in {"alive", "take", "begin", "refuse", "enqueue"}
                THEN t ELSE task[t].head.id.message
Crash ==
  /\ Crashes
  /\ live' = {} /\ starting' = {} /\ cancelled' = {}
  /\ gone' = gone \cup {MessageOf(t) : t \in {u \in Tasks : InHand(u)}}
  /\ task' = [t \in Tasks |-> IF task[t].pc = "new" THEN Fresh ELSE Over]
  /\ UNCHANGED <<store, ran, failures>>

-----------------------------------------------------------------------------
\* What does not depend on the runner.
Works(t) == \/ Lift(t) \/ Kick(t) \/ Judge(t) \/ Plan(t) \/ Starts(t)
            \/ t \in Message /\ SendStep(t)
            \/ t \in Visit /\ QueueRequest(t)

Step(t) == \/ Works(t) \/ Cancel(t)
           \/ t \in Visit /\ Stop(t)
           \/ t \in Id /\ (RunEnds(t) \/ RunCloses(t))

Next == Crash \/ \E t \in Tasks : Step(t)

\* Every await comes back and every run ends; nobody has to send anything.
Spec == Init /\ [][Next]_vars /\ \A t \in Tasks : WF_vars(~At(t, "new") /\ Step(t))

-----------------------------------------------------------------------------
(* Properties.                                                             *)

\* A message is one turn at most, however many drains reach for it at once:
\* removeQueuedMessage is the claim on it.
StartedOnce == \A m \in Message : ran[m] <= 1

Waiting(m) == \E i \in DOMAIN queue : queue[i].id.message = m

\* A message that was sent waits, runs, was taken back or refused, or is in the
\* hands of the one task that will start it or put it back: no race of drains,
\* removals and refused starts loses it.
NothingLost ==
  \A m \in Message :
    \/ task[m].pc = "new"
    \/ ran[m] > 0 \/ m \in gone
    \/ Waiting(m)
    \/ \E t \in Tasks : InHand(t) /\ MessageOf(t) = m

\* No claim is left behind: once every request was answered and every run has
\* settled, the thread is free, whichever of them failed, lost or was removed.
Idle == \A t \in Tasks : task[t].pc \in {"new", "done"}
ThreadFreed == crashes = 0 /\ Idle => holder = NoRun

\* One run per thread: the thread's next turn starts when the one before has
\* settled (SPI: "admit ONE run per thread at a time").
Running == {id \in Id : task[id].pc = "running"}
OneRunAtATime == \A r, s \in Running : r = s
=============================================================================
