---------------------------- MODULE DurableRuns ----------------------------
(***************************************************************************)
(* The same queue under the durable runner: turns are workflows of a       *)
(* runtime that recovers their bodies on any worker.  A body is where its  *)
(* journal says: a step it has not recorded is done again by the worker    *)
(* that takes it over, and a recorded one is read back.  The requests are  *)
(* those of ChatQueue; a Stop goes to the runtime and then moves the queue *)
(* on from outside the body.                                               *)
(*                                                                         *)
(* Of ChatQueue's variables, `live` is here the runs that the runtime does *)
(* not report over (a run it does not know among them) and `cancelled` the *)
(* runs it was told to cancel.                                             *)
(***************************************************************************)
EXTENDS ChatQueue

Request == Message \cup Visit

DInit ==
  /\ queue = <<>> /\ paused = FALSE /\ holder = NoRun
  /\ live = Id /\ starting = {} /\ cancelled = {}
  /\ task = [t \in Tasks |-> Fresh]
  /\ ran = [m \in Message |-> 0]
  /\ gone = {}
  /\ failures = 0 /\ crashes = 0

\* The runtime knows a run from its start on.
Known(id) == task[id].pc # "new"

(***************************************************************************)
(* A Stop: the runtime is told, then the queue moves on.                   *)
(***************************************************************************)
AskStop(v) ==
  /\ Asks(v) /\ "stop" \in Kinds
  /\ holder # NoRun
  /\ Becomes(v, [task[v] EXCEPT !.pc = "cancel", !.saw = holder])
  /\ UNCHANGED <<store, runner, history>>

\* detailOf: of a run the runtime does not know, the thread is not known either.
Detail(t) ==
  /\ At(t, "cancel")
  /\ Becomes(t, [task[t] EXCEPT !.pc = "ask",
                                !.holding = IF Known(task[t].saw) THEN task[t].saw ELSE NoRun])
  /\ UNCHANGED <<store, runner, history>>

\* runs.cancel, then the handoff.  (The release after it finds the thread moved on.)
Tell(t) ==
  /\ At(t, "ask")
  /\ LET id == task[t].saw
     IN  cancelled' = IF Known(id) /\ id \in live THEN cancelled \cup {id} ELSE cancelled
  /\ IF task[t].holding = NoRun
     THEN Goto(t, "done")
     ELSE Becomes(t, [task[t] EXCEPT !.pc = "guard", !.outcome = "cancelled"])
  /\ UNCHANGED <<store, live, starting, history>>

(***************************************************************************)
(* The body of a turn.                                                     *)
(***************************************************************************)

\* The loop is over: its last observation of a Stop is behind it.
Ends(id) ==
  /\ At(id, "running")
  /\ \E outcome \in {"completed", "failed"} :
       Becomes(id, [task[id] EXCEPT !.pc = "plan", !.holding = id, !.outcome = outcome])
  /\ UNCHANGED <<store, runner, history>>

\* haltIfCancelled: a body that sees the Stop only lets its thread go.
Halts(id) ==
  /\ At(id, "running") /\ id \in cancelled
  /\ Goto(id, "close")
  /\ UNCHANGED <<store, runner, history>>

\* The runtime ends a run that is suspended and cannot see its Stop.
EndedOutside(id) ==
  /\ At(id, "running") /\ id \in cancelled
  /\ live' = live \ {id}
  /\ Goto(id, "done")
  /\ UNCHANGED <<store, starting, cancelled, history>>

\* A Stop that came too late to interrupt anything still counts for the queue.
LooksBack(id) ==
  /\ At(id, "plan")
  /\ Becomes(id, [task[id] EXCEPT !.pc = "guard",
                    !.outcome = IF @ = "completed" /\ id \in cancelled THEN "cancelled" ELSE @])
  /\ UNCHANGED <<store, runner, history>>

\* The step's result is recorded: the next turn is claimed, and out of the queue.
Journal(id) ==
  /\ At(id, "launch")
  /\ Goto(id, "spawn")
  /\ UNCHANGED <<store, runner, history>>

Spawn(id) ==
  /\ At(id, "spawn")
  /\ \/ /\ Begins(id, task[id].head.id, "close")
        /\ UNCHANGED <<store, starting, cancelled, gone, failures, crashes>>
     \/ /\ Fails
        /\ Goto(id, "restore")
        /\ UNCHANGED <<store, runner, ran, gone, crashes>>

\* deactivate; the runtime settles the run, and keeps that it was stopped.
Closes(id) ==
  /\ At(id, "close")
  /\ Release(id)
  /\ live' = live \ {id}
  /\ Goto(id, "done")
  /\ UNCHANGED <<queue, paused, starting, cancelled, history>>

\* The worker ends within the queue's step, which another does again from its
\* start; a message already out of the queue is in no journal.
Planning == {"guard", "list", "vacate", "pause", "setpause", "leave", "claim", "remove",
             "giveback", "launch"}
WorkerEnds(id) ==
  /\ Crashes
  /\ task[id].pc \in Planning
  /\ Becomes(id, [Fresh EXCEPT !.pc = "plan", !.holding = id,
                    !.outcome = IF task[id].outcome = "failed" THEN "failed" ELSE "completed"])
  /\ gone' = IF At(id, "launch") THEN gone \cup {task[id].head.id.message} ELSE gone
  /\ UNCHANGED <<store, runner, ran, failures>>

-----------------------------------------------------------------------------
RequestStep(t) == \/ Works(t) \/ Detail(t) \/ Tell(t)
                  \/ t \in Visit /\ AskStop(t)

BodyStep(id) == \/ Ends(id) \/ Halts(id) \/ EndedOutside(id) \/ LooksBack(id) \/ Plan(id)
                \/ Journal(id) \/ Spawn(id) \/ Closes(id)
                \/ Restore(id) \/ RestorePause(id) \/ RestoreFree(id)

DNext == \/ \E t \in Request : RequestStep(t)
         \/ \E id \in Id : BodyStep(id) \/ WorkerEnds(id)

\* Every await comes back, every turn ends, and some worker takes its body over.
DSpec == /\ DInit /\ [][DNext]_vars
         /\ \A t \in Request : WF_vars(~At(t, "new") /\ RequestStep(t))
         /\ \A id \in Id : WF_vars(BodyStep(id))

\* No claim outlives the turn it was made for: once every request was answered
\* and every run is over, the thread is not held by a run that still counts as
\* running, for nothing would ever take the thread from it (until the process
\* or a worker ends).
NeverWedged == crashes = 0 /\ Idle => holder \notin live

\* A Stop that lets the thread go leaves the queue behind it paused, or its next
\* message started: nestjs/README.md:344, "A failed turn or a Stop pauses the
\* queue", and durable-agent-runner.ts:233, where the Stop and the body both
\* release the thread, "whichever gets there first is right".
StopPauses == failures = 0 /\ crashes = 0 /\ Idle /\ holder = NoRun => queue = <<>> \/ paused
=============================================================================
