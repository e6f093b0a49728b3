----------------------------- MODULE ParkedCalls -----------------------------
(***************************************************************************)
(* Tool calls the inline runner puts to a person: a turn, the sub-agents   *)
(* it awaits and the ones it detaches each take one model step that asks   *)
(* for a batch of calls, claim them all, and run them one after the other. *)
(* An action call parks its run on a promise of this process, which a      *)
(* decision, the approval's timer or a Stop settles; the call's row is in  *)
(* the store, which a restart of the process leaves as it was.             *)
(***************************************************************************)
EXTENDS Naturals, Sequences, FiniteSets

CONSTANTS Top,       \* the thread's turn
          Awaited,   \* runs of the sub-agents a call waits for
          Detached,  \* runs of the sub-agents nobody waits for
          NoRun,
          Call,
          Batches,   \* what the models may ask for: each run's calls, in order
          To,        \* the run a delegation starts; NoRun for an action
          Sink,      \* the run whose stream each run writes into
          Timed,     \* actions whose approval has a time to live
          Person,    \* callers, each with one decision to give
          MaxStops,  \* bound: Stops asked for
          MaxFaults  \* bound: model calls that fail, restarts of the process

Run == {Top} \cup Awaited \cup Detached
Human == {c \in Call : To[c] = NoRun}

ASSUME RunsAssumption == /\ Top \notin Awaited \cup Detached
                         /\ Awaited \cap Detached = {}
                         /\ NoRun \notin Run
ASSUME CallsAssumption ==
  /\ Call # {}
  /\ To \in [Call -> Awaited \cup Detached \cup {NoRun}]
  /\ Sink \in [Run -> Run]
(* A delegation starts a run of its own: its id is drawn when it starts.   *)
ASSUME DelegationAssumption ==
  \A c, d \in Call : To[c] = To[d] /\ To[c] # NoRun => c = d
ASSUME BatchesAssumption ==
  \A B \in Batches :
    /\ B \in [Run -> Seq(Call)]
    /\ \A r, s \in Run : \A i \in 1 .. Len(B[r]), j \in 1 .. Len(B[s]) :
         B[r][i] = B[s][j] => r = s /\ i = j

VARIABLES batch,     \* the calls each run asks for
          at,        \* where each run's loop is
          next,      \* the position in its batch of the call it claims or runs
          outcome,   \* how each run settled
          row,       \* the status of each call's row in the store
          late,      \* calls whose expiresAt has passed
          pending,   \* calls with a waiter in this process
          taken,     \* what settled each call's waiter
          live,      \* top-level runs this process is running
          cancelled, \* runs that were asked to stop
          held,      \* runs whose thread names them its active stream
          decision,  \* each person's decision and how far its request is
          stop,      \* the Stop in progress
          stops, faults

store == <<row, late, held>>
vars == <<batch, at, next, outcome, row, late, pending, taken, live, cancelled, held,
          decision, stop, stops, faults>>

Where == {"off", "model", "calling", "asked", "claim", "turn", "parked", "tool",
          "joining", "last", "answering", "ending", "unwinding", "failing", "failed",
          "closing", "over", "gone"}
Outcome == {"none", "completed", "cancelled", "failed"}
Status == {"none", "pending_approval", "auto_executed", "executed", "rejected",
           "expired", "failed"}
Reply == {"approve", "reject"}
Settlement == Reply \cup {"none", "lapse", "stop"}
Decision == [stage : {"idle", "checked", "active", "dead", "delivered", "dropped",
                      "refused", "lost"},
             call : Call, reply : Reply, late : BOOLEAN, over : BOOLEAN]

TypeOK ==
  /\ batch \in Batches
  /\ at \in [Run -> Where] /\ next \in [Run -> Nat \ {0}]
  /\ outcome \in [Run -> Outcome]
  /\ row \in [Call -> Status] /\ late \subseteq Call
  /\ pending \subseteq Call /\ taken \in [Call -> Settlement]
  /\ live \subseteq Run /\ cancelled \subseteq Run /\ held \subseteq Run
  /\ decision \in [Person -> Decision]
  /\ stop \in Run \cup {NoRun}
  /\ stops \in Nat /\ faults \in Nat

(***************************************************************************)
(* The pieces of a run.                                                    *)
(***************************************************************************)
Here(r) == batch[r][next[r]]
Asks(r, c) == \E i \in 1 .. Len(batch[r]) : batch[r][i] = c
Owner(c) == CHOOSE r \in Run : Asks(r, c)

(* What the loop looks at between two steps: a child stops when it is asked *)
(* to itself, and with the run whose stream it writes into.                *)
Stopped(r) == r \in cancelled \/ Sink[r] \in cancelled

(* The signal of its model call is the one of the latter alone. *)
Aborted(r) == Sink[r] \in cancelled

(* Only a turn is registered; a delegated run counts as alive while it is  *)
(* parked on a person.                                                     *)
IsRunActive(r) == r \in live \/ \E c \in pending : Asks(r, c)

(* A promise settles once. *)
Resolved(C, reply) == [c \in Call |-> IF c \in C /\ taken[c] = "none" THEN reply ELSE taken[c]]

FailedAll(r) ==   \* mutant: whatever their status
  [c \in Call |-> IF Asks(r, c) THEN "failed" ELSE row[c]]

(* Every call of r still awaiting a decision is failed. *)
FailedUnsettled(r) ==
  [c \in Call |-> IF Asks(r, c) /\ row[c] = "pending_approval" THEN "failed" ELSE row[c]]

Goes(r, place) == at' = [at EXCEPT ![r] = place]

(* The call is settled; its run takes the next one, or its last step. *)
Proceeds(r) ==
  IF next[r] = Len(batch[r]) THEN Goes(r, "last") /\ UNCHANGED next
  ELSE Goes(r, "turn") /\ next' = [next EXCEPT ![r] = @ + 1]
Records(r, status) == row' = [row EXCEPT ![Here(r)] = status]

people == <<decision, stop, stops>>
waits == <<pending, taken>>

Init ==
  /\ batch \in Batches
  /\ at = [r \in Run |-> IF r = Top THEN "model" ELSE "off"]
  /\ next = [r \in Run |-> 1]
  /\ outcome = [r \in Run |-> "none"]
  /\ row = [c \in Call |-> "none"]
  /\ late = {} /\ pending = {} /\ taken = [c \in Call |-> "none"]
  /\ live = {Top} /\ cancelled = {} /\ held = {Top}
  /\ decision = [p \in Person |-> [stage |-> "idle", call |-> CHOOSE c \in Call : TRUE,
                                   reply |-> "reject", late |-> FALSE, over |-> FALSE]]
  /\ stop = NoRun /\ stops = 0 /\ faults = 0

(***************************************************************************)
(* The loop of a run.                                                      *)
(***************************************************************************)

(* A step begins: a look at the Stop, and the model is called. *)
Calls(r) ==
  /\ at[r] \in {"model", "last"}
  /\ Goes(r, IF Stopped(r) THEN "unwinding"
             ELSE IF at[r] = "last" THEN "answering" ELSE "calling")
  /\ UNCHANGED <<next, outcome, store, waits, live, cancelled, people, faults, batch>>

(* The model call ends: what an aborted one returns or throws is dropped. *)
Answered(r) ==
  /\ at[r] \in {"calling", "answering"}
  /\ Goes(r, IF Aborted(r) THEN "unwinding"
             ELSE IF at[r] = "answering" \/ batch[r] = <<>> THEN "ending" ELSE "asked")
  /\ UNCHANGED <<next, outcome, store, waits, live, cancelled, people, faults, batch>>

ModelFails(r) ==
  /\ at[r] \in {"calling", "answering"} /\ ~Aborted(r) /\ faults < MaxFaults
  /\ faults' = faults + 1
  /\ Goes(r, "failing")
  /\ UNCHANGED <<next, outcome, store, waits, live, cancelled, people, batch>>

(* The last look at the Stop before the batch; none between its calls, nor *)
(* between the look and the first claim, where a Stop comes too late.      *)
Dispatch(r) ==
  /\ at[r] = "asked"
  /\ Goes(r, IF Stopped(r) THEN "unwinding" ELSE "claim")
  /\ UNCHANGED <<next, outcome, store, waits, live, cancelled, people, faults, batch>>

(* The call is recorded, and on screen if it asks a person. *)
Claim(r) ==
  /\ at[r] = "claim"
  /\ Records(r, IF To[Here(r)] = NoRun THEN "pending_approval" ELSE "auto_executed")
  /\ IF next[r] = Len(batch[r]) THEN Goes(r, "turn") /\ next' = [next EXCEPT ![r] = 1]
     ELSE next' = [next EXCEPT ![r] = @ + 1] /\ UNCHANGED at
  /\ UNCHANGED <<outcome, late, waits, live, cancelled, held, people, faults, batch>>

Park(r) ==
  /\ at[r] = "turn" /\ To[Here(r)] = NoRun
  /\ pending' = pending \cup {Here(r)}
  /\ Goes(r, "parked")
  /\ UNCHANGED <<next, outcome, store, taken, live, cancelled, people, faults, batch>>

(* An awaited sub-agent starts in a nested loop, on a thread of its own. *)
Delegate(r) ==
  /\ at[r] = "turn" /\ To[Here(r)] \in Awaited
  /\ at' = [at EXCEPT ![r] = "joining", ![To[Here(r)]] = "model"]
  /\ held' = held \cup {To[Here(r)]}
  /\ UNCHANGED <<next, outcome, row, late, waits, live, cancelled, people, faults, batch>>

(* A detached one starts, and its call is done. *)
Detach(r) ==
  /\ at[r] = "turn" /\ To[Here(r)] \in Detached
  /\ LET last == next[r] = Len(batch[r]) IN
       /\ at' = [at EXCEPT ![r] = IF last THEN "last" ELSE "turn", ![To[Here(r)]] = "model"]
       /\ next' = IF last THEN next ELSE [next EXCEPT ![r] = @ + 1]
  /\ Records(r, "executed")
  /\ held' = held \cup {To[Here(r)]}
  /\ UNCHANGED <<outcome, late, waits, live, cancelled, people, faults, batch>>

Join(r) ==
  /\ at[r] = "joining" /\ at[To[Here(r)]] = "over"
  /\ CASE outcome[To[Here(r)]] = "completed" -> Records(r, "executed") /\ Proceeds(r)
       [] outcome[To[Here(r)]] = "cancelled" -> Goes(r, "unwinding") /\ UNCHANGED <<row, next>>
       [] OTHER                              -> Goes(r, "failing") /\ UNCHANGED <<row, next>>
  /\ UNCHANGED <<outcome, late, waits, live, cancelled, held, people, faults, batch>>

(* The loop wakes with what settled its wait. *)
Wake(r) ==
  /\ at[r] = "parked" /\ taken[Here(r)] # "none"
  /\ CASE taken[Here(r)] = "approve" -> Goes(r, "tool") /\ UNCHANGED <<row, next>>
       [] taken[Here(r)] = "stop"    -> Goes(r, "unwinding") /\ UNCHANGED <<row, next>>
       [] taken[Here(r)] = "lapse"   -> Records(r, "expired") /\ Proceeds(r)
       [] OTHER                      -> Records(r, "rejected") /\ Proceeds(r)
  /\ UNCHANGED <<outcome, late, waits, live, cancelled, held, people, faults, batch>>

(* The approved tool returns or throws. *)
Execute(r) ==
  /\ at[r] = "tool"
  /\ \E status \in {"executed", "failed"} : Records(r, status)
  /\ Proceeds(r)
  /\ UNCHANGED <<outcome, late, waits, live, cancelled, held, people, faults, batch>>

(***************************************************************************)
(* How the runner settles a run.                                           *)
(***************************************************************************)

(* A turn that ends moves its queue on, and frees the thread: a Stop that  *)
(* came too late for the loop counts as a cancel.  Then its Stop and its   *)
(* registration are forgotten.                                             *)
HandsOver(r, how) ==
  /\ outcome' = [outcome EXCEPT ![r] = how]
  /\ held' = held \ {r}
  /\ Goes(r, IF r = Top THEN "closing" ELSE "over")
  /\ cancelled' = IF r \in Detached THEN cancelled \ {r} ELSE cancelled
  /\ UNCHANGED <<next, late, waits, live, people, faults, batch>>

TurnOutcome == IF Top \in cancelled THEN "cancelled" ELSE "completed"

Completes(r) ==
  /\ at[r] = "ending"
  /\ HandsOver(r, IF r = Top THEN TurnOutcome ELSE "completed")
  /\ UNCHANGED row

(* RunCancelledError: only a detached run fails the calls it leaves. *)
Unwinds(r) ==
  /\ at[r] = "unwinding"
  /\ row' = IF r \in Detached THEN FailedUnsettled(r) ELSE row
  /\ HandsOver(r, "cancelled")

FailsLeaving(r) ==   \* mutant: the cards of a failed run stay
  /\ at[r] = "failing"
  /\ Goes(r, "failed")
  /\ UNCHANGED <<next, outcome, store, waits, live, cancelled, people, faults, batch>>

(* Any other error: the calls the run leaves are failed first. *)
Fails(r) ==
  /\ at[r] = "failing"
  /\ row' = IF r \in Awaited THEN row ELSE FailedUnsettled(r)
  /\ Goes(r, "failed")
  /\ UNCHANGED <<next, outcome, late, waits, live, cancelled, held, people, faults, batch>>

FailureSettles(r) ==
  /\ at[r] = "failed"
  /\ HandsOver(r, "failed")
  /\ UNCHANGED row

Closes(r) ==
  /\ at[r] = "closing"
  /\ Goes(r, "over")
  /\ live' = live \ {r} /\ cancelled' = cancelled \ {r}
  /\ UNCHANGED <<next, outcome, store, waits, people, faults, batch>>

(***************************************************************************)
(* People, timers, and the end of the process.                             *)
(***************************************************************************)
IsOver(r) == at[r] \in {"over", "gone"}

LapsedOnRecord(c) == row[c] = "expired"   \* mutant: the timer is left to say so

(* approve or reject: refused when the request has lapsed. *)
Lapsed(c) == row[c] = "expired" \/ (row[c] = "pending_approval" /\ c \in late)

Check(p) ==
  /\ decision[p].stage = "idle"
  /\ \E c \in Human, reply \in Reply :
       /\ row[c] # "none"
       /\ decision' = [decision EXCEPT ![p] =
            [stage |-> IF Lapsed(c) THEN "refused" ELSE "checked", call |-> c, reply |-> reply,
             late |-> row[c] = "expired" \/ (c \in late /\ row[c] = "pending_approval"),
             over |-> IsOver(Owner(c))]]
  /\ UNCHANGED <<at, next, outcome, store, waits, live, cancelled, stop, stops, faults, batch>>

Reaches(p, stage) == decision' = [decision EXCEPT ![p].stage = stage]

(* Is the run still waiting? *)
Probe(p) ==
  /\ decision[p].stage = "checked"
  /\ Reaches(p, IF IsRunActive(Owner(decision[p].call)) THEN "active" ELSE "dead")
  /\ UNCHANGED <<at, next, outcome, store, waits, live, cancelled, stop, stops, faults, batch>>

(* settleDeadRun, and 409. *)
Bury(p) ==
  /\ decision[p].stage = "dead"
  /\ row' = FailedUnsettled(Owner(decision[p].call))
  /\ Reaches(p, "refused")
  /\ UNCHANGED <<at, next, outcome, late, waits, live, cancelled, held, stop, stops, faults, batch>>

SignalsKeeping(c, reply) ==   \* mutant: the settled waiter is not forgotten
  /\ taken' = Resolved({c}, reply)
  /\ UNCHANGED pending

(* signal: resolves the waiter, if there is one, and forgets it. *)
Signals(c, reply) ==
  /\ pending' = pending \ {c}
  /\ taken' = Resolved({c}, reply)

Deliver(p) ==
  /\ decision[p].stage = "active"
  /\ IF decision[p].call \in pending
     THEN Signals(decision[p].call, decision[p].reply) /\ Reaches(p, "delivered")
     ELSE Reaches(p, "dropped") /\ UNCHANGED waits
  /\ UNCHANGED <<at, next, outcome, store, live, cancelled, stop, stops, faults, batch>>

(* expiresAt passes; the timer, set when the run parked, fires after it. *)
Expire(c) ==
  /\ c \in Timed \ late
  /\ row[c] = "pending_approval" \/ c \in pending
  /\ late' = late \cup {c}
  /\ UNCHANGED <<at, next, outcome, row, waits, live, cancelled, held, people, faults, batch>>

TimerOfACard(c) ==   \* mutant: the timer looks at the card instead of the waiter
  /\ c \in late \cap pending /\ row[c] = "pending_approval"
  /\ Signals(c, "lapse")
  /\ UNCHANGED <<at, next, outcome, store, live, cancelled, people, faults, batch>>

Timer(c) ==
  /\ c \in late \cap pending
  /\ Signals(c, "lapse")
  /\ UNCHANGED <<at, next, outcome, store, live, cancelled, people, faults, batch>>

(* A Stop is checked against the thread's active stream ... *)
AskStop(r) ==
  /\ stop = NoRun /\ stops < MaxStops /\ r \in held
  /\ stop' = r /\ stops' = stops + 1
  /\ UNCHANGED <<at, next, outcome, store, waits, live, cancelled, decision, faults, batch>>

(* ... and then rejects what that run, and no other, is parked on. *)
Cancel ==
  /\ stop # NoRun
  /\ LET C == {c \in pending : Asks(stop, c)} IN
       /\ pending' = pending \ C
       /\ taken' = Resolved(C, "stop")
  /\ cancelled' = cancelled \cup {stop}
  /\ stop' = NoRun
  /\ UNCHANGED <<at, next, outcome, store, live, decision, stops, faults, batch>>

(* The process restarts: its runs, waiters, flags and requests are gone. *)
Crash ==
  /\ faults < MaxFaults /\ faults' = faults + 1
  /\ at' = [r \in Run |-> IF at[r] \in {"off", "over"} THEN at[r] ELSE "gone"]
  /\ pending' = {} /\ live' = {} /\ cancelled' = {} /\ stop' = NoRun
  /\ decision' = [p \in Person |->
       IF decision[p].stage \in {"checked", "active", "dead"}
       THEN [decision[p] EXCEPT !.stage = "lost"] ELSE decision[p]]
  /\ UNCHANGED <<next, outcome, store, taken, stops, batch>>

Loop(r) ==
  \/ Calls(r) \/ Answered(r) \/ Dispatch(r) \/ Claim(r) \/ Park(r) \/ Delegate(r) \/ Detach(r)
  \/ Join(r) \/ Wake(r) \/ Execute(r)
  \/ Completes(r) \/ Unwinds(r) \/ Fails(r) \/ FailureSettles(r) \/ Closes(r)

Next ==
  \/ \E r \in Run : Loop(r) \/ ModelFails(r) \/ AskStop(r)
  \/ \E p \in Person : Check(p) \/ Probe(p) \/ Bury(p) \/ Deliver(p)
  \/ \E c \in Call : Expire(c) \/ Timer(c)
  \/ Cancel
  \/ Crash

(* The process runs what is ready, time passes, timers fire; nobody has to *)
(* decide.                                                                 *)
Fairness ==
  /\ \A r \in Run : WF_vars(Loop(r))
  /\ \A c \in Call : WF_vars(Expire(c)) /\ WF_vars(Timer(c))

Spec == Init /\ [][Next]_vars /\ Fairness

(***************************************************************************)
(* Properties.                                                             *)
(***************************************************************************)

(* A call's row never says but what settled the call, whoever raced for    *)
(* it: executed only after an approval, expired only after its timer; and  *)
(* a decision that reached the call's waiter is what settled it.           *)
RecordedAsDecided ==
  /\ \A c \in Human : /\ row[c] = "executed" => taken[c] = "approve"
                      /\ row[c] = "rejected" => taken[c] = "reject"
                      /\ row[c] = "expired"  => taken[c] = "lapse"
  /\ \A p \in Person :
       decision[p].stage = "delivered" => taken[decision[p].call] = decision[p].reply

(* When its run has ended by itself, a decision that was taken is on the   *)
(* row, though another request found the run dead and settled its calls    *)
(* (settleDeadRun: "only still-pending calls").                            *)
DecisionIsKept ==
  \A p \in Person : decision[p].stage = "delivered" /\ at[Owner(decision[p].call)] = "over"
    => row[decision[p].call] \in
         (IF decision[p].reply = "approve" THEN {"executed", "failed"} ELSE {"rejected"})

(* No request that came after the approval lapsed, or to a run that was    *)
(* over or lost with its process, is accepted (assertRunWaiting: "Refuse a *)
(* decision addressed at a run that is over").                             *)
TooLateIsRefused ==
  \A p \in Person : decision[p].stage \in {"delivered", "dropped"}
    => ~decision[p].late /\ ~decision[p].over

(* A run that completed leaves no card waiting for a decision, nor does a  *)
(* turn or a detached run that failed, or a detached one that was stopped  *)
(* ("what a failing run calls so no approval card waits on it").  An       *)
(* awaited run that fails with a sub-agent of its own does not call it:    *)
(* the cards it had yet to run wait on.                                    *)
CardsClose ==
  \A r \in Run : /\ at[r] = "over"
                 /\ r \in Detached \/ outcome[r] = "completed"
                                   \/ (r = Top /\ outcome[r] = "failed")
    => \A c \in Call : Asks(r, c) => row[c] # "pending_approval"

(* When every approval has a time to live, a turn ends though nobody       *)
(* decides.                                                                *)
TurnEnds == <>IsOver(Top)

(* A decision that is accepted while its card waits is delivered           *)
(* (assertRunWaiting: "the person's 'yes' is accepted, the card says so,   *)
(* and nothing runs").                                                     *)
AcceptedIsDelivered ==
  [][\A p \in Person : decision[p].stage = "active" /\ decision'[p].stage = "dropped"
       => row[decision[p].call] # "pending_approval"]_vars
=============================================================================
