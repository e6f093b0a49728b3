--------------------------- MODULE ProposalWorker ---------------------------
(***************************************************************************)
(* The proposal workers of a deployment (ActionProposalWorker) over the    *)
(* store, with the turns that propose, the people who decide, and what can *)
(* fail: a worker that crashes, stalls past its lease, is stopped by a     *)
(* deployment, or whose store call throws.                                 *)
(***************************************************************************)
EXTENDS ProposalStore, FiniteSets

CONSTANTS MaxConcurrency,  \* ActionProposalWorkerOptions.maxConcurrency
          Clock,           \* how far the clock of each worker's host runs ahead
          MaxFaults,       \* bound: crashes, stalls, stops and failed store calls
          MaxTurns,        \* bound: turns of the conversation
          MaxBusy          \* bound: deliveries one conversation turns away as busy

ASSUME ConcurrencyAssumption == MaxConcurrency \in Nat \ {0}
ASSUME ClockAssumption == Clocks # {} /\ Clock \in [Worker -> Clocks]
\* On clocks that agree MaxGeneration never refuses a claim: each new one needs a
\* fault or a busy thread.  (A fast clock claims again what is still leased.)
ASSUME LooseBound == MaxGeneration > MaxFaults + MaxBusy

VARIABLES pc,        \* where each worker's tick is
          claims,    \* proposals its tick has claimed
          jobs,      \* the executions it has in flight
          delivery,  \* the proposal whose outcome it is admitting, and under which claim
          stopped,   \* stop() was called
          writing,   \* the proposal a turn created and has not recorded a call for
          faults, turns, busy
wvars == <<pc, claims, jobs, delivery, stopped, writing, faults, turns, busy>>
allvars == <<vars, wvars>>

\* `tick` is what became of the tick that claimed it: still "open", "rejected" by
\* Promise.all, which handles what its other executions throw later, or "thrown"
\* out of while claiming, which leaves nobody to handle it.
Job == [proposal : Proposal, generation : 1..MaxGeneration,
        phase : {"running"} \cup Settled, fenced : BOOLEAN,
        tick : {"open", "rejected", "thrown"}]
NoDeliveryHeld == [proposal |-> NoProposal, generation |-> 0]

TokenOf(w, claim) == [worker |-> w, generation |-> claim.generation]

WInit ==
  /\ Init
  /\ pc = [w \in Worker |-> "idle"]
  /\ claims = [w \in Worker |-> 0]
  /\ jobs = [w \in Worker |-> {}]
  /\ delivery = [w \in Worker |-> NoDeliveryHeld]
  /\ stopped = [w \in Worker |-> FALSE]
  /\ writing = NoProposal
  /\ faults = 0 /\ turns = 0 /\ busy = 0

Goto(w, from, to) == pc[w] = from /\ pc' = [pc EXCEPT ![w] = to]

-----------------------------------------------------------------------------
(* The tick: expire, claim, wait for the executions, deliver outcomes.     *)

\* Mutant: the tick does not sweep.
StartTickUnswept(w) ==
  /\ ~stopped[w]
  /\ Goto(w, "idle", "claim")
  /\ claims' = [claims EXCEPT ![w] = 0]
  /\ UNCHANGED <<vars, jobs, delivery, stopped, writing, faults, turns, busy>>

StartTick(w) ==
  /\ ~stopped[w]
  /\ Goto(w, "idle", "claim")
  /\ claims' = [claims EXCEPT ![w] = 0]
  /\ ExpireDue(Clock[w])
  /\ UNCHANGED <<jobs, delivery, stopped, writing, faults, turns, busy>>

MayClaim(w) == claims[w] < MaxConcurrency /\ ~stopped[w]

Claim(w) ==
  /\ pc[w] = "claim" /\ MayClaim(w)
  /\ ClaimNext(w, Clock[w])
  /\ claims' = [claims EXCEPT ![w] = @ + 1]
  /\ jobs' = [jobs EXCEPT ![w] = @ \cup
       {[proposal |-> p, generation |-> rows'[p].execution.generation,
         phase |-> "running", fenced |-> TRUE, tick |-> "open"] :
          p \in {q \in Proposal : rows'[q].execution.generation # rows[q].execution.generation
                                  /\ rows'[q].execution.status = "executing"}}]
  /\ UNCHANGED <<pc, delivery, stopped, writing, faults, turns, busy>>

ClaimsDone(w) ==
  /\ Goto(w, "claim", "work")
  /\ ~MayClaim(w) \/ \A p \in Proposal : ~Claimable(rows[p], Clock[w])
  /\ UNCHANGED <<vars, claims, jobs, delivery, stopped, writing, faults, turns, busy>>

WorkDone(w) ==
  /\ Goto(w, "work", "outcomes")
  /\ \A j \in jobs[w] : j.tick # "open"
  /\ UNCHANGED <<vars, claims, jobs, delivery, stopped, writing, faults, turns, busy>>

TakeOutcome(w) ==
  /\ ~stopped[w]
  /\ Goto(w, "outcomes", "admit")
  /\ ClaimNextOutcome(w, Clock[w])
  /\ \E p \in Proposal :
       /\ rows'[p].delivery # rows[p].delivery
       /\ delivery' = [delivery EXCEPT ![w] =
                         [proposal |-> p, generation |-> rows'[p].delivery.generation]]
  /\ UNCHANGED <<claims, jobs, stopped, writing, faults, turns, busy>>

OutcomesDone(w) ==
  /\ Goto(w, "outcomes", "idle")
  /\ stopped[w] \/ \A p \in Proposal : ~OutcomeClaimable(rows[p], Clock[w])
  /\ UNCHANGED <<vars, claims, jobs, delivery, stopped, writing, faults, turns, busy>>

\* "applied" or "discarded"; "busy" leaves the claim to lapse; "conflict" is late.
AdmitOutcome(w) ==
  LET p == delivery[w].proposal
      token == TokenOf(w, delivery[w])
  IN  /\ Goto(w, "admit", "outcomes")
      /\ \/ Admit(p, token, Clock[w]) /\ UNCHANGED busy
         \/ /\ OutcomeFenceValid(rows[p], token, Clock[w]) /\ thread = "held"
            /\ busy < MaxBusy /\ busy' = busy + 1
            /\ UNCHANGED vars
         \/ ~OutcomeFenceValid(rows[p], token, Clock[w]) /\ UNCHANGED <<vars, busy>>
      /\ delivery' = [delivery EXCEPT ![w] = NoDeliveryHeld]
      /\ UNCHANGED <<claims, jobs, stopped, writing, faults, turns>>

-----------------------------------------------------------------------------
(* One execution: invoke the tool, renew the lease meanwhile, then settle. *)

Replace(w, j, by) == jobs' = [jobs EXCEPT ![w] = (@ \ {j}) \cup by]

Invoke(w, j) ==
  /\ j.phase = "running"
  /\ \E end \in Settled : Replace(w, j, {[j EXCEPT !.phase = end]})
  /\ UNCHANGED <<vars, pc, claims, delivery, stopped, writing, faults, turns, busy>>

\* The interval fires before the lease ends; stop() clears it, and the end of
\* the invocation does.
Renewing(w, j) == j.phase = "running" /\ j.fenced /\ ~stopped[w]

Renew(w, j) ==
  /\ Renewing(w, j)
  /\ HoldsLease(rows[j.proposal], TokenOf(w, j)) =>
       rows[j.proposal].execution.lease.expiresAt < Clock[w] + LeaseMs
  /\ Extend(j.proposal, TokenOf(w, j), Clock[w])
  /\ Replace(w, j, {[j EXCEPT !.fenced = FenceValid(rows[j.proposal], TokenOf(w, j), Clock[w])]})
  /\ UNCHANGED <<pc, claims, delivery, stopped, writing, faults, turns, busy>>

\* Mutant: the end of the work is written whatever became of the lease.
SettleJobUnfenced(w, j) ==
  /\ j.phase \in Settled
  /\ rows' = [rows EXCEPT ![j.proposal].execution.status = j.phase,
                          ![j.proposal].execution.lease = NoLease]
  /\ UNCHANGED <<births, toolCall, thread, posted>>
  /\ Replace(w, j, {})
  /\ UNCHANGED <<pc, claims, delivery, stopped, writing, faults, turns, busy>>

SettleJob(w, j) ==
  /\ j.phase \in Settled
  /\ IF j.fenced THEN Settle(j.proposal, TokenOf(w, j), j.phase, Clock[w]) ELSE UNCHANGED vars
  /\ Replace(w, j, {})
  /\ UNCHANGED <<pc, claims, delivery, stopped, writing, faults, turns, busy>>

-----------------------------------------------------------------------------
(* What can fail.                                                          *)

Fault == faults < MaxFaults /\ faults' = faults + 1

\* A renewal that throws, whether or not the store took it, gives the fence up;
\* the invocation goes on.
RenewThrows(w, j) ==
  /\ Fault /\ Renewing(w, j)
  /\ Extend(j.proposal, TokenOf(w, j), Clock[w]) \/ UNCHANGED vars
  /\ Replace(w, j, {[j EXCEPT !.fenced = FALSE]})
  /\ UNCHANGED <<pc, claims, delivery, stopped, writing, turns, busy>>

\* The process of the worker ends and comes back with nothing in memory.
Restart(w) ==
  /\ pc' = [pc EXCEPT ![w] = "idle"]
  /\ jobs' = [jobs EXCEPT ![w] = {}]
  /\ delivery' = [delivery EXCEPT ![w] = NoDeliveryHeld]
  /\ stopped' = [stopped EXCEPT ![w] = FALSE]
  /\ UNCHANGED <<claims, writing, turns, busy>>

Crash(w) == Fault /\ Restart(w) /\ UNCHANGED vars

\* The tick of w is over, and what it claimed goes on by itself.
LeaveTick(w, left, end) ==
  /\ pc' = [pc EXCEPT ![w] = "idle"]
  /\ jobs' = [jobs EXCEPT ![w] =
                {IF j.tick = "open" THEN [j EXCEPT !.tick = end] ELSE j : j \in left}]

\* A settlement that throws, whether or not the store took it.  Promise.all rejects
\* and the tick is over, with its other executions still in flight.  While the tick
\* is still claiming no one has awaited the execution yet, and after a tick that
\* threw while claiming no one ever will: an unhandled rejection ends the process.
SettleThrows(w, j) ==
  /\ Fault /\ j.phase \in Settled /\ j.fenced
  /\ Settle(j.proposal, TokenOf(w, j), j.phase, Clock[w]) \/ UNCHANGED vars
  /\ \/ /\ j.tick = "open" /\ pc[w] = "work"
        /\ LeaveTick(w, jobs[w] \ {j}, "rejected")
        /\ UNCHANGED <<claims, delivery, stopped, writing, turns, busy>>
     \/ /\ j.tick = "thrown" \/ (j.tick = "open" /\ pc[w] = "claim")
        /\ Restart(w)
     \/ /\ j.tick = "rejected"
        /\ Replace(w, j, {})
        /\ UNCHANGED <<pc, claims, delivery, stopped, writing, turns, busy>>

\* One of the tick's own store calls throws, whether or not the store took it: the
\* sweep, a claim, the claim of an outcome or its admission.  The next tick starts
\* anew; what the store took is nobody's until its lease lapses.
TickCalls(w) ==
  \/ pc[w] \in {"idle", "outcomes"} /\ ~stopped[w]
  \/ pc[w] = "claim" /\ MayClaim(w)
  \/ pc[w] = "admit"

TickCall(w) ==
  \/ pc[w] = "idle" /\ ExpireDue(Clock[w])
  \/ pc[w] = "claim" /\ ClaimNext(w, Clock[w])
  \/ pc[w] = "outcomes" /\ ClaimNextOutcome(w, Clock[w])
  \/ pc[w] = "admit" /\ Admit(delivery[w].proposal, TokenOf(w, delivery[w]), Clock[w])

TickThrows(w) ==
  /\ Fault /\ TickCalls(w)
  /\ TickCall(w) \/ UNCHANGED vars
  /\ LeaveTick(w, jobs[w], "thrown")
  /\ delivery' = [delivery EXCEPT ![w] = NoDeliveryHeld]
  /\ UNCHANGED <<claims, stopped, writing, turns, busy>>

\* stop(): no new claims, no renewals; the tick in flight runs to its end.
Stop(w) ==
  /\ Fault /\ ~stopped[w]
  /\ \E v \in Worker \ {w} : ~stopped[v]
  /\ stopped' = [stopped EXCEPT ![w] = TRUE]
  /\ UNCHANGED <<vars, pc, claims, jobs, delivery, writing, turns, busy>>

-----------------------------------------------------------------------------
(* The conversation, the deciders and the clock.                           *)

BeginTurn ==
  /\ HoldThread /\ turns < MaxTurns /\ turns' = turns + 1
  /\ UNCHANGED <<rows, births, toolCall, posted, pc, claims, jobs, delivery, stopped, writing,
                 faults, busy>>

\* claimToolCall: the proposal first, then the record of the call.
TurnProposes ==
  /\ thread = "held" /\ writing = NoProposal
  /\ \E p \in Proposal, expiresAt \in Lifetimes, now \in Clocks :
       Create(p, expiresAt, now) /\ writing' = p
  /\ UNCHANGED <<pc, claims, jobs, delivery, stopped, faults, turns, busy>>

TurnRecords ==
  /\ writing # NoProposal
  /\ RecordToolCall(writing)
  /\ writing' = NoProposal
  /\ UNCHANGED <<pc, claims, jobs, delivery, stopped, faults, turns, busy>>

EndTurn ==
  /\ ReleaseThread /\ writing = NoProposal
  /\ UNCHANGED <<rows, births, toolCall, posted, wvars>>

Delete == DeleteThread /\ UNCHANGED <<rows, births, toolCall, posted, wvars>>

Decision(p) ==
  /\ \E decision \in {"approved", "rejected"}, now \in Clocks : Decide(p, decision, now)
  /\ UNCHANGED wvars

\* A worker's timers and store calls keep within its lease ...
InTime ==
  \A w \in Worker :
    /\ \A j \in jobs[w] : j.fenced /\ ~stopped[w] /\ HoldsLease(rows[j.proposal], TokenOf(w, j))
                            => rows[j.proposal].execution.lease.expiresAt > Clock[w] + 1
    /\ pc[w] = "admit" => LET p == delivery[w].proposal
                          IN  OutcomeFenceValid(rows[p], TokenOf(w, delivery[w]), Clock[w])
                                => rows[p].delivery.lease.expiresAt > Clock[w] + 1

TimePasses == Tick /\ InTime /\ UNCHANGED wvars

\* ... unless the process stalls.
Stall == Fault /\ Tick /\ ~InTime
               /\ UNCHANGED <<pc, claims, jobs, delivery, stopped, writing, turns, busy>>

-----------------------------------------------------------------------------
Loop(w) == \/ StartTick(w) \/ Claim(w) \/ ClaimsDone(w) \/ WorkDone(w)
           \/ TakeOutcome(w) \/ OutcomesDone(w) \/ AdmitOutcome(w)

Execute(w) == \E j \in jobs[w] : Invoke(w, j) \/ SettleJob(w, j)
Renewals(w) == \E j \in jobs[w] : Renew(w, j)

Faults(w) == \/ \E j \in jobs[w] : RenewThrows(w, j) \/ SettleThrows(w, j)
             \/ TickThrows(w) \/ Crash(w) \/ Stop(w)

WNext ==
  \/ \E w \in Worker : Loop(w) \/ Execute(w) \/ Renewals(w) \/ Faults(w)
  \/ BeginTurn \/ TurnProposes \/ TurnRecords \/ EndTurn \/ Delete
  \/ \E p \in Proposal : Decision(p)
  \/ TimePasses \/ Stall

\* A running worker keeps ticking, a tool returns, a turn ends, time passes.
Fairness ==
  /\ \A w \in Worker : /\ WF_allvars(Loop(w))
                       /\ WF_allvars(Execute(w))
                       /\ WF_allvars(Renewals(w))
  /\ WF_allvars(TurnRecords) /\ WF_allvars(EndTurn) /\ WF_allvars(TimePasses)

WSpec == WInit /\ [][WNext]_allvars /\ Fairness

-----------------------------------------------------------------------------
(* Properties. *)

\* The workers, the turns and the deciders use the store only through its
\* operations: all that holds of ProposalStore holds of them.
ImplementsStore == Spec

\* The hosts' clocks are synchronized.  A worker whose clock runs ahead recovers work
\* whose lease is still running, and renewals, on each one's own clock, do not help.
ClocksAgree == \A v, w \in Worker : Clock[v] = Clock[w]

\* While the clocks agree, an approved action is claimed a second time only after
\* something failed: with renewals on time there is one execution, and one more for
\* each fault at most.
OneClaimPerFault == \A p \in Proposal : rows[p].execution.generation <= 1 + faults

\* What an approval put in motion ends, though workers crash, stall and stop.
ApprovedIsSettled ==
  \A p \in Proposal : rows[p].decision = "approved" ~> Finished(rows[p])

\* Every end reaches the conversation, or is discarded with it.
OutcomeIsTold ==
  \A p \in Proposal :
    Finished(rows[p]) ~> rows[p].delivery.status \in {"admitted", "discarded"}

\* A proposal with a deadline does not wait for a decision forever.
PendingLapses ==
  \A p \in Proposal :
    rows[p].decision = "pending" /\ rows[p].expiresAt # Never ~> rows[p].decision # "pending"
=============================================================================
