---------------------------- MODULE ProposalStore ---------------------------
(***************************************************************************)
(* The action proposal store of one thread, as one process keeps it        *)
(* (InMemoryActionProposalStore and the proposal half of                   *)
(* InMemoryAgentStore): every operation takes effect at one instant.  The  *)
(* callers are arbitrary: any decider, any worker with any lease token, in *)
(* any order and with a clock that may run ahead of the others.            *)
(***************************************************************************)
EXTENDS ActionProposal, Sequences

CONSTANTS Keys,           \* replacement keys
          NoKey,          \* replacementKey: undefined
          Key,            \* the replacement key of each proposal (with its tool)
          Lifetimes,      \* what creations give as expiresAt, Never among them or not
          Clocks,         \* how far a caller's clock may run ahead of the slowest
          MaxGeneration   \* bound: claims of one proposal, and of one outcome

ASSUME KeyAssumption       == Key \in [Proposal -> Keys \cup {NoKey}]
ASSUME LifetimesAssumption == Lifetimes \subseteq Nat \cup {Never}
ASSUME ClocksAssumption    == Clocks \subseteq Nat
ASSUME BoundAssumption     == MaxGeneration \in Nat

VARIABLES rows,      \* the proposal rows
          births,    \* how many were created: the next createdAt
          toolCall,  \* the status of the tool-call record of each proposal's call
          thread,    \* "free", "held" by a turn (activeStreamId), or "deleted"
          posted     \* the outcome messages of the thread, in order
vars == <<rows, births, toolCall, thread, posted>>

Init ==
  /\ rows = [p \in Proposal |-> NoRow]
  /\ births = 0
  /\ toolCall = [p \in Proposal |-> "none"]
  /\ thread = "free"
  /\ posted = <<>>

\* proposalChanged: the tool-call records follow, in the same step.
ToolCallsFollow ==
  toolCall' = [p \in Proposal |-> Followed(toolCall[p], rows[p], rows'[p])]

\* mutate: a row that exists goes through one transition.
Mutate(p, next) ==
  /\ Exists(rows[p])
  /\ rows' = [rows EXCEPT ![p] = next]
  /\ ToolCallsFollow
  /\ UNCHANGED <<births, thread, posted>>

-----------------------------------------------------------------------------
(* Creation, by a turn that proposes an action. *)

SameGroup(p, q) == Key[p] # NoKey /\ Key[q] = Key[p]

\* Mutant: the pending proposals of the group stay.
CreateOnly(p, expiresAt, now) ==
  /\ ~Exists(rows[p])
  /\ births' = births + 1
  /\ rows' = [rows EXCEPT ![p] = InitialRow(births + 1, expiresAt)]
  /\ UNCHANGED <<toolCall, thread, posted>>

\* Mutant: the new proposal is superseded by the pending one of its group.
CreateYielding(p, expiresAt, now) ==
  /\ ~Exists(rows[p])
  /\ births' = births + 1
  /\ LET row   == InitialRow(births + 1, expiresAt)
         older == {q \in Proposal : SameGroup(p, q) /\ rows[q].decision = "pending"}
     IN  rows' = [rows EXCEPT ![p] = IF older = {} THEN row
                                     ELSE Superseded(row, CHOOSE q \in older : TRUE, now)]
  /\ UNCHANGED <<toolCall, thread, posted>>

\* createReplacingActionProposal, which is createActionProposal without a key.
Create(p, expiresAt, now) ==
  /\ ~Exists(rows[p])
  /\ births' = births + 1
  /\ rows' = [q \in Proposal |->
                IF q = p THEN InitialRow(births + 1, expiresAt)
                ELSE IF SameGroup(p, q) THEN Superseded(rows[q], p, now)
                ELSE rows[q]]
  /\ ToolCallsFollow
  /\ UNCHANGED <<thread, posted>>

\* Mutant: the call is recorded as one that ran inline.
RecordExecuted(p) ==
  /\ Exists(rows[p])
  /\ toolCall[p] = "none"
  /\ toolCall' = [toolCall EXCEPT ![p] = "executed"]
  /\ UNCHANGED <<rows, births, thread, posted>>

\* recordToolCall with status `proposed`, once, after the creation.
RecordToolCall(p) ==
  /\ Exists(rows[p])
  /\ toolCall[p] = "none"
  /\ toolCall' = [toolCall EXCEPT ![p] = "proposed"]
  /\ UNCHANGED <<rows, births, thread, posted>>

-----------------------------------------------------------------------------
(* Decisions and execution leases. *)

Decide(p, decision, now) == Mutate(p, Decided(rows[p], decision, now))

\* expireActionProposals: every row that is due on the caller's clock.
ExpireDue(now) ==
  /\ rows' = [p \in Proposal |-> Decided(rows[p], "expired", now)]
  /\ ToolCallsFollow
  /\ UNCHANGED <<births, thread, posted>>

\* supersedeActionProposal: the direct call; the replacement need only exist.
Supersede(p, q, now) ==
  /\ p # q /\ SameGroup(p, q) /\ Exists(rows[q])
  /\ Mutate(p, Superseded(rows[p], q, now))

OldestFirst(candidates) ==
  {p \in candidates : \A q \in candidates : rows[p].createdAt <= rows[q].createdAt}

\* claimNextActionProposal.
ClaimNext(w, now) ==
  \E p \in OldestFirst({q \in Proposal : Claimable(rows[q], now)}) :
    /\ rows[p].execution.generation < MaxGeneration
    /\ Mutate(p, Claimed(rows[p], w, now))

Extend(p, token, now) == Mutate(p, Extended(rows[p], token, now))

Settle(p, token, status, now) == Mutate(p, SettledRow(rows[p], token, status, now))

-----------------------------------------------------------------------------
(* Outcome delivery. *)

\* claimNextActionProposalOutcome.
ClaimNextOutcome(w, now) ==
  \E p \in OldestFirst({q \in Proposal : OutcomeClaimable(rows[q], now)}) :
    /\ rows[p].delivery.generation < MaxGeneration
    /\ rows' = [rows EXCEPT ![p] = ClaimedOutcome(@, w, now)]
    /\ UNCHANGED <<births, toolCall, thread, posted>>

\* Mutant: the message is stored, and the delivery is left to a later step.
AdmitMessageOnly(p, token, now) ==
  /\ OutcomeFenceValid(rows[p], token, now)
  /\ thread = "free"
  /\ posted' = Append(posted, p)
  /\ UNCHANGED <<rows, births, toolCall, thread>>

\* Mutant: the thread is taken for free while a turn holds it.
AdmitWhileHeld(p, token, now) ==
  /\ OutcomeFenceValid(rows[p], token, now)
  /\ thread # "deleted"
  /\ rows' = [rows EXCEPT ![p].delivery.status = "admitted", ![p].delivery.lease = NoLease]
  /\ posted' = Append(posted, p)
  /\ UNCHANGED <<births, toolCall, thread>>

\* admitActionProposalOutcome with a valid fence: a thread that is gone discards
\* the outcome, a thread a turn holds keeps it waiting ("busy"), a free one takes it.
Admit(p, token, now) ==
  /\ OutcomeFenceValid(rows[p], token, now)
  /\ \/ /\ thread = "deleted"
        /\ rows' = [rows EXCEPT ![p].delivery.status = "discarded",
                                ![p].delivery.lease = NoLease]
        /\ UNCHANGED posted
     \/ /\ thread = "free"
        /\ rows' = [rows EXCEPT ![p].delivery.status = "admitted",
                                ![p].delivery.lease = NoLease]
        /\ posted' = Append(posted, p)
  /\ UNCHANGED <<births, toolCall, thread>>

-----------------------------------------------------------------------------
(* The thread and the clock. *)

\* claimActiveStream and releaseActiveStream, for the turn that holds the thread.
HoldThread    == thread = "free" /\ thread' = "held"
ReleaseThread == thread = "held" /\ thread' = "free"
DeleteThread  == thread # "deleted" /\ thread' = "deleted"
ThreadStep    == /\ HoldThread \/ ReleaseThread \/ DeleteThread
                 /\ UNCHANGED <<rows, births, toolCall, posted>>

Tick ==
  /\ rows' = [p \in Proposal |-> Elapse(rows[p])]
  /\ UNCHANGED <<births, toolCall, thread, posted>>

\* Lease tokens a caller may present: drawn by a claim of this proposal.
Tokens == [worker : Worker, generation : 1..MaxGeneration]

ProposalStep(p, now) ==
  \/ \E expiresAt \in Lifetimes : Create(p, expiresAt, now)
  \/ RecordToolCall(p)
  \/ \E decision \in {"approved", "rejected", "expired"} : Decide(p, decision, now)
  \/ \E q \in Proposal : Supersede(p, q, now)
  \/ \E token \in Tokens : Extend(p, token, now)
  \/ \E token \in Tokens, status \in Settled : Settle(p, token, status, now)
  \/ \E token \in Tokens : Admit(p, token, now)

Next ==
  \/ \E now \in Clocks :
       \/ \E p \in Proposal : ProposalStep(p, now)
       \/ ExpireDue(now)
       \/ \E w \in Worker : ClaimNext(w, now) \/ ClaimNextOutcome(w, now)
  \/ ThreadStep
  \/ Tick

Spec == Init /\ [][Next]_vars

-----------------------------------------------------------------------------
(* Invariants. *)

\* Every variable has the values the code gives it.
TypeOK ==
  /\ rows \in [Proposal -> Row]
  /\ births \in Nat
  /\ toolCall \in [Proposal -> ToolCallStatuses]
  /\ thread \in {"free", "held", "deleted"}
  /\ posted \in Seq(Proposal)

\* Execution work exists exactly for approved proposals: nothing refused,
\* lapsed, superseded or undecided can be claimed or run, ever.
ExecutionOnlyIfApproved ==
  \A p \in Proposal : rows[p].execution.status # "none" <=> rows[p].decision = "approved"

\* attachActionProposalOutcome keeps the first outcome it attached: it must not
\* have been attached before the proposal's last word, nor be missing after it.
OutcomeTellsWhatHappened ==
  \A p \in Proposal :
    LET row == rows[p]
    IN  /\ Finished(row) <=> row.outcome # NoOutcome
        /\ Finished(row) => /\ row.outcome.decision = row.decision
                            /\ row.decision = "approved" =>
                                 row.outcome.executionStatus = row.execution.status

\* The thread has one message for each admitted outcome, and no other: claims of
\* one outcome by several workers, late or repeated admissions never post twice.
PostedOnce ==
  /\ \A p \in Proposal : rows[p].delivery.status = "admitted" <=>
                            \E i \in 1..Len(posted) : posted[i] = p
  /\ \A i, j \in 1..Len(posted) : posted[i] = posted[j] => i = j

\* createReplacingActionProposal leaves at most one pending proposal of a
\* replacement group: an approver never sees two live cards for one action.
OnePendingPerGroup ==
  \A p, q \in Proposal :
    p # q /\ SameGroup(p, q) => ~(rows[p].decision = "pending" /\ rows[q].decision = "pending")

\* The tool-call record never says more than the proposal does: a call marked
\* executed, failed, rejected or expired is one whose proposal ended that way.
ToolCallNeverLies ==
  \A p \in Proposal :
    toolCall[p] \in {"none", "proposed", ToolCallStatus(rows[p])}

\* What the proofs carry from step to step: RowInv ties each row's execution,
\* lease and outcome to its decision.
Inv ==
  /\ TypeOK
  /\ \A p \in Proposal : RowInv(rows[p])
  /\ PostedOnce
  /\ OnePendingPerGroup
  /\ ToolCallNeverLies

-----------------------------------------------------------------------------
(* Action properties. *)

\* Decisions are first-wins: no later command, sweep, claim, settlement or
\* replacement changes a decision that was taken or an outcome that was attached.
FirstWins ==
  [][\A p \in Proposal :
       /\ rows[p].decision \notin {"none", "pending"} =>
            rows'[p].decision = rows[p].decision
       /\ Finished(rows[p]) =>
            /\ rows'[p].outcome = rows[p].outcome
            /\ rows'[p].execution = rows[p].execution]_vars

\* A pending proposal that is past its deadline on every clock can only expire.
NeverDecidedLate ==
  [][\A p \in Proposal :
       rows[p].decision = "pending" /\ rows[p].expiresAt = 0 =>
         rows'[p].decision \in {"pending", "expired"}]_vars

\* A settlement is of the latest claim, under a lease that has not run out on
\* every clock: a worker that lost its lease never has the last word.
SettledUnderLease ==
  [][\A p \in Proposal :
       rows[p].execution.status \notin Settled /\ rows'[p].execution.status \in Settled =>
         /\ rows[p].execution.status = "executing"
         /\ rows[p].execution.lease.expiresAt > 0
         /\ rows'[p].execution.generation = rows[p].execution.generation]_vars

\* supersededBy names "a newer proposal": the one that replaced this one was
\* created after it (action-proposal-tool-call.ts:12-13, docs "Replacing a
\* pending action").
ReplacedByNewer ==
  \A p \in Proposal :
    rows[p].decision = "superseded" =>
      rows[rows[p].supersededBy].createdAt > rows[p].createdAt

-----------------------------------------------------------------------------
(* The store implements the life of a proposal: leases, generations,       *)
(* deadlines and tool-call records are the means, and do not show.         *)

Lifecycle == INSTANCE ProposalLifecycle
               WITH state <- [p \in Proposal |-> LifeOf(rows[p])],
                    told  <- [p \in Proposal |-> rows[p].delivery.status]

\* Every step of the store is a step of the life of a proposal, or changes
\* nothing of it (a renewal, a recovery after a lapsed lease, a refused call).
ImplementsLifecycle == Lifecycle!LSpec
=============================================================================
