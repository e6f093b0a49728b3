--------------------------- MODULE ActionProposal ---------------------------
(***************************************************************************)
(* The row of one independent action proposal and the pure transitions the *)
(* stores apply to it (action-proposal-transitions.ts and                  *)
(* action-proposal-outcome.ts).  Each transition takes the row and the     *)
(* caller's clock and returns the row it becomes; a refused transition     *)
(* returns the row it was given, as the code's "conflict", "unchanged" and *)
(* early "expired" results do.                                             *)
(*                                                                         *)
(* Time.  A deadline is held as the time left on the clock of the slowest  *)
(* host, so the passing of time is a decrement (Elapse) and `now`, the     *)
(* clock the code reads, is how far the caller's clock runs ahead of the   *)
(* slowest one.  `now >= expiresAt` reads as it does in the code.          *)
(***************************************************************************)
EXTENDS Integers

CONSTANTS Proposal,     \* proposal ids
          Worker,       \* worker ids
          NoProposal,   \* no superseding proposal
          NoWorker,     \* the worker of the absent lease
          LeaseMs       \* ActionProposalWorkerOptions.leaseMs

ASSUME LeaseMsAssumption == LeaseMs \in Nat \ {0}
ASSUME NullsAssumption   == NoProposal \notin Proposal /\ NoWorker \notin Worker

-----------------------------------------------------------------------------
(* The row. *)

Never == -1             \* expiresAt: null

\* A lease token is a fresh UUID: it names the one claim that drew it, which
\* is the worker and the generation the claim created.
Token    == [worker : Worker \cup {NoWorker}, generation : Nat]
NoToken  == [worker |-> NoWorker, generation |-> 0]
Lease    == [token : Token, expiresAt : Nat]
NoLease  == [token |-> NoToken, expiresAt |-> 0]

Refusals  == {"rejected", "expired", "superseded"}
Decisions == {"pending", "approved"} \cup Refusals
Settled   == {"succeeded", "failed"}

Execution == [status     : {"none", "queued", "executing"} \cup Settled,
              generation : Nat,
              lease      : Lease]
Outcome   == [decision : {"none", "approved"} \cup Refusals,
              executionStatus : {"none"} \cup Settled]
Delivery  == [status     : {"none", "pending", "admitted", "discarded"},
              generation : Nat,
              lease      : Lease]
Row       == [decision     : {"none"} \cup Decisions,
              supersededBy : Proposal \cup {NoProposal},
              createdAt    : Nat,
              expiresAt    : Nat \cup {Never},
              execution    : Execution,
              outcome      : Outcome,
              delivery     : Delivery]

NoExecution == [status |-> "none", generation |-> 0, lease |-> NoLease]
NoOutcome   == [decision |-> "none", executionStatus |-> "none"]
NoDelivery  == [status |-> "none", generation |-> 0, lease |-> NoLease]

\* The row of an id that was never created.
NoRow == [decision |-> "none", supersededBy |-> NoProposal, createdAt |-> 0,
          expiresAt |-> Never, execution |-> NoExecution,
          outcome |-> NoOutcome, delivery |-> NoDelivery]

Exists(row)   == row.decision # "none"
Finished(row) == \/ row.decision \in Refusals
                 \/ row.execution.status \in Settled

\* createdAt is the rank of the creation: the order claims and sweeps go by.
InitialRow(createdAt, expiresAt) ==
  [NoRow EXCEPT !.decision = "pending", !.createdAt = createdAt, !.expiresAt = expiresAt]

-----------------------------------------------------------------------------
(* The outcome a finished proposal carries, and its delivery. *)

Attach(row) ==
  IF row.outcome # NoOutcome
  THEN row
  ELSE [row EXCEPT
         !.outcome  = [decision |-> row.decision,
                       executionStatus |-> IF row.execution.status \in Settled
                                           THEN row.execution.status ELSE "none"],
         !.delivery = [status |-> "pending", generation |-> 0, lease |-> NoLease]]

\* Mutant: a claimed outcome is never taken over when its claim lapses.
OutcomeClaimableOnce(row, now) ==
  /\ row.outcome # NoOutcome
  /\ row.delivery.status = "pending"
  /\ row.delivery.lease = NoLease

OutcomeClaimable(row, now) ==
  /\ row.outcome # NoOutcome
  /\ row.delivery.status = "pending"
  /\ row.delivery.lease = NoLease \/ now >= row.delivery.lease.expiresAt

ClaimedOutcome(row, worker, now) ==
  LET generation == row.delivery.generation + 1
  IN  IF OutcomeClaimable(row, now)
      THEN [row EXCEPT
             !.delivery.generation = generation,
             !.delivery.lease = [token |-> [worker |-> worker, generation |-> generation],
                                 expiresAt |-> now + LeaseMs]]
      ELSE row

OutcomeFenceValid(row, token, now) ==
  /\ row.outcome # NoOutcome
  /\ row.delivery.status = "pending"
  /\ row.delivery.generation = token.generation
  /\ row.delivery.lease.token = token
  /\ now < row.delivery.lease.expiresAt

-----------------------------------------------------------------------------
(* Decisions. *)

\* Mutant: the deadline itself is still in time.
DueAfter(row, now) == row.expiresAt # Never /\ now > row.expiresAt

Due(row, now) == row.expiresAt # Never /\ now >= row.expiresAt

Lapsed(row) == Attach([row EXCEPT !.decision = "expired"])

Queued(row) ==
  [row EXCEPT !.decision = "approved",
              !.execution = [status |-> "queued", generation |-> 0, lease |-> NoLease]]

\* Mutant: the deadline is looked at before the decision that was taken.
DecidedAnyTime(row, decision, now) ==
  CASE Due(row, now) -> Lapsed(row)
    [] ~Due(row, now) /\ row.decision = "pending" /\ decision = "approved" -> Queued(row)
    [] ~Due(row, now) /\ row.decision = "pending" /\ decision = "rejected" ->
         Attach([row EXCEPT !.decision = "rejected"])
    [] OTHER -> row

\* A pending proposal past its deadline expires, whatever was decided.
Decided(row, decision, now) ==
  CASE row.decision # "pending"                  -> row
    [] row.decision = "pending" /\ Due(row, now) -> Lapsed(row)
    [] row.decision = "pending" /\ ~Due(row, now) /\ decision = "approved" -> Queued(row)
    [] row.decision = "pending" /\ ~Due(row, now) /\ decision = "rejected" ->
         Attach([row EXCEPT !.decision = "rejected"])
    [] OTHER -> row

\* The caller has checked that the replacement is of the row's own group.
Superseded(row, replacement, now) ==
  CASE row.decision # "pending"                  -> row
    [] row.decision = "pending" /\ Due(row, now) -> Lapsed(row)
    [] OTHER -> Attach([row EXCEPT !.decision = "superseded",
                                   !.supersededBy = replacement])

-----------------------------------------------------------------------------
(* Execution under a fenced lease. *)

\* Mutant: work in execution is recovered whether or not its lease ran out.
ClaimableWhileLeased(row, now) ==
  row.decision = "approved" /\ row.execution.status \in {"queued", "executing"}

\* Mutant: only queued work is claimed, none is recovered.
ClaimableOnce(row, now) == row.decision = "approved" /\ row.execution.status = "queued"

Claimable(row, now) ==
  /\ row.decision = "approved"
  /\ \/ row.execution.status = "queued"
     \/ /\ row.execution.status = "executing"
        /\ now >= row.execution.lease.expiresAt

Claimed(row, worker, now) ==
  LET generation == row.execution.generation + 1
  IN  IF Claimable(row, now)
      THEN [row EXCEPT !.execution =
             [status |-> "executing", generation |-> generation,
              lease |-> [token |-> [worker |-> worker, generation |-> generation],
                         expiresAt |-> now + LeaseMs]]]
      ELSE row

\* leaseStatus: the lease is this claim's own ...
HoldsLease(row, token) ==
  /\ row.decision = "approved"
  /\ row.execution.status = "executing"
  /\ row.execution.generation = token.generation
  /\ row.execution.lease.token = token

\* ... and has not run out.
FenceValid(row, token, now) ==
  HoldsLease(row, token) /\ now < row.execution.lease.expiresAt

Later(a, b) == IF a >= b THEN a ELSE b

Extended(row, token, now) ==
  IF FenceValid(row, token, now)
  THEN [row EXCEPT !.execution.lease.expiresAt = Later(@, now + LeaseMs)]
  ELSE row

\* Mutant: a lease is still good at the moment it ends.
SettledAtTheEnd(row, token, status, now) ==
  IF HoldsLease(row, token) /\ now <= row.execution.lease.expiresAt
  THEN Attach([row EXCEPT !.execution = [status |-> status,
                                         generation |-> token.generation,
                                         lease |-> NoLease]])
  ELSE row

\* Mutant: the outcome is attached before the execution has its end.
SettledAfterAttach(row, token, status, now) ==
  IF FenceValid(row, token, now)
  THEN [Attach(row) EXCEPT !.execution = [status |-> status,
                                          generation |-> token.generation,
                                          lease |-> NoLease]]
  ELSE row

SettledRow(row, token, status, now) ==
  IF FenceValid(row, token, now)
  THEN Attach([row EXCEPT !.execution = [status |-> status,
                                         generation |-> token.generation,
                                         lease |-> NoLease]])
  ELSE row

-----------------------------------------------------------------------------
(* Time passing by one unit for one row. *)

Less(t) == IF t > 0 THEN t - 1 ELSE t

Elapse(row) ==
  [row EXCEPT !.expiresAt = Less(@),
              !.execution.lease.expiresAt = Less(@),
              !.delivery.lease.expiresAt = Less(@)]

-----------------------------------------------------------------------------
(* What the proposal says of the tool call that proposed it                *)
(* (toolCallUpdateForProposal): "none" while it has nothing to say.        *)

ToolCallStatus(row) ==
  CASE row.decision = "rejected"                 -> "rejected"
    [] row.decision \in {"expired", "superseded"} -> "expired"
    [] row.decision = "approved" /\ row.execution.status = "succeeded" -> "executed"
    [] row.decision = "approved" /\ row.execution.status = "failed"    -> "failed"
    [] OTHER -> "none"

ToolCallStatuses == {"none", "proposed", "executed", "failed", "rejected", "expired"}

\* A record that exists follows a transition from one row to the next.
Followed(record, previous, next) ==
  IF /\ record # "none"
     /\ ToolCallStatus(next) # "none"
     /\ ToolCallStatus(previous) # ToolCallStatus(next)
  THEN ToolCallStatus(next)
  ELSE record

-----------------------------------------------------------------------------
(* What holds of every row a store keeps.                                  *)

RowInv(row) ==
  \* execution work is created with the approval and never without it
  /\ IF row.decision = "approved" THEN row.execution.status # "none"
                                  ELSE row.execution = NoExecution
  \* the lease is the latest claim's, while it executes
  /\ IF row.execution.status = "executing"
     THEN /\ row.execution.lease.token.worker # NoWorker
          /\ row.execution.lease.token.generation = row.execution.generation
          /\ row.execution.generation > 0
     ELSE row.execution.lease = NoLease
  \* the outcome is there exactly at the end, and is of that end
  /\ IF Finished(row)
     THEN /\ row.outcome.decision = row.decision
          /\ row.outcome.executionStatus = IF row.decision = "approved"
                                           THEN row.execution.status ELSE "none"
          /\ row.delivery.status # "none"
     ELSE row.outcome = NoOutcome /\ row.delivery = NoDelivery
  \* the replacement is named exactly by a superseded row
  /\ row.decision = "superseded" <=> row.supersededBy # NoProposal

\* Where the proposal is in its life, leases and generations aside.
LifeOf(row) == IF row.decision = "approved" /\ row.execution.status # "queued"
               THEN row.execution.status
               ELSE row.decision
=============================================================================
