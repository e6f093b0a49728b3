------------------------ MODULE ProposalStore_proofs ------------------------
(* The safety of the proposal store, for every set of proposals, workers   *)
(* and replacement groups, every lease, deadline and clock.                *)
EXTENDS ProposalStore, TLAPS

(***************************************************************************)
(* One row: each transition of ActionProposal keeps what holds of every    *)
(* row (RowInv) and takes only the steps a row may take (RowStep).         *)
(***************************************************************************)

\* What no transition may do to a row, whatever the caller's clock and however
\* much time passes before its result is written.
RowMove(row, next) ==
  /\ next \in Row /\ RowInv(next)
  /\ next.decision \in {"none", "pending"} => next.decision = row.decision
  /\ row.decision \notin {"none", "pending"} => next.decision = row.decision
  /\ Finished(row) => next.outcome = row.outcome /\ next.execution = row.execution
  /\ row.execution.status \notin Settled /\ next.execution.status \in Settled =>
       /\ row.execution.status = "executing"
       /\ next.execution.generation = row.execution.generation
  /\ row.delivery.status # "none" => next.delivery.status = row.delivery.status
  /\ row.delivery.status = "none" => next.delivery.status \in {"none", "pending"}
  /\ ToolCallStatus(row) # "none" => ToolCallStatus(next) = ToolCallStatus(row)

\* ... and what it may not do at the moment it reads the row.
RowStep(row, next) ==
  /\ RowMove(row, next)
  /\ row.decision = "pending" /\ row.expiresAt = 0 => next.decision \in {"pending", "expired"}
  /\ row.execution.status \notin Settled /\ next.execution.status \in Settled =>
       row.execution.lease.expiresAt > 0

\* What attachActionProposalOutcome leaves alone, and what it writes, on a row
\* with no outcome yet.
LEMMA AttachFields ==
  ASSUME NEW row \in Row, Finished(row), row.decision # "pending", row.outcome = NoOutcome
  PROVE  /\ Attach(row) \in Row
         /\ Attach(row).decision = row.decision
         /\ Attach(row).supersededBy = row.supersededBy
         /\ Attach(row).expiresAt = row.expiresAt
         /\ Attach(row).execution = row.execution
         /\ Attach(row).outcome.decision = row.decision
         /\ Attach(row).outcome.executionStatus = IF row.execution.status \in Settled
                                                  THEN row.execution.status ELSE "none"
         /\ Attach(row).delivery.status = "pending"
<1> DEFINE o == [decision |-> row.decision,
                 executionStatus |-> IF row.execution.status \in Settled
                                     THEN row.execution.status ELSE "none"]
           d == [status |-> "pending", generation |-> 0, lease |-> NoLease]
<1>1. Attach(row) = [row EXCEPT !.outcome = o, !.delivery = d]
  BY DEF Attach
<1>2. o \in Outcome
  BY DEF Row, Outcome, Execution, Finished, Settled, Refusals, Decisions
<1>3. d \in Delivery
  BY DEF Delivery, NoLease, Lease, NoToken, Token
<1> HIDE DEF o, d
<1>4. [row EXCEPT !.outcome = o, !.delivery = d] \in Row
  BY <1>2, <1>3 DEF Row
<1> QED
  BY <1>1, <1>4 DEF Row, o, d

\* A refused transition.
LEMMA StutterStep ==
  ASSUME NEW row \in Row, RowInv(row)
  PROVE  RowStep(row, row)
BY DEF RowStep, RowMove, Row, Execution, Finished, Settled, Refusals

\* A pending row that ends refused, with the outcome attached.
LEMMA RefusedStep ==
  ASSUME NEW row \in Row, RowInv(row), row.decision = "pending",
         NEW r \in Row, r.decision \in Refusals,
         r.execution = row.execution, r.outcome = row.outcome,
         r.decision = "superseded" <=> r.supersededBy # NoProposal,
         r.decision # "expired" => row.expiresAt # 0
  PROVE  RowStep(row, Attach(r))
<1>1. row.outcome = NoOutcome /\ row.delivery = NoDelivery /\ row.execution = NoExecution
  BY DEF RowInv, Finished, Settled, Refusals, NoExecution
<1>2. Finished(r) /\ r.decision # "pending"
  BY DEF Finished, Refusals
<1>3. /\ Attach(r) \in Row
      /\ Attach(r).decision = r.decision
      /\ Attach(r).supersededBy = r.supersededBy
      /\ Attach(r).execution = NoExecution
      /\ Attach(r).outcome.decision = r.decision
      /\ Attach(r).outcome.executionStatus = "none"
      /\ Attach(r).delivery.status = "pending"
  BY <1>1, <1>2, AttachFields DEF NoExecution, Settled
<1>4. RowInv(Attach(r))
  BY <1>3 DEF RowInv, Finished, Refusals, Settled, NoExecution
<1> QED
  BY <1>1, <1>3, <1>4 DEF RowStep, RowMove, Finished, Refusals, Settled, NoExecution, NoDelivery,
       ToolCallStatus

\* transitionActionProposalDecision, for every command and every clock.
LEMMA DecidedStep ==
  ASSUME NEW row \in Row, RowInv(row), NEW decision, NEW now \in Nat
  PROVE  RowStep(row, Decided(row, decision, now))
<1>1. CASE Decided(row, decision, now) = row
  BY <1>1, StutterStep
<1>2. ASSUME row.decision = "pending", NEW d \in {"rejected", "expired"},
             d = "rejected" => row.expiresAt # 0
      PROVE  RowStep(row, Attach([row EXCEPT !.decision = d]))
  <2> DEFINE r == [row EXCEPT !.decision = d]
  <2>1. r \in Row /\ r.decision = d /\ r.execution = row.execution /\ r.outcome = row.outcome
        /\ r.supersededBy = row.supersededBy
    BY DEF Row, Decisions, Refusals
  <2>2. r.decision = "superseded" <=> r.supersededBy # NoProposal
    BY <1>2, <2>1 DEF RowInv
  <2> HIDE DEF r
  <2>3. RowStep(row, Attach(r))
    BY <1>2, <2>1, <2>2, RefusedStep DEF Refusals
  <2> QED
    BY <2>3 DEF r
<1>3. ASSUME row.decision = "pending", row.expiresAt # 0
      PROVE  RowStep(row, Queued(row))
  <2>1. /\ Queued(row) \in Row
        /\ Queued(row).decision = "approved"
        /\ Queued(row).execution = [status |-> "queued", generation |-> 0, lease |-> NoLease]
        /\ Queued(row).outcome = row.outcome /\ Queued(row).delivery = row.delivery
        /\ Queued(row).supersededBy = row.supersededBy
    BY DEF Queued, Row, Execution, Lease, Token, NoLease, NoToken, Decisions
  <2>2. row.outcome = NoOutcome /\ row.delivery = NoDelivery /\ row.supersededBy = NoProposal
        /\ row.execution = NoExecution
    BY <1>3 DEF RowInv, Finished, Settled, Refusals, NoExecution
  <2>3. RowInv(Queued(row))
    BY <2>1, <2>2 DEF RowInv, Finished, Settled, Refusals
  <2> QED
    BY <1>3, <2>1, <2>2, <2>3 DEF RowStep, RowMove, Finished, Settled, Refusals, NoExecution, NoDelivery,
         ToolCallStatus
<1>4. ~Due(row, now) => row.expiresAt # 0
  BY DEF Due, Never
<1> QED
  BY <1>1, <1>2, <1>3, <1>4 DEF Decided, Lapsed

\* transitionActionProposalSupersession, for a replacement of the group.
LEMMA SupersededStep ==
  ASSUME NEW row \in Row, RowInv(row), NEW q \in Proposal, NEW now \in Nat
  PROVE  RowStep(row, Superseded(row, q, now))
<1>1. CASE row.decision # "pending"
  BY <1>1, StutterStep DEF Superseded
<1>2. CASE row.decision = "pending" /\ Due(row, now)
  BY <1>2, DecidedStep DEF Superseded, Decided
<1>3. CASE row.decision = "pending" /\ ~Due(row, now)
  <2> DEFINE r == [row EXCEPT !.decision = "superseded", !.supersededBy = q]
  <2>1. r \in Row /\ r.decision = "superseded" /\ r.execution = row.execution
        /\ r.outcome = row.outcome /\ r.supersededBy = q
    BY DEF Row, Decisions, Refusals
  <2>2. Superseded(row, q, now) = Attach(r)
    BY <1>3 DEF Superseded
  <2>3. row.expiresAt # 0
    BY <1>3 DEF Due, Never
  <2> HIDE DEF r
  <2> QED
    BY <1>3, <2>1, <2>2, <2>3, RefusedStep, NullsAssumption DEF Refusals
<1> QED
  BY <1>1, <1>2, <1>3

\* transitionActionProposalClaim: a first claim or a recovery.
LEMMA ClaimedStep ==
  ASSUME NEW row \in Row, RowInv(row), NEW w \in Worker, NEW now \in Nat
  PROVE  RowStep(row, Claimed(row, w, now))
<1>1. CASE ~Claimable(row, now)
  BY <1>1, StutterStep DEF Claimed
<1>2. CASE Claimable(row, now)
  <2> DEFINE g == row.execution.generation + 1
             e == [status |-> "executing", generation |-> g,
                   lease |-> [token |-> [worker |-> w, generation |-> g],
                              expiresAt |-> now + LeaseMs]]
             r == [row EXCEPT !.execution = e]
  <2>1. g \in Nat /\ g > 0
    BY DEF Row, Execution
  <2>2. e \in Execution
    BY <2>1, LeaseMsAssumption DEF Execution, Lease, Token
  <2>3. Claimed(row, w, now) = r
    BY <1>2 DEF Claimed
  <2>4. e.status = "executing" /\ e.generation = g /\ e.lease.token.generation = g
        /\ e.lease.token.worker = w
    OBVIOUS
  <2> HIDE DEF e, g
  <2>5. r \in Row /\ r.decision = row.decision /\ r.execution = e /\ r.outcome = row.outcome
        /\ r.delivery = row.delivery /\ r.supersededBy = row.supersededBy
    BY <2>2 DEF Row
  <2>6. row.decision = "approved" /\ row.execution.status \in {"queued", "executing"}
    BY <1>2 DEF Claimable
  <2> HIDE DEF r
  <2>7. RowInv(r)
    BY <2>1, <2>4, <2>5, <2>6, NullsAssumption DEF RowInv, Finished, Settled, Refusals
  <2> QED
    BY <2>3, <2>4, <2>5, <2>6, <2>7
       DEF RowStep, RowMove, RowInv, Finished, Settled, Refusals, ToolCallStatus
<1> QED
  BY <1>1, <1>2

\* transitionActionProposalLease: a renewal moves the deadline of a live lease.
LEMMA ExtendedStep ==
  ASSUME NEW row \in Row, RowInv(row), NEW token, NEW now \in Nat
  PROVE  RowStep(row, Extended(row, token, now))
<1>1. CASE ~FenceValid(row, token, now)
  BY <1>1, StutterStep DEF Extended
<1>2. CASE FenceValid(row, token, now)
  <2> DEFINE t == Later(row.execution.lease.expiresAt, now + LeaseMs)
             r == [row EXCEPT !.execution.lease.expiresAt = t]
  <2>1. Extended(row, token, now) = r
    BY <1>2 DEF Extended
  <2>2. t \in Nat
    BY LeaseMsAssumption DEF Later, Row, Execution, Lease
  <2> HIDE DEF t
  <2>3. /\ r \in Row /\ r.decision = row.decision /\ r.outcome = row.outcome
        /\ r.delivery = row.delivery /\ r.supersededBy = row.supersededBy
        /\ r.execution.status = row.execution.status
        /\ r.execution.generation = row.execution.generation
        /\ r.execution.lease.token = row.execution.lease.token
    BY <2>2 DEF Row, Execution, Lease
  <2> HIDE DEF r
  <2>4. row.decision = "approved" /\ row.execution.status = "executing"
    BY <1>2 DEF FenceValid, HoldsLease
  <2>5. RowInv(r)
    BY <2>3, <2>4 DEF RowInv, Finished, Settled, Refusals
  <2> QED
    BY <2>1, <2>3, <2>4, <2>5 DEF RowStep, RowMove, RowInv, Finished, Settled, Refusals, ToolCallStatus
<1> QED
  BY <1>1, <1>2

\* transitionActionProposalSettlement: only under a live lease, with its outcome.
LEMMA SettledStep ==
  ASSUME NEW row \in Row, RowInv(row), NEW token, NEW status \in Settled, NEW now \in Nat
  PROVE  RowStep(row, SettledRow(row, token, status, now))
<1>1. CASE ~FenceValid(row, token, now)
  BY <1>1, StutterStep DEF SettledRow
<1>2. CASE FenceValid(row, token, now)
  <2> DEFINE e == [status |-> status, generation |-> token.generation, lease |-> NoLease]
             r == [row EXCEPT !.execution = e]
  <2>1. /\ row.decision = "approved" /\ row.execution.status = "executing"
        /\ row.execution.generation = token.generation
        /\ now < row.execution.lease.expiresAt
    BY <1>2 DEF FenceValid, HoldsLease
  <2>2. e \in Execution
    BY <2>1 DEF Row, Execution, Lease, Token, NoLease, NoToken
  <2>3. SettledRow(row, token, status, now) = Attach(r)
    BY <1>2 DEF SettledRow
  <2>4. e.status = status /\ e.generation = token.generation /\ e.lease = NoLease
    OBVIOUS
  <2> HIDE DEF e
  <2>5. /\ r \in Row /\ r.decision = "approved" /\ r.execution = e /\ r.outcome = row.outcome
        /\ r.supersededBy = row.supersededBy
    BY <2>1, <2>2 DEF Row
  <2>6. row.outcome = NoOutcome /\ row.delivery = NoDelivery /\ row.supersededBy = NoProposal
    BY <2>1 DEF RowInv, Finished, Settled, Refusals
  <2> HIDE DEF r
  <2>7. Finished(r) /\ r.decision # "pending"
    BY <2>4, <2>5 DEF Finished
  <2>8. /\ Attach(r) \in Row /\ Attach(r).decision = "approved"
        /\ Attach(r).supersededBy = NoProposal /\ Attach(r).execution = e
        /\ Attach(r).outcome.decision = "approved"
        /\ Attach(r).outcome.executionStatus = status
        /\ Attach(r).delivery.status = "pending"
    BY <2>4, <2>5, <2>6, <2>7, AttachFields
  <2>9. RowInv(Attach(r))
    BY <2>4, <2>8 DEF RowInv, Finished, Settled, Refusals
  <2>10. row.execution.lease.expiresAt > 0
    BY <2>1 DEF Row, Execution, Lease
  <2> QED
    BY <2>1, <2>3, <2>4, <2>6, <2>8, <2>9, <2>10
       DEF RowStep, RowMove, Finished, Settled, Refusals, NoDelivery, ToolCallStatus
<1> QED
  BY <1>1, <1>2

\* claimActionProposalOutcome: only the delivery's lease and generation move.
LEMMA ClaimedOutcomeStep ==
  ASSUME NEW row \in Row, RowInv(row), NEW w \in Worker, NEW now \in Nat
  PROVE  /\ RowStep(row, ClaimedOutcome(row, w, now))
         /\ ClaimedOutcome(row, w, now).decision = row.decision
         /\ ClaimedOutcome(row, w, now).execution = row.execution
<1>1. CASE ~OutcomeClaimable(row, now)
  BY <1>1, StutterStep DEF ClaimedOutcome
<1>2. CASE OutcomeClaimable(row, now)
  <2> DEFINE g == row.delivery.generation + 1
             l == [token |-> [worker |-> w, generation |-> g], expiresAt |-> now + LeaseMs]
             r == [row EXCEPT !.delivery.generation = g, !.delivery.lease = l]
  <2>1. ClaimedOutcome(row, w, now) = r
    BY <1>2 DEF ClaimedOutcome
  <2>2. g \in Nat /\ l \in Lease
    BY LeaseMsAssumption DEF Row, Delivery, Lease, Token
  <2> HIDE DEF g, l
  <2>3. /\ r \in Row /\ r.decision = row.decision /\ r.outcome = row.outcome
        /\ r.execution = row.execution /\ r.supersededBy = row.supersededBy
        /\ r.delivery.status = row.delivery.status
    BY <2>2 DEF Row, Delivery
  <2> HIDE DEF r
  <2>4. Finished(row)
    BY <1>2 DEF OutcomeClaimable, RowInv
  <2>5. RowInv(r)
    BY <2>3, <2>4 DEF RowInv, Finished
  <2> QED
    BY <2>1, <2>3, <2>4, <2>5 DEF RowStep, RowMove, RowInv, Finished, ToolCallStatus
<1> QED
  BY <1>1, <1>2

\* Time passing moves deadlines only, and none below zero.
LEMMA ElapseStep ==
  ASSUME NEW row \in Row, RowInv(row)
  PROVE  /\ RowStep(row, Elapse(row))
         /\ Elapse(row).decision = row.decision
         /\ Elapse(row).delivery.status = row.delivery.status
         /\ Elapse(row).execution.status = row.execution.status
<1> DEFINE r == Elapse(row)
<1>1. \A t \in Nat \cup {Never} : Less(t) \in Nat \cup {Never} /\ (t \in Nat => Less(t) \in Nat)
  BY DEF Less, Never
<1>2. /\ r \in Row /\ r.decision = row.decision /\ r.outcome = row.outcome
      /\ r.supersededBy = row.supersededBy
      /\ r.execution.status = row.execution.status
      /\ r.execution.generation = row.execution.generation
      /\ r.execution.lease.token = row.execution.lease.token
      /\ r.execution.lease.expiresAt = Less(row.execution.lease.expiresAt)
      /\ r.delivery.status = row.delivery.status
      /\ r.delivery.generation = row.delivery.generation
      /\ r.delivery.lease.token = row.delivery.lease.token
      /\ r.delivery.lease.expiresAt = Less(row.delivery.lease.expiresAt)
  BY <1>1 DEF Elapse, Row, Execution, Delivery, Lease
<1> HIDE DEF r
<1>3. row.execution.lease = NoLease => r.execution.lease = NoLease
  BY <1>2 DEF NoLease, Row, Execution, Lease, Less
<1>4. row.delivery = NoDelivery => r.delivery = NoDelivery
  BY <1>2 DEF NoDelivery, NoLease, Row, Delivery, Lease, Less
<1>5. row.execution.lease = NoLease => r.execution = row.execution
  BY <1>2, <1>3 DEF Row, Execution
<1>6. Finished(row) => row.execution.lease = NoLease
  BY DEF RowInv, Finished, Settled, Refusals, NoExecution
<1>7. Finished(r) <=> Finished(row)
  BY <1>2 DEF Finished
<1>8. RowInv(r)
  BY <1>2, <1>3, <1>4, <1>5, <1>7 DEF RowInv, NoExecution
<1>9. RowStep(row, r)
  BY <1>2, <1>5, <1>6, <1>8 DEF RowStep, RowMove, RowInv, Finished, ToolCallStatus
<1> QED
  BY <1>2, <1>9 DEF r

(***************************************************************************)
(* The store: its rows, and what they share.                               *)
(***************************************************************************)

\* Every row stays or takes the result of a transition ...
RowsMove ==
  /\ rows' = [p \in Proposal |-> rows'[p]]
  /\ \A p \in Proposal : RowMove(rows[p], rows'[p])

\* ... that was computed from it as it is.
RowsStep ==
  /\ rows' = [p \in Proposal |-> rows'[p]]
  /\ \A p \in Proposal : RowStep(rows[p], rows'[p])

LEMMA StepMoves == RowsStep => RowsMove
BY DEF RowsStep, RowsMove, RowStep

LEMMA NoRowOK ==
  NoRow \in Row /\ RowInv(NoRow) /\ NoRow.decision = "none" /\ NoRow.delivery.status = "none"
BY DEF NoRow, Row, NoExecution, NoOutcome, NoDelivery, Execution, Outcome, Delivery, Lease,
   NoLease, Token, NoToken, Never, RowInv, Finished, Settled, Refusals

\* The invariant holds at the start.
LEMMA InitInv == Init => Inv
<1> SUFFICES ASSUME Init PROVE Inv
  OBVIOUS
<1>2. Len(posted) = 0
  BY DEF Init
<1>3. TypeOK
  BY NoRowOK DEF Init, TypeOK, ToolCallStatuses
<1> QED
  BY NoRowOK, <1>2, <1>3 DEF Init, Inv, PostedOnce, OnePendingPerGroup, ToolCallNeverLies

\* Steps in which rows only go through transitions keep the invariant.
LEMMA MoveInv ==
  ASSUME Inv, RowsMove, UNCHANGED posted, births' \in Nat,
         thread' \in {"free", "held", "deleted"},
         ToolCallsFollow \/ UNCHANGED toolCall
  PROVE  Inv'
<1>1. rows' \in [Proposal -> Row] /\ \A p \in Proposal : RowInv(rows'[p])
  BY DEF RowsMove, RowStep, RowMove
<1>2. \A p \in Proposal : toolCall'[p] \in {toolCall[p], Followed(toolCall[p], rows[p], rows'[p])}
  BY DEF ToolCallsFollow, Inv, TypeOK
<1>3. \A p \in Proposal : toolCall'[p] \in {"none", "proposed", ToolCallStatus(rows'[p])}
  BY <1>2 DEF Followed, RowsMove, RowStep, RowMove, Inv, ToolCallNeverLies
<1>4. \A p \in Proposal : ToolCallStatus(rows'[p]) \in ToolCallStatuses
  BY DEF ToolCallStatus, ToolCallStatuses
<1>5. toolCall' \in [Proposal -> ToolCallStatuses]
  BY <1>3, <1>4 DEF ToolCallsFollow, Inv, TypeOK, ToolCallStatuses
<1>6. TypeOK'
  BY <1>1, <1>5 DEF Inv, TypeOK
<1>7. \A p \in Proposal : rows'[p].delivery.status = "admitted" <=>
                          rows[p].delivery.status = "admitted"
  BY DEF RowsMove, RowStep, RowMove
<1>8. PostedOnce'
  BY <1>7 DEF Inv, PostedOnce
<1>9. \A p \in Proposal : rows'[p].decision = "pending" => rows[p].decision = "pending"
  BY DEF RowsMove, RowStep, RowMove
<1>10. OnePendingPerGroup'
  BY <1>9 DEF Inv, OnePendingPerGroup, SameGroup
<1>11. ToolCallNeverLies'
  BY <1>3 DEF ToolCallNeverLies
<1> QED
  BY <1>1, <1>6, <1>8, <1>10, <1>11 DEF Inv

\* One row goes through one transition.
LEMMA MutateInv ==
  ASSUME Inv, NEW p \in Proposal, NEW next, RowStep(rows[p], next), Mutate(p, next)
  PROVE  RowsStep /\ Inv'
<1>1. \A q \in Proposal : rows'[q] = IF q = p THEN next ELSE rows[q]
  BY DEF Mutate, Inv, TypeOK
<1>2. \A q \in Proposal : RowStep(rows[q], rows'[q])
  BY <1>1, StutterStep DEF Inv, TypeOK
<1>3. RowsStep
  BY <1>2 DEF RowsStep, Mutate, Inv, TypeOK
<1> QED
  BY <1>3, StepMoves, MoveInv DEF Mutate, Inv, TypeOK

\* What a step of the store may do to one row: a transition, its creation, or
\* the end of its delivery.
RowAct(row, next) ==
  \/ RowStep(row, next)
  \/ /\ row.decision = "none"
     /\ next.decision = "pending"
     /\ next.execution = NoExecution
     /\ next.delivery = NoDelivery
  \/ /\ next.decision = row.decision
     /\ next.outcome = row.outcome
     /\ next.execution = row.execution
     /\ row.delivery.status = "pending"
     /\ next.delivery.status \in {"admitted", "discarded"}

LEMMA MoveAct ==
  ASSUME RowsStep
  PROVE  \A p \in Proposal : RowAct(rows[p], rows'[p])
BY DEF RowsStep, RowAct

LEMMA CreateInv ==
  ASSUME Inv, NEW p \in Proposal, NEW expiresAt \in Lifetimes, NEW now \in Clocks,
         Create(p, expiresAt, now)
  PROVE  Inv' /\ \A q \in Proposal : RowAct(rows[q], rows'[q])
<1> DEFINE r == InitialRow(births + 1, expiresAt)
<1>1. births' = births + 1 /\ births' \in Nat
  BY DEF Create, Inv, TypeOK
<1>2. /\ r \in Row /\ RowInv(r) /\ r.decision = "pending" /\ r.execution = NoExecution
      /\ r.delivery = NoDelivery /\ ToolCallStatus(r) = "none"
  <2>1. /\ r.decision = "pending" /\ r.supersededBy = NoProposal /\ r.execution = NoExecution
        /\ r.outcome = NoOutcome /\ r.delivery = NoDelivery
    BY DEF InitialRow, NoRow
  <2>2. r \in Row
    BY <1>1, LifetimesAssumption DEF InitialRow, NoRow, Row, NoExecution, NoOutcome, NoDelivery,
       Execution, Outcome, Delivery, Lease, NoLease, Token, NoToken, Never, Decisions, Refusals
  <2> HIDE DEF r
  <2> QED
    BY <2>1, <2>2 DEF RowInv, Finished, Settled, Refusals, NoExecution, ToolCallStatus
<1> HIDE DEF r
<1>3. \A q \in Proposal : rows'[q] = IF q = p THEN r
                                    ELSE IF SameGroup(p, q) THEN Superseded(rows[q], p, now)
                                    ELSE rows[q]
  BY DEF Create, r
<1>4. rows[p].decision = "none"
  BY DEF Create, Exists
<1>6. \A q \in Proposal \ {p} : RowStep(rows[q], rows'[q])
  BY <1>3, StutterStep, SupersededStep, ClocksAssumption DEF Inv, TypeOK
<1>7. rows' \in [Proposal -> Row] /\ \A q \in Proposal : RowInv(rows'[q])
  BY <1>2, <1>3, <1>6 DEF Create, RowStep, RowMove
<1>8. \A q \in Proposal : toolCall'[q] = Followed(toolCall[q], rows[q], rows'[q])
  BY DEF Create, ToolCallsFollow
<1>9. \A q \in Proposal : toolCall'[q] \in {"none", "proposed", ToolCallStatus(rows'[q])}
  <2>1. toolCall'[p] \in {"none", "proposed"}
    BY <1>2, <1>3, <1>4, <1>8 DEF Followed, Inv, ToolCallNeverLies, ToolCallStatus
  <2> QED
    BY <1>6, <1>8, <2>1 DEF Followed, RowStep, RowMove, Inv, ToolCallNeverLies
<1>10. \A q \in Proposal : ToolCallStatus(rows'[q]) \in ToolCallStatuses
  BY DEF ToolCallStatus, ToolCallStatuses
<1>11. TypeOK'
  BY <1>1, <1>7, <1>9, <1>10 DEF Create, ToolCallsFollow, Inv, TypeOK, ToolCallStatuses
<1>12. \A q \in Proposal : rows'[q].delivery.status = "admitted" <=>
                           rows[q].delivery.status = "admitted"
  <2>1. rows[p].delivery.status # "admitted"
    BY <1>4 DEF Inv, RowInv, Finished, Settled, Refusals, NoExecution, NoDelivery
  <2>2. rows'[p].delivery.status # "admitted"
    BY <1>2, <1>3 DEF NoDelivery
  <2> QED
    BY <1>6, <2>1, <2>2 DEF RowStep, RowMove
<1>13. PostedOnce'
  BY <1>12 DEF Create, Inv, PostedOnce
<1>14. \A q \in Proposal \ {p} : SameGroup(p, q) => rows'[q].decision # "pending"
  <2>1. \A row \in Row : Superseded(row, p, now).decision # "pending"
    <3> SUFFICES ASSUME NEW row \in Row PROVE Superseded(row, p, now).decision # "pending"
      OBVIOUS
    <3>1. Attach([row EXCEPT !.decision = "expired"]).decision = "expired"
      BY DEF Attach, Row
    <3>2. Attach([row EXCEPT !.decision = "superseded", !.supersededBy = p]).decision = "superseded"
      BY DEF Attach, Row
    <3> QED
      BY <3>1, <3>2 DEF Superseded, Lapsed
  <2> QED
    BY <1>3, <2>1 DEF Inv, TypeOK
<1>15. \A q \in Proposal \ {p} : rows'[q].decision = "pending" => rows[q].decision = "pending"
  BY <1>6 DEF RowStep, RowMove
<1>16. OnePendingPerGroup'
  BY <1>14, <1>15 DEF Inv, OnePendingPerGroup, SameGroup
<1>17. ToolCallNeverLies'
  BY <1>9 DEF ToolCallNeverLies
<1> QED
  BY <1>2, <1>3, <1>4, <1>6, <1>7, <1>11, <1>13, <1>16, <1>17 DEF Inv, RowAct

LEMMA AdmitInv ==
  ASSUME Inv, NEW p \in Proposal, NEW token, NEW now \in Clocks, Admit(p, token, now)
  PROVE  Inv' /\ \A q \in Proposal : RowAct(rows[q], rows'[q])
<1>1. PICK status \in {"admitted", "discarded"} :
        /\ rows' = [rows EXCEPT ![p].delivery.status = status, ![p].delivery.lease = NoLease]
        /\ IF status = "admitted" THEN posted' = Append(posted, p) ELSE posted' = posted
  BY DEF Admit
<1>2. /\ rows'[p] \in Row
      /\ rows'[p].decision = rows[p].decision /\ rows'[p].supersededBy = rows[p].supersededBy
      /\ rows'[p].execution = rows[p].execution /\ rows'[p].outcome = rows[p].outcome
      /\ rows'[p].delivery.status = status
  <2>1. rows[p] \in Row /\ NoLease \in Lease
    BY DEF Inv, TypeOK, NoLease, Lease, NoToken, Token
  <2> QED
    BY <1>1, <2>1 DEF Row, Delivery, Inv, TypeOK
<1>3. rows' \in [Proposal -> Row] /\ \A q \in Proposal \ {p} : rows'[q] = rows[q]
  BY <1>1, <1>2 DEF Inv, TypeOK
<1>4. rows[p].outcome # NoOutcome /\ rows[p].delivery.status = "pending"
  BY DEF Admit, OutcomeFenceValid
<1>5. RowInv(rows'[p])
  BY <1>2, <1>4 DEF Inv, RowInv, Finished
<1>6. \A q \in Proposal : ToolCallStatus(rows'[q]) = ToolCallStatus(rows[q])
  BY <1>2, <1>3 DEF ToolCallStatus
<1>7. UNCHANGED <<births, toolCall, thread>>
  BY DEF Admit
<1>8. TypeOK'
  <2>1. posted \in Seq(Proposal) /\ Append(posted, p) \in Seq(Proposal)
    BY DEF Inv, TypeOK
  <2> QED
    BY <1>1, <1>3, <1>7, <2>1 DEF Inv, TypeOK
<1>9. OnePendingPerGroup' /\ ToolCallNeverLies'
  BY <1>2, <1>3, <1>6, <1>7 DEF Inv, OnePendingPerGroup, ToolCallNeverLies, SameGroup
<1>10. PostedOnce'
  <2>1. CASE status = "discarded"
    BY <1>1, <1>2, <1>3, <1>4, <2>1 DEF Inv, PostedOnce
  <2>2. CASE status = "admitted"
    <3>1. /\ Len(posted') = Len(posted) + 1 /\ Len(posted) \in Nat
          /\ posted'[Len(posted) + 1] = p
          /\ \A i \in 1..Len(posted) : posted'[i] = posted[i]
      BY <1>1, <2>2 DEF Inv, TypeOK
    <3>2. \A i \in 1..Len(posted) : posted[i] # p
      BY <1>4 DEF Inv, PostedOnce
    <3>3. \A q \in Proposal : (\E i \in 1..Len(posted') : posted'[i] = q) <=>
                             (q = p \/ \E i \in 1..Len(posted) : posted[i] = q)
      BY <3>1
    <3>4. \A i, j \in 1..Len(posted') : posted'[i] = posted'[j] => i = j
      BY <3>1, <3>2 DEF Inv, PostedOnce
    <3>5. \A q \in Proposal : rows'[q].delivery.status = "admitted" <=>
                             (q = p \/ rows[q].delivery.status = "admitted")
      BY <1>2, <1>3, <2>2
    <3> QED
      BY <3>3, <3>4, <3>5 DEF Inv, PostedOnce
  <2> QED
    BY <2>1, <2>2
<1>11. \A q \in Proposal : RowInv(rows'[q])
  BY <1>3, <1>5 DEF Inv
<1> QED
  BY <1>2, <1>3, <1>4, <1>8, <1>9, <1>10, <1>11, StutterStep DEF Inv, RowAct, TypeOK

\* The record of a proposal's call is written: `proposed`, or what the proposal says.
LEMMA RecordInv ==
  ASSUME Inv, NEW p \in Proposal, UNCHANGED <<rows, births, thread, posted>>,
         NEW status \in {"proposed", ToolCallStatus(rows[p])},
         toolCall' = [toolCall EXCEPT ![p] = status]
  PROVE  Inv'
<1>1. status \in ToolCallStatuses
  BY DEF ToolCallStatus, ToolCallStatuses
<1>2. TypeOK'
  BY <1>1 DEF Inv, TypeOK
<1>3. ToolCallNeverLies'
  BY DEF Inv, TypeOK, ToolCallNeverLies
<1> QED
  BY <1>2, <1>3 DEF Inv, PostedOnce, OnePendingPerGroup, SameGroup

\* Every step keeps the invariant and does to each row what a step may.
LEMMA NextInv ==
  ASSUME Inv, Next
  PROVE  Inv' /\ \A p \in Proposal : RowAct(rows[p], rows'[p])
<1> DEFINE Goal == Inv' /\ \A p \in Proposal : RowAct(rows[p], rows'[p])
<1>1. \A p \in Proposal : rows[p] \in Row /\ RowInv(rows[p])
  BY DEF Inv, TypeOK
<1>2. ASSUME RowsStep, ToolCallsFollow \/ UNCHANGED toolCall, UNCHANGED posted,
             births' \in Nat, thread' \in {"free", "held", "deleted"}
      PROVE  Goal
  BY <1>2, StepMoves, MoveInv, MoveAct
<1>3. ASSUME NEW p \in Proposal, NEW next, RowStep(rows[p], next), Mutate(p, next)
      PROVE  Goal
  BY <1>3, MutateInv, MoveAct
<1>4. ASSUME NEW now \in Clocks, NEW p \in Proposal, ProposalStep(p, now)
      PROVE  Goal
  <2>0. now \in Nat
    BY ClocksAssumption
  <2>1. CASE \E expiresAt \in Lifetimes : Create(p, expiresAt, now)
    BY <2>1, CreateInv
  <2>2. CASE RecordToolCall(p)
    BY <1>1, <2>2, RecordInv, StutterStep DEF RecordToolCall, RowAct
  <2>3. CASE \E decision \in {"approved", "rejected", "expired"} : Decide(p, decision, now)
    BY <1>1, <1>3, <2>0, <2>3, DecidedStep DEF Decide
  <2>4. CASE \E q \in Proposal : Supersede(p, q, now)
    BY <1>1, <1>3, <2>0, <2>4, SupersededStep DEF Supersede
  <2>5. CASE \E token \in Tokens : Extend(p, token, now)
    BY <1>1, <1>3, <2>0, <2>5, ExtendedStep DEF Extend
  <2>6. CASE \E token \in Tokens, status \in Settled : Settle(p, token, status, now)
    BY <1>1, <1>3, <2>0, <2>6, SettledStep DEF Settle
  <2>7. CASE \E token \in Tokens : Admit(p, token, now)
    BY <2>7, AdmitInv
  <2> QED
    BY <1>4, <2>1, <2>2, <2>3, <2>4, <2>5, <2>6, <2>7 DEF ProposalStep
<1>5. ASSUME NEW now \in Clocks, ExpireDue(now)
      PROVE  Goal
  <2>1. RowsStep
    BY <1>1, <1>5, DecidedStep, ClocksAssumption DEF ExpireDue, RowsStep
  <2> QED
    BY <1>2, <1>5, <2>1 DEF ExpireDue, Inv, TypeOK
<1>6. ASSUME NEW now \in Clocks, NEW w \in Worker, ClaimNext(w, now)
      PROVE  Goal
  <2>1. PICK p \in Proposal : Mutate(p, Claimed(rows[p], w, now))
    BY <1>6 DEF ClaimNext, OldestFirst
  <2> QED
    BY <1>1, <1>3, <2>1, ClaimedStep, ClocksAssumption
<1>7. ASSUME NEW now \in Clocks, NEW w \in Worker, ClaimNextOutcome(w, now)
      PROVE  Goal
  <2>1. PICK p \in Proposal : /\ rows' = [rows EXCEPT ![p] = ClaimedOutcome(@, w, now)]
                             /\ UNCHANGED <<births, toolCall, thread, posted>>
    BY <1>7 DEF ClaimNextOutcome, OldestFirst
  <2>2. RowsStep
    BY <1>1, <2>1, ClaimedOutcomeStep, StutterStep, ClocksAssumption DEF RowsStep, Inv, TypeOK
  <2> QED
    BY <1>2, <2>1, <2>2 DEF Inv, TypeOK
<1>8. ASSUME ThreadStep
      PROVE  Goal
  <2>1. RowsStep
    BY <1>1, <1>8, StutterStep DEF ThreadStep, RowsStep, Inv, TypeOK
  <2> QED
    BY <1>2, <1>8, <2>1 DEF ThreadStep, HoldThread, ReleaseThread, DeleteThread, Inv, TypeOK
<1>9. ASSUME Tick
      PROVE  Goal
  <2>1. RowsStep
    BY <1>1, <1>9, ElapseStep DEF Tick, RowsStep
  <2> QED
    BY <1>2, <1>9, <2>1 DEF Tick, Inv, TypeOK
<1> QED
  BY <1>4, <1>5, <1>6, <1>7, <1>8, <1>9 DEF Next

LEMMA StutterInv ==
  ASSUME Inv, UNCHANGED vars
  PROVE  Inv' /\ \A p \in Proposal : RowAct(rows[p], rows'[p])
<1>1. \A p \in Proposal : RowStep(rows[p], rows'[p])
  BY StutterStep DEF vars, Inv, TypeOK
<1>2. RowsStep
  BY <1>1 DEF RowsStep, vars, Inv, TypeOK
<1> QED
  BY <1>2, StepMoves, MoveInv, MoveAct DEF vars, Inv, TypeOK

-----------------------------------------------------------------------------
(* The theorems. *)

\* The invariant of the store, of which the next theorem names the parts.
THEOREM Invariance == Spec => []Inv
<1>1. Init => Inv
  BY InitInv
<1>2. Inv /\ [Next]_vars => Inv'
  BY NextInv, StutterInv
<1> QED
  BY <1>1, <1>2, PTL DEF Spec

\* Every variable keeps its type.
THEOREM TypeCorrect == Spec => []TypeOK
<1>1. Inv => TypeOK
  BY DEF Inv
<1> QED
  BY <1>1, Invariance, PTL

\* Nothing runs without an approval, and a proposal has an outcome exactly when
\* it ended, the outcome of that end.
THEOREM RowSafety ==
  Spec => [](ExecutionOnlyIfApproved /\ OutcomeTellsWhatHappened)
<1>1. Inv => ExecutionOnlyIfApproved
  <2>1. NoExecution.status = "none"
    BY DEF NoExecution
  <2>2. \A row \in Row : RowInv(row) =>
                          (row.execution.status # "none" <=> row.decision = "approved")
    BY <2>1 DEF RowInv
  <2> QED
    BY <2>2 DEF Inv, TypeOK, ExecutionOnlyIfApproved
<1>2. Inv => OutcomeTellsWhatHappened
  <2> SUFFICES ASSUME Inv, NEW p \in Proposal
               PROVE  /\ Finished(rows[p]) <=> rows[p].outcome # NoOutcome
                      /\ Finished(rows[p]) =>
                           /\ rows[p].outcome.decision = rows[p].decision
                           /\ rows[p].decision = "approved" =>
                                rows[p].outcome.executionStatus = rows[p].execution.status
    BY DEF OutcomeTellsWhatHappened
  <2>1. Finished(rows[p]) => rows[p].decision # "none"
    BY DEF Inv, RowInv, Finished, Refusals, Settled, NoExecution
  <2> QED
    BY <2>1 DEF Inv, RowInv, NoOutcome
<1> QED
  BY <1>1, <1>2, Invariance, PTL

\* An outcome is posted at most once, whoever claims and admits it.
THEOREM PostsOnce == Spec => []PostedOnce
<1>1. Inv => PostedOnce
  BY DEF Inv
<1> QED
  BY <1>1, Invariance, PTL

\* A replacement group never has two pending proposals.
THEOREM OnePending == Spec => []OnePendingPerGroup
<1>1. Inv => OnePendingPerGroup
  BY DEF Inv
<1> QED
  BY <1>1, Invariance, PTL

\* A tool-call record never tells an end its proposal did not have.
THEOREM RecordsTrue == Spec => []ToolCallNeverLies
<1>1. Inv => ToolCallNeverLies
  BY DEF Inv
<1> QED
  BY <1>1, Invariance, PTL

\* Decisions and outcomes are first-wins, for every order of commands.
THEOREM DecisionsFinal == Spec => FirstWins
<1> DEFINE A == \A p \in Proposal :
                  /\ rows[p].decision \notin {"none", "pending"} =>
                       rows'[p].decision = rows[p].decision
                  /\ Finished(rows[p]) =>
                       /\ rows'[p].outcome = rows[p].outcome
                       /\ rows'[p].execution = rows[p].execution
<1>1. \A p \in Proposal : Inv => (Finished(rows[p]) => rows[p].decision # "none")
  BY DEF Inv, RowInv, Finished, Refusals, Settled, NoExecution
<1>2. Inv /\ [Next]_vars => A
  <2> SUFFICES ASSUME Inv, [Next]_vars PROVE A
    OBVIOUS
  <2>1. \A p \in Proposal : RowAct(rows[p], rows'[p])
    BY NextInv, StutterInv
  <2> QED
    BY <1>1, <2>1 DEF RowAct, RowStep, RowMove
<1> HIDE DEF A
<1>3. Spec => [][A]_vars
  BY <1>2, Invariance, PTL DEF Spec
<1> QED
  BY <1>3 DEF A, FirstWins

\* A proposal past its deadline on every clock is never approved, rejected or superseded.
THEOREM NoLateDecision == Spec => NeverDecidedLate
<1> DEFINE A == \A p \in Proposal :
                  rows[p].decision = "pending" /\ rows[p].expiresAt = 0 =>
                    rows'[p].decision \in {"pending", "expired"}
<1>1. Inv /\ [Next]_vars => A
  <2> SUFFICES ASSUME Inv, [Next]_vars PROVE A
    OBVIOUS
  <2>1. \A p \in Proposal : RowAct(rows[p], rows'[p])
    BY NextInv, StutterInv
  <2> QED
    BY <2>1 DEF RowAct, RowStep, RowMove
<1> HIDE DEF A
<1>2. Spec => [][A]_vars
  BY <1>1, Invariance, PTL DEF Spec
<1> QED
  BY <1>2 DEF A, NeverDecidedLate

\* Only the holder of a live lease of the latest claim settles.
THEOREM Fenced == Spec => SettledUnderLease
<1> DEFINE A == \A p \in Proposal :
                  rows[p].execution.status \notin Settled /\ rows'[p].execution.status \in Settled =>
                    /\ rows[p].execution.status = "executing"
                    /\ rows[p].execution.lease.expiresAt > 0
                    /\ rows'[p].execution.generation = rows[p].execution.generation
<1>1. Inv /\ [Next]_vars => A
  <2> SUFFICES ASSUME Inv, [Next]_vars PROVE A
    OBVIOUS
  <2>1. \A p \in Proposal : RowAct(rows[p], rows'[p])
    BY NextInv, StutterInv
  <2>2. NoExecution.status \notin Settled
    BY DEF NoExecution, Settled
  <2> QED
    BY <2>1, <2>2 DEF RowAct, RowStep, RowMove
<1> HIDE DEF A
<1>2. Spec => [][A]_vars
  BY <1>1, Invariance, PTL DEF Spec
<1> QED
  BY <1>2 DEF A, SettledUnderLease
-----------------------------------------------------------------------------
(* The store implements the life of a proposal.  A row that is approved    *)
(* waits before it executes, and executes before it ends.                  *)

Phased(row, next) ==
  /\ row.decision = "none" => next.decision = "none"
  /\ row.decision = "pending" /\ next.decision = "approved" => next.execution.status = "queued"
  /\ row.execution.status = "queued" => next.execution.status \in {"queued", "executing"}
  /\ row.execution.status = "executing" => next.execution.status \in {"executing"} \cup Settled

\* What a transition may do to the life of a proposal.
Refuses(row, next) == /\ LifeOf(row) = "pending" /\ LifeOf(next) \in Refusals
                      /\ next.delivery.status = "pending"
Stays(row, next)   == /\ LifeOf(next) = LifeOf(row)
                      /\ next.delivery.status = row.delivery.status
Moves(row, next) ==
  \/ /\ LifeOf(row) = "pending" /\ LifeOf(next) = "approved"
     /\ next.delivery.status = row.delivery.status
  \/ /\ LifeOf(row) = "approved" /\ LifeOf(next) = "executing"
     /\ next.delivery.status = row.delivery.status
  \/ /\ LifeOf(row) = "executing" /\ LifeOf(next) \in Settled
     /\ next.delivery.status = "pending"

LEMMA LifeOfStep ==
  ASSUME NEW row \in Row, RowInv(row), NEW next, RowMove(row, next), Phased(row, next)
  PROVE  Refuses(row, next) \/ Stays(row, next) \/ Moves(row, next)
<1>1. /\ row.decision \in {"none"} \cup Decisions
      /\ row.execution.status \in {"none", "queued", "executing"} \cup Settled
      /\ row.delivery.status \in {"none", "pending", "admitted", "discarded"}
      /\ row.decision # "approved" => row.execution.status = "none"
      /\ row.decision = "approved" => row.execution.status # "none"
  BY DEF Row, Execution, Delivery, RowInv, NoExecution
<1>2. /\ next.decision \in {"none"} \cup Decisions
      /\ next.execution.status \in {"none", "queued", "executing"} \cup Settled
      /\ next.decision # "approved" => next.execution.status = "none"
      /\ next.decision = "approved" => next.execution.status # "none"
      /\ Finished(next) => next.delivery.status # "none"
      /\ ~Finished(next) => next.delivery.status = "none"
  BY DEF RowStep, RowMove, Row, Execution, RowInv, NoExecution, NoDelivery
<1>3. ~Finished(row) => row.delivery.status = "none"
  BY DEF RowInv, NoDelivery
<1>4. CASE row.decision = "pending"
  BY <1>1, <1>2, <1>3, <1>4
     DEF Phased, RowStep, RowMove, Refuses, Stays, Moves, LifeOf, Decisions, Refusals, Settled, Finished
<1>5. CASE row.decision = "approved"
  <2>1. next.decision = "approved"
    BY <1>5 DEF RowStep, RowMove
  <2>2. row.execution.status \in Settled => /\ next.execution.status = row.execution.status
                                            /\ next.delivery.status = row.delivery.status
    BY <1>1, <1>2, <2>1 DEF RowStep, RowMove, RowInv, Finished, Settled
  <2> QED
    BY <1>1, <1>2, <1>3, <1>5, <2>1, <2>2
       DEF Phased, RowStep, RowMove, Stays, Moves, LifeOf, Refusals, Settled, Finished
<1>6. CASE row.decision \notin {"pending", "approved"}
  BY <1>1, <1>2, <1>3, <1>6
     DEF Phased, RowStep, RowMove, Stays, LifeOf, Decisions, Refusals, Settled, Finished, RowInv
<1> QED BY <1>4, <1>5, <1>6
LEMMA StutterPhased ==
  ASSUME NEW row \in Row
  PROVE  Phased(row, row)
BY DEF Phased, Row, Execution

LEMMA DecidedPhased ==
  ASSUME NEW row \in Row, RowInv(row), NEW decision, NEW now
  PROVE  /\ Phased(row, Decided(row, decision, now))
         /\ decision = "expired" => ~Moves(row, Decided(row, decision, now))
<1>1. CASE Decided(row, decision, now) = row
  BY <1>1, StutterPhased DEF Moves, Settled
<1>2. CASE decision = "approved" /\ Decided(row, decision, now) = Queued(row)
           /\ row.decision = "pending"
  <2>1. Phased(row, Queued(row))
    BY <1>2 DEF Phased, Queued, Row, RowInv, NoExecution
  <2> QED BY <1>2, <2>1
<1>3. ASSUME NEW d \in {"rejected", "expired"}, row.decision = "pending",
             Decided(row, decision, now) = Attach([row EXCEPT !.decision = d])
      PROVE  Phased(row, Decided(row, decision, now)) /\ ~Moves(row, Decided(row, decision, now))
  <2>1. Decided(row, decision, now).decision = d
    BY <1>3 DEF Attach, Row
  <2> QED
    BY <1>3, <2>1 DEF Phased, RowInv, NoExecution, Moves, LifeOf, Settled
<1> QED
  BY <1>1, <1>2, <1>3 DEF Decided, Lapsed

LEMMA SupersededPhased ==
  ASSUME NEW row \in Row, RowInv(row), NEW q, NEW now
  PROVE  Phased(row, Superseded(row, q, now)) /\ ~Moves(row, Superseded(row, q, now))
<1>1. CASE Superseded(row, q, now) = row
  BY <1>1, StutterPhased DEF Moves, Settled
<1>2. ASSUME row.decision = "pending", NEW d \in {"superseded", "expired"},
             Superseded(row, q, now).decision = d
      PROVE  Phased(row, Superseded(row, q, now)) /\ ~Moves(row, Superseded(row, q, now))
  BY <1>2 DEF Phased, RowInv, NoExecution, Moves, LifeOf, Settled
<1>3. CASE row.decision = "pending" /\ Due(row, now)
  BY <1>2, <1>3 DEF Superseded, Lapsed, Attach, Row
<1>4. CASE row.decision = "pending" /\ ~Due(row, now)
  BY <1>2, <1>4 DEF Superseded, Attach, Row
<1> QED
  BY <1>1, <1>3, <1>4 DEF Superseded

LEMMA ClaimedPhased ==
  ASSUME NEW row \in Row, RowInv(row), NEW w, NEW now
  PROVE  Phased(row, Claimed(row, w, now))
<1>1. CASE ~Claimable(row, now)
  BY <1>1, StutterPhased DEF Claimed
<1>2. CASE Claimable(row, now)
  BY <1>2 DEF Claimed, Claimable, Phased, Row
<1> QED BY <1>1, <1>2

LEMMA ExtendedPhased ==
  ASSUME NEW row \in Row, NEW token, NEW now
  PROVE  Phased(row, Extended(row, token, now))
<1>1. /\ Extended(row, token, now).decision = row.decision
      /\ Extended(row, token, now).execution.status = row.execution.status
  BY DEF Extended, Row, Execution
<1> QED BY <1>1 DEF Phased, Row, Execution

LEMMA SettledPhased ==
  ASSUME NEW row \in Row, NEW token, NEW status \in Settled, NEW now
  PROVE  Phased(row, SettledRow(row, token, status, now))
<1>1. CASE ~FenceValid(row, token, now)
  BY <1>1, StutterPhased DEF SettledRow
<1>2. CASE FenceValid(row, token, now)
  <2>1. /\ SettledRow(row, token, status, now).decision = row.decision
        /\ SettledRow(row, token, status, now).execution.status = status
        /\ row.execution.status = "executing" /\ row.decision = "approved"
    BY <1>2 DEF SettledRow, Attach, Row, FenceValid, HoldsLease
  <2> QED BY <2>1 DEF Phased
<1> QED BY <1>1, <1>2

\* Pending proposals that end refused, all in one step.
LEMMA RefinesRefuse ==
  ASSUME Inv, rows' \in [Proposal -> Row], UNCHANGED <<thread, posted>>,
         \A p \in Proposal : Refuses(rows[p], rows'[p]) \/ Stays(rows[p], rows'[p])
  PROVE  Lifecycle!LNext
<1> DEFINE over == {p \in Proposal : Refuses(rows[p], rows'[p])}
           end  == [p \in over |-> LifeOf(rows'[p])]
<1>1. over \in SUBSET Lifecycle!Pending
  BY DEF Refuses, Lifecycle!Pending
<1>2. end \in [over -> Lifecycle!Refused]
  BY DEF Refuses, Refusals, Lifecycle!Refused
<1>3. /\ [p \in Proposal |-> LifeOf(rows'[p])] =
           [p \in Proposal |-> IF p \in over THEN end[p]
                              ELSE [q \in Proposal |-> LifeOf(rows[q])][p]]
      /\ [p \in Proposal |-> rows'[p].delivery.status] =
           [p \in Proposal |-> IF p \in over THEN "pending"
                              ELSE [q \in Proposal |-> rows[q].delivery.status][p]]
  BY DEF Refuses, Stays
<1> HIDE DEF over, end
<1>4. Lifecycle!Refuse
  <2> USE DEF Lifecycle!Refuse
  <2> WITNESS over \in SUBSET Lifecycle!Pending
  <2> USE DEF Lifecycle!Refusing
  <2> WITNESS end \in [over -> Lifecycle!Refused]
  <2> QED BY <1>3
<1> QED BY <1>4 DEF Lifecycle!LNext

\* One row that takes the result of one transition.
LEMMA RefinesMutate ==
  ASSUME Inv, NEW p \in Proposal, NEW next, RowMove(rows[p], next), Phased(rows[p], next),
         rows' = [rows EXCEPT ![p] = next], UNCHANGED <<thread, posted>>
  PROVE  Lifecycle!LNext
<1>1. rows[p] \in Row /\ RowInv(rows[p]) /\ rows' = [rows EXCEPT ![p] = next]
      /\ rows \in [Proposal -> Row] /\ UNCHANGED <<thread, posted>>
  BY DEF Inv, TypeOK
<1>2. \A q \in Proposal : rows'[q] = IF q = p THEN next ELSE rows[q]
  BY <1>1
<1>3. CASE Moves(rows[p], next)
  <2>1. Lifecycle!Approve(p) \/ Lifecycle!Start(p) \/ Lifecycle!Finish(p)
    BY <1>1, <1>2, <1>3
       DEF Moves, Settled, Lifecycle!Approve, Lifecycle!Start, Lifecycle!Finish, Lifecycle!Move,
           Lifecycle!Ended
  <2> QED BY <2>1 DEF Lifecycle!LNext
<1>4. CASE Refuses(rows[p], next) \/ Stays(rows[p], next)
  <2>1. \A q \in Proposal : Refuses(rows[q], rows'[q]) \/ Stays(rows[q], rows'[q])
    BY <1>2, <1>4 DEF Stays
  <2>2. rows' \in [Proposal -> Row]
    BY <1>1 DEF RowStep, RowMove
  <2> QED BY <1>1, <2>1, <2>2, RefinesRefuse
<1> QED BY <1>1, <1>3, <1>4, LifeOfStep

\* A creation ends the pending proposals of its group, each in its own refusal.
LEMMA RefinesCreate ==
  ASSUME Inv, NEW p \in Proposal, NEW expiresAt \in Lifetimes, NEW now \in Clocks,
         Create(p, expiresAt, now)
  PROVE  Lifecycle!LNext
<1> DEFINE state == [q \in Proposal |-> LifeOf(rows[q])]
           over  == Lifecycle!Group(p) \cap Lifecycle!Pending
           end   == [q \in over |-> LifeOf(rows'[q])]
<1>1. \A q \in Proposal : rows[q] \in Row /\ RowInv(rows[q])
  BY DEF Inv, TypeOK
<1>2. \A q \in Proposal : LifeOf(rows[q]) = "pending" <=> rows[q].decision = "pending"
  BY <1>1 DEF LifeOf, Row, Execution, Settled
<1>3. /\ rows[p].decision = "none" /\ rows[p].delivery.status = "none" /\ LifeOf(rows[p]) = "none"
      /\ rows'[p].decision = "pending" /\ rows'[p].delivery.status = "none"
      /\ LifeOf(rows'[p]) = "pending"
  <2>1. rows[p].decision = "none" /\ rows'[p] = InitialRow(births + 1, expiresAt)
    BY DEF Create, Exists
  <2>2. rows[p].delivery.status = "none"
    BY <1>1, <2>1 DEF RowInv, Finished, Refusals, Settled, NoExecution, NoDelivery
  <2>3. rows'[p].decision = "pending" /\ rows'[p].delivery.status = "none"
    BY <2>1 DEF InitialRow, NoRow, NoDelivery
  <2> QED BY <2>1, <2>2, <2>3 DEF LifeOf
<1>4. \A q \in over : Refuses(rows[q], rows'[q])
  <2> SUFFICES ASSUME NEW q \in over PROVE Refuses(rows[q], rows'[q])
    OBVIOUS
  <2>1. q \in Proposal /\ q # p /\ SameGroup(p, q) /\ rows[q].decision = "pending"
    BY <1>2 DEF Lifecycle!Group, Lifecycle!Pending, SameGroup
  <2>2. rows'[q] = Superseded(rows[q], p, now)
    BY <2>1 DEF Create
  <2>3. rows'[q].decision # "pending"
    BY <1>1, <2>1, <2>2 DEF Superseded, Lapsed, Attach, Row
  <2>4. RowStep(rows[q], rows'[q]) /\ Phased(rows[q], rows'[q]) /\ ~Moves(rows[q], rows'[q])
    BY <1>1, <2>1, <2>2, SupersededStep, SupersededPhased, ClocksAssumption
  <2>5. ~Stays(rows[q], rows'[q])
    BY <2>1, <2>3, <2>4 DEF Stays, LifeOf, RowStep, RowMove, Row, Execution, Settled
  <2> QED BY <1>1, <2>1, <2>4, <2>5, LifeOfStep DEF RowStep
<1>5. \A q \in Proposal \ (over \cup {p}) : rows'[q] = rows[q]
  BY <1>2 DEF Create, Lifecycle!Group, Lifecycle!Pending, SameGroup, Superseded
<1>6. Lifecycle!Refusing(over, [state EXCEPT ![p] = "pending"])
  <2>1. end \in [over -> Lifecycle!Refused]
    BY <1>4 DEF Refuses, Refusals, Lifecycle!Refused
  <2>2. p \notin over
    BY DEF Lifecycle!Group
  <2>3. \A q \in Proposal :
          LifeOf(rows'[q]) = IF q \in over THEN end[q] ELSE [state EXCEPT ![p] = "pending"][q]
    BY <1>3, <1>5, <2>2
  <2>4. \A q \in Proposal :
          rows'[q].delivery.status = IF q \in over THEN "pending" ELSE rows[q].delivery.status
    BY <1>3, <1>4, <1>5, <2>2 DEF Refuses
  <2>5. UNCHANGED <<thread, posted>>
    BY DEF Create
  <2> HIDE DEF over, state, end
  <2> USE DEF Lifecycle!Refusing
  <2> WITNESS end \in [over -> Lifecycle!Refused]
  <2> QED BY <2>3, <2>4, <2>5
<1>7. state[p] = "none"
  BY <1>3
<1>8. Lifecycle!Propose(p)
  BY <1>6, <1>7 DEF Lifecycle!Propose, Lifecycle!Refusing
<1> QED BY <1>8 DEF Lifecycle!LNext

LEMMA RefinesAdmit ==
  ASSUME Inv, NEW p \in Proposal, NEW token, NEW now \in Clocks, Admit(p, token, now)
  PROVE  Lifecycle!LNext
<1>1. rows \in [Proposal -> Row] /\ rows[p].delivery.status = "pending"
  BY DEF Inv, TypeOK, Admit, OutcomeFenceValid
<1>2. \A q \in Proposal : LifeOf(rows'[q]) = LifeOf(rows[q])
  BY <1>1 DEF Admit, LifeOf, Row
<1>3. \A status : rows' = [rows EXCEPT ![p].delivery.status = status,
                                     ![p].delivery.lease = NoLease]
        => \A q \in Proposal : rows'[q].delivery.status =
                                IF q = p THEN status ELSE rows[q].delivery.status
  BY <1>1 DEF Row, Delivery
<1>4. Lifecycle!Tell(p)
  BY <1>1, <1>2, <1>3 DEF Admit, Lifecycle!Tell
<1> QED BY <1>4 DEF Lifecycle!LNext

\* Every step of the store is one of the life of a proposal.
LEMMA RefinesNext ==
  ASSUME Inv, Next
  PROVE  Lifecycle!LNext
<1>1. \A p \in Proposal : rows[p] \in Row /\ RowInv(rows[p])
  BY DEF Inv, TypeOK
<1>2. Inv'
  BY NextInv
<1>3. ASSUME UNCHANGED <<thread, posted>>,
             \A p \in Proposal : Refuses(rows[p], rows'[p]) \/ Stays(rows[p], rows'[p])
      PROVE  Lifecycle!LNext
  BY <1>2, <1>3, RefinesRefuse DEF Inv, TypeOK
<1>4. ASSUME NEW now \in Clocks, NEW p \in Proposal, ProposalStep(p, now)
      PROVE  Lifecycle!LNext
  <2>0. now \in Nat
    BY ClocksAssumption
  <2>1. CASE \E expiresAt \in Lifetimes : Create(p, expiresAt, now)
    BY <2>1, RefinesCreate
  <2>2. CASE RecordToolCall(p)
    BY <1>3, <2>2 DEF RecordToolCall, Stays
  <2>3. CASE \E decision \in {"approved", "rejected", "expired"} : Decide(p, decision, now)
    BY <1>1, <2>0, <2>3, DecidedStep, DecidedPhased, RefinesMutate DEF Decide, Mutate, RowStep
  <2>4. CASE \E q \in Proposal : Supersede(p, q, now)
    BY <1>1, <2>0, <2>4, SupersededStep, SupersededPhased, RefinesMutate DEF Supersede, Mutate, RowStep
  <2>5. CASE \E token \in Tokens : Extend(p, token, now)
    BY <1>1, <2>0, <2>5, ExtendedStep, ExtendedPhased, RefinesMutate DEF Extend, Mutate, RowStep
  <2>6. CASE \E token \in Tokens, status \in Settled : Settle(p, token, status, now)
    <3>1. PICK token \in Tokens, status \in Settled :
            Mutate(p, SettledRow(rows[p], token, status, now))
      BY <2>6 DEF Settle
    <3>2. /\ RowMove(rows[p], SettledRow(rows[p], token, status, now))
          /\ Phased(rows[p], SettledRow(rows[p], token, status, now))
      BY <1>1, <2>0, SettledStep, SettledPhased DEF RowStep
    <3> QED BY <3>1, <3>2, RefinesMutate DEF Mutate
  <2>7. CASE \E token \in Tokens : Admit(p, token, now)
    BY <2>7, RefinesAdmit
  <2> QED
    BY <1>4, <2>1, <2>2, <2>3, <2>4, <2>5, <2>6, <2>7 DEF ProposalStep
<1>5. ASSUME NEW now \in Clocks, ExpireDue(now)
      PROVE  Lifecycle!LNext
  <2> SUFFICES ASSUME NEW p \in Proposal PROVE Refuses(rows[p], rows'[p]) \/ Stays(rows[p], rows'[p])
    BY <1>3, <1>5 DEF ExpireDue
  <2>1. rows'[p] = Decided(rows[p], "expired", now)
    BY <1>5 DEF ExpireDue
  <2> QED
    BY <1>1, <2>1, DecidedStep, DecidedPhased, LifeOfStep, ClocksAssumption DEF RowStep
<1>6. ASSUME NEW now \in Clocks, NEW w \in Worker, ClaimNext(w, now)
      PROVE  Lifecycle!LNext
  <2>1. PICK p \in Proposal : Mutate(p, Claimed(rows[p], w, now))
    BY <1>6 DEF ClaimNext, OldestFirst
  <2> QED
    BY <1>1, <2>1, ClaimedStep, ClaimedPhased, RefinesMutate, ClocksAssumption
     DEF Mutate, RowStep
<1>7. ASSUME NEW now \in Clocks, NEW w \in Worker, ClaimNextOutcome(w, now)
      PROVE  Lifecycle!LNext
  <2>1. PICK p \in Proposal : /\ rows' = [rows EXCEPT ![p] = ClaimedOutcome(@, w, now)]
                             /\ UNCHANGED <<births, toolCall, thread, posted>>
    BY <1>7 DEF ClaimNextOutcome, OldestFirst
  <2>2. /\ RowStep(rows[p], ClaimedOutcome(rows[p], w, now))
        /\ LifeOf(ClaimedOutcome(rows[p], w, now)) = LifeOf(rows[p])
    BY <1>1, ClaimedOutcomeStep, ClocksAssumption DEF LifeOf
  <2>3. ClaimedOutcome(rows[p], w, now).delivery.status = rows[p].delivery.status
    BY <1>1 DEF ClaimedOutcome, Row, Delivery
  <2> QED
    BY <1>3, <2>1, <2>2, <2>3 DEF Stays, Inv, TypeOK
<1>8. ASSUME ThreadStep
      PROVE  Lifecycle!LNext
  <2>1. Lifecycle!Thread
    BY <1>8 DEF ThreadStep, HoldThread, ReleaseThread, DeleteThread, Lifecycle!Thread, Inv, TypeOK
  <2> QED BY <2>1 DEF Lifecycle!LNext
<1>9. ASSUME Tick
      PROVE  Lifecycle!LNext
  BY <1>1, <1>3, <1>9, ElapseStep DEF Tick, Stays, LifeOf
<1> QED
  BY <1>4, <1>5, <1>6, <1>7, <1>8, <1>9 DEF Next

\* The store implements the life of a proposal: leases, clocks, generations and
\* records do not show, whatever the callers and their clocks do.
THEOREM LifecycleRefined == Spec => ImplementsLifecycle
<1>1. Init => Lifecycle!LInit
  BY DEF Init, Lifecycle!LInit, NoRow, NoDelivery, LifeOf
<1>2. Inv /\ [Next]_vars => [Lifecycle!LNext]_(Lifecycle!lvars)
  <2>1. UNCHANGED vars => UNCHANGED Lifecycle!lvars
    BY DEF vars, Lifecycle!lvars
  <2> QED BY <2>1, RefinesNext
<1> QED
  BY <1>1, <1>2, Invariance, PTL DEF Spec, ImplementsLifecycle, Lifecycle!LSpec
=============================================================================
