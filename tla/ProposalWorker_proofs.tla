----------------------- MODULE ProposalWorker_proofs -----------------------
(* The workers over the store, for any number of proposals, workers,       *)
(* concurrent executions, turns and faults.                                *)
EXTENDS ProposalWorker, ProposalStore_proofs

\* Where a worker is, what it has in hand, and that what it admits was claimed.
Held == [proposal : Proposal \cup {NoProposal}, generation : 0..MaxGeneration]

WTypeOK ==
  /\ pc \in [Worker -> {"idle", "claim", "work", "outcomes", "admit"}]
  /\ jobs \in [Worker -> SUBSET Job]
  /\ delivery \in [Worker -> Held]
  /\ stopped \in [Worker -> BOOLEAN]
  /\ writing \in Proposal \cup {NoProposal}
  /\ faults \in Nat
  /\ \A w \in Worker : pc[w] = "admit" => /\ delivery[w].proposal \in Proposal
                                          /\ delivery[w].generation \in 1..MaxGeneration

LEMMA TokenOfJob ==
  ASSUME NEW w \in Worker, NEW j \in Job
  PROVE  TokenOf(w, j) \in Tokens /\ j.proposal \in Proposal
BY DEF TokenOf, Job, Tokens

\* A claim moves one row: the claimed execution is the next generation of it.
LEMMA ClaimedFields ==
  ASSUME NEW row \in Row, NEW w \in Worker, NEW now \in Nat, Claimable(row, now)
  PROVE  /\ Claimed(row, w, now).decision = row.decision
         /\ Claimed(row, w, now).delivery = row.delivery
         /\ Claimed(row, w, now).execution.status = "executing"
         /\ Claimed(row, w, now).execution.generation = row.execution.generation + 1
         /\ Claimed(row, w, now).execution.lease.token =
              [worker |-> w, generation |-> row.execution.generation + 1]
         /\ Claimed(row, w, now).execution.lease.expiresAt = now + LeaseMs
BY DEF Claimed, Row

LEMMA ClaimedOutcomeFields ==
  ASSUME NEW row \in Row, NEW w, NEW now, OutcomeClaimable(row, now)
  PROVE  /\ ClaimedOutcome(row, w, now).decision = row.decision
         /\ ClaimedOutcome(row, w, now).execution = row.execution
         /\ ClaimedOutcome(row, w, now).delivery.generation = row.delivery.generation + 1
BY DEF ClaimedOutcome, Row, Delivery

\* Each thing a worker does to the store is an operation of the store.
LEMMA WorkerUsesStore ==
  ASSUME WTypeOK, NEW w \in Worker, Loop(w) \/ Execute(w) \/ Renewals(w) \/ Faults(w)
  PROVE  Next \/ UNCHANGED vars
<1>0. Clock[w] \in Clocks
  BY ClockAssumption
<1>1. ASSUME NEW j \in jobs[w]
      PROVE  /\ j \in Job /\ TokenOf(w, j) \in Tokens /\ j.proposal \in Proposal
             /\ Extend(j.proposal, TokenOf(w, j), Clock[w]) => Next
             /\ j.phase \in Settled /\ Settle(j.proposal, TokenOf(w, j), j.phase, Clock[w]) => Next
  <2>1. j \in Job /\ TokenOf(w, j) \in Tokens /\ j.proposal \in Proposal
    BY <1>1, TokenOfJob DEF WTypeOK
  <2> QED BY <1>0, <2>1 DEF Next, ProposalStep
<1>2. CASE Loop(w)
  <2>1. CASE StartTick(w)
    BY <1>0, <2>1 DEF StartTick, Next
  <2>2. CASE Claim(w)
    BY <1>0, <2>2 DEF Claim, Next
  <2>3. CASE TakeOutcome(w)
    BY <1>0, <2>3 DEF TakeOutcome, Next
  <2>4. CASE AdmitOutcome(w)
    <3>1. delivery[w].proposal \in Proposal /\ TokenOf(w, delivery[w]) \in Tokens
      BY <2>4 DEF AdmitOutcome, Goto, WTypeOK, TokenOf, Tokens
    <3> QED BY <1>0, <2>4, <3>1 DEF AdmitOutcome, Next, ProposalStep
  <2>5. CASE ClaimsDone(w) \/ WorkDone(w) \/ OutcomesDone(w)
    BY <2>5 DEF ClaimsDone, WorkDone, OutcomesDone
  <2> QED BY <1>2, <2>1, <2>2, <2>3, <2>4, <2>5 DEF Loop
<1>3. CASE Execute(w)
  BY <1>1, <1>3 DEF Execute, Invoke, SettleJob
<1>4. CASE Renewals(w)
  BY <1>1, <1>4 DEF Renewals, Renew
<1>5. CASE TickThrows(w)
  <2>1. ASSUME pc[w] = "admit", Admit(delivery[w].proposal, TokenOf(w, delivery[w]), Clock[w])
        PROVE  Next
    <3>1. delivery[w].proposal \in Proposal /\ TokenOf(w, delivery[w]) \in Tokens
      BY <2>1 DEF WTypeOK, TokenOf, Tokens
    <3> QED BY <1>0, <2>1, <3>1 DEF Next, ProposalStep
  <2> QED BY <1>0, <1>5, <2>1 DEF TickThrows, TickCall, Next
<1>6. CASE Faults(w)
  BY <1>1, <1>5, <1>6 DEF Faults, RenewThrows, SettleThrows, Crash, Stop
<1> QED BY <1>2, <1>3, <1>4, <1>6

LEMMA UsesStore ==
  ASSUME WTypeOK, [WNext]_allvars
  PROVE  [Next]_vars
<1>1. CASE \E w \in Worker : Loop(w) \/ Execute(w) \/ Renewals(w) \/ Faults(w)
  BY <1>1, WorkerUsesStore
<1>2. CASE BeginTurn \/ EndTurn \/ Delete
  BY <1>2 DEF BeginTurn, EndTurn, Delete, Next, ThreadStep
<1>3. CASE TurnProposes
  BY <1>3 DEF TurnProposes, Next, ProposalStep
<1>4. CASE TurnRecords
  <2>1. writing \in Proposal
    BY <1>4 DEF TurnRecords, WTypeOK
  <2> QED BY <1>4, <2>1, ClockAssumption DEF TurnRecords, Next, ProposalStep
<1>5. ASSUME NEW p \in Proposal, Decision(p) PROVE Next
  BY <1>5 DEF Decision, Next, ProposalStep
<1>6. CASE TimePasses \/ Stall
  BY <1>6 DEF TimePasses, Stall, Next
<1>7. CASE UNCHANGED allvars
  BY <1>7 DEF allvars
<1> QED BY <1>1, <1>2, <1>3, <1>4, <1>5, <1>6, <1>7 DEF WNext

-----------------------------------------------------------------------------
(* What a worker has in hand. *)

LEMMA ReplaceType ==
  ASSUME WTypeOK, NEW w \in Worker, NEW j, NEW by \in SUBSET Job, Replace(w, j, by)
  PROVE  jobs' \in [Worker -> SUBSET Job]
BY DEF WTypeOK, Replace

LEMMA WInitType == WInit => WTypeOK
BY BoundAssumption DEF WInit, WTypeOK, Held, NoDeliveryHeld

LEMMA LoopType ==
  ASSUME Inv, WTypeOK, NEW w \in Worker, Loop(w)
  PROVE  WTypeOK'
<1>1. /\ \A p \in Proposal : rows[p] \in Row
      /\ Clock[w] \in Nat
  BY ClockAssumption, ClocksAssumption DEF Inv, TypeOK
<1>2. CASE StartTick(w) \/ ClaimsDone(w) \/ WorkDone(w) \/ OutcomesDone(w)
  BY <1>2 DEF StartTick, ClaimsDone, WorkDone, OutcomesDone, Goto, WTypeOK
<1>3. CASE Claim(w)
  <2>1. PICK p \in Proposal : /\ Claimable(rows[p], Clock[w])
                             /\ rows[p].execution.generation < MaxGeneration
                             /\ Mutate(p, Claimed(rows[p], w, Clock[w]))
    BY <1>3 DEF Claim, ClaimNext, OldestFirst
  <2>2. \A q \in Proposal : rows'[q] = IF q = p THEN Claimed(rows[p], w, Clock[w]) ELSE rows[q]
    BY <2>1 DEF Mutate, Inv, TypeOK
  <2>3. rows'[p].execution.generation \in 1..MaxGeneration
    <3>1. rows'[p].execution.generation = rows[p].execution.generation + 1
      <4>1. rows'[p] = Claimed(rows[p], w, Clock[w]) /\ rows[p] \in Row
        BY <1>1, <2>2
      <4>2. Claimed(rows[p], w, Clock[w]).execution.generation = rows[p].execution.generation + 1
        BY <1>1, <2>1, <4>1, ClaimedFields
      <4> QED BY <4>1, <4>2
    <3>2. rows[p].execution.generation \in Nat
      BY <1>1 DEF Row, Execution
    <3> QED BY <2>1, <3>1, <3>2, BoundAssumption
  <2> DEFINE new == {[proposal |-> q, generation |-> rows'[q].execution.generation,
                      phase |-> "running", fenced |-> TRUE, tick |-> "open"] :
                        q \in {r \in Proposal :
                                 rows'[r].execution.generation # rows[r].execution.generation
                                 /\ rows'[r].execution.status = "executing"}}
  <2>4. new \in SUBSET Job
    <3> SUFFICES ASSUME NEW n \in new PROVE n \in Job
      OBVIOUS
    <3>1. PICK q \in Proposal :
            /\ n = [proposal |-> q, generation |-> rows'[q].execution.generation,
                    phase |-> "running", fenced |-> TRUE, tick |-> "open"]
            /\ rows'[q].execution.generation # rows[q].execution.generation
      OBVIOUS
    <3>2. q = p
      BY <2>2, <3>1
    <3> QED BY <2>3, <3>1, <3>2 DEF Job
  <2>5. jobs' = [jobs EXCEPT ![w] = @ \cup new]
    BY <1>3 DEF Claim
  <2> HIDE DEF new
  <2>6. jobs' \in [Worker -> SUBSET Job]
    BY <2>4, <2>5 DEF WTypeOK
  <2> QED BY <1>3, <2>6 DEF Claim, WTypeOK
<1>4. CASE TakeOutcome(w)
  <2>1. PICK p \in Proposal : /\ OutcomeClaimable(rows[p], Clock[w])
                             /\ rows[p].delivery.generation < MaxGeneration
                             /\ rows' = [rows EXCEPT ![p] = ClaimedOutcome(@, w, Clock[w])]
    BY <1>4 DEF TakeOutcome, ClaimNextOutcome, OldestFirst
  <2>2. \A q \in Proposal : rows'[q] = IF q = p THEN ClaimedOutcome(rows[p], w, Clock[w]) ELSE rows[q]
    BY <2>1 DEF Inv, TypeOK
  <2>3. rows'[p].delivery.generation \in 1..MaxGeneration
    <3>1. rows'[p].delivery.generation = rows[p].delivery.generation + 1
      BY <1>1, <2>1, <2>2, ClaimedOutcomeFields
    <3>2. rows[p].delivery.generation \in Nat
      BY <1>1 DEF Row, Delivery
    <3> QED BY <2>1, <3>1, <3>2, BoundAssumption
  <2>4. delivery' = [delivery EXCEPT ![w] =
                       [proposal |-> p, generation |-> rows'[p].delivery.generation]]
    BY <1>4, <2>2 DEF TakeOutcome
  <2>5. /\ delivery' \in [Worker -> Held]
        /\ delivery'[w].proposal = p /\ delivery'[w].generation \in 1..MaxGeneration
        /\ \A v \in Worker \ {w} : delivery'[v] = delivery[v]
    BY <2>3, <2>4 DEF WTypeOK, Held
  <2> QED BY <1>4, <2>5 DEF TakeOutcome, Goto, WTypeOK
<1>5. CASE AdmitOutcome(w)
  BY <1>5, BoundAssumption DEF AdmitOutcome, Goto, WTypeOK, NoDeliveryHeld, Held
<1> QED BY <1>2, <1>3, <1>4, <1>5 DEF Loop

LEMMA JobsType ==
  ASSUME WTypeOK, NEW w \in Worker, Execute(w) \/ Renewals(w) \/ Faults(w)
  PROVE  WTypeOK'
<1>1. \A j \in jobs[w] : j \in Job /\ j.phase \in {"running"} \cup Settled
  BY DEF WTypeOK, Job
<1>2. ASSUME NEW j \in jobs[w], NEW by \in SUBSET Job, Replace(w, j, by),
             UNCHANGED <<pc, delivery, stopped, writing>>, faults' \in {faults, faults + 1}
      PROVE  WTypeOK'
  BY <1>2, ReplaceType DEF WTypeOK
<1>3. ASSUME Restart(w), faults' = faults + 1
      PROVE  WTypeOK'
  BY <1>3, BoundAssumption DEF Restart, WTypeOK, NoDeliveryHeld, Held
<1>4. CASE Execute(w)
  <2>1. ASSUME NEW j \in jobs[w], Invoke(w, j) PROVE WTypeOK'
    <3>1. PICK end \in Settled : Replace(w, j, {[j EXCEPT !.phase = end]})
      BY <2>1 DEF Invoke
    <3>2. {[j EXCEPT !.phase = end]} \in SUBSET Job
      BY <1>1 DEF Job
    <3> QED BY <1>2, <2>1, <3>1, <3>2 DEF Invoke
  <2>2. ASSUME NEW j \in jobs[w], SettleJob(w, j) PROVE WTypeOK'
    BY <1>2, <2>2 DEF SettleJob
  <2> QED BY <1>4, <2>1, <2>2 DEF Execute
<1>5. ASSUME NEW j \in jobs[w], Renew(w, j) PROVE WTypeOK'
  <2> DEFINE fence == FenceValid(rows[j.proposal], TokenOf(w, j), Clock[w])
  <2>1. fence \in BOOLEAN
    BY DEF FenceValid, HoldsLease
  <2> HIDE DEF fence
  <2>2. {[j EXCEPT !.fenced = fence]} \in SUBSET Job
    BY <1>1, <2>1 DEF Job
  <2> QED BY <1>2, <1>5, <2>2 DEF Renew, fence
<1>6. ASSUME NEW j \in jobs[w], RenewThrows(w, j) PROVE WTypeOK'
  <2>1. {[j EXCEPT !.fenced = FALSE]} \in SUBSET Job
    BY <1>1 DEF Job
  <2> QED BY <1>2, <1>6, <2>1 DEF RenewThrows, Fault
<1>7. ASSUME NEW left \in SUBSET jobs[w], NEW end \in {"rejected", "thrown"},
             LeaveTick(w, left, end), faults' = faults + 1, UNCHANGED <<stopped, writing>>,
             delivery' \in [Worker -> Held],
             \A v \in Worker \ {w} : delivery'[v] = delivery[v]
      PROVE  WTypeOK'
  <2>1. {IF j.tick = "open" THEN [j EXCEPT !.tick = end] ELSE j : j \in left} \in SUBSET Job
    BY <1>1 DEF Job
  <2>2. jobs' \in [Worker -> SUBSET Job]
    BY <1>7, <2>1 DEF LeaveTick, WTypeOK
  <2>3. /\ pc' \in [Worker -> {"idle", "claim", "work", "outcomes", "admit"}]
        /\ pc'[w] = "idle" /\ \A v \in Worker \ {w} : pc'[v] = pc[v]
    BY <1>7 DEF LeaveTick, WTypeOK
  <2> QED BY <1>7, <2>2, <2>3 DEF WTypeOK
<1>10. ASSUME NEW j \in jobs[w], SettleThrows(w, j) PROVE WTypeOK'
  <2>1. CASE Restart(w)
    BY <1>3, <1>10, <2>1 DEF SettleThrows, Fault
  <2>2. CASE Replace(w, j, {}) /\ UNCHANGED <<pc, claims, delivery, stopped, writing, turns, busy>>
    BY <1>2, <1>10, <2>2 DEF SettleThrows, Fault
  <2>3. CASE /\ LeaveTick(w, jobs[w] \ {j}, "rejected")
             /\ UNCHANGED <<claims, delivery, stopped, writing, turns, busy>>
    BY <1>7, <1>10, <2>3 DEF SettleThrows, Fault, WTypeOK
  <2> QED BY <1>10, <2>1, <2>2, <2>3 DEF SettleThrows
<1>11. CASE TickThrows(w)
  <2>1. /\ delivery' \in [Worker -> Held]
        /\ \A v \in Worker \ {w} : delivery'[v] = delivery[v]
    BY <1>11, BoundAssumption DEF TickThrows, WTypeOK, NoDeliveryHeld, Held
  <2> QED BY <1>7, <1>11, <2>1 DEF TickThrows, Fault
<1>8. CASE Crash(w)
  BY <1>3, <1>8 DEF Crash, Fault
<1>9. CASE Stop(w)
  BY <1>9 DEF Stop, Fault, WTypeOK
<1> QED BY <1>4, <1>5, <1>6, <1>8, <1>9, <1>10, <1>11 DEF Renewals, Faults

LEMMA WNextType ==
  ASSUME Inv, WTypeOK, [WNext]_allvars
  PROVE  WTypeOK'
<1>1. CASE \E w \in Worker : Loop(w) \/ Execute(w) \/ Renewals(w) \/ Faults(w)
  BY <1>1, LoopType, JobsType
<1>2. CASE BeginTurn \/ EndTurn \/ Delete \/ TurnProposes \/ TurnRecords
  BY <1>2 DEF BeginTurn, EndTurn, Delete, TurnProposes, TurnRecords, wvars, WTypeOK
<1>3. CASE (\E p \in Proposal : Decision(p)) \/ TimePasses
  BY <1>3 DEF Decision, TimePasses, wvars, WTypeOK
<1>4. CASE Stall
  BY <1>4 DEF Stall, Fault, WTypeOK
<1>5. CASE UNCHANGED allvars
  BY <1>5 DEF allvars, wvars, WTypeOK
<1> QED BY <1>1, <1>2, <1>3, <1>4, <1>5 DEF WNext

\* The store's invariant and the workers' types hold together.
LEMMA WorkerTypes == WSpec => [](Inv /\ WTypeOK)
<1>1. WInit => Inv /\ WTypeOK
  BY InitInv, WInitType DEF WInit
<1>2. Inv /\ WTypeOK /\ [WNext]_allvars => (Inv /\ WTypeOK)'
  BY UsesStore, NextInv, StutterInv, WNextType
<1> QED
  BY <1>1, <1>2, PTL DEF WSpec

\* The workers, the turns and the deciders do to the store only what it offers:
\* the theorems of the store are theorems of the deployment.
THEOREM StoreUsed == WSpec => ImplementsStore
<1>1. WInit => Init
  BY DEF WInit
<1> QED
  BY <1>1, UsesStore, WorkerTypes, PTL DEF WSpec, Spec, ImplementsStore

\* What follows for the deployment: the life of each proposal, first-wins
\* decisions, and no settlement without a live lease of the latest claim.
COROLLARY DeploymentSafe ==
  WSpec => ImplementsLifecycle /\ FirstWins /\ NeverDecidedLate /\ SettledUnderLease
BY StoreUsed, LifecycleRefined, DecisionsFinal, NoLateDecision, Fenced DEF ImplementsStore

-----------------------------------------------------------------------------
(* One claim for each fault, and replacements that are newer.              *)
(* A row that reached the claim its faults allow is held by an execution   *)
(* that still renews: the clock does not outrun it without a fault, so     *)
(* nobody finds its lease lapsed.                                          *)

Healthy(p) ==
  \E w \in Worker : \E j \in jobs[w] :
    j.proposal = p /\ j.fenced /\ ~stopped[w] /\ HoldsLease(rows[p], TokenOf(w, j))

\* The lease of its execution has not run out on any worker's clock.
Leased(p) == \A w \in Worker : rows[p].execution.lease.expiresAt > Clock[w]

ClaimsInv ==
  \A p \in Proposal :
    /\ rows[p].execution.generation <= 1 + faults
    /\ rows[p].execution.status = "queued" => rows[p].execution.generation = 0
    /\ rows[p].execution.status = "executing" /\ rows[p].execution.generation = 1 + faults =>
         Leased(p) /\ Healthy(p)

\* What a step that is no claim leaves of an execution, time aside.
ExecKept(row, next) ==
  /\ next.execution.generation = row.execution.generation
  /\ next.execution.status = "queued" =>
       row.execution.status = "queued" \/ next.execution.generation = 0
  /\ next.execution.status = "executing" =>
       /\ row.execution.status = "executing"
       /\ next.execution.lease.token = row.execution.lease.token
       /\ next.execution.lease.expiresAt >= row.execution.lease.expiresAt

\* What a step that is no creation leaves of a row's place among the others.
PlaceKept(row, next) ==
  /\ next.createdAt = row.createdAt
  /\ next.decision = "none" <=> row.decision = "none"
  /\ next.decision = "superseded" =>
       row.decision = "superseded" /\ next.supersededBy = row.supersededBy

LEMMA SameKept ==
  ASSUME NEW row \in Row
  PROVE  ExecKept(row, row) /\ PlaceKept(row, row)
BY DEF ExecKept, PlaceKept, Row, Execution, Lease

LEMMA DecidedKept ==
  ASSUME NEW row \in Row, RowInv(row), NEW decision, NEW now
  PROVE  LET next == Decided(row, decision, now) IN ExecKept(row, next) /\ PlaceKept(row, next)
<1>1. CASE Decided(row, decision, now) = row
  BY <1>1, SameKept
<1>2. CASE row.decision = "pending" /\ Decided(row, decision, now) = Queued(row)
  BY <1>2 DEF Queued, Row, RowInv, NoExecution, ExecKept, PlaceKept
<1>3. ASSUME row.decision = "pending", NEW d \in {"rejected", "expired"},
             Decided(row, decision, now) = Attach([row EXCEPT !.decision = d])
      PROVE  LET next == Decided(row, decision, now) IN ExecKept(row, next) /\ PlaceKept(row, next)
  <2>1. /\ Decided(row, decision, now).decision = d
        /\ Decided(row, decision, now).createdAt = row.createdAt
        /\ Decided(row, decision, now).execution = row.execution
    BY <1>3 DEF Attach, Row
  <2> QED BY <1>3, <2>1, SameKept DEF ExecKept, PlaceKept
<1> QED BY <1>1, <1>2, <1>3 DEF Decided, Lapsed

LEMMA SupersededKept ==
  ASSUME NEW row \in Row, RowInv(row), NEW q, NEW now
  PROVE  LET next == Superseded(row, q, now)
         IN  /\ ExecKept(row, next)
             /\ next.createdAt = row.createdAt
             /\ next.decision = "none" <=> row.decision = "none"
             /\ next.decision = "superseded" =>
                  \/ row.decision = "superseded" /\ next.supersededBy = row.supersededBy
                  \/ next.supersededBy = q
<1>1. CASE Superseded(row, q, now) = row
  BY <1>1, SameKept DEF PlaceKept
<1>2. CASE row.decision = "pending" /\ Superseded(row, q, now) = Lapsed(row)
  <2>1. /\ Superseded(row, q, now).decision = "expired"
        /\ Superseded(row, q, now).createdAt = row.createdAt
        /\ Superseded(row, q, now).execution = row.execution
    BY <1>2 DEF Lapsed, Attach, Row
  <2> QED BY <1>2, <2>1, SameKept DEF ExecKept
<1>3. CASE row.decision = "pending" /\
           Superseded(row, q, now) = Attach([row EXCEPT !.decision = "superseded",
                                                        !.supersededBy = q])
  <2>1. /\ Superseded(row, q, now).decision = "superseded"
        /\ Superseded(row, q, now).supersededBy = q
        /\ Superseded(row, q, now).createdAt = row.createdAt
        /\ Superseded(row, q, now).execution = row.execution
    BY <1>3 DEF Attach, Row
  <2> QED BY <1>3, <2>1, SameKept DEF ExecKept
<1> QED BY <1>1, <1>2, <1>3 DEF Superseded

LEMMA ExtendedKept ==
  ASSUME NEW row \in Row, NEW token, NEW now \in Nat
  PROVE  LET next == Extended(row, token, now) IN ExecKept(row, next) /\ PlaceKept(row, next)
<1>1. row.execution.lease.expiresAt \in Nat
  BY DEF Row, Execution, Lease
<1>2. now + LeaseMs \in Nat
  BY LeaseMsAssumption
<1>3. Later(row.execution.lease.expiresAt, now + LeaseMs) >= row.execution.lease.expiresAt
  BY <1>1, <1>2 DEF Later
<1>4. CASE FenceValid(row, token, now)
  <2>1. /\ Extended(row, token, now).decision = row.decision
        /\ Extended(row, token, now).createdAt = row.createdAt
        /\ Extended(row, token, now).supersededBy = row.supersededBy
        /\ Extended(row, token, now).execution.status = row.execution.status
        /\ Extended(row, token, now).execution.generation = row.execution.generation
        /\ Extended(row, token, now).execution.lease.token = row.execution.lease.token
        /\ Extended(row, token, now).execution.lease.expiresAt =
             Later(row.execution.lease.expiresAt, now + LeaseMs)
    BY <1>4 DEF Extended, Row, Execution, Lease
  <2> QED BY <1>3, <2>1 DEF ExecKept, PlaceKept
<1>5. CASE ~FenceValid(row, token, now)
  BY <1>5, SameKept DEF Extended
<1> QED BY <1>4, <1>5

LEMMA SettledKept ==
  ASSUME NEW row \in Row, NEW token, NEW status \in Settled, NEW now
  PROVE  LET next == SettledRow(row, token, status, now)
         IN  /\ ExecKept(row, next) /\ PlaceKept(row, next)
             /\ FenceValid(row, token, now) => next.execution.status # "executing"
<1>1. CASE ~FenceValid(row, token, now)
  BY <1>1, SameKept DEF SettledRow
<1>2. CASE FenceValid(row, token, now)
  <2>1. /\ SettledRow(row, token, status, now).decision = row.decision
        /\ SettledRow(row, token, status, now).createdAt = row.createdAt
        /\ SettledRow(row, token, status, now).supersededBy = row.supersededBy
        /\ SettledRow(row, token, status, now).execution.status = status
        /\ SettledRow(row, token, status, now).execution.generation = row.execution.generation
    BY <1>2 DEF SettledRow, Attach, Row, FenceValid, HoldsLease
  <2> QED BY <2>1 DEF ExecKept, PlaceKept, Settled
<1> QED BY <1>1, <1>2

\* The operations of the store other than a claim, a creation and the clock.
Quietly == \A p \in Proposal : ExecKept(rows[p], rows'[p]) /\ PlaceKept(rows[p], rows'[p])

LEMMA MutateQuietly ==
  ASSUME Inv, NEW p \in Proposal, NEW next, ExecKept(rows[p], next), PlaceKept(rows[p], next),
         Mutate(p, next)
  PROVE  Quietly
<1>1. \A q \in Proposal : rows'[q] = IF q = p THEN next ELSE rows[q]
  BY DEF Mutate, Inv, TypeOK
<1> QED BY <1>1, SameKept DEF Quietly, Inv, TypeOK

LEMMA OperationsQuietly ==
  ASSUME Inv, NEW now \in Clocks
  PROVE  /\ UNCHANGED rows => Quietly
         /\ ExpireDue(now) => Quietly
         /\ \A w : ClaimNextOutcome(w, now) => Quietly
         /\ \A p \in Proposal :
              /\ \A decision : Decide(p, decision, now) => Quietly
              /\ \A token : Extend(p, token, now) => Quietly
              /\ \A token : \A status \in Settled : Settle(p, token, status, now) => Quietly
              /\ \A token : Admit(p, token, now) => Quietly
<1>0. now \in Nat
  BY ClocksAssumption
<1>1. /\ rows \in [Proposal -> Row]
      /\ \A q \in Proposal : rows[q] \in Row /\ RowInv(rows[q])
  BY DEF Inv, TypeOK
<1>2. UNCHANGED rows => Quietly
  BY <1>1, SameKept DEF Quietly
<1>3. ASSUME NEW p \in Proposal, NEW decision, Decide(p, decision, now) PROVE Quietly
  BY <1>1, <1>3, DecidedKept, MutateQuietly DEF Decide
<1>4. ExpireDue(now) => Quietly
  BY <1>1, DecidedKept DEF ExpireDue, Quietly
<1>5. ASSUME NEW p \in Proposal, NEW token, Extend(p, token, now) PROVE Quietly
  BY <1>0, <1>1, <1>5, ExtendedKept, MutateQuietly DEF Extend
<1>6. ASSUME NEW p \in Proposal, NEW token, NEW status \in Settled, Settle(p, token, status, now)
      PROVE  Quietly
  BY <1>1, <1>6, SettledKept, MutateQuietly DEF Settle
<1>7. ASSUME NEW p \in Proposal, NEW token, Admit(p, token, now) PROVE Quietly
  <2>1. PICK status : rows' = [rows EXCEPT ![p].delivery.status = status,
                                         ![p].delivery.lease = NoLease]
    BY <1>7 DEF Admit
  <2>2. \A q \in Proposal : /\ rows'[q].execution = rows[q].execution
                            /\ rows'[q].decision = rows[q].decision
                            /\ rows'[q].createdAt = rows[q].createdAt
                            /\ rows'[q].supersededBy = rows[q].supersededBy
    BY <1>1, <2>1 DEF Row
  <2> QED BY <1>1, <2>2, SameKept DEF Quietly, ExecKept, PlaceKept
<1>8. ASSUME NEW w, ClaimNextOutcome(w, now) PROVE Quietly
  <2>1. PICK q \in Proposal : rows' = [rows EXCEPT ![q] = ClaimedOutcome(@, w, now)]
    BY <1>8 DEF ClaimNextOutcome, OldestFirst
  <2>2. \A r \in Proposal : /\ rows'[r].execution = rows[r].execution
                            /\ rows'[r].decision = rows[r].decision
                            /\ rows'[r].createdAt = rows[r].createdAt
                            /\ rows'[r].supersededBy = rows[r].supersededBy
    BY <1>1, <2>1 DEF ClaimedOutcome, Row
  <2> QED BY <1>1, <2>2, SameKept DEF Quietly, ExecKept, PlaceKept
<1> QED BY <1>2, <1>3, <1>4, <1>5, <1>6, <1>7, <1>8

\* A claim, a creation and the clock: what each leaves of the rows.
LEMMA CreateKept ==
  ASSUME Inv, NEW p \in Proposal, NEW expiresAt, NEW now, Create(p, expiresAt, now)
  PROVE  /\ \A q \in Proposal : ExecKept(rows[q], rows'[q])
         /\ rows[p].decision = "none" /\ rows'[p].decision = "pending"
         /\ births' = births + 1 /\ rows'[p].createdAt = births + 1
         /\ \A q \in Proposal \ {p} :
              /\ rows'[q].createdAt = rows[q].createdAt
              /\ rows'[q].decision = "none" <=> rows[q].decision = "none"
              /\ rows'[q].decision = "superseded" =>
                   \/ rows[q].decision = "superseded"
                      /\ rows'[q].supersededBy = rows[q].supersededBy
                   \/ rows'[q].supersededBy = p
<1>1. \A q \in Proposal : rows[q] \in Row /\ RowInv(rows[q])
  BY DEF Inv, TypeOK
<1>2. /\ rows'[p] = InitialRow(births + 1, expiresAt)
      /\ births' = births + 1 /\ rows[p].decision = "none"
  BY DEF Create, Exists
<1>3. /\ rows'[p].decision = "pending" /\ rows'[p].createdAt = births + 1
      /\ rows'[p].execution = NoExecution
  BY <1>2 DEF InitialRow, NoRow
<1>4. rows[p].execution = NoExecution
  BY <1>1, <1>2 DEF RowInv
<1>5. ExecKept(rows[p], rows'[p])
  BY <1>3, <1>4 DEF ExecKept, NoExecution
<1>6. \A q \in Proposal \ {p} : rows'[q] = IF SameGroup(p, q) THEN Superseded(rows[q], p, now)
                                          ELSE rows[q]
  BY DEF Create
<1>7. \A q \in Proposal \ {p} :
        /\ ExecKept(rows[q], rows'[q])
        /\ rows'[q].createdAt = rows[q].createdAt
        /\ rows'[q].decision = "none" <=> rows[q].decision = "none"
        /\ rows'[q].decision = "superseded" =>
             \/ rows[q].decision = "superseded" /\ rows'[q].supersededBy = rows[q].supersededBy
             \/ rows'[q].supersededBy = p
  BY <1>1, <1>6, SupersededKept, SameKept DEF PlaceKept
<1> QED BY <1>2, <1>3, <1>5, <1>7

LEMMA TickKept ==
  ASSUME Inv, Tick, NEW p \in Proposal
  PROVE  /\ PlaceKept(rows[p], rows'[p])
         /\ rows'[p].execution.status = rows[p].execution.status
         /\ rows'[p].execution.generation = rows[p].execution.generation
         /\ rows'[p].execution.lease.token = rows[p].execution.lease.token
         /\ rows'[p].execution.lease.expiresAt = Less(rows[p].execution.lease.expiresAt)
<1>1. rows[p] \in Row /\ rows'[p] = Elapse(rows[p])
  BY DEF Tick, Inv, TypeOK
<1> QED BY <1>1 DEF Elapse, Row, Execution, Lease, PlaceKept

LEMMA ClaimKept ==
  ASSUME Inv, NEW w \in Worker, ClaimNext(w, Clock[w])
  PROVE  \E p \in Proposal :
           /\ Claimable(rows[p], Clock[w])
           /\ rows'[p].execution.status = "executing"
           /\ rows'[p].execution.generation = rows[p].execution.generation + 1
           /\ rows'[p].execution.lease.token =
                [worker |-> w, generation |-> rows[p].execution.generation + 1]
           /\ rows'[p].execution.lease.expiresAt = Clock[w] + LeaseMs
           /\ rows'[p].decision = "approved"
           /\ \A q \in Proposal \ {p} : rows'[q] = rows[q]
           /\ \A q \in Proposal : PlaceKept(rows[q], rows'[q])
           /\ births' = births
<1>1. PICK p \in Proposal : Claimable(rows[p], Clock[w]) /\ Mutate(p, Claimed(rows[p], w, Clock[w]))
  BY DEF ClaimNext, OldestFirst
<1>2. /\ \A q \in Proposal : rows[q] \in Row
      /\ \A q \in Proposal : rows'[q] = IF q = p THEN Claimed(rows[p], w, Clock[w]) ELSE rows[q]
      /\ births' = births
  BY <1>1 DEF Mutate, Inv, TypeOK
<1>3. Clock[w] \in Nat
  BY ClockAssumption, ClocksAssumption
<1>4. /\ rows'[p].execution.status = "executing"
      /\ rows'[p].execution.generation = rows[p].execution.generation + 1
      /\ rows'[p].execution.lease.token =
           [worker |-> w, generation |-> rows[p].execution.generation + 1]
      /\ rows'[p].execution.lease.expiresAt = Clock[w] + LeaseMs
      /\ rows'[p].decision = rows[p].decision
  BY <1>1, <1>2, <1>3, ClaimedFields
<1>5. PlaceKept(rows[p], rows'[p])
  <2>1. /\ Claimed(rows[p], w, Clock[w]).createdAt = rows[p].createdAt
        /\ Claimed(rows[p], w, Clock[w]).supersededBy = rows[p].supersededBy
    BY <1>2 DEF Claimed, Row
  <2> QED BY <1>2, <1>4, <2>1 DEF PlaceKept
<1>6. rows[p].decision = "approved"
  BY <1>1 DEF Claimable
<1> QED BY <1>1, <1>2, <1>4, <1>5, <1>6, SameKept

\* A claim that throws after the store took it: an execution nobody runs.
ClaimThrows(w) == TickThrows(w) /\ ClaimNext(w, Clock[w])

LEMMA RowsKept ==
  ASSUME Inv, UNCHANGED rows
  PROVE  Quietly
BY SameKept DEF Quietly, Inv, TypeOK

\* What the deployment does to the rows: it claims, creates, lets time pass, or
\* goes through one of the other operations.
LEMMA Effects ==
  ASSUME Inv, WTypeOK, [WNext]_allvars
  PROVE  \/ Quietly /\ UNCHANGED births
         \/ \E w \in Worker : Claim(w) \/ ClaimThrows(w)
         \/ \E p \in Proposal, expiresAt \in Lifetimes, now \in Clocks : Create(p, expiresAt, now)
         \/ TimePasses \/ Stall
<1>0. \A w \in Worker : Clock[w] \in Clocks
  BY ClockAssumption
<1>1. ASSUME NEW w \in Worker, NEW j \in jobs[w]
      PROVE  /\ UNCHANGED vars => Quietly /\ UNCHANGED births
             /\ Extend(j.proposal, TokenOf(w, j), Clock[w]) => Quietly /\ UNCHANGED births
             /\ j.phase \in Settled /\ Settle(j.proposal, TokenOf(w, j), j.phase, Clock[w])
                 => Quietly /\ UNCHANGED births
  <2>1. j.proposal \in Proposal
    BY DEF WTypeOK, Job
  <2> QED BY <1>0, <2>1, OperationsQuietly DEF vars, Extend, Settle, Mutate
<1>2. ASSUME NEW w \in Worker, Loop(w)
      PROVE  (Quietly /\ UNCHANGED births) \/ Claim(w)
  <2>1. CASE StartTick(w)
    BY <1>0, <2>1, OperationsQuietly DEF StartTick, ExpireDue
  <2>2. CASE TakeOutcome(w)
    BY <1>0, <2>2, OperationsQuietly DEF TakeOutcome, ClaimNextOutcome
  <2>3. CASE AdmitOutcome(w)
    <3>1. delivery[w].proposal \in Proposal
      BY <2>3 DEF AdmitOutcome, Goto, WTypeOK
    <3> QED BY <1>0, <2>3, <3>1, OperationsQuietly DEF AdmitOutcome, Admit, vars
  <2>4. CASE ClaimsDone(w) \/ WorkDone(w) \/ OutcomesDone(w)
    BY <1>0, <2>4, OperationsQuietly DEF ClaimsDone, WorkDone, OutcomesDone, vars
  <2> QED BY <1>2, <2>1, <2>2, <2>3, <2>4 DEF Loop
<1>3. ASSUME NEW w \in Worker, Execute(w) \/ Renewals(w) \/ Faults(w)
      PROVE  (Quietly /\ UNCHANGED births) \/ ClaimThrows(w)
  <2>1. CASE Execute(w)
    BY <1>1, <2>1 DEF Execute, Invoke, SettleJob
  <2>2. CASE Renewals(w)
    BY <1>1, <2>2 DEF Renewals, Renew
  <2>3. CASE \E j \in jobs[w] : RenewThrows(w, j) \/ SettleThrows(w, j)
    BY <1>1, <2>3 DEF RenewThrows, SettleThrows
  <2>4. CASE Crash(w) \/ Stop(w)
    BY <1>0, <2>4, OperationsQuietly DEF Crash, Stop, vars
  <2>5. CASE TickThrows(w)
    <3>1. UNCHANGED vars => Quietly /\ UNCHANGED births
      BY <1>0, OperationsQuietly DEF vars
    <3>2. ExpireDue(Clock[w]) => Quietly /\ UNCHANGED births
      BY <1>0, OperationsQuietly DEF ExpireDue
    <3>3. ClaimNextOutcome(w, Clock[w]) => Quietly /\ UNCHANGED births
      BY <1>0, OperationsQuietly DEF ClaimNextOutcome
    <3>4. ASSUME pc[w] = "admit", Admit(delivery[w].proposal, TokenOf(w, delivery[w]), Clock[w])
          PROVE  Quietly /\ UNCHANGED births
      <4>1. delivery[w].proposal \in Proposal
        BY <3>4 DEF WTypeOK
      <4> QED BY <1>0, <3>4, <4>1, OperationsQuietly DEF Admit
    <3> QED BY <2>5, <3>1, <3>2, <3>3, <3>4 DEF TickThrows, TickCall, ClaimThrows
  <2> QED BY <1>3, <2>1, <2>2, <2>3, <2>4, <2>5 DEF Faults
<1>4. CASE BeginTurn \/ EndTurn \/ Delete \/ UNCHANGED allvars
  <2>1. UNCHANGED rows => Quietly
    BY RowsKept
  <2> QED BY <1>4, <2>1 DEF BeginTurn, EndTurn, Delete, allvars, vars, ReleaseThread, DeleteThread, HoldThread
<1>5. CASE TurnRecords
  BY <1>5, RowsKept DEF TurnRecords, RecordToolCall
<1>6. CASE \E p \in Proposal : Decision(p)
  BY <1>6, OperationsQuietly DEF Decision, Decide, Mutate
<1>7. CASE TurnProposes
  BY <1>7 DEF TurnProposes
<1> QED BY <1>2, <1>3, <1>4, <1>5, <1>6, <1>7 DEF WNext

\* Creations are counted: whoever is replaced is older than who replaces it.
ReplacedInv ==
  \A p \in Proposal :
    /\ rows[p].createdAt <= births
    /\ rows[p].decision = "superseded" =>
         /\ rows[p].supersededBy \in Proposal
         /\ rows[rows[p].supersededBy].decision # "none"
         /\ rows[rows[p].supersededBy].createdAt > rows[p].createdAt

LEMMA ReplacedNext ==
  ASSUME Inv, WTypeOK, ReplacedInv, [WNext]_allvars
  PROVE  ReplacedInv'
<1>0. births \in Nat /\ \A p \in Proposal : rows[p] \in Row /\ rows[p].createdAt \in Nat
  BY DEF Inv, TypeOK, Row
<1>1. ASSUME \A p \in Proposal : PlaceKept(rows[p], rows'[p]), UNCHANGED births
      PROVE  ReplacedInv'
  BY <1>1 DEF PlaceKept, ReplacedInv
<1>2. ASSUME NEW p \in Proposal, NEW expiresAt, NEW now, Create(p, expiresAt, now)
      PROVE  ReplacedInv'
  <2>1. /\ rows[p].decision = "none" /\ rows'[p].decision = "pending"
        /\ births' = births + 1 /\ rows'[p].createdAt = births + 1
        /\ \A q \in Proposal \ {p} :
             /\ rows'[q].createdAt = rows[q].createdAt
             /\ rows'[q].decision = "none" <=> rows[q].decision = "none"
             /\ rows'[q].decision = "superseded" =>
                  \/ rows[q].decision = "superseded"
                     /\ rows'[q].supersededBy = rows[q].supersededBy
                  \/ rows'[q].supersededBy = p
    BY <1>2, CreateKept
  <2> SUFFICES ASSUME NEW q \in Proposal
               PROVE  /\ rows'[q].createdAt <= births'
                      /\ rows'[q].decision = "superseded" =>
                           /\ rows'[q].supersededBy \in Proposal
                           /\ rows'[rows'[q].supersededBy].decision # "none"
                           /\ rows'[rows'[q].supersededBy].createdAt > rows'[q].createdAt
    BY DEF ReplacedInv
  <2>2. CASE q = p
    BY <1>0, <2>1, <2>2
  <2>3. CASE q # p /\ rows'[q].supersededBy = p
    BY <1>0, <2>1, <2>3 DEF ReplacedInv
  <2>4. CASE q # p /\ rows'[q].supersededBy # p
    BY <1>0, <2>1, <2>4 DEF ReplacedInv
  <2> QED BY <2>2, <2>3, <2>4
<1>3. ASSUME NEW w \in Worker, Claim(w) \/ ClaimThrows(w)
      PROVE  ReplacedInv'
  <2>1. (\A q \in Proposal : PlaceKept(rows[q], rows'[q])) /\ births' = births
    BY <1>3, ClaimKept DEF Claim, ClaimThrows
  <2> QED BY <1>1, <2>1
<1>4. CASE TimePasses \/ Stall
  <2>1. (\A q \in Proposal : PlaceKept(rows[q], rows'[q])) /\ births' = births
    BY <1>4, TickKept DEF TimePasses, Stall, Tick
  <2> QED BY <1>1, <2>1
<1> QED BY <1>1, <1>2, <1>3, <1>4, Effects DEF Quietly

\* A superseded proposal names one created after it, as long as replacements come
\* from creations, as the turns make them.
THEOREM ReplacementsNewer == WSpec => []ReplacedByNewer
<1>1. WInit => ReplacedInv
  <2>1. NoRow.decision = "none" /\ NoRow.createdAt = 0
    BY DEF NoRow
  <2>2. ASSUME WInit, NEW p \in Proposal
        PROVE  rows[p].decision # "superseded" /\ rows[p].createdAt <= births
    BY <2>1, <2>2 DEF WInit, Init
  <2> QED BY <2>2 DEF ReplacedInv
<1>2. Inv /\ WTypeOK /\ ReplacedInv /\ [WNext]_allvars => ReplacedInv'
  BY ReplacedNext
<1>3. ReplacedInv => ReplacedByNewer
  BY DEF ReplacedInv, ReplacedByNewer
<1> QED
  BY <1>1, <1>2, <1>3, WorkerTypes, PTL DEF WSpec

\* An execution that holds its row keeps holding it while it is renewed, until it
\* settles: each step hands the fence on.
LEMMA HealthyKept ==
  ASSUME Inv, Inv', NEW p \in Proposal, ExecKept(rows[p], rows'[p]),
         rows'[p].execution.status = "executing", Healthy(p),
         \A w \in Worker : \A j \in jobs[w] :
           j.proposal = p /\ j.fenced /\ ~stopped[w] /\ HoldsLease(rows[p], TokenOf(w, j)) =>
             /\ ~stopped'[w]
             /\ \E i \in jobs'[w] : i.proposal = p /\ i.generation = j.generation /\ i.fenced
  PROVE  Healthy(p)'
<1>0. PICK w \in Worker : \E j \in jobs[w] :
        j.proposal = p /\ j.fenced /\ ~stopped[w] /\ HoldsLease(rows[p], TokenOf(w, j))
  BY DEF Healthy
<1>1. PICK j \in jobs[w] :
        j.proposal = p /\ j.fenced /\ ~stopped[w] /\ HoldsLease(rows[p], TokenOf(w, j))
  BY <1>0
<1>2. PICK i \in jobs'[w] : i.proposal = p /\ i.generation = j.generation /\ i.fenced
  BY <1>1
<1>3. TokenOf(w, i) = TokenOf(w, j) /\ TokenOf(w, j).generation = j.generation
  BY <1>2 DEF TokenOf
<1>4. rows'[p].decision = "approved"
  BY DEF Inv, RowInv, NoExecution
<1>5. HoldsLease(rows'[p], TokenOf(w, i))
  BY <1>1, <1>3, <1>4 DEF HoldsLease, ExecKept
<1> QED BY <1>1, <1>2, <1>5 DEF Healthy

\* The steps that claim nothing and take no time.
LEMMA ClaimsKept ==
  ASSUME Inv, Inv', ClaimsInv, faults \in Nat,
         \A p \in Proposal : ExecKept(rows[p], rows'[p]),
         \/ faults' = faults + 1
         \/ /\ faults' = faults
            /\ \A p \in Proposal :
                 rows'[p].execution.status = "executing" /\ Healthy(p)
                   /\ Leased(p) => Healthy(p)'
  PROVE  ClaimsInv'
<1> SUFFICES ASSUME NEW p \in Proposal
             PROVE  /\ rows'[p].execution.generation <= 1 + faults'
                    /\ rows'[p].execution.status = "queued" => rows'[p].execution.generation = 0
                    /\ rows'[p].execution.status = "executing"
                         /\ rows'[p].execution.generation = 1 + faults' =>
                         (Leased(p) /\ Healthy(p))'
  BY DEF ClaimsInv
<1>1. /\ rows[p].execution.generation \in Nat
      /\ rows[p].execution.lease.expiresAt \in Nat /\ rows'[p].execution.lease.expiresAt \in Nat
  BY DEF Inv, TypeOK, Row, Execution, Lease
<1>2. ExecKept(rows[p], rows'[p])
  OBVIOUS
<1>3. rows'[p].execution.generation = rows[p].execution.generation
  BY <1>2 DEF ExecKept
<1>4. CASE faults' = faults + 1
  BY <1>1, <1>2, <1>3, <1>4 DEF ClaimsInv, ExecKept
<1>5. ASSUME rows'[p].execution.status = "executing", Leased(p)
      PROVE  Leased(p)'
  <2>1. \A w \in Worker : Clock[w] \in Nat
    BY ClockAssumption, ClocksAssumption
  <2> QED BY <1>1, <1>2, <1>5, <2>1 DEF Leased, ExecKept
<1>6. CASE faults' = faults
  BY <1>1, <1>2, <1>3, <1>5, <1>6 DEF ClaimsInv, ExecKept
<1> QED BY <1>4, <1>6

\* Who changes the executions in hand: a fault, a claim, or their own steps.
LEMMA Hands ==
  ASSUME [WNext]_allvars
  PROVE  \/ faults' = faults + 1
         \/ UNCHANGED <<faults, jobs, stopped>>
         \/ \E w \in Worker : Claim(w) \/ Execute(w) \/ Renewals(w)
<1>1. CASE \E w \in Worker : Loop(w)
  BY <1>1 DEF Loop, StartTick, ClaimsDone, WorkDone, TakeOutcome, OutcomesDone, AdmitOutcome
<1>2. CASE \E w \in Worker : Faults(w)
  BY <1>2 DEF Faults, RenewThrows, SettleThrows, Crash, Stop, TickThrows, Fault
<1>3. CASE BeginTurn \/ TurnProposes \/ TurnRecords \/ EndTurn \/ Delete
           \/ (\E p \in Proposal : Decision(p)) \/ TimePasses \/ Stall \/ UNCHANGED allvars
  BY <1>3 DEF BeginTurn, TurnProposes, TurnRecords, EndTurn, Delete, Decision, TimePasses, Stall,
              Fault, allvars, wvars
<1> QED BY <1>1, <1>2, <1>3 DEF WNext

\* An execution in hand that takes a step keeps its row, or settles it.
LEMMA ExecuteHealthy ==
  ASSUME Inv, Inv', WTypeOK, NEW w \in Worker, Execute(w) \/ Renewals(w),
         NEW p \in Proposal, ExecKept(rows[p], rows'[p]),
         rows'[p].execution.status = "executing", Healthy(p), Leased(p)
  PROVE  Healthy(p)'
<1>1. \A v \in Worker : jobs[v] \in SUBSET Job
  BY DEF WTypeOK
<1>2. \A v \in Worker : \A i \in jobs[v] :
        HoldsLease(rows[p], TokenOf(v, i)) => FenceValid(rows[p], TokenOf(v, i), Clock[v])
  BY DEF FenceValid, Leased
<1>3. ASSUME NEW j \in jobs[w], NEW by, Replace(w, j, by), UNCHANGED stopped,
             \/ \E i \in by : i.proposal = j.proposal /\ i.generation = j.generation /\ i.fenced
             \/ ~(j.proposal = p /\ j.fenced /\ HoldsLease(rows[p], TokenOf(w, j)))
      PROVE  Healthy(p)'
  <2>1. /\ jobs'[w] = (jobs[w] \ {j}) \cup by
        /\ \A v \in Worker \ {w} : jobs'[v] = jobs[v]
    BY <1>3 DEF Replace, WTypeOK
  <2>2. ASSUME NEW v \in Worker, NEW i \in jobs[v],
               i.proposal = p, i.fenced, ~stopped[v], HoldsLease(rows[p], TokenOf(v, i))
        PROVE  /\ ~stopped'[v]
               /\ \E k \in jobs'[v] : k.proposal = p /\ k.generation = i.generation /\ k.fenced
    <3>1. CASE v = w /\ i = j
      BY <1>3, <2>1, <2>2, <3>1
    <3>2. CASE ~(v = w /\ i = j)
      BY <1>3, <2>1, <2>2, <3>2
    <3> QED BY <3>1, <3>2
  <2> QED BY <2>2, HealthyKept
<1>4. ASSUME NEW j \in jobs[w], Invoke(w, j) PROVE Healthy(p)'
  <2>1. PICK end \in Settled : Replace(w, j, {[j EXCEPT !.phase = end]})
    BY <1>4 DEF Invoke
  <2>2. /\ [j EXCEPT !.phase = end].proposal = j.proposal
        /\ [j EXCEPT !.phase = end].generation = j.generation
        /\ [j EXCEPT !.phase = end].fenced = j.fenced
    BY <1>1 DEF Job
  <2> QED
    <3>1. CASE j.fenced
      BY <1>3, <1>4, <2>1, <2>2, <3>1 DEF Invoke
    <3>2. CASE ~j.fenced
      BY <1>3, <1>4, <2>1, <3>2 DEF Invoke
    <3> QED BY <3>1, <3>2
<1>5. ASSUME NEW j \in jobs[w], SettleJob(w, j) PROVE Healthy(p)'
  <2>1. ~(j.proposal = p /\ j.fenced /\ HoldsLease(rows[p], TokenOf(w, j)))
    <3> SUFFICES ASSUME j.proposal = p, j.fenced, HoldsLease(rows[p], TokenOf(w, j)) PROVE FALSE
      OBVIOUS
    <3>1. rows[p] \in Row /\ rows'[p] = SettledRow(rows[p], TokenOf(w, j), j.phase, Clock[w])
      BY <1>5 DEF SettleJob, Settle, Mutate, Inv, TypeOK
    <3>2. FenceValid(rows[p], TokenOf(w, j), Clock[w])
      BY <1>2
    <3>3. j.phase \in Settled
      BY <1>5 DEF SettleJob
    <3> QED BY <3>1, <3>2, <3>3, SettledKept
  <2> QED BY <1>3, <1>5, <2>1 DEF SettleJob
<1>6. ASSUME NEW j \in jobs[w], Renew(w, j) PROVE Healthy(p)'
  <2> DEFINE fence == FenceValid(rows[j.proposal], TokenOf(w, j), Clock[w])
             i     == [j EXCEPT !.fenced = fence]
  <2>1. i.proposal = j.proposal /\ i.generation = j.generation /\ i.fenced = fence
    BY <1>1 DEF Job
  <2>2. Replace(w, j, {i}) /\ UNCHANGED stopped
    BY <1>6 DEF Renew
  <2>3. CASE j.proposal = p /\ HoldsLease(rows[p], TokenOf(w, j))
    <3>1. fence
      BY <1>2, <2>3
    <3> HIDE DEF fence, i
    <3> QED BY <1>3, <2>1, <2>2, <3>1
  <2>4. CASE ~(j.proposal = p /\ HoldsLease(rows[p], TokenOf(w, j)))
    <3> HIDE DEF fence, i
    <3> QED BY <1>3, <2>2, <2>4
  <2> QED BY <2>3, <2>4
<1> QED BY <1>4, <1>5, <1>6 DEF Execute, Renewals

\* A claim takes a row that is queued, or one whose lease lapsed, which cost a fault.
LEMMA ClaimCounts ==
  ASSUME ClocksAgree, Inv, WTypeOK, ClaimsInv, NEW w \in Worker, NEW p \in Proposal,
         Claimable(rows[p], Clock[w]),
         rows'[p].execution.generation = rows[p].execution.generation + 1
  PROVE  rows'[p].execution.generation <= 1 + faults
<1>1. /\ rows[p].execution.generation \in Nat /\ rows[p].execution.lease.expiresAt \in Nat
      /\ faults \in Nat /\ Clock[w] \in Nat
  BY ClockAssumption, ClocksAssumption DEF Inv, TypeOK, WTypeOK, Row, Execution, Lease
<1>2. CASE rows[p].execution.status = "queued"
  BY <1>1, <1>2 DEF ClaimsInv
<1>3. CASE rows[p].execution.status = "executing"
  <2>1. rows[p].execution.lease.expiresAt <= Clock[w]
    BY <1>3 DEF Claimable
  <2>2. ~Leased(p)
    BY <1>1, <2>1 DEF Leased
  <2>3. rows[p].execution.generation # 1 + faults /\ rows[p].execution.generation <= 1 + faults
    BY <1>3, <2>2 DEF ClaimsInv
  <2> QED BY <1>1, <2>3
<1> QED BY <1>2, <1>3 DEF Claimable

\* The execution a claim begins holds its row.
LEMMA ClaimClaims ==
  ASSUME ClocksAgree, Inv, Inv', WTypeOK, ClaimsInv, NEW w \in Worker, Claim(w)
  PROVE  ClaimsInv'
<1>1. PICK p \in Proposal :
           /\ Claimable(rows[p], Clock[w])
           /\ rows'[p].execution.status = "executing"
           /\ rows'[p].execution.generation = rows[p].execution.generation + 1
           /\ rows'[p].execution.lease.token =
                [worker |-> w, generation |-> rows[p].execution.generation + 1]
           /\ rows'[p].execution.lease.expiresAt = Clock[w] + LeaseMs
           /\ rows'[p].decision = "approved"
           /\ \A q \in Proposal \ {p} : rows'[q] = rows[q]
  BY ClaimKept DEF Claim
<1>2. /\ \A q \in Proposal : rows[q] \in Row /\ rows[q].execution.generation \in Nat
      /\ faults \in Nat
  BY DEF Inv, TypeOK, WTypeOK, Row, Execution
<1>3. UNCHANGED <<stopped, faults>> /\ ~stopped[w]
  BY DEF Claim, MayClaim
<1>4. PICK job \in jobs'[w] : /\ job.proposal = p /\ job.fenced
                              /\ job.generation = rows'[p].execution.generation
  <2> DEFINE job == [proposal |-> p, generation |-> rows'[p].execution.generation,
                     phase |-> "running", fenced |-> TRUE, tick |-> "open"]
  <2>1. p \in {q \in Proposal : rows'[q].execution.generation # rows[q].execution.generation
                               /\ rows'[q].execution.status = "executing"}
    BY <1>1, <1>2
  <2>2. job \in jobs'[w]
    BY <2>1 DEF Claim, WTypeOK
  <2> QED BY <2>2
<1>5. \A v \in Worker : jobs[v] \subseteq jobs'[v]
  BY DEF Claim, WTypeOK
<1>6. Healthy(p)'
  <2>1. HoldsLease(rows'[p], TokenOf(w, job))
    BY <1>1, <1>4 DEF HoldsLease, TokenOf
  <2> QED BY <1>3, <1>4, <2>1 DEF Healthy
<1>7. rows'[p].execution.generation <= 1 + faults
  BY <1>1, ClaimCounts
<1>10. Leased(p)'
  <2>1. \A v \in Worker : Clock[v] = Clock[w] /\ Clock[v] \in Nat
    BY ClockAssumption, ClocksAssumption DEF ClocksAgree
  <2>2. \A v \in Worker : Clock[w] + LeaseMs > Clock[v]
    BY <2>1, LeaseMsAssumption
  <2> QED BY <1>1, <2>2 DEF Leased
<1>8. ASSUME NEW q \in Proposal \ {p}, Healthy(q)
      PROVE  Healthy(q)'
  BY <1>1, <1>3, <1>5, <1>8 DEF Healthy
<1>9. ASSUME NEW q \in Proposal
      PROVE  /\ rows'[q].execution.generation <= 1 + faults'
             /\ rows'[q].execution.status = "queued" => rows'[q].execution.generation = 0
             /\ rows'[q].execution.status = "executing"
                  /\ rows'[q].execution.generation = 1 + faults' =>
                  (Leased(q) /\ Healthy(q))'
  <2>1. CASE q = p
    BY <1>1, <1>3, <1>6, <1>7, <1>10, <2>1
  <2>2. CASE q # p
    <3>1. rows'[q] = rows[q] /\ (Leased(q) => Leased(q)')
      BY <1>1, <2>2 DEF Leased
    <3> QED BY <1>3, <1>8, <2>2, <3>1 DEF ClaimsInv
  <2> QED BY <2>1, <2>2
<1> QED BY <1>9 DEF ClaimsInv

\* One that throws after the store took it counts as a fault, and nobody holds its row.
LEMMA ThrownClaims ==
  ASSUME ClocksAgree, Inv, Inv', WTypeOK, ClaimsInv, NEW w \in Worker, ClaimThrows(w)
  PROVE  ClaimsInv'
<1>1. PICK p \in Proposal :
           /\ Claimable(rows[p], Clock[w])
           /\ rows'[p].execution.status = "executing"
           /\ rows'[p].execution.generation = rows[p].execution.generation + 1
           /\ \A q \in Proposal \ {p} : rows'[q] = rows[q]
  BY ClaimKept DEF ClaimThrows
<1>2. faults' = faults + 1 /\ faults \in Nat
  BY DEF ClaimThrows, TickThrows, Fault, WTypeOK
<1>3. rows'[p].execution.generation <= 1 + faults
  BY <1>1, ClaimCounts
<1>4. \A q \in Proposal : rows[q].execution.generation \in Nat
                           /\ rows'[q].execution.generation \in Nat
  BY DEF Inv, TypeOK, Row, Execution
<1>5. ASSUME NEW q \in Proposal
      PROVE  /\ rows'[q].execution.generation <= 1 + faults
             /\ rows'[q].execution.status = "queued" => rows'[q].execution.generation = 0
  BY <1>1, <1>3 DEF ClaimsInv
<1>6. ASSUME NEW q \in Proposal
      PROVE  /\ rows'[q].execution.generation <= 1 + faults'
             /\ rows'[q].execution.generation # 1 + faults'
  BY <1>2, <1>4, <1>5
<1> QED BY <1>5, <1>6 DEF ClaimsInv

\* Time does not run a held lease out, unless the process stalled.
LEMMA TimeClaims ==
  ASSUME ClocksAgree, Inv, Inv', WTypeOK, ClaimsInv, TimePasses \/ Stall
  PROVE  ClaimsInv'
<1> SUFFICES ASSUME NEW p \in Proposal
             PROVE  /\ rows'[p].execution.generation <= 1 + faults'
                    /\ rows'[p].execution.status = "queued" => rows'[p].execution.generation = 0
                    /\ rows'[p].execution.status = "executing"
                         /\ rows'[p].execution.generation = 1 + faults' =>
                         (Leased(p) /\ Healthy(p))'
  BY DEF ClaimsInv
<1>1. /\ rows'[p].execution.status = rows[p].execution.status
      /\ rows'[p].execution.generation = rows[p].execution.generation
      /\ rows'[p].execution.lease.token = rows[p].execution.lease.token
      /\ rows'[p].execution.lease.expiresAt = Less(rows[p].execution.lease.expiresAt)
      /\ PlaceKept(rows[p], rows'[p])
  BY TickKept DEF TimePasses, Stall
<1>2. /\ rows[p].execution.generation \in Nat /\ faults \in Nat
      /\ rows[p].execution.lease.expiresAt \in Nat
  BY DEF Inv, TypeOK, Row, Execution, Lease, WTypeOK
<1>3. CASE Stall
  BY <1>1, <1>2, <1>3 DEF Stall, Fault, ClaimsInv
<1>4. CASE TimePasses
  <2>1. UNCHANGED <<jobs, stopped, faults>> /\ InTime
    BY <1>4 DEF TimePasses, wvars
  <2>2. ASSUME rows[p].execution.status = "executing", Healthy(p)
        PROVE  (Leased(p) /\ Healthy(p))'
    <3>1. rows[p].decision = "approved" /\ rows'[p].decision = "approved"
      BY <1>1, <2>2 DEF Inv, RowInv, NoExecution
    <3>2. \A token : HoldsLease(rows[p], token) => HoldsLease(rows'[p], token)
      BY <1>1, <3>1 DEF HoldsLease
    <3>3. Healthy(p)'
      BY <2>1, <2>2, <3>2 DEF Healthy
    <3>4. PICK w \in Worker : rows[p].execution.lease.expiresAt > Clock[w] + 1
      BY <2>1, <2>2 DEF InTime, Healthy
    <3>5. Clock[w] \in Nat /\ \A v \in Worker : Clock[v] = Clock[w]
      BY ClockAssumption, ClocksAssumption DEF ClocksAgree
    <3>6. rows'[p].execution.lease.expiresAt > Clock[w]
      BY <1>1, <1>2, <3>4, <3>5 DEF Less
    <3> QED BY <3>3, <3>5, <3>6 DEF Leased
  <2> QED BY <1>1, <1>2, <2>1, <2>2 DEF ClaimsInv
<1> QED BY <1>3, <1>4

LEMMA ClaimsNext ==
  ASSUME ClocksAgree, Inv, Inv', WTypeOK, ClaimsInv, [WNext]_allvars
  PROVE  ClaimsInv'
<1>1. CASE (\E w \in Worker : Claim(w) \/ ClaimThrows(w)) \/ TimePasses \/ Stall
  BY <1>1, ClaimClaims, ThrownClaims, TimeClaims
<1>2. ASSUME ~\E w \in Worker : Claim(w), \A p \in Proposal : ExecKept(rows[p], rows'[p])
      PROVE  ClaimsInv'
  <2>0. faults \in Nat
    BY DEF WTypeOK
  <2>1. CASE faults' = faults + 1
    BY <1>2, <2>0, <2>1, ClaimsKept
  <2>2. ASSUME faults' = faults,
               \A p \in Proposal :
                 rows'[p].execution.status = "executing" /\ Healthy(p)
                   /\ Leased(p) => Healthy(p)'
        PROVE  ClaimsInv'
    BY <1>2, <2>0, <2>2, ClaimsKept
  <2>3. CASE UNCHANGED <<faults, jobs, stopped>>
    BY <1>2, <2>2, <2>3, HealthyKept
  <2>4. CASE \E w \in Worker : Execute(w) \/ Renewals(w)
    <3>1. faults' = faults
      BY <2>4 DEF Execute, Renewals, Invoke, SettleJob, Renew
    <3> QED BY <1>2, <2>2, <2>4, <3>1, ExecuteHealthy
  <2> QED BY <1>2, <2>1, <2>3, <2>4, Hands
<1>3. ASSUME NEW p \in Proposal, NEW expiresAt, NEW now, Create(p, expiresAt, now)
      PROVE  \A q \in Proposal : ExecKept(rows[q], rows'[q])
  BY <1>3, CreateKept
<1> QED BY <1>1, <1>2, <1>3, Effects DEF Quietly

\* On hosts whose clocks agree an approved action is claimed once, and once more for
\* each fault at most: no two workers run it while each keeps its time.
THEOREM OneClaim ==
  ASSUME ClocksAgree
  PROVE  WSpec => []OneClaimPerFault
<1>1. WInit => ClaimsInv
  <2> SUFFICES ASSUME WInit, NEW p \in Proposal
               PROVE  /\ rows[p].execution.generation <= 1 + faults
                      /\ rows[p].execution.status \notin {"queued", "executing"}
    BY DEF ClaimsInv
  <2>1. rows[p] = NoRow /\ faults = 0
    BY DEF WInit, Init
  <2>2. NoRow.execution.generation = 0 /\ NoRow.execution.status = "none"
    BY DEF NoRow, NoExecution
  <2> QED BY <2>1, <2>2
<1>2. Inv /\ Inv' /\ WTypeOK /\ ClaimsInv /\ [WNext]_allvars => ClaimsInv'
  BY ClaimsNext
<1>3. ClaimsInv => OneClaimPerFault
  BY DEF ClaimsInv, OneClaimPerFault
<1> QED
  BY <1>1, <1>2, <1>3, WorkerTypes, PTL DEF WSpec
=============================================================================
