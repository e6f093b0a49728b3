------------------------ MODULE SqlProposals_proofs -------------------------
(* The store over a database, statement by statement, for any number of    *)
(* proposals, workers, operations at once, attempts and processes that     *)
(* end: the compare-and-set on the version makes each operation one of the *)
(* atomic store's, although its record follows in a statement of its own.  *)
EXTENDS SqlProposals, ProposalStore_proofs

Ops  == {"approved", "rejected", "expired", "claim", "extend", "outcome"} \cup Settled
Call == [pc : {"idle", "read", "write", "follow"}, op : Ops,
         proposal : Proposal \cup {NoProposal}, token : Token, now : Nat,
         attempt : Nat, version : Nat, next : Row]

STypeOK ==
  /\ version \in [Proposal -> Nat]
  /\ calls \in [Caller -> Call]
  /\ IsABag(fences)
  /\ late \subseteq Proposal
  /\ crashes \in Nat

\* A claim makes the next generation, and nothing else makes one.
Counted(call, row) ==
  /\ call.next.execution.generation =
       IF call.op = "claim" THEN row.execution.generation + 1 ELSE row.execution.generation
  /\ call.next.delivery.generation =
       IF call.op = "outcome" THEN row.delivery.generation + 1 ELSE row.delivery.generation
  /\ call.op = "claim" =>
       call.next.execution.lease.token.generation = call.next.execution.generation
  /\ call.op = "outcome" =>
       call.next.delivery.lease.token.generation = call.next.delivery.generation

\* The result a call holds is that of its transition on the row as it still is.
Computed(call, row) ==
  RowMove(row, call.next) /\ Phased(row, call.next) /\ Counted(call, row)

\* What a call in flight knows of its row and the row's version: the row is
\* there; its result is good for the row as long as the version is the one it
\* read; and one that wrote the end of a proposal has that end for the record.
Begun(call, row)      == /\ call.proposal \in Proposal /\ Exists(row)
                         /\ call.op \in {"claim", "outcome"} => call.token.worker \in Worker
Holding(call, row, v) == /\ call.version <= v
                         /\ call.version = v => Computed(call, row)
Ending(call, row)     == /\ ToolCallStatus(call.next) # "none"
                         /\ ToolCallStatus(row) = ToolCallStatus(call.next)

CallInv(call, row, v) ==
  /\ call.pc # "idle" => Begun(call, row)
  /\ call.pc = "write" => Holding(call, row, v)
  /\ call.pc = "follow" => Ending(call, row)

CallsInv == \A c \in Caller :
              CallInv(calls[c], rows[calls[c].proposal], version[calls[c].proposal])

\* A fence is of a generation its proposal has, or had.
Latest(f, row)  == IF f.kind = "claim" THEN row.execution.generation
                                       ELSE row.delivery.generation
FenceOK(f, row) == /\ f.proposal \in Proposal /\ f.kind \in {"claim", "outcome"}
                   /\ f.token \in Token /\ f.token.generation <= Latest(f, row)

FencesInv == \A f \in BagToSet(fences) : FenceOK(f, rows[f.proposal])

SqlInv ==
  /\ Inv
  /\ STypeOK
  /\ CallsInv
  /\ FencesInv
  /\ UniqueFence
  /\ RecordFollows

-----------------------------------------------------------------------------
(* What a transition computes, and that time passing does not spoil it.    *)

LEMMA ElapseFields ==
  ASSUME NEW row \in Row
  PROVE  /\ Elapse(row) \in Row
         /\ Elapse(row).decision = row.decision
         /\ Elapse(row).supersededBy = row.supersededBy
         /\ Elapse(row).outcome = row.outcome
         /\ Elapse(row).execution.status = row.execution.status
         /\ Elapse(row).execution.generation = row.execution.generation
         /\ Elapse(row).execution.lease.token = row.execution.lease.token
         /\ Elapse(row).delivery.status = row.delivery.status
         /\ Elapse(row).delivery.generation = row.delivery.generation
         /\ Elapse(row).delivery.lease.token = row.delivery.lease.token
<1>1. \A t \in Nat \cup {Never} : Less(t) \in Nat \cup {Never} /\ (t \in Nat => Less(t) \in Nat)
  BY DEF Less, Never
<1> QED
  BY <1>1 DEF Elapse, Row, Execution, Delivery, Lease

LEMMA ElapseComputed ==
  ASSUME NEW call \in Call, NEW row \in Row, RowInv(row), Computed(call, row)
  PROVE  Computed([call EXCEPT !.next = Elapse(@)], Elapse(row))
<1> DEFINE next == call.next
           after == [call EXCEPT !.next = Elapse(@)]
<1>1. after.next = Elapse(next) /\ after.op = call.op /\ next \in Row /\ RowInv(next)
  BY DEF Call, Computed, RowMove
<1>2. Elapse(next) \in Row /\ RowInv(Elapse(next))
  BY <1>1, ElapseStep DEF RowStep, RowMove
<1>3. Finished(row) => Elapse(next).execution = Elapse(row).execution
  BY DEF Computed, RowMove, Elapse, Row
<1>4. Finished(Elapse(row)) <=> Finished(row)
  BY ElapseFields DEF Finished
<1>5. /\ ToolCallStatus(Elapse(row)) = ToolCallStatus(row)
      /\ ToolCallStatus(Elapse(next)) = ToolCallStatus(next)
  BY <1>1, ElapseFields DEF ToolCallStatus
<1> HIDE DEF next, after
<1>6. RowMove(row, next) /\ Phased(row, next)
  BY DEF Computed, next
<1>7. RowMove(Elapse(row), Elapse(next))
  BY <1>1, <1>2, <1>3, <1>4, <1>5, <1>6, ElapseFields DEF RowMove
<1>8. Phased(Elapse(row), Elapse(next))
  BY <1>1, <1>6, ElapseFields DEF Phased
<1>9. Counted(after, Elapse(row))
  BY <1>1, ElapseFields DEF Computed, Counted, next
<1> QED
  BY <1>1, <1>7, <1>8, <1>9 DEF Computed, after

\* No transition but a claim makes a generation, and a claim makes the next.
LEMMA DecidedCounts ==
  ASSUME NEW row \in Row, RowInv(row), NEW decision, NEW now
  PROVE  /\ Decided(row, decision, now).execution.generation = row.execution.generation
         /\ Decided(row, decision, now).delivery.generation = row.delivery.generation
<1>1. CASE Decided(row, decision, now) = row
  BY <1>1
<1>2. CASE row.decision = "pending"
  <2>1. row.execution.generation = 0 /\ row.delivery.generation = 0
    BY <1>2 DEF RowInv, Finished, Refusals, Settled, NoExecution, NoDelivery
  <2>2. Decided(row, decision, now) \in
          {row, Queued(row), Attach([row EXCEPT !.decision = "rejected"]),
           Attach([row EXCEPT !.decision = "expired"])}
    BY <1>2 DEF Decided, Lapsed
  <2>3. \A d : /\ Attach([row EXCEPT !.decision = d]).execution.generation = 0
               /\ Attach([row EXCEPT !.decision = d]).delivery.generation = 0
    BY <2>1 DEF Attach, Row
  <2>4. Queued(row).execution.generation = 0 /\ Queued(row).delivery.generation = 0
    BY <2>1 DEF Queued, Row
  <2> QED BY <2>1, <2>2, <2>3, <2>4
<1> QED BY <1>1, <1>2 DEF Decided

LEMMA SettledCounts ==
  ASSUME NEW row \in Row, RowInv(row), NEW token, NEW status \in Settled, NEW now
  PROVE  /\ SettledRow(row, token, status, now).execution.generation = row.execution.generation
         /\ SettledRow(row, token, status, now).delivery.generation = row.delivery.generation
<1>1. CASE ~FenceValid(row, token, now)
  BY <1>1 DEF SettledRow
<1>2. CASE FenceValid(row, token, now)
  <2>1. /\ row.execution.generation = token.generation
        /\ row.execution.status = "executing" /\ row.decision = "approved"
    BY <1>2 DEF FenceValid, HoldsLease
  <2>2. row.delivery.generation = 0
    BY <2>1 DEF RowInv, Finished, Refusals, Settled, NoDelivery
  <2> QED
    BY <1>2, <2>1, <2>2 DEF SettledRow, Attach, Row
<1> QED BY <1>1, <1>2

LEMMA SupersededCounts ==
  ASSUME NEW row \in Row, RowInv(row), NEW q, NEW now
  PROVE  /\ Superseded(row, q, now).execution.generation = row.execution.generation
         /\ Superseded(row, q, now).delivery.generation = row.delivery.generation
<1>1. CASE row.decision # "pending"
  BY <1>1 DEF Superseded
<1>2. CASE row.decision = "pending"
  <2>1. row.execution.generation = 0 /\ row.delivery.generation = 0
    BY <1>2 DEF RowInv, Finished, Refusals, Settled, NoExecution, NoDelivery
  <2> QED
    BY <1>2, <2>1 DEF Superseded, Lapsed, Attach, Row
<1> QED BY <1>1, <1>2

\* What a call computes when it reads is good for the row it read.
LEMMA TransitionComputed ==
  ASSUME NEW call \in Call, NEW row \in Row, RowInv(row),
         call.op \in {"claim", "outcome"} => call.token.worker \in Worker,
         Transition(call, row) # row,
         NEW after, after.op = call.op, after.next = Transition(call, row)
  PROVE  Computed(after, row)
<1>0. call.now \in Nat
  BY DEF Call
<1>1. CASE call.op \in {"approved", "rejected", "expired"}
  <2>1. after.next = Decided(row, call.op, call.now)
    BY <1>1 DEF Transition, Settled
  <2> QED
    BY <1>0, <1>1, <2>1, DecidedStep, DecidedPhased, DecidedCounts
       DEF Computed, Counted, RowStep
<1>2. CASE call.op = "claim"
  <2>1. after.next = Claimed(row, call.token.worker, call.now)
    BY <1>2 DEF Transition, Settled
  <2>2. RowMove(row, after.next) /\ Phased(row, after.next)
    BY <1>0, <1>2, <2>1, ClaimedStep, ClaimedPhased DEF RowStep
  <2>3. Claimable(row, call.now)
    BY <2>1 DEF Claimed
  <2>4. Counted(after, row)
    BY <1>2, <2>1, <2>3 DEF Counted, Claimed, Row
  <2> QED BY <2>2, <2>4 DEF Computed
<1>3. CASE call.op = "extend"
  <2>1. after.next = Extended(row, call.token, call.now)
    BY <1>3 DEF Transition, Settled
  <2>2. RowMove(row, after.next) /\ Phased(row, after.next)
    BY <1>0, <2>1, ExtendedStep, ExtendedPhased DEF RowStep
  <2>3. Counted(after, row)
    BY <1>3, <2>1 DEF Counted, Extended, Row, Execution
  <2> QED BY <2>2, <2>3 DEF Computed
<1>4. CASE call.op \in Settled
  <2>1. after.next = SettledRow(row, call.token, call.op, call.now)
    BY <1>4 DEF Transition, Settled
  <2>2. RowMove(row, after.next) /\ Phased(row, after.next)
    BY <1>0, <1>4, <2>1, SettledStep, SettledPhased DEF RowStep
  <2>3. Counted(after, row)
    BY <1>4, <2>1, SettledCounts DEF Counted, Settled
  <2> QED BY <2>2, <2>3 DEF Computed
<1>5. CASE call.op = "outcome"
  <2>1. after.next = ClaimedOutcome(row, call.token.worker, call.now)
    BY <1>5 DEF Transition, Settled
  <2>2. RowMove(row, after.next)
    BY <1>0, <1>5, <2>1, ClaimedOutcomeStep DEF RowStep
  <2>3. after.next.decision = row.decision /\ after.next.execution = row.execution
    BY <1>0, <1>5, <2>1, ClaimedOutcomeStep
  <2>4. Phased(row, after.next)
    BY <2>3 DEF Phased, Row, Execution
  <2>5. OutcomeClaimable(row, call.now)
    BY <2>1 DEF ClaimedOutcome
  <2>6. Counted(after, row)
    <3>1. /\ after.next.delivery.generation = row.delivery.generation + 1
          /\ after.next.delivery.lease.token.generation = row.delivery.generation + 1
      <4> DEFINE g == row.delivery.generation + 1
                 l == [token |-> [worker |-> call.token.worker, generation |-> g],
                       expiresAt |-> call.now + LeaseMs]
      <4>1. after.next = [row EXCEPT !.delivery.generation = g, !.delivery.lease = l]
        BY <2>1, <2>5 DEF ClaimedOutcome
      <4>2. l.token.generation = g
        OBVIOUS
      <4> HIDE DEF g, l
      <4>3. after.next.delivery = [row.delivery EXCEPT !.generation = g, !.lease = l]
        BY <4>1 DEF Row
      <4>4. after.next.delivery.generation = g /\ after.next.delivery.lease = l
        BY <4>3 DEF Row, Delivery
      <4> QED BY <4>2, <4>4 DEF g
    <3> QED BY <1>5, <2>3, <3>1 DEF Counted
  <2> QED BY <2>2, <2>4, <2>6 DEF Computed
<1> QED
  BY <1>1, <1>2, <1>3, <1>4, <1>5 DEF Call, Ops

-----------------------------------------------------------------------------
(* What a step of the store may do to a row, and what a call in flight and *)
(* a fence then still know.                                                *)

Onward(row, next) ==
  /\ Exists(row) => Exists(next)
  /\ ToolCallStatus(row) # "none" => ToolCallStatus(next) = ToolCallStatus(row)
  /\ next.execution.generation >= row.execution.generation
  /\ next.delivery.generation >= row.delivery.generation
  /\ row.decision \notin {"none", "pending"} => next.decision = row.decision
  /\ Finished(row) => next.outcome = row.outcome /\ next.execution = row.execution
  /\ row.execution.status \notin Settled /\ next.execution.status \in Settled =>
       /\ row.execution.status = "executing"
       /\ next.execution.generation = row.execution.generation

LEMMA Unmoved ==
  ASSUME NEW row \in Row
  PROVE  Onward(row, row)
BY DEF Onward, Row, Execution, Delivery

LEMMA ComputedOnward ==
  ASSUME NEW row \in Row, NEW call, Computed(call, row)
  PROVE  Onward(row, call.next)
BY DEF Computed, Counted, RowMove, Onward, Exists, Row, Execution, Delivery

LEMMA ElapseOnward ==
  ASSUME NEW row \in Row, RowInv(row)
  PROVE  Onward(row, Elapse(row))
<1>1. RowMove(row, Elapse(row))
  BY ElapseStep DEF RowStep
<1> QED
  BY <1>1, ElapseFields DEF RowMove, Onward, Exists, Row, Execution, Delivery

LEMMA SupersededOnward ==
  ASSUME NEW row \in Row, RowInv(row), NEW q \in Proposal, NEW now \in Nat
  PROVE  Onward(row, Superseded(row, q, now))
<1>1. RowMove(row, Superseded(row, q, now))
  BY SupersededStep DEF RowStep
<1> QED
  BY <1>1, SupersededCounts DEF RowMove, Onward, Exists, Row, Execution, Delivery

\* A proposal has something to tell its record exactly when it ended.
LEMMA StatusOfEnd ==
  ASSUME NEW row \in Row, RowInv(row)
  PROVE  /\ Finished(row) <=> ToolCallStatus(row) # "none"
         /\ ToolCallStatus(row) # "proposed"
BY DEF Finished, ToolCallStatus, RowInv, Row, Execution, Decisions, Refusals, Settled, NoExecution

\* A call keeps what it knows when its row stays, or moves on with its version.
LEMMA KeepCall ==
  ASSUME NEW call \in Call, NEW row, NEW v \in Nat, CallInv(call, row, v),
         NEW next, NEW w,
         \/ next = row /\ w = v
         \/ Onward(row, next) /\ w = v + 1
  PROVE  CallInv(call, next, w)
BY DEF CallInv, Begun, Holding, Ending, Onward, Call

LEMMA ElapseCall ==
  ASSUME NEW call \in Call, NEW row \in Row, RowInv(row), NEW v \in Nat, CallInv(call, row, v)
  PROVE  CallInv([call EXCEPT !.next = Elapse(@)], Elapse(row), v)
<1> DEFINE after == [call EXCEPT !.next = Elapse(@)]
<1>1. /\ after.pc = call.pc /\ after.op = call.op /\ after.proposal = call.proposal
      /\ after.token = call.token /\ after.version = call.version /\ after.next = Elapse(call.next)
  BY DEF Call
<1>2. call.next \in Row
  BY DEF Call
<1>3. Computed(call, row) => Computed(after, Elapse(row))
  BY ElapseComputed
<1>4. /\ Exists(row) => Exists(Elapse(row))
      /\ ToolCallStatus(Elapse(row)) = ToolCallStatus(row)
      /\ ToolCallStatus(Elapse(call.next)) = ToolCallStatus(call.next)
  BY <1>2, ElapseFields DEF Exists, ToolCallStatus
<1> HIDE DEF after
<1>5. CallInv(after, Elapse(row), v)
  BY <1>1, <1>3, <1>4 DEF CallInv, Begun, Holding, Ending
<1> QED BY <1>5 DEF after

LEMMA KeepFence ==
  ASSUME NEW f, NEW row \in Row, FenceOK(f, row), NEW next \in Row, Onward(row, next)
  PROVE  FenceOK(f, next)
BY DEF FenceOK, Latest, Onward, Row, Execution, Delivery, Token

-----------------------------------------------------------------------------
(* The steps.                                                              *)

\* A step that moves one call and nothing else of the store.
CallMoves(c, call) ==
  /\ UNCHANGED <<vars, version, fences, late>>
  /\ calls' = [calls EXCEPT ![c] = call]

LEMMA Typed ==
  ASSUME SqlInv
  PROVE  /\ \A p \in Proposal : rows[p] \in Row /\ RowInv(rows[p]) /\ version[p] \in Nat
         /\ \A c \in Caller : calls[c] \in Call
         /\ \A c \in Caller :
              CallInv(calls[c], rows[calls[c].proposal], version[calls[c].proposal])
         /\ \A c \in Caller : calls[c].pc # "idle" => calls[c].proposal \in Proposal
BY DEF SqlInv, Inv, TypeOK, STypeOK, CallsInv, CallInv, Begun

LEMMA IdleOK == /\ Idle \in Call /\ Idle.pc = "idle"
                /\ \A row, v : CallInv(Idle, row, v)
<1>1. Idle \in Call
  BY NoRowOK DEF Idle, Call, Ops, Token, NoToken
<1>2. Idle.pc = "idle"
  BY DEF Idle
<1> QED
  BY <1>1, <1>2 DEF CallInv

\* Calls that read, retry, answer or end: their row and its version stay.
LEMMA CallMovesInv ==
  ASSUME SqlInv, NEW c \in Caller, NEW call \in Call, CallMoves(c, call),
         CallInv(call, rows[call.proposal], version[call.proposal]),
         \/ calls[c].pc # "follow" /\ crashes' = crashes
         \/ crashes' \in Nat \ {0}
  PROVE  SqlInv' /\ \A p \in Proposal : Onward(rows[p], rows'[p])
<1>1. Inv'
  BY StutterInv DEF SqlInv, CallMoves
<1>2. STypeOK'
  BY DEF SqlInv, STypeOK, CallMoves
<1>3. CallsInv'
  BY DEF SqlInv, STypeOK, CallsInv, CallMoves, vars
<1>4. FencesInv' /\ UniqueFence'
  BY DEF SqlInv, FencesInv, UniqueFence, CallMoves, vars
<1>5. RecordFollows'
  <2> SUFFICES ASSUME crashes' = 0, NEW p \in Proposal, Lagging(p)' PROVE BeingSettled(p)'
    BY DEF RecordFollows
  <2>1. crashes = 0 /\ calls[c].pc # "follow" /\ Lagging(p)
    BY DEF Lagging, CallMoves, vars
  <2>2. PICK d \in Caller : calls[d].pc = "follow" /\ calls[d].proposal = p
    BY <2>1 DEF SqlInv, RecordFollows, BeingSettled
  <2>3. calls'[d] = calls[d]
    BY <2>1, <2>2 DEF CallMoves, SqlInv, STypeOK
  <2> QED BY <2>2, <2>3 DEF BeingSettled
<1>6. \A p \in Proposal : Onward(rows[p], rows'[p])
  BY Typed, Unmoved DEF CallMoves, vars
<1> QED BY <1>1, <1>2, <1>3, <1>4, <1>5, <1>6 DEF SqlInv

LEMMA BeginAnyInv ==
  ASSUME SqlInv, NEW c \in Caller, BeginAny(c)
  PROVE  SqlInv' /\ \A p \in Proposal : Onward(rows[p], rows'[p])
<1>1. PICK p \in Proposal, now \in Clocks, op \in Ops, token \in Token :
        /\ Begin(c, op, p, token, now)
        /\ op \in {"claim", "outcome"} => token.worker \in Worker
  <2>1. NoToken \in Token /\ \A w \in Worker : [worker |-> w, generation |-> 0] \in Token
    BY DEF NoToken, Token
  <2>2. \A f \in BagToSet(fences) : f.token \in Token
    BY DEF SqlInv, FencesInv, FenceOK
  <2>3. ASSUME NEW p \in Proposal, NEW now \in Clocks, NEW op \in Ops, NEW token \in Token,
               Begin(c, op, p, token, now), op \in {"claim", "outcome"} => token.worker \in Worker
        PROVE  \E q \in Proposal, n \in Clocks, o \in Ops, t \in Token :
                 Begin(c, o, q, t, n) /\ (o \in {"claim", "outcome"} => t.worker \in Worker)
    BY <2>3
  <2>4. PICK p \in Proposal, now \in Clocks :
          \/ \E op \in {"approved", "rejected", "expired"} : Begin(c, op, p, NoToken, now)
          \/ \E w \in Worker, op \in {"claim", "outcome"} :
               Begin(c, op, p, [worker |-> w, generation |-> 0], now)
          \/ \E f \in BagToSet(fences), op \in {"extend"} \cup Settled :
               Begin(c, op, p, f.token, now)
    BY DEF BeginAny
  <2>5. CASE \E op \in {"approved", "rejected", "expired"} : Begin(c, op, p, NoToken, now)
    BY <2>1, <2>3, <2>5 DEF Ops
  <2>6. CASE \E w \in Worker, op \in {"claim", "outcome"} :
               Begin(c, op, p, [worker |-> w, generation |-> 0], now)
    <3>1. PICK w \in Worker, op \in {"claim", "outcome"} :
                 Begin(c, op, p, [worker |-> w, generation |-> 0], now)
      BY <2>6
    <3>2. op \in Ops /\ [worker |-> w, generation |-> 0].worker \in Worker
      BY DEF Ops
    <3> QED BY <2>1, <2>3, <3>1, <3>2
  <2>7. CASE \E f \in BagToSet(fences), op \in {"extend"} \cup Settled :
               Begin(c, op, p, f.token, now)
    <3>1. PICK f \in BagToSet(fences), op \in {"extend"} \cup Settled :
                 Begin(c, op, p, f.token, now)
      BY <2>7
    <3>2. op \in Ops /\ op \notin {"claim", "outcome"}
      BY DEF Ops, Settled
    <3> QED BY <2>2, <2>3, <3>1, <3>2
  <2> QED BY <2>4, <2>5, <2>6, <2>7
<1> DEFINE call == [Idle EXCEPT !.pc = "read", !.op = op, !.proposal = p, !.token = token,
                                !.now = now]
<1>2. /\ call \in Call /\ call.pc = "read" /\ call.op = op /\ call.proposal = p
      /\ call.token = token
  BY IdleOK, ClocksAssumption DEF Call
<1>3. CallMoves(c, call) /\ calls[c] = Idle /\ crashes' = crashes /\ Exists(rows[p])
  BY <1>1 DEF Begin, CallMoves
<1> HIDE DEF call
<1>4. CallInv(call, rows[call.proposal], version[call.proposal])
  BY <1>1, <1>2, <1>3 DEF CallInv, Begun
<1>5. calls[c].pc # "follow"
  BY <1>3, IdleOK
<1> QED BY <1>2, <1>3, <1>4, <1>5, CallMovesInv

LEMMA ReadInv ==
  ASSUME SqlInv, NEW c \in Caller, Read(c)
  PROVE  SqlInv' /\ \A p \in Proposal : Onward(rows[p], rows'[p])
<1> DEFINE call == calls[c]
           row  == rows[call.proposal]
           next == Transition(call, row)
           after == [call EXCEPT !.pc = "write", !.next = next, !.version = version[call.proposal]]
<1>1. call \in Call /\ call.pc = "read" /\ call.proposal \in Proposal /\ Begun(call, row)
  BY Typed DEF Read, CallInv
<1>2. row \in Row /\ RowInv(row) /\ version[call.proposal] \in Nat
  BY <1>1, Typed
<1>3. CASE next = row
  <2>1. CallMoves(c, Idle) /\ crashes' = crashes
    BY <1>3 DEF Read, CallMoves
  <2> QED BY <1>1, <2>1, IdleOK, CallMovesInv
<1>4. CASE next # row
  <2>1. CallMoves(c, after) /\ crashes' = crashes
    BY <1>4 DEF Read, CallMoves
  <2>2. /\ after.pc = "write" /\ after.op = call.op /\ after.proposal = call.proposal
        /\ after.token = call.token /\ after.next = next
        /\ after.version = version[call.proposal]
    BY <1>1 DEF Call
  <2>3. Computed(after, row)
    BY <1>1, <1>2, <1>4, <2>2, TransitionComputed DEF Begun
  <2>4. after \in Call
    BY <1>1, <1>2, <2>2, <2>3 DEF Call, Computed, RowMove
  <2> HIDE DEF after
  <2>5. CallInv(after, rows[after.proposal], version[after.proposal])
    BY <1>1, <1>2, <2>2, <2>3 DEF CallInv, Begun, Holding
  <2> QED BY <1>1, <2>1, <2>4, <2>5, CallMovesInv
<1> QED BY <1>3, <1>4

LEMMA LoseWriteInv ==
  ASSUME SqlInv, NEW c \in Caller, LoseWrite(c)
  PROVE  SqlInv' /\ \A p \in Proposal : Onward(rows[p], rows'[p])
<1> DEFINE call == calls[c]
           after == [call EXCEPT !.pc = "read", !.attempt = @ + 1, !.next = NoRow, !.version = 0]
<1>1. call \in Call /\ call.pc = "write" /\ Begun(call, rows[call.proposal])
  BY Typed DEF LoseWrite, CallInv
<1>2. /\ after \in Call /\ after.pc = "read" /\ after.op = call.op
      /\ after.proposal = call.proposal /\ after.token = call.token
  <2>1. call.attempt + 1 \in Nat /\ NoRow \in Row
    BY <1>1, NoRowOK DEF Call
  <2> QED BY <1>1, <2>1 DEF Call
<1>3. CallMoves(c, Idle) \/ CallMoves(c, after)
  BY DEF LoseWrite, CallMoves
<1>4. crashes' = crashes
  BY DEF LoseWrite
<1> HIDE DEF after
<1>5. CallInv(after, rows[after.proposal], version[after.proposal])
  BY <1>1, <1>2 DEF CallInv, Begun
<1> QED BY <1>1, <1>2, <1>3, <1>4, <1>5, IdleOK, CallMovesInv

LEMMA CrashInv ==
  ASSUME SqlInv, NEW c \in Caller, Crash(c)
  PROVE  SqlInv' /\ \A p \in Proposal : Onward(rows[p], rows'[p])
<1>1. CallMoves(c, Idle) /\ crashes' \in Nat \ {0}
  BY DEF Crash, CallMoves, SqlInv, STypeOK
<1> QED BY <1>1, IdleOK, CallMovesInv

\* A step that leaves the calls and the fences alone and moves rows on, with
\* their versions: what calls and fences know stays true.
LEMMA OthersKeep ==
  ASSUME SqlInv, Inv', UNCHANGED <<calls, fences>>,
         \A p \in Proposal : Onward(rows[p], rows'[p]),
         \A p \in Proposal : Exists(rows[p]) =>
           \/ rows'[p] = rows[p] /\ version'[p] = version[p]
           \/ version'[p] = version[p] + 1
  PROVE  CallsInv' /\ FencesInv' /\ UniqueFence'
<1>1. CallsInv'
  <2> SUFFICES ASSUME NEW c \in Caller
               PROVE  CallInv(calls[c], rows'[calls[c].proposal], version'[calls[c].proposal])
    BY DEF CallsInv
  <2>1. CASE calls[c].pc = "idle"
    BY <2>1 DEF CallInv
  <2>2. CASE calls[c].pc # "idle"
    <3> DEFINE p == calls[c].proposal
    <3>1. p \in Proposal /\ calls[c] \in Call /\ version[p] \in Nat
          /\ CallInv(calls[c], rows[p], version[p])
      BY <2>2, Typed
    <3>2. Exists(rows[p])
      BY <2>2, <3>1 DEF CallInv, Begun
    <3> HIDE DEF p
    <3>3. CallInv(calls[c], rows'[p], version'[p])
      BY <3>1, <3>2, KeepCall
    <3> QED BY <3>3 DEF p
  <2> QED BY <2>1, <2>2
<1>2. FencesInv'
  <2> SUFFICES ASSUME NEW f \in BagToSet(fences) PROVE FenceOK(f, rows'[f.proposal])
    BY DEF FencesInv
  <2>1. FenceOK(f, rows[f.proposal]) /\ f.proposal \in Proposal
    BY DEF SqlInv, FencesInv, FenceOK
  <2>2. rows[f.proposal] \in Row /\ rows'[f.proposal] \in Row
    BY <2>1 DEF SqlInv, Inv, TypeOK
  <2> QED BY <2>1, <2>2, KeepFence
<1>3. UniqueFence'
  BY DEF SqlInv, UniqueFence
<1> QED BY <1>1, <1>2, <1>3

\* A step that brings no proposal to its end but together with its record.
LEMMA RecordsKeep ==
  ASSUME SqlInv, UNCHANGED <<calls, crashes>>, \A p \in Proposal : Lagging(p)' => Lagging(p)
  PROVE  RecordFollows'
BY DEF SqlInv, RecordFollows, BeingSettled

LEMMA SqlCreateInv ==
  ASSUME SqlInv, NEW p \in Proposal, NEW expiresAt \in Lifetimes, NEW now \in Clocks,
         SqlCreate(p, expiresAt, now)
  PROVE  SqlInv' /\ \A q \in Proposal : Onward(rows[q], rows'[q])
<1>1. Create(p, expiresAt, now)
  BY DEF SqlCreate
<1>2. Inv'
  BY <1>1, CreateInv DEF SqlInv
<1>3. \A q \in Proposal : rows[q] \in Row /\ RowInv(rows[q]) /\ version[q] \in Nat
  BY Typed
<1>4. ~Exists(rows[p]) /\ rows'[p] = InitialRow(births + 1, expiresAt)
  BY <1>1 DEF Create
<1>5. /\ rows[p].execution = NoExecution /\ rows[p].delivery = NoDelivery
      /\ ~Finished(rows[p]) /\ ToolCallStatus(rows[p]) = "none"
  BY <1>3, <1>4 DEF RowInv, Exists, Finished, Refusals, Settled, NoExecution, ToolCallStatus
<1>6. /\ rows'[p].execution = NoExecution /\ rows'[p].delivery = NoDelivery
      /\ rows'[p].decision = "pending"
  BY <1>4 DEF InitialRow, NoRow
<1>7. Onward(rows[p], rows'[p])
  BY <1>4, <1>5, <1>6 DEF Onward, Exists, NoExecution, NoDelivery, Settled
<1>8. \A q \in Proposal \ {p} : Onward(rows[q], rows'[q])
  <2>1. \A q \in Proposal \ {p} : rows'[q] \in {rows[q], Superseded(rows[q], p, now)}
    BY <1>1 DEF Create
  <2> QED BY <1>3, <2>1, Unmoved, SupersededOnward, ClocksAssumption
<1>9. /\ UNCHANGED <<calls, fences, late, crashes>>
      /\ version' = [q \in Proposal |-> IF q # p /\ rows'[q] # rows[q] THEN version[q] + 1
                                        ELSE version[q]]
  BY DEF SqlCreate
<1>10. CallsInv' /\ FencesInv' /\ UniqueFence'
  BY <1>2, <1>4, <1>7, <1>8, <1>9, OthersKeep
<1>11. STypeOK'
  BY <1>3, <1>9 DEF SqlInv, STypeOK
<1>12. \A q \in Proposal : Lagging(q)' => Lagging(q)
  <2> SUFFICES ASSUME NEW q \in Proposal, Lagging(q)' PROVE Lagging(q)
    OBVIOUS
  <2>1. q # p
    BY <1>6 DEF Lagging, Finished, Refusals, Settled, NoExecution
  <2>2. toolCall'[q] = Followed(toolCall[q], rows[q], rows'[q])
    BY <1>1 DEF Create, ToolCallsFollow
  <2>3. rows'[q] \in Row /\ RowInv(rows'[q])
    BY <1>2 DEF Inv, TypeOK
  <2>4. ToolCallStatus(rows'[q]) \notin {"none", "proposed"} /\ toolCall'[q] = "proposed"
    BY <2>3, StatusOfEnd DEF Lagging
  <2>5. toolCall[q] = "proposed" /\ ToolCallStatus(rows[q]) = ToolCallStatus(rows'[q])
    BY <2>2, <2>4 DEF Followed
  <2> QED
    BY <1>3, <1>9, <2>4, <2>5, StatusOfEnd DEF Lagging
<1>13. RecordFollows'
  BY <1>9, <1>12, RecordsKeep
<1> QED BY <1>2, <1>7, <1>8, <1>10, <1>11, <1>13 DEF SqlInv

LEMMA SqlRecordInv ==
  ASSUME SqlInv, NEW p \in Proposal, SqlRecord(p)
  PROVE  SqlInv' /\ \A q \in Proposal : Onward(rows[q], rows'[q])
<1>1. /\ toolCall' = [toolCall EXCEPT ![p] = "proposed"]
      /\ UNCHANGED <<rows, births, thread, posted, version, calls, fences, crashes>>
      /\ late' = IF Finished(rows[p]) THEN late \cup {p} ELSE late
  BY DEF SqlRecord, RecordToolCall
<1>2. Inv'
  BY <1>1, RecordInv DEF SqlInv
<1>3. STypeOK'
  BY <1>1 DEF SqlInv, STypeOK
<1>4. \A q \in Proposal : Onward(rows[q], rows'[q])
  BY <1>1, Typed, Unmoved
<1>5. CallsInv' /\ FencesInv' /\ UniqueFence'
  BY <1>1, <1>2, <1>4, OthersKeep
<1>6. \A q \in Proposal : Lagging(q)' => Lagging(q)
  BY <1>1 DEF Lagging, SqlInv, Inv, TypeOK
<1>7. RecordFollows'
  BY <1>1, <1>6, RecordsKeep
<1> QED BY <1>2, <1>3, <1>4, <1>5, <1>7 DEF SqlInv

LEMMA SqlAdmitInv ==
  ASSUME SqlInv, NEW f \in BagToSet(fences), NEW now \in Clocks, SqlAdmit(f, now)
  PROVE  SqlInv' /\ \A q \in Proposal : Onward(rows[q], rows'[q])
<1> DEFINE p == f.proposal
<1>1. p \in Proposal
  BY DEF SqlInv, FencesInv, FenceOK
<1>2. /\ Admit(p, f.token, now) /\ version' = [version EXCEPT ![p] = @ + 1]
      /\ UNCHANGED <<calls, fences, late, crashes, toolCall>>
  BY DEF SqlAdmit, Admit
<1> HIDE DEF p
<1>3. Inv'
  BY <1>1, <1>2, AdmitInv DEF SqlInv
<1>4. \A q \in Proposal : rows[q] \in Row /\ version[q] \in Nat
  BY Typed
<1>5. PICK status \in {"admitted", "discarded"} :
        rows' = [rows EXCEPT ![p].delivery.status = status, ![p].delivery.lease = NoLease]
  BY <1>2 DEF Admit
<1>6. /\ rows'[p].decision = rows[p].decision /\ rows'[p].execution = rows[p].execution
      /\ rows'[p].outcome = rows[p].outcome
      /\ rows'[p].delivery.generation = rows[p].delivery.generation
  BY <1>1, <1>4, <1>5 DEF Row, Delivery, SqlInv, Inv, TypeOK
<1>7. \A q \in Proposal \ {p} : rows'[q] = rows[q]
  BY <1>5 DEF SqlInv, Inv, TypeOK
<1>8. \A q \in Proposal : Finished(rows'[q]) <=> Finished(rows[q])
  BY <1>6, <1>7 DEF Finished
<1>9. \A q \in Proposal : Onward(rows[q], rows'[q])
  <2>1. Onward(rows[p], rows'[p])
    BY <1>1, <1>4, <1>6 DEF Onward, Exists, ToolCallStatus, Row, Execution, Delivery
  <2> QED BY <1>4, <1>7, <2>1, Unmoved
<1>10. CallsInv' /\ FencesInv' /\ UniqueFence'
  <2>1. \A q \in Proposal : \/ rows'[q] = rows[q] /\ version'[q] = version[q]
                            \/ version'[q] = version[q] + 1
    BY <1>1, <1>2, <1>4, <1>7 DEF SqlInv, STypeOK
  <2> QED BY <1>2, <1>3, <1>9, <2>1, OthersKeep
<1>11. STypeOK'
  BY <1>1, <1>2, <1>4 DEF SqlInv, STypeOK
<1>12. RecordFollows'
  BY <1>2, <1>8, RecordsKeep DEF Lagging
<1> QED BY <1>3, <1>9, <1>10, <1>11, <1>12 DEF SqlInv

LEMMA ThreadInv ==
  ASSUME SqlInv, ThreadStep, UNCHANGED svars
  PROVE  SqlInv' /\ \A q \in Proposal : Onward(rows[q], rows'[q])
<1>1. Inv'
  BY NextInv DEF SqlInv, Next
<1>2. UNCHANGED <<rows, toolCall, version, calls, fences, late, crashes>>
  BY DEF ThreadStep, svars
<1>3. STypeOK'
  BY <1>2 DEF SqlInv, STypeOK
<1>4. \A q \in Proposal : Onward(rows[q], rows'[q])
  BY <1>2, Typed, Unmoved
<1>5. CallsInv' /\ FencesInv' /\ UniqueFence'
  BY <1>1, <1>2, <1>4, OthersKeep
<1>6. RecordFollows'
  BY <1>2, RecordsKeep DEF Lagging
<1> QED BY <1>1, <1>3, <1>4, <1>5, <1>6 DEF SqlInv

LEMMA FollowInv ==
  ASSUME SqlInv, NEW c \in Caller, Follow(c)
  PROVE  SqlInv' /\ \A q \in Proposal : Onward(rows[q], rows'[q])
<1> DEFINE call == calls[c]
           p    == call.proposal
<1>1. /\ call \in Call /\ p \in Proposal /\ rows[p] \in Row /\ RowInv(rows[p])
      /\ Ending(call, rows[p])
  BY Typed DEF Follow, CallInv
<1>2. /\ UNCHANGED <<rows, births, thread, posted, version, fences, late, crashes>>
      /\ calls' = [calls EXCEPT ![c] = Idle]
      /\ toolCall' = [toolCall EXCEPT ![p] = IF @ = "none" THEN @ ELSE ToolCallStatus(call.next)]
  BY DEF Follow
<1>3. ToolCallStatus(rows[p]) = ToolCallStatus(call.next)
      /\ ToolCallStatus(rows[p]) \notin {"none", "proposed"}
  BY <1>1, StatusOfEnd DEF Ending
<1> HIDE DEF call, p
<1>4. Inv'
  <2>1. CASE toolCall[p] = "none"
    <3>1. UNCHANGED vars
      BY <1>1, <1>2, <2>1 DEF vars, SqlInv, Inv, TypeOK
    <3> QED BY <3>1, StutterInv DEF SqlInv
  <2>2. CASE toolCall[p] # "none"
    <3>1. toolCall' = [toolCall EXCEPT ![p] = ToolCallStatus(rows[p])]
      BY <1>1, <1>2, <1>3, <2>2 DEF SqlInv, Inv, TypeOK
    <3> QED BY <1>1, <1>2, <3>1, RecordInv DEF SqlInv
  <2> QED BY <2>1, <2>2
<1>5. STypeOK'
  BY <1>2, IdleOK DEF SqlInv, STypeOK
<1>6. \A q \in Proposal : Onward(rows[q], rows'[q])
  BY <1>2, Typed, Unmoved
<1>7. CallsInv'
  BY <1>2, IdleOK DEF SqlInv, STypeOK, CallsInv
<1>8. FencesInv' /\ UniqueFence'
  BY <1>2 DEF SqlInv, FencesInv, UniqueFence
<1>9. RecordFollows'
  <2> SUFFICES ASSUME crashes' = 0, NEW q \in Proposal, Lagging(q)' PROVE BeingSettled(q)'
    BY DEF RecordFollows
  <2>1. q # p
    BY <1>1, <1>2, <1>3 DEF Lagging, SqlInv, Inv, TypeOK
  <2>2. crashes = 0 /\ Lagging(q)
    BY <1>2, <2>1 DEF Lagging, SqlInv, Inv, TypeOK
  <2>3. PICK d \in Caller : calls[d].pc = "follow" /\ calls[d].proposal = q
    BY <2>2 DEF SqlInv, RecordFollows, BeingSettled
  <2>4. calls'[d] = calls[d]
    BY <1>2, <2>1, <2>3 DEF SqlInv, STypeOK, p, call
  <2> QED BY <2>3, <2>4 DEF BeingSettled
<1> QED BY <1>4, <1>5, <1>6, <1>7, <1>8, <1>9 DEF SqlInv

LEMMA SqlTickInv ==
  ASSUME SqlInv, SqlTick
  PROVE  SqlInv' /\ \A q \in Proposal : Onward(rows[q], rows'[q])
<1>1. Inv'
  BY NextInv DEF SqlInv, Next, SqlTick
<1>2. /\ rows' = [p \in Proposal |-> Elapse(rows[p])]
      /\ calls' = [c \in Caller |-> [calls[c] EXCEPT !.next = Elapse(@)]]
      /\ UNCHANGED <<toolCall, version, fences, late, crashes>>
  BY DEF SqlTick, Tick
<1>3. \A c \in Caller : /\ calls'[c] \in Call /\ calls'[c].pc = calls[c].pc
                        /\ calls'[c].proposal = calls[c].proposal
  <2> SUFFICES ASSUME NEW c \in Caller
               PROVE  /\ calls'[c] \in Call /\ calls'[c].pc = calls[c].pc
                      /\ calls'[c].proposal = calls[c].proposal
    OBVIOUS
  <2>1. calls[c] \in Call /\ calls'[c] = [calls[c] EXCEPT !.next = Elapse(@)]
    BY <1>2, Typed
  <2>2. Elapse(calls[c].next) \in Row
    BY <2>1, ElapseFields DEF Call
  <2> QED BY <2>1, <2>2 DEF Call
<1>4. STypeOK'
  BY <1>2, <1>3 DEF SqlInv, STypeOK
<1>5. CallsInv'
  <2> SUFFICES ASSUME NEW c \in Caller
               PROVE  CallInv(calls'[c], rows'[calls'[c].proposal], version[calls'[c].proposal])
    BY <1>2 DEF CallsInv
  <2>1. CASE calls[c].pc = "idle"
    BY <1>3, <2>1 DEF CallInv
  <2>2. CASE calls[c].pc # "idle"
    BY <1>2, <1>3, <2>2, Typed, ElapseCall
  <2> QED BY <2>1, <2>2
<1>6. \A q \in Proposal : Onward(rows[q], rows'[q])
  BY <1>2, Typed, ElapseOnward
<1>7. FencesInv' /\ UniqueFence'
  <2>1. UniqueFence'
    BY <1>2 DEF SqlInv, UniqueFence
  <2>2. ASSUME NEW f \in BagToSet(fences) PROVE FenceOK(f, rows'[f.proposal])
    <3>1. FenceOK(f, rows[f.proposal]) /\ f.proposal \in Proposal
      BY DEF SqlInv, FencesInv, FenceOK
    <3>2. rows[f.proposal] \in Row /\ rows'[f.proposal] \in Row
      BY <1>1, <3>1 DEF SqlInv, Inv, TypeOK
    <3> QED BY <1>6, <3>1, <3>2, KeepFence
  <2> QED BY <1>2, <2>1, <2>2 DEF FencesInv
<1>8. \A q \in Proposal : Finished(rows'[q]) <=> Finished(rows[q])
  BY <1>2, Typed, ElapseFields DEF Finished
<1>9. RecordFollows'
  <2> SUFFICES ASSUME crashes' = 0, NEW q \in Proposal, Lagging(q)' PROVE BeingSettled(q)'
    BY DEF RecordFollows
  <2>1. crashes = 0 /\ Lagging(q)
    BY <1>2, <1>8 DEF Lagging
  <2>2. PICK d \in Caller : calls[d].pc = "follow" /\ calls[d].proposal = q
    BY <2>1 DEF SqlInv, RecordFollows, BeingSettled
  <2> QED BY <1>3, <2>2 DEF BeingSettled
<1> QED BY <1>1, <1>4, <1>5, <1>6, <1>7, <1>9 DEF SqlInv

\* Of a fence handed out and all before it, none is like another.
LEMMA NewFence ==
  ASSUME IsABag(fences), UniqueFence, NEW new, new \notin BagToSet(fences),
         \A f \in BagToSet(fences) :
           f.proposal = new.proposal /\ f.kind = new.kind =>
             f.token.generation # new.token.generation,
         fences' = fences (+) SetToBag({new})
  PROVE  /\ IsABag(fences') /\ UniqueFence'
         /\ BagToSet(fences') = BagToSet(fences) \cup {new}
<1>1. /\ IsABag(fences') /\ BagToSet(fences') = BagToSet(fences) \cup {new}
      /\ fences'[new] = 1 /\ \A f \in BagToSet(fences) : fences'[f] = fences[f]
  BY DEF (+), SetToBag, IsABag, BagToSet
<1>2. UniqueFence'
  <2> SUFFICES ASSUME NEW f \in BagToSet(fences) \cup {new}, NEW g \in BagToSet(fences) \cup {new},
                      f.proposal = g.proposal, f.kind = g.kind,
                      f.token.generation = g.token.generation
               PROVE  f = g /\ fences'[f] = 1
    BY <1>1 DEF UniqueFence
  <2>1. CASE f = new \/ g = new
    BY <1>1, <2>1
  <2>2. CASE f \in BagToSet(fences) /\ g \in BagToSet(fences)
    BY <1>1, <2>2 DEF UniqueFence
  <2> QED BY <2>1, <2>2
<1> QED BY <1>1, <1>2

LEMMA NoFence ==
  ASSUME IsABag(fences), fences' = fences (+) SetToBag({})
  PROVE  fences' = fences
BY DEF (+), SetToBag, IsABag

\* A fence a call hands out is of the row it wrote, and of a new generation.
LEMMA ReturnedFences ==
  ASSUME NEW call \in Call, call.proposal \in Proposal, NEW row \in Row, Computed(call, row),
         NEW f \in Returned(call)
  PROVE  /\ f.proposal = call.proposal /\ FenceOK(f, call.next)
         /\ f.token.generation > Latest(f, row)
         /\ Returned(call) = {f}
<1>1. call.next \in Row
  BY DEF Call
<1>2. Counted(call, row)
  BY DEF Computed
<1>3. CASE call.op = "claim"
  <2>1. /\ f = Fence(call.proposal, call.next.execution.lease.token, "claim")
        /\ Returned(call) = {f}
    BY <1>3 DEF Returned
  <2>2. /\ f.proposal = call.proposal /\ f.kind = "claim"
        /\ f.token = call.next.execution.lease.token
    BY <2>1 DEF Fence
  <2>3. f.token \in Token /\ call.next.execution.generation \in Nat /\ row.execution.generation \in Nat
    BY <1>1, <2>2 DEF Row, Execution, Lease
  <2> QED BY <1>2, <1>3, <2>1, <2>2, <2>3 DEF FenceOK, Latest, Counted
<1>4. CASE call.op = "outcome"
  <2>1. /\ f = Fence(call.proposal, call.next.delivery.lease.token, "outcome")
        /\ Returned(call) = {f}
    BY <1>4 DEF Returned
  <2>2. /\ f.proposal = call.proposal /\ f.kind = "outcome"
        /\ f.token = call.next.delivery.lease.token
    BY <2>1 DEF Fence
  <2>3. f.token \in Token /\ call.next.delivery.generation \in Nat /\ row.delivery.generation \in Nat
    BY <1>1, <2>2 DEF Row, Delivery, Lease
  <2> QED BY <1>2, <1>4, <2>1, <2>2, <2>3 DEF FenceOK, Latest, Counted
<1> QED BY <1>3, <1>4 DEF Returned

\* What a call computed and writes: the row moves on, with its version.
LEMMA Written ==
  ASSUME SqlInv, NEW c \in Caller, Write(c)
  PROVE  LET call == calls[c]
             p    == call.proposal
         IN  /\ call \in Call /\ p \in Proposal /\ Computed(call, rows[p])
             /\ \A q \in Proposal : rows'[q] = IF q = p THEN call.next ELSE rows[q]
             /\ \A q \in Proposal : version'[q] = IF q = p THEN version[q] + 1 ELSE version[q]
             /\ \A q \in Proposal : Onward(rows[q], rows'[q])
<1> DEFINE call == calls[c]
           p    == call.proposal
<1>1. /\ call \in Call /\ p \in Proposal /\ Holding(call, rows[p], version[p])
      /\ version[p] = call.version
  BY Typed DEF Write, CallInv
<1>2. Computed(call, rows[p])
  BY <1>1 DEF Holding
<1>3. \A q \in Proposal : rows'[q] = IF q = p THEN call.next ELSE rows[q]
  BY <1>1 DEF Write, SqlInv, Inv, TypeOK
<1>4. \A q \in Proposal : version'[q] = IF q = p THEN version[q] + 1 ELSE version[q]
  BY <1>1 DEF Write, SqlInv, STypeOK
<1>5. \A q \in Proposal : Onward(rows[q], rows'[q])
  BY <1>1, <1>2, <1>3, Typed, Unmoved, ComputedOnward
<1> QED BY <1>1, <1>2, <1>3, <1>4, <1>5

LEMMA WriteInv ==
  ASSUME SqlInv, NEW c \in Caller, Write(c)
  PROVE  SqlInv' /\ \A q \in Proposal : Onward(rows[q], rows'[q])
<1> DEFINE call  == calls[c]
           p     == call.proposal
           after == [call EXCEPT !.pc = "follow"]
<1>1. /\ call \in Call /\ p \in Proposal /\ Computed(call, rows[p])
      /\ \A q \in Proposal : rows'[q] = IF q = p THEN call.next ELSE rows[q]
      /\ \A q \in Proposal : version'[q] = IF q = p THEN version[q] + 1 ELSE version[q]
      /\ \A q \in Proposal : Onward(rows[q], rows'[q])
  BY Written
<1>2. /\ call.pc = "write" /\ UNCHANGED <<births, toolCall, thread, posted, late, crashes>>
      /\ rows' = [rows EXCEPT ![p] = call.next] /\ version' = [version EXCEPT ![p] = @ + 1]
      /\ fences' = fences (+) SetToBag(Returned(call))
      /\ calls' = [calls EXCEPT ![c] = IF Followed("proposed", rows[p], call.next) = "proposed"
                                       THEN Idle ELSE after]
  BY DEF Write
<1>3. /\ after \in Call /\ after.pc = "follow" /\ after.op = call.op /\ after.token = call.token
      /\ after.proposal = p /\ after.next = call.next
  BY <1>1 DEF Call
<1> HIDE DEF call, p, after
<1>4. /\ \A q \in Proposal : rows[q] \in Row /\ RowInv(rows[q]) /\ version[q] \in Nat
      /\ call.next \in Row /\ RowInv(call.next)
  BY <1>1, Typed DEF Computed, RowMove
<1>5. Inv'
  <2>1. \A q \in Proposal : RowMove(rows[q], rows'[q])
    BY <1>1, <1>4, StutterStep DEF Computed, RowStep
  <2>2. RowsMove
    BY <1>2, <2>1 DEF RowsMove, SqlInv, Inv, TypeOK
  <2> QED BY <1>2, <2>2, MoveInv DEF SqlInv, Inv, TypeOK
<1>6. /\ \A d \in Caller \ {c} : calls'[d] = calls[d]
      /\ calls'[c] = IF Followed("proposed", rows[p], call.next) = "proposed" THEN Idle ELSE after
  BY <1>2 DEF SqlInv, STypeOK
<1>7. CallsInv'
  <2> SUFFICES ASSUME NEW d \in Caller
               PROVE  CallInv(calls'[d], rows'[calls'[d].proposal], version'[calls'[d].proposal])
    BY DEF CallsInv
  <2>1. CASE d # c /\ calls[d].pc = "idle"
    BY <1>6, <2>1 DEF CallInv
  <2>2. CASE d # c /\ calls[d].pc # "idle"
    <3> DEFINE q == calls[d].proposal
    <3>1. q \in Proposal /\ calls[d] \in Call /\ CallInv(calls[d], rows[q], version[q])
      BY <2>2, Typed
    <3>2. \/ rows'[q] = rows[q] /\ version'[q] = version[q]
          \/ Onward(rows[q], rows'[q]) /\ version'[q] = version[q] + 1
      BY <1>1, <3>1
    <3>3. CallInv(calls[d], rows'[q], version'[q])
      BY <1>4, <3>1, <3>2, KeepCall
    <3> QED BY <1>6, <2>2, <3>3
  <2>3. CASE d = c /\ calls'[c] = Idle
    BY <2>3, IdleOK
  <2>4. CASE d = c /\ Followed("proposed", rows[p], call.next) # "proposed"
    <3>1. calls'[d] = after
      BY <1>6, <2>4
    <3>2. ToolCallStatus(call.next) # "none"
      BY <2>4 DEF Followed
    <3>3. rows'[p] = call.next
      BY <1>1
    <3>4. Begun(call, rows[p])
      BY <1>2, Typed DEF CallInv, call, p
    <3>5. Exists(rows'[p])
      BY <1>1, <3>4 DEF Onward, Begun
    <3>6. CallInv(after, rows'[p], version'[p])
      BY <1>1, <1>3, <3>2, <3>3, <3>4, <3>5 DEF CallInv, Begun, Ending
    <3> QED BY <1>3, <3>1, <3>6
  <2> QED BY <1>6, <2>1, <2>2, <2>3, <2>4
<1>8. /\ IsABag(fences') /\ UniqueFence'
      /\ BagToSet(fences') = BagToSet(fences) \cup Returned(call)
  <2>1. CASE Returned(call) = {}
    BY <1>2, <2>1, NoFence DEF SqlInv, STypeOK, UniqueFence
  <2>2. ASSUME NEW new \in Returned(call)
        PROVE  /\ IsABag(fences') /\ UniqueFence'
               /\ BagToSet(fences') = BagToSet(fences) \cup Returned(call)
    <3>1. /\ new.proposal = p /\ FenceOK(new, call.next)
          /\ new.token.generation > Latest(new, rows[p]) /\ Returned(call) = {new}
      BY <1>1, <1>4, ReturnedFences DEF p
    <3>2. ASSUME NEW f \in BagToSet(fences), f.proposal = new.proposal, f.kind = new.kind
          PROVE  f.token.generation # new.token.generation
      <4>1. /\ f.token.generation <= Latest(f, rows[p]) /\ Latest(f, rows[p]) = Latest(new, rows[p])
            /\ f.token.generation \in Nat /\ new.token.generation \in Nat
            /\ Latest(f, rows[p]) \in Nat
        BY <1>1, <1>4, <3>1, <3>2 DEF SqlInv, FencesInv, FenceOK, Latest, Token, Row, Execution, Delivery
      <4> QED BY <3>1, <4>1
    <3>3. new \notin BagToSet(fences)
      BY <3>2
    <3>4. IsABag(fences) /\ UniqueFence
      BY DEF SqlInv, STypeOK
    <3> QED BY <1>2, <3>1, <3>2, <3>3, <3>4, NewFence
  <2> QED BY <2>1, <2>2
<1>9. FencesInv'
  <2> SUFFICES ASSUME NEW f \in BagToSet(fences) \cup Returned(call)
               PROVE  FenceOK(f, rows'[f.proposal])
    BY <1>8 DEF FencesInv
  <2>1. CASE f \in BagToSet(fences)
    <3>1. FenceOK(f, rows[f.proposal]) /\ f.proposal \in Proposal
      BY <2>1 DEF SqlInv, FencesInv, FenceOK
    <3>2. rows'[f.proposal] \in Row
      BY <1>5, <3>1 DEF Inv, TypeOK
    <3> QED BY <1>1, <1>4, <3>1, <3>2, KeepFence
  <2>2. CASE f \in Returned(call)
    BY <1>1, <1>4, <2>2, ReturnedFences DEF p
  <2> QED BY <2>1, <2>2
<1>10. STypeOK'
  <2>1. calls' \in [Caller -> Call]
    BY <1>2, <1>3, IdleOK DEF SqlInv, STypeOK
  <2>2. version' \in [Proposal -> Nat]
    BY <1>1, <1>2, <1>4 DEF SqlInv, STypeOK
  <2> QED BY <1>2, <1>8, <2>1, <2>2 DEF SqlInv, STypeOK
<1>11. RecordFollows'
  <2> SUFFICES ASSUME crashes' = 0, NEW q \in Proposal, Lagging(q)' PROVE BeingSettled(q)'
    BY DEF RecordFollows
  <2>1. CASE Finished(rows[q])
    <3>1. crashes = 0 /\ Lagging(q)
      BY <1>2, <2>1 DEF Lagging
    <3>2. PICK d \in Caller : calls[d].pc = "follow" /\ calls[d].proposal = q
      BY <3>1 DEF SqlInv, RecordFollows, BeingSettled
    <3>3. calls'[d] = calls[d]
      BY <1>2, <1>6, <3>2 DEF call
    <3> QED BY <3>2, <3>3 DEF BeingSettled
  <2>2. CASE ~Finished(rows[q])
    <3>1. Finished(rows'[q])
      BY DEF Lagging
    <3>2. q = p /\ Finished(call.next)
      BY <1>1, <2>2, <3>1
    <3>3. ToolCallStatus(rows[p]) = "none" /\ ToolCallStatus(call.next) \notin {"none", "proposed"}
      BY <1>1, <1>4, <2>2, <3>2, StatusOfEnd
    <3>4. calls'[c] = after
      BY <1>6, <3>3 DEF Followed
    <3> QED BY <1>3, <3>2, <3>4 DEF BeingSettled
  <2> QED BY <2>1, <2>2
<1> QED BY <1>1, <1>5, <1>7, <1>8, <1>9, <1>10, <1>11 DEF SqlInv

\* Every statement of every operation keeps the invariant and moves rows on.
LEMMA SNextInv ==
  ASSUME SqlInv, [SNext]_allvars
  PROVE  SqlInv' /\ \A p \in Proposal : Onward(rows[p], rows'[p])
<1>1. ASSUME NEW c \in Caller,
             BeginAny(c) \/ Read(c) \/ Write(c) \/ LoseWrite(c) \/ Follow(c) \/ Crash(c)
      PROVE  SqlInv' /\ \A p \in Proposal : Onward(rows[p], rows'[p])
  BY <1>1, BeginAnyInv, ReadInv, WriteInv, LoseWriteInv, FollowInv, CrashInv
<1>2. CASE UNCHANGED allvars
  <2>1. UNCHANGED vars /\ UNCHANGED svars
    BY <1>2 DEF allvars
  <2>2. Inv' /\ STypeOK'
    BY <2>1, StutterInv DEF SqlInv, STypeOK, svars
  <2>3. CallsInv' /\ FencesInv' /\ UniqueFence'
    BY <2>1 DEF SqlInv, CallsInv, FencesInv, UniqueFence, vars, svars
  <2>4. RecordFollows'
    BY <2>1 DEF SqlInv, RecordFollows, Lagging, BeingSettled, vars, svars
  <2> QED BY <2>1, <2>2, <2>3, <2>4, Typed, Unmoved DEF SqlInv, vars
<1> QED
  BY <1>1, <1>2, SqlCreateInv, SqlRecordInv, SqlAdmitInv, ThreadInv, SqlTickInv DEF SNext

LEMMA SInitInv == SInit => SqlInv
<1> SUFFICES ASSUME SInit PROVE SqlInv
  OBVIOUS
<1>1. Inv
  BY InitInv DEF SInit
<1>2. IsABag(fences) /\ BagToSet(fences) = {}
  BY DEF SInit, EmptyBag, SetToBag, IsABag, BagToSet
<1>3. STypeOK /\ CallsInv
  BY <1>2, IdleOK DEF SInit, STypeOK, CallsInv
<1>4. FencesInv /\ UniqueFence
  BY <1>2 DEF FencesInv, UniqueFence
<1>5. RecordFollows
  BY DEF RecordFollows, Lagging, SInit, Init
<1> QED BY <1>1, <1>3, <1>4, <1>5 DEF SqlInv

-----------------------------------------------------------------------------
(* The theorems.                                                           *)

LEMMA SqlInvariance == SSpec => []SqlInv
<1>1. SqlInv /\ [SNext]_allvars => SqlInv'
  BY SNextInv
<1> QED BY <1>1, SInitInv, PTL DEF SSpec

\* Of several workers that claim one row at once, one gets the fence.
THEOREM OneFence == SSpec => []UniqueFence
<1>1. SqlInv => UniqueFence
  BY DEF SqlInv
<1> QED BY <1>1, SqlInvariance, PTL

\* The record of a call follows its proposal's end by the end of the operation
\* that ended it, in whatever order statements of several operations run.
THEOREM RecordsFollow == SSpec => []RecordFollows
<1>1. SqlInv => RecordFollows
  BY DEF SqlInv
<1> QED BY <1>1, SqlInvariance, PTL

\* What the atomic store keeps, the store over a database keeps statement by
\* statement: no work without approval, one message for an outcome, one pending
\* proposal of a group, and no record that lies.
THEOREM SqlKeepsStore == SSpec => []Inv
<1>1. SqlInv => Inv
  BY DEF SqlInv
<1> QED BY <1>1, SqlInvariance, PTL

\* Decisions and outcomes are first-wins whatever an operation read long ago.
THEOREM SqlDecisionsFinal == SSpec => FirstWins
<1> DEFINE A == \A p \in Proposal :
                  /\ rows[p].decision \notin {"none", "pending"} =>
                       rows'[p].decision = rows[p].decision
                  /\ Finished(rows[p]) =>
                       /\ rows'[p].outcome = rows[p].outcome
                       /\ rows'[p].execution = rows[p].execution
<1>1. SqlInv /\ [SNext]_allvars => A
  BY SNextInv DEF Onward
<1>2. SqlInv /\ [SNext]_allvars => [A]_vars
  BY <1>1
<1> HIDE DEF A
<1>3. SSpec => [][A]_vars
  BY <1>2, SqlInvariance, PTL DEF SSpec
<1> QED BY <1>3 DEF A, FirstWins

\* A settlement computed under an older lease never wins.
THEOREM LatestClaimSettles == SSpec => SettledByLatestClaim
<1> DEFINE A == \A p \in Proposal :
                  rows[p].execution.status \notin Settled /\ rows'[p].execution.status \in Settled =>
                    /\ rows[p].execution.status = "executing"
                    /\ rows'[p].execution.generation = rows[p].execution.generation
<1>1. SqlInv /\ [SNext]_allvars => A
  BY SNextInv DEF Onward
<1> HIDE DEF A
<1>2. SSpec => [][A]_allvars
  BY <1>1, SqlInvariance, PTL DEF SSpec
<1> QED BY <1>2 DEF A, SettledByLatestClaim

\* Each statement is a step of the life of a proposal, or none of it.
LEMMA SqlRefinesNext ==
  ASSUME SqlInv, [SNext]_allvars
  PROVE  [Lifecycle!LNext]_(Lifecycle!lvars)
<1>0. Inv
  BY DEF SqlInv
<1>1. ASSUME NEW c \in Caller, Write(c)
      PROVE  Lifecycle!LNext
  <2>1. /\ calls[c].proposal \in Proposal
        /\ Computed(calls[c], rows[calls[c].proposal])
    BY <1>1, Written
  <2>2. /\ rows' = [rows EXCEPT ![calls[c].proposal] = calls[c].next]
        /\ UNCHANGED <<thread, posted>>
    BY <1>1 DEF Write
  <2> QED BY <1>0, <2>1, <2>2, RefinesMutate DEF Computed
<1>2. ASSUME UNCHANGED <<rows, thread, posted>>
      PROVE  UNCHANGED Lifecycle!lvars
  BY <1>2 DEF Lifecycle!lvars
<1>3. ASSUME NEW c \in Caller, BeginAny(c) \/ Read(c) \/ LoseWrite(c) \/ Follow(c) \/ Crash(c)
      PROVE  UNCHANGED <<rows, thread, posted>>
  BY <1>3 DEF BeginAny, Begin, Read, LoseWrite, Follow, Crash, vars
<1>4. ASSUME NEW p \in Proposal, NEW expiresAt \in Lifetimes, NEW now \in Clocks,
             SqlCreate(p, expiresAt, now)
      PROVE  Lifecycle!LNext
  BY <1>0, <1>4, RefinesCreate DEF SqlCreate
<1>5. ASSUME NEW p \in Proposal, SqlRecord(p)
      PROVE  UNCHANGED <<rows, thread, posted>>
  BY <1>5 DEF SqlRecord, RecordToolCall
<1>6. ASSUME NEW f \in BagToSet(fences), NEW now \in Clocks, SqlAdmit(f, now)
      PROVE  Lifecycle!LNext
  <2>1. f.proposal \in Proposal
    BY DEF SqlInv, FencesInv, FenceOK
  <2> QED BY <1>0, <1>6, <2>1, RefinesAdmit DEF SqlAdmit
<1>7. CASE ThreadStep
  BY <1>0, <1>7, RefinesNext DEF Next
<1>8. CASE SqlTick
  BY <1>0, <1>8, RefinesNext DEF Next, SqlTick
<1>9. CASE UNCHANGED allvars
  BY <1>2, <1>9 DEF allvars, vars
<1> QED
  BY <1>1, <1>2, <1>3, <1>4, <1>5, <1>6, <1>7, <1>8, <1>9 DEF SNext

\* The store over a database implements the life of a proposal.
THEOREM SqlLifecycleRefined == SSpec => ImplementsLifecycle
<1>1. SInit => Lifecycle!LInit
  BY NoRowOK DEF SInit, Init, Lifecycle!LInit, LifeOf
<1>2. SqlInv /\ [SNext]_allvars => [Lifecycle!LNext]_(Lifecycle!lvars)
  BY SqlRefinesNext
<1> QED
  BY <1>1, <1>2, SqlInvariance, PTL DEF SSpec, ImplementsLifecycle, Lifecycle!LSpec
=============================================================================
