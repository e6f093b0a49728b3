---------------------------- MODULE SqlProposals ----------------------------
(***************************************************************************)
(* The proposal store over a database (drizzle-action-proposal-store.ts,   *)
(* mikro-orm-action-proposals.ts).  An operation on a row reads it,        *)
(* computes the transition in the process, writes the result where the     *)
(* version is still the one it read, and only then updates the tool-call   *)
(* record, in a statement of its own.  Several processes, each with its    *)
(* clock, do so at once.  Replacing creations and admissions are database  *)
(* transactions that lock what they read, and take effect at one instant.  *)
(***************************************************************************)
EXTENDS ProposalStore, FiniteSets, Bags

CONSTANTS Caller,       \* operations in flight at once
          MaxAttempts,  \* the bound of the compare-and-set loop (32 in the code)
          MaxCrashes    \* bound: processes that end between two statements

ASSUME AttemptsAssumption == MaxAttempts \in Nat \ {0}

VARIABLES version,  \* the version column of each row
          calls,    \* the operation each caller has in flight
          fences,   \* the claims whose fence was returned to a worker, each as often as it was
          late,     \* calls recorded when their proposal had already ended
          crashes
svars == <<version, calls, fences, late, crashes>>
allvars == <<vars, svars>>

Idle == [pc |-> "idle", op |-> "expired", proposal |-> NoProposal, token |-> NoToken,
         now |-> 0, attempt |-> 0, version |-> 0, next |-> NoRow]

SInit ==
  /\ Init
  /\ version = [p \in Proposal |-> 0]
  /\ calls = [c \in Caller |-> Idle]
  /\ fences = EmptyBag
  /\ late = {}
  /\ crashes = 0

\* A fence names the proposal, the token, and whether it is of its outcome.
Fence(p, token, kind) == [proposal |-> p, token |-> token, kind |-> kind]

\* What a call that wrote its row returns to a worker.
Returned(call) ==
  CASE call.op = "claim"   -> {Fence(call.proposal, call.next.execution.lease.token, "claim")}
    [] call.op = "outcome" -> {Fence(call.proposal, call.next.delivery.lease.token, "outcome")}
    [] OTHER -> {}

-----------------------------------------------------------------------------
(* One operation on one row.                                               *)

\* The transition a call applies; a claim names its caller in the token.
Transition(call, row) ==
  CASE call.op \in {"approved", "rejected", "expired"} -> Decided(row, call.op, call.now)
    [] call.op = "claim"     -> Claimed(row, call.token.worker, call.now)
    [] call.op = "extend"    -> Extended(row, call.token, call.now)
    [] call.op \in Settled   -> SettledRow(row, call.token, call.op, call.now)
    [] call.op = "outcome"   -> ClaimedOutcome(row, call.token.worker, call.now)

Begin(c, op, p, token, now) ==
  /\ calls[c] = Idle
  /\ Exists(rows[p])
  /\ calls' = [calls EXCEPT ![c] = [Idle EXCEPT !.pc = "read", !.op = op, !.proposal = p,
                                                !.token = token, !.now = now]]
  /\ UNCHANGED <<vars, version, fences, late, crashes>>

\* Deciders and sweeps name a proposal; a worker claims one its query returned,
\* and renews and settles under a fence it was given.
BeginAny(c) ==
  \E p \in Proposal, now \in Clocks :
    \/ \E op \in {"approved", "rejected"} : Begin(c, op, p, NoToken, now)
    \/ rows[p].decision = "pending" /\ Due(rows[p], now) /\ Begin(c, "expired", p, NoToken, now)
    \/ \E w \in Worker :
         LET token == [worker |-> w, generation |-> 0]
         IN  \/ /\ Claimable(rows[p], now) /\ rows[p].execution.generation < MaxGeneration
                /\ Begin(c, "claim", p, token, now)
             \/ /\ OutcomeClaimable(rows[p], now) /\ rows[p].delivery.generation < MaxGeneration
                /\ Begin(c, "outcome", p, token, now)
    \/ \E f \in BagToSet(fences), op \in {"extend"} \cup Settled :
         f.proposal = p /\ f.kind = "claim" /\ Begin(c, op, p, f.token, now)

\* Read the row and compute the transition on the clock of this moment; a
\* transition that changes nothing is the answer.
Read(c) ==
  LET call == calls[c]
      next == Transition(call, rows[call.proposal])
  IN  /\ call.pc = "read"
      /\ calls' = [calls EXCEPT ![c] =
                     IF next = rows[call.proposal] THEN Idle
                     ELSE [call EXCEPT !.pc = "write", !.next = next,
                                       !.version = version[call.proposal]]]
      /\ UNCHANGED <<vars, version, fences, late, crashes>>

\* Mutant: the update does not look at the version.
WriteUnversioned(c) ==
  LET call == calls[c]
      p == call.proposal
  IN  /\ call.pc = "write"
      /\ rows' = [rows EXCEPT ![p] = call.next]
      /\ version' = [version EXCEPT ![p] = @ + 1]
      /\ fences' = fences (+) SetToBag(Returned(call))
      /\ calls' = [calls EXCEPT ![c].pc = "follow"]
      /\ UNCHANGED <<births, toolCall, thread, posted, late, crashes>>

\* Mutant: the tool-call record is left as it is.
WriteRowOnly(c) ==
  LET call == calls[c]
      p == call.proposal
  IN  /\ call.pc = "write"
      /\ version[p] = call.version
      /\ rows' = [rows EXCEPT ![p] = call.next]
      /\ version' = [version EXCEPT ![p] = @ + 1]
      /\ calls' = [calls EXCEPT ![c] = Idle]
      /\ UNCHANGED <<births, toolCall, thread, posted, fences, late, crashes>>

\* UPDATE ... WHERE version = the version read.
Write(c) ==
  LET call == calls[c]
      p == call.proposal
  IN  /\ call.pc = "write"
      /\ version[p] = call.version
      /\ rows' = [rows EXCEPT ![p] = call.next]
      /\ version' = [version EXCEPT ![p] = @ + 1]
      /\ fences' = fences (+) SetToBag(Returned(call))
      /\ calls' = [calls EXCEPT ![c] =
                     IF Followed("proposed", rows[p], call.next) = "proposed" THEN Idle
                     ELSE [call EXCEPT !.pc = "follow"]]
      /\ UNCHANGED <<births, toolCall, thread, posted, late, crashes>>

\* Another writer was first: read again, a bounded number of times.
LoseWrite(c) ==
  LET call == calls[c]
  IN  /\ call.pc = "write"
      /\ version[call.proposal] # call.version
      /\ calls' = [calls EXCEPT ![c] =
                     IF call.attempt + 1 = MaxAttempts THEN Idle
                     ELSE [call EXCEPT !.pc = "read", !.attempt = @ + 1, !.next = NoRow,
                                       !.version = 0]]
      /\ UNCHANGED <<vars, version, fences, late, crashes>>

\* toolCallSettlement: UPDATE ... WHERE id and proposalId match, if there is a record.
Follow(c) ==
  LET p == calls[c].proposal
  IN  /\ calls[c].pc = "follow"
      /\ toolCall' = [toolCall EXCEPT ![p] =
                        IF @ = "none" THEN @ ELSE ToolCallStatus(calls[c].next)]
      /\ calls' = [calls EXCEPT ![c] = Idle]
      /\ UNCHANGED <<rows, births, thread, posted, version, fences, late, crashes>>

\* The process of a call ends between two of its statements.
Crash(c) ==
  /\ calls[c] # Idle
  /\ crashes < MaxCrashes /\ crashes' = crashes + 1
  /\ calls' = [calls EXCEPT ![c] = Idle]
  /\ UNCHANGED <<vars, version, fences, late>>

-----------------------------------------------------------------------------
(* Transactions and single statements.                                     *)

\* INSERT for a proposal without a key.  With one, the transaction locks the
\* thread and the pending rows of the group, and moves their versions.
SqlCreate(p, expiresAt, now) ==
  /\ Key[p] # NoKey => thread # "deleted"
  /\ Create(p, expiresAt, now)
  /\ version' = [q \in Proposal |-> IF q # p /\ rows'[q] # rows[q] THEN version[q] + 1
                                    ELSE version[q]]
  /\ UNCHANGED <<calls, fences, late, crashes>>

SqlRecord(p) ==
  /\ RecordToolCall(p)
  /\ late' = IF Finished(rows[p]) THEN late \cup {p} ELSE late
  /\ UNCHANGED <<version, calls, fences, crashes>>

SqlAdmit(f, now) ==
  /\ f.kind = "outcome"
  /\ Admit(f.proposal, f.token, now)
  /\ version' = [version EXCEPT ![f.proposal] = @ + 1]
  /\ UNCHANGED <<calls, fences, late, crashes>>

\* Time passes for the rows that were read as for those in the table.
SqlTick ==
  /\ Tick
  /\ calls' = [c \in Caller |-> [calls[c] EXCEPT !.next = Elapse(@)]]
  /\ UNCHANGED <<version, fences, late, crashes>>

SNext ==
  \/ \E c \in Caller : BeginAny(c) \/ Read(c) \/ Write(c) \/ LoseWrite(c) \/ Follow(c) \/ Crash(c)
  \/ \E p \in Proposal :
       \/ \E expiresAt \in Lifetimes, now \in Clocks : SqlCreate(p, expiresAt, now)
       \/ SqlRecord(p)
  \/ \E f \in BagToSet(fences), now \in Clocks : SqlAdmit(f, now)
  \/ ThreadStep /\ UNCHANGED svars
  \/ SqlTick

SSpec == SInit /\ [][SNext]_allvars

-----------------------------------------------------------------------------
(* Properties, with those of ProposalStore that hold of this store too.    *)

\* Of several workers that claim one row at once, one gets the fence: no two
\* claims are ever handed the same generation.
UniqueFence ==
  \A f, g \in BagToSet(fences) :
    /\ f.proposal = g.proposal /\ f.kind = g.kind
    /\ f.token.generation = g.token.generation
    => f = g /\ fences[f] = 1

\* A settlement is of the latest claim: one computed under an older lease loses
\* the compare-and-set to the claim that replaced it.
SettledByLatestClaim ==
  [][\A p \in Proposal :
       rows[p].execution.status \notin Settled /\ rows'[p].execution.status \in Settled =>
         /\ rows[p].execution.status = "executing"
         /\ rows'[p].execution.generation = rows[p].execution.generation]_allvars

Lagging(p) == Finished(rows[p]) /\ toolCall[p] = "proposed" /\ p \notin late
BeingSettled(p) == \E c \in Caller : calls[c].pc = "follow" /\ calls[c].proposal = p

\* A call recorded before its proposal ended is settled by the end of the
\* operation that ended it, as long as no process ends in the middle of one.
RecordFollows == crashes = 0 => \A p \in Proposal : Lagging(p) => BeingSettled(p)
=============================================================================
