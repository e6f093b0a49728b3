------------------------- MODULE ProposalLifecycle --------------------------
(***************************************************************************)
(* What independent approvals promise, with no store, lease, clock or      *)
(* worker in it: an action runs only after its approval, ends once, and    *)
(* its end is told to the conversation once, at a moment no turn has it.   *)
(* A new proposal of a replacement group ends the pending ones of it.      *)
(***************************************************************************)
EXTENDS Sequences, Naturals

CONSTANTS Proposal, NoKey, Key

VARIABLES state,   \* where each proposal is in its life
          told,    \* where its outcome is on its way to the conversation
          thread,  \* "free", "held" by a turn, or "deleted"
          posted   \* the outcome messages of the conversation, in order
lvars == <<state, told, thread, posted>>

Refused  == {"rejected", "expired", "superseded"}
Ended    == {"succeeded", "failed"}
States   == {"none", "pending", "approved", "executing"} \cup Refused \cup Ended

LInit ==
  /\ state = [p \in Proposal |-> "none"]
  /\ told = [p \in Proposal |-> "none"]
  /\ thread = "free"
  /\ posted = <<>>

\* The pending proposals of `over` end, each in its own refusal, and have that
\* to tell; the others are as in `next`.
Refusing(over, next) ==
  \E end \in [over -> Refused] :
    /\ state' = [p \in Proposal |-> IF p \in over THEN end[p] ELSE next[p]]
    /\ told' = [p \in Proposal |-> IF p \in over THEN "pending" ELSE told[p]]
    /\ UNCHANGED <<thread, posted>>

Pending  == {p \in Proposal : state[p] = "pending"}
Group(p) == {q \in Proposal \ {p} : Key[p] # NoKey /\ Key[q] = Key[p]}

\* A proposal is made, and every pending one of its group ends.
Propose(p) == /\ state[p] = "none"
              /\ Refusing(Group(p) \cap Pending, [state EXCEPT ![p] = "pending"])

\* Pending proposals are refused, lapse or are superseded.
Refuse == \E over \in SUBSET Pending : Refusing(over, state)

Move(p, from, to) == state[p] = from /\ state' = [state EXCEPT ![p] = to]

Approve(p) == Move(p, "pending", "approved") /\ UNCHANGED <<told, thread, posted>>
Start(p)   == Move(p, "approved", "executing") /\ UNCHANGED <<told, thread, posted>>
Finish(p)  == /\ \E end \in Ended : Move(p, "executing", end)
              /\ told' = [told EXCEPT ![p] = "pending"]
              /\ UNCHANGED <<thread, posted>>

Tell(p) ==
  /\ told[p] = "pending"
  /\ \/ /\ thread = "free"
        /\ told' = [told EXCEPT ![p] = "admitted"]
        /\ posted' = Append(posted, p)
     \/ /\ thread = "deleted"
        /\ told' = [told EXCEPT ![p] = "discarded"]
        /\ UNCHANGED posted
  /\ UNCHANGED <<state, thread>>

Thread == /\ thread' \in {"free", "held", "deleted"}
          /\ thread # "deleted"
          /\ UNCHANGED <<state, told, posted>>

LNext ==
  \/ \E p \in Proposal : Propose(p) \/ Approve(p) \/ Start(p) \/ Finish(p) \/ Tell(p)
  \/ Refuse
  \/ Thread

LSpec == LInit /\ [][LNext]_lvars
=============================================================================
