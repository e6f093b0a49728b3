-------------------------- MODULE MCProposalWorker --------------------------
(* Two workers and one proposal, with one fault of any kind, on clocks that agree. *)
EXTENDS ProposalWorker, TLC

CONSTANTS p1, w1, w2

MCKey == p1 :> NoKey
MCLifetimes == {Never, 1}
MCClock == w1 :> 0 @@ w2 :> 0
=============================================================================
