--------------------------- MODULE MCProposalStore --------------------------
(* A small instance of ProposalStore for TLC: two proposals of one         *)
(* replacement group, one of which may have a deadline, and one worker     *)
(* whose two claims of a proposal have different tokens.                   *)
EXTENDS ProposalStore, TLC

CONSTANTS p1, p2, k

MCKey == p1 :> k @@ p2 :> k
MCLifetimes == {Never, 1}

\* Every constant is the same for both proposals.
Symmetry == Permutations({p1, p2})
=============================================================================
