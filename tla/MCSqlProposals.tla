--------------------------- MODULE MCSqlProposals ---------------------------
(* Two operations at a time on one proposal, whoever they come from.  Two  *)
(* claims of one row are two even of one worker: fences are counted.       *)
EXTENDS SqlProposals, TLC

CONSTANTS p1, c1, c2, w1

MCKey == p1 :> NoKey
MCLifetimes == {Never, 1}
Symmetry == Permutations(Caller)
=============================================================================
