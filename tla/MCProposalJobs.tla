--------------------------- MODULE MCProposalJobs ---------------------------
(* Two scenes, one of which a behaviour is in.  "hosts": two workers, whose *)
(* clocks are a lease apart, and one proposal; to the fast one every lease *)
(* of the slow one has run out when it is taken.  "jobs": the fast one is  *)
(* down, and the other runs two executions at once, of two proposals of    *)
(* one replacement group, with a second fault once a tick was abandoned.   *)
EXTENDS ProposalWorker, TLC

CONSTANTS p1, p2, k, slow, fast

MCKey == p1 :> k @@ p2 :> k
MCLifetimes == {Never, 1}
MCClock == slow :> 0 @@ fast :> LeaseMs

\* Every constant is the same for both proposals.
Symmetry == Permutations({p1, p2})

VARIABLE scene

\* What a second fault is for: an execution that its tick has left behind throws.
LeftBehindThrows == \E j \in jobs[slow] : j.tick # "open" /\ SettleThrows(slow, j)

Hosts == Cardinality({p \in Proposal : Exists(rows'[p])}) <= 1 /\ faults' <= 1
Jobs  == pc'[fast] = "idle" /\ (faults = 1 /\ faults' = 2 => LeftBehindThrows)

JInit == WInit /\ scene \in {"hosts", "jobs"}
JNext == /\ WNext
         /\ (scene = "hosts" /\ Hosts) \/ (scene = "jobs" /\ Jobs)
         /\ UNCHANGED scene
JSpec == JInit /\ [][JNext]_<<allvars, scene>>
=============================================================================
