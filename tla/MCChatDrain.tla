---------------------------- MODULE MCChatDrain ----------------------------
(* Two messages, and two of a removal or a Stop, a start that is refused    *)
(* and an end of the process or worker, without interrupts and resumes:     *)
(* what drains by itself, under either runner.                              *)
EXTENDS DurableRuns, TLC

VARIABLE durable  \* whether DurableAgentRunner is the deployment's runner
mcVars == <<vars, durable>>

MCInit == durable \in BOOLEAN /\ IF durable THEN DInit ELSE Init
InlineStep  == ~durable /\ Next /\ UNCHANGED durable
DurableStep == durable /\ DNext /\ UNCHANGED durable
MCNext == InlineStep \/ DurableStep

\* The fairness of Spec, or of DSpec.
Moves(t) == CASE ~durable -> ~At(t, "new") /\ Step(t)
              [] durable /\ t \in Id -> BodyStep(t)
              [] OTHER -> ~At(t, "new") /\ RequestStep(t)
MCSpec == MCInit /\ [][MCNext]_mcVars /\ \A t \in Tasks : WF_mcVars(Moves(t) /\ UNCHANGED durable)

\* What waits in an unpaused queue is started or taken back, or the queue is
\* paused, unless a start is refused, the process or a worker ends, or a Stop of
\* a durable run is racing its body.
QueueDrains ==
  \A m \in Message : Waiting(m) ~> \/ paused \/ ~Waiting(m) \/ failures > 0 \/ crashes > 0
                                   \/ durable /\ cancelled # {}
=============================================================================
