---------------------------- MODULE MCChatQueue ----------------------------
(* Two messages sent to one thread, in every mode, and at any moment one   *)
(* other request of any kind, a refused start or quota, or a restart.      *)
EXTENDS ChatQueue, TLC

\* Every constant is the same for both messages.
Symmetry == Permutations(Message)
=============================================================================
