---------------------------- MODULE MCNNExecutor ----------------------------
(* NNExecutor on a small instance: the client, the event runner and one or   *)
(* two threads of the scheduling service, which are interchangeable.         *)
EXTENDS NNExecutor, TLC

Symmetry == Permutations(ServiceThreads)
=============================================================================
