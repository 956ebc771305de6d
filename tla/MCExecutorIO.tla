---------------------------- MODULE MCExecutorIO ----------------------------
(* Two inputs and two outputs, or as many as the configuration says, and    *)
(* fewer addresses than they could use at once, so that addresses are used  *)
(* again.                                                                   *)
EXTENDS ExecutorIO, TLC

Symmetric == Permutations(Addresses)
=============================================================================
