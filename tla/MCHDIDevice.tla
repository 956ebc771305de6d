---------------------------- MODULE MCHDIDevice ----------------------------
(* Two threads, two or three descriptors and addresses, and the graphs that *)
(* the device treats differently: constants of several sizes with an empty  *)
(* tensor and one that is too long among them, no constant at all, no node, *)
(* and a single CUSTOM node with and without an offline model.              *)
EXTENDS HDIDevice, TLC

MCGraphs ==
  {[nodes |-> 2, custom |-> FALSE, inputs |-> <<1, 2>>, tensors |-> <<2, 0, 9, 1, 3>>],
   [nodes |-> 1, custom |-> FALSE, inputs |-> <<1>>, tensors |-> <<0>>],
   [nodes |-> 0, custom |-> FALSE, inputs |-> <<>>, tensors |-> <<>>],
   [nodes |-> 1, custom |-> TRUE, inputs |-> <<1, 2>>, tensors |-> <<0, 4>>],
   [nodes |-> 1, custom |-> TRUE, inputs |-> <<1>>, tensors |-> <<4>>]}
MCLengths == {0, 4, 99}
Symmetric == Permutations(Threads) \union Permutations(Fds) \union Permutations(Addresses)
=============================================================================
