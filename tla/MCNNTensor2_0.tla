--------------------------- MODULE MCNNTensor2_0 ---------------------------
(* Handles, descriptors and addresses are alike. There are fewer            *)
(* descriptors than tensors, so that they are used again.                   *)
EXTENDS NNTensor2_0, TLC

Symmetric == Permutations(Tensors) \union Permutations(Fds) \union Permutations(Addresses)
=============================================================================
