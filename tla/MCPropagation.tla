---------------------------- MODULE MCPropagation ----------------------------
(* Finite instances of Propagation; threads and keys are interchangeable.  *)
EXTENDS Propagation, TLC

ThreadKeySymmetry == Permutations(Task) \cup Permutations(Key)
=============================================================================
