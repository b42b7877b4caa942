-------------------------- MODULE MCRecursiveORAM --------------------------
(***************************************************************************)
(* RecursiveORAM on small instances.                                       *)
(***************************************************************************)
EXTENDS RecursiveORAM, TLC

CONSTANT Values     \* what a payload of full size can hold

FullData == {[value |-> v, size |-> BlockSize] : v \in Values}

ValueSymmetry == Permutations(Values)
=============================================================================
