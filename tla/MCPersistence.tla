---------------------------- MODULE MCPersistence ----------------------------
(***************************************************************************)
(* Persistence on small instances.                                         *)
(***************************************************************************)
EXTENDS Persistence, TLC

CONSTANT Values     \* what a payload of full size can hold

FullData == {[value |-> v, size |-> BlockSize] : v \in Values}

\* Bound: no further once every block is lost, which no property speaks of (with
\* a stash that has room for all blocks, a lost block stays lost), and no call
\* once every block was moved since the files were stored: a restart would then
\* bring none back.
SomethingKept == unsaved = MappedIds => Idle /\ stranded # MappedIds

ValueSymmetry == Permutations(Values)
=============================================================================
