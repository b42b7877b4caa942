------------------------------ MODULE OramTree ------------------------------
(***************************************************************************)
(* The geometry of the ORAM tree (path-oram/src/oram.cpp).  Buckets are    *)
(* numbered like a binary heap: the root is bucket 1, the children of      *)
(* bucket b are 2b and 2b+1, and the leaves are the last LeafCount         *)
(* buckets.  A leaf is named 0 .. LeafCount-1.  Bucket 0 exists in the     *)
(* storage and is never on a path.                                         *)
(***************************************************************************)
EXTENDS Integers

CONSTANTS
  Height,      \* logCapacity, the number of levels of the tree
  IntBits,     \* the width of int
  WordBits     \* the width of number, the type of positions and locations

\* 1 << (height - 1) is computed in int: a tree of height 0 makes the code
\* shift by a negative amount, a tree higher than this leaves the int.
ASSUME HeightAssumption == Height \in Nat \ {0} /\ Height < IntBits

ASSUME WidthAssumption == IntBits \in Nat /\ WordBits \in Nat /\ IntBits <= WordBits

Levels == 0 .. Height - 1

LeafCount == 2 ^ (Height - 1)
Leaves    == 0 .. LeafCount - 1

(***************************************************************************)
(* The bucket at a level of the path to a leaf.  The position of a block   *)
(* is an unchecked number: the sum may wrap around, and the result may lie *)
(* outside the tree.                                                       *)
(***************************************************************************)
BucketForLevelLeaf(level, leaf) ==
  ((leaf + LeafCount) % 2 ^ WordBits) \div 2 ^ (Height - 1 - level)

\* Mutant: the paths are compared one level too high.
CanIncludeParent(pathLeaf, blockPosition, level) ==
  level = 0 \/ BucketForLevelLeaf(level - 1, pathLeaf) = BucketForLevelLeaf(level - 1, blockPosition)

\* Do the paths to these two leaves share their bucket on this level?
CanInclude(pathLeaf, blockPosition, level) ==
  BucketForLevelLeaf(level, pathLeaf) = BucketForLevelLeaf(level, blockPosition)

\* The buckets readPath visits, root to leaf.
Path(leaf) == {BucketForLevelLeaf(level, leaf) : level \in Levels}

(***************************************************************************)
(* The inclusive range of leaves below a bucket, computed as the code      *)
(* computes it (floor(log2) is the level whose interval holds location).   *)
(***************************************************************************)
LevelOf(location) ==
  CHOOSE level \in 0 .. Height : 2 ^ level <= location /\ location < 2 ^ (level + 1)

\* Mutant: the end of the range is exclusive.
LeavesUpToNext(location) ==
  LET toLeaves == Height - LevelOf(location) - 1
  IN  <<location * 2 ^ toLeaves - LeafCount, (location + 1) * 2 ^ toLeaves - LeafCount>>

LeavesForLocation(location) ==
  LET toLeaves == Height - LevelOf(location) - 1
  IN  <<location * 2 ^ toLeaves - LeafCount,
        (location + 1) * 2 ^ toLeaves - 1 - LeafCount>>
=============================================================================
