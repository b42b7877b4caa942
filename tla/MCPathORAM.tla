----------------------------- MODULE MCPathORAM -----------------------------
(***************************************************************************)
(* PathORAM on small instances.                                            *)
(***************************************************************************)
EXTENDS PathORAMContract, TLC

CONSTANT Values     \* what a payload of full size can hold

Short == [value |-> "short", size |-> 1]
Long  == [value |-> "long", size |-> 3]

ShortData == {Short, EmptyPayload}
AnyData   == {Short, Long, EmptyPayload}
FullData  == {[value |-> v, size |-> BlockSize] : v \in Values}

ValueSymmetry == Permutations(Values)

(***************************************************************************)
(* What the documents say and the code does not do.                        *)
(***************************************************************************)

\* "user inputs are screened (exceptions are thrown if the input is invalid)"
\* (README.md:19): a call with a payload larger than a block does not return.
OversizedPutThrows ==
  [][pc = "sync" /\ pc' = "returned" =>
       \A i \in DOMAIN requests : ~ Oversized(requests[i].data)]_vars

\* "update the stash adapter, remove newly inserted blocks" (oram.cpp:270): a
\* block that writePath puts in the tree leaves the stash.
InsertedLeaveStash ==
  [][pc = "write" => Ids(stash') \cap Ids(UNION {cache'[l] : l \in Path(leaf)}) = {}]_vars
=============================================================================
