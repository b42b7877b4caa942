----------------------------- MODULE MCBulkLoad -----------------------------
(***************************************************************************)
(* BulkLoad on small instances.                                            *)
(***************************************************************************)
EXTENDS BulkLoad

Short == [value |-> "short", size |-> 1]
Long  == [value |-> "long", size |-> 3]

ShortData == {Short, EmptyPayload}
AnyData   == {Short, Long}

\* "Loads the data straight to the storage preserving ORAM invariant"
\* (oram.hpp:215): after a load that returned, every block is on its path.
LoadKeepsInvariant ==
  [][pc = "load" /\ pc' = "returned" => BlockOnItsPath']_vars
=============================================================================
