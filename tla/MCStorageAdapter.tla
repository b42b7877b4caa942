-------------------------- MODULE MCStorageAdapter --------------------------
(***************************************************************************)
(* StorageAdapter on small instances.                                      *)
(***************************************************************************)
EXTENDS StorageAdapter

\* Adapters that do not hide errors, in parts and not: among them one a user
\* derives from AbsStorageAdapter that throws, and an Aerospike whose sets do.
Sound == {InMemory(1), Redis(2), Backend(2, FALSE, FALSE, FALSE, "throws", "throws"),
          [Aerospike(0) EXCEPT !.failedWrite = "throws"]}

Silent == {FileSystem(0), Aerospike(0)}

\* "writes the data in batch" (storage-adapter.hpp:120): a set that returns
\* has written its last bucket.
SetWrites ==
  [][pc = "set" /\ pc' = "returned" /\ locations # <<>> =>
       blocks[locations[Len(locations)]] = writes[Len(writes)]]_vars
=============================================================================
