------------------------------ MODULE BulkLoad ------------------------------
(***************************************************************************)
(* load of path-oram/src/oram.cpp on an ORAM that holds nothing yet, and   *)
(* the ordinary calls on what it leaves.                                   *)
(*                                                                         *)
(* load writes to the storage past the stash and the cache: buckets that a *)
(* failed call left in the cache hide what is loaded.  It shuffles         *)
(* the data first: requests is the shuffled data, and as the client may    *)
(* give it in any order nothing is lost by not modelling the shuffle.  The *)
(* floating-point step of the code was found exact for trees of up to 13   *)
(* levels, and is modelled with integers.                                  *)
(***************************************************************************)
EXTENDS PathORAMContract

CONSTANTS
  LoadSize,        \* the most blocks one call of load may carry
  UndefinedLeaf    \* what a shift by a negative amount can make of a position

\* The last of these: load computes 1 << height as a signed int.
ASSUME LoadAssumption ==
  /\ LoadSize \in Nat
  /\ UndefinedLeaf \subseteq Nat
  /\ Height + 1 < IntBits

MaxLocation == 2 ^ Height

Empty == stash = {} /\ InTree = {}

BeginLoad(data) ==
  /\ Idle
  /\ Empty
  /\ Begin(data, "load")

BucketCount == (Len(requests) + Z - 1) \div Z

\* Z blocks to a bucket, the buckets spread evenly from 1 to MaxLocation.
LocationOf(i) == 1 + (((i - 1) \div Z) * MaxLocation) \div BucketCount

LoadLocations == {LocationOf(i) : i \in DOMAIN requests}

\* The leaves load chooses from for a block; beyond the tree, toLeaves is -1.
LeafChoices(i) ==
  LET range == LeavesForLocation(LocationOf(i))
  IN  IF LocationOf(i) < MaxLocation THEN range[1] .. range[2] ELSE UndefinedLeaf

\* The first n blocks are mapped.
MapFirst(n) ==
  \E chosen \in [1 .. n -> Leaves \cup UndefinedLeaf] :
    /\ \A i \in 1 .. n : chosen[i] \in LeafChoices(i)
    /\ position' = [id \in MappedIds |->
                      IF \E i \in 1 .. n : requests[i].id = id
                      THEN chosen[CHOOSE i \in 1 .. n : requests[i].id = id]
                      ELSE position[id]]

\* Mutant: the data is written one bucket too low.
LoadedFromZero(l) ==
  {PadBlock([id |-> requests[i].id, data |-> requests[i].data]) :
     i \in {j \in DOMAIN requests : LocationOf(j) = l + 1}}

Loaded(l) ==
  {PadBlock([id |-> requests[i].id, data |-> requests[i].data]) :
     i \in {j \in DOMAIN requests : LocationOf(j) = l}}

WriteLoaded(locations) ==
  storage' = [l \in Locations |-> IF l \in locations THEN Loaded(l) ELSE storage[l]]

\* The buckets of the cache hide what is loaded below them, and replace it later.
Hide(locations) ==
  stranded' = stranded \cup {requests[i].id : i \in {j \in DOMAIN requests :
                               LocationOf(j) \in locations \cap DOMAIN cache}}

TooMuch    == BucketCount > MaxLocation
AllMapped  == RequestedIds \subseteq MappedIds
Acceptable ==
  /\ LoadLocations \subseteq Locations
  /\ \A i \in DOMAIN requests : ~ Oversized(requests[i].data)

Load ==
  /\ pc = "load"
  /\ ~ TooMuch /\ AllMapped /\ Acceptable
  /\ MapFirst(Len(requests))
  /\ WriteLoaded(LoadLocations)
  /\ Hide(LoadLocations)
  /\ End("returned")
  /\ UNCHANGED <<stash, cache>>

LoadTooMuch ==
  /\ pc = "load"
  /\ TooMuch
  /\ End("threw")
  /\ UNCHANGED <<storage, position, stash, cache, stranded>>

\* The position map refuses an id; the blocks before it are mapped already.
LoadUnmapped ==
  /\ pc = "load"
  /\ ~ TooMuch
  /\ \E n \in DOMAIN requests :
       /\ requests[n].id \notin MappedIds
       /\ \A i \in 1 .. n - 1 : requests[i].id \in MappedIds
       /\ MapFirst(n - 1)
  /\ End("threw")
  /\ UNCHANGED <<storage, stash, cache, stranded>>

\* The storage refuses the whole request.
LoadRejected ==
  /\ pc = "load"
  /\ ~ TooMuch /\ AllMapped /\ ~ Acceptable
  /\ MapFirst(Len(requests))
  /\ End("threw")
  /\ UNCHANGED <<storage, stash, cache, stranded>>

LoadFails ==
  /\ pc = "load"
  /\ StorageMayFail
  /\ ~ TooMuch /\ AllMapped /\ Acceptable
  /\ MapFirst(Len(requests))
  /\ \E written \in SUBSET LoadLocations : WriteLoaded(written) /\ Hide(written)
  /\ End("threw")
  /\ UNCHANGED <<stash, cache>>

-----------------------------------------------------------------------------
\* load is given each id once.
LoadData ==
  LET Write(id, data) == [id |-> id, read |-> FALSE, data |-> data]
      Writes == {Write(id, data) : id \in ClientIds, data \in Data}
  IN  UNION {{batch \in [1 .. n -> Writes] :
                \A i, j \in 1 .. n : batch[i].id = batch[j].id => i = j} : n \in 0 .. LoadSize}

EndOfLoad == Load \/ LoadTooMuch \/ LoadUnmapped \/ LoadRejected \/ LoadFails

LoadNext == EndOfLoad \/ \E data \in LoadData : BeginLoad(data)

LoadSpec == Init /\ [][Next \/ LoadNext]_vars

\* The client runs straight through a call once the call has begun.
FairLoadSpec == LoadSpec /\ WF_vars(Progress \/ EndOfLoad)

-----------------------------------------------------------------------------
(***************************************************************************)
(* Properties.                                                             *)
(***************************************************************************)

LoadedContract == INSTANCE LoadedBlockStore WITH
  BlockIds <- MappedIds, Requests <- Request, Payloads <- Payload,
  Empty <- Nothing, Pad <- Padded,
  contents <- Contents, answers <- response,
  state <- IF Idle THEN pc ELSE IF pc = "load" THEN "loading" ELSE "running",
  kept <- cache # NoCache

\* What was loaded is read back like what was put, and a load that throws
\* leaves each block loaded or not there; only after a call that threw can a
\* block be hidden by the cache (oram.cpp:98-155).
ImplementsLoadedBlockStore == LoadedContract!LoadSpec
=============================================================================
