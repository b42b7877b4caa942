------------------------------ MODULE PathORAM ------------------------------
(***************************************************************************)
(* The ORAM client of path-oram/src/oram.cpp with an in-memory stash and   *)
(* position map: get, put and multiple, each broken into the steps between *)
(* which the code can throw.  The bucket storage is seen through its       *)
(* batched get and set.                                                    *)
(*                                                                         *)
(* A bucket is the set of its real blocks; the dummies that fill it up to  *)
(* Z are left out, and with them the order of the blocks in a bucket.  The *)
(* iteration order of unordered_set and unordered_map and the shuffle of   *)
(* the stash are nondeterministic.                                         *)
(***************************************************************************)
EXTENDS OramTree, FiniteSets, Sequences

CONSTANTS
  Z,                \* blocks in a bucket
  ClientIds,        \* the block ids the client asks for
  Data,             \* the payloads the client puts
  NoValue,          \* the content of an empty payload
  BlockSize,        \* userBlockSize, the stored size of a payload
  BatchSize,        \* the most requests one call of multiple may carry
  MapCapacity,      \* capacity of the position map
  StashCapacity,    \* capacity of the stash
  StorageCapacity,  \* capacity of the storage, in buckets
  Uninitialised,    \* what memory the constructor leaves unset may hold
  StorageMayFail    \* can a storage request throw (a remote server can)?

Blocks == 2 ^ Height * Z    \* the ids whose position the constructor sets

EmptyPayload == [value |-> NoValue, size |-> 0]

ASSUME SizesAssumption ==
  /\ Z \in Nat \ {0}
  /\ ClientIds \subseteq Nat
  /\ BlockSize \in Nat \ {0}
  /\ {BatchSize, MapCapacity, StashCapacity, StorageCapacity} \subseteq Nat
  /\ Uninitialised \subseteq Nat
  /\ StorageMayFail \in BOOLEAN

ASSUME DataAssumption ==
  \A d \in Data : d = [value |-> d.value, size |-> d.size] /\ d.size \in Nat

\* The constructor sets the position of every id below Blocks, and throws if the
\* map is too small for them.
ASSUME ConstructorAssumption == Blocks <= MapCapacity

(***************************************************************************)
(* Payloads and blocks.  The storage appends zeroes to a payload shorter   *)
(* than BlockSize, so the answer to a get may be longer than what was put. *)
(***************************************************************************)
Padded(p) ==
  IF p.size < BlockSize THEN [value |-> p.value, size |-> BlockSize] ELSE p

Payload == LET given == Data \cup {EmptyPayload}
           IN  given \cup {Padded(p) : p \in given}

Oversized(p) == p.size > BlockSize

MappedIds == {id \in ClientIds : id < MapCapacity}
Locations == 0 .. StorageCapacity - 1
Block     == [id : MappedIds, data : Payload]
Request   == [id : ClientIds, read : BOOLEAN, data : Payload]

Ids(blocks) == {block.id : block \in blocks}

UniqueIds(blocks) ==
  \A a, b \in blocks : a.id = b.id => a = b

PadBlock(block) == [id |-> block.id, data |-> Padded(block.data)]

(***************************************************************************)
(* writePath remembers the ids to delete from the stash in a vector<int>:  *)
(* an id is narrowed to int and widened again.  A negative int becomes a   *)
(* number no position map is large enough to hold; it stays negative here. *)
(***************************************************************************)
RemovedId(id) ==
  LET low == id % 2 ^ IntBits
  IN  IF low < 2 ^ (IntBits - 1) THEN low ELSE low - 2 ^ IntBits

IdsFitInt == \A id \in MappedIds : RemovedId(id) = id

VARIABLES
  storage,      \* what the storage holds at each location
  position,     \* the position map
  stash,        \* the blocks in the stash
  cache,        \* the buckets downloaded or written since the last sync
  pc,           \* where the client is
  requests,     \* the requests of the running call
  next,         \* index of the request being served
  leaf,         \* previousPosition, the leaf whose path is accessed
  response,     \* the answers so far
  stranded      \* (history) blocks an exception left off their path in the tree

vars == <<storage, position, stash, cache, pc, requests, next, leaf, response,
          stranded>>

\* What the client takes the tree to hold: the cache over the storage.
Tree == [l \in Locations |-> IF l \in DOMAIN cache THEN cache[l] ELSE storage[l]]

InTree == UNION {Tree[l] : l \in Locations}

NoCache == [l \in {} |-> {}]

Idle     == pc \in {"returned", "threw"}
Current  == requests[next].id
PathSet(ids) == UNION {Path(position[id]) : id \in ids}

\* Types, and how far the client is in the requests of the call.
TypeOK ==
  /\ storage \in [Locations -> SUBSET Block]
  /\ position \in [MappedIds -> Nat]
  /\ stash \subseteq Block /\ UniqueIds(stash)
  /\ DOMAIN cache \subseteq Locations
  /\ cache \in [DOMAIN cache -> SUBSET Block]
  /\ pc \in {"returned", "threw", "prefetch", "remap", "read", "update", "write", "sync"}
  /\ requests \in Seq(Request) /\ response \in Seq(Payload)
  /\ Idle => requests = <<>>
  /\ next \in 1 .. Len(requests) + 1
  /\ pc \in {"prefetch", "returned", "threw"} => next = 1
  /\ pc \in {"remap", "read", "update", "write"} => next <= Len(requests)
  /\ pc = "sync" => next = Len(requests) + 1
  /\ Len(response) = IF pc = "write" THEN next ELSE next - 1
  /\ pc \in {"read", "update", "write"} => Current \in MappedIds
  /\ leaf \in Nat
  /\ pc \in {"update", "write"} => Path(leaf) \subseteq DOMAIN cache
  /\ stranded \subseteq MappedIds

(***************************************************************************)
(* The constructor with initialize = true: dummies everywhere, a random    *)
(* leaf for each id below Blocks.  The position map may be larger.         *)
(***************************************************************************)
Init ==
  /\ storage = [l \in Locations |-> {}]
  /\ position \in {map \in [MappedIds -> Leaves \cup Uninitialised] :
                     \A id \in MappedIds : map[id] \in IF id < Blocks THEN Leaves
                                                       ELSE Uninitialised}
  /\ stash = {}
  /\ cache = NoCache
  /\ pc = "returned"
  /\ requests = <<>>
  /\ next = 1
  /\ leaf = 0
  /\ response = <<>>
  /\ stranded = {}

-----------------------------------------------------------------------------
(***************************************************************************)
(* Calls.                                                                  *)
(***************************************************************************)
Begin(batch, first) ==
  /\ requests' = batch
  /\ pc' = first
  /\ UNCHANGED <<storage, position, stash, cache, next, leaf, response, stranded>>

\* The locals of the call go; the storage, map, stash and cache stay as they are.
End(outcome) ==
  /\ pc' = outcome
  /\ requests' = <<>>
  /\ next' = 1
  /\ leaf' = 0
  /\ response' = <<>>

Get(id) ==
  /\ Idle
  /\ Begin(<<[id |-> id, read |-> TRUE, data |-> EmptyPayload]>>, "remap")

Put(id, data) ==
  /\ Idle
  /\ Begin(<<[id |-> id, read |-> FALSE, data |-> data]>>, "remap")

\* An empty payload makes a request of a batch a get.
MultipleRequest(id, data) == [id |-> id, read |-> data.size = 0, data |-> data]

Multiple(batch) ==
  /\ Idle
  /\ Len(batch) <= BatchSize
  /\ Begin(batch, "prefetch")

\* More than BatchSize requests: refused before anything happens.
MultipleTooMany ==
  /\ Idle
  /\ pc' = "threw"
  /\ UNCHANGED <<storage, position, stash, cache, requests, next, leaf, response,
                 stranded>>

-----------------------------------------------------------------------------
(***************************************************************************)
(* Storage reads go through the cache: a bucket not cached is downloaded,  *)
(* all such buckets in one request.                                        *)
(***************************************************************************)
Missing(locations) == locations \ DOMAIN cache

\* Mutant: a bucket changed earlier in the batch is downloaded over.
DownloadOverCache(locations) ==
  cache' = [l \in DOMAIN cache \cup locations |->
              IF l \in locations THEN storage[l] ELSE cache[l]]

Download(locations) ==
  cache' = [l \in DOMAIN cache \cup locations |->
              IF l \in DOMAIN cache THEN cache[l] ELSE storage[l]]

\* Reasons for the download to throw: a location out of range, or the server.
DownloadThrows(locations) ==
  \/ ~ (Missing(locations) \subseteq Locations)
  \/ StorageMayFail /\ Missing(locations) # {}

\* Mutant: only the first request of the batch is looked at.
FirstRequestedId == {requests[i].id : i \in DOMAIN requests \cap {1}}

RequestedIds == {requests[i].id : i \in DOMAIN requests}

\* multiple downloads every path its requests are mapped to.
Prefetch ==
  /\ pc = "prefetch"
  /\ RequestedIds \subseteq MappedIds
  /\ PathSet(RequestedIds) \subseteq Locations
  /\ Download(PathSet(RequestedIds))
  /\ pc' = IF requests = <<>> THEN "sync" ELSE "remap"
  /\ UNCHANGED <<storage, position, stash, requests, next, leaf, response, stranded>>

PrefetchThrows ==
  /\ pc = "prefetch"
  /\ RequestedIds \subseteq MappedIds => DownloadThrows(PathSet(RequestedIds))
  /\ End("threw")
  /\ UNCHANGED <<storage, position, stash, cache, stranded>>

-----------------------------------------------------------------------------
(***************************************************************************)
(* One access.  Step 1 of the paper: remap the block.                      *)
(***************************************************************************)
Remap ==
  /\ pc = "remap"
  /\ Current \in MappedIds
  /\ leaf' = position[Current]
  /\ \E fresh \in Leaves : position' = [position EXCEPT ![Current] = fresh]
  /\ pc' = "read"
  /\ UNCHANGED <<storage, stash, cache, requests, next, response, stranded>>

\* The position map refuses an id beyond its capacity.
RemapThrows ==
  /\ pc = "remap"
  /\ Current \notin MappedIds
  /\ End("threw")
  /\ UNCHANGED <<storage, position, stash, cache, stranded>>

\* The block was remapped; is its copy in the tree off the path it has now?
Strand(id) ==
  LET offPath == UNION {Tree[l] : l \in Locations \ Path(position[id])}
  IN  stranded' = stranded \cup ({id} \cap Ids(offPath))

(***************************************************************************)
(* Step 2: read the path into the stash.  add does not override, so a      *)
(* block already in the stash stays, and of several copies of a block on   *)
(* the path the first in iteration order is taken.                         *)
(***************************************************************************)
\* Mutant: the leaf bucket is not read.
OnPathAboveLeaf ==
  UNION {Tree[BucketForLevelLeaf(level, leaf)] : level \in Levels \ {Height - 1}}

OnPath == UNION {Tree[l] : l \in Path(leaf)}

NewToStash == {block \in OnPath : block.id \notin Ids(stash)}

ReadPath ==
  /\ pc = "read"
  /\ Path(leaf) \subseteq Locations
  /\ Download(Path(leaf))
  /\ \E added \in SUBSET NewToStash :
       /\ UniqueIds(added)
       /\ Ids(added) = Ids(NewToStash)
       /\ Cardinality(stash \cup added) <= StashCapacity
       /\ stash' = stash \cup added
  /\ pc' = "update"
  /\ UNCHANGED <<storage, position, requests, next, leaf, response, stranded>>

\* The stash fills up before every new block of the path is in it.
ReadPathOverflows ==
  /\ pc = "read"
  /\ Path(leaf) \subseteq Locations
  /\ Download(Path(leaf))
  /\ \E added \in SUBSET NewToStash :
       /\ UniqueIds(added)
       /\ Ids(added) # Ids(NewToStash)
       /\ Cardinality(stash \cup added) = StashCapacity
       /\ stash' = stash \cup added
  /\ Strand(Current)
  /\ End("threw")
  /\ UNCHANGED <<storage, position>>

ReadPathThrows ==
  /\ pc = "read"
  /\ DownloadThrows(Path(leaf))
  /\ Strand(Current)
  /\ End("threw")
  /\ UNCHANGED <<storage, position, stash, cache>>

(***************************************************************************)
(* Step 3: update the block, then answer with what the stash holds for it. *)
(***************************************************************************)
StashGet(blocks, id) ==
  IF id \in Ids(blocks)
  THEN (CHOOSE block \in blocks : block.id = id).data
  ELSE EmptyPayload

Without(blocks, id) == {block \in blocks : block.id # id}

\* Mutant: the payload of a block that is in the stash is not replaced.
StashInsert(id, data) ==
  IF id \in Ids(stash) THEN stash ELSE stash \cup {[id |-> id, data |-> data]}

StashPut(id, data) == Without(stash, id) \cup {[id |-> id, data |-> data]}

StashFull(id) == Cardinality(stash) = StashCapacity /\ id \notin Ids(stash)

Update ==
  /\ pc = "update"
  /\ IF requests[next].read
     THEN stash' = stash
     ELSE ~ StashFull(Current) /\ stash' = StashPut(Current, requests[next].data)
  /\ response' = Append(response, StashGet(stash', Current))
  /\ pc' = "write"
  /\ UNCHANGED <<storage, position, cache, requests, next, leaf, stranded>>

\* Mutant: the client waits for room in the stash that only it can make.
UpdateWaits ==
  /\ pc = "update"
  /\ ~ requests[next].read
  /\ StashFull(Current)
  /\ UNCHANGED vars

UpdateOverflows ==
  /\ pc = "update"
  /\ ~ requests[next].read
  /\ StashFull(Current)
  /\ End("threw")
  /\ UNCHANGED <<storage, position, stash, cache, stranded>>

(***************************************************************************)
(* Step 4: write the path.  From the leaf bucket up, each bucket takes up  *)
(* to Z of the blocks that fit it and were not put in a deeper bucket;     *)
(* level[block] is where a block goes, Stays if it remains in the stash.   *)
(***************************************************************************)
Stays == -1

PlacedAt(level, k) == {block \in stash : level[block] = k}

\* Mutant: the loop stops above the root.
FittingBelowRoot(level, k) ==
  {block \in stash :
     k > 0 /\ level[block] <= k /\ CanInclude(position[block.id], leaf, k)}

Fitting(level, k) ==
  {block \in stash : level[block] <= k /\ CanInclude(position[block.id], leaf, k)}

Greedy(level) ==
  \A k \in Levels :
    /\ PlacedAt(level, k) \subseteq Fitting(level, k)
    /\ LET placed == Cardinality(PlacedAt(level, k))
           fit    == Cardinality(Fitting(level, k))
       IN  placed = IF fit < Z THEN fit ELSE Z

\* The buckets are cached from the leaf up: outside the tree, where a path can
\* visit a bucket on several levels, the last one replaces the others.
LastLevel(l) ==
  {k \in Levels : /\ BucketForLevelLeaf(k, leaf) = l
                  /\ \A j \in 0 .. k - 1 : BucketForLevelLeaf(j, leaf) # l}

NewBucket(level, l) == {block \in stash : level[block] \in LastLevel(l)}

\* Mutant: a bucket that gets no block is left as it was.
SetCacheSkipsEmpty(level) ==
  cache' = [l \in DOMAIN cache \cup Path(leaf) |->
              IF NewBucket(level, l) = {} THEN Tree[l] ELSE NewBucket(level, l)]

\* Buckets are written into the cache only.
SetCache(level) ==
  cache' = [l \in DOMAIN cache \cup Path(leaf) |->
              IF l \in Path(leaf) THEN NewBucket(level, l) ELSE cache[l]]

\* Mutant: the loop over the requests runs once too often.
AdvanceTooFar ==
  /\ next' = next + 1
  /\ pc' = IF next = Len(requests) + 1 THEN "sync" ELSE "remap"

\* On to the next request, or to the upload after the last one.
Advance ==
  /\ next' = next + 1
  /\ pc' = IF next = Len(requests) THEN "sync" ELSE "remap"

WritePath ==
  /\ pc = "write"
  /\ \E level \in [stash -> Levels \cup {Stays}] :
       /\ Greedy(level)
       /\ SetCache(level)
       /\ LET removed == {RemovedId(block.id) :
                            block \in {b \in stash : level[b] # Stays}}
          IN  stash' = {block \in stash : block.id \notin removed}
  /\ Advance
  /\ UNCHANGED <<storage, position, requests, leaf, response, stranded>>

-----------------------------------------------------------------------------
(***************************************************************************)
(* Upload the cache.  The whole request is checked and encrypted before    *)
(* any of it is written, padding the cached blocks in place as it goes.    *)
(***************************************************************************)
PadAll(bucket) == {PadBlock(block) : block \in bucket}

Fits(bucket) == \A block \in bucket : ~ Oversized(block.data)

Accepted == \A l \in DOMAIN cache : Fits(cache[l])

Sync ==
  /\ pc = "sync"
  /\ Accepted
  /\ storage' = [l \in Locations |->
                   IF l \in DOMAIN cache THEN PadAll(cache[l]) ELSE storage[l]]
  /\ cache' = NoCache
  /\ End("returned")
  /\ UNCHANGED <<position, stash, stranded>>

(***************************************************************************)
(* A payload larger than a block stops the loop in the bucket at, after    *)
(* the buckets done and some blocks of at were padded.  Nothing is         *)
(* written, the cache is kept.                                             *)
(***************************************************************************)
SyncRejects ==
  /\ pc = "sync"
  /\ \E done \in SUBSET {l \in DOMAIN cache : Fits(cache[l])},
        at \in {l \in DOMAIN cache : ~ Fits(cache[l])} :
       \E some \in SUBSET cache[at] :
         cache' = [l \in DOMAIN cache |->
                     CASE l \in done -> PadAll(cache[l])
                       [] l = at     -> PadAll(some) \cup (cache[l] \ some)
                       [] OTHER      -> cache[l]]
  /\ End("threw")
  /\ UNCHANGED <<storage, position, stash, stranded>>

\* Mutant: the cache is emptied although not all of it was written.
DroppedCache == NoCache

PaddedCache == [l \in DOMAIN cache |-> PadAll(cache[l])]

\* The server fails; any of the buckets may have reached it.  The cache is kept.
SyncFails ==
  /\ pc = "sync"
  /\ StorageMayFail
  /\ Accepted
  /\ \E written \in SUBSET DOMAIN cache :
       storage' = [l \in Locations |->
                     IF l \in written THEN PadAll(cache[l]) ELSE storage[l]]
  /\ cache' = PaddedCache
  /\ End("threw")
  /\ UNCHANGED <<position, stash, stranded>>

-----------------------------------------------------------------------------
Batches == UNION {[1 .. n -> {MultipleRequest(id, data) :
                                id \in ClientIds, data \in Data \cup {EmptyPayload}}] :
                    n \in 0 .. BatchSize}

Call ==
  \/ \E id \in ClientIds : Get(id)
  \/ \E id \in ClientIds, data \in Data : Put(id, data)
  \/ \E batch \in Batches : Multiple(batch)
  \/ MultipleTooMany

Access ==
  \/ Remap \/ RemapThrows
  \/ ReadPath \/ ReadPathOverflows \/ ReadPathThrows
  \/ Update \/ UpdateOverflows
  \/ WritePath

Next ==
  \/ Call
  \/ Prefetch \/ PrefetchThrows
  \/ Access
  \/ Sync \/ SyncRejects \/ SyncFails

Spec == Init /\ [][Next]_vars

\* The steps of a call, all but the beginning, which is left to the application.
Progress == Prefetch \/ PrefetchThrows \/ Access \/ Sync \/ SyncRejects \/ SyncFails

-----------------------------------------------------------------------------
(***************************************************************************)
(* Properties.                                                             *)
(***************************************************************************)
InAccess == pc \in {"read", "update", "write"}

\* The leaf whose path holds the tree copies of a block: access remaps the
\* block first, so until its path is rewritten the old leaf counts.
Home(id) == IF InAccess /\ id = Current THEN leaf ELSE position[id]

(***************************************************************************)
(* "At any time, each block is on the path to its leaf or in the stash":   *)
(* every copy of a block in the tree lies on the path the block is mapped  *)
(* to, unless an exception between the remapping and the end of the read   *)
(* (oram.cpp:161-165) has stranded that block.                             *)
(***************************************************************************)
BlockOnItsPath ==
  \A l \in Locations : \A block \in Tree[l] :
    block.id \notin stranded => l \in Path(Home(block.id))

(***************************************************************************)
(* Between readPath and writePath the stash holds a copy of every block of *)
(* the path, so the path can be replaced without losing one.  With         *)
(* BlockOnItsPath: a block that is not in the stash is not in the tree     *)
(* either, and an overflow in update (oram.cpp:170) strands nothing.       *)
(***************************************************************************)
PathInStash ==
  pc \in {"update", "write"} =>
    \A l \in Path(leaf) : Ids(Tree[l]) \subseteq Ids(stash)

(***************************************************************************)
(* A stash that overflowed in readPath keeps blocks that are in the tree   *)
(* too, and writePath may then place them in a second bucket.  Whatever    *)
(* the copies of a block, they hold the same payload; only the block       *)
(* update has just written is newer in the stash than on the path that     *)
(* writePath is about to replace.                                          *)
(***************************************************************************)
CopiesAgree ==
  \A a, b \in stash \cup InTree :
    \/ a.id # b.id
    \/ a.id \in stranded
    \/ pc = "write" /\ a.id = Current
    \/ Padded(a.data) = Padded(b.data)

(***************************************************************************)
(* As long as the stash never overflows, a block has one copy between      *)
(* accesses: writePath removes from the stash exactly what it put in the   *)
(* tree and leaves no old copy on the path.  A storage that fails breaks   *)
(* this only for the blocks it strands.                                    *)
(***************************************************************************)
OneCopy ==
  ~ InAccess =>
    /\ Ids(stash) \cap Ids(InTree) \subseteq stranded
    /\ \A l, m \in Locations : l # m => Ids(Tree[l]) \cap Ids(Tree[m]) \subseteq stranded

(***************************************************************************)
(* The greedy eviction of writePath leaves a block in the stash only if    *)
(* every bucket on both its path and the written one is full, so between   *)
(* accesses a block waits in the stash only while the root is full.        *)
(***************************************************************************)
StashWaitsForRoot ==
  ~ InAccess /\ stash # {} => Cardinality(Tree[1]) = Z

(***************************************************************************)
(* multiple downloads the paths of all its requests at once, so that an    *)
(* access to a block it has not served before downloads nothing            *)
(* (test-oram.cpp:263 MultipleCheckCache).  The second access to the same  *)
(* block follows a new leaf and may have to.                               *)
(***************************************************************************)
PrefetchCoversBatch ==
  /\ pc = "read"
  /\ Len(requests) > 1
  /\ \A i \in 1 .. next - 1 : requests[i].id # Current
  => Missing(Path(leaf)) = {}

\* Every call ends, by returning or by throwing (oram.cpp:54-96).
CallEnds == ~ Idle ~> Idle
=============================================================================
