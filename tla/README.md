# Path ORAM: models, checks and proofs

This directory holds TLA+ models of the C++ library in `path-oram/` (file and
line references are to `path-oram/src/*.cpp` and `path-oram/include/*.hpp`),
the TLC runs that check them on small instances, and proofs of their main
properties for every instance.  `PROJECT.json` lists the components, the runs,
the hazards, the theorems and the source lines each definition stands for.

## 1. The system

The library keeps blocks of data in an untrusted storage so that the storage
sees only random paths.  It is single-threaded: one client object, no
callbacks into it, no background work.  What makes it hard is that every step
of a call can throw, that nothing is rolled back when it does, and that three
separate pieces of state (position map, stash, tree) must agree afterwards.

| component | state | operations | used by |
|---|---|---|---|
| ORAM protocol (`oram.cpp`) | `cache`, the buckets downloaded or written and not yet uploaded | `get`, `put`, `multiple`, `access`, `readPath`, `writePath`, `getCache`, `setCache`, `syncCache` | the application |
| tree geometry (`oram.cpp:277-293`) | none | `bucketForLevelLeaf`, `canInclude`, `leavesForLocation` | protocol, bulk load |
| bulk load (`oram.cpp:98-155`) | none of its own | `load` | the application, on a fresh ORAM |
| stash (`stash-adapter.cpp`) | id -> payload, at most `capacity` | `getAll`, `add` (keeps), `update` (overrides), `get`, `remove`, `storeToFile`, `loadFromFile` | protocol |
| position map (`position-map-adapter.cpp`) | array of leaves, partly uninitialised | `get`, `set`, `storeToFile`, `loadFromFile` | protocol |
| position map in an ORAM (same file) | another ORAM | `get`, `set` | protocol |
| storage adapter (`storage-adapter.cpp:37-345`) | key, limits, subscribers | batched `get` and `set`, single `get` and `set`, `fillWithZeroes`, `subscribe` | protocol |
| storage backends (`:347-633`) | array, file, Redis or Aerospike | `getInternal`, `setInternal`, single and batched | storage adapter |
| utilities (`utility.cpp`) | none | randomness, encryption, text and key helpers, hashes | all |

A call runs through them in this order: `access` asks the map for the leaf of
the block and **sets a new random one at once** (`oram.cpp:160-161`); `readPath`
gets the path through the cache, downloading what is missing, and adds every
block to the stash; the block is updated in the stash; `writePath` fills the
buckets of the old path from the leaf up with blocks of the stash that may
live there, puts them **into the cache only**, and removes them from the stash;
at the end of the call `syncCache` uploads the cache.  `multiple` first
downloads all paths, then does all accesses, then uploads once.

What makes each component correct:

- *protocol*: a block is on the path the map gives for it or in the stash; a
  read returns the last write; an exception damages at most the block that was
  being served; nothing is lost by a failed upload; every call ends.
- *stash*: `add` never overrides a newer payload by an older one, so copies
  must never disagree; overflow never loses a block already stored.
- *position map*: cells that were never set can be read; one in another ORAM
  can throw at every lookup, and forget.
- *storage adapter*: a request is refused as a whole before anything is
  written; splitting into parts is invisible; answers follow the locations.
- *bulk load*: every block ends up on a path through its location.
- *files*: stash and map restored together behave as before; restored from
  files older than the storage they cost only what was moved since, and a kill
  only what a file storage still had in its buffer on top of that.

## 2. Modules

| module | models |
|---|---|
| `OramTree` | buckets of a path, the shared-bucket test of two leaves |
| `PathORAM` | the ORAM client with stash, position map, cache and storage |
| `BlockStore` | the abstract contract: a table of payloads with failing calls |
| `PathORAMContract` | the refinement mapping from `PathORAM` to `BlockStore` |
| `LoadedBlockStore` | `BlockStore` with `load` |
| `BulkLoad` | `load` on an ORAM without blocks, and the calls that follow; extends `PathORAMContract` |
| `DurableBlockStore` | `BlockStore` across restarts |
| `Persistence` | the files of the map and the stash, and a client that stops anywhere; extends `PathORAMContract` |
| `ForgetfulBlockStore` | `BlockStore` with a position map that can fail |
| `RecursiveORAM` | an ORAM whose position map is another ORAM; extends `PathORAMContract` |
| `BucketStore` | the contract of a storage adapter: `get` and `set` of many buckets |
| `StorageAdapter` | the adapter over a backend's single and batch operations |
| `MCPathORAM`, `MCBulkLoad`, `MCPersistence`, `MCRecursiveORAM`, `MCStorageAdapter` | constants for TLC, and properties the documents state and the code does not have |
| `OramTree_proofs` | the geometry, for trees of every height |
| `PathORAM_proofs` | the invariants of `PathORAM` |
| `Eviction_proofs` | what `writePath` guarantees while the stash does not overflow |
| `PathORAMContract_proofs` | the proof that `PathORAM` implements `BlockStore` |
| `Persistence_proofs`, `RecursiveORAM_proofs` | the invariants of these modules and the proofs that they implement their contracts; both use the lemmas of `PathORAM_proofs` and `PathORAMContract_proofs` |
| `BulkLoad_proofs` | where `load` puts blocks, and the proof that `BulkLoad` implements `LoadedBlockStore` |
| `StorageAdapter_proofs` | the notifications, and the proof that the adapter implements `BucketStore` |

### PathORAM

State: `storage` (what the backend holds, decrypted), `position`, `stash` and
`cache` are the objects of the same name.  A bucket is the set of its real
blocks: dummies, and the order within a bucket, are left out, since no code
looks at them other than to skip them.  `requests`, `next`, `leaf` and
`response` are the arguments, loop index, `previousPosition` and answer of the
running call; `get` and `put` are calls with one request and no prefetch.
`stranded` is a history variable: the blocks an exception left off their path.

The actions are the stretches of code between two places that can throw:

| action | code | ends by throwing in |
|---|---|---|
| `Get`, `Put`, `Multiple`, `MultipleTooMany` | `get`, `put`, `multiple` up to the first effect | `MultipleTooMany` |
| `Prefetch` | `multiple`, 77-85 | `PrefetchThrows` |
| `Remap` | `access`, 160-161 | `RemapThrows` |
| `ReadPath` | `readPath` with `getCache` and `stash->add` | `ReadPathThrows`, `ReadPathOverflows` |
| `Update` | 168-172 | `UpdateOverflows` |
| `WritePath` | `writePath` with `setCache` and `stash->remove` | cannot throw |
| `Sync` | `syncCache` and the storage's `set` | `SyncRejects`, `SyncFails` |

The iteration order of `unordered_map` and the shuffles are nondeterministic:
`ReadPath` adds any one of several copies of a block, `ReadPathOverflows` any
part of the path that fills the stash, and `WritePath` considers every
assignment of blocks to levels that the greedy loop can produce (`Greedy`:
each level, from the leaf up, takes as many as fit of those not taken below).
The path of a position that was never set may lie outside the tree and visit a
bucket on several levels; `setCache` then keeps what the uppermost of them put
there (`LastLevel`).
`SyncFails` lets any subset of the buckets reach the storage; that covers both
the bucket-by-bucket backends and the batches of the remote ones.
`SyncRejects` keeps the payloads that were already padded in place.

Payloads are records of a content and a size; the size decides whether a
payload is empty (a read, for `multiple`), is padded, or is refused.

What the model assumes: `INPUT_CHECKS` is on (the default); the constructor
ran with `initialize = true`; the caller passes fresh response vectors; memory
allocation does not fail; the random generator can return every value in its
range; encryption is the identity on what is stored.

`number` is `WordBits` wide and `int` `IntBits`: `leaf + LeafCount` wraps around
for an uninitialised position near the top, and ids are narrowed on their way to
`stash->remove`.  `HeightAssumption` leaves out the trees for which `1 <<
(height - 1)` is not an `int` (`logCapacity` 0, or 32 and more): the behaviour
of the code is undefined there from the constructor on.  `ConstructorAssumption`
leaves out a position map with fewer than `Blocks` cells, with which the
constructor throws (`oram.cpp:37-39`); a larger one has cells that were never
set.

### BlockStore

Each request of a call takes effect at one instant, in order, on a table of
padded payloads.  A call may throw between requests; when it does, the block
whose request was being served may become `Lost`: reads of it can answer
anything from then on, until the end, because stale copies can come back.
Everything else keeps its content across every exception.  The refinement
mapping takes the copy in the stash, else the one in the tree (cache over
storage), and `Lost` for stranded blocks.

### BulkLoad

`BeginLoad` adds a call to those of `PathORAM`; `requests` is the data as the
shuffle leaves it.  `Load` maps every block and writes every bucket; the other
actions are its exceptions, in the order of the code: `LoadTooMuch` (nothing
has happened), `LoadUnmapped` (the blocks before the refused id are mapped),
`LoadRejected` and `LoadFails` (all are mapped; none, or any part, is
written).  The location of a bucket is computed in `long double` by the code; a
comparison with the integer formula found them equal for all trees of up to 13
levels.  A location outside the tree makes `leavesForLocation` shift by a
negative amount: `UndefinedLeaf` is what may come of that.  `1 << height` is an
`int` too (`oram.cpp:100`): `LoadAssumption` leaves out the trees for which it
overflows, those with `logCapacity` 31.  Also left out: the
division by zero that is another possible outcome of it, data with an id twice,
and `load` on an ORAM that has blocks in its stash or tree already.

`load` writes past the cache.  The cache is empty after a call that returned;
after one that threw it still holds buckets, without blocks as the ORAM has
none, that hide what is loaded at their locations and replace it with the next
upload.  `Hide` records the blocks this costs.

`LoadedBlockStore` adds a call that fills an empty table at one instant, in
full if it returns and in part if it throws; `kept` says whether leftovers of a
call that threw may hide some of it, which they never do after a call that
returned.

### Persistence and DurableBlockStore

The application stores the map and the stash in files while the storage outlives
the client.  `StoreMap` and `StoreStash` are the two `storeToFile`, `Restart` a
new client, constructed with `initialize = false`, that loads both files: it may
come at any point of a call, and `CrashInSync` is one in the middle of an upload,
with any part of the cache written.  The cache is gone, and what the map file
does not cover is uninitialised memory.  The state of a file stream is never
looked at, so each store may return having written a part (`FilesMayFail`): a
prefix of the map, any of the records of the stash.  A record cut in the middle
is left out, and so are stash files whose payloads differ in size: `storeToFile`
takes the size of an arbitrary block for all of them, so such a file is garbage,
and a new client loads only files that are `Readable`.

`storage` is what the client reads back, `disk` what another process would find.
They are the same for a server, which has a bucket when `set` returns.  A storage
that is a file is written through an `fstream` that is never flushed
(`storage-adapter.cpp:428-435`): each seek writes out what the operation before
left in its buffer, so of an upload that returned the last bucket can be missing
in the file (`WriteBuckets`), until the next download seeks (`ReadBuckets`) or
the destructor closes the file.  With `LateFlush` an upload leaves any one of its
buckets behind, since the cache is an `unordered_map`, and `Restart` starts from
either: from `storage` after an orderly end, from `disk` after a kill.  A kill
can thus bring back an older version of a bucket even after both files were
stored.  A stream used as a storage reports no failure, hence `~ (LateFlush /\
StorageMayFail)`.  That the buffer keeps no more than one bucket is how `seekp`
and `seekg` work; that it may keep a part of one is covered as far as whole
blocks go: a bucket cut in the middle is not decryptable and is left out.

`unsaved` (history) is the blocks the files and the storage do not hold as the
client did at its last store: those that differ then, and those an upload, or
the loss of the buffered bucket, has added to a bucket, taken from it or changed
since.  `DurableBlockStore` keeps a second table, `saved`, of what a restart
would bring back: a call leaves it alone until its upload, which may move any
block; storing both files after a call that returned makes it equal to the
contents; a restart makes the contents equal to it, the running call undone as
a whole.  `buffered` is the blocks of it that only an orderly end brings back:
at most `Slack`, which is 0 for a server and for a file storage twice the blocks
of a bucket (the old and the new version of the one that is missing), and none
as soon as a call has answered a request (`Drain` is its first read).

### RecursiveORAM and ForgetfulBlockStore

`map->get` and `map->set` are a `get` and a `put` of an inner ORAM, which
`PathORAMContract` has shown to be a `BlockStore`; only what that contract
allows is modelled of it.  A call of it that throws may have taken effect or
not, and may have lost the position it was about (`forgotten`); reads of a lost
position, and of one the inner ORAM was never given (`unset`: `map->get` takes the
first bytes of an empty answer), may give anything, and differ from one to the
next (`Misremember`).
The lookups of `multiple`, `access` and `writePath` can throw
(`PrefetchLookupThrows`, `RemapLookupThrows`, `WritePathLookupThrows`); in
`writePath` this comes before the cache and the stash are changed, and leaves
the updated block in the stash with an older copy of it in the cache.
`writePath` reads a position once for each level, the model once: the answers
for a lost position could differ from level to level, which has no effect but on
the level that lost block is placed on.

`ForgetfulBlockStore` is `BlockStore` with one more way to throw, which may come
after the request was served and costs at most its block and the one looked up.

### StorageAdapter and BucketStore

`blocks` is what the backend holds, `locations` and `writes` the request,
`pointer` the variable of that name, `done` the index of the loop in the
default `getInternal` and `setInternal`, `raws` the response, `notified` what
subscribers were told since the call began.  Requests are checked as a whole
(`Refused`) and then done by parts: `GetBatch` and `SetBatch` are one operation
of a backend that supports batches, `GetOne` and `SetOne` one bucket of a
backend that does not, or of a request for one bucket.  `adapter` says which
of these the adapter in use does, what a failed read and a failed write of it
come to, and whether it can be opened with `override = false` on what an
earlier one left; it never changes.  Such an adapter may be opened for more
buckets than there are: reading one that is `Absent` is a failed read.  Redis
throws, before or after the effect of an operation (`Throws`); a file keeps an
error to itself, and the answer is what was in memory (`Unread`); Aerospike
ignores the error of a write, and of a read too, but then takes the bytes of a
record it does not have (`storage-adapter.cpp:546-548`, `:596-600`; a batch that
was not read at all leaves an empty answer, whose first 16 bytes `get` copies):
the process ends (`Crash`), and the next one opens what the backend holds.  An
adapter that cannot connect or open its file throws in its constructor
(`:396-400`, `:450`, `:521-524`), and there is none.  In the contract, `Write` writes the next pairs, `Return`
needs all of them written and answers with the buckets in the order asked for.

`PathORAM` uses the adapter as `BucketStore` describes it: its `Download` is a
`get`, its `Sync` a `set` that returns, its `SyncRejects` a refusal and its
`SyncFails` a `set` that throws.  `SyncFails` allows every subset of the cache
to have been written, since the pairs of `set` are in the order of an
`unordered_map`.

## 3. Properties

- `TypeOK`: the types, and which control states go with which data.
- `BlockOnItsPath`: the invariant of the Path ORAM paper, with the window
  between the remapping and the write-back, and exceptions.
- `PathInStash`: before a path is overwritten the stash holds all of it.
- `CopiesAgree`: copies of one block never hold different payloads.
- `OneCopy`, `StashWaitsForRoot`: without overflow a block that is not stranded
  has a single copy between accesses, and the eviction is greedy: a block waits
  only while the root is full.
- `PrefetchCoversBatch`: one download is enough for a batch of distinct ids.
- `ImplementsBlockStore`: refinement of `BlockStore`.
- `CallEnds`: every call, `load` included, returns or throws.
- `ImplementsLoadedBlockStore`: the same with `load`.
- `ImplementsDurableBlockStore`: what a restart brings back, whenever the client
  stopped, and however old or incomplete its files are.
- `ImplementsForgetfulBlockStore`: what a failing or forgetful position map can
  cost.
- `ImplementsBucketStore`: refinement of `BucketStore` by the adapter.
- `NotifiedOfAll`: subscribers are told of each bucket once, and of no batch
  above the limit.  It is stated with running totals (`told`) and not with a
  sum, which would be a recursion the prover cannot use.

Four more properties state sentences of the documents that the code does not
satisfy; section 6 lists them.

## 4. Runs

| run | instance | shows | states |
|---|---|---|---|
| `batch` | 3 levels, Z = 1, 2 ids, batches of 2, stash never full | `OneCopy`, `StashWaitsForRoot`, `PrefetchCoversBatch`, `ImplementsBlockStore` | 1.2 M |
| `screening` | 2 levels, stash of 1, ids beyond the constructor's and the map's, unset positions inside and outside the tree and at the top of an 8-bit word, payloads short, empty and too long | `TypeOK`, `BlockOnItsPath`, `PathInStash`, `CopiesAgree`, `ImplementsBlockStore` | 3.3 M |
| `outage` | storage may fail, 2 ids, 2 values of full size | `BlockOnItsPath`, `CopiesAgree`, `ImplementsBlockStore` | 1.8 M |
| `disperse` | load of up to 3 blocks into 2 levels, then any calls | `BlockOnItsPath`, `ImplementsLoadedBlockStore` | 0.2 M |
| `storm` | one bucket; failures, overflow, refused payloads, batches, and loads that are too much, unmapped, too long, failing or behind a cache that was kept | `ImplementsLoadedBlockStore`, `CallEnds` | 51 k |
| `restart` | 2 levels, 2 ids of which any part is stored, files cut short, a storage that may have a bucket in its buffer, restarts and kills anywhere | `BlockOnItsPath`, `CopiesAgree`, `ImplementsDurableBlockStore` | 0.6 M |
| `lookup` | 2 levels, 2 ids, one of them with a position never set, single requests; every lookup may throw or forget | `BlockOnItsPath`, `CopiesAgree`, `ImplementsForgetfulBlockStore` | 2.6 M |
| `adapter` | requests of up to 3 to 2 buckets; adapters with and without batches, limits 0, 1 and 2, new or opened with any part of the buckets there, with and without exceptions, with a read that ends the process, and without hidden errors | `TypeOK`, `NotifiedOfAll`, `ImplementsBucketStore` | 10 k |
| `oversized`, `narrowing`, `brimful`, `ignored` | | the counterexamples of section 6 | |

The bounds.  Z = 1 makes buckets fill up with the fewest blocks; two levels
give a root that two paths share and leaves that they do not, three levels an
inner node that some pairs share.  Three blocks are needed to fill a path of
two buckets and leave one in the stash; two to have one evict or shadow the
other.  A short payload and the empty one tell apart what was stored, what is
padded and what was never written; two values of full size (interchangeable,
hence the symmetry, which no liveness property uses) tell an old copy from a
new one.  `BatchSize` 2 allows the same id twice in a batch.  Three buckets of
one block are loaded at the locations 1, 2 and 3, on both levels.  Requests of
up to 3 with limits of 1 and 2 have parts that are full, short and missing, and
every combination of equal locations.  With two ids, `restart` has one block
moved by a call for the other, and copies in the stash file and in the storage
that stem from different calls; its map files hold none, one or both.  Its
storage is a file, whose behaviours are those of a server that does not fail and
those with a bucket in the buffer.  `SomethingKept` bounds it: no state is
continued once both blocks are lost, as a lost block stays lost there (the stash
has room for both), and no property says anything of it from then on; and no call
is begun while both were moved since the files were stored, when a restart would
bring neither back (a store ends that).  The proofs have no such bound.  The memory a new map finds holds 1 there, a leaf of the tree; one
that leads outside it is left to `screening`, and all values to the proofs.  In
`lookup` one id is served while the other is looked up.  The calls themselves are
not bounded: but for `SomethingKept`, the state space is finite and is explored in
full.
Deadlock is checked in every run: the client can always be called again.

Fairness.  `FairLoadSpec` assumes weak fairness of `Progress \/ EndOfLoad`, every
step but the beginning of a call: a call is straight-line code of one thread,
which runs on once it was begun, and a storage request returns or throws.
Whether there is another call is left to the application.

## 5. Proofs

All theorems hold for every value of the constants that satisfies the named
assumptions of the modules: `HeightAssumption`, `WidthAssumption`,
`SizesAssumption`, `DataAssumption`, `ConstructorAssumption` and `LostAssumption`
for the client, with `FilesAssumption`, `MapAssumption` and `LoadAssumption` for
its three extensions, and `AdapterAssumption` for the adapter.  Some assume more, by name:

- `IdsFitInt`, every id survives the narrowing of `oram.cpp:209` (finding 2): the
  four refinements of the client, `OneCopyEach` and `StashBehindFullRoot`.  A map
  of at most `2^(IntBits - 1)` positions satisfies it (`SmallMapFitsInt`): with
  the usual `int`, one of up to 2^31.
- `NoRoomBeyondTree` (finding 3): `LoadKeepsPaths` and `LoadedRefinement`.  The
  storage has at most `2^logCapacity` buckets, as the one the constructor makes
  (`oram.cpp:44-51`), or the loads stay below that many.
- `NoOverflow`, no step of the run is an overflow of the stash: `OneCopyEach` and
  `StashBehindFullRoot`.  An overflow leaves copies behind on purpose.
  `RoomyStash` proves it for stashes with room for a block of each id, which
  gives `OneCopyWithRoom` for all runs.
- Ids below `Blocks` (`StashBehindFullRoot`): the constructor draws a position for
  these (`oram.cpp:37`); one that was never set can keep its block out of the
  root.
- `ErrorsTold`, no failed read or write of an adapter goes unnoticed (finding 4):
  `AdapterRefinement`.

The theorems, and how they are reached:

- `PathsShareAPrefix`, `LeavesBelowBucket`: the geometry.  `bucketForLevelLeaf`
  is one more than `2^level - 1` plus the top bits of the leaf, so the proofs are
  about quotients by powers of two; `2^(n+1) = 2 * 2^n` comes from the number of
  subsets of a finite set, and what needs induction over exponents from the
  least number of a set (`SetInduction`).  `SharedBucketVisitedOnce`: a path that
  leads outside the tree may meet one of its buckets twice, but never one that
  it shares with a leaf.
- `TypeCorrect` (`Spec => []TypeOK`).  `TypeOK` is inductive; it ties `pc` to
  `next`, the length of `response` and the cached path, which the later proofs
  lean on.
- `BlocksOnTheirPaths`, `PathsInStash`.  Neither is inductive alone: that the
  blocks `writePath` places are on their paths needs `Greedy`; that an overflow
  in `update` strands nothing needs the path to be in the stash, and that needs
  the cache to hold the path.  `PathInv` is the conjunction of both, and is
  inductive with `TypeOK`.
- `CopiesNeverDiffer`.  `AgreeInv` adds that copies agree and that the blocks
  which are stored, in the stash or the tree, are mapped to leaves of the tree
  unless they are stranded (`HomesAreLeaves`).  With `SharedBucketVisitedOnce`
  that is why the access of an id whose position was never set loses no block,
  although its path may overwrite a bucket it has just written.
- `Refinement`.  Each action maps to a step of `BlockStore` or a stutter:
  `Update` is the instant a request takes effect, an overflow or failed
  download is `Throw`, `WritePath`, `ReadPath` and `Sync` leave `Contents`
  unchanged.  For the last claim the proof needs `PathInStash` (no block of the
  overwritten path disappears), `BlockOnItsPath` (a block not in the stash after
  `ReadPath` is nowhere) and `CopiesAgree` (it does not matter which copy is
  read).  `IdsFitInt` is used once: `writePath` removes from the stash exactly
  the blocks it placed.  `HomesAreLeaves` says that each of them is in a bucket
  that was not replaced by a later one.
- `OneCopyEach`, `OneCopyWithRoom`.  `CopyInv` says that no two buckets, and no
  bucket and the stash, hold the same block, where the buckets of a path that
  was read and not yet written (`OpenPath`) do not count: these are copied into
  the stash and then overwritten as a whole.
- `StashBehindFullRoot`.  `RootInv` needs all positions in the tree and distinct
  ids in a bucket; a block that stays in the stash fits into the root, so the
  greedy loop must have placed Z others there.
- `BatchesPrefetched`.  `PathsCached` says that the path of every request of a
  batch whose block was not served before in it is in the cache.  An access
  moves only the home of its own block, and nothing leaves the cache before the
  upload.
- `RestartKeepsPaths`, `RestartKeepsCopies`, `DurableRefinement`.  The
  invariant of a client that may restart is that of `PathORAM` together with
  the same one for what the files and the storage hold (`SavedInv`): up to the
  `unsaved` blocks the two are the state of a client between calls.
  It holds `SavedHomesAreLeaves` for the same reason as `HomesAreLeaves` above.
  `StoredIsCurrent` says when a file is what the client has.  A store
  establishes `SavedInv` from `AgreeInv` for the blocks that do not differ, an
  upload keeps it for the blocks it did not move, and `Restart` turns it into
  `AgreeInv` with `stranded = unsaved`, from `storage` and from `disk` alike, as
  the blocks that differ between the two are added to `unsaved`.  `FlushInv` says
  that `disk` and `storage` are the same while the cache has buckets, so that an
  upload leaves behind one bucket and nothing of an earlier upload; with
  `BucketsSmall` (a bucket has at most Z blocks) that is the bound of `2 Z`
  (`BufferSmall`).
- `LookupsKeepPaths`, `LookupsKeepCopies`, `ForgetfulRefinement`.  `AgreeInv`
  with `forgotten \subseteq stranded`: a failed lookup leaves all copies where
  they are, so it must only be shown that the blocks it adds to `stranded` are
  the one looked up and, if it is harmed, the one being served.  `NoCopyUnset`
  says that a block has no copy before its position is set, so that what is read
  of a position never set harms nothing.
- `LoadFillsBuckets`, `LoadKeepsPaths`, `LoadedRefinement`.  During a load the
  invariant is that there are no blocks yet (`Loading`), otherwise it is that of
  the client (`LoadInv`).  The blocks are dealt out Z to a bucket (`DealtOut`),
  the locations are distinct (`LocationsApart`) and in the tree
  (`LocationBounds`), and by `LeavesBelowBucket` the range of leaves `load` draws
  from is that of the leaves below the bucket.  The end of a load, whichever it
  is, then establishes `AgreeInv`, and the rest is the refinement of the client.
- `AnswersFilled`, `SubscribersToldOfAll`, `AdapterRefinement`.  With `TypeOK`
  the invariant says how far a call has come (`ProgressOK`: a part that is begun
  has `done` of its buckets; `Completed` is what subscribers must add up to) and what the response holds (`ResponseOK`: the buckets asked for, in
  order, and holes only in the rest of the part in work).  A batch written at
  once is then what writing the next pairs one after the other makes of the
  table, repeated locations included.

Only model-checked: `CallEnds`, since liveness under fairness is beyond the
prover.  Every safety property and refinement of a passing run is the subject
of a theorem; the runs check them, and `HomesAreLeaves` and `LoadInv` were
checked with TLC before they were proved.  The theorems of the library that do
induction take an operator as a parameter, which no installed backend can
instantiate; where induction was needed the predicate is a set, or the property
carries its partial results (`told`).

## 6. Where documents and code differ

1. `oversized`: "user inputs are screened (exceptions are thrown if the input
   is invalid)" (`README.md:19`), but a `put` longer than a block returns
   normally if the block stays in the stash; the size is looked at only when
   the block is uploaded (`storage-adapter.cpp:136`).  For the same reason a
   refused payload stays in the cache (`oram.cpp:346`), and calls with valid
   arguments throw until another `put` replaces it.
2. `narrowing`: "remove newly inserted blocks" (`oram.cpp:270`), but the ids go
   through a `vector<int>` (`oram.cpp:209`); the run uses a 3-bit `int` and an
   id of 4.  Such a block has a copy in the tree and one in the stash.
3. `brimful`: "preserving ORAM invariant" (`oram.hpp:215`), but a load of
   exactly `2^logCapacity` buckets passes the check of `oram.cpp:104` and puts
   the last bucket outside the tree, if the storage is that large (the one of
   `test-oram.cpp:70` is; a smaller one refuses the load).
4. `ignored`: "writes the data in batch" (`storage-adapter.hpp:120`), but the
   Aerospike adapter drops the error of a write (`storage-adapter.cpp:570`), and
   the file system adapter never looks at the state of its stream (`:434`).

No run is spent on a comment that is only out of date: a write answers with the
payload written, as `oram.hpp:205` says for `multiple`, and not with the empty
response of `oram.hpp:51`.

## 7. Plan and what is not modelled

Done: the client, its geometry, the bulk load, the storage adapter with its
backends, the files of the map and the stash, and the position map in an ORAM;
the proofs of their safety properties and of all five refinements.  Left, in
this order:

1. Proofs of what follows from the invariants and is not stated yet: that
   `PathInStash` and `PrefetchCoversBatch` survive a restart and a failing
   position map.
2. `OneCopy` after a bulk load, from `LoadFillsBuckets` and `LocationsApart`.
3. Stash files of payloads that differ in size, at the level of bytes.

Not modelled, and why:

- *Utilities*: pure functions.  `encrypt` and `getRandom*` are abstracted as said
  above; `fromText`, `toText`, the keys and the hashes are called by applications
  and tests, never by the ORAM, so no state of it depends on them.
- *Dummies*: what fills a bucket up to Z is only ever skipped, but for the loop
  of `oram.cpp:147`, whose unsigned bound is harmless.
- *Indices and lists of `writePath`*: the model gives each block a level, and takes
  it from the stash and into the cache at once; the two vectors of the code that
  must stay in step, erased from by index (`oram.cpp:240`), are abstracted away.
- *Responses used twice* (`stash-adapter.cpp:62`): the calls of the models
  answer into an empty vector.
- *Servers*: Redis and Aerospike keep what they have accepted; what they do
  internally is not of this repository.
- *Cryptography and obliviousness*: the quality of the randomness, and that the
  access pattern tells nothing, are probabilistic properties.
- *Definitions, tests, benchmarks, build*: no state.
