-------------------------- MODULE Persistence_proofs --------------------------
(***************************************************************************)
(* Persistence implements DurableBlockStore for every value of the         *)
(* constants, as long as writePath can keep the ids of the blocks in an    *)
(* int.                                                                    *)
(***************************************************************************)
EXTENDS Persistence, PathORAMContract_proofs, Eviction_proofs

-----------------------------------------------------------------------------
(***************************************************************************)
(* The invariant.  What the files and the storage hold is, but for the     *)
(* unsaved blocks, the state of a client between two calls: the copies are *)
(* on the paths of the stored map and agree.                               *)
(***************************************************************************)
FilesOK ==
  /\ DOMAIN mapFile \subseteq MappedIds
  /\ mapFile \in [DOMAIN mapFile -> Nat]
  /\ stashFile \subseteq Block /\ UniqueIds(stashFile)
  /\ unsaved \subseteq MappedIds
  /\ stored \subseteq Files

SavedOnItsPath ==
  \A l \in Locations : \A block \in storage[l] :
    block.id \notin unsaved =>
      block.id \in DOMAIN mapFile /\ l \in Path(mapFile[block.id])

SavedCopiesAgree ==
  \A a, b \in stashFile \cup UNION {storage[l] : l \in Locations} :
    a.id = b.id /\ a.id \notin unsaved => Padded(a.data) = Padded(b.data)

SavedHomesAreLeaves ==
  \A block \in stashFile \cup UNION {storage[l] : l \in Locations} :
    block.id \notin unsaved =>
      block.id \in DOMAIN mapFile /\ mapFile[block.id] \in Leaves

\* A file that is marked as stored in full is what the client holds.
StoredIsCurrent ==
  /\ "map" \in stored => mapFile = position
  /\ "stash" \in stored => stashFile = stash
  /\ ~ Idle => stored = {}
  /\ pc = "returned" => cache = NoCache

SavedInv == FilesOK /\ SavedOnItsPath /\ SavedCopiesAgree /\ SavedHomesAreLeaves

\* A call that has a bucket in the cache has read since the last upload, and
\* with the read the buffer was emptied.
FlushInv ==
  /\ disk \in [Locations -> SUBSET Block]
  /\ ~ LateFlush => disk = storage
  /\ DOMAIN cache # {} => disk = storage
  /\ response # <<>> => DOMAIN cache # {}

Small(bucket) == Cardinality(Ids(bucket)) <= Z

BucketsSmall ==
  \A l \in Locations : Small(storage[l]) /\ Small(disk[l]) /\ Small(Tree[l])

BufferSmall == Cardinality(Buffered) <= IF LateFlush THEN 2 * Z ELSE 0

DurableInv ==
  AgreeInv /\ SavedInv /\ StoredIsCurrent /\ FlushInv /\ BucketsSmall /\ BufferSmall

-----------------------------------------------------------------------------
\* A bucket that is in the storage as in the file is not buffered.
LEMMA NothingBuffered ==
  ASSUME disk = storage
  PROVE  Buffered = {} /\ BufferSmall
<1>1. Buffered = {}
  BY DEF Buffered
<1> QED BY <1>1, FS_EmptySet, SizesAssumption DEF BufferSmall

LEMMA DurableInvInit == DurableInit => DurableInv
<1> SUFFICES ASSUME DurableInit PROVE DurableInv
  OBVIOUS
<1>1. AgreeInv
  BY AgreeInvInit DEF DurableInit
<1>2. TypeOK
  BY InitType DEF DurableInit
<1>3. FilesOK
  BY <1>2 DEF DurableInit, FilesOK, TypeOK
<1>4. \A l \in Locations : storage[l] = {}
  BY DEF DurableInit, Init
<1>5. SavedOnItsPath
  BY <1>4 DEF SavedOnItsPath
<1>6. stashFile \cup UNION {storage[l] : l \in Locations} = {}
  BY <1>4 DEF DurableInit, Init
<1>7. SavedCopiesAgree /\ SavedHomesAreLeaves
  BY <1>6 DEF SavedCopiesAgree, SavedHomesAreLeaves
<1>8. StoredIsCurrent
  BY DEF StoredIsCurrent, DurableInit, Init, Idle
<1>9. FlushInv
  <2>1. disk = storage /\ response = <<>>
    BY DEF DurableInit, Init
  <2> QED BY <1>2, <2>1 DEF FlushInv, TypeOK
<1>10. BucketsSmall
  <2>1. \A l \in Locations : storage[l] = {} /\ disk[l] = {} /\ Tree[l] = {}
    BY DEF DurableInit, Init, Tree, NoCache
  <2>2. Small({})
    <3>1. Ids({}) = {}
      BY DEF Ids
    <3> QED BY <3>1, FS_EmptySet, SizesAssumption DEF Small
  <2> QED BY <2>1, <2>2 DEF BucketsSmall
<1>11. BufferSmall
  BY NothingBuffered DEF DurableInit
<1> QED BY <1>1, <1>3, <1>5, <1>7, <1>8, <1>9, <1>10, <1>11 DEF DurableInv, SavedInv

\* A block no upload has touched is in the storage as it was.
LEMMA NotMoved ==
  ASSUME NEW id \in MappedIds, id \notin Moved
  PROVE  /\ \A l \in Locations : CopiesIn(storage'[l], id) = CopiesIn(storage[l], id)
         /\ InStorage(id)' = InStorage(id)
<1>1. \A l \in Locations : CopiesIn(storage'[l], id) = CopiesIn(storage[l], id)
  BY DEF Moved
<1>2. InStorage(id) = UNION {CopiesIn(storage[l], id) : l \in Locations}
  BY DEF InStorage, CopiesIn
<1>3. InStorage(id)' = UNION {CopiesIn(storage'[l], id) : l \in Locations}
  BY DEF InStorage, CopiesIn
<1> QED BY <1>1, <1>2, <1>3

\* Whatever is written to the storage, the rest of the snapshot stays good.
LEMMA UploadKeepsSaved ==
  ASSUME SavedInv, mapFile' = mapFile, stashFile' = stashFile,
         unsaved' = unsaved \cup Moved, stored' \subseteq Files,
         storage' \in [Locations -> SUBSET Block]
  PROVE  SavedInv'
<1> USE DEF SavedInv
<1>1. FilesOK'
  BY DEF FilesOK, UniqueIds, Moved
<1>2. ASSUME NEW l \in Locations, NEW block \in storage'[l], block.id \notin unsaved'
      PROVE  block \in storage[l]
  <2>1. block.id \in MappedIds
    BY <1>2 DEF Block
  <2>2. CopiesIn(storage'[l], block.id) = CopiesIn(storage[l], block.id)
    BY <1>2, <2>1, NotMoved
  <2> QED BY <1>2, <2>2 DEF CopiesIn
<1>3. SavedOnItsPath'
  BY <1>2 DEF SavedOnItsPath, Path
<1>4. SavedCopiesAgree'
  <2>1. ASSUME NEW a \in stashFile \cup UNION {storage'[l] : l \in Locations},
               a.id \notin unsaved'
        PROVE  a \in stashFile \cup UNION {storage[l] : l \in Locations}
    BY <1>2, <2>1
  <2> QED BY <2>1 DEF SavedCopiesAgree
<1>5. SavedHomesAreLeaves'
  BY <1>2 DEF SavedHomesAreLeaves, Leaves, LeafCount
<1> QED BY <1>1, <1>3, <1>4, <1>5

-----------------------------------------------------------------------------
(***************************************************************************)
(* Storing the files.                                                      *)
(***************************************************************************)
\* A block the files and the storage hold as the client does: in each bucket
\* the same copies as in the tree.
LEMMA SameInStorage ==
  ASSUME TypeOK, NEW id, storage' = storage, cache' = cache, stash' = stash,
         ~ Differs(id)'
  PROVE  /\ \A l \in Locations : CopiesIn(storage[l], id) = CopiesIn(Tree[l], id)
         /\ InStorage(id)' = TreeCopies(id)
         /\ CopiesIn(stashFile', id) = Copies(id)
<1>1. \A l \in Locations : CopiesIn(storage[l], id) = CopiesIn(Tree[l], id)
  BY DEF Differs, Tree
<1>2. InStorage(id)' = UNION {CopiesIn(storage[l], id) : l \in Locations}
  BY DEF InStorage, CopiesIn
<1>3. TreeCopies(id) = UNION {CopiesIn(Tree[l], id) : l \in Locations}
  BY DEF TreeCopies, InTree, CopiesIn
<1>4. CopiesIn(stashFile', id) = Copies(id)
  BY DEF Differs, CopiesIn, Copies
<1> QED BY <1>1, <1>2, <1>3, <1>4

LEMMA StoreKeepsSaved ==
  ASSUME DurableInv, Idle, UNCHANGED vars, FilesOK',
         unsaved' = stranded \cup {id \in MappedIds : Differs(id)'}
  PROVE  SavedInv'
<1> USE DEF DurableInv, AgreeInv, PathInv
<1>1. /\ storage' = storage /\ position' = position /\ cache' = cache /\ stash' = stash
      /\ pc # "write" /\ ~ InAccess
  BY DEF vars, Idle, InAccess
<1>2. ASSUME NEW id \in MappedIds, id \notin unsaved'
      PROVE  ~ Differs(id)' /\ id \notin stranded
  BY <1>2
<1>3. ASSUME NEW l \in Locations, NEW block \in storage[l], block.id \notin unsaved'
      PROVE  block \in Tree[l] /\ block.id \in MappedIds
  <2>1. block.id \in MappedIds
    BY DEF TypeOK, Block
  <2>2. CopiesIn(storage[l], block.id) = CopiesIn(Tree[l], block.id)
    BY <1>1, <1>2, <1>3, <2>1, SameInStorage
  <2> QED BY <2>1, <2>2 DEF CopiesIn
<1>4. ASSUME NEW block \in stashFile', block.id \notin unsaved'
      PROVE  block \in stash
  <2>1. block.id \in MappedIds
    BY DEF FilesOK, Block
  <2>2. CopiesIn(stashFile', block.id) = Copies(block.id)
    BY <1>1, <1>2, <1>4, <2>1, SameInStorage
  <2> QED BY <2>2 DEF CopiesIn, Copies
<1>5. SavedOnItsPath'
  <2>1. ASSUME NEW l \in Locations, NEW block \in storage[l], block.id \notin unsaved'
        PROVE  block.id \in DOMAIN mapFile' /\ l \in Path(mapFile'[block.id])
    <3>1. block \in Tree[l] /\ block.id \in MappedIds
      BY <1>3, <2>1
    <3>2. ~ Differs(block.id)' /\ block.id \notin stranded
      BY <1>2, <2>1, <3>1
    <3>3. block.id \in DOMAIN mapFile' /\ mapFile'[block.id] = position[block.id]
      BY <1>1, <3>2 DEF Differs
    <3>4. l \in Path(position[block.id])
      BY <1>1, <3>1, <3>2 DEF BlockOnItsPath, Home
    <3> QED BY <3>3, <3>4
  <2> QED BY <1>1, <2>1 DEF SavedOnItsPath, Path
<1>6. ASSUME NEW a \in stashFile' \cup UNION {storage[l] : l \in Locations},
             a.id \notin unsaved'
      PROVE  a \in stash \cup InTree
  BY <1>3, <1>4, <1>6 DEF InTree
<1>7. SavedCopiesAgree'
  <2>2. ASSUME NEW a \in stashFile' \cup UNION {storage[l] : l \in Locations},
               NEW b \in stashFile' \cup UNION {storage[l] : l \in Locations},
               a.id = b.id, a.id \notin unsaved'
        PROVE  Padded(a.data) = Padded(b.data)
    <3>1. a \in stash \cup InTree /\ b \in stash \cup InTree /\ a.id \notin stranded
      BY <1>6, <2>2
    <3> QED BY <1>1, <2>2, <3>1 DEF CopiesAgree
  <2> QED BY <1>1, <2>2 DEF SavedCopiesAgree
<1>8. SavedHomesAreLeaves'
  <2>1. ASSUME NEW a \in stashFile' \cup UNION {storage[l] : l \in Locations},
               a.id \notin unsaved'
        PROVE  a.id \in DOMAIN mapFile' /\ mapFile'[a.id] \in Leaves
    <3>1. a \in stash \cup InTree /\ a.id \in MappedIds
      BY <1>6, <2>1, TreeType DEF InTree, TypeOK, Block
    <3>2. ~ Differs(a.id)' /\ a.id \notin stranded
      BY <1>2, <2>1, <3>1
    <3>3. a.id \in DOMAIN mapFile' /\ mapFile'[a.id] = position[a.id]
      BY <1>1, <3>2 DEF Differs
    <3> QED BY <3>1, <3>2, <3>3 DEF HomesAreLeaves
  <2> QED BY <1>1, <2>1 DEF SavedHomesAreLeaves, Leaves, LeafCount
<1> QED BY <1>5, <1>7, <1>8 DEF SavedInv

\* What both stores do to the files, and what it does to the history.
LEMMA StoreFacts ==
  ASSUME DurableInv, StoreMap \/ StoreStash
  PROVE  /\ Idle /\ UNCHANGED vars /\ FilesOK'
         /\ unsaved' = stranded \cup {id \in MappedIds : Differs(id)'}
         /\ \E file \in Files : stored' \in {stored \cup {file}, stored \ {file}}
         /\ "map" \in stored' => mapFile' = position
         /\ "stash" \in stored' => stashFile' = stash
<1> USE DEF DurableInv, AgreeInv, PathInv, SavedInv
<1>1. /\ Idle /\ UNCHANGED vars
      /\ unsaved' = stranded \cup {id \in MappedIds : Differs(id)'}
  BY DEF StoreMap, StoreStash, Record
<1>2. unsaved' \subseteq MappedIds
  BY <1>1 DEF TypeOK
<1>3. CASE StoreMap
  <2>1. PICK length \in 0 .. MapCapacity :
          /\ mapFile' = [id \in {i \in MappedIds : i < length} |-> position[id]]
          /\ stashFile' = stashFile
          /\ Record("map", DOMAIN mapFile' = MappedIds)
    BY <1>3 DEF StoreMap
  <2>2. DOMAIN mapFile' \subseteq MappedIds /\ mapFile' \in [DOMAIN mapFile' -> Nat]
    BY <2>1 DEF TypeOK
  <2>3. DOMAIN mapFile' = MappedIds => mapFile' = position
    BY <2>1 DEF TypeOK
  <2>4. /\ stored' \in {stored \cup {"map"}, stored \ {"map"}}
        /\ "map" \in stored' => DOMAIN mapFile' = MappedIds
    BY <2>1 DEF Record
  <2> QED BY <1>1, <1>2, <2>1, <2>2, <2>3, <2>4
          DEF FilesOK, Files, StoredIsCurrent, UniqueIds
<1>4. CASE StoreStash
  <2>1. PICK written \in SUBSET Records :
          /\ stashFile' = written /\ mapFile' = mapFile
          /\ Record("stash", written = Records)
    BY <1>4 DEF StoreStash
  <2>2. stashFile' \subseteq Block /\ UniqueIds(stashFile')
    BY <2>1 DEF TypeOK, Records, UniqueIds
  <2>3. /\ stored' \in {stored \cup {"stash"}, stored \ {"stash"}}
        /\ "stash" \in stored' => stashFile' = stash
    BY <2>1 DEF Record, Records
  <2> QED BY <1>1, <1>2, <2>1, <2>2, <2>3 DEF FilesOK, Files, StoredIsCurrent
<1> QED BY <1>3, <1>4

-----------------------------------------------------------------------------
(***************************************************************************)
(* A restart.                                                              *)
(***************************************************************************)
LEMMA ReloadKeepsAgree ==
  ASSUME AgreeInv, SavedInv', Reload, storage' \in [Locations -> SUBSET Block]
  PROVE  AgreeInv'
<1> USE DEF SavedInv
<1>1. PICK garbage \in [MappedIds -> Uninitialised] : position' = LoadedMap(garbage)
  BY DEF Reload
<1>2. position' \in [MappedIds -> Nat]
  BY <1>1, SizesAssumption DEF LoadedMap, Reload, FilesOK
<1>3. /\ stash' = stashFile' /\ cache' = NoCache /\ End("returned")
      /\ stranded' = unsaved' /\ mapFile' = mapFile
  BY DEF Reload
<1>4. TypeOK'
  <2>1. TypeOK
    BY DEF AgreeInv, PathInv
  <2>2. stash' \subseteq Block /\ UniqueIds(stash') /\ stranded' \subseteq MappedIds
    BY <1>3 DEF FilesOK, UniqueIds
  <2>3. DOMAIN cache' \subseteq Locations /\ cache' \in [DOMAIN cache' -> SUBSET Block]
    BY <1>3 DEF NoCache
  <2> QED BY <1>2, <1>3, <2>1, <2>2, <2>3, EndType
<1>5. \A l \in Locations : Tree'[l] = storage'[l]
  BY <1>3 DEF Tree, NoCache
<1>6. pc' = "returned" /\ ~ InAccess' /\ \A id : Home(id)' = position'[id]
  BY <1>3 DEF End, InAccess, Home
<1>7. BlockOnItsPath'
  <2>1. ASSUME NEW l \in Locations, NEW block \in Tree'[l], block.id \notin stranded'
        PROVE  l \in Path(position'[block.id])
    <3>1. block.id \in DOMAIN mapFile /\ l \in Path(mapFile[block.id])
      BY <1>3, <1>5, <2>1 DEF SavedOnItsPath, Path
    <3>2. block.id \in MappedIds
      BY <1>5, <2>1 DEF Block
    <3> QED BY <1>1, <3>1, <3>2 DEF LoadedMap
  <2> QED BY <1>6, <2>1 DEF BlockOnItsPath, Path
<1>8. PathInStash'
  BY <1>6 DEF PathInStash
<1>9. CopiesAgree'
  <2>1. (stash \cup InTree)' = stashFile' \cup UNION {storage'[l] : l \in Locations}
    BY <1>3, <1>5 DEF InTree
  <2> QED BY <1>3, <2>1 DEF SavedCopiesAgree, CopiesAgree
<1>10. HomesAreLeaves'
  <2>1. ASSUME NEW block \in (stash \cup InTree)', block.id \notin stranded'
        PROVE  position'[block.id] \in Leaves
    <3>1. block \in stashFile' \cup UNION {storage'[l] : l \in Locations}
      BY <1>3, <1>5, <2>1 DEF InTree
    <3>2. block.id \in DOMAIN mapFile /\ mapFile[block.id] \in Leaves
      BY <1>3, <2>1, <3>1 DEF SavedHomesAreLeaves, Leaves, LeafCount
    <3>3. block.id \in MappedIds
      BY <1>3, <3>1 DEF FilesOK, Block
    <3> QED BY <1>1, <3>2, <3>3 DEF LoadedMap
  <2> QED BY <1>6, <2>1 DEF HomesAreLeaves, Leaves, LeafCount
<1> QED BY <1>4, <1>7, <1>8, <1>9, <1>10 DEF AgreeInv, PathInv

\* A new client has nothing in the cache and nothing buffered.
LEMMA ReloadIsFlushed ==
  ASSUME Reload, storage' \in [Locations -> SUBSET Block],
         \A l \in Locations : Small(storage'[l])
  PROVE  FlushInv' /\ BucketsSmall' /\ BufferSmall'
<1>1. disk' = storage' /\ cache' = NoCache /\ response' = <<>>
  BY DEF Reload, End
<1>2. FlushInv'
  BY <1>1 DEF FlushInv, NoCache
<1>3. BucketsSmall'
  BY <1>1 DEF BucketsSmall, Tree, NoCache, Small, Ids
<1>4. BufferSmall'
  <2>1. Buffered' = {}
    BY <1>1 DEF Buffered
  <2> QED BY <2>1, FS_EmptySet, SizesAssumption DEF BufferSmall
<1> QED BY <1>2, <1>3, <1>4

LEMMA ReloadIsCurrent ==
  ASSUME DurableInv, Reload
  PROVE  StoredIsCurrent'
<1>1. PICK garbage \in [MappedIds -> Uninitialised] : position' = LoadedMap(garbage)
  BY DEF Reload
<1>2. /\ stash' = stashFile' /\ cache' = NoCache /\ pc' = "returned"
      /\ mapFile' = mapFile /\ stored' = stored
  BY DEF Reload, End
<1>3. ASSUME "map" \in stored
      PROVE  mapFile = position'
  <2>1. mapFile = position /\ position \in [MappedIds -> Nat]
    BY <1>3 DEF DurableInv, StoredIsCurrent, AgreeInv, PathInv, TypeOK
  <2> QED BY <1>1, <2>1 DEF LoadedMap
<1> QED BY <1>2, <1>3 DEF StoredIsCurrent, Idle

LEMMA CrashKeepsSaved ==
  ASSUME DurableInv, CrashInSync
  PROVE  /\ SavedInv' /\ storage' \in [Locations -> SUBSET Block]
         /\ \A l \in Locations : Small(storage'[l])
<1> USE DEF DurableInv, AgreeInv, PathInv
<1>1. PICK written \in SUBSET DOMAIN cache :
        storage' = [l \in Locations |->
                      IF l \in written THEN PadAll(cache[l]) ELSE storage[l]]
  BY DEF CrashInSync
<1>2. storage' \in [Locations -> SUBSET Block]
  BY <1>1, PadAllType DEF TypeOK
<1>3. /\ mapFile' = mapFile /\ stashFile' = stashFile /\ stored' \subseteq Files
      /\ unsaved' = unsaved \cup Moved
  BY DEF CrashInSync, Reload, SavedInv, FilesOK
<1>4. ASSUME NEW l \in Locations PROVE Small(storage'[l])
  <2>1. CASE l \in written
    <3>1. Tree[l] = cache[l] /\ cache[l] \in SUBSET Block
      BY <2>1 DEF Tree, TypeOK
    <3>2. Ids(storage'[l]) = Ids(Tree[l])
      BY <1>1, <2>1, <3>1, PadAllType
    <3> QED BY <3>2 DEF BucketsSmall, Small
  <2>2. CASE l \notin written
    BY <1>1, <2>2 DEF BucketsSmall
  <2> QED BY <2>1, <2>2
<1> QED BY <1>2, <1>3, <1>4, UploadKeepsSaved

\* A kill is as good as an upload that leaves the last bucket out.
LEMMA RestartKeepsSaved ==
  ASSUME DurableInv, Restart
  PROVE  /\ SavedInv' /\ storage' \in [Locations -> SUBSET Block]
         /\ \A l \in Locations : Small(storage'[l])
<1> USE DEF DurableInv, AgreeInv, PathInv
<1>1. storage' \in {storage, disk}
  BY DEF Restart
<1>2. storage' \in [Locations -> SUBSET Block]
  BY <1>1 DEF TypeOK, FlushInv
<1>3. /\ mapFile' = mapFile /\ stashFile' = stashFile /\ stored' \subseteq Files
      /\ unsaved' = unsaved \cup Moved
  BY DEF Restart, Reload, SavedInv, FilesOK
<1>4. \A l \in Locations : Small(storage'[l])
  BY <1>1 DEF BucketsSmall
<1> QED BY <1>2, <1>3, <1>4, UploadKeepsSaved

-----------------------------------------------------------------------------
(***************************************************************************)
(* What a call does to the file.                                           *)
(***************************************************************************)
LEMMA LevelsNotEmpty == \A to : Path(to) # {}
<1>1. 0 \in Levels
  BY HeightFacts DEF Levels
<1> QED BY <1>1 DEF Path

\* Only an upload changes the storage.
LEMMA UploadOrNot ==
  ASSUME TypeOK, Next
  PROVE  /\ storage' # storage => (Sync \/ SyncFails) /\ Uploads
         /\ ~ (Sync \/ SyncFails) => ~ Uploads
<1>1. Sync \/ SyncFails => Accepted /\ pc = "sync"
  BY DEF Sync, SyncFails
<1>2. SyncRejects => ~ Accepted
  BY DEF SyncRejects, Accepted
<1>3. ~ (Sync \/ SyncFails) => ~ Uploads /\ storage' = storage
  BY <1>2 DEF Uploads, Next, Call, Get, Put, Multiple, MultipleTooMany, Begin, Prefetch,
        PrefetchThrows, Access, Remap, RemapThrows, ReadPath, ReadPathOverflows,
        ReadPathThrows, Update, UpdateOverflows, WritePath, SyncRejects, Idle
<1>4. (Sync \/ SyncFails) /\ DOMAIN cache = {} => storage' = storage
  BY DEF Sync, SyncFails, TypeOK
<1> QED BY <1>1, <1>3, <1>4 DEF Uploads

LEMMA AnswersAreRead ==
  ASSUME TypeOK, FlushInv, Next
  PROVE  response' # <<>> => DOMAIN cache' # {}
<1> SUFFICES ASSUME response' # <<>> PROVE DOMAIN cache' # {}
  OBVIOUS
<1>1. CASE Call
  <2>1. response' = response /\ cache' = cache
    BY <1>1 DEF Call, Get, Put, Multiple, MultipleTooMany, Begin
  <2> QED BY <2>1 DEF FlushInv
<1>2. CASE Prefetch \/ Remap \/ ReadPath \/ WritePath
  <2>1. response' = response /\ DOMAIN cache \subseteq DOMAIN cache'
    BY <1>2 DEF Prefetch, Remap, ReadPath, WritePath, Download, SetCache
  <2> QED BY <2>1 DEF FlushInv
<1>3. CASE Update
  <2>1. Path(leaf) \subseteq DOMAIN cache /\ cache' = cache
    BY <1>3 DEF Update, TypeOK
  <2> QED BY <2>1, LevelsNotEmpty
<1>4. ASSUME ~ (Call \/ Prefetch \/ Remap \/ ReadPath \/ Update \/ WritePath)
      PROVE  response' = <<>>
  BY <1>4 DEF Next, Access, PrefetchThrows, RemapThrows, ReadPathOverflows, ReadPathThrows,
        UpdateOverflows, Sync, SyncRejects, SyncFails, End
<1> QED BY <1>1, <1>2, <1>3, <1>4

LEMMA OperateFlushes ==
  ASSUME DurableInv, TypeOK', Operate
  PROVE  FlushInv'
<1> USE DEF DurableInv, AgreeInv, PathInv, FlushInv
<1>1. TypeOK /\ Next /\ Flush
  BY DEF Operate
<1>2. disk' \in [Locations -> SUBSET Block]
  BY <1>1 DEF Flush, WriteBuckets, ReadBuckets, TypeOK
<1>3. ~ LateFlush => disk' = storage'
  BY <1>1 DEF Flush
<1>4. response' # <<>> => DOMAIN cache' # {}
  BY <1>1, AnswersAreRead
<1>5. ASSUME DOMAIN cache' # {}, LateFlush PROVE disk' = storage'
  <2>1. ~ SyncFails
    BY <1>5, FilesAssumption DEF SyncFails
  <2>2. ~ Sync
    BY <1>5 DEF Sync, NoCache
  <2>3. ~ Uploads /\ storage' = storage
    BY <1>1, <2>1, <2>2, UploadOrNot
  <2>4. CASE Downloads
    BY <1>1, <1>5, <2>3, <2>4 DEF Flush, WriteBuckets, ReadBuckets
  <2>5. CASE ~ Downloads
    <3>1. DOMAIN cache # {}
      BY <1>5, <2>5 DEF Downloads
    <3> QED BY <1>1, <1>5, <2>3, <2>5, <3>1 DEF Flush, WriteBuckets, ReadBuckets
  <2> QED BY <2>4, <2>5
<1> QED BY <1>2, <1>3, <1>4, <1>5

\* A bucket of the tree takes up to Z blocks.
LEMMA NewBucketSmall ==
  ASSUME TypeOK, NEW level, Greedy(level), NEW l
  PROVE  Small(NewBucket(level, l))
<1>1. CASE LastLevel(l) = {}
  <2>1. Ids(NewBucket(level, l)) = {}
    BY <1>1 DEF NewBucket, Ids
  <2> QED BY <2>1, FS_EmptySet, SizesAssumption DEF Small
<1>2. CASE LastLevel(l) # {}
  <2>1. PICK k \in Levels : k \in LastLevel(l)
    BY <1>2 DEF LastLevel
  <2>2. \A j \in LastLevel(l) : j = k
    BY <2>1, HeightFacts DEF LastLevel, Levels
  <2>3. NewBucket(level, l) = PlacedAt(level, k)
    BY <2>1, <2>2 DEF NewBucket, PlacedAt
  <2>4. Fitting(level, k) \subseteq stash /\ PlacedAt(level, k) \subseteq stash
    BY DEF Fitting, PlacedAt
  <2>5. UniqueIds(Fitting(level, k)) /\ UniqueIds(PlacedAt(level, k))
    BY <2>4 DEF TypeOK, UniqueIds
  <2>6. Cardinality(Fitting(level, k)) \in Nat
    BY <2>4, <2>5, AsManyAsIds, FS_CardinalityType DEF TypeOK
  <2>7. Cardinality(PlacedAt(level, k)) <= Z
    BY <2>1, <2>6, SizesAssumption DEF Greedy
  <2>8. Cardinality(Ids(PlacedAt(level, k))) = Cardinality(PlacedAt(level, k))
    BY <2>4, <2>5, AsManyAsIds DEF TypeOK
  <2> QED BY <2>3, <2>7, <2>8 DEF Small
<1> QED BY <1>1, <1>2

LEMMA OperateKeepsSmall ==
  ASSUME DurableInv, Operate
  PROVE  BucketsSmall'
<1> USE DEF DurableInv, AgreeInv, PathInv
<1>1. TypeOK /\ Next /\ Flush
  BY DEF Operate
<1>2. ASSUME NEW l \in Locations PROVE Small(Tree'[l])
  <2>1. CASE WritePath
    <3>1. PICK level \in [stash -> Levels \cup {Stays}] : Greedy(level) /\ SetCache(level)
      BY <2>1 DEF WritePath
    <3>2. Tree'[l] = IF l \in Path(leaf) THEN NewBucket(level, l) ELSE Tree[l]
      BY <1>1, <2>1, <3>1, WrittenTree DEF WritePath
    <3> QED BY <1>1, <3>1, <3>2, NewBucketSmall DEF BucketsSmall
  <2>2. CASE Remap \/ Update \/ UpdateOverflows
    BY <2>2 DEF Remap, Update, UpdateOverflows, BucketsSmall, Tree
  <2>3. CASE ReadPath \/ ReadPathOverflows
    <3>1. Tree' = Tree
      BY <1>1, <2>3, DownloadKeepsTree DEF ReadPath, ReadPathOverflows
    <3> QED BY <3>1 DEF BucketsSmall
  <2>4. CASE Other
    <3>1. Ids(Tree'[l]) = Ids(Tree[l])
      BY <1>1, <2>4, OtherKeepsIds
    <3> QED BY <3>1 DEF BucketsSmall, Small
  <2> QED BY <1>1, <2>1, <2>2, <2>3, <2>4 DEF Next, Access, Other
<1>3. ASSUME NEW l \in Locations PROVE Small(storage'[l])
  <2>1. CASE storage'[l] = storage[l]
    BY <2>1 DEF BucketsSmall
  <2>2. CASE storage'[l] # storage[l]
    <3>1. l \in DOMAIN cache /\ storage'[l] = PadAll(cache[l])
      BY <1>1, <2>2, UploadOrNot DEF Sync, SyncFails
    <3>2. Ids(storage'[l]) = Ids(Tree[l])
      BY <1>1, <3>1, PadAllType DEF Tree, TypeOK
    <3> QED BY <3>2 DEF BucketsSmall, Small
  <2> QED BY <2>1, <2>2
<1>4. ASSUME NEW l \in Locations PROVE Small(disk'[l])
  <2>1. storage' \in [Locations -> SUBSET Block] \/ storage' = storage
    BY <1>1, SyncType, UploadOrNot DEF TypeOK
  <2>2. disk'[l] \in {storage'[l], storage[l], disk[l]}
    BY <1>1, <2>1 DEF Flush, WriteBuckets, ReadBuckets, TypeOK
  <2> QED BY <1>3, <2>2 DEF BucketsSmall
<1> QED BY <1>2, <1>3, <1>4 DEF BucketsSmall

\* What is buffered has left or entered one bucket.
LEMMA OperateBuffers ==
  ASSUME DurableInv, TypeOK', Operate
  PROVE  /\ BufferSmall'
         /\ Buffered' \in {Buffered, {}} \/ storage' # storage
<1> USE DEF DurableInv, AgreeInv, PathInv
<1>1. TypeOK /\ Next /\ Flush
  BY DEF Operate
<1>2. CASE disk' = storage'
  <2>1. Buffered' = {}
    BY <1>2 DEF Buffered
  <2> QED BY <2>1, FS_EmptySet, SizesAssumption DEF BufferSmall
<1>3. CASE disk' # storage' /\ storage' = storage
  <2>1. disk' = disk
    <3>1. DOMAIN cache # {} => disk = storage
      BY DEF FlushInv
    <3> QED BY <1>1, <1>3, <3>1 DEF Flush, WriteBuckets, ReadBuckets, TypeOK
  <2>2. Buffered' = Buffered
    BY <1>3, <2>1 DEF Buffered
  <2> QED BY <2>2 DEF BufferSmall
<1>4. CASE disk' # storage' /\ storage' # storage
  <2>1. LateFlush /\ Uploads /\ ~ Downloads
    <3>1. DOMAIN cache' \subseteq DOMAIN cache
      BY <1>1, <1>4, UploadOrNot DEF Sync, SyncFails, NoCache, PaddedCache
    <3> QED BY <1>1, <1>4, <3>1, UploadOrNot DEF Flush, Downloads
  <2>2. PICK last \in DOMAIN cache : disk' = [storage' EXCEPT ![last] = storage[last]]
    BY <1>1, <1>4, <2>1 DEF Flush, WriteBuckets, ReadBuckets
  <2> DEFINE old == Ids(storage[last])
             new == Ids(storage'[last])
  <2>3. last \in Locations
    BY <2>2 DEF TypeOK
  <2>4. Buffered' \subseteq old \cup new
    BY <2>2, <2>3 DEF Buffered, CopiesIn, Ids, TypeOK
  <2>5. old \subseteq MappedIds /\ new \subseteq MappedIds
    BY <2>3 DEF TypeOK, Ids, Block
  <2>6. IsFiniteSet(old) /\ IsFiniteSet(new)
    BY <2>5, MappedFinite, FS_Subset
  <2>7. Cardinality(old) <= Z /\ Cardinality(new) <= Z
    BY <2>3, OperateKeepsSmall DEF BucketsSmall, Small
  <2> HIDE DEF old, new
  <2>8. /\ IsFiniteSet(old \cup new)
        /\ Cardinality(old \cup new) = Cardinality(old) + Cardinality(new) - Cardinality(old \cap new)
        /\ Cardinality(old \cap new) \in Nat /\ Cardinality(old) \in Nat /\ Cardinality(new) \in Nat
    BY <2>6, FS_Union, FS_Intersection, FS_CardinalityType
  <2>9. Cardinality(Buffered') <= Cardinality(old \cup new) /\ Cardinality(Buffered') \in Nat
    BY <2>4, <2>8, FS_Subset, FS_CardinalityType
  <2>10. Cardinality(Buffered') <= 2 * Z
    BY <2>7, <2>8, <2>9, SizesAssumption
  <2> QED BY <1>4, <2>1, <2>10 DEF BufferSmall
<1> QED BY <1>2, <1>3, <1>4

-----------------------------------------------------------------------------
LEMMA DurableInvStep == DurableInv /\ [DurableNext]_durableVars => DurableInv'
<1> SUFFICES ASSUME DurableInv, [DurableNext]_durableVars PROVE DurableInv'
  OBVIOUS
<1>1. CASE Operate
  <2>1. AgreeInv'
    BY <1>1, AgreeInvStep DEF DurableInv, Operate
  <2>2. SavedInv'
    BY <1>1, <2>1, UploadKeepsSaved
       DEF DurableInv, Operate, AgreeInv, PathInv, TypeOK
  <2>3. pc' = "returned" => cache' = NoCache
    BY <1>1 DEF Operate, Next, Call, Get, Put, Multiple, MultipleTooMany, Begin, Prefetch,
          PrefetchThrows, Access, Remap, RemapThrows, ReadPath, ReadPathOverflows,
          ReadPathThrows, Update, UpdateOverflows, WritePath, Advance, Sync, SyncRejects,
          SyncFails, End
  <2>4. StoredIsCurrent'
    BY <1>1, <2>3 DEF Operate, StoredIsCurrent
  <2>5. TypeOK'
    BY <2>1 DEF AgreeInv, PathInv
  <2>6. FlushInv' /\ BucketsSmall' /\ BufferSmall'
    BY <1>1, <2>5, OperateFlushes, OperateKeepsSmall, OperateBuffers
  <2> QED BY <2>1, <2>2, <2>4, <2>6 DEF DurableInv
<1>2. CASE StoreMap \/ StoreStash
  <2>1. /\ Idle /\ UNCHANGED vars /\ FilesOK'
        /\ unsaved' = stranded \cup {id \in MappedIds : Differs(id)'}
    BY <1>2, StoreFacts
  <2>2. AgreeInv'
    BY <2>1, AgreeInvStep DEF DurableInv
  <2>3. SavedInv'
    BY <2>1, StoreKeepsSaved
  <2>4. StoredIsCurrent'
    BY <1>2, <2>1, StoreFacts DEF DurableInv, StoredIsCurrent, vars, Idle
  <2>5. UNCHANGED disk
    BY <1>2 DEF StoreMap, StoreStash
  <2>6. FlushInv' /\ BucketsSmall' /\ BufferSmall'
    BY <2>1, <2>5 DEF DurableInv, FlushInv, BucketsSmall, BufferSmall, Buffered, Tree, vars
  <2> QED BY <2>2, <2>3, <2>4, <2>6 DEF DurableInv
<1>3. CASE Restart
  <2>1. /\ SavedInv' /\ storage' \in [Locations -> SUBSET Block]
        /\ \A l \in Locations : Small(storage'[l])
    BY <1>3, RestartKeepsSaved
  <2>2. Reload
    BY <1>3 DEF Restart
  <2> QED BY <2>1, <2>2, ReloadKeepsAgree, ReloadIsCurrent, ReloadIsFlushed DEF DurableInv
<1>4. CASE CrashInSync
  <2>1. /\ SavedInv' /\ storage' \in [Locations -> SUBSET Block]
        /\ \A l \in Locations : Small(storage'[l])
    BY <1>4, CrashKeepsSaved
  <2>2. Reload
    BY <1>4 DEF CrashInSync
  <2> QED BY <2>1, <2>2, ReloadKeepsAgree, ReloadIsCurrent, ReloadIsFlushed DEF DurableInv
<1>5. CASE UNCHANGED durableVars
  <2>1. UNCHANGED vars
    BY <1>5 DEF durableVars
  <2>2. AgreeInv'
    BY <2>1, AgreeInvStep DEF DurableInv
  <2>3. SavedInv' /\ StoredIsCurrent'
    BY <1>5 DEF durableVars, vars, DurableInv, SavedInv, FilesOK, SavedOnItsPath,
          SavedCopiesAgree, SavedHomesAreLeaves, UniqueIds, Path, StoredIsCurrent, Idle
  <2>4. FlushInv' /\ BucketsSmall' /\ BufferSmall'
    BY <1>5 DEF DurableInv, FlushInv, BucketsSmall, BufferSmall, Buffered, Tree, durableVars, vars
  <2> QED BY <2>2, <2>3, <2>4 DEF DurableInv
<1> QED BY <1>1, <1>2, <1>3, <1>4, <1>5 DEF DurableNext

-----------------------------------------------------------------------------
(***************************************************************************)
(* Every step of Persistence is a step of DurableBlockStore or leaves it   *)
(* unchanged.                                                              *)
(***************************************************************************)
Saved == [id \in MappedIds |-> IF id \in unsaved THEN Lost ELSE Padded(Recovered(id))]

LEMMA SameSaved ==
  ASSUME UNCHANGED <<storage, stashFile, unsaved>>
  PROVE  Saved' = Saved
<1>1. \A id : Recovered(id)' = Recovered(id)
  BY DEF Recovered, CopiesIn, InStorage
<1> QED BY <1>1 DEF Saved

\* An upload can lose the blocks it moves; of the others a restart knows what
\* it knew.
LEMMA UploadSaves ==
  ASSUME unsaved' = unsaved \cup Moved, stashFile' = stashFile, NEW id \in MappedIds
  PROVE  Saved'[id] \in {Saved[id], Lost}
<1>1. CASE id \in unsaved'
  BY <1>1 DEF Saved
<1>2. CASE id \notin unsaved'
  <2>1. InStorage(id)' = InStorage(id)
    BY <1>2, NotMoved
  <2>2. Recovered(id)' = Recovered(id)
    BY <2>1 DEF Recovered, CopiesIn
  <2> QED BY <1>2, <2>2 DEF Saved
<1> QED BY <1>1, <1>2

\* A restart can lose the blocks that were buffered, and no others.
LEMMA RestartSaves ==
  ASSUME Restart, TypeOK, FlushInv, NEW id \in MappedIds
  PROVE  Saved'[id] \in {Saved[id]} \cup (IF id \in Buffered THEN {Lost} ELSE {})
<1>1. /\ storage' \in {storage, disk} /\ unsaved' = unsaved \cup Moved
      /\ stashFile' = stashFile
  BY DEF Restart, Reload
<1>2. CASE id \in Buffered
  BY <1>1, <1>2, UploadSaves
<1>3. CASE id \notin Buffered
  <2>1. id \notin Moved
    BY <1>1, <1>3 DEF Moved, Buffered
  <2>2. InStorage(id)' = InStorage(id)
    BY <2>1, NotMoved
  <2>3. Recovered(id)' = Recovered(id)
    BY <1>1, <2>2 DEF Recovered, CopiesIn
  <2> QED BY <1>1, <2>1, <2>3 DEF Saved
<1> QED BY <1>2, <1>3

\* The block store of Durable is the one of Contract.
LEMMA SameBlockStore ==
  /\ Contract!Init => Durable!Init
  /\ Contract!Next => Durable!Next
  /\ UNCHANGED Contract!vars => UNCHANGED Durable!vars
BY DEF Contract!Init, Durable!Init, Contract!Next, Durable!Next, Contract!vars, Durable!vars,
       Contract!Call, Durable!Call, Contract!Refuse, Durable!Refuse,
       Contract!ServeRead, Durable!ServeRead, Contract!ServeWrite, Durable!ServeWrite,
       Contract!Return, Durable!Return, Contract!Throw, Durable!Throw,
       Contract!Ended, Durable!Ended, Contract!Finish, Durable!Finish,
       Contract!Serving, Durable!Serving, Contract!Unserved, Durable!Unserved

LEMMA SameCardinality == \A S : Durable!Cardinality(S) = Cardinality(S)
BY DEF Durable!Cardinality, Cardinality

LEMMA InSyncAllServed ==
  ASSUME TypeOK, pc = "sync"
  PROVE  (IF Idle THEN pc ELSE "running") = "running" /\ ~ Durable!Unserved
BY DEF TypeOK, Idle, Durable!Unserved, Durable!Serving

LEMMA OperateSaves ==
  ASSUME IdsFitInt, DurableInv, DurableInv', Operate
  PROVE  \/ Durable!Operate \/ Durable!Drain
         \/ UNCHANGED <<Durable!vars, Saved, stored, Buffered>>
<1>1. AgreeInv /\ AgreeInv' /\ TypeOK
  BY DEF DurableInv, AgreeInv, PathInv
<1>2. /\ Next /\ stored' = {} /\ unsaved' = unsaved \cup Moved
      /\ stashFile' = stashFile
  BY DEF Operate
<1>3. storage' = storage => Saved' = Saved
  <2>1. storage' = storage => Moved = {}
    BY DEF Moved
  <2> QED BY <1>2, <2>1, SameSaved
<1>6. BufferSmall' /\ (response' # <<>> => Buffered' = {})
  BY DEF DurableInv, FlushInv, Buffered
<1>7. Buffered' \in {Buffered, {}} \/ storage' # storage
  BY <1>1, OperateBuffers DEF AgreeInv, PathInv
<1>4. CASE Prefetch \/ Remap \/ ReadPath \/ WritePath
  <2>1. UNCHANGED Contract!vars
    BY <1>1, <1>4, InnerStutters
  <2>2. storage' = storage /\ ~ Idle
    BY <1>4 DEF Prefetch, Remap, ReadPath, WritePath, Idle
  <2>3. stored = {}
    BY <2>2 DEF DurableInv, StoredIsCurrent
  <2>4. UNCHANGED <<Durable!vars, Saved, stored>>
    BY <1>2, <1>3, <2>1, <2>2, <2>3, SameBlockStore
  <2>5. CASE Buffered' = Buffered
    BY <2>4, <2>5
  <2>6. CASE Buffered' = {}
    BY <2>2, <2>4, <2>6 DEF Durable!Drain, Saved
  <2> QED BY <1>7, <2>2, <2>5, <2>6
<1>5. CASE ~ (Prefetch \/ Remap \/ ReadPath \/ WritePath)
  <2>1. Durable!Next
    BY <1>1, <1>2, <1>5, SameBlockStore, CallServes, EndsKeepContents, ReadThrows,
       UpdateServes DEF Next, Access, Contract!Next
  <2>2. CASE Sync \/ SyncFails
    <3>1. Durable!Uploads
      <4>1. pc = "sync" /\ pc' \in {"returned", "threw"}
        BY <2>2 DEF Sync, SyncFails, End
      <4>2. (IF Idle THEN pc ELSE "running")' # "running"
        BY <4>1 DEF Idle
      <4> QED BY <1>1, <4>1, <4>2, InSyncAllServed DEF Durable!Uploads
    <3>2. \A id \in MappedIds : Saved'[id] \in {Saved[id], Lost}
      BY <1>2, UploadSaves
    <3> QED BY <1>2, <1>6, <2>1, <3>1, <3>2, SameCardinality
               DEF Durable!Operate, Durable!AtMost, Saved, BufferSmall
  <2>3. CASE ~ (Sync \/ SyncFails)
    <3>1. storage' = storage
      BY <1>2, <2>3 DEF Next, Call, Get, Put, Multiple, MultipleTooMany, Begin, Prefetch,
            PrefetchThrows, Access, Remap, RemapThrows, ReadPath, ReadPathOverflows,
            ReadPathThrows, Update, UpdateOverflows, WritePath, SyncRejects
    <3>2. Saved' = Saved
      BY <1>3, <3>1
    <3>3. \A id \in MappedIds : Saved'[id] \in {Saved[id], Lost}
      BY <3>2
    <3> QED BY <1>2, <1>6, <1>7, <2>1, <3>1, <3>2, <3>3, SameCardinality
               DEF Durable!Operate, Durable!AtMost, Saved, BufferSmall
  <2> QED BY <2>2, <2>3
<1> QED BY <1>4, <1>5

LEMMA StoreSaves ==
  ASSUME DurableInv, DurableInv', StoreMap \/ StoreStash
  PROVE  \E file \in Files : Durable!Store(file) \/ Durable!StoreInPart(file)
<1> USE DEF DurableInv, AgreeInv, PathInv
<1>1. /\ Idle /\ UNCHANGED vars
      /\ unsaved' = stranded \cup {id \in MappedIds : Differs(id)'}
      /\ "map" \in stored' => mapFile' = position
      /\ "stash" \in stored' => stashFile' = stash
  BY StoreFacts
<1>2. PICK file \in Files : stored' \in {stored \cup {file}, stored \ {file}}
  BY StoreFacts
<1>3. UNCHANGED <<Durable!vars, Buffered>> /\ Contents' = Contents
  <2>1. Contents' = Contents
    BY <1>1, SameCopiesSameContents DEF vars, Tree
  <2>2. disk' = disk
    BY DEF StoreMap, StoreStash
  <2>3. Buffered' = Buffered
    BY <1>1, <2>2 DEF Buffered, vars
  <2> QED BY <1>1, <2>1, <2>3 DEF Durable!vars, vars, Idle
<1>4. Durable!Ended
  BY <1>1 DEF Idle, Durable!Ended
<1>5. ASSUME NEW id \in MappedIds, id \notin unsaved'
      PROVE  Saved'[id] = Contents[id]
  <2>1. ~ Differs(id)' /\ id \notin stranded
    BY <1>1, <1>5
  <2>2. InStorage(id)' = TreeCopies(id) /\ CopiesIn(stashFile', id) = Copies(id)
    BY <1>1, <2>1, SameInStorage DEF vars
  <2>3. Recovered(id)' = Stored(id)
    BY <2>2 DEF Recovered, Stored
  <2> QED BY <1>5, <2>1, <2>3 DEF Saved, Contents
<1>6. \A id \in MappedIds : Saved'[id] \in {Contents[id], Lost}
  BY <1>5 DEF Saved
<1>7. ASSUME stored' = Files, pc = "returned"
      PROVE  Saved' = Contents
  <2>1. mapFile' = position /\ stashFile' = stash /\ cache = NoCache /\ UNCHANGED vars
    BY <1>1, <1>7 DEF Files, StoredIsCurrent
  <2>2. DOMAIN cache = {} /\ DOMAIN position = MappedIds
    BY <2>1 DEF NoCache, TypeOK
  <2>3. \A id \in MappedIds : ~ Differs(id)'
    BY <2>1, <2>2 DEF Differs, vars, CopiesIn
  <2>4. unsaved' = stranded
    BY <1>1, <2>3
  <2>5. \A id \in MappedIds : Saved'[id] = Contents[id]
    BY <1>5, <2>4 DEF Saved, Contents
  <2> QED BY <2>5 DEF Saved, Contents
<1>8. CASE stored' = stored \cup {file}
  <2>1. Durable!Store(file)
    BY <1>3, <1>4, <1>6, <1>7, <1>8 DEF Durable!Store, Durable!AtMost, Saved, Idle
  <2> QED BY <2>1
<1>9. CASE stored' = stored \ {file}
  <2>1. Durable!StoreInPart(file)
    BY <1>3, <1>4, <1>6, <1>9 DEF Durable!StoreInPart, Durable!AtMost, Saved
  <2> QED BY <2>1
<1> QED BY <1>2, <1>8, <1>9

LEMMA ReloadServesSaved ==
  ASSUME Reload
  PROVE  Durable!Reload
<1>1. /\ stash' = stashFile' /\ cache' = NoCache /\ stranded' = unsaved' /\ stored' = stored
      /\ pc' = "returned" /\ requests' = <<>> /\ response' = <<>>
  BY DEF Reload, End
<1>2. InTree' = UNION {storage'[l] : l \in Locations}
  BY <1>1 DEF InTree, Tree, NoCache
<1>3. \A id : Copies(id)' = CopiesIn(stashFile', id) /\ TreeCopies(id)' = InStorage(id)'
  BY <1>1, <1>2 DEF Copies, CopiesIn, TreeCopies, InStorage
<1>4. ASSUME NEW id PROVE Stored(id)' = Recovered(id)'
  <2>1. Copies(id)' = CopiesIn(stashFile', id) /\ TreeCopies(id)' = InStorage(id)'
    BY <1>3
  <2> QED BY <2>1 DEF Stored, Recovered
<1>5. Contents' = Saved'
  BY <1>1, <1>4 DEF Contents, Saved
<1>6. (IF Idle THEN pc ELSE "running")' = "returned"
  BY <1>1 DEF Idle
<1>7. Buffered' = {}
  BY DEF Reload, Buffered
<1> QED BY <1>1, <1>5, <1>6, <1>7 DEF Durable!Reload, Saved

LEMMA DurableStep ==
  ASSUME IdsFitInt, DurableInv, DurableInv', [DurableNext]_durableVars
  PROVE  Durable!DurableNext \/ UNCHANGED <<Durable!vars, Saved, stored, Buffered>>
<1>1. CASE Operate
  BY <1>1, OperateSaves DEF Durable!DurableNext
<1>2. CASE StoreMap \/ StoreStash
  BY <1>2, StoreSaves DEF Durable!DurableNext
<1>3. CASE Restart
  <2>1. \A id \in MappedIds :
          Saved'[id] \in {Saved[id]} \cup (IF id \in Buffered THEN {Lost} ELSE {})
    BY <1>3, RestartSaves DEF DurableInv, AgreeInv, PathInv
  <2>2. Durable!Reload
    BY <1>3, ReloadServesSaved DEF Restart
  <2> QED BY <2>1, <2>2 DEF Durable!DurableNext, Durable!Restart, Saved
<1>4. CASE CrashInSync
  <2>1. \A id \in MappedIds : Saved'[id] \in {Saved[id], Lost}
    BY <1>4, UploadSaves DEF CrashInSync, Reload
  <2>2. Durable!Reload
    BY <1>4, ReloadServesSaved DEF CrashInSync
  <2>3. (IF Idle THEN pc ELSE "running") = "running" /\ ~ Durable!Unserved
    BY <1>4, InSyncAllServed DEF CrashInSync, DurableInv, AgreeInv, PathInv
  <2> QED BY <2>1, <2>2, <2>3 DEF Durable!DurableNext, Durable!CrashInUpload,
             Durable!AtMost, Saved
<1>5. CASE UNCHANGED durableVars
  <2>1. UNCHANGED vars /\ Saved' = Saved /\ stored' = stored /\ Buffered' = Buffered
    BY <1>5, SameSaved DEF durableVars, vars, Buffered
  <2>2. Contents' = Contents
    BY <2>1, SameCopiesSameContents DEF vars, Tree
  <2> QED BY <2>1, <2>2 DEF Durable!vars, vars, Idle
<1> QED BY <1>1, <1>2, <1>3, <1>4, <1>5 DEF DurableNext

LEMMA DurableInitSaved == DurableInit => Durable!DurableInit
<1> SUFFICES ASSUME DurableInit PROVE Durable!DurableInit
  OBVIOUS
<1>1. Durable!Init
  BY ContractInit, SameBlockStore DEF DurableInit
<1>2. Saved = Contents
  <2>1. /\ stashFile = stash /\ unsaved = {} /\ stranded = {} /\ cache = NoCache
    BY DEF DurableInit, Init
  <2>2. InTree = UNION {storage[l] : l \in Locations}
    BY <2>1 DEF InTree, Tree, NoCache
  <2>3. \A id : CopiesIn(stashFile, id) = Copies(id) /\ InStorage(id) = TreeCopies(id)
    BY <2>1, <2>2 DEF CopiesIn, Copies, InStorage, TreeCopies
  <2>4. ASSUME NEW id PROVE Recovered(id) = Stored(id)
    <3>1. CopiesIn(stashFile, id) = Copies(id) /\ InStorage(id) = TreeCopies(id)
      BY <2>3
    <3> QED BY <3>1 DEF Recovered, Stored
  <2> QED BY <2>1, <2>4 DEF Saved, Contents
<1>3. Buffered = {}
  BY NothingBuffered DEF DurableInit
<1> QED BY <1>1, <1>2, <1>3 DEF Durable!DurableInit, DurableInit, Saved

-----------------------------------------------------------------------------
\* A restart brings the blocks back on the paths of the stored map, whatever
\* part of the files was written, wherever the client was, and whichever bucket
\* of a file storage was lost with a client that was killed.
THEOREM RestartKeepsPaths == DurableSpec => []BlockOnItsPath
<1>1. DurableInv => BlockOnItsPath
  BY DEF DurableInv, AgreeInv, PathInv
<1> QED BY DurableInvInit, DurableInvStep, <1>1, PTL DEF DurableSpec

\* After a restart, too, the copies of a block hold the same payload; a kill that
\* brings back an older bucket has its blocks recorded as lost.
THEOREM RestartKeepsCopies == DurableSpec => []CopiesAgree
<1>1. DurableInv => CopiesAgree
  BY DEF DurableInv, AgreeInv
<1> QED BY DurableInvInit, DurableInvStep, <1>1, PTL DEF DurableSpec

\* The ORAM with its files is a durable block store: storing both files after
\* a call that returned saves every block, and of a block no upload has moved
\* since, a restart at any point brings back exactly what was saved.  A kill
\* costs a file storage at most the 2 Z blocks of the bucket in its buffer, and
\* a storage on a server nothing.
THEOREM DurableRefinement ==
  ASSUME IdsFitInt PROVE DurableSpec => ImplementsDurableBlockStore
<1>1. DurableInv /\ DurableInv' /\ [DurableNext]_durableVars
        => Durable!DurableNext \/ UNCHANGED <<Durable!vars, Saved, stored, Buffered>>
  BY DurableStep
<1> QED
  BY DurableInvInit, DurableInvStep, DurableInitSaved, <1>1, PTL
     DEF DurableSpec, ImplementsDurableBlockStore, Durable!DurableSpec, Saved
=============================================================================
