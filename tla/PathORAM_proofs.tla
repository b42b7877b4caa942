--------------------------- MODULE PathORAM_proofs ---------------------------
(***************************************************************************)
(* Proofs about PathORAM, for every height, bucket size, stash, storage    *)
(* and set of payloads.                                                    *)
(***************************************************************************)
EXTENDS PathORAM, TLAPS

-----------------------------------------------------------------------------
(***************************************************************************)
(* Facts about the data.                                                   *)
(***************************************************************************)
\* The leaves access and the constructor draw are numbers.
LEMMA LeavesAreNumbers == Leaves \subseteq Nat
BY DEF Leaves

\* Padding twice is padding once (storage-adapter.cpp:139-142).
LEMMA PaddedTwice ==
  ASSUME NEW p \in Payload
  PROVE  Padded(Padded(p)) = Padded(p)
BY SizesAssumption, DataAssumption DEF Payload, Padded, EmptyPayload

LEMMA PayloadClosed ==
  /\ Data \subseteq Payload
  /\ EmptyPayload \in Payload
  /\ \A p \in Payload : Padded(p) \in Payload
<1>1. Data \subseteq Payload /\ EmptyPayload \in Payload
  BY DEF Payload
<1>2. ASSUME NEW p \in Payload PROVE Padded(p) \in Payload
  <2>1. CASE p \in Data \cup {EmptyPayload}
    BY <2>1 DEF Payload
  <2>2. CASE p \notin Data \cup {EmptyPayload}
    <3>1. PICK q \in Data \cup {EmptyPayload} : p = Padded(q)
      BY <2>2 DEF Payload
    <3>2. q \in Payload
      BY DEF Payload
    <3> QED BY <3>1, <3>2, PaddedTwice
  <2> QED BY <2>1, <2>2
<1> QED BY <1>1, <1>2

\* Padding the blocks of a bucket keeps their type and their ids.
LEMMA PadAllType ==
  ASSUME NEW bucket \in SUBSET Block
  PROVE  PadAll(bucket) \in SUBSET Block /\ Ids(PadAll(bucket)) = Ids(bucket)
<1>1. \A block \in Block : PadBlock(block) \in Block /\ PadBlock(block).id = block.id
  BY PayloadClosed DEF PadBlock, Block
<1> QED BY <1>1 DEF PadAll, Ids

\* What the client takes the tree to hold is made of buckets.
LEMMA TreeType ==
  ASSUME TypeOK
  PROVE  Tree \in [Locations -> SUBSET Block]
BY DEF TypeOK, Tree

\* The end of a call resets its locals to values of their types.
LEMMA EndType ==
  ASSUME NEW outcome \in {"returned", "threw"}, End(outcome),
         storage' \in [Locations -> SUBSET Block],
         position' \in [MappedIds -> Nat],
         stash' \subseteq Block /\ UniqueIds(stash'),
         DOMAIN cache' \subseteq Locations,
         cache' \in [DOMAIN cache' -> SUBSET Block],
         stranded' \subseteq MappedIds
  PROVE  TypeOK'
BY DEF TypeOK, End, Request, Idle

\* Downloaded buckets are buckets.
LEMMA DownloadType ==
  ASSUME TypeOK, NEW locations \in SUBSET Locations, Download(locations)
  PROVE  /\ DOMAIN cache' = DOMAIN cache \cup locations
         /\ DOMAIN cache' \subseteq Locations
         /\ cache' \in [DOMAIN cache' -> SUBSET Block]
BY DEF TypeOK, Download

-----------------------------------------------------------------------------
(***************************************************************************)
(* Every variable keeps its type.                                          *)
(***************************************************************************)
LEMMA InitType == Init => TypeOK
<1> SUFFICES ASSUME Init PROVE TypeOK
  OBVIOUS
<1>1. position \in [MappedIds -> Nat]
  BY LeavesAreNumbers, SizesAssumption DEF Init
<1>2. storage \in [Locations -> SUBSET Block]
  BY DEF Init
<1>3. UniqueIds(stash) /\ stash \subseteq Block
  BY DEF Init, UniqueIds
<1>4. DOMAIN cache \subseteq Locations /\ cache \in [DOMAIN cache -> SUBSET Block]
  BY DEF Init, NoCache
<1>5. requests = <<>> /\ requests \in Seq(Request) /\ response \in Seq(Payload)
  BY DEF Init
<1> QED BY <1>1, <1>2, <1>3, <1>4, <1>5 DEF Init, TypeOK

LEMMA CallType == TypeOK /\ Call => TypeOK'
<1> SUFFICES ASSUME TypeOK, Call PROVE TypeOK'
  OBVIOUS
<1>1. ASSUME NEW batch \in Seq(Request), NEW first \in {"remap", "prefetch"},
             first = "remap" => Len(batch) >= 1
      PROVE  Idle /\ Begin(batch, first) => TypeOK'
  BY <1>1 DEF TypeOK, Begin, Idle, UniqueIds
<1>2. ASSUME NEW id \in ClientIds, Get(id) PROVE TypeOK'
  <2> DEFINE call == <<[id |-> id, read |-> TRUE, data |-> EmptyPayload]>>
  <2>1. call \in Seq(Request)
    BY PayloadClosed DEF Request
  <2>2. Len(call) >= 1
    OBVIOUS
  <2>3. Idle /\ Begin(call, "remap")
    BY <1>2 DEF Get
  <2> HIDE DEF call
  <2> QED BY <1>1, <2>1, <2>2, <2>3
<1>3. ASSUME NEW id \in ClientIds, NEW data \in Data, Put(id, data) PROVE TypeOK'
  <2> DEFINE call == <<[id |-> id, read |-> FALSE, data |-> data]>>
  <2>1. call \in Seq(Request)
    BY PayloadClosed DEF Request
  <2>2. Len(call) >= 1
    OBVIOUS
  <2>3. Idle /\ Begin(call, "remap")
    BY <1>3 DEF Put
  <2> HIDE DEF call
  <2> QED BY <1>1, <2>1, <2>2, <2>3
<1>4. ASSUME NEW batch \in Batches, Multiple(batch) PROVE TypeOK'
  <2>1. \A id \in ClientIds, data \in Data \cup {EmptyPayload} :
          MultipleRequest(id, data) \in Request
    BY PayloadClosed DEF MultipleRequest, Request
  <2>2. batch \in Seq(Request)
    BY <1>4, <2>1 DEF Batches
  <2> QED BY <1>1, <1>4, <2>2 DEF Multiple
<1>5. ASSUME MultipleTooMany PROVE TypeOK'
  BY <1>5 DEF MultipleTooMany, TypeOK, UniqueIds, Idle
<1> QED BY <1>2, <1>3, <1>4, <1>5 DEF Call

LEMMA PrefetchType == TypeOK /\ (Prefetch \/ PrefetchThrows) => TypeOK'
<1> SUFFICES ASSUME TypeOK PROVE Prefetch \/ PrefetchThrows => TypeOK'
  OBVIOUS
<1>1. ASSUME Prefetch PROVE TypeOK'
  <2>1. /\ DOMAIN cache' \subseteq Locations
        /\ cache' \in [DOMAIN cache' -> SUBSET Block]
    BY <1>1, DownloadType DEF Prefetch
  <2>2. requests # <<>> => Len(requests) >= 1
    BY DEF TypeOK
  <2> QED BY <1>1, <2>1, <2>2 DEF Prefetch, TypeOK, UniqueIds, Idle
<1>2. ASSUME PrefetchThrows PROVE TypeOK'
  BY <1>2, EndType DEF PrefetchThrows, TypeOK, UniqueIds
<1> QED BY <1>1, <1>2

LEMMA RemapType == TypeOK /\ (Remap \/ RemapThrows) => TypeOK'
<1> SUFFICES ASSUME TypeOK PROVE Remap \/ RemapThrows => TypeOK'
  OBVIOUS
<1>1. ASSUME Remap PROVE TypeOK'
  <2>1. position' \in [MappedIds -> Nat]
    BY <1>1, LeavesAreNumbers DEF Remap, TypeOK
  <2>2. Current' = Current /\ Current \in MappedIds
    BY <1>1 DEF Remap, Current
  <2>3. leaf' \in Nat
    BY <1>1, <2>2 DEF Remap, TypeOK
  <2> QED BY <1>1, <2>1, <2>2, <2>3 DEF Remap, TypeOK, UniqueIds, Idle
<1>2. ASSUME RemapThrows PROVE TypeOK'
  BY <1>2, EndType DEF RemapThrows, TypeOK, UniqueIds
<1> QED BY <1>1, <1>2

\* What readPath adds to the stash: one copy of each id it does not hold.
LEMMA StashAddType ==
  ASSUME TypeOK, Path(leaf) \subseteq Locations,
         NEW added \in SUBSET NewToStash, UniqueIds(added)
  PROVE  stash \cup added \subseteq Block /\ UniqueIds(stash \cup added)
<1>1. NewToStash \subseteq Block
  BY TreeType DEF NewToStash, OnPath
<1>2. \A a \in stash, b \in added : a.id # b.id
  BY DEF NewToStash, Ids
<1> QED BY <1>1, <1>2 DEF UniqueIds, TypeOK

LEMMA ReadType ==
  TypeOK /\ (ReadPath \/ ReadPathOverflows \/ ReadPathThrows) => TypeOK'
<1> SUFFICES ASSUME TypeOK
             PROVE  ReadPath \/ ReadPathOverflows \/ ReadPathThrows => TypeOK'
  OBVIOUS
<1>0. \A id \in MappedIds : Strand(id) => stranded' \subseteq MappedIds
  BY DEF Strand, TypeOK
<1>1. ASSUME ReadPath PROVE TypeOK'
  <2>1. /\ DOMAIN cache' = DOMAIN cache \cup Path(leaf)
        /\ DOMAIN cache' \subseteq Locations
        /\ cache' \in [DOMAIN cache' -> SUBSET Block]
    BY <1>1, DownloadType DEF ReadPath
  <2>2. stash' \subseteq Block /\ UniqueIds(stash')
    BY <1>1, StashAddType DEF ReadPath
  <2>3. Path(leaf)' = Path(leaf) /\ Current' = Current
    BY <1>1 DEF ReadPath, Path, Current
  <2> QED BY <1>1, <2>1, <2>2, <2>3 DEF ReadPath, TypeOK, Idle
<1>2. ASSUME ReadPathOverflows PROVE TypeOK'
  <2>1. /\ DOMAIN cache' \subseteq Locations
        /\ cache' \in [DOMAIN cache' -> SUBSET Block]
    BY <1>2, DownloadType DEF ReadPathOverflows
  <2>2. stash' \subseteq Block /\ UniqueIds(stash')
    BY <1>2, StashAddType DEF ReadPathOverflows
  <2>3. stranded' \subseteq MappedIds
    BY <1>0, <1>2 DEF ReadPathOverflows, TypeOK
  <2> QED BY <1>2, <2>1, <2>2, <2>3, EndType DEF ReadPathOverflows, TypeOK
<1>3. ASSUME ReadPathThrows PROVE TypeOK'
  <2>1. stranded' \subseteq MappedIds
    BY <1>0, <1>3 DEF ReadPathThrows, TypeOK
  <2> QED BY <1>3, <2>1, EndType DEF ReadPathThrows, TypeOK, UniqueIds
<1> QED BY <1>1, <1>2, <1>3

\* The answer to a request is a payload.
LEMMA StashGetType ==
  ASSUME NEW blocks \in SUBSET Block, NEW id
  PROVE  StashGet(blocks, id) \in Payload
<1>1. CASE id \in Ids(blocks)
  <2>1. \E block \in blocks : block.id = id
    BY <1>1 DEF Ids
  <2>2. (CHOOSE block \in blocks : block.id = id) \in Block
    BY <2>1
  <2> QED BY <1>1, <2>2 DEF StashGet, Block
<1>2. CASE id \notin Ids(blocks)
  BY <1>2, PayloadClosed DEF StashGet
<1> QED BY <1>1, <1>2

LEMMA UpdateType == TypeOK /\ (Update \/ UpdateOverflows) => TypeOK'
<1> SUFFICES ASSUME TypeOK PROVE Update \/ UpdateOverflows => TypeOK'
  OBVIOUS
<1>1. ASSUME Update PROVE TypeOK'
  <2>1. requests[next] \in Request /\ Current \in MappedIds
    BY <1>1 DEF Update, TypeOK
  <2>2. stash' \subseteq Block /\ UniqueIds(stash')
    <3>1. CASE requests[next].read
      BY <1>1, <3>1 DEF Update, TypeOK, UniqueIds
    <3>2. CASE ~ requests[next].read
      <4> DEFINE new == [id |-> Current, data |-> requests[next].data]
      <4>1. new \in Block /\ new.id = Current
        BY <2>1 DEF Block, Request
      <4>2. stash' = Without(stash, Current) \cup {new}
        BY <1>1, <3>2 DEF Update, StashPut
      <4> HIDE DEF new
      <4> QED BY <4>1, <4>2 DEF Without, UniqueIds, TypeOK
    <3> QED BY <3>1, <3>2
  <2>3. response' \in Seq(Payload) /\ Len(response') = Len(response) + 1
    BY <1>1, <2>2, StashGetType DEF Update, TypeOK
  <2>4. Path(leaf)' = Path(leaf) /\ Current' = Current
    BY <1>1 DEF Update, Path, Current
  <2> QED BY <1>1, <2>2, <2>3, <2>4 DEF Update, TypeOK, Idle
<1>2. ASSUME UpdateOverflows PROVE TypeOK'
  BY <1>2, EndType DEF UpdateOverflows, TypeOK, UniqueIds
<1> QED BY <1>1, <1>2

\* The buckets writePath puts in the cache hold blocks of the stash.
LEMMA SetCacheType ==
  ASSUME TypeOK, pc = "write", NEW level, SetCache(level)
  PROVE  /\ DOMAIN cache' = DOMAIN cache
         /\ cache' \in [DOMAIN cache' -> SUBSET Block]
<1>1. \A l : NewBucket(level, l) \subseteq Block
  BY DEF NewBucket, TypeOK
<1>2. DOMAIN cache \cup Path(leaf) = DOMAIN cache
  BY DEF TypeOK
<1> QED BY <1>1, <1>2 DEF SetCache, TypeOK

LEMMA WriteType == TypeOK /\ WritePath => TypeOK'
<1> SUFFICES ASSUME TypeOK, WritePath PROVE TypeOK'
  OBVIOUS
<1>1. PICK level \in [stash -> Levels \cup {Stays}] : SetCache(level)
  BY DEF WritePath
<1>2. /\ DOMAIN cache' \subseteq Locations
      /\ cache' \in [DOMAIN cache' -> SUBSET Block]
  BY <1>1, SetCacheType DEF WritePath, TypeOK
<1>3. stash' \subseteq stash
  BY DEF WritePath
<1>4. stash' \subseteq Block /\ UniqueIds(stash')
  BY <1>3 DEF TypeOK, UniqueIds
<1> QED BY <1>2, <1>4 DEF WritePath, Advance, TypeOK, Idle

LEMMA SyncType == TypeOK /\ (Sync \/ SyncRejects \/ SyncFails) => TypeOK'
<1> SUFFICES ASSUME TypeOK PROVE Sync \/ SyncRejects \/ SyncFails => TypeOK'
  OBVIOUS
<1>1. \A l \in DOMAIN cache : cache[l] \in SUBSET Block /\ PadAll(cache[l]) \in SUBSET Block
  BY PadAllType DEF TypeOK
<1>2. ASSUME Sync PROVE TypeOK'
  <2>1. storage' \in [Locations -> SUBSET Block]
    BY <1>1, <1>2 DEF Sync, TypeOK
  <2>2. DOMAIN cache' \subseteq Locations /\ cache' \in [DOMAIN cache' -> SUBSET Block]
    BY <1>2 DEF Sync, NoCache
  <2> QED BY <1>2, <2>1, <2>2, EndType DEF Sync, TypeOK, UniqueIds
<1>3. ASSUME SyncRejects PROVE TypeOK'
  <2>1. PICK done \in SUBSET {l \in DOMAIN cache : Fits(cache[l])},
             at \in {l \in DOMAIN cache : ~ Fits(cache[l])} :
          \E some \in SUBSET cache[at] :
            cache' = [l \in DOMAIN cache |->
                        CASE l \in done -> PadAll(cache[l])
                          [] l = at     -> PadAll(some) \cup (cache[l] \ some)
                          [] OTHER      -> cache[l]]
    BY <1>3 DEF SyncRejects
  <2>2. PICK some \in SUBSET cache[at] :
          cache' = [l \in DOMAIN cache |->
                      CASE l \in done -> PadAll(cache[l])
                        [] l = at     -> PadAll(some) \cup (cache[l] \ some)
                        [] OTHER      -> cache[l]]
    BY <2>1
  <2>3. PadAll(some) \in SUBSET Block
    BY <1>1, PadAllType
  <2>4. DOMAIN cache' = DOMAIN cache /\ cache' \in [DOMAIN cache -> SUBSET Block]
    BY <1>1, <2>2, <2>3
  <2> QED BY <1>3, <2>4, EndType DEF SyncRejects, TypeOK, UniqueIds
<1>4. ASSUME SyncFails PROVE TypeOK'
  <2>1. storage' \in [Locations -> SUBSET Block]
    BY <1>1, <1>4 DEF SyncFails, TypeOK
  <2>2. DOMAIN cache' = DOMAIN cache /\ cache' \in [DOMAIN cache -> SUBSET Block]
    BY <1>1, <1>4 DEF SyncFails, PaddedCache
  <2> QED BY <1>4, <2>1, <2>2, EndType DEF SyncFails, TypeOK, UniqueIds
<1> QED BY <1>2, <1>3, <1>4

\* TypeOK is inductive by itself.
THEOREM TypeCorrect == Spec => []TypeOK
<1>1. TypeOK /\ UNCHANGED vars => TypeOK'
  BY DEF TypeOK, vars, UniqueIds, Idle, Current, Path
<1>2. TypeOK /\ Next => TypeOK'
  BY CallType, PrefetchType, RemapType, ReadType, UpdateType, WriteType, SyncType
     DEF Next, Access
<1> QED BY InitType, <1>1, <1>2, PTL DEF Spec

-----------------------------------------------------------------------------
(***************************************************************************)
(* Every copy of a block in the tree is on the path the block is mapped    *)
(* to.  PathInStash is needed for an overflow in update: it must not leave *)
(* a copy of the block, already remapped, behind on the old path.          *)
(***************************************************************************)
PathInv == TypeOK /\ BlockOnItsPath /\ PathInStash

LEMMA PathInvInit == Init => PathInv
<1> SUFFICES ASSUME Init PROVE PathInv
  OBVIOUS
<1>1. \A l \in Locations : Tree[l] = {}
  BY DEF Init, Tree, NoCache
<1> QED BY <1>1, InitType DEF PathInv, BlockOnItsPath, PathInStash, Init

\* A download changes the cache, not what it and the storage hold together.
LEMMA DownloadKeepsTree ==
  ASSUME TypeOK, NEW locations \in SUBSET Locations, Download(locations),
         storage' = storage
  PROVE  Tree' = Tree
BY DownloadType DEF Tree, Download, TypeOK

\* Outside an access a block is mapped by the position map alone.
LEMMA QuietKeepsPath ==
  ASSUME BlockOnItsPath, ~ InAccess, ~ InAccess',
         position' = position, stranded \subseteq stranded',
         \A l \in Locations : Ids(Tree'[l]) = Ids(Tree[l])
  PROVE  BlockOnItsPath' /\ PathInStash'
<1>1. \A id : Home(id)' = position[id] /\ Home(id) = position[id]
  BY DEF Home
<1>2. PathInStash'
  BY DEF PathInStash, InAccess
<1>3. ASSUME NEW l \in Locations, NEW block \in Tree'[l], block.id \notin stranded'
      PROVE  l \in Path(Home(block.id)')
  <2>1. PICK old \in Tree[l] : old.id = block.id
    BY <1>3 DEF Ids
  <2> QED BY <1>1, <1>3, <2>1 DEF BlockOnItsPath
<1> QED BY <1>1, <1>2, <1>3 DEF BlockOnItsPath, Path

\* Uploading, or failing to, leaves the copies in the tree as they are or pads them.
LEMMA SyncPads ==
  ASSUME TypeOK, Sync \/ SyncRejects \/ SyncFails
  PROVE  \A l \in Locations :
           /\ \A new \in Tree'[l] : \E old \in Tree[l] :
                old.id = new.id /\ Padded(old.data) = Padded(new.data)
           /\ \A old \in Tree[l] : \E new \in Tree'[l] :
                old.id = new.id /\ Padded(old.data) = Padded(new.data)
<1> DEFINE Like(old, new) == old.id = new.id /\ Padded(old.data) = Padded(new.data)
           Alike(S, T) == /\ \A new \in T : \E old \in S : Like(old, new)
                          /\ \A old \in S : \E new \in T : Like(old, new)
<1>1. \A S : Alike(S, S)
  OBVIOUS
<1>2. ASSUME NEW S \in SUBSET Block PROVE Alike(S, PadAll(S))
  <2>1. \A block \in Block : Like(block, PadBlock(block))
    BY PaddedTwice DEF PadBlock, Block
  <2> QED BY <2>1 DEF PadAll
<1>3. \A l \in DOMAIN cache : cache[l] \in SUBSET Block
  BY DEF TypeOK
<1>4. CASE Sync \/ SyncFails
  <2>1. ASSUME NEW l \in Locations PROVE Tree'[l] \in {Tree[l], PadAll(Tree[l])}
    <3>1. CASE Sync
      BY <3>1 DEF Sync, Tree, NoCache
    <3>2. CASE SyncFails
      <4>1. PICK written \in SUBSET DOMAIN cache :
              storage' = [m \in Locations |->
                            IF m \in written THEN PadAll(cache[m]) ELSE storage[m]]
        BY <3>2 DEF SyncFails
      <4> QED BY <3>2, <4>1 DEF SyncFails, Tree, PaddedCache
    <3> QED BY <1>4, <3>1, <3>2
  <2>2. ASSUME NEW l \in Locations PROVE Alike(Tree[l], Tree'[l])
    <3>1. Tree[l] \in SUBSET Block
      BY TreeType
    <3>2. Alike(Tree[l], PadAll(Tree[l]))
      BY <1>2, <3>1
    <3> QED BY <1>1, <2>1, <3>2
  <2> QED BY <2>2
<1>5. CASE SyncRejects
  <2>1. PICK done \in SUBSET {l \in DOMAIN cache : Fits(cache[l])},
             at \in {l \in DOMAIN cache : ~ Fits(cache[l])} :
          \E some \in SUBSET cache[at] :
            cache' = [l \in DOMAIN cache |->
                        CASE l \in done -> PadAll(cache[l])
                          [] l = at     -> PadAll(some) \cup (cache[l] \ some)
                          [] OTHER      -> cache[l]]
    BY <1>5 DEF SyncRejects
  <2>2. PICK some \in SUBSET cache[at] :
          cache' = [l \in DOMAIN cache |->
                      CASE l \in done -> PadAll(cache[l])
                        [] l = at     -> PadAll(some) \cup (cache[l] \ some)
                        [] OTHER      -> cache[l]]
    BY <2>1
  <2>3. Alike(some, PadAll(some))
    BY <1>2, <1>3
  <2>4. Alike(cache[at], PadAll(some) \cup (cache[at] \ some))
    BY <2>3
  <2>5. ASSUME NEW l \in DOMAIN cache PROVE Alike(cache[l], cache'[l])
    <3>1. CASE l \in done
      BY <1>2, <1>3, <2>2, <3>1
    <3>2. CASE l = at
      BY <2>2, <2>4, <3>2
    <3>3. CASE l \notin done /\ l # at
      BY <1>1, <2>2, <3>3
    <3> QED BY <3>1, <3>2, <3>3
  <2>6. ASSUME NEW l \in Locations PROVE Alike(Tree[l], Tree'[l])
    <3>1. DOMAIN cache' = DOMAIN cache /\ storage' = storage
      BY <2>2, <1>5 DEF SyncRejects
    <3>2. CASE l \in DOMAIN cache
      BY <2>5, <3>1, <3>2 DEF Tree
    <3>3. CASE l \notin DOMAIN cache
      BY <1>1, <3>1, <3>3 DEF Tree
    <3> QED BY <3>2, <3>3
  <2> QED BY <2>6
<1> QED BY <1>4, <1>5

\* The steps outside an access.
LEMMA OutsideKeepsPath ==
  ASSUME PathInv, TypeOK',
         Call \/ Prefetch \/ PrefetchThrows \/ RemapThrows
              \/ Sync \/ SyncRejects \/ SyncFails \/ (UNCHANGED vars /\ ~ InAccess)
  PROVE  PathInv'
<1> USE DEF PathInv
<1>1. position' = position /\ stranded' = stranded /\ ~ InAccess /\ ~ InAccess'
  BY DEF Call, Get, Put, Multiple, MultipleTooMany, Begin, Idle, InAccess, End, vars,
         Prefetch, PrefetchThrows, RemapThrows, Sync, SyncRejects, SyncFails
<1>3. CASE storage' = storage /\ cache' = cache
  BY <1>1, <1>3, QuietKeepsPath DEF Tree
<1>4. CASE Prefetch
  <2>1. Tree' = Tree
    BY <1>4, DownloadKeepsTree DEF Prefetch
  <2> QED BY <1>1, <2>1, QuietKeepsPath
<1>5. CASE Sync \/ SyncRejects \/ SyncFails
  <2>1. \A l \in Locations : Ids(Tree'[l]) = Ids(Tree[l])
    BY <1>5, SyncPads DEF Ids
  <2> QED BY <1>1, <2>1, QuietKeepsPath
<1> QED
  BY <1>3, <1>4, <1>5
     DEF Call, Get, Put, Multiple, MultipleTooMany, Begin, PrefetchThrows, RemapThrows, vars

\* Remapping: the old leaf stays the home of the block until its path is written.
LEMMA RemapKeepsPath ==
  ASSUME PathInv, Remap
  PROVE  BlockOnItsPath' /\ PathInStash'
<1> USE DEF PathInv
<1>1. Tree' = Tree /\ stranded' = stranded /\ Current' = Current
  BY DEF Remap, Tree, Current
<1>2. \A id \in MappedIds : Home(id)' = Home(id)
  <2>1. ~ InAccess /\ InAccess'
    BY DEF Remap, InAccess
  <2>2. \A id \in MappedIds : Home(id)' = IF id = Current THEN leaf' ELSE position'[id]
    BY <1>1, <2>1 DEF Home
  <2>3. leaf' = position[Current]
        /\ \A id \in MappedIds : id # Current => position'[id] = position[id]
    BY DEF Remap, TypeOK
  <2> QED BY <2>1, <2>2, <2>3 DEF Home
<1>3. \A l \in Locations : Tree[l] \subseteq Block
  BY TreeType
<1>4. BlockOnItsPath'
  BY <1>1, <1>2, <1>3 DEF BlockOnItsPath, Path, Block
<1>5. PathInStash'
  BY DEF Remap, PathInStash
<1> QED BY <1>4, <1>5

\* The steps in the middle of an access: the tree and the homes stay.
LEMMA MiddleKeepsPath ==
  ASSUME PathInv, ReadPath \/ Update \/ (UNCHANGED vars /\ InAccess)
  PROVE  BlockOnItsPath' /\ PathInStash'
<1> USE DEF PathInv
<1>1. Tree' = Tree
  <2>1. CASE ReadPath
    BY <2>1, DownloadKeepsTree DEF ReadPath
  <2>2. CASE ~ ReadPath
    BY <2>2 DEF Update, vars, Tree
  <2> QED BY <2>1, <2>2
<1>2. stranded' = stranded /\ \A id : Home(id)' = Home(id)
  BY DEF ReadPath, Update, vars, Home, InAccess, Current
<1>3. BlockOnItsPath'
  BY <1>1, <1>2 DEF BlockOnItsPath, Path
<1>4. ASSUME NEW l \in Path(leaf)', pc' \in {"update", "write"}
      PROVE  Ids(Tree'[l]) \subseteq Ids(stash)'
  <2>1. l \in Path(leaf)
    BY <1>4 DEF ReadPath, Update, vars, Path
  <2>2. CASE ReadPath
    <3>1. PICK added \in SUBSET NewToStash :
            Ids(added) = Ids(NewToStash) /\ stash' = stash \cup added
      BY <2>2 DEF ReadPath
    <3>2. Ids(Tree[l]) \subseteq Ids(OnPath)
      BY <2>1 DEF OnPath, Ids
    <3>3. Ids(OnPath) \subseteq Ids(stash) \cup Ids(NewToStash)
      BY DEF NewToStash, Ids
    <3>4. Ids(stash)' = Ids(stash) \cup Ids(added)
      BY <3>1 DEF Ids
    <3> QED BY <1>1, <3>1, <3>2, <3>3, <3>4
  <2>3. CASE Update
    <3>1. Ids(stash) \subseteq Ids(stash)'
      <4>1. CASE requests[next].read
        BY <2>3, <4>1 DEF Update, Ids
      <4>2. CASE ~ requests[next].read
        <5> DEFINE new == [id |-> Current, data |-> requests[next].data]
        <5>1. new.id = Current
          OBVIOUS
        <5>2. stash' = Without(stash, Current) \cup {new}
          BY <2>3, <4>2 DEF Update, StashPut
        <5> HIDE DEF new
        <5> QED BY <5>1, <5>2 DEF Without, Ids
      <4> QED BY <4>1, <4>2
    <3> QED BY <1>1, <2>1, <2>3, <3>1 DEF PathInStash, Update
  <2>4. CASE UNCHANGED vars
    BY <1>1, <1>4, <2>1, <2>4 DEF PathInStash, vars, Ids
  <2> QED BY <2>2, <2>3, <2>4
<1> QED BY <1>3, <1>4 DEF PathInStash

(***************************************************************************)
(* An access that throws: the block is home on the path of its new leaf,   *)
(* or it is stranded.  An overflow in update cannot strand it, for its     *)
(* whole old path is in the stash and it is not.                           *)
(***************************************************************************)
LEMMA ThrowKeepsPath ==
  ASSUME PathInv, ReadPathOverflows \/ ReadPathThrows \/ UpdateOverflows
  PROVE  BlockOnItsPath' /\ PathInStash'
<1> USE DEF PathInv
<1>1. Tree' = Tree
  <2>1. CASE ReadPathOverflows
    BY <2>1, DownloadKeepsTree DEF ReadPathOverflows
  <2>2. CASE ~ ReadPathOverflows
    BY <2>2 DEF ReadPathThrows, UpdateOverflows, Tree
  <2> QED BY <2>1, <2>2
<1>2. position' = position /\ InAccess /\ ~ InAccess'
  BY DEF ReadPathOverflows, ReadPathThrows, UpdateOverflows, End, InAccess
<1>3. \A id : Home(id)' = position[id]
  BY <1>2 DEF Home
<1>4. \A id : id # Current => Home(id) = position[id]
  BY DEF Home
<1>5. stranded \subseteq stranded'
  BY DEF ReadPathOverflows, ReadPathThrows, UpdateOverflows, Strand
<1>6. ASSUME NEW l \in Locations, NEW block \in Tree[l],
             block.id = Current, block.id \notin stranded'
      PROVE  l \in Path(position[Current])
  <2>1. CASE ReadPathOverflows \/ ReadPathThrows
    <3>1. Strand(Current)
      BY <2>1 DEF ReadPathOverflows, ReadPathThrows
    <3>2. Current \in MappedIds
      BY <2>1 DEF ReadPathOverflows, ReadPathThrows, TypeOK
    <3>3. l \notin Path(position[Current]) => Current \in stranded'
      BY <1>6, <3>1 DEF Strand, Ids
    <3> QED BY <1>6, <3>3
  <2>2. CASE UpdateOverflows
    <3>1. l \in Path(leaf)
      BY <1>2, <1>5, <1>6 DEF BlockOnItsPath, Home
    <3>2. Current \in Ids(stash)
      BY <1>6, <2>2, <3>1 DEF PathInStash, UpdateOverflows, Ids
    <3>3. Current \notin Ids(stash)
      BY <2>2 DEF UpdateOverflows, StashFull
    <3> QED BY <3>2, <3>3
  <2> QED BY <2>1, <2>2
<1>7. ASSUME NEW l \in Locations, NEW block \in Tree[l], block.id \notin stranded'
      PROVE  l \in Path(position[block.id])
  <2>1. CASE block.id = Current
    BY <1>6, <1>7, <2>1
  <2>2. CASE block.id # Current
    BY <1>4, <1>5, <1>7, <2>2 DEF BlockOnItsPath
  <2> QED BY <2>1, <2>2
<1>8. PathInStash'
  BY <1>2 DEF PathInStash, InAccess
<1> QED BY <1>1, <1>3, <1>7, <1>8 DEF BlockOnItsPath, Path

(***************************************************************************)
(* Writing the path: a block goes only into a bucket that its own path and *)
(* the written path share, and a bucket off the written path holds no copy *)
(* of the remapped block.                                                  *)
(***************************************************************************)
LEMMA WriteKeepsPath ==
  ASSUME PathInv, WritePath
  PROVE  BlockOnItsPath' /\ PathInStash'
<1> USE DEF PathInv
<1>1. PICK level \in [stash -> Levels \cup {Stays}] : Greedy(level) /\ SetCache(level)
  BY DEF WritePath
<1>2. /\ position' = position /\ storage' = storage /\ stranded' = stranded
      /\ InAccess /\ ~ InAccess'
  BY DEF WritePath, Advance, InAccess
<1>3. \A id : Home(id)' = position[id]
  BY <1>2 DEF Home
<1>4. ASSUME NEW l \in Locations, NEW block \in Tree'[l], block.id \notin stranded
      PROVE  l \in Path(position[block.id])
  <2>1. CASE l \in Path(leaf)
    <3>1. block \in NewBucket(level, l)
      BY <1>1, <1>4, <2>1 DEF SetCache, Tree
    <3>2. PICK k \in Levels : block \in PlacedAt(level, k) /\ BucketForLevelLeaf(k, leaf) = l
      BY <3>1 DEF NewBucket, LastLevel, PlacedAt
    <3>3. CanInclude(position[block.id], leaf, k)
      BY <1>1, <3>2 DEF Greedy, Fitting
    <3> QED BY <3>2, <3>3 DEF CanInclude, Path
  <2>2. CASE l \notin Path(leaf)
    <3>1. block \in Tree[l]
      BY <1>1, <1>2, <1>4, <2>2 DEF SetCache, Tree
    <3>2. l \in Path(Home(block.id))
      BY <1>4, <3>1 DEF BlockOnItsPath
    <3> QED BY <2>2, <3>2 DEF Home
  <2> QED BY <2>1, <2>2
<1>5. PathInStash'
  BY <1>2 DEF PathInStash, InAccess
<1> QED BY <1>2, <1>3, <1>4, <1>5 DEF BlockOnItsPath, Path

LEMMA PathInvStep == PathInv /\ [Next]_vars => PathInv'
<1> SUFFICES ASSUME PathInv, [Next]_vars PROVE PathInv'
  OBVIOUS
<1>1. TypeOK'
  <2>1. TypeOK /\ UNCHANGED vars => TypeOK'
    BY DEF TypeOK, vars, UniqueIds, Idle, Current, Path
  <2>2. TypeOK /\ Next => TypeOK'
    BY CallType, PrefetchType, RemapType, ReadType, UpdateType, WriteType, SyncType
       DEF Next, Access
  <2> QED BY <2>1, <2>2 DEF PathInv
<1>2. CASE Call \/ Prefetch \/ PrefetchThrows \/ RemapThrows
                \/ Sync \/ SyncRejects \/ SyncFails \/ (UNCHANGED vars /\ ~ InAccess)
  BY <1>1, <1>2, OutsideKeepsPath
<1>3. CASE Remap
  BY <1>1, <1>3, RemapKeepsPath DEF PathInv
<1>4. CASE ReadPath \/ Update \/ (UNCHANGED vars /\ InAccess)
  BY <1>1, <1>4, MiddleKeepsPath DEF PathInv
<1>5. CASE ReadPathOverflows \/ ReadPathThrows \/ UpdateOverflows
  BY <1>1, <1>5, ThrowKeepsPath DEF PathInv
<1>6. CASE WritePath
  BY <1>1, <1>6, WriteKeepsPath DEF PathInv
<1> QED BY <1>2, <1>3, <1>4, <1>5, <1>6 DEF Next, Access

\* At any time every block that no exception has stranded is on the path it is
\* mapped to, or in the stash, whatever is called and whichever calls throw.
THEOREM BlocksOnTheirPaths == Spec => []BlockOnItsPath
<1>1. PathInv => BlockOnItsPath
  BY DEF PathInv
<1> QED BY PathInvInit, PathInvStep, <1>1, PTL DEF Spec

\* Between the read and the write of a path nothing on it is missing from the stash.
THEOREM PathsInStash == Spec => []PathInStash
<1>1. PathInv => PathInStash
  BY DEF PathInv
<1> QED BY PathInvInit, PathInvStep, <1>1, PTL DEF Spec

-----------------------------------------------------------------------------
(***************************************************************************)
(* All copies of a block agree.  BlockOnItsPath is needed when the path is *)
(* written: the copies the new payload replaces are all on it.  A block    *)
(* that is stored was remapped when it was: whatever memory the            *)
(* constructor left unset is not the position of one.                      *)
(***************************************************************************)
HomesAreLeaves ==
  /\ \A block \in stash \cup InTree :
       block.id \notin stranded => position[block.id] \in Leaves
  /\ InAccess /\ Current \notin stranded => position[Current] \in Leaves

AgreeInv == PathInv /\ CopiesAgree /\ HomesAreLeaves

\* The copies after a step come from the copies before it, give or take padding.
LEMMA SameCopiesAgree ==
  ASSUME CopiesAgree, pc # "write", stranded \subseteq stranded',
         \A new \in (stash \cup InTree)' :
           \E old \in stash \cup InTree :
             old.id = new.id /\ Padded(old.data) = Padded(new.data)
  PROVE  CopiesAgree'
<1>1. ASSUME NEW a \in (stash \cup InTree)', NEW b \in (stash \cup InTree)',
             a.id = b.id, a.id \notin stranded'
      PROVE  Padded(a.data) = Padded(b.data)
  <2>1. PICK x \in stash \cup InTree : x.id = a.id /\ Padded(x.data) = Padded(a.data)
    OBVIOUS
  <2>2. PICK y \in stash \cup InTree : y.id = b.id /\ Padded(y.data) = Padded(b.data)
    OBVIOUS
  <2>3. Padded(x.data) = Padded(y.data)
    BY <1>1, <2>1, <2>2 DEF CopiesAgree
  <2> QED BY <2>1, <2>2, <2>3
<1> QED BY <1>1 DEF CopiesAgree

\* Every step but update and writePath takes its copies from the step before.
OtherStep ==
  \/ Call \/ Prefetch \/ PrefetchThrows \/ Remap \/ RemapThrows
  \/ ReadPath \/ ReadPathOverflows \/ ReadPathThrows \/ UpdateOverflows
  \/ Sync \/ SyncRejects \/ SyncFails \/ UNCHANGED vars

LEMMA CopiesFromBefore ==
  ASSUME AgreeInv, OtherStep, NEW new \in (stash \cup InTree)'
  PROVE  \E old \in stash \cup InTree :
           old.id = new.id /\ Padded(old.data) = Padded(new.data)
<1> USE DEF AgreeInv, PathInv
<1>1. CASE Sync \/ SyncRejects \/ SyncFails
  <2>1. stash' = stash
    BY <1>1 DEF Sync, SyncRejects, SyncFails
  <2>2. CASE new \in stash
    BY <2>2
  <2>3. CASE new \notin stash
    <3>1. PICK l \in Locations : new \in Tree'[l]
      BY <2>1, <2>3 DEF InTree
    <3>2. PICK old \in Tree[l] : old.id = new.id /\ Padded(old.data) = Padded(new.data)
      BY <1>1, <3>1, SyncPads
    <3> QED BY <3>2 DEF InTree
  <2> QED BY <2>2, <2>3
<1>2. CASE ~ (Sync \/ SyncRejects \/ SyncFails)
  <2>1. Tree' = Tree
    <3>1. CASE Prefetch \/ ReadPath \/ ReadPathOverflows
      BY <3>1, DownloadKeepsTree DEF Prefetch, ReadPath, ReadPathOverflows
    <3>2. CASE ~ (Prefetch \/ ReadPath \/ ReadPathOverflows)
      BY <1>2, <3>2 DEF OtherStep, Tree, Call, Get, Put, Multiple, MultipleTooMany, Begin,
            vars, PrefetchThrows, Remap, RemapThrows, ReadPathThrows, UpdateOverflows
    <3> QED BY <3>1, <3>2
  <2>2. Path(leaf) \subseteq Locations => NewToStash \subseteq InTree
    BY DEF NewToStash, OnPath, InTree
  <2>3. stash' \subseteq stash \cup InTree
    BY <1>2, <2>2 DEF OtherStep, Call, Get, Put, Multiple, MultipleTooMany, Begin, vars,
          Prefetch, PrefetchThrows, Remap, RemapThrows, ReadPath, ReadPathOverflows,
          ReadPathThrows, UpdateOverflows
  <2>4. (stash \cup InTree)' \subseteq stash \cup InTree
    BY <2>1, <2>3 DEF InTree
  <2> QED BY <2>4
<1> QED BY <1>1, <1>2

LEMMA StrandedStay ==
  ASSUME OtherStep
  PROVE  stranded \subseteq stranded'
BY DEF OtherStep, Call, Get, Put, Multiple, MultipleTooMany, Begin, vars, Strand,
       Prefetch, PrefetchThrows, Remap, RemapThrows, ReadPath, ReadPathOverflows,
       ReadPathThrows, UpdateOverflows, Sync, SyncRejects, SyncFails

LEMMA OtherKeepsAgree ==
  ASSUME AgreeInv, pc # "write", OtherStep
  PROVE  CopiesAgree'
BY CopiesFromBefore, StrandedStay, SameCopiesAgree DEF AgreeInv

\* update makes the stash copy of one block newer, and that block is excepted.
LEMMA UpdateKeepsAgree ==
  ASSUME AgreeInv, Update
  PROVE  CopiesAgree'
<1> DEFINE new == [id |-> Current, data |-> requests[next].data]
<1>1. Tree' = Tree /\ stranded' = stranded /\ pc' = "write" /\ pc = "update"
      /\ Current' = Current
  BY DEF Update, Tree, Current
<1>2. stash' \subseteq stash \cup {new}
  BY DEF Update, StashPut, Without
<1>3. ASSUME NEW a \in (stash \cup InTree)', NEW b \in (stash \cup InTree)',
             a.id = b.id, a.id \notin stranded, a.id # Current
      PROVE  Padded(a.data) = Padded(b.data)
  <2>1. new.id = Current
    OBVIOUS
  <2> HIDE DEF new
  <2>2. a \in stash \cup InTree /\ b \in stash \cup InTree
    BY <1>1, <1>2, <1>3, <2>1 DEF InTree
  <2> QED BY <1>1, <1>3, <2>2 DEF AgreeInv, CopiesAgree
<1> QED BY <1>1, <1>3 DEF CopiesAgree

\* What writePath leaves in the tree was in the stash, or in a bucket off the path.
LEMMA WrittenTree ==
  ASSUME TypeOK, pc = "write", NEW level, SetCache(level), storage' = storage,
         NEW l \in Locations
  PROVE  Tree'[l] = IF l \in Path(leaf) THEN NewBucket(level, l) ELSE Tree[l]
BY DEF SetCache, Tree, TypeOK

LEMMA WriteKeepsAgree ==
  ASSUME AgreeInv, WritePath
  PROVE  CopiesAgree'
<1> USE DEF AgreeInv, PathInv
<1>1. PICK level \in [stash -> Levels \cup {Stays}] : SetCache(level)
  BY DEF WritePath
<1>2. /\ stranded' = stranded /\ storage' = storage /\ stash' \subseteq stash
      /\ pc = "write" /\ pc' # "write"
  BY DEF WritePath, Advance
<1>3. ASSUME NEW new \in (stash \cup InTree)', new.id \notin stranded, new \notin stash
      PROVE  new \in InTree /\ new.id # Current
  <2>1. PICK l \in Locations : new \in Tree'[l]
    BY <1>2, <1>3 DEF InTree
  <2>2. l \notin Path(leaf) /\ new \in Tree[l]
    BY <1>1, <1>2, <1>3, <2>1, WrittenTree DEF NewBucket
  <2>3. l \in Path(Home(new.id))
    BY <1>3, <2>2 DEF BlockOnItsPath
  <2> QED BY <1>2, <2>2, <2>3 DEF InTree, Home, InAccess
<1>4. ASSUME NEW a \in (stash \cup InTree)', NEW b \in (stash \cup InTree)',
             a.id = b.id, a.id \notin stranded
      PROVE  Padded(a.data) = Padded(b.data)
  <2>1. CASE a \in stash /\ b \in stash
    BY <1>4, <2>1 DEF TypeOK, UniqueIds
  <2>2. CASE a \notin stash \/ b \notin stash
    <3>1. a \in stash \cup InTree /\ b \in stash \cup InTree /\ a.id # Current
      BY <1>3, <1>4, <2>2
    <3> QED BY <1>4, <3>1 DEF CopiesAgree
  <2> QED BY <2>1, <2>2
<1> QED BY <1>2, <1>4 DEF CopiesAgree

\* access remaps a block before it stores it, and no other step maps one.
LEMMA HomesStep ==
  ASSUME AgreeInv, [Next]_vars
  PROVE  HomesAreLeaves'
<1> USE DEF AgreeInv, PathInv
<1>1. CASE OtherStep
  <2>1. ASSUME NEW new \in (stash \cup InTree)', new.id \notin stranded'
        PROVE  position'[new.id] \in Leaves
    <3>1. PICK old \in stash \cup InTree : old.id = new.id
      BY <1>1, <2>1, CopiesFromBefore
    <3>2. old.id \notin stranded /\ position[old.id] \in Leaves
      BY <1>1, <2>1, <3>1, StrandedStay DEF HomesAreLeaves
    <3>3. position' = position
            \/ \E fresh \in Leaves : position' = [position EXCEPT ![Current] = fresh]
      BY <1>1 DEF OtherStep, Call, Get, Put, Multiple, MultipleTooMany, Begin, vars,
         Prefetch, PrefetchThrows, Remap, RemapThrows, ReadPath, ReadPathOverflows,
         ReadPathThrows, UpdateOverflows, Sync, SyncRejects, SyncFails
    <3>4. new.id \in MappedIds /\ position \in [MappedIds -> Nat]
      BY <3>1, TreeType DEF TypeOK, InTree, Block
    <3>5. CASE position' = position
      BY <3>1, <3>2, <3>5
    <3>6. CASE \E fresh \in Leaves : position' = [position EXCEPT ![Current] = fresh]
      <4>1. new.id = Current => position'[new.id] \in Leaves
        BY <3>4, <3>6
      <4>2. new.id # Current => position'[new.id] = position[new.id]
        BY <3>4, <3>6
      <4> QED BY <3>1, <3>2, <4>1, <4>2
    <3> QED BY <3>3, <3>5, <3>6
  <2>2. ASSUME InAccess', Current' \notin stranded' PROVE position'[Current'] \in Leaves
    <3>1. CASE Remap
      BY <3>1 DEF Remap, TypeOK, Current
    <3>2. CASE ReadPath \/ UNCHANGED vars
      BY <2>2, <3>2 DEF ReadPath, vars, HomesAreLeaves, InAccess, Current
    <3>3. CASE ~ (Remap \/ ReadPath \/ UNCHANGED vars)
      BY <1>1, <2>2, <3>3 DEF OtherStep, Call, Get, Put, Multiple, MultipleTooMany, Begin,
         Idle, InAccess, Prefetch, PrefetchThrows, RemapThrows, ReadPathOverflows,
         ReadPathThrows, UpdateOverflows, Sync, SyncRejects, SyncFails, End
    <3> QED BY <3>1, <3>2, <3>3
  <2> QED BY <2>1, <2>2 DEF HomesAreLeaves
<1>2. CASE Update
  <2>1. /\ Tree' = Tree /\ position' = position /\ stranded' = stranded
        /\ Current' = Current /\ InAccess
    BY <1>2 DEF Update, Tree, Current, InAccess
  <2>2. \A new \in stash' : new \in stash \/ new.id = Current
    BY <1>2 DEF Update, StashPut, Without
  <2> QED BY <2>1, <2>2 DEF HomesAreLeaves, InTree
<1>3. CASE WritePath
  <2>1. PICK level \in [stash -> Levels \cup {Stays}] : SetCache(level)
    BY <1>3 DEF WritePath
  <2>2. /\ stranded' = stranded /\ storage' = storage /\ stash' \subseteq stash
        /\ position' = position /\ pc = "write" /\ ~ InAccess'
    BY <1>3 DEF WritePath, Advance, InAccess
  <2>3. ASSUME NEW new \in InTree' PROVE new \in stash \cup InTree
    <3>1. PICK l \in Locations : new \in Tree'[l]
      BY <2>3 DEF InTree
    <3> QED BY <2>1, <2>2, <3>1, WrittenTree DEF NewBucket, InTree
  <2> QED BY <2>2, <2>3 DEF HomesAreLeaves
<1> QED BY <1>1, <1>2, <1>3 DEF Next, Access, OtherStep

LEMMA AgreeInvInit == Init => AgreeInv
<1> SUFFICES ASSUME Init PROVE AgreeInv
  OBVIOUS
<1>1. InTree = {} /\ stash = {} /\ ~ InAccess
  BY DEF Init, InTree, Tree, NoCache, InAccess
<1> QED BY <1>1, PathInvInit DEF AgreeInv, CopiesAgree, HomesAreLeaves

LEMMA AgreeInvStep == AgreeInv /\ [Next]_vars => AgreeInv'
<1> SUFFICES ASSUME AgreeInv, [Next]_vars PROVE AgreeInv'
  OBVIOUS
<1>1. PathInv' /\ HomesAreLeaves'
  BY PathInvStep, HomesStep DEF AgreeInv
<1>2. CASE WritePath
  BY <1>1, <1>2, WriteKeepsAgree DEF AgreeInv
<1>3. CASE Update
  BY <1>1, <1>3, UpdateKeepsAgree DEF AgreeInv
<1>4. CASE UNCHANGED vars
  BY <1>1, <1>4 DEF AgreeInv, CopiesAgree, vars, InTree, Tree, Current
<1>5. CASE Next /\ ~ WritePath /\ ~ Update
  <2>1. pc # "write"
    BY <1>5 DEF Next, Call, Access, Get, Put, Multiple, MultipleTooMany, Idle,
          Prefetch, PrefetchThrows, Remap, RemapThrows, ReadPath, ReadPathOverflows,
          ReadPathThrows, UpdateOverflows, Sync, SyncRejects, SyncFails
  <2> QED BY <1>1, <1>5, <2>1, OtherKeepsAgree DEF Next, Access, AgreeInv, OtherStep
<1> QED BY <1>2, <1>3, <1>4, <1>5

\* However many copies overflows leave behind, they never differ, save for the
\* block being written and for blocks an exception has stranded.
THEOREM CopiesNeverDiffer == Spec => []CopiesAgree
<1>1. AgreeInv => CopiesAgree
  BY DEF AgreeInv
<1> QED BY AgreeInvInit, AgreeInvStep, <1>1, PTL DEF Spec

-----------------------------------------------------------------------------
(***************************************************************************)
(* The prefetch of a batch.  The paths of the requests not yet served stay *)
(* in the cache: an access remaps its own block only, and nothing leaves   *)
(* the cache before the upload.                                            *)
(***************************************************************************)
ServedBefore(id) == \E i \in 1 .. next - 1 : requests[i].id = id

PathsCached ==
  Len(requests) > 1 /\ pc \in {"remap", "read", "update", "write"} =>
    \A i \in DOMAIN requests :
      ~ ServedBefore(requests[i].id) => Path(Home(requests[i].id)) \subseteq DOMAIN cache

LEMMA CallKeepsCached == ASSUME Call PROVE PathsCached'
<1>1. CASE \E id \in ClientIds : Get(id) \/ \E data \in Data : Put(id, data)
  <2>1. \E request : requests' = <<request>>
    BY <1>1 DEF Get, Put, Begin
  <2>2. Len(requests') = 1
    BY <2>1
  <2> QED BY <2>2 DEF PathsCached
<1>2. CASE ~ \E id \in ClientIds : Get(id) \/ \E data \in Data : Put(id, data)
  <2>1. pc' \in {"prefetch", "threw"}
    BY <1>2 DEF Call, Multiple, MultipleTooMany, Begin
  <2> QED BY <2>1 DEF PathsCached
<1> QED BY <1>1, <1>2

LEMMA ShorterRange ==
  ASSUME NEW m \in Int, NEW n \in Int, m <= n
  PROVE  1 .. m - 1 \subseteq 1 .. n - 1
OBVIOUS

\* An access step keeps what is cached and the homes of the other blocks.
LEMMA AccessKeepsCached ==
  ASSUME TypeOK, PathsCached, Remap \/ ReadPath \/ Update \/ WritePath
  PROVE  PathsCached'
<1>1. requests' = requests /\ DOMAIN cache \subseteq DOMAIN cache'
  BY DEF Remap, ReadPath, Download, Update, WritePath, SetCache
<1>2. next \in Nat /\ next' \in Nat /\ next <= next'
  BY DEF Remap, ReadPath, Update, WritePath, Advance, TypeOK
<1>3. SUFFICES ASSUME Len(requests) > 1, NEW i \in DOMAIN requests,
                      NEW id, id = requests[i].id, ~ ServedBefore(id)',
                      pc' \in {"remap", "read", "update", "write"}
               PROVE  Path(Home(id)') \subseteq DOMAIN cache'
  BY <1>1 DEF PathsCached, Path
<1>4. ~ ServedBefore(id)
  <2>1. \A j \in 1 .. next' - 1 : requests[j].id # id
    BY <1>1, <1>3 DEF ServedBefore
  <2>2. next \in Int
    BY <1>2
  <2>3. next' \in Int
    BY <1>2
  <2>4. next <= next'
    BY <1>2
  <2>5. 1 .. next - 1 \subseteq 1 .. next' - 1
    BY <2>2, <2>3, <2>4, ShorterRange
  <2> QED BY <2>1, <2>5 DEF ServedBefore
<1>5. pc \in {"remap", "read", "update", "write"}
  BY DEF Remap, ReadPath, Update, WritePath
<1>6. Path(Home(id)) \subseteq DOMAIN cache'
  BY <1>1, <1>3, <1>4, <1>5 DEF PathsCached
<1>7. Home(id)' = Home(id)
  <2>1. CASE Remap
    <3>1. leaf' = position[Current] /\ Current' = Current /\ Current \in MappedIds
          /\ pc = "remap" /\ pc' = "read"
      BY <2>1 DEF Remap, Current
    <3>2. id # Current => position'[id] = position[id]
      BY <2>1 DEF Remap, TypeOK
    <3>3. Home(id) = position[id]
      BY <3>1 DEF Home, InAccess
    <3>4. Home(id)' = IF id = Current THEN leaf' ELSE position'[id]
      BY <3>1 DEF Home, InAccess
    <3> QED BY <3>1, <3>2, <3>3, <3>4
  <2>2. CASE ReadPath \/ Update
    <3>1. leaf' = leaf /\ position' = position /\ Current' = Current /\ InAccess /\ InAccess'
      BY <2>2 DEF ReadPath, Update, InAccess, Current
    <3> QED BY <3>1 DEF Home
  <2>3. CASE WritePath
    <3>1. next \in 1 .. next' - 1
      BY <2>3 DEF WritePath, Advance, TypeOK
    <3>2. id # Current
      BY <1>1, <1>3, <3>1 DEF ServedBefore, Current
    <3>3. position' = position /\ ~ InAccess'
      BY <2>3 DEF WritePath, Advance, InAccess
    <3> QED BY <3>2, <3>3 DEF Home
  <2> QED BY <2>1, <2>2, <2>3
<1> QED BY <1>6, <1>7

LEMMA PathsCachedStep == TypeOK /\ PathsCached /\ [Next]_vars => PathsCached'
<1> SUFFICES ASSUME TypeOK, PathsCached, [Next]_vars PROVE PathsCached'
  OBVIOUS
<1>1. CASE Call
  BY <1>1, CallKeepsCached
<1>2. CASE Prefetch
  <2>1. DOMAIN cache' = DOMAIN cache \cup PathSet(RequestedIds) /\ requests' = requests
        /\ position' = position /\ ~ InAccess'
    BY <1>2 DEF Prefetch, Download, InAccess
  <2>2. \A i \in DOMAIN requests : Path(position[requests[i].id]) \subseteq DOMAIN cache'
    BY <2>1 DEF PathSet, RequestedIds
  <2>3. \A id : Home(id)' = position[id]
    BY <2>1 DEF Home
  <2> QED BY <2>1, <2>2, <2>3 DEF PathsCached, Path
<1>3. CASE Remap \/ ReadPath \/ Update \/ WritePath
  BY <1>3, AccessKeepsCached
<1>4. CASE PrefetchThrows \/ RemapThrows \/ ReadPathOverflows \/ ReadPathThrows
             \/ UpdateOverflows \/ Sync \/ SyncRejects \/ SyncFails
  BY <1>4 DEF PrefetchThrows, RemapThrows, ReadPathOverflows, ReadPathThrows,
     UpdateOverflows, Sync, SyncRejects, SyncFails, End, PathsCached
<1>5. CASE UNCHANGED vars
  BY <1>5 DEF vars, PathsCached, ServedBefore, Home, InAccess, Current, Path
<1> QED BY <1>1, <1>2, <1>3, <1>4, <1>5 DEF Next, Access

\* The first access of a batch to a block downloads nothing: multiple has
\* downloaded its path, and no access before it has moved the block.
THEOREM BatchesPrefetched == Spec => []PrefetchCoversBatch
<1>1. Init => PathsCached
  BY DEF Init, PathsCached
<1>2. TypeOK /\ PathsCached => PrefetchCoversBatch
  <2> SUFFICES ASSUME TypeOK, PathsCached, pc = "read", Len(requests) > 1,
                      \A i \in 1 .. next - 1 : requests[i].id # Current
               PROVE  Missing(Path(leaf)) = {}
    BY DEF PrefetchCoversBatch
  <2>1. next \in DOMAIN requests /\ ~ ServedBefore(requests[next].id)
    BY DEF TypeOK, ServedBefore, Current
  <2>2. Home(requests[next].id) = leaf
    BY DEF Home, InAccess, Current
  <2> QED BY <2>1, <2>2 DEF PathsCached, Missing
<1>3. TypeOK /\ TypeOK' /\ PathsCached /\ [Next]_vars => PathsCached'
  BY PathsCachedStep
<1> QED BY TypeCorrect, <1>1, <1>2, <1>3, PTL DEF Spec
=============================================================================
