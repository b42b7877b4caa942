---------------------------- MODULE Eviction_proofs ----------------------------
(***************************************************************************)
(* What the eviction of writePath guarantees as long as the stash does not *)
(* overflow: one copy of each block, and a stash that is used only while   *)
(* the root is full.                                                       *)
(***************************************************************************)
EXTENDS PathORAM_proofs, OramTree_proofs

\* An exception of the stash leaves the blocks it has read in the tree, too.
StashOverflows == ReadPathOverflows \/ UpdateOverflows

NoOverflow == [][~ StashOverflows]_vars

Other == \/ Call \/ Prefetch \/ PrefetchThrows \/ RemapThrows \/ ReadPathThrows
         \/ Sync \/ SyncRejects \/ SyncFails \/ UNCHANGED vars

-----------------------------------------------------------------------------
(***************************************************************************)
(* Facts about ids.                                                        *)
(***************************************************************************)
\* In a map of at most 2^(IntBits - 1) positions every id survives the int.
LEMMA SmallMapFitsInt ==
  ASSUME MapCapacity <= 2 ^ (IntBits - 1)
  PROVE  IdsFitInt
<1> SUFFICES ASSUME NEW id \in MappedIds PROVE RemovedId(id) = id
  BY DEF IdsFitInt
<1>1. IntBits - 1 \in Nat /\ (IntBits - 1) + 1 = IntBits
  BY HeightAssumption, WidthAssumption
<1>2. 2 ^ IntBits = 2 * 2 ^ (IntBits - 1) /\ 2 ^ (IntBits - 1) \in Nat \ {0}
  BY <1>1, TwoToNat, TwoToNext
<1>3. id \in Nat /\ id < 2 ^ (IntBits - 1)
  <2>1. id \in Nat /\ id < MapCapacity /\ MapCapacity \in Nat
    BY SizesAssumption DEF MappedIds
  <2> QED BY <1>2, <2>1
<1>4. \A x, w \in Nat : x < w => x % w = x
  OBVIOUS
<1>5. id % 2 ^ IntBits = id
  BY <1>2, <1>3, <1>4
<1> QED BY <1>3, <1>5 DEF RemovedId

LEMMA MappedFinite == IsFiniteSet(MappedIds)
<1>1. MapCapacity \in Nat /\ MappedIds \subseteq Nat /\ \A id \in MappedIds : id < MapCapacity
  BY SizesAssumption DEF MappedIds
<1>2. IsFiniteSet(0 .. MapCapacity - 1)
  BY <1>1, FS_Interval
<1>3. MappedIds \subseteq 0 .. MapCapacity - 1
  BY <1>1
<1> QED BY <1>2, <1>3, FS_Subset

\* A set of blocks with distinct ids is as large as its set of ids.
LEMMA AsManyAsIds ==
  ASSUME NEW blocks \in SUBSET Block, UniqueIds(blocks)
  PROVE  /\ IsFiniteSet(blocks) /\ IsFiniteSet(Ids(blocks))
         /\ Cardinality(blocks) = Cardinality(Ids(blocks))
<1> DEFINE f == [block \in blocks |-> block.id]
<1>1. Ids(blocks) \subseteq MappedIds
  BY DEF Ids, Block
<1>2. IsFiniteSet(Ids(blocks))
  BY <1>1, MappedFinite, FS_Subset
<1>3. f \in [blocks -> Ids(blocks)] /\ \A id \in Ids(blocks) : \E block \in blocks : f[block] = id
  BY DEF Ids
<1>4. \A a, b \in blocks : f[a] = f[b] => a = b
  BY DEF UniqueIds
<1> HIDE DEF f
<1>5. f \in Injection(blocks, Ids(blocks)) /\ f \in Surjection(blocks, Ids(blocks))
  BY <1>3, <1>4 DEF Injection, Surjection, IsInjective
<1> QED BY <1>2, <1>5, FS_Injection

-----------------------------------------------------------------------------
(***************************************************************************)
(* One copy of each block.  In the middle of an access the blocks of the   *)
(* open path are in the stash and on that path, and nowhere else.          *)
(***************************************************************************)
OpenPath == IF pc \in {"update", "write"} THEN Path(leaf) ELSE {}

BucketsApartInTree ==
  \A l, m \in Locations : l # m => Ids(Tree[l]) \cap Ids(Tree[m]) \subseteq stranded

StashApartFromTree ==
  \A l \in Locations \ OpenPath : Ids(stash) \cap Ids(Tree[l]) \subseteq stranded

CopyInv == PathInv /\ BucketsApartInTree /\ StashApartFromTree

LEMMA CopyInvInit == Init => CopyInv
<1> SUFFICES ASSUME Init PROVE CopyInv
  OBVIOUS
<1>1. \A l \in Locations : Ids(Tree[l]) = {}
  BY DEF Init, Tree, NoCache, Ids
<1> QED BY <1>1, PathInvInit DEF CopyInv, BucketsApartInTree, StashApartFromTree

LEMMA OneCopyFromInv == CopyInv => OneCopy
<1> SUFFICES ASSUME CopyInv, ~ InAccess PROVE OneCopy
  BY DEF OneCopy
<1>1. OpenPath = {}
  BY DEF OpenPath, InAccess
<1>2. \A id \in Ids(InTree) : \E l \in Locations : id \in Ids(Tree[l])
  BY DEF Ids, InTree
<1>3. Ids(stash) \cap Ids(InTree) \subseteq stranded
  BY <1>1, <1>2 DEF CopyInv, StashApartFromTree
<1> QED BY <1>3 DEF OneCopy, CopyInv, BucketsApartInTree

\* What a step outside update and write does to the ids in the tree: nothing.
LEMMA OtherKeepsIds ==
  ASSUME TypeOK, Other
  PROVE  /\ \A l \in Locations : Ids(Tree'[l]) = Ids(Tree[l])
         /\ stash' = stash /\ stranded \subseteq stranded' /\ position' = position
         /\ ~ UNCHANGED vars => pc \notin {"update", "write"} /\ pc' \notin {"update", "write"}
<1>1. stash' = stash /\ stranded \subseteq stranded' /\ position' = position
  BY DEF Other, Call, Get, Put, Multiple, MultipleTooMany, Begin, vars, Strand,
         Prefetch, PrefetchThrows, RemapThrows, ReadPathThrows, Sync, SyncRejects, SyncFails
<1>2. ~ UNCHANGED vars => pc \notin {"update", "write"} /\ pc' \notin {"update", "write"}
  BY DEF Other, Call, Get, Put, Multiple, MultipleTooMany, Begin, Idle, End,
         Prefetch, PrefetchThrows, RemapThrows, ReadPathThrows, Sync, SyncRejects, SyncFails
<1>3. \A l \in Locations : Ids(Tree'[l]) = Ids(Tree[l])
  <2>1. CASE Sync \/ SyncRejects \/ SyncFails
    BY <2>1, SyncPads DEF Ids
  <2>2. CASE Prefetch
    <3>1. Tree' = Tree
      BY <2>2, DownloadKeepsTree DEF Prefetch
    <3> QED BY <3>1
  <2>3. CASE storage' = storage /\ cache' = cache
    BY <2>3 DEF Tree
  <2> QED BY <2>1, <2>2, <2>3 DEF Other, Call, Get, Put, Multiple, MultipleTooMany, Begin,
               PrefetchThrows, RemapThrows, ReadPathThrows, vars
<1> QED BY <1>1, <1>2, <1>3

LEMMA OtherKeepsCopies ==
  ASSUME TypeOK, BucketsApartInTree, StashApartFromTree, Other
  PROVE  BucketsApartInTree' /\ StashApartFromTree'
<1>1. OpenPath' = OpenPath
  <2>1. CASE UNCHANGED vars
    BY <2>1 DEF OpenPath, vars, Path
  <2>2. CASE ~ UNCHANGED vars
    BY <2>2, OtherKeepsIds DEF OpenPath
  <2> QED BY <2>1, <2>2
<1>2. /\ \A l \in Locations : Ids(Tree'[l]) = Ids(Tree[l])
      /\ Ids(stash)' = Ids(stash) /\ stranded \subseteq stranded'
  BY OtherKeepsIds DEF Ids
<1>3. BucketsApartInTree'
  BY <1>2 DEF BucketsApartInTree, Ids
<1>4. StashApartFromTree'
  <2> SUFFICES ASSUME NEW l \in Locations \ OpenPath, NEW id \in Ids(stash), id \in Ids(Tree'[l])
               PROVE  id \in stranded'
    BY <1>1, <1>2 DEF StashApartFromTree, Ids
  <2> QED BY <1>2 DEF StashApartFromTree
<1> QED BY <1>3, <1>4

\* remap moves a position, not a copy.
LEMMA RemapKeepsCopies ==
  ASSUME BucketsApartInTree, StashApartFromTree, Remap
  PROVE  BucketsApartInTree' /\ StashApartFromTree'
<1>1. Tree' = Tree /\ stash' = stash /\ stranded' = stranded
      /\ OpenPath = {} /\ OpenPath' = {}
  BY DEF Remap, Tree, OpenPath
<1> QED BY <1>1 DEF BucketsApartInTree, StashApartFromTree

\* The blocks readPath adds to the stash are on the path it opens, so on no other.
LEMMA ReadKeepsCopies ==
  ASSUME TypeOK, BucketsApartInTree, StashApartFromTree, ReadPath
  PROVE  BucketsApartInTree' /\ StashApartFromTree'
<1>1. Tree' = Tree /\ stranded' = stranded
  BY DownloadKeepsTree DEF ReadPath
<1>2. OpenPath = {} /\ OpenPath' = Path(leaf) /\ Path(leaf) \subseteq Locations
  BY DEF ReadPath, OpenPath, Path
<1>3. stash' \subseteq stash \cup NewToStash
  BY DEF ReadPath
<1>4. ASSUME NEW l \in Locations, l \notin Path(leaf), NEW block \in stash',
             block.id \in Ids(Tree[l])
      PROVE  block.id \in stranded
  <2>1. CASE block \in stash
    BY <1>2, <1>4, <2>1 DEF StashApartFromTree, Ids
  <2>2. CASE block \notin stash
    <3>1. PICK m \in Path(leaf) : block \in Tree[m]
      BY <1>3, <2>2 DEF NewToStash, OnPath
    <3>2. block.id \in Ids(Tree[m]) /\ m \in Locations /\ m # l
      BY <1>2, <1>4, <3>1 DEF Ids
    <3> QED BY <1>4, <3>2 DEF BucketsApartInTree
  <2> QED BY <2>1, <2>2
<1>5. BucketsApartInTree'
  BY <1>1 DEF BucketsApartInTree
<1>6. StashApartFromTree'
  BY <1>1, <1>2, <1>4 DEF StashApartFromTree, Ids
<1> QED BY <1>5, <1>6

\* update adds the requested block, whose copies are all on the open path.
LEMMA UpdateKeepsCopies ==
  ASSUME CopyInv, Update
  PROVE  BucketsApartInTree' /\ StashApartFromTree'
<1> USE DEF CopyInv, PathInv
<1>1. Tree' = Tree /\ stranded' = stranded
  BY DEF Update, Tree
<1>2. OpenPath = Path(leaf) /\ OpenPath' = Path(leaf) /\ InAccess
  BY DEF Update, OpenPath, Path, InAccess
<1>3. \A block \in stash' : block \in stash \/ block.id = Current
  <2>1. CASE requests[next].read
    BY <2>1 DEF Update
  <2>2. CASE ~ requests[next].read
    BY <2>2 DEF Update, StashPut, Without
  <2> QED BY <2>1, <2>2
<1>4. ASSUME NEW l \in Locations, l \notin Path(leaf), NEW block \in stash',
             block.id \in Ids(Tree[l])
      PROVE  block.id \in stranded
  <2>1. CASE block \in stash
    BY <1>2, <1>4, <2>1 DEF StashApartFromTree, Ids
  <2>2. CASE block.id = Current
    BY <1>2, <1>4, <2>2 DEF BlockOnItsPath, Home, Ids
  <2> QED BY <1>3, <2>1, <2>2
<1>5. BucketsApartInTree'
  BY <1>1 DEF BucketsApartInTree
<1>6. StashApartFromTree'
  BY <1>1, <1>2, <1>4 DEF StashApartFromTree, Ids
<1> QED BY <1>5, <1>6

(***************************************************************************)
(* writePath puts a block on one level only and removes it from the stash; *)
(* what was on the path is replaced.                                       *)
(***************************************************************************)
LEMMA WriteKeepsCopies ==
  ASSUME IdsFitInt, CopyInv, WritePath
  PROVE  BucketsApartInTree' /\ StashApartFromTree'
<1> USE DEF CopyInv, PathInv
<1>1. PICK level \in [stash -> Levels \cup {Stays}] :
        /\ SetCache(level)
        /\ LET removed == {RemovedId(block.id) :
                             block \in {b \in stash : level[b] # Stays}}
           IN  stash' = {block \in stash : block.id \notin removed}
  BY DEF WritePath
<1>2. /\ storage' = storage /\ stranded' = stranded /\ pc = "write"
      /\ OpenPath = Path(leaf) /\ OpenPath' = {}
  BY DEF WritePath, Advance, OpenPath
<1>3. ASSUME NEW l \in Locations
      PROVE  Tree'[l] = IF l \in Path(leaf) THEN NewBucket(level, l) ELSE Tree[l]
  BY <1>1, <1>2, WrittenTree
<1>4. ASSUME NEW l \in Locations, NEW m \in Locations, l # m,
             NEW a \in Tree'[l], NEW b \in Tree'[m], a.id = b.id
      PROVE  a.id \in stranded
  <2>1. CASE l \in Path(leaf) /\ m \in Path(leaf)
    <3>1. a \in NewBucket(level, l) /\ b \in NewBucket(level, m)
      BY <1>3, <1>4, <2>1
    <3>2. a = b
      BY <1>4, <3>1 DEF NewBucket, TypeOK, UniqueIds
    <3> QED BY <1>4, <3>1, <3>2 DEF NewBucket, LastLevel
  <2>2. CASE l \in Path(leaf) /\ m \notin Path(leaf)
    <3>1. a \in stash /\ b \in Tree[m]
      BY <1>3, <1>4, <2>2 DEF NewBucket
    <3>2. a.id \in Ids(stash) /\ a.id \in Ids(Tree[m])
      BY <1>4, <3>1 DEF Ids
    <3> QED BY <1>2, <2>2, <3>2 DEF StashApartFromTree
  <2>3. CASE l \notin Path(leaf) /\ m \in Path(leaf)
    <3>1. b \in stash /\ a \in Tree[l]
      BY <1>3, <1>4, <2>3 DEF NewBucket
    <3>2. a.id \in Ids(stash) /\ a.id \in Ids(Tree[l])
      BY <1>4, <3>1 DEF Ids
    <3> QED BY <1>2, <2>3, <3>2 DEF StashApartFromTree
  <2>4. CASE l \notin Path(leaf) /\ m \notin Path(leaf)
    <3>1. a \in Tree[l] /\ b \in Tree[m]
      BY <1>3, <1>4, <2>4
    <3>2. a.id \in Ids(Tree[l]) /\ a.id \in Ids(Tree[m])
      BY <1>4, <3>1 DEF Ids
    <3> QED BY <1>4, <3>2 DEF BucketsApartInTree
  <2> QED BY <2>1, <2>2, <2>3, <2>4
<1>5. ASSUME NEW l \in Locations, NEW a \in stash', NEW b \in Tree'[l], a.id = b.id
      PROVE  a.id \in stranded
  <2>1. a \in stash
    BY <1>1
  <2>2. CASE l \in Path(leaf)
    <3>1. b \in stash /\ level[b] \in Levels
      BY <1>3, <1>5, <2>2 DEF NewBucket, LastLevel
    <3>2. level[b] # Stays
      BY <3>1, HeightFacts DEF Levels, Stays
    <3>3. RemovedId(b.id) = b.id
      BY <3>1 DEF IdsFitInt, TypeOK, Block
    <3>4. b.id \in {RemovedId(block.id) : block \in {c \in stash : level[c] # Stays}}
      BY <3>1, <3>2, <3>3
    <3> QED BY <1>1, <1>5, <3>4
  <2>3. CASE l \notin Path(leaf)
    <3>1. a.id \in Ids(stash) /\ a.id \in Ids(Tree[l])
      BY <1>3, <1>5, <2>1, <2>3 DEF Ids
    <3> QED BY <1>2, <2>3, <3>1 DEF StashApartFromTree
  <2> QED BY <2>2, <2>3
<1>6. BucketsApartInTree'
  BY <1>2, <1>4 DEF BucketsApartInTree, Ids
<1>7. StashApartFromTree'
  BY <1>2, <1>5 DEF StashApartFromTree, Ids
<1> QED BY <1>6, <1>7

LEMMA CopyInvStep ==
  ASSUME IdsFitInt
  PROVE  CopyInv /\ [Next]_vars /\ [~ StashOverflows]_vars => CopyInv'
<1> SUFFICES ASSUME CopyInv, [Next]_vars, [~ StashOverflows]_vars PROVE CopyInv'
  OBVIOUS
<1>1. PathInv'
  BY PathInvStep DEF CopyInv
<1>2. TypeOK
  BY DEF CopyInv, PathInv
<1>3. BucketsApartInTree' /\ StashApartFromTree'
  <2>1. CASE Other
    BY <1>2, <2>1, OtherKeepsCopies DEF CopyInv
  <2>2. CASE Remap
    BY <2>2, RemapKeepsCopies DEF CopyInv
  <2>3. CASE ReadPath
    BY <1>2, <2>3, ReadKeepsCopies DEF CopyInv
  <2>4. CASE Update
    BY <2>4, UpdateKeepsCopies
  <2>5. CASE WritePath
    BY <2>5, WriteKeepsCopies
  <2> QED BY <2>1, <2>2, <2>3, <2>4, <2>5 DEF Next, Access, Other, StashOverflows
<1> QED BY <1>1, <1>3 DEF CopyInv

\* While the stash does not overflow, a block that no failure of the storage has
\* stranded has one copy between accesses: in the stash or in one bucket
\* (writePath, oram.cpp:204-275).
THEOREM OneCopyEach ==
  ASSUME IdsFitInt
  PROVE  Spec /\ NoOverflow => []OneCopy
<1>1. CopyInv /\ [Next]_vars /\ [~ StashOverflows]_vars => CopyInv'
  BY CopyInvStep
<1> QED BY CopyInvInit, OneCopyFromInv, <1>1, PTL DEF Spec, NoOverflow

-----------------------------------------------------------------------------
(***************************************************************************)
(* The stash waits for the root.  Nothing but the blocks of one path is    *)
(* written at a time, and any block may go into the root.                  *)
(***************************************************************************)
PositionsInTree == (\A id \in MappedIds : position[id] \in Leaves) /\ leaf \in Leaves

UniqueInBuckets == \A l \in Locations : UniqueIds(Tree[l])

RootFull ==
  pc \notin {"update", "write"} /\ stash # {} =>
    1 \in Locations /\ Cardinality(Tree[1]) = Z

RootInv == TypeOK /\ PositionsInTree /\ UniqueInBuckets /\ RootFull

LEMMA RootInvInit ==
  ASSUME \A id \in MappedIds : id < Blocks
  PROVE  Init => RootInv
<1> SUFFICES ASSUME Init PROVE RootInv
  OBVIOUS
<1>1. \A id \in MappedIds : position[id] \in Leaves
  BY DEF Init
<1>2. leaf \in Leaves
  BY HeightFacts DEF Init, Leaves
<1>3. \A l \in Locations : Tree[l] = {}
  BY DEF Init, Tree, NoCache
<1>4. UniqueInBuckets
  BY <1>3 DEF UniqueInBuckets, UniqueIds
<1> QED BY <1>1, <1>2, <1>4, InitType DEF RootInv, PositionsInTree, RootFull, Init

\* The map draws leaves only, and access follows the map.
LEMMA PositionsStayInTree ==
  ASSUME TypeOK, PositionsInTree, [Next]_vars
  PROVE  PositionsInTree'
<1>1. 0 \in Leaves
  BY HeightFacts DEF Leaves
<1>2. CASE Remap
  BY <1>2 DEF Remap, PositionsInTree, TypeOK
<1>3. CASE ~ Remap
  <2>1. position' = position /\ (leaf' = leaf \/ leaf' = 0)
    BY <1>3 DEF Next, Call, Get, Put, Multiple, MultipleTooMany, Begin, End, vars, Access,
         Prefetch, PrefetchThrows, RemapThrows, ReadPath, ReadPathOverflows, ReadPathThrows,
         Update, UpdateOverflows, WritePath, Sync, SyncRejects, SyncFails
  <2> QED BY <1>1, <2>1 DEF PositionsInTree
<1> QED BY <1>2, <1>3

\* Padding some of the blocks of a bucket keeps their ids apart.
LEMMA PaddingKeepsUnique ==
  ASSUME NEW bucket \in SUBSET Block, UniqueIds(bucket), NEW some \in SUBSET bucket
  PROVE  UniqueIds(PadAll(some) \cup (bucket \ some))
<1>1. \A a \in PadAll(some) : \E x \in some : a = PadBlock(x) /\ a.id = x.id
  BY DEF PadAll, PadBlock
<1>2. SUFFICES ASSUME NEW a \in PadAll(some) \cup (bucket \ some),
                      NEW b \in PadAll(some) \cup (bucket \ some), a.id = b.id
               PROVE  a = b
  BY DEF UniqueIds
<1>3. CASE a \in PadAll(some) /\ b \in PadAll(some)
  <2>1. PICK x \in some : a = PadBlock(x) /\ a.id = x.id
    BY <1>1, <1>3
  <2>2. PICK y \in some : b = PadBlock(y) /\ b.id = y.id
    BY <1>1, <1>3
  <2>3. x = y
    BY <1>2, <2>1, <2>2 DEF UniqueIds
  <2> QED BY <2>1, <2>2, <2>3
<1>4. CASE a \in PadAll(some) /\ b \in bucket \ some
  <2>1. PICK x \in some : a.id = x.id
    BY <1>1, <1>4
  <2> QED BY <1>2, <1>4, <2>1 DEF UniqueIds
<1>5. CASE a \in bucket \ some /\ b \in PadAll(some)
  <2>1. PICK y \in some : b.id = y.id
    BY <1>1, <1>5
  <2> QED BY <1>2, <1>5, <2>1 DEF UniqueIds
<1>6. CASE a \in bucket \ some /\ b \in bucket \ some
  BY <1>2, <1>6 DEF UniqueIds
<1> QED BY <1>3, <1>4, <1>5, <1>6

LEMMA SyncKeepsUnique ==
  ASSUME TypeOK, UniqueInBuckets, Sync \/ SyncRejects \/ SyncFails
  PROVE  UniqueInBuckets'
<1>1. ASSUME NEW l \in Locations
      PROVE  \E some \in SUBSET Tree[l] : Tree'[l] = PadAll(some) \cup (Tree[l] \ some)
  <2>1. PadAll({}) \cup (Tree[l] \ {}) = Tree[l] /\ PadAll(Tree[l]) \cup (Tree[l] \ Tree[l]) = PadAll(Tree[l])
    BY DEF PadAll
  <2>2. CASE Tree'[l] \in {Tree[l], PadAll(Tree[l])}
    BY <2>1, <2>2
  <2>3. CASE Sync
    BY <2>2, <2>3 DEF Sync, Tree, NoCache
  <2>4. CASE SyncFails
    <3>1. PICK written \in SUBSET DOMAIN cache :
            storage' = [m \in Locations |->
                          IF m \in written THEN PadAll(cache[m]) ELSE storage[m]]
      BY <2>4 DEF SyncFails
    <3> QED BY <2>2, <2>4, <3>1 DEF SyncFails, Tree, PaddedCache
  <2>5. CASE SyncRejects
    <3>1. PICK done \in SUBSET {m \in DOMAIN cache : Fits(cache[m])},
               at \in {m \in DOMAIN cache : ~ Fits(cache[m])} :
            \E some \in SUBSET cache[at] :
              cache' = [m \in DOMAIN cache |->
                          CASE m \in done -> PadAll(cache[m])
                            [] m = at     -> PadAll(some) \cup (cache[m] \ some)
                            [] OTHER      -> cache[m]]
      BY <2>5 DEF SyncRejects
    <3>2. PICK some \in SUBSET cache[at] :
            cache' = [m \in DOMAIN cache |->
                        CASE m \in done -> PadAll(cache[m])
                          [] m = at     -> PadAll(some) \cup (cache[m] \ some)
                          [] OTHER      -> cache[m]]
      BY <3>1
    <3>3. DOMAIN cache' = DOMAIN cache /\ storage' = storage
      BY <2>5, <3>2 DEF SyncRejects
    <3>4. CASE l = at
      <4>1. l \in DOMAIN cache /\ l \notin done
        BY <3>4
      <4>2. Tree[l] = cache[l] /\ Tree'[l] = PadAll(some) \cup (cache[l] \ some)
        BY <3>2, <3>3, <3>4, <4>1 DEF Tree
      <4> QED BY <3>4, <4>2
    <3>5. CASE l # at
      BY <2>2, <3>2, <3>3, <3>5 DEF Tree
    <3> QED BY <3>4, <3>5
  <2> QED BY <2>3, <2>4, <2>5
<1>2. ASSUME NEW l \in Locations PROVE UniqueIds(Tree'[l])
  <2>1. PICK some \in SUBSET Tree[l] : Tree'[l] = PadAll(some) \cup (Tree[l] \ some)
    BY <1>1
  <2>2. Tree[l] \in SUBSET Block /\ UniqueIds(Tree[l])
    BY TreeType DEF UniqueInBuckets
  <2> QED BY <2>1, <2>2, PaddingKeepsUnique
<1> QED BY <1>2 DEF UniqueInBuckets, UniqueIds

LEMMA OtherKeepsRoot ==
  ASSUME RootInv, Other
  PROVE  UniqueInBuckets' /\ RootFull'
<1> USE DEF RootInv
<1>1. UniqueInBuckets'
  <2>1. CASE Sync \/ SyncRejects \/ SyncFails
    BY <2>1, SyncKeepsUnique
  <2>2. CASE Prefetch
    <3>1. Tree' = Tree
      BY <2>2, DownloadKeepsTree DEF Prefetch
    <3> QED BY <3>1 DEF UniqueInBuckets
  <2>3. CASE storage' = storage /\ cache' = cache
    BY <2>3 DEF UniqueInBuckets, Tree
  <2> QED BY <2>1, <2>2, <2>3 DEF Other, Call, Get, Put, Multiple, MultipleTooMany, Begin,
               PrefetchThrows, RemapThrows, ReadPathThrows, vars
<1>2. ASSUME NEW l \in Locations, TypeOK'
      PROVE  Cardinality(Tree'[l]) = Cardinality(Tree[l])
  <2>1. Tree[l] \in SUBSET Block /\ UniqueIds(Tree[l])
    BY TreeType DEF UniqueInBuckets
  <2>2. Tree' \in [Locations -> SUBSET Block]
    BY <1>2 DEF Tree, TypeOK
  <2>3. Tree'[l] \in SUBSET Block /\ UniqueIds(Tree'[l])
    BY <1>1, <2>2 DEF UniqueInBuckets, UniqueIds
  <2>4. Ids(Tree'[l]) = Ids(Tree[l])
    BY OtherKeepsIds
  <2>5. Cardinality(Tree[l]) = Cardinality(Ids(Tree[l]))
    BY <2>1, AsManyAsIds
  <2>6. Cardinality(Tree'[l]) = Cardinality(Ids(Tree'[l]))
    BY <2>3, AsManyAsIds
  <2> QED BY <2>4, <2>5, <2>6
<1>3. CASE UNCHANGED vars
  BY <1>1, <1>3 DEF RootFull, vars, Tree
<1>4. CASE ~ UNCHANGED vars
  <2>1. TypeOK'
    BY CallType, PrefetchType, RemapType, ReadType, SyncType, <1>4 DEF Other
  <2>2. pc \notin {"update", "write"} /\ stash' = stash
    BY <1>4, OtherKeepsIds
  <2> QED BY <1>1, <1>2, <2>1, <2>2 DEF RootFull
<1> QED BY <1>3, <1>4

LEMMA AccessKeepsRoot ==
  ASSUME RootInv, Remap \/ ReadPath \/ Update
  PROVE  UniqueInBuckets' /\ RootFull'
<1> USE DEF RootInv
<1>1. Tree' = Tree
  <2>1. CASE ReadPath
    BY <2>1, DownloadKeepsTree DEF ReadPath
  <2>2. CASE Remap \/ Update
    BY <2>2 DEF Remap, Update, Tree
  <2> QED BY <2>1, <2>2
<1>2. UniqueInBuckets'
  BY <1>1 DEF UniqueInBuckets
<1>3. RootFull'
  BY <1>1 DEF RootFull, Remap, ReadPath, Update
<1> QED BY <1>2, <1>3

(***************************************************************************)
(* A block that stays in the stash did not get into the root, where it     *)
(* fits: greedy as the eviction is, the root took Z others.                *)
(***************************************************************************)
LEMMA WriteFillsRoot ==
  ASSUME IdsFitInt, RootInv, WritePath
  PROVE  UniqueInBuckets' /\ RootFull'
<1> USE DEF RootInv
<1>1. PICK level \in [stash -> Levels \cup {Stays}] :
        /\ Greedy(level)
        /\ SetCache(level)
        /\ LET removed == {RemovedId(block.id) :
                             block \in {b \in stash : level[b] # Stays}}
           IN  stash' = {block \in stash : block.id \notin removed}
  BY DEF WritePath
<1>2. storage' = storage /\ pc = "write" /\ leaf \in Leaves /\ Path(leaf) \subseteq Locations
  BY DEF WritePath, PositionsInTree, TypeOK
<1>3. ASSUME NEW l \in Locations
      PROVE  Tree'[l] = IF l \in Path(leaf) THEN NewBucket(level, l) ELSE Tree[l]
  BY <1>1, <1>2, WrittenTree
<1>4. UniqueInBuckets'
  <2>1. ASSUME NEW l \in Locations PROVE UniqueIds(Tree'[l])
    <3>1. CASE l \in Path(leaf)
      BY <1>3, <3>1 DEF NewBucket, TypeOK, UniqueIds
    <3>2. CASE l \notin Path(leaf)
      BY <1>3, <3>2 DEF UniqueInBuckets
    <3> QED BY <3>1, <3>2
  <2> QED BY <2>1 DEF UniqueInBuckets, UniqueIds
<1>5. 0 \in Levels /\ BucketForLevelLeaf(0, leaf) = 1 /\ 1 \in Path(leaf) /\ 1 \in Locations
  BY <1>2, RootBucket, HeightFacts DEF Levels, Path
<1>6. Tree'[1] = PlacedAt(level, 0)
  <2>1. Tree'[1] = NewBucket(level, 1)
    BY <1>3, <1>5
  <2>2. \A k \in Levels : BucketForLevelLeaf(k, leaf) = 1 => k = 0
    BY <1>2, <1>5, BucketsApart
  <2>3. LastLevel(1) = {0}
    BY <1>5, <2>2 DEF LastLevel
  <2> QED BY <2>1, <2>3 DEF NewBucket, PlacedAt
<1>7. ASSUME NEW block \in stash' PROVE block \in Fitting(level, 0) /\ block \notin PlacedAt(level, 0)
  <2>1. block \in stash /\ block.id \in MappedIds /\ RemovedId(block.id) = block.id
    BY <1>1 DEF TypeOK, Block, IdsFitInt
  <2>2. level[block] = Stays
    BY <1>1, <2>1
  <2>3. CanInclude(position[block.id], leaf, 0)
    BY <1>2, <1>5, <2>1, RootBucket DEF CanInclude, PositionsInTree
  <2> QED BY <2>1, <2>2, <2>3 DEF Fitting, PlacedAt, Stays
<1>8. ASSUME stash' # {} PROVE Cardinality(PlacedAt(level, 0)) = Z
  <2>1. IsFiniteSet(stash)
    BY AsManyAsIds DEF TypeOK
  <2>2. Fitting(level, 0) \subseteq stash
    BY DEF Fitting
  <2>3. IsFiniteSet(Fitting(level, 0)) /\ PlacedAt(level, 0) \subseteq Fitting(level, 0)
    BY <1>1, <1>5, <2>1, <2>2, FS_Subset DEF Greedy
  <2>4. Cardinality(PlacedAt(level, 0)) # Cardinality(Fitting(level, 0))
    BY <1>7, <1>8, <2>3, FS_Subset
  <2> QED BY <1>1, <1>5, <2>4 DEF Greedy
<1> QED BY <1>4, <1>5, <1>6, <1>8 DEF RootFull

LEMMA RootInvStep ==
  ASSUME IdsFitInt
  PROVE  RootInv /\ [Next]_vars /\ [~ StashOverflows]_vars => RootInv'
<1> SUFFICES ASSUME RootInv, [Next]_vars, [~ StashOverflows]_vars PROVE RootInv'
  OBVIOUS
<1>1. TypeOK'
  <2>1. TypeOK /\ UNCHANGED vars => TypeOK'
    BY DEF TypeOK, vars, UniqueIds, Idle, Current, Path
  <2>2. TypeOK /\ Next => TypeOK'
    BY CallType, PrefetchType, RemapType, ReadType, UpdateType, WriteType, SyncType
       DEF Next, Access
  <2> QED BY <2>1, <2>2 DEF RootInv
<1>2. PositionsInTree'
  BY PositionsStayInTree DEF RootInv
<1>3. UniqueInBuckets' /\ RootFull'
  <2>1. CASE Other
    BY <2>1, OtherKeepsRoot
  <2>2. CASE Remap \/ ReadPath \/ Update
    BY <2>2, AccessKeepsRoot
  <2>3. CASE WritePath
    BY <2>3, WriteFillsRoot
  <2> QED BY <2>1, <2>2, <2>3 DEF Next, Access, Other, StashOverflows
<1> QED BY <1>1, <1>2, <1>3 DEF RootInv

\* While the stash does not overflow, a block waits in it between accesses only
\* if the root is full, whatever the storage does, for a client that keeps to the
\* ids the constructor has drawn a position for (oram.cpp:37).
THEOREM StashBehindFullRoot ==
  ASSUME IdsFitInt, \A id \in MappedIds : id < Blocks
  PROVE  Spec /\ NoOverflow => []StashWaitsForRoot
<1>1. Init => RootInv
  BY RootInvInit
<1>2. RootInv /\ [Next]_vars /\ [~ StashOverflows]_vars => RootInv'
  BY RootInvStep
<1>3. RootInv => StashWaitsForRoot
  BY DEF RootInv, RootFull, StashWaitsForRoot, InAccess
<1> QED BY <1>1, <1>2, <1>3, PTL DEF Spec, NoOverflow

-----------------------------------------------------------------------------
(***************************************************************************)
(* When the stash cannot overflow.                                         *)
(***************************************************************************)
LEMMA FullStashHoldsAll ==
  ASSUME Cardinality(MappedIds) <= StashCapacity,
         NEW blocks \in SUBSET Block, UniqueIds(blocks), Cardinality(blocks) = StashCapacity
  PROVE  Ids(blocks) = MappedIds
<1>1. Ids(blocks) \subseteq MappedIds
  BY DEF Ids, Block
<1>2. /\ Cardinality(Ids(blocks)) = StashCapacity
      /\ Cardinality(Ids(blocks)) <= Cardinality(MappedIds)
  BY <1>1, AsManyAsIds, MappedFinite, FS_Subset
<1>3. Cardinality(MappedIds) \in Nat /\ StashCapacity \in Nat
  BY MappedFinite, FS_CardinalityType, SizesAssumption
<1>4. Cardinality(Ids(blocks)) = Cardinality(MappedIds)
  BY <1>2, <1>3
<1> QED BY <1>1, <1>4, MappedFinite, FS_Subset

\* A stash with room for as many blocks as the client has ids never overflows:
\* it holds one copy of each (InMemoryStashAdapter, stash-adapter.cpp:43-79).
THEOREM RoomyStash ==
  ASSUME Cardinality(MappedIds) <= StashCapacity
  PROVE  Spec => NoOverflow
<1>1. TypeOK => ~ ReadPathOverflows
  <2> SUFFICES ASSUME TypeOK, ReadPathOverflows PROVE FALSE
    OBVIOUS
  <2>1. PICK added \in SUBSET NewToStash :
          UniqueIds(added) /\ Ids(added) # Ids(NewToStash)
          /\ Cardinality(stash \cup added) = StashCapacity
    BY DEF ReadPathOverflows
  <2>2. stash \cup added \in SUBSET Block /\ UniqueIds(stash \cup added)
    BY <2>1, StashAddType DEF ReadPathOverflows
  <2>3. Ids(stash \cup added) = MappedIds
    BY <2>1, <2>2, FullStashHoldsAll
  <2>4. NewToStash \subseteq Block
    BY TreeType DEF NewToStash, OnPath, ReadPathOverflows
  <2>5. \A block \in NewToStash : block.id \in MappedIds /\ block.id \notin Ids(stash)
    BY <2>4 DEF NewToStash, Block
  <2>6. \A block \in NewToStash : block.id \in Ids(added)
    BY <2>3, <2>5 DEF Ids
  <2> QED BY <2>1, <2>6 DEF Ids
<1>2. TypeOK => ~ UpdateOverflows
  <2> SUFFICES ASSUME TypeOK, UpdateOverflows PROVE FALSE
    OBVIOUS
  <2>1. stash \in SUBSET Block /\ UniqueIds(stash) /\ Cardinality(stash) = StashCapacity
        /\ Current \notin Ids(stash) /\ Current \in MappedIds
    BY DEF UpdateOverflows, StashFull, TypeOK
  <2> QED BY <2>1, FullStashHoldsAll
<1>3. TypeOK => [~ StashOverflows]_vars
  BY <1>1, <1>2 DEF StashOverflows
<1> QED BY TypeCorrect, <1>3, PTL DEF NoOverflow

\* With such a stash there is one copy of each block without further conditions
\* on the run.
COROLLARY OneCopyWithRoom ==
  ASSUME IdsFitInt, Cardinality(MappedIds) <= StashCapacity
  PROVE  Spec => []OneCopy
BY OneCopyEach, RoomyStash, PTL

==============================================================================
