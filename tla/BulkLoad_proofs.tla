--------------------------- MODULE BulkLoad_proofs ---------------------------
(***************************************************************************)
(* Proofs about BulkLoad, for every value of the constants under which     *)
(* load cannot write beyond the tree: the storage has no buckets there, as *)
(* the one the ORAM makes for itself (oram.cpp:44-51), or no load is large *)
(* enough.                                                                 *)
(***************************************************************************)
EXTENDS BulkLoad, PathORAMContract_proofs, OramTree_proofs

NoRoomBeyondTree == StorageCapacity <= MaxLocation \/ LoadSize <= (MaxLocation - 1) * Z

-----------------------------------------------------------------------------
(***************************************************************************)
(* Where load puts a block.                                                *)
(***************************************************************************)
LEMMA TimesMonotone ==
  ASSUME NEW a \in Int, NEW b \in Int, NEW c \in Nat, a <= b
  PROVE  a * c <= b * c
<1>1. (b - a) * c >= 0
  OBVIOUS
<1>2. (b - a) * c = b * c - a * c
  OBVIOUS
<1> QED BY <1>1, <1>2

LEMMA TimesReflects ==
  ASSUME NEW a \in Int, NEW b \in Int, NEW c \in Nat, a * c < b * c
  PROVE  a < b
<1> SUFFICES ASSUME b <= a PROVE FALSE
  OBVIOUS
<1>1. b * c <= a * c
  BY TimesMonotone
<1>2. a * c \in Int /\ b * c \in Int
  OBVIOUS
<1> QED BY <1>1, <1>2

\* The blocks are dealt out Z to a bucket.
LEMMA DealtOut ==
  ASSUME requests \in Seq(Request), NEW i \in DOMAIN requests
  PROVE  /\ BucketCount \in Nat \ {0}
         /\ (i - 1) \div Z \in 0 .. BucketCount - 1
         /\ BucketCount * Z < Len(requests) + Z
<1> DEFINE n == Len(requests)
           b == (i - 1) \div Z
           B == BucketCount
<1>1. n \in Nat /\ i \in 1 .. n /\ Z \in Nat \ {0} /\ i - 1 \in Nat /\ n + Z - 1 \in Nat
  BY SizesAssumption
<1>2. b \in Nat /\ b * Z <= i - 1
  BY <1>1, DivBounds
<1>3. B \in Nat /\ B * Z <= n + Z - 1 /\ n + Z - 1 < (B + 1) * Z
  BY <1>1, DivBounds DEF BucketCount
<1> HIDE DEF b, B
<1>4. b * Z < B * Z
  <2>1. (B + 1) * Z = B * Z + Z
    BY <1>1, <1>3
  <2>2. b * Z \in Int /\ B * Z \in Int
    BY <1>1, <1>2, <1>3
  <2> QED BY <1>1, <1>2, <1>3, <2>1, <2>2
<1>5. b < B
  BY <1>1, <1>2, <1>3, <1>4, TimesReflects
<1>6. B * Z < n + Z
  BY <1>1, <1>3
<1> QED BY <1>2, <1>3, <1>5, <1>6 DEF b, B

\* Locations run from 1 to MaxLocation, and reach it only if there is a bucket
\* of data for each location: MaxLocation is not in the tree (oram.cpp:129).
LEMMA LocationBounds ==
  ASSUME requests \in Seq(Request), NEW i \in DOMAIN requests
  PROVE  /\ LocationOf(i) \in 1 .. MaxLocation
         /\ BucketCount < MaxLocation => LocationOf(i) < MaxLocation
<1> DEFINE b == (i - 1) \div Z
           B == BucketCount
           M == MaxLocation
           q == (b * M) \div B
<1>1. B \in Nat \ {0} /\ b \in Nat /\ b <= B - 1
  BY DealtOut
<1>2. M \in Nat \ {0}
  BY TwoToNat, HeightFacts DEF MaxLocation
<1> HIDE DEF b, B, M
<1>3. b * M \in Nat /\ q \in Nat /\ q * B <= b * M
  BY <1>1, <1>2, DivBounds
<1>4. b * M <= B * M - M
  <2>1. b * M <= (B - 1) * M
    BY <1>1, <1>2, TimesMonotone
  <2>2. (B - 1) * M = B * M - M
    BY <1>1, <1>2
  <2> QED BY <2>1, <2>2
<1> HIDE DEF q
<1>5. q * B \in Int /\ B * M \in Int /\ M * B = B * M
  BY <1>1, <1>2, <1>3
<1>6. q < M
  <2>1. q * B < M * B
    BY <1>2, <1>3, <1>4, <1>5
  <2> QED BY <1>1, <1>2, <1>3, <2>1, TimesReflects
<1>7. B < M => q < M - 1
  <2>1. ASSUME B < M PROVE q * B < (M - 1) * B
    <3>1. (M - 1) * B = B * M - B
      BY <1>1, <1>2
    <3> QED BY <1>1, <1>2, <1>3, <1>4, <1>5, <2>1, <3>1
  <2> QED BY <1>1, <1>2, <1>3, <2>1, TimesReflects
<1>8. LocationOf(i) = 1 + q
  BY DEF LocationOf, q, b, M, B
<1> QED BY <1>2, <1>3, <1>6, <1>7, <1>8 DEF M, B

\* Two buckets of data never go to the same location.
LEMMA LocationsApart ==
  ASSUME requests \in Seq(Request), NEW i \in DOMAIN requests, NEW j \in DOMAIN requests,
         ~ TooMuch, (i - 1) \div Z < (j - 1) \div Z
  PROVE  LocationOf(i) < LocationOf(j)
<1> DEFINE b == (i - 1) \div Z
           c == (j - 1) \div Z
           B == BucketCount
           M == MaxLocation
           q == (b * M) \div B
           r == (c * M) \div B
<1>1. B \in Nat \ {0} /\ b \in Nat /\ c \in Nat /\ b + 1 <= c
  BY DealtOut
<1>2. M \in Nat /\ B <= M
  BY TwoToNat, HeightFacts, <1>1 DEF MaxLocation, TooMuch
<1>3. LocationOf(i) = 1 + q /\ LocationOf(j) = 1 + r
  BY DEF LocationOf
<1> HIDE DEF b, c, B, M
<1>4. /\ q \in Nat /\ q * B <= b * M
      /\ r \in Nat /\ c * M < (r + 1) * B
  BY <1>1, <1>2, DivBounds
<1> HIDE DEF q, r
<1>5. b * M + M <= c * M
  <2>1. (b + 1) * M <= c * M
    BY <1>1, <1>2, TimesMonotone
  <2>2. (b + 1) * M = b * M + M
    BY <1>1, <1>2
  <2> QED BY <2>1, <2>2
<1>6. (q + 1) * B < (r + 1) * B
  <2>1. (q + 1) * B = q * B + B
    BY <1>1, <1>4
  <2>2. q * B \in Int /\ b * M \in Int /\ c * M \in Int /\ (r + 1) * B \in Int
    BY <1>1, <1>2, <1>4
  <2> QED BY <1>1, <1>2, <1>4, <1>5, <2>1, <2>2
<1>7. q < r
  <2>1. q + 1 < r + 1
    BY <1>1, <1>4, <1>6, TimesReflects
  <2> QED BY <1>4, <2>1
<1> QED BY <1>3, <1>4, <1>7

\* load never hands the storage a bucket of more than Z blocks, nor two buckets
\* for one location: what it writes is accepted or refused for its payloads and
\* its locations only (oram.cpp:126-152).
THEOREM LoadFillsBuckets ==
  ASSUME requests \in Seq(Request), ~ TooMuch, NEW l
  PROVE  IsFiniteSet(Loaded(l)) /\ Cardinality(Loaded(l)) <= Z
<1> DEFINE J == {j \in DOMAIN requests : LocationOf(j) = l}
           block(i) == PadBlock([id |-> requests[i].id, data |-> requests[i].data])
<1>1. CASE J = {}
  <2>1. Loaded(l) = {}
    BY <1>1 DEF Loaded
  <2> QED BY <2>1, FS_EmptySet, SizesAssumption
<1>2. CASE J # {}
  <2>1. PICK i \in J : TRUE
    BY <1>2
  <2> DEFINE b == (i - 1) \div Z
  <2>2. \A j \in J : (j - 1) \div Z = b
    <3> SUFFICES ASSUME NEW j \in J PROVE (j - 1) \div Z = b
      OBVIOUS
    <3>1. (j - 1) \div Z \in Int /\ b \in Int
      BY <2>1, DealtOut
    <3>2. LocationOf(i) = LocationOf(j) /\ LocationOf(i) \in Int
      BY <2>1, LocationBounds
    <3> QED BY <2>1, <3>1, <3>2, LocationsApart
  <2>3. b \in Nat /\ b * Z \in Nat
    BY <2>1, DealtOut, SizesAssumption
  <2>4. J \subseteq b * Z + 1 .. b * Z + Z
    <3> SUFFICES ASSUME NEW j \in J PROVE j \in b * Z + 1 .. b * Z + Z
      OBVIOUS
    <3>1. j - 1 \in Nat /\ Z \in Nat \ {0}
      BY SizesAssumption
    <3>2. b * Z <= j - 1 /\ j - 1 < (b + 1) * Z
      BY <2>2, <3>1, DivBounds
    <3> HIDE DEF b
    <3>3. (b + 1) * Z = b * Z + Z
      BY <2>3, <3>1
    <3> QED BY <2>3, <3>1, <3>2, <3>3
  <2> HIDE DEF b
  <2>5. /\ IsFiniteSet(b * Z + 1 .. b * Z + Z)
        /\ Cardinality(b * Z + 1 .. b * Z + Z) = Z
    <3>1. b * Z + 1 \in Int /\ b * Z + Z \in Int /\ b * Z + 1 <= b * Z + Z
          /\ (b * Z + Z) - (b * Z + 1) + 1 = Z
      BY <2>3, SizesAssumption
    <3> QED BY <3>1, FS_Interval
  <2> HIDE DEF J
  <2>6. IsFiniteSet(J) /\ Cardinality(J) <= Z
    BY <2>4, <2>5, FS_Subset
  <2>7. /\ [j \in J |-> block(j)] \in [J -> Loaded(l)]
        /\ \A new \in Loaded(l) : \E j \in J : block(j) = new
    BY DEF Loaded, J
  <2> DEFINE f == [j \in J |-> block(j)]
  <2> HIDE DEF block
  <2>8. IsFiniteSet(Loaded(l)) /\ Cardinality(Loaded(l)) <= Cardinality(J)
    <3>1. f \in Surjection(J, Loaded(l))
      BY <2>7 DEF Surjection
    <3> QED BY <2>6, <3>1, FS_Surjection
  <2>9. Cardinality(J) \in Int /\ Cardinality(Loaded(l)) \in Int
    BY <2>6, <2>8, FS_CardinalityType
  <2> QED BY <2>6, <2>8, <2>9, SizesAssumption
<1> QED BY <1>1, <1>2

-----------------------------------------------------------------------------
(***************************************************************************)
(* The invariant: that of PathORAM, and during a load that the ORAM holds  *)
(* nothing and is given each id once.                                      *)
(***************************************************************************)
Loading ==
  /\ Empty
  /\ requests \in Seq(Request) /\ Len(requests) <= LoadSize
  /\ \A i, j \in DOMAIN requests : requests[i].id = requests[j].id => i = j
  /\ storage \in [Locations -> SUBSET Block]
  /\ position \in [MappedIds -> Nat]
  /\ DOMAIN cache \subseteq Locations
  /\ cache \in [DOMAIN cache -> SUBSET Block]
  /\ stranded \subseteq MappedIds
  /\ next = 1 /\ response = <<>>

LoadInv == IF pc = "load" THEN Loading ELSE AgreeInv

\* What the end of a load has written, whichever way it ends: the data that
\* goes to these locations.
LoadWrites(written) ==
  /\ written \subseteq LoadLocations
  /\ position' \in [MappedIds -> Nat]
  /\ written # {} => ~ TooMuch /\ AllMapped /\ Acceptable /\ MapFirst(Len(requests))
  /\ WriteLoaded(written)
  /\ Hide(written)
  /\ UNCHANGED <<stash, cache>>

\* Positions that load draws are numbers.
LEMMA MappedToNumbers ==
  ASSUME position \in [MappedIds -> Nat], NEW n \in Nat, MapFirst(n)
  PROVE  position' \in [MappedIds -> Nat]
<1>1. PICK chosen \in [1 .. n -> Leaves \cup UndefinedLeaf] :
        position' = [id \in MappedIds |->
                      IF \E i \in 1 .. n : requests[i].id = id
                      THEN chosen[CHOOSE i \in 1 .. n : requests[i].id = id]
                      ELSE position[id]]
  BY DEF MapFirst
<1>2. \A i \in 1 .. n : chosen[i] \in Nat
  BY LeavesAreNumbers, LoadAssumption
<1>3. \A id : (\E i \in 1 .. n : requests[i].id = id)
                => (CHOOSE i \in 1 .. n : requests[i].id = id) \in 1 .. n
  OBVIOUS
<1> QED BY <1>1, <1>2, <1>3

LEMMA WriteNothing ==
  ASSUME Loading, UNCHANGED <<storage, stranded>>
  PROVE  WriteLoaded({}) /\ Hide({})
<1>1. {i \in {j \in DOMAIN requests : LocationOf(j) \in {} \cap DOMAIN cache} : TRUE} = {}
  OBVIOUS
<1>2. {requests[i].id : i \in {j \in DOMAIN requests : LocationOf(j) \in {} \cap DOMAIN cache}} = {}
  BY <1>1
<1> QED BY <1>2 DEF Loading, WriteLoaded, Hide

LEMMA LoadEnds ==
  ASSUME Loading, pc = "load", EndOfLoad
  PROVE  \E written \in SUBSET LoadLocations :
           /\ LoadWrites(written)
           /\ \/ End("threw")
              \/ End("returned") /\ AllMapped /\ written = LoadLocations
<1>0. Len(requests) \in Nat /\ DOMAIN requests = 1 .. Len(requests)
  BY DEF Loading
<1>1. CASE Load
  <2>1. position' \in [MappedIds -> Nat]
    BY <1>0, <1>1, MappedToNumbers DEF Load, Loading
  <2>2. LoadWrites(LoadLocations)
    BY <1>1, <2>1 DEF Load, LoadWrites
  <2> QED BY <1>1, <2>2 DEF Load
<1>2. CASE LoadFails
  <2>1. position' \in [MappedIds -> Nat]
    BY <1>0, <1>2, MappedToNumbers DEF LoadFails, Loading
  <2>2. PICK written \in SUBSET LoadLocations : WriteLoaded(written) /\ Hide(written)
    BY <1>2 DEF LoadFails
  <2>3. LoadWrites(written)
    BY <1>2, <2>1, <2>2 DEF LoadFails, LoadWrites
  <2> QED BY <1>2, <2>3 DEF LoadFails
<1>3. CASE LoadTooMuch \/ LoadUnmapped \/ LoadRejected
  <2>1. UNCHANGED <<storage, stranded, stash, cache>> /\ End("threw")
    BY <1>3 DEF LoadTooMuch, LoadUnmapped, LoadRejected
  <2>2. position' \in [MappedIds -> Nat]
    <3>1. CASE LoadTooMuch
      BY <3>1 DEF LoadTooMuch, Loading
    <3>2. CASE LoadUnmapped
      <4>1. PICK n \in DOMAIN requests : MapFirst(n - 1)
        BY <3>2 DEF LoadUnmapped
      <4>2. n - 1 \in Nat
        BY <1>0
      <4> QED BY <4>1, <4>2, MappedToNumbers DEF Loading
    <3>3. CASE LoadRejected
      BY <1>0, <3>3, MappedToNumbers DEF LoadRejected, Loading
    <3> QED BY <1>3, <3>1, <3>2, <3>3
  <2>3. LoadWrites({})
    BY <2>1, <2>2, WriteNothing DEF LoadWrites
  <2> QED BY <2>1, <2>3
<1> QED BY <1>1, <1>2, <1>3 DEF EndOfLoad

\* The tree after a load holds what was loaded and is not hidden.
LEMMA TreeLoaded ==
  ASSUME Loading, NEW written \in SUBSET LoadLocations, LoadWrites(written),
         NEW l \in Locations
  PROVE  Tree'[l] = IF l \in written /\ l \notin DOMAIN cache THEN Loaded(l) ELSE {}
<1>1. Tree[l] = {}
  BY DEF Loading, Empty, InTree
<1>2. /\ cache' = cache
      /\ storage' = [m \in Locations |-> IF m \in written THEN Loaded(m) ELSE storage[m]]
  BY DEF LoadWrites, WriteLoaded
<1> QED BY <1>1, <1>2 DEF Tree

\* A loaded block is one of the request's, padded.
LEMMA BlockLoaded ==
  ASSUME NEW l, NEW block \in Loaded(l)
  PROVE  \E i \in DOMAIN requests : /\ LocationOf(i) = l
                                    /\ block.id = requests[i].id
                                    /\ block.data = Padded(requests[i].data)
BY DEF Loaded, PadBlock

\* load maps a block to a leaf of the tree, below the bucket it puts it in.
LEMMA MappedBelow ==
  ASSUME NoRoomBeyondTree, Loading, NEW written \in SUBSET LoadLocations,
         LoadWrites(written), NEW i \in DOMAIN requests, LocationOf(i) \in written
  PROVE  /\ LocationOf(i) \in Path(position'[requests[i].id])
         /\ position'[requests[i].id] \in Leaves
<1>1. /\ requests \in Seq(Request) /\ AllMapped /\ Acceptable
      /\ MapFirst(Len(requests)) /\ ~ TooMuch
  BY DEF LoadWrites, Loading
<1>2. LocationOf(i) \in 1 .. MaxLocation - 1
  <2>1. MaxLocation \in Nat \ {0}
    BY TwoToNat, HeightFacts DEF MaxLocation
  <2>2. CASE StorageCapacity <= MaxLocation
    <3>1. LocationOf(i) \in 0 .. StorageCapacity - 1
      BY <1>1 DEF Acceptable, LoadLocations, Locations
    <3> QED BY <1>1, <2>1, <2>2, <3>1, LocationBounds, SizesAssumption
  <2>3. CASE LoadSize <= (MaxLocation - 1) * Z
    <3>1. BucketCount * Z < Len(requests) + Z /\ BucketCount \in Nat
      BY <1>1, DealtOut
    <3>2. (MaxLocation - 1) * Z + Z = MaxLocation * Z /\ MaxLocation * Z \in Int
          /\ (MaxLocation - 1) * Z \in Int /\ BucketCount * Z \in Int
      BY <2>1, <3>1, SizesAssumption
    <3>3. Len(requests) \in Nat /\ Len(requests) <= LoadSize /\ LoadSize \in Nat /\ Z \in Nat
      BY LoadAssumption, SizesAssumption DEF Loading
    <3>4. BucketCount * Z < MaxLocation * Z
      BY <2>3, <3>1, <3>2, <3>3
    <3>5. BucketCount < MaxLocation
      BY <2>1, <3>1, <3>3, <3>4, TimesReflects
    <3> QED BY <1>1, <2>1, <3>5, LocationBounds
  <2> QED BY <2>2, <2>3 DEF NoRoomBeyondTree
<1>3. PICK chosen \in [1 .. Len(requests) -> Leaves \cup UndefinedLeaf] :
        /\ \A j \in 1 .. Len(requests) : chosen[j] \in LeafChoices(j)
        /\ position' = [id \in MappedIds |->
                         IF \E j \in 1 .. Len(requests) : requests[j].id = id
                         THEN chosen[CHOOSE j \in 1 .. Len(requests) : requests[j].id = id]
                         ELSE position[id]]
  BY <1>1 DEF MapFirst
<1>4. /\ DOMAIN requests = 1 .. Len(requests)
      /\ requests[i].id \in MappedIds
  BY <1>1 DEF AllMapped, RequestedIds
<1>5. (CHOOSE j \in 1 .. Len(requests) : requests[j].id = requests[i].id) = i
  BY <1>4 DEF Loading
<1>6. position'[requests[i].id] = chosen[i]
  BY <1>3, <1>4, <1>5
<1>7. LeafChoices(i) = {under \in Leaves : LocationOf(i) \in Path(under)}
  <2>1. LocationOf(i) \in Int /\ LocationOf(i) < MaxLocation
    <3>1. MaxLocation \in Int
      BY TwoToNat, HeightFacts DEF MaxLocation
    <3> QED BY <1>2, <3>1
  <2> QED BY <1>2, <2>1, LeavesBelowBucket DEF LeafChoices, MaxLocation
<1> QED BY <1>3, <1>4, <1>6, <1>7

-----------------------------------------------------------------------------
(***************************************************************************)
(* The invariant is inductive.                                             *)
(***************************************************************************)
LEMMA LoadInvInit == Init => LoadInv
<1>1. Init => pc # "load"
  BY DEF Init
<1> QED BY <1>1, AgreeInvInit DEF LoadInv

\* The other calls do not run during a load.
LEMMA CallsOutsideLoad == Next => pc # "load"
BY DEF Next, Call, Get, Put, Multiple, MultipleTooMany, Access, Idle, Prefetch,
       PrefetchThrows, Remap, RemapThrows, ReadPath, ReadPathOverflows, ReadPathThrows,
       Update, UpdateOverflows, WritePath, Sync, SyncRejects, SyncFails

LEMMA OtherCallsKeepLoadInv ==
  ASSUME LoadInv, pc # "load", [Next]_vars
  PROVE  AgreeInv /\ AgreeInv' /\ pc' # "load"
<1>1. AgreeInv /\ AgreeInv'
  BY AgreeInvStep DEF LoadInv
<1> QED BY <1>1 DEF AgreeInv, PathInv, TypeOK

LEMMA BeginLoadKeepsInv ==
  ASSUME LoadInv, NEW data \in LoadData, BeginLoad(data)
  PROVE  AgreeInv /\ pc' = "load" /\ Loading'
<1>1. pc # "load" /\ pc' = "load" /\ requests' = data
  BY DEF BeginLoad, Begin, Idle
<1>2. AgreeInv /\ Idle /\ Empty
  BY <1>1 DEF LoadInv, BeginLoad
<1>3. UNCHANGED <<storage, position, stash, cache, next, response, stranded>> /\ Tree' = Tree
  BY DEF BeginLoad, Begin, Tree
<1>4. next = 1 /\ response = <<>>
  BY <1>2 DEF AgreeInv, PathInv, TypeOK, Idle
<1>5. Empty'
  BY <1>2, <1>3 DEF Empty, InTree
<1>6. /\ data \in Seq(Request) /\ Len(data) <= LoadSize
      /\ \A i, j \in DOMAIN data : data[i].id = data[j].id => i = j
  <2> DEFINE Writes == {[id |-> id, read |-> FALSE, data |-> p] : id \in ClientIds, p \in Data}
  <2>1. Writes \subseteq Request
    <3>1. \A id \in ClientIds, p \in Data : [id |-> id, read |-> FALSE, data |-> p] \in Request
      BY PayloadClosed DEF Request
    <3> QED BY <3>1
  <2>2. PICK n \in 0 .. LoadSize :
          /\ data \in [1 .. n -> Writes]
          /\ \A i, j \in 1 .. n : data[i].id = data[j].id => i = j
    BY DEF LoadData
  <2> HIDE DEF Writes
  <2>3. data \in Seq(Request) /\ Len(data) = n /\ DOMAIN data = 1 .. n
    BY <2>1, <2>2, LoadAssumption
  <2> QED BY <2>2, <2>3, LoadAssumption
<1>7. Loading'
  BY <1>1, <1>2, <1>3, <1>4, <1>5, <1>6 DEF Loading, AgreeInv, PathInv, TypeOK
<1> QED BY <1>1, <1>2, <1>7

LEMMA EndOfLoadKeepsInv ==
  ASSUME NoRoomBeyondTree, Loading, pc = "load", EndOfLoad
  PROVE  AgreeInv' /\ Idle'
<1>1. PICK written \in SUBSET LoadLocations :
        LoadWrites(written) /\ (End("threw") \/ End("returned"))
  BY LoadEnds
<1>2. /\ stash' = {} /\ cache' = cache /\ position' \in [MappedIds -> Nat]
      /\ written # {} => AllMapped
  BY <1>1 DEF LoadWrites, Loading, Empty
<1>3. PICK outcome \in {"threw", "returned"} : End(outcome)
  BY <1>1
<1>4. ASSUME written # {}, NEW i \in DOMAIN requests
      PROVE  /\ requests[i].id \in MappedIds
             /\ PadBlock([id |-> requests[i].id, data |-> requests[i].data]) \in Block
  <2>1. requests[i] \in Request /\ requests[i].id \in MappedIds
    BY <1>2, <1>4 DEF Loading, AllMapped, RequestedIds
  <2> QED BY <2>1, PayloadClosed DEF PadBlock, Block, Request
<1>5. storage' \in [Locations -> SUBSET Block]
  <2>1. ASSUME NEW l \in written PROVE Loaded(l) \in SUBSET Block
    BY <1>4, <2>1 DEF Loaded
  <2> QED BY <1>1, <2>1 DEF LoadWrites, WriteLoaded, Loading
<1>6. stranded' \subseteq MappedIds
  <2>1. {requests[i].id : i \in {j \in DOMAIN requests :
           LocationOf(j) \in written \cap DOMAIN cache}} \subseteq MappedIds
    BY <1>4
  <2> QED BY <1>1, <2>1 DEF LoadWrites, Hide, Loading
<1>7. TypeOK'
  <2>1. UniqueIds(stash')
    BY <1>2 DEF UniqueIds
  <2>2. DOMAIN cache' \subseteq Locations /\ cache' \in [DOMAIN cache' -> SUBSET Block]
    BY <1>2 DEF Loading
  <2> QED BY <1>2, <1>3, <1>5, <1>6, <2>1, <2>2, EndType
<1>8. ASSUME NEW l \in Locations, NEW block \in Tree'[l]
      PROVE  \E i \in DOMAIN requests :
               /\ l \in written /\ LocationOf(i) = l
               /\ block.id = requests[i].id /\ block.data = Padded(requests[i].data)
  BY <1>1, <1>8, TreeLoaded, BlockLoaded
<1>9. Idle' /\ \A id : Home(id)' = position'[id]
  BY <1>3 DEF End, Idle, Home, InAccess
<1>10. BlockOnItsPath'
  <2>1. ASSUME NEW l \in Locations, NEW block \in Tree'[l]
        PROVE  l \in Path(position'[block.id])
    BY <1>1, <1>8, <2>1, MappedBelow
  <2> QED BY <1>9, <2>1 DEF BlockOnItsPath, Path
<1>11. PathInStash'
  BY <1>3 DEF End, PathInStash
<1>12. CopiesAgree'
  <2>1. ASSUME NEW a \in (stash \cup InTree)'
        PROVE  \E i \in DOMAIN requests :
                 a.id = requests[i].id /\ a.data = Padded(requests[i].data)
    <3>1. PICK l \in Locations : a \in Tree'[l]
      BY <1>2 DEF InTree
    <3> QED BY <1>8, <3>1
  <2>2. ASSUME NEW a \in (stash \cup InTree)', NEW b \in (stash \cup InTree)', a.id = b.id
        PROVE  a.data = b.data
    BY <2>1, <2>2 DEF Loading
  <2> QED BY <2>2 DEF CopiesAgree
<1>13. HomesAreLeaves'
  <2>1. ASSUME NEW block \in (stash \cup InTree)' PROVE position'[block.id] \in Leaves
    <3>1. PICK l \in Locations : block \in Tree'[l]
      BY <1>2 DEF InTree
    <3> QED BY <1>1, <1>8, <3>1, MappedBelow
  <2> QED BY <1>9, <2>1 DEF HomesAreLeaves, Idle, InAccess
<1> QED BY <1>7, <1>9, <1>10, <1>11, <1>12, <1>13 DEF AgreeInv, PathInv

LEMMA LoadInvStep ==
  ASSUME NoRoomBeyondTree, LoadInv, [Next \/ LoadNext]_vars
  PROVE  LoadInv'
<1>1. CASE pc # "load" /\ [Next]_vars
  BY <1>1, OtherCallsKeepLoadInv DEF LoadInv
<1>2. CASE pc = "load" /\ UNCHANGED vars
  <2>1. Loading'
    BY <1>2 DEF LoadInv, Loading, vars, Empty, InTree, Tree
  <2> QED BY <1>2, <2>1 DEF LoadInv, vars
<1>3. CASE EndOfLoad
  <2>1. pc = "load"
    BY <1>3 DEF EndOfLoad, Load, LoadTooMuch, LoadUnmapped, LoadRejected, LoadFails
  <2>2. AgreeInv' /\ Idle'
    BY <1>3, <2>1, EndOfLoadKeepsInv DEF LoadInv
  <2> QED BY <2>2 DEF LoadInv, Idle
<1>4. CASE \E data \in LoadData : BeginLoad(data)
  BY <1>4, BeginLoadKeepsInv DEF LoadInv
<1>5. Next => pc # "load"
  BY CallsOutsideLoad
<1> QED BY <1>1, <1>2, <1>3, <1>4, <1>5 DEF LoadNext

\* load puts every block where the leaf it draws for it can be followed to
\* (oram.cpp:126-131), and what it writes past the stash and the cache leaves
\* the invariant of the other calls intact.
THEOREM LoadKeepsPaths ==
  ASSUME NoRoomBeyondTree PROVE LoadSpec => []BlockOnItsPath
<1>1. ASSUME LoadInv PROVE BlockOnItsPath
  <2>1. CASE pc = "load"
    <3>1. InTree = {}
      BY <1>1, <2>1 DEF LoadInv, Loading, Empty
    <3>2. ASSUME NEW l \in Locations, NEW block \in Tree[l] PROVE FALSE
      BY <3>1, <3>2 DEF InTree
    <3> QED BY <3>2 DEF BlockOnItsPath
  <2>2. CASE pc # "load"
    BY <1>1, <2>2 DEF LoadInv, AgreeInv, PathInv
  <2> QED BY <2>1, <2>2
<1>2. LoadInv /\ [Next \/ LoadNext]_vars => LoadInv'
  BY LoadInvStep
<1> QED BY LoadInvInit, <1>1, <1>2, PTL DEF LoadSpec

-----------------------------------------------------------------------------
(***************************************************************************)
(* Every step of BulkLoad is a step of LoadedBlockStore or leaves it       *)
(* unchanged.                                                              *)
(***************************************************************************)
\* Outside a load the block store of LoadedContract is the one of Contract.
LEMMA SameStoreOutsideLoad ==
  ASSUME pc # "load"
  PROVE  /\ Contract!Init => LoadedContract!Init
         /\ pc' # "load" /\ Contract!Next => LoadedContract!Next
         /\ pc' # "load" /\ UNCHANGED Contract!vars => UNCHANGED LoadedContract!vars
<1>1. (IF Idle THEN pc ELSE IF pc = "load" THEN "loading" ELSE "running")
        = IF Idle THEN pc ELSE "running"
  OBVIOUS
<1>2. pc' # "load" =>
        (IF Idle THEN pc ELSE IF pc = "load" THEN "loading" ELSE "running")'
          = (IF Idle THEN pc ELSE "running")'
  OBVIOUS
<1>3. Contract!Init => LoadedContract!Init
  BY <1>1 DEF Contract!Init, LoadedContract!Init
<1>4. pc' # "load" /\ UNCHANGED Contract!vars => UNCHANGED LoadedContract!vars
  BY <1>1, <1>2 DEF Contract!vars, LoadedContract!vars
<1>5. pc' # "load" /\ Contract!Next => LoadedContract!Next
  BY <1>1, <1>2
     DEF Contract!Next, LoadedContract!Next,
         Contract!Call, LoadedContract!Call, Contract!Refuse, LoadedContract!Refuse,
         Contract!ServeRead, LoadedContract!ServeRead,
         Contract!ServeWrite, LoadedContract!ServeWrite,
         Contract!Return, LoadedContract!Return, Contract!Throw, LoadedContract!Throw,
         Contract!Ended, LoadedContract!Ended, Contract!Finish, LoadedContract!Finish,
         Contract!Serving, LoadedContract!Serving,
         Contract!Unserved, LoadedContract!Unserved
<1> QED BY <1>3, <1>4, <1>5

\* A call of get, put or multiple leaves no cache behind when it returns.
LEMMA OtherCallsOperate ==
  ASSUME IdsFitInt, LoadInv, Next
  PROVE  LoadedContract!Operate \/ UNCHANGED <<LoadedContract!vars, cache>>
<1>1. pc # "load" /\ AgreeInv /\ AgreeInv' /\ pc' # "load"
  BY CallsOutsideLoad, OtherCallsKeepLoadInv
<1>2. [Contract!Next]_Contract!vars
  BY <1>1, ContractStep
<1>3. LoadedContract!Next \/ UNCHANGED LoadedContract!vars
  BY <1>1, <1>2, SameStoreOutsideLoad
<1>4. CASE Idle
  <2>1. cache' = cache /\ pc' # "returned"
    BY <1>4 DEF Next, Access, Call, Get, Put, Multiple, MultipleTooMany, Begin, Idle,
       Prefetch, PrefetchThrows, Remap, RemapThrows, ReadPath, ReadPathOverflows,
       ReadPathThrows, Update, UpdateOverflows, WritePath, Sync, SyncRejects, SyncFails
  <2>2. (IF Idle THEN pc ELSE IF pc = "load" THEN "loading" ELSE "running")' # "returned"
    BY <2>1
  <2>3. (cache # NoCache)' \in BOOLEAN
    OBVIOUS
  <2> QED BY <1>3, <2>1, <2>2, <2>3 DEF LoadedContract!Operate
<1>5. CASE ~ Idle
  <2>1. pc' = "returned" => cache' = NoCache
    BY <1>5 DEF Next, Access, Call, Get, Put, Multiple, MultipleTooMany, Begin, Idle, End,
       Prefetch, PrefetchThrows, Remap, RemapThrows, ReadPath, ReadPathOverflows,
       ReadPathThrows, Update, UpdateOverflows, WritePath, Advance,
       Sync, SyncRejects, SyncFails
  <2>2. (IF Idle THEN pc ELSE IF pc = "load" THEN "loading" ELSE "running") = "running"
    BY <1>1, <1>5
  <2>3. (IF Idle THEN pc ELSE IF pc = "load" THEN "loading" ELSE "running")' = "returned"
          => pc' = "returned"
    BY DEF Idle
  <2>4. NoCache' = NoCache /\ (cache # NoCache)' \in BOOLEAN
    BY DEF NoCache
  <2> QED BY <1>3, <2>1, <2>2, <2>3, <2>4 DEF LoadedContract!Operate
<1> QED BY <1>4, <1>5

LEMMA BeginLoads ==
  ASSUME LoadInv, NEW data \in LoadData, BeginLoad(data)
  PROVE  LoadedContract!BeginLoad
<1>1. AgreeInv /\ pc' = "load" /\ Loading'
  BY BeginLoadKeepsInv
<1>2. /\ UNCHANGED <<stash, cache, stranded, response>>
      /\ Tree' = Tree /\ Idle /\ Empty
  BY DEF BeginLoad, Begin, Tree
<1>3. Contents' = Contents
  BY <1>2, SameCopiesSameContents
<1>4. ASSUME NEW id \in MappedIds PROVE Contents[id] \in {Nothing, Lost}
  <2>1. Stored(id) = EmptyPayload
    BY <1>2, StoredNowhere DEF Empty, Ids
  <2> QED BY <2>1 DEF Contents, Nothing
<1>5. /\ (IF Idle THEN pc ELSE IF pc = "load" THEN "loading" ELSE "running")' = "loading"
      /\ (IF Idle THEN pc ELSE IF pc = "load" THEN "loading" ELSE "running")
           \in {"returned", "threw"}
  BY <1>1, <1>2 DEF Idle
<1>6. requests' \in Seq(Request)
  BY <1>1 DEF Loading
<1>7. (cache # NoCache)' = (cache # NoCache)
  BY <1>2 DEF NoCache
<1> QED BY <1>2, <1>3, <1>4, <1>5, <1>6, <1>7
        DEF LoadedContract!BeginLoad, LoadedContract!Ended

\* What was written and is not hidden is what the table holds now.
LEMMA WritesFill ==
  ASSUME Loading, NEW written \in SUBSET LoadLocations, LoadWrites(written)
  PROVE  LoadedContract!Fill({i \in DOMAIN requests : LocationOf(i) \in written})
<1> DEFINE given == {i \in DOMAIN requests : LocationOf(i) \in written}
           Of(id) == {i \in given : requests[i].id = id}
           hidden == {requests[i].id : i \in {j \in DOMAIN requests :
                        LocationOf(j) \in written \cap DOMAIN cache}}
           filled == [id \in MappedIds |->
                        IF Of(id) = {} \/ Contents[id] = Lost THEN Contents[id]
                        ELSE Padded(requests[CHOOSE i \in Of(id) : TRUE].data)]
<1>1. stranded' = stranded \cup hidden
  BY DEF LoadWrites, Hide
<1>2. ASSUME written # {}, NEW i \in DOMAIN requests
      PROVE  requests[i].id \in MappedIds /\ requests[i].data \in Payload
  <2>1. requests[i] \in Request /\ AllMapped
    BY <1>2 DEF LoadWrites, Loading
  <2> QED BY <2>1 DEF AllMapped, RequestedIds, Request
<1>3. hidden \in SUBSET {id \in MappedIds : cache # NoCache /\ Of(id) # {}}
  <2>1. ASSUME NEW i \in DOMAIN requests, LocationOf(i) \in written \cap DOMAIN cache
        PROVE  requests[i].id \in MappedIds /\ cache # NoCache /\ Of(requests[i].id) # {}
    BY <1>2, <2>1 DEF NoCache
  <2> QED BY <2>1
<1>4. ASSUME NEW id \in MappedIds, id \notin stranded
      PROVE  Contents[id] = Nothing /\ Nothing # Lost
  <2>1. Stored(id) = EmptyPayload
    BY StoredNowhere DEF Loading, Empty, Ids
  <2>2. Nothing # Lost
    BY PayloadClosed, LostAssumption DEF Nothing
  <2> QED BY <1>4, <2>1, <2>2 DEF Contents, Nothing
<1>5. stash' = {}
  BY DEF LoadWrites, Loading, Empty
<1>6. ASSUME NEW id \in MappedIds, id \notin stranded', Of(id) = {}
      PROVE  Contents'[id] = Nothing
  <2>1. ASSUME NEW l \in Locations, NEW block \in Tree'[l] PROVE block.id # id
    <3>1. l \in written /\ block \in Loaded(l)
      BY <2>1, TreeLoaded
    <3>2. PICK i \in DOMAIN requests : LocationOf(i) = l /\ block.id = requests[i].id
      BY <3>1, BlockLoaded
    <3> QED BY <1>6, <3>1, <3>2
  <2>2. TreeCopies(id)' = {} /\ Copies(id)' = {}
    BY <1>5, <2>1 DEF TreeCopies, Copies, InTree
  <2>3. Stored(id)' = EmptyPayload
    BY <2>2 DEF Stored
  <2> QED BY <1>6, <2>3 DEF Contents, Nothing
<1>7. ASSUME NEW id \in MappedIds, id \notin stranded', NEW i \in Of(id)
      PROVE  Contents'[id] = Padded(requests[i].data)
  <2>1. LocationOf(i) \in written /\ LocationOf(i) \notin DOMAIN cache
    BY <1>1, <1>7
  <2>2. LocationOf(i) \in Locations
    BY <2>1 DEF LoadWrites, Acceptable
  <2>3. ASSUME NEW block \in InTree', block.id = id
        PROVE  block.data = Padded(requests[i].data)
    <3>1. PICK l \in Locations : block \in Tree'[l]
      BY <2>3 DEF InTree
    <3>2. l \in written /\ block \in Loaded(l)
      BY <3>1, TreeLoaded
    <3>3. PICK j \in DOMAIN requests :
            block.id = requests[j].id /\ block.data = Padded(requests[j].data)
      BY <3>2, BlockLoaded
    <3> QED BY <1>7, <2>3, <3>3 DEF Loading
  <2>4. TreeCopies(id)' # {} /\ Copies(id)' = {}
    <3> DEFINE new == PadBlock([id |-> requests[i].id, data |-> requests[i].data])
    <3>1. new \in Loaded(LocationOf(i)) /\ new.id = id
      BY <1>7 DEF Loaded, PadBlock
    <3> HIDE DEF new
    <3>2. new \in Tree'[LocationOf(i)]
      BY <2>1, <2>2, <3>1, TreeLoaded
    <3> QED BY <1>5, <2>2, <3>1, <3>2 DEF TreeCopies, Copies, InTree
  <2>5. Stored(id)' = Padded(requests[i].data)
    BY <2>3, <2>4 DEF Stored, TreeCopies
  <2>6. requests[i].data \in Payload
    BY <1>2, <1>7
  <2> QED BY <1>7, <2>5, <2>6, PaddedTwice DEF Contents
<1>8. Contents' = [id \in MappedIds |-> IF id \in hidden THEN Lost ELSE filled[id]]
  <2>1. ASSUME NEW id \in MappedIds
        PROVE  Contents'[id] = IF id \in hidden THEN Lost ELSE filled[id]
    <3> HIDE DEF hidden, Of
    <3>1. CASE id \in hidden
      BY <1>1, <3>1 DEF Contents
    <3>2. CASE id \notin hidden /\ id \in stranded
      BY <1>1, <3>2 DEF Contents
    <3>3. CASE id \notin hidden /\ id \notin stranded /\ Of(id) = {}
      BY <1>1, <1>4, <1>6, <3>3
    <3>4. CASE id \notin hidden /\ id \notin stranded /\ Of(id) # {}
      BY <1>1, <1>4, <1>7, <3>4
    <3> QED BY <3>1, <3>2, <3>3, <3>4
  <2> HIDE DEF hidden, filled
  <2> QED BY <2>1 DEF Contents
<1> HIDE DEF hidden
<1> QED BY <1>3, <1>8 DEF LoadedContract!Fill

LEMMA EndOfLoadFills ==
  ASSUME Loading, pc = "load", EndOfLoad
  PROVE  LoadedContract!Load \/ LoadedContract!LoadThrows
<1>1. PICK written \in SUBSET LoadLocations :
        /\ LoadWrites(written)
        /\ \/ End("threw")
           \/ End("returned") /\ AllMapped /\ written = LoadLocations
  BY LoadEnds
<1> DEFINE given == {i \in DOMAIN requests : LocationOf(i) \in written}
<1>2. LoadedContract!Fill(given)
  BY <1>1, WritesFill
<1>3. ASSUME NEW outcome \in {"threw", "returned"}, End(outcome)
      PROVE  LoadedContract!EndLoad(outcome)
  <2>1. /\ (IF Idle THEN pc ELSE IF pc = "load" THEN "loading" ELSE "running") = "loading"
        /\ (IF Idle THEN pc ELSE IF pc = "load" THEN "loading" ELSE "running")' = outcome
    BY <1>3 DEF End, Idle
  <2>2. response' = response /\ requests' = <<>>
    BY <1>3 DEF End, Loading
  <2>3. (cache # NoCache)' = (cache # NoCache)
    BY <1>1 DEF LoadWrites, NoCache
  <2> QED BY <2>1, <2>2, <2>3 DEF LoadedContract!EndLoad
<1>4. CASE End("threw")
  <2>1. given \in SUBSET DOMAIN requests
    OBVIOUS
  <2> HIDE DEF given
  <2> QED BY <1>2, <1>3, <1>4, <2>1 DEF LoadedContract!LoadThrows
<1>5. CASE End("returned") /\ AllMapped /\ written = LoadLocations
  <2>1. given = DOMAIN requests
    BY <1>5 DEF LoadLocations
  <2> HIDE DEF given
  <2> QED BY <1>2, <1>3, <1>5, <2>1 DEF LoadedContract!Load, AllMapped, RequestedIds
<1> QED BY <1>1, <1>4, <1>5

LEMMA LoadedContractStep ==
  ASSUME IdsFitInt, LoadInv, [Next \/ LoadNext]_vars
  PROVE  [LoadedContract!Operate \/ LoadedContract!BeginLoad \/ LoadedContract!Load
            \/ LoadedContract!LoadThrows]_<<LoadedContract!vars, cache # NoCache>>
<1>1. UNCHANGED <<LoadedContract!vars, cache>>
        => UNCHANGED <<LoadedContract!vars, cache # NoCache>>
  BY DEF NoCache
<1>2. CASE Next
  BY <1>1, <1>2, OtherCallsOperate
<1>3. CASE EndOfLoad
  <2>1. pc = "load"
    BY <1>3 DEF EndOfLoad, Load, LoadTooMuch, LoadUnmapped, LoadRejected, LoadFails
  <2> QED BY <1>3, <2>1, EndOfLoadFills DEF LoadInv
<1>4. CASE \E data \in LoadData : BeginLoad(data)
  BY <1>4, BeginLoads
<1>5. CASE UNCHANGED vars
  <2>1. UNCHANGED <<stash, cache, storage, stranded, requests, response, pc>> /\ Tree' = Tree
    BY <1>5 DEF vars, Tree
  <2>2. Contents' = Contents
    BY <2>1, SameCopiesSameContents
  <2> QED BY <1>1, <2>1, <2>2 DEF LoadedContract!vars, Idle
<1> QED BY <1>2, <1>3, <1>4, <1>5 DEF LoadNext

LEMMA LoadedContractInit == Init => LoadedContract!LoadInit
<1> SUFFICES ASSUME Init PROVE LoadedContract!LoadInit
  OBVIOUS
<1>1. pc # "load" /\ cache = NoCache
  BY DEF Init
<1>2. Contract!Init
  BY ContractInit
<1> QED BY <1>1, <1>2, SameStoreOutsideLoad DEF LoadedContract!LoadInit

\* An ORAM that is loaded is a block store filled at one instant: what a load
\* that returned has put in it is read back, one that threw has put in any part
\* of the data, and only leftovers of an earlier failure can hide any of it.
THEOREM LoadedRefinement ==
  ASSUME NoRoomBeyondTree, IdsFitInt PROVE LoadSpec => ImplementsLoadedBlockStore
<1>1. LoadInv /\ [Next \/ LoadNext]_vars => LoadInv'
  BY LoadInvStep
<1>2. LoadInv /\ [Next \/ LoadNext]_vars
        => [LoadedContract!Operate \/ LoadedContract!BeginLoad \/ LoadedContract!Load
              \/ LoadedContract!LoadThrows]_<<LoadedContract!vars, cache # NoCache>>
  BY LoadedContractStep
<1> QED
  BY LoadInvInit, LoadedContractInit, <1>1, <1>2, PTL
     DEF LoadSpec, ImplementsLoadedBlockStore, LoadedContract!LoadSpec
=============================================================================
