---------------------- MODULE PathORAMContract_proofs ----------------------
(***************************************************************************)
(* PathORAM implements BlockStore for every value of the constants, as     *)
(* long as writePath can keep the ids of the blocks in an int.             *)
(***************************************************************************)
EXTENDS PathORAMContract, PathORAM_proofs, OramTree_proofs

-----------------------------------------------------------------------------
(***************************************************************************)
(* What Stored(id) is, from where the copies are.                          *)
(***************************************************************************)
LEMMA StoredInStash ==
  ASSUME TypeOK, NEW block \in stash
  PROVE  Stored(block.id) = block.data
<1>1. Copies(block.id) = {block}
  BY DEF Copies, TypeOK, UniqueIds
<1> QED BY <1>1 DEF Stored

LEMMA StoredNowhere ==
  ASSUME NEW id, id \notin Ids(stash), id \notin Ids(InTree)
  PROVE  Stored(id) = EmptyPayload
BY DEF Stored, Copies, TreeCopies, Ids

\* While an access has the path in the stash, a block that is not in the stash
\* and is not stranded has no copy on the path; the accessed block has none at all.
LEMMA CurrentInStash ==
  ASSUME PathInv, pc \in {"update", "write"},
         Current \notin stranded, Current \notin Ids(stash)
  PROVE  Current \notin Ids(InTree)
<1>1. SUFFICES ASSUME NEW l \in Locations, NEW block \in Tree[l], block.id = Current
               PROVE  FALSE
  BY DEF InTree, Ids
<1>2. l \in Path(leaf)
  BY <1>1 DEF PathInv, BlockOnItsPath, Home, InAccess
<1> QED BY <1>1, <1>2 DEF PathInv, PathInStash, Ids

LEMMA StoredInTree ==
  ASSUME AgreeInv, NEW block \in InTree,
         block.id \notin stranded, block.id \notin Ids(stash)
  PROVE  Padded(Stored(block.id)) = Padded(block.data)
<1>1. Copies(block.id) = {}
  BY DEF Copies, Ids
<1>2. block \in TreeCopies(block.id)
  BY DEF TreeCopies
<1> DEFINE chosen == CHOOSE b \in TreeCopies(block.id) : TRUE
<1>3. chosen \in InTree /\ chosen.id = block.id /\ Stored(block.id) = chosen.data
  BY <1>1, <1>2 DEF TreeCopies, Stored
<1> HIDE DEF chosen
<1>4. ~ (pc = "write" /\ block.id = Current)
  BY CurrentInStash DEF AgreeInv, Ids
<1> QED BY <1>3, <1>4 DEF AgreeInv, CopiesAgree

\* What is stored is a payload, never the mark of a lost block.
LEMMA NotLost ==
  ASSUME TypeOK, NEW id
  PROVE  Padded(Stored(id)) # Lost
<1>1. InTree \subseteq Block
  BY TreeType DEF InTree
<1>2. Copies(id) \subseteq Block /\ TreeCopies(id) \subseteq Block
  BY <1>1 DEF Copies, TreeCopies, TypeOK
<1>3. Stored(id) \in Payload
  <2>1. CASE Copies(id) # {}
    BY <1>2, <2>1 DEF Stored, Block
  <2>2. CASE Copies(id) = {} /\ TreeCopies(id) # {}
    BY <1>2, <2>2 DEF Stored, Block
  <2>3. CASE Copies(id) = {} /\ TreeCopies(id) = {}
    BY <2>3, PayloadClosed DEF Stored
  <2> QED BY <2>1, <2>2, <2>3
<1> QED BY <1>3, PayloadClosed, LostAssumption

-----------------------------------------------------------------------------
(***************************************************************************)
(* What each step does to the contents.                                    *)
(***************************************************************************)
\* The content of a block no exception has stranded.
Known(id) == Padded(Stored(id))

LEMMA SameKnownSameContents ==
  ASSUME stranded' = stranded,
         \A id \in MappedIds : id \notin stranded => Known(id)' = Known(id)
  PROVE  Contents' = Contents
BY DEF Contents, Known

\* readPath, to its end or to an overflow: copies enter the stash.
LEMMA ReadKeepsKnown ==
  ASSUME AgreeInv, TypeOK', stash \subseteq stash', stash' \subseteq stash \cup InTree,
         InTree' = InTree, NEW id \in MappedIds, id \notin stranded
  PROVE  Known(id)' = Known(id)
<1>1. CASE id \in Ids(stash)
  <2>1. PICK block \in stash : block.id = id
    BY <1>1 DEF Ids
  <2>2. Stored(id) = block.data
    BY <2>1, StoredInStash DEF AgreeInv, PathInv
  <2>3. Stored(id)' = block.data
    <3>1. Copies(id)' = {block}
      BY <2>1 DEF Copies, TypeOK, UniqueIds
    <3> QED BY <3>1 DEF Stored
  <2> QED BY <2>2, <2>3 DEF Known
<1>2. CASE id \notin Ids(stash) /\ id \in Ids(stash')
  <2>1. PICK block \in stash' : block.id = id
    BY <1>2 DEF Ids
  <2>2. block \in InTree
    BY <1>2, <2>1 DEF Ids
  <2>3. Padded(Stored(id)) = Padded(block.data)
    BY <1>2, <2>1, <2>2, StoredInTree
  <2>4. Stored(id)' = block.data
    <3>1. Copies(id)' = {block}
      BY <2>1 DEF Copies, TypeOK, UniqueIds
    <3> QED BY <3>1 DEF Stored
  <2> QED BY <2>3, <2>4 DEF Known
<1>3. CASE id \notin Ids(stash')
  <2>1. Copies(id) = {} /\ Copies(id)' = {} /\ TreeCopies(id)' = TreeCopies(id)
    BY <1>3 DEF Copies, TreeCopies, Ids
  <2> QED BY <2>1 DEF Known, Stored
<1> QED BY <1>1, <1>2, <1>3

\* After a step, too, any copy in the tree tells the content of a block that is
\* not in the stash.
LEMMA KnownInTreeAfter ==
  ASSUME CopiesAgree', pc' # "write", NEW id, id \notin stranded',
         Copies(id)' = {}, NEW block \in InTree', block.id = id
  PROVE  Known(id)' = Padded(block.data)
<1>1. block \in TreeCopies(id)'
  BY DEF TreeCopies
<1> DEFINE chosen == CHOOSE b \in TreeCopies(id)' : TRUE
<1>2. chosen \in InTree' /\ chosen.id = id /\ Stored(id)' = chosen.data
  BY <1>1 DEF TreeCopies, Stored
<1> HIDE DEF chosen
<1>3. Padded(chosen.data) = Padded(block.data)
  BY <1>2 DEF CopiesAgree
<1> QED BY <1>2, <1>3 DEF Known

\* The upload, or its failure, pads the copies in the tree.
LEMMA SyncKeepsKnown ==
  ASSUME AgreeInv, AgreeInv', Sync \/ SyncRejects \/ SyncFails,
         NEW id \in MappedIds, id \notin stranded
  PROVE  Known(id)' = Known(id)
<1>1. stash' = stash /\ stranded' = stranded
  BY DEF Sync, SyncRejects, SyncFails
<1>2. Ids(InTree)' = Ids(InTree)
  <2>1. \A l \in Locations : Ids(Tree'[l]) = Ids(Tree[l])
    BY SyncPads DEF AgreeInv, PathInv, Ids
  <2>2. Ids(InTree) = UNION {Ids(Tree[l]) : l \in Locations}
    BY DEF InTree, Ids
  <2>3. Ids(InTree)' = UNION {Ids(Tree'[l]) : l \in Locations}
    BY DEF InTree, Ids
  <2> QED BY <2>1, <2>2, <2>3
<1>3. CASE id \in Ids(stash)
  <2>1. PICK block \in stash : block.id = id
    BY <1>3 DEF Ids
  <2>2. Copies(id) = {block} /\ Copies(id)' = {block}
    BY <1>1, <2>1 DEF Copies, AgreeInv, PathInv, TypeOK, UniqueIds
  <2> QED BY <2>2 DEF Known, Stored
<1>4. CASE id \notin Ids(stash) /\ id \in Ids(InTree)
  <2>0. PICK l \in Locations : \E block \in Tree[l] : block.id = id
    BY <1>4 DEF InTree, Ids
  <2>1. PICK old \in Tree[l] : old.id = id
    BY <2>0
  <2>2. PICK new \in Tree'[l] : old.id = new.id /\ Padded(old.data) = Padded(new.data)
    BY <2>1, SyncPads DEF AgreeInv, PathInv
  <2>3. old \in InTree /\ new \in InTree'
    BY <2>1, <2>2 DEF InTree
  <2>4. Known(id) = Padded(old.data)
    BY <1>4, <2>1, <2>3, StoredInTree DEF Known
  <2>5. Known(id)' = Padded(new.data)
    <3>1. Copies(id)' = {} /\ new.id = id
      BY <1>1, <1>4, <2>1, <2>2 DEF Copies, Ids
    <3>2. pc' # "write"
      BY DEF Sync, SyncRejects, SyncFails, End
    <3> QED BY <1>1, <2>3, <3>1, <3>2, KnownInTreeAfter DEF AgreeInv
  <2> QED BY <2>2, <2>4, <2>5
<1>5. CASE id \notin Ids(stash) /\ id \notin Ids(InTree)
  <2>1. Copies(id) = {} /\ Copies(id)' = {} /\ TreeCopies(id) = {} /\ TreeCopies(id)' = {}
    BY <1>1, <1>2, <1>5 DEF Copies, TreeCopies, Ids
  <2> QED BY <2>1 DEF Known, Stored
<1> QED BY <1>3, <1>4, <1>5

\* writePath: a block that leaves the stash is in a bucket of the path, and a
\* bucket of the path that is replaced held no block that was not in the stash.
\* Here an id must survive the vector<int> of ids to remove.
LEMMA WriteKeepsKnown ==
  ASSUME IdsFitInt, AgreeInv, AgreeInv', WritePath,
         NEW id \in MappedIds, id \notin stranded
  PROVE  Known(id)' = Known(id)
<1> USE DEF AgreeInv, PathInv
<1>1. PICK level \in [stash -> Levels \cup {Stays}] :
        /\ Greedy(level)
        /\ SetCache(level)
        /\ LET removed == {RemovedId(block.id) :
                             block \in {b \in stash : level[b] # Stays}}
           IN  stash' = {block \in stash : block.id \notin removed}
  BY DEF WritePath
<1>2. storage' = storage /\ stranded' = stranded /\ pc = "write" /\ pc' # "write"
  BY DEF WritePath, Advance
<1>3. stash' = {block \in stash : level[block] = Stays}
  <2>1. \A block \in stash : RemovedId(block.id) = block.id
    BY DEF IdsFitInt, TypeOK, Block
  <2>2. \A a, b \in stash : a.id = b.id => a = b
    BY DEF TypeOK, UniqueIds
  <2> QED BY <1>1, <2>1, <2>2
<1>4. \A l \in Locations :
        Tree'[l] = IF l \in Path(leaf) THEN NewBucket(level, l) ELSE Tree[l]
  BY <1>1, <1>2, WrittenTree
<1>5. CASE id \in Ids(stash)
  <2>1. PICK block \in stash : block.id = id
    BY <1>5 DEF Ids
  <2>2. Known(id) = Padded(block.data)
    BY <2>1, StoredInStash DEF Known
  <2>3. CASE level[block] = Stays
    <3>1. Copies(id)' = {block}
      BY <1>3, <2>1, <2>3 DEF Copies, TypeOK, UniqueIds
    <3> QED BY <2>2, <3>1 DEF Known, Stored
  <2>4. CASE level[block] # Stays
    <3>1. level[block] \in Levels
      BY <1>1, <2>1, <2>4
    <3> DEFINE l == BucketForLevelLeaf(level[block], leaf)
    <3>2. l \in Path(leaf) /\ l \in Locations
      BY <1>2, <3>1 DEF Path, TypeOK
    <3>3. block \in InTree'
      <4>1. position[block.id] \in Leaves /\ leaf \in Nat
        BY <2>1 DEF HomesAreLeaves, TypeOK
      <4>2. CanInclude(position[block.id], leaf, level[block])
        BY <1>1, <2>1, <3>1 DEF Greedy, PlacedAt, Fitting
      <4>3. ASSUME NEW j \in 0 .. level[block] - 1
            PROVE  BucketForLevelLeaf(j, leaf) # l
        <5>1. j \in Levels /\ j < level[block]
          BY <3>1, HeightFacts DEF Levels
        <5> QED BY <3>1, <4>1, <4>2, <5>1, SharedBucketVisitedOnce
      <4>4. block \in NewBucket(level, l)
        BY <2>1, <3>1, <4>3 DEF NewBucket, LastLevel
      <4> HIDE DEF l
      <4> QED BY <1>4, <3>2, <4>4 DEF InTree
    <3>4. Copies(id)' = {}
      BY <1>3, <2>1, <2>4 DEF Copies, TypeOK, UniqueIds
    <3>5. Known(id)' = Padded(block.data)
      BY <1>2, <2>1, <3>3, <3>4, KnownInTreeAfter
    <3> QED BY <2>2, <3>5
  <2> QED BY <2>3, <2>4
<1>6. CASE id \notin Ids(stash) /\ id \in Ids(InTree)
  <2>0. PICK l \in Locations : \E block \in Tree[l] : block.id = id
    BY <1>6 DEF InTree, Ids
  <2>1. PICK block \in Tree[l] : block.id = id
    BY <2>0
  <2>2. l \notin Path(leaf)
    BY <1>2, <1>6, <2>1 DEF PathInStash, Ids
  <2>3. block \in InTree /\ block \in InTree'
    BY <1>4, <2>1, <2>2 DEF InTree
  <2>4. Known(id) = Padded(block.data)
    BY <1>6, <2>1, <2>3, StoredInTree DEF Known
  <2>5. Copies(id)' = {}
    BY <1>3, <1>6 DEF Copies, Ids
  <2>6. Known(id)' = Padded(block.data)
    BY <1>2, <2>1, <2>3, <2>5, KnownInTreeAfter
  <2> QED BY <2>4, <2>6
<1>7. CASE id \notin Ids(stash) /\ id \notin Ids(InTree)
  <2>1. Copies(id) = {} /\ Copies(id)' = {}
    BY <1>3, <1>7 DEF Copies, Ids
  <2>2. \A block \in InTree' : block.id # id
    BY <1>4, <1>7 DEF InTree, Ids, NewBucket
  <2>3. TreeCopies(id) = {} /\ TreeCopies(id)' = {}
    BY <1>7, <2>2 DEF TreeCopies, Ids
  <2> QED BY <2>1, <2>3 DEF Known, Stored
<1> QED BY <1>5, <1>6, <1>7

-----------------------------------------------------------------------------
(***************************************************************************)
(* Every step of PathORAM is a step of BlockStore or leaves it unchanged.  *)
(***************************************************************************)
\* The same stash and tree, the same contents.
LEMMA SameCopiesSameContents ==
  ASSUME stash' = stash, Tree' = Tree, stranded' = stranded
  PROVE  Contents' = Contents
<1>1. \A id : Stored(id)' = Stored(id)
  BY DEF Stored, Copies, TreeCopies, InTree
<1> QED BY <1>1 DEF Contents

LEMMA CallServes ==
  ASSUME AgreeInv, AgreeInv', Call
  PROVE  Contract!Call \/ Contract!Refuse
<1>1. stash' = stash /\ Tree' = Tree /\ stranded' = stranded /\ response' = response
  BY DEF Call, Get, Put, Multiple, MultipleTooMany, Begin, Tree
<1>2. Contents' = Contents
  BY <1>1, SameCopiesSameContents
<1>3. requests' \in Seq(Request)
  BY DEF AgreeInv, PathInv, TypeOK
<1>4. Idle
  BY DEF Call, Get, Put, Multiple, MultipleTooMany
<1>5. CASE MultipleTooMany
  BY <1>1, <1>2, <1>4, <1>5 DEF MultipleTooMany, Idle, Contract!Refuse, Contract!Ended
<1>6. CASE ~ MultipleTooMany
  <2>1. pc' \in {"remap", "prefetch"}
    BY <1>6 DEF Call, Get, Put, Multiple, Begin
  <2> QED BY <1>1, <1>2, <1>3, <1>4, <2>1 DEF Idle, Contract!Call, Contract!Ended
<1> QED BY <1>5, <1>6

\* The steps the client does not see.
LEMMA InnerStutters ==
  ASSUME IdsFitInt, AgreeInv, AgreeInv',
         Prefetch \/ Remap \/ ReadPath \/ WritePath \/ UNCHANGED vars
  PROVE  UNCHANGED Contract!vars
<1>1. requests' = requests /\ response' = response /\ stranded' = stranded
  BY DEF Prefetch, Remap, ReadPath, WritePath, vars
<1>2. (IF Idle THEN pc ELSE "running")' = IF Idle THEN pc ELSE "running"
  BY DEF Idle, Prefetch, Remap, ReadPath, WritePath, Advance, vars
<1>3. Contents' = Contents
  <2>1. CASE Prefetch \/ Remap \/ UNCHANGED vars
    <3>1. Tree' = Tree
      <4>1. CASE Prefetch
        BY <4>1, DownloadKeepsTree DEF Prefetch, AgreeInv, PathInv
      <4>2. CASE Remap \/ UNCHANGED vars
        BY <4>2 DEF Remap, vars, Tree
      <4> QED BY <2>1, <4>1, <4>2
    <3>2. stash' = stash
      BY <2>1 DEF Prefetch, Remap, vars
    <3> QED BY <1>1, <3>1, <3>2, SameCopiesSameContents
  <2>2. CASE ReadPath
    <3>1. Tree' = Tree
      BY <2>2, DownloadKeepsTree DEF ReadPath, AgreeInv, PathInv
    <3>2. NewToStash \subseteq InTree
      BY <2>2 DEF ReadPath, NewToStash, OnPath, InTree
    <3>3. stash \subseteq stash' /\ stash' \subseteq stash \cup InTree /\ InTree' = InTree
      BY <2>2, <3>1, <3>2 DEF ReadPath, InTree
    <3>4. \A id \in MappedIds : id \notin stranded => Known(id)' = Known(id)
      BY <3>3, ReadKeepsKnown DEF AgreeInv, PathInv
    <3> QED BY <1>1, <3>4, SameKnownSameContents
  <2>3. CASE WritePath
    <3>1. \A id \in MappedIds : id \notin stranded => Known(id)' = Known(id)
      BY <2>3, WriteKeepsKnown
    <3> QED BY <1>1, <3>1, SameKnownSameContents
  <2> QED BY <2>1, <2>2, <2>3
<1> QED BY <1>1, <1>2, <1>3 DEF Contract!vars

\* The ends of a call that lose nothing.
LEMMA EndsKeepContents ==
  ASSUME AgreeInv, AgreeInv',
         PrefetchThrows \/ RemapThrows \/ UpdateOverflows
           \/ Sync \/ SyncRejects \/ SyncFails
  PROVE  Contract!Return \/ Contract!Throw
<1>1. Contents' = Contents
  <2>1. CASE PrefetchThrows \/ RemapThrows \/ UpdateOverflows
    BY <2>1, SameCopiesSameContents DEF PrefetchThrows, RemapThrows, UpdateOverflows, Tree
  <2>2. CASE Sync \/ SyncRejects \/ SyncFails
    <3>1. \A id \in MappedIds : id \notin stranded => Known(id)' = Known(id)
      BY <2>2, SyncKeepsKnown
    <3>2. stranded' = stranded
      BY <2>2 DEF Sync, SyncRejects, SyncFails
    <3> QED BY <3>1, <3>2, SameKnownSameContents
  <2> QED BY <2>1, <2>2
<1>2. ~ Idle
  BY DEF Idle, PrefetchThrows, RemapThrows, UpdateOverflows, Sync, SyncRejects, SyncFails
<1>3. CASE Sync
  <2>1. ~ Contract!Unserved
    BY <1>3 DEF Sync, AgreeInv, PathInv, TypeOK, Contract!Unserved, Contract!Serving
  <2>2. Contract!Finish("returned")
    BY <1>2, <1>3 DEF Sync, End, Idle, Contract!Finish
  <2> QED BY <1>1, <2>1, <2>2 DEF Contract!Return
<1>4. CASE ~ Sync
  <2>1. Contract!Finish("threw")
    BY <1>2, <1>4 DEF PrefetchThrows, RemapThrows, UpdateOverflows, SyncRejects, SyncFails,
          End, Idle, Contract!Finish
  <2> QED BY <1>1, <2>1 DEF Contract!Throw
<1> QED BY <1>3, <1>4

\* An access that throws in readPath can lose the block it was serving.
LEMMA ReadThrows ==
  ASSUME AgreeInv, AgreeInv', ReadPathOverflows \/ ReadPathThrows
  PROVE  Contract!Throw
<1> USE DEF AgreeInv, PathInv
<1>1. pc = "read" /\ End("threw") /\ Strand(Current)
  BY DEF ReadPathOverflows, ReadPathThrows
<1>2. Contract!Finish("threw")
  BY <1>1 DEF End, Idle, Contract!Finish
<1>3. /\ Contract!Unserved
      /\ requests[Contract!Serving].id = Current
      /\ Current \in MappedIds
  BY <1>1 DEF TypeOK, Contract!Unserved, Contract!Serving, Current
<1>4. Tree' = Tree
  BY DownloadKeepsTree DEF ReadPathOverflows, ReadPathThrows, Tree
<1>5. stash \subseteq stash' /\ stash' \subseteq stash \cup InTree /\ InTree' = InTree
  BY <1>4 DEF ReadPathOverflows, ReadPathThrows, NewToStash, OnPath, InTree
<1>6. \A id \in MappedIds : id \notin stranded => Known(id)' = Known(id)
  BY <1>5, ReadKeepsKnown
<1>7. stranded' \in {stranded, stranded \cup {Current}}
  BY <1>1 DEF Strand
<1>8. CASE stranded' = stranded
  <2>1. Contents' = Contents
    BY <1>6, <1>8, SameKnownSameContents
  <2> QED BY <1>2, <2>1 DEF Contract!Throw
<1>9. CASE stranded' = stranded \cup {Current}
  <2>1. Contents' = [Contents EXCEPT ![Current] = Lost]
    <3>1. \A id \in MappedIds :
            Contents'[id] = IF id = Current THEN Lost ELSE Contents[id]
      BY <1>6, <1>9 DEF Contents, Known
    <3>2. Contents \in [MappedIds -> {Contents[id] : id \in MappedIds}]
          /\ DOMAIN Contents' = MappedIds /\ Contents' = [id \in MappedIds |-> Contents'[id]]
      BY DEF Contents
    <3> HIDE DEF Contents
    <3> QED BY <1>3, <3>1, <3>2
  <2>2. Contents' = [Contents EXCEPT ![requests[Contract!Serving].id] = Lost]
    BY <1>3, <2>1
  <2> QED BY <1>2, <1>3, <2>2 DEF Contract!Throw
<1> QED BY <1>7, <1>8, <1>9

\* The answer of a read is what the block holds: if it is not in the stash it
\* is nowhere, and the answer is empty.
LEMMA UpdateServes ==
  ASSUME AgreeInv, AgreeInv', Update
  PROVE  Contract!ServeRead \/ Contract!ServeWrite
<1> USE DEF AgreeInv, PathInv
<1>1. /\ pc = "update" /\ pc' = "write" /\ requests' = requests /\ stranded' = stranded
      /\ response' = Append(response, StashGet(stash', Current))
      /\ Tree' = Tree /\ Current' = Current
  BY DEF Update, Tree, Current
<1>2. /\ Contract!Unserved
      /\ Contract!Serving = next
      /\ Current \in MappedIds
  BY <1>1 DEF TypeOK, Contract!Unserved, Contract!Serving, Current
<1>3. (IF Idle THEN pc ELSE "running") = "running"
      /\ (IF Idle THEN pc ELSE "running")' = IF Idle THEN pc ELSE "running"
  BY <1>1 DEF Idle
<1>4. CASE requests[next].read
  <2>1. stash' = stash
    BY <1>4 DEF Update
  <2>2. Contents' = Contents
    BY <1>1, <2>1, SameCopiesSameContents
  <2>3. StashGet(stash', Current) \in Payload
    BY StashGetType DEF TypeOK
  <2>4. Contents[Current] \in {Lost, Padded(StashGet(stash, Current))}
    <3>1. CASE Current \in stranded
      BY <1>2, <3>1 DEF Contents
    <3>2. CASE Current \notin stranded /\ Current \in Ids(stash)
      <4>1. PICK block \in stash : block.id = Current
        BY <3>2 DEF Ids
      <4>2. Stored(Current) = block.data
        BY <4>1, StoredInStash
      <4>3. (CHOOSE b \in stash : b.id = Current) = block
        BY <4>1 DEF TypeOK, UniqueIds
      <4>4. StashGet(stash, Current) = block.data
        BY <3>2, <4>3 DEF StashGet
      <4> QED BY <1>2, <3>2, <4>2, <4>4 DEF Contents
    <3>3. CASE Current \notin stranded /\ Current \notin Ids(stash)
      <4>1. Current \notin Ids(InTree)
        BY <1>1, <3>3, CurrentInStash
      <4>2. Stored(Current) = EmptyPayload
        BY <3>3, <4>1, StoredNowhere
      <4>3. StashGet(stash, Current) = EmptyPayload
        BY <3>3 DEF StashGet
      <4> QED BY <1>2, <3>3, <4>2, <4>3 DEF Contents
    <3> QED BY <3>1, <3>2, <3>3
  <2> QED BY <1>1, <1>2, <1>3, <1>4, <2>1, <2>2, <2>3, <2>4
             DEF Contract!ServeRead, Current
<1>5. CASE ~ requests[next].read
  <2> DEFINE data == requests[next].data
             new  == [id |-> Current, data |-> data]
  <2>1. new.id = Current /\ new.data = data
    OBVIOUS
  <2>2. stash' = Without(stash, Current) \cup {new}
    BY <1>5 DEF Update, StashPut
  <2> HIDE DEF new
  <2>3. Copies(Current)' = {new}
        /\ \A id \in MappedIds : id # Current => Copies(id)' = Copies(id)
    BY <1>1, <2>1, <2>2 DEF Copies, Without
  <2>4. Stored(Current)' = data
    BY <1>1, <2>1, <2>3 DEF Stored
  <2>5. \A id \in MappedIds : TreeCopies(id)' = TreeCopies(id)
    BY <1>1 DEF TreeCopies, InTree
  <2>6. ASSUME NEW id \in MappedIds, id # Current
        PROVE  Stored(id)' = Stored(id)
    <3>1. Copies(id)' = Copies(id) /\ TreeCopies(id)' = TreeCopies(id)
      BY <2>3, <2>5, <2>6
    <3> QED BY <3>1 DEF Stored
  <2>7. StashGet(stash', Current) = data
    <3>1. \A b \in stash' : b.id = Current <=> b = new
      BY <2>1, <2>2 DEF Without
    <3>2. new \in stash'
      BY <2>2
    <3>3. (CHOOSE b \in stash' : b.id = Current) = new
      BY <3>1, <3>2
    <3>4. Current \in Ids(stash')
      BY <2>1, <3>2 DEF Ids
    <3> QED BY <2>1, <3>3, <3>4 DEF StashGet
  <2>8. Contents' =
          [Contents EXCEPT ![Current] = IF Contents[Current] = Lost THEN Lost ELSE Padded(data)]
    <3>1. CASE Current \in stranded
      BY <1>1, <1>2, <2>6, <3>1 DEF Contents
    <3>2. CASE Current \notin stranded
      BY <1>1, <1>2, <2>4, <2>6, <3>2, NotLost DEF Contents
    <3> QED BY <3>1, <3>2
  <2> QED BY <1>1, <1>2, <1>3, <1>5, <2>7, <2>8 DEF Contract!ServeWrite, Current
<1> QED BY <1>4, <1>5

LEMMA ContractInit == Init => Contract!Init
<1> SUFFICES ASSUME Init PROVE Contract!Init
  OBVIOUS
<1>1. Contents = [id \in MappedIds |-> Nothing]
  <2>1. stash = {} /\ stranded = {} /\ InTree = {}
    BY DEF Init, InTree, Tree, NoCache
  <2>2. \A id : Stored(id) = EmptyPayload
    BY <2>1, StoredNowhere DEF Ids
  <2> QED BY <2>1, <2>2 DEF Contents, Nothing
<1> QED BY <1>1 DEF Init, Idle, Contract!Init

LEMMA ContractStep ==
  ASSUME IdsFitInt, AgreeInv, AgreeInv', [Next]_vars
  PROVE  [Contract!Next]_Contract!vars
<1>1. CASE Call
  BY <1>1, CallServes DEF Contract!Next
<1>2. CASE Prefetch \/ Remap \/ ReadPath \/ WritePath \/ UNCHANGED vars
  BY <1>2, InnerStutters
<1>3. CASE PrefetchThrows \/ RemapThrows \/ UpdateOverflows
             \/ Sync \/ SyncRejects \/ SyncFails
  BY <1>3, EndsKeepContents DEF Contract!Next
<1>4. CASE ReadPathOverflows \/ ReadPathThrows
  BY <1>4, ReadThrows DEF Contract!Next
<1>5. CASE Update
  BY <1>5, UpdateServes DEF Contract!Next
<1> QED BY <1>1, <1>2, <1>3, <1>4, <1>5 DEF Next, Access

\* The ORAM is a block store: whatever overflows, outages and refused payloads
\* do, a read returns the last write, and an exception costs at most the block
\* whose request it interrupts.
THEOREM Refinement == ASSUME IdsFitInt PROVE Spec => ImplementsBlockStore
<1>1. AgreeInv /\ AgreeInv' /\ [Next]_vars => [Contract!Next]_Contract!vars
  BY ContractStep
<1> QED
  BY AgreeInvInit, AgreeInvStep, ContractInit, <1>1, PTL
     DEF Spec, ImplementsBlockStore, Contract!Spec
=============================================================================
