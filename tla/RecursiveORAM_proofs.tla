------------------------- MODULE RecursiveORAM_proofs -------------------------
(***************************************************************************)
(* RecursiveORAM implements ForgetfulBlockStore for every value of the     *)
(* constants, as long as writePath can keep the ids of the blocks in an    *)
(* int.                                                                    *)
(***************************************************************************)
EXTENDS RecursiveORAM, PathORAMContract_proofs

-----------------------------------------------------------------------------
(***************************************************************************)
(* The invariant is that of PathORAM: the blocks whose position is lost    *)
(* are among the stranded ones, of which it says nothing, and of those     *)
(* whose position was never set there is no copy.                          *)
(***************************************************************************)
NoCopyUnset ==
  /\ unset \subseteq MappedIds
  /\ \A block \in stash \cup InTree : block.id \notin unset
  /\ InAccess => Current \notin unset

RecursiveInv == AgreeInv /\ forgotten \subseteq stranded /\ NoCopyUnset

LookupThrowsSomewhere ==
  PrefetchLookupThrows \/ RemapLookupThrows \/ WritePathLookupThrows

\* A failed lookup leaves all copies where they are; a block it looked up and
\* the block of the request may be stranded.
LEMMA LookupFacts ==
  ASSUME RecursiveInv, LookupThrowsSomewhere
  PROVE  /\ storage' = storage /\ stash' = stash /\ cache' = cache /\ Tree' = Tree
         /\ End("threw") /\ ~ Idle
         /\ position' \in [MappedIds -> Nat]
         /\ forgotten' \subseteq stranded'
         /\ stranded \subseteq stranded'
         /\ \E other \in MappedIds : \E stuck \in SUBSET MappedIds :
              /\ stranded' \subseteq stranded \cup stuck \cup {other}
              /\ stuck # {} => pc \in {"remap", "write"} /\ stuck = {Current}
              /\ pc = "remap" => other = Current
         /\ unset' \subseteq unset
<1> USE DEF RecursiveInv, AgreeInv, PathInv
<1>1. PICK other \in MappedIds : \E stuck \in SUBSET MappedIds :
        /\ LookupThrows(other, stuck)
        /\ stuck # {} => pc \in {"remap", "write"} /\ stuck = {Current}
        /\ pc = "remap" => other = Current
  <2>1. CASE PrefetchLookupThrows
    BY <2>1 DEF PrefetchLookupThrows
  <2>2. CASE RemapLookupThrows
    <3>1. {id \in {Current} : OffPath(id, position'[id]) # {}} \in SUBSET MappedIds
      BY <2>2 DEF RemapLookupThrows
    <3> QED BY <2>2, <3>1 DEF RemapLookupThrows
  <2>3. CASE WritePathLookupThrows
    <3>1. Ids(stash) \subseteq MappedIds
      BY DEF TypeOK, Block, Ids
    <3>2. Left \subseteq {Current} /\ Left \in SUBSET MappedIds
      BY <2>3 DEF WritePathLookupThrows, Left, TypeOK
    <3> QED BY <2>3, <3>1, <3>2 DEF WritePathLookupThrows
  <2> QED BY <2>1, <2>2, <2>3 DEF LookupThrowsSomewhere
<1>2. position' \in [MappedIds -> Nat]
  BY LeavesAreNumbers DEF LookupThrowsSomewhere, PrefetchLookupThrows, RemapLookupThrows,
     WritePathLookupThrows, TypeOK
<1>3. storage' = storage /\ stash' = stash /\ cache' = cache /\ Tree' = Tree
  BY DEF LookupThrowsSomewhere, PrefetchLookupThrows, RemapLookupThrows,
     WritePathLookupThrows, Tree
<1>4. ~ Idle
  BY DEF LookupThrowsSomewhere, PrefetchLookupThrows, RemapLookupThrows,
     WritePathLookupThrows, Idle
<1>5. unset' \subseteq unset
  BY DEF LookupThrowsSomewhere, PrefetchLookupThrows, RemapLookupThrows,
     WritePathLookupThrows
<1> QED BY <1>1, <1>2, <1>3, <1>4, <1>5 DEF LookupThrows

\* The copies in the tree that a failed lookup leaves off the path of the
\* block, or older than the one in the stash, are those of a stranded block.
LEMMA LookupKeepsInv ==
  ASSUME RecursiveInv, LookupThrowsSomewhere
  PROVE  RecursiveInv'
<1> USE DEF RecursiveInv, AgreeInv, PathInv
<1>1. /\ storage' = storage /\ stash' = stash /\ cache' = cache /\ Tree' = Tree
      /\ End("threw") /\ position' \in [MappedIds -> Nat]
      /\ forgotten' \subseteq stranded' /\ stranded \subseteq stranded'
      /\ stranded' \subseteq MappedIds /\ unset' \subseteq unset
  BY LookupFacts DEF TypeOK
<1>2. TypeOK'
  BY <1>1, EndType DEF TypeOK, UniqueIds
<1>3. \A id : Home(id)' = position'[id]
  BY <1>1 DEF End, Home, InAccess
<1>4. ASSUME NEW l \in Locations, NEW block \in Tree[l], block.id \notin stranded'
      PROVE  l \in Path(position'[block.id])
  <2>1. block.id \notin stranded /\ block.id \in MappedIds
    BY <1>1, <1>4, TreeType DEF Block
  <2>2. CASE PrefetchLookupThrows \/ (RemapLookupThrows /\ block.id # Current)
                                  \/ (WritePathLookupThrows /\ block.id # Current)
    <3>1. Home(block.id) = position[block.id] /\ position'[block.id] = position[block.id]
      BY <2>1, <2>2 DEF PrefetchLookupThrows, RemapLookupThrows, WritePathLookupThrows,
         Home, InAccess, TypeOK
    <3> QED BY <2>1, <3>1 DEF BlockOnItsPath
  <2>3. CASE (RemapLookupThrows \/ WritePathLookupThrows) /\ block.id = Current
    <3>1. OffPath(block.id, position'[block.id]) = {}
      BY <1>4, <2>3 DEF RemapLookupThrows, WritePathLookupThrows, LookupThrows, Left
    <3> QED BY <3>1 DEF OffPath
  <2> QED BY <2>2, <2>3 DEF LookupThrowsSomewhere
<1>5. BlockOnItsPath'
  BY <1>1, <1>3, <1>4 DEF BlockOnItsPath, Path
<1>6. PathInStash'
  BY <1>1 DEF End, PathInStash
<1>7. CopiesAgree'
  <2>1. (stash \cup InTree)' = stash \cup InTree
    BY <1>1 DEF InTree
  <2>2. CASE ~ WritePathLookupThrows
    <3>1. pc # "write"
      BY <2>2 DEF LookupThrowsSomewhere, PrefetchLookupThrows, RemapLookupThrows
    <3> QED BY <1>1, <2>1, <3>1, SameCopiesAgree
  <2>3. CASE WritePathLookupThrows
    <3>1. ASSUME NEW a \in stash \cup InTree, NEW b \in stash \cup InTree,
                 a.id = b.id, a.id \notin stranded'
          PROVE  Padded(a.data) = Padded(b.data)
      <4>1. CASE a.id # Current
        BY <1>1, <3>1, <4>1 DEF CopiesAgree
      <4>2. CASE a.id = Current
        <5>1. ~ Outdated(Current) /\ Current \notin stranded
          BY <1>1, <2>3, <3>1, <4>2 DEF WritePathLookupThrows, LookupThrows, Left
        <5>2. Current \in Ids(stash)
          BY <2>3, <3>1, <4>2, <5>1, CurrentInStash DEF WritePathLookupThrows, Ids
        <5>3. PICK new \in stash : new.id = Current
          BY <5>2 DEF Ids
        <5>4. \A x \in stash \cup InTree : x.id = Current => Padded(x.data) = Padded(new.data)
          BY <5>1, <5>3 DEF Outdated, TypeOK, UniqueIds
        <5> QED BY <3>1, <4>2, <5>4
      <4> QED BY <4>1, <4>2
    <3> QED BY <2>1, <3>1 DEF CopiesAgree
  <2> QED BY <2>2, <2>3
<1>8. HomesAreLeaves'
  <2>1. ASSUME NEW block \in stash \cup InTree, block.id \notin stranded'
        PROVE  position'[block.id] \in Leaves
    <3>1. block.id \in MappedIds /\ position[block.id] \in Leaves
      BY <1>1, <2>1, TreeType DEF HomesAreLeaves, TypeOK, InTree, Block
    <3>2. block.id \notin forgotten'
      BY <1>1, <2>1
    <3> QED BY <3>1, <3>2 DEF LookupThrowsSomewhere, PrefetchLookupThrows, RemapLookupThrows,
            WritePathLookupThrows, TypeOK
  <2>2. ~ InAccess' /\ (stash \cup InTree)' = stash \cup InTree
    BY <1>1 DEF End, InAccess, InTree
  <2> QED BY <2>1, <2>2 DEF HomesAreLeaves
<1>9. NoCopyUnset'
  BY <1>1 DEF NoCopyUnset, InTree, End, InAccess
<1> QED BY <1>1, <1>2, <1>5, <1>6, <1>7, <1>8, <1>9

LEMMA MisrememberKeepsInv ==
  ASSUME RecursiveInv, Misremember
  PROVE  RecursiveInv'
<1> USE DEF RecursiveInv, AgreeInv, PathInv
<1>1. /\ UNCHANGED <<storage, stash, cache, pc, requests, next, leaf, response, stranded,
                     forgotten, unset>>
      /\ Tree' = Tree
  BY DEF Misremember, Tree
<1>2. PICK id \in forgotten \cup unset, any \in Leaves \cup Uninitialised :
        position' = [position EXCEPT ![id] = any]
  BY DEF Misremember
<1>3. any \in Nat
  BY LeavesAreNumbers, SizesAssumption
<1>4. /\ \A block \in stash \cup InTree : block.id \notin stranded => block.id # id
      /\ InAccess /\ Current \notin stranded => Current # id
  BY <1>2 DEF NoCopyUnset
<1>5. TypeOK'
  <2>1. position' \in [MappedIds -> Nat]
    BY <1>2, <1>3 DEF TypeOK
  <2> QED BY <1>1, <2>1 DEF TypeOK, UniqueIds, Idle, Current, Path
<1>6. \A other \in MappedIds : other # id => Home(other)' = Home(other)
  BY <1>1, <1>2 DEF TypeOK, Home, InAccess, Current
<1>7. BlockOnItsPath'
  <2>1. ASSUME NEW l \in Locations, NEW block \in Tree[l], block.id \notin stranded
        PROVE  l \in Path(Home(block.id)')
    <3>1. block.id # id /\ block.id \in MappedIds
      BY <1>4, <2>1, TreeType DEF Block, InTree
    <3>2. Home(block.id)' = Home(block.id)
      BY <1>6, <3>1
    <3> QED BY <2>1, <3>2 DEF BlockOnItsPath
  <2> QED BY <1>1, <2>1 DEF BlockOnItsPath, Path
<1>8. PathInStash'
  BY <1>1 DEF PathInStash, Path
<1>9. CopiesAgree'
  BY <1>1 DEF CopiesAgree, InTree, Current
<1>10. HomesAreLeaves'
  <2>1. ASSUME NEW block \in stash \cup InTree, block.id \notin stranded
        PROVE  position'[block.id] \in Leaves
    <3>1. block.id \in MappedIds /\ block.id # id
      BY <1>4, <2>1, TreeType DEF TypeOK, InTree, Block
    <3> QED BY <1>2, <2>1, <3>1 DEF HomesAreLeaves, TypeOK
  <2>2. ASSUME InAccess, Current \notin stranded PROVE position'[Current] \in Leaves
    <3>1. Current \in MappedIds /\ Current # id
      BY <1>4, <2>2 DEF TypeOK, InAccess
    <3> QED BY <1>2, <2>2, <3>1 DEF HomesAreLeaves, TypeOK
  <2> QED BY <1>1, <2>1, <2>2 DEF HomesAreLeaves, InAccess, Current, InTree, Leaves, LeafCount
<1>11. NoCopyUnset'
  BY <1>1 DEF NoCopyUnset, InTree, InAccess, Current
<1> QED BY <1>1, <1>5, <1>7, <1>8, <1>9, <1>10, <1>11

LEMMA RecursiveInvInit == RecursiveInit => RecursiveInv
<1> SUFFICES ASSUME RecursiveInit PROVE RecursiveInv
  OBVIOUS
<1>1. stash \cup InTree = {} /\ ~ InAccess
  BY DEF RecursiveInit, Init, InTree, Tree, NoCache, InAccess
<1>2. AgreeInv
  BY AgreeInvInit DEF RecursiveInit
<1> QED BY <1>1, <1>2 DEF RecursiveInit, RecursiveInv, NoCopyUnset

\* A block is given a position before a copy of it is made.
LEMMA CopiesAreSet ==
  ASSUME RecursiveInv, LookupsSucceed
  PROVE  NoCopyUnset'
<1> USE DEF RecursiveInv, AgreeInv, PathInv
<1>1. unset' \subseteq unset
  BY DEF LookupsSucceed
<1>2. InAccess' => Current' \notin unset'
  <2>1. CASE Remap
    BY <2>1 DEF LookupsSucceed, Remap, Current
  <2>2. CASE Call \/ Prefetch \/ PrefetchThrows \/ RemapThrows \/ ReadPathOverflows
             \/ ReadPathThrows \/ UpdateOverflows \/ WritePath \/ Sync \/ SyncRejects
             \/ SyncFails
    BY <2>2 DEF Call, Get, Put, Multiple, MultipleTooMany, Begin, Prefetch,
       PrefetchThrows, RemapThrows, ReadPathOverflows, ReadPathThrows, UpdateOverflows,
       WritePath, Advance, Sync, SyncRejects, SyncFails, End, InAccess
  <2>3. CASE ReadPath \/ Update
    <3>1. InAccess /\ Current' = Current
      BY <2>3 DEF ReadPath, Update, InAccess, Current
    <3> QED BY <1>1, <3>1 DEF NoCopyUnset
  <2> QED BY <2>1, <2>2, <2>3 DEF LookupsSucceed, Next, Access
<1>3. ASSUME NEW block \in (stash \cup InTree)' PROVE block.id \notin unset
  <2>1. CASE OtherStep
    BY <1>3, <2>1, CopiesFromBefore DEF NoCopyUnset
  <2>2. CASE Update
    <3>1. Tree' = Tree /\ Current \notin unset
      BY <2>2 DEF Update, Tree, NoCopyUnset, InAccess
    <3>2. block \in stash \cup InTree \/ block.id = Current
      BY <1>3, <2>2, <3>1 DEF Update, StashPut, Without, InTree
    <3> QED BY <3>1, <3>2 DEF NoCopyUnset
  <2>3. CASE WritePath
    <3>1. PICK level \in [stash -> Levels \cup {Stays}] : SetCache(level)
      BY <2>3 DEF WritePath
    <3>2. pc = "write" /\ storage' = storage /\ stash' \subseteq stash
      BY <2>3 DEF WritePath
    <3>3. block \in stash \cup InTree
      <4>1. CASE block \in stash'
        BY <3>2, <4>1
      <4>2. CASE block \in InTree'
        <5>1. PICK l \in Locations : block \in Tree'[l]
          BY <4>2 DEF InTree
        <5> QED BY <3>1, <3>2, <5>1, WrittenTree DEF NewBucket, InTree
      <4> QED BY <1>3, <4>1, <4>2
    <3> QED BY <3>3 DEF NoCopyUnset
  <2> QED BY <2>1, <2>2, <2>3 DEF LookupsSucceed, Next, Access, OtherStep
<1> QED BY <1>1, <1>2, <1>3 DEF NoCopyUnset

LEMMA RecursiveInvStep == RecursiveInv /\ [RecursiveNext]_recursiveVars => RecursiveInv'
<1> SUFFICES ASSUME RecursiveInv, [RecursiveNext]_recursiveVars PROVE RecursiveInv'
  OBVIOUS
<1>1. CASE LookupsSucceed
  <2>1. stranded \subseteq stranded'
    BY <1>1 DEF LookupsSucceed, Next, Access, Call, Get, Put, Multiple, MultipleTooMany, Begin, Strand,
          Prefetch, PrefetchThrows, Remap, RemapThrows, ReadPath, ReadPathOverflows,
          ReadPathThrows, Update, UpdateOverflows, WritePath, Sync, SyncRejects, SyncFails
  <2> QED BY <1>1, <2>1, AgreeInvStep, CopiesAreSet DEF RecursiveInv, LookupsSucceed
<1>2. CASE LookupThrowsSomewhere
  BY <1>2, LookupKeepsInv
<1>3. CASE Misremember
  BY <1>3, MisrememberKeepsInv
<1>4. CASE UNCHANGED recursiveVars
  <2>1. UNCHANGED vars /\ stranded' = stranded /\ forgotten' = forgotten /\ unset' = unset
    BY <1>4 DEF recursiveVars, vars
  <2>2. NoCopyUnset'
    BY <2>1 DEF RecursiveInv, NoCopyUnset, vars, InTree, Tree, InAccess, Current
  <2> QED BY <2>1, <2>2, AgreeInvStep DEF RecursiveInv
<1> QED BY <1>1, <1>2, <1>3, <1>4 DEF RecursiveNext, LookupThrowsSomewhere

-----------------------------------------------------------------------------
(***************************************************************************)
(* Every step of RecursiveORAM is a step of ForgetfulBlockStore or leaves  *)
(* it unchanged.                                                           *)
(***************************************************************************)
\* The block store of Forgetful is the one of Contract.
LEMMA SameBlockStore ==
  /\ Contract!Init => Forgetful!Init
  /\ Contract!Next => Forgetful!Next
  /\ UNCHANGED Contract!vars => UNCHANGED Forgetful!vars
BY DEF Contract!Init, Forgetful!Init, Contract!Next, Forgetful!Next,
       Contract!vars, Forgetful!vars,
       Contract!Call, Forgetful!Call, Contract!Refuse, Forgetful!Refuse,
       Contract!ServeRead, Forgetful!ServeRead, Contract!ServeWrite, Forgetful!ServeWrite,
       Contract!Return, Forgetful!Return, Contract!Throw, Forgetful!Throw,
       Contract!Ended, Forgetful!Ended, Contract!Finish, Forgetful!Finish,
       Contract!Serving, Forgetful!Serving, Contract!Unserved, Forgetful!Unserved

\* Only blocks that become stranded are lost.
LEMMA LookupServes ==
  ASSUME RecursiveInv, LookupThrowsSomewhere
  PROVE  Forgetful!LookupThrows
<1> USE DEF RecursiveInv, AgreeInv, PathInv
<1>1. /\ stash' = stash /\ Tree' = Tree /\ End("threw") /\ ~ Idle
      /\ stranded \subseteq stranded'
  BY LookupFacts
<1>2. PICK other \in MappedIds : \E stuck \in SUBSET MappedIds :
        /\ stranded' \subseteq stranded \cup stuck \cup {other}
        /\ stuck # {} => pc \in {"remap", "write"} /\ stuck = {Current}
        /\ pc = "remap" => other = Current
  BY LookupFacts
<1>3. pc = "write" => Current \in Forgetful!LastServed
  BY DEF TypeOK, Forgetful!LastServed, Current
<1> DEFINE lost == stranded' \ stranded
<1>4. lost \in SUBSET (Forgetful!LastServed \cup {other})
  BY <1>2, <1>3
<1>5. Contents' = [id \in MappedIds |-> IF id \in lost THEN Lost ELSE Contents[id]]
  <2>1. \A id : Stored(id)' = Stored(id)
    BY <1>1 DEF Stored, Copies, TreeCopies, InTree
  <2> QED BY <1>1, <2>1 DEF Contents
<1>6. Forgetful!Finish("threw")
  BY <1>1 DEF End, Idle, Forgetful!Finish
<1> HIDE DEF lost
<1> QED BY <1>4, <1>5, <1>6 DEF Forgetful!LookupThrows

LEMMA RecursiveStep ==
  ASSUME IdsFitInt, RecursiveInv, RecursiveInv', [RecursiveNext]_recursiveVars
  PROVE  [Forgetful!Next \/ Forgetful!LookupThrows]_Forgetful!vars
<1>1. CASE LookupsSucceed
  BY <1>1, ContractStep, SameBlockStore DEF RecursiveInv, LookupsSucceed
<1>2. CASE LookupThrowsSomewhere
  BY <1>2, LookupServes
<1>3. CASE Misremember \/ UNCHANGED recursiveVars
  <2>1. UNCHANGED <<stash, cache, storage, stranded, requests, response, pc>> /\ Tree' = Tree
    BY <1>3 DEF Misremember, recursiveVars, vars, Tree
  <2>2. Contents' = Contents
    BY <2>1, SameCopiesSameContents
  <2> QED BY <2>1, <2>2 DEF Forgetful!vars, Idle
<1> QED BY <1>1, <1>2, <1>3 DEF RecursiveNext, LookupThrowsSomewhere

-----------------------------------------------------------------------------
\* Whichever lookup of the inner ORAM throws, a block that is not lost lies on
\* the path the outer ORAM would follow for it.
THEOREM LookupsKeepPaths == RecursiveSpec => []BlockOnItsPath
<1>1. RecursiveInv => BlockOnItsPath
  BY DEF RecursiveInv, AgreeInv, PathInv
<1> QED BY RecursiveInvInit, RecursiveInvStep, <1>1, PTL DEF RecursiveSpec

\* An exception of writePath leaves a block older in the tree than in the
\* stash only if it is one of the lost ones.
THEOREM LookupsKeepCopies == RecursiveSpec => []CopiesAgree
<1>1. RecursiveInv => CopiesAgree
  BY DEF RecursiveInv, AgreeInv
<1> QED BY RecursiveInvInit, RecursiveInvStep, <1>1, PTL DEF RecursiveSpec

\* An ORAM over a position map that can fail is a block store in which a call
\* that throws loses at most the block served last and the one looked up.
THEOREM ForgetfulRefinement ==
  ASSUME IdsFitInt PROVE RecursiveSpec => ImplementsForgetfulBlockStore
<1>1. RecursiveInv /\ RecursiveInv' /\ [RecursiveNext]_recursiveVars
        => [Forgetful!Next \/ Forgetful!LookupThrows]_Forgetful!vars
  BY RecursiveStep
<1>2. RecursiveInit => Forgetful!Init
  BY ContractInit, SameBlockStore DEF RecursiveInit
<1> QED
  BY RecursiveInvInit, RecursiveInvStep, <1>1, <1>2, PTL
     DEF RecursiveSpec, ImplementsForgetfulBlockStore, Forgetful!ForgetfulSpec
=============================================================================
