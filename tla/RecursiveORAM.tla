--------------------------- MODULE RecursiveORAM ---------------------------
(***************************************************************************)
(* An ORAM whose position map is another ORAM (ORAMPositionMapAdapter of   *)
(* position-map-adapter.cpp): map->get and map->set are a get and a put of *)
(* the inner ORAM and can throw, in writePath too, where an in-memory map  *)
(* cannot.                                                                 *)
(*                                                                         *)
(* The inner ORAM is what PathORAM was shown to be, a BlockStore: a call   *)
(* that throws may have been served or not, and may have lost the position *)
(* it was asked for.  A position that is lost, or that was never set, can  *)
(* be answered differently by each read: map->get takes the first bytes of *)
(* whatever the inner ORAM answers, of an empty answer too.                *)
(***************************************************************************)
EXTENDS PathORAMContract

CONSTANT MapMayFail    \* can an access of the inner ORAM throw?

ASSUME MapAssumption == MapMayFail \in BOOLEAN

VARIABLES
  forgotten,    \* ids whose position the inner ORAM has lost
  unset         \* ids whose position it was never given

recursiveVars == <<vars, forgotten, unset>>

RecursiveInit ==
  /\ Init
  /\ forgotten = {}
  /\ unset = {id \in MappedIds : id >= Blocks}

\* An access of the inner ORAM for this id throws.  The blocks stuck are off
\* their path for good.
LookupThrows(id, stuck) ==
  /\ MapMayFail
  /\ End("threw")
  /\ forgotten' \in {forgotten, forgotten \cup {id}}
  /\ stranded' = stranded \cup stuck \cup forgotten'

\* multiple looks up the position of every request before anything else.
PrefetchLookupThrows ==
  /\ pc = "prefetch"
  /\ \E id \in RequestedIds \cap MappedIds : LookupThrows(id, {})
  /\ UNCHANGED <<storage, position, stash, cache, unset>>

\* The copies of a block in the tree that are off the path to this leaf.
OffPath(id, to) ==
  {block \in UNION {Tree[l] : l \in Locations \ Path(to)} : block.id = id}

\* access: map->get throws before the block is remapped, or map->set throws
\* and the inner ORAM has the old position or the new one.
RemapLookupThrows ==
  /\ pc = "remap"
  /\ Current \in MappedIds
  /\ \/ position' = position /\ unset' = unset
     \/ /\ \E fresh \in Leaves : position' = [position EXCEPT ![Current] = fresh]
        /\ unset' = unset \ {Current}
  /\ LookupThrows(Current, {id \in {Current} : OffPath(id, position'[id]) # {}})
  /\ UNCHANGED <<storage, stash, cache>>

\* The tree holds a copy of the block as it was before update.
Outdated(id) ==
  \E old \in InTree, new \in stash :
    old.id = id /\ new.id = id /\ Padded(old.data) # Padded(new.data)

\* The block whose path writePath was about to write.
Left == {id \in {Current} : Outdated(id) \/ OffPath(id, position[id]) # {}}

\* Mutant: blocks leave the stash level by level, before the cache has them.
WritePathRemovesEarly ==
  /\ pc = "write"
  /\ \E id \in Ids(stash) : LookupThrows(id, Left)
  /\ \E placed \in SUBSET stash : stash' = stash \ placed
  /\ UNCHANGED <<storage, position, cache, unset>>

\* writePath looks up the blocks of the stash level by level, and writes to
\* the cache and the stash only after the last level: the copies on the path
\* stay, among them that of the block just updated.
WritePathLookupThrows ==
  /\ pc = "write"
  /\ \E id \in Ids(stash) : LookupThrows(id, Left)
  /\ UNCHANGED <<storage, position, stash, cache, unset>>

\* What a read of a position the inner ORAM does not have gives changes under
\* the client.
Misremember ==
  /\ \E id \in forgotten \cup unset, any \in Leaves \cup Uninitialised :
       position' = [position EXCEPT ![id] = any]
  /\ UNCHANGED <<storage, stash, cache, pc, requests, next, leaf, response, stranded,
                 forgotten, unset>>

\* The lookups succeed; that of Remap sets a position.
LookupsSucceed ==
  /\ Next
  /\ forgotten' = forgotten
  /\ unset' = IF pc = "remap" /\ pc' = "read" THEN unset \ {Current} ELSE unset

RecursiveNext ==
  \/ LookupsSucceed
  \/ PrefetchLookupThrows
  \/ RemapLookupThrows
  \/ WritePathLookupThrows
  \/ Misremember

RecursiveSpec == RecursiveInit /\ [][RecursiveNext]_recursiveVars

-----------------------------------------------------------------------------
(***************************************************************************)
(* Properties.                                                             *)
(***************************************************************************)

Forgetful == INSTANCE ForgetfulBlockStore WITH
  BlockIds <- MappedIds, Requests <- Request, Payloads <- Payload,
  Empty <- Nothing, Pad <- Padded,
  contents <- Contents, answers <- response,
  state <- IF Idle THEN pc ELSE "running"

\* A failing position map costs at most the block being served or last served
\* and the one whose position was being looked up (oram.cpp:159-161, 221).
ImplementsForgetfulBlockStore == Forgetful!ForgetfulSpec
=============================================================================
