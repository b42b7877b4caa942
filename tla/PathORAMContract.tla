-------------------------- MODULE PathORAMContract --------------------------
(***************************************************************************)
(* PathORAM implements BlockStore: the content of a block is its copy in   *)
(* the stash or else the one in the tree.                                  *)
(***************************************************************************)
EXTENDS PathORAM

CONSTANT Lost    \* what BlockStore knows of a stranded block

ASSUME LostAssumption == Lost \notin Payload

Nothing == Padded(EmptyPayload)

Copies(id) == {block \in stash : block.id = id}
TreeCopies(id) == {block \in InTree : block.id = id}

\* What the client would read: the stash first, then the tree.
Stored(id) ==
  LET inTree == TreeCopies(id)
  IN  IF Copies(id) # {} THEN (CHOOSE block \in Copies(id) : TRUE).data
      ELSE IF inTree # {} THEN (CHOOSE block \in inTree : TRUE).data
      ELSE EmptyPayload

Contents == [id \in MappedIds |-> IF id \in stranded THEN Lost ELSE Padded(Stored(id))]

Contract == INSTANCE BlockStore WITH
  BlockIds <- MappedIds, Requests <- Request, Payloads <- Payload,
  Empty <- Nothing, Pad <- Padded,
  contents <- Contents, answers <- response,
  state <- IF Idle THEN pc ELSE "running"

\* The client keeps the contract of a block store: reads return the last
\* write, a failed call can damage only the block it was serving, and a
\* failed upload loses nothing (oram.cpp:54-96, 157-175, 344-349).
ImplementsBlockStore == Contract!Spec
=============================================================================
