-------------------------- MODULE LoadedBlockStore --------------------------
(***************************************************************************)
(* BlockStore with load (path-oram/include/oram.hpp:212-228), a call that  *)
(* fills an empty table at one instant.  If it throws, any part of the     *)
(* data may have been loaded; after a call that threw, loaded blocks may   *)
(* be lost.                                                                *)
(***************************************************************************)
EXTENDS BlockStore

VARIABLE kept       \* do leftovers of a call that threw hide what is loaded?

LoadInit == Init /\ ~ kept

\* A call that returns leaves nothing behind, nor does it find anything.
Operate ==
  /\ Next \/ (state = "running" /\ UNCHANGED vars)
  /\ kept' \in BOOLEAN
  /\ state' = "returned" => ~ kept'

BeginLoad ==
  /\ Ended
  /\ \A id \in BlockIds : contents[id] \in {Empty, Lost}
  /\ state' = "loading"
  /\ requests' \in Seq(Requests)
  /\ UNCHANGED <<contents, answers, kept>>

\* These of the given blocks are put in the table.  What was lost stays lost.
Fill(given) ==
  LET Of(id) == {i \in given : requests[i].id = id}
      filled == [id \in BlockIds |-> IF Of(id) = {} \/ contents[id] = Lost THEN contents[id]
                                     ELSE Pad(requests[CHOOSE i \in Of(id) : TRUE].data)]
  IN  \E hidden \in SUBSET {id \in BlockIds : kept /\ Of(id) # {}} :
        contents' = [id \in BlockIds |-> IF id \in hidden THEN Lost ELSE filled[id]]

EndLoad(outcome) ==
  /\ state = "loading"
  /\ state' = outcome
  /\ requests' = <<>>
  /\ UNCHANGED <<answers, kept>>

Load ==
  /\ {requests[i].id : i \in DOMAIN requests} \subseteq BlockIds
  /\ EndLoad("returned")
  /\ Fill(DOMAIN requests)

LoadThrows ==
  /\ EndLoad("threw")
  /\ \E given \in SUBSET DOMAIN requests : Fill(given)

LoadSpec == LoadInit /\ [][Operate \/ BeginLoad \/ Load \/ LoadThrows]_<<vars, kept>>
=============================================================================
