------------------------- MODULE ForgetfulBlockStore -------------------------
(***************************************************************************)
(* What the ORAM promises when its position map can fail: BlockStore, but  *)
(* an exception can also come after a request was served, and can lose the *)
(* block of that request and one more, whose position was being looked up. *)
(***************************************************************************)
EXTENDS BlockStore

\* The request served last, if any.
LastServed == {requests[i].id : i \in DOMAIN requests \cap {Len(answers)}}

LookupThrows ==
  /\ Finish("threw")
  /\ \E other \in BlockIds :
       \E lost \in SUBSET (LastServed \cup {other}) :
         contents' = [id \in BlockIds |-> IF id \in lost THEN Lost ELSE contents[id]]

ForgetfulSpec == Init /\ [][Next \/ LookupThrows]_vars
=============================================================================
