----------------------------- MODULE BlockStore -----------------------------
(***************************************************************************)
(* What the ORAM promises its client (path-oram/include/oram.hpp): get,    *)
(* put and multiple serve their requests in order, each at one instant, on *)
(* a table of padded payloads that starts out empty.  A call that throws   *)
(* has served some of its requests, and can have lost at most the block    *)
(* whose request it was serving.                                           *)
(***************************************************************************)
EXTENDS Naturals, Sequences

CONSTANTS
  BlockIds,       \* the block ids
  Requests,       \* [id, read, data] records
  Payloads,       \* what an answer can be
  Empty,          \* the content of a block never written
  Lost,           \* the content of a block an exception has damaged
  Pad(_)          \* the stored form of a payload

VARIABLES
  contents,       \* the table
  requests,       \* the requests of the running call
  answers,        \* the answers to those served so far
  state           \* "running" a call, or how the last one ended

vars == <<contents, requests, answers, state>>

Init ==
  /\ contents = [id \in BlockIds |-> Empty]
  /\ requests = <<>>
  /\ answers = <<>>
  /\ state = "returned"

Ended == state \in {"returned", "threw"}

Call ==
  /\ Ended
  /\ state' = "running"
  /\ requests' \in Seq(Requests)
  /\ UNCHANGED <<contents, answers>>

\* A batch that is too long is refused before it begins.
Refuse ==
  /\ Ended
  /\ state' = "threw"
  /\ UNCHANGED <<contents, requests, answers>>

Serving  == Len(answers) + 1
Unserved == Serving <= Len(requests)

\* A read answers with what was last written, padded or not.
ServeRead ==
  /\ state = "running" /\ Unserved
  /\ requests[Serving].read
  /\ LET id == requests[Serving].id
     IN  /\ id \in BlockIds
         /\ \E answer \in Payloads :
              /\ answers' = Append(answers, answer)
              /\ contents[id] \in {Lost, Pad(answer)}
  /\ UNCHANGED <<contents, requests, state>>

\* A write answers with the payload written.  A lost block stays lost: older
\* copies of it may come back.
ServeWrite ==
  /\ state = "running" /\ Unserved
  /\ ~ requests[Serving].read
  /\ LET id   == requests[Serving].id
         data == requests[Serving].data
     IN  /\ id \in BlockIds
         /\ answers' = Append(answers, data)
         /\ contents' = [contents EXCEPT ![id] = IF @ = Lost THEN Lost ELSE Pad(data)]
  /\ UNCHANGED <<requests, state>>

Finish(outcome) ==
  /\ state = "running"
  /\ state' = outcome
  /\ requests' = <<>>
  /\ answers' = <<>>

Return ==
  /\ ~ Unserved
  /\ Finish("returned")
  /\ UNCHANGED contents

Throw ==
  /\ Finish("threw")
  /\ \/ UNCHANGED contents
     \/ /\ Unserved
        /\ requests[Serving].id \in BlockIds
        /\ contents' = [contents EXCEPT ![requests[Serving].id] = Lost]

Next == Call \/ Refuse \/ ServeRead \/ ServeWrite \/ Return \/ Throw

Spec == Init /\ [][Next]_vars
=============================================================================
