---------------------------- MODULE BucketStore ----------------------------
(***************************************************************************)
(* What a storage adapter promises the ORAM                                *)
(* (path-oram/include/storage-adapter.hpp): get answers with the buckets   *)
(* at the given locations, in their order; set writes the given pairs, in  *)
(* their order; only a set that throws may leave some of them unwritten.   *)
(***************************************************************************)
EXTENDS Naturals, Sequences

CONSTANTS Places, Contents, None    \* None is at a place not written yet

VARIABLES
  table,      \* the bucket at each place
  asked,      \* the places of the running get
  pending,    \* the pairs the running set has still to write
  answer,     \* what the last get answered
  state       \* "getting", "setting", "returned" or "threw"

vars == <<table, asked, pending, answer, state>>

Init ==
  /\ table \in [Places -> Contents \cup {None}]
  /\ asked = <<>> /\ pending = <<>> /\ answer = <<>>
  /\ state = "returned"

Ended == state \in {"returned", "threw"}

Get ==
  /\ Ended
  /\ state' = "getting"
  /\ asked' \in Seq(Places)
  /\ answer' = <<>>
  /\ UNCHANGED <<table, pending>>

Set ==
  /\ Ended
  /\ state' = "setting"
  /\ pending' \in Seq(Places \X Contents)
  /\ answer' = <<>>
  /\ UNCHANGED <<table, asked>>

\* A request with a bad location or a bad bucket changes nothing.
Refuse ==
  /\ Ended
  /\ state' = "threw"
  /\ answer' = <<>>
  /\ UNCHANGED <<table, asked, pending>>

\* What writing these pairs one after the other makes of the table.
Written(pairs) ==
  [p \in Places |->
     LET at == {i \in DOMAIN pairs : pairs[i][1] = p}
     IN  IF at = {} THEN table[p] ELSE pairs[CHOOSE i \in at : \A j \in at : j <= i][2]]

Write ==
  /\ state = "setting"
  /\ \E n \in 1 .. Len(pending) :
       /\ table' = Written(SubSeq(pending, 1, n))
       /\ pending' = SubSeq(pending, n + 1, Len(pending))
  /\ UNCHANGED <<asked, answer, state>>

Return ==
  /\ ~ Ended
  /\ pending = <<>>
  /\ \A i \in DOMAIN asked : table[asked[i]] # None
  /\ answer' = [i \in DOMAIN asked |-> table[asked[i]]]
  /\ asked' = <<>>
  /\ state' = "returned"
  /\ UNCHANGED <<table, pending>>

\* Some of the pairs may have been written, the first ones.
Throw ==
  /\ ~ Ended
  /\ \E n \in 0 .. Len(pending) : table' = Written(SubSeq(pending, 1, n))
  /\ asked' = <<>> /\ pending' = <<>>
  /\ state' = "threw"
  /\ UNCHANGED answer

Next == Get \/ Set \/ Refuse \/ Write \/ Return \/ Throw

Spec == Init /\ [][Next]_vars
=============================================================================
