--------------------------- MODULE StorageAdapter ---------------------------
(***************************************************************************)
(* AbsStorageAdapter (path-oram/src/storage-adapter.cpp): the batched get  *)
(* and set over the primitive operations of a backend.  A request longer   *)
(* than batchLimit is cut into parts; a backend without batch operations   *)
(* does a part bucket by bucket.  Each primitive operation is a step, for  *)
(* a remote backend can throw in any of them.                              *)
(*                                                                         *)
(* A bucket is a value; Malformed are those with a payload that is too     *)
(* long or not Z blocks.  Encryption, which get undoes, is left out.  An   *)
(* adapter opened with override = false finds what an earlier one left,    *)
(* and may be opened for more locations than that one had.                 *)
(***************************************************************************)
EXTENDS Integers, Sequences

CONSTANTS
  Capacity,       \* the number of buckets
  Buckets,        \* well-formed buckets
  Malformed,      \* buckets set refuses
  Zero,           \* the bucket of dummies
  Absent,         \* where the backend has no bucket
  Unread,         \* a place in the response that was not filled
  Adapters,       \* the adapters considered, one of which is in use
  RequestSize     \* the longest request considered

ASSUME AdapterAssumption ==
  /\ {Capacity, RequestSize} \subseteq Nat
  /\ Zero \in Buckets /\ {Unread, Absent} \cap Buckets = {}
  /\ Adapters \subseteq
       [batchLimit : Nat,          \* the most requests in a part, 0 for no limit
        batchGet : BOOLEAN,        \* supportsBatchGet
        batchSet : BOOLEAN,        \* supportsBatchSet
        persistent : BOOLEAN,      \* can it be opened with override = false?
        failedRead : {"never", "throws", "unnoticed", "fatal"},
        failedWrite : {"never", "throws", "unnoticed"}]
  /\ \A a \in Adapters : a.persistent => a.failedRead # "never"
  /\ \A a \in Adapters : a.failedRead = "fatal" => a.persistent

(***************************************************************************)
(* The backends of the library, each with what its failed operations do:   *)
(* memory never fails, the client of Redis throws, the stream of a file    *)
(* keeps an error to itself.  The code does not look at as_error, which    *)
(* tells of an error of Aerospike: a write goes unnoticed, and where no    *)
(* record was read a null pointer is used.  An adapter that could not      *)
(* connect or open its file was never constructed.                         *)
(***************************************************************************)
Backend(limit, batchGet, batchSet, persistent, failedRead, failedWrite) ==
  [batchLimit |-> limit, batchGet |-> batchGet, batchSet |-> batchSet,
   persistent |-> persistent, failedRead |-> failedRead, failedWrite |-> failedWrite]

InMemory(limit)   == Backend(limit, FALSE, FALSE, FALSE, "never", "never")
FileSystem(limit) == Backend(limit, FALSE, FALSE, TRUE, "unnoticed", "unnoticed")
Redis(limit)      == Backend(limit, TRUE, TRUE, TRUE, "throws", "throws")
Aerospike(limit)  == Backend(limit, TRUE, FALSE, TRUE, "fatal", "unnoticed")

Locations == 0 .. Capacity - 1

VARIABLES
  adapter,      \* the adapter in use
  blocks,       \* what the backend holds
  subscribed,   \* is anyone notified of storage requests?
  pc,           \* "get" or "set" in a call, else how the last one ended:
                \* "returned", or "threw" if it threw or the process ended
  locations,    \* the locations of the call
  writes,       \* the buckets of a set, one for each location
  pointer,      \* where the part in work starts
  done,         \* how much of it a backend without batch operations has done
  raws,         \* what get has read
  notified      \* the sizes of the notifications of the call

vars == <<adapter, blocks, subscribed, pc, locations, writes, pointer, done, raws, notified>>

Idle == pc \in {"returned", "threw"}

\* Types; no answer has a hole in it, unless a read has failed unnoticed.
TypeOK ==
  /\ adapter \in Adapters
  /\ blocks \in [Locations -> Buckets \cup {Absent}]
  /\ subscribed \in BOOLEAN
  /\ pc \in {"get", "set", "returned", "threw"}
  /\ locations \in Seq(Locations)
  /\ writes \in Seq(Buckets)
  /\ pointer \in Nat /\ done \in Nat
  /\ raws \in Seq(Buckets \cup IF pc = "get" \/ adapter.failedRead = "unnoticed"
                                  THEN {Unread} ELSE {})
  /\ notified \in Seq(Nat)

\* The constructor fills the backend, unless it opens one that exists.
Init ==
  /\ adapter \in Adapters
  /\ \/ blocks = [l \in Locations |-> Zero]
     \/ adapter.persistent /\ blocks \in [Locations -> Buckets \cup {Absent}]
  /\ subscribed = FALSE
  /\ pc = "returned"
  /\ locations = <<>> /\ writes = <<>>
  /\ pointer = 0 /\ done = 0
  /\ raws = <<>>
  /\ notified = <<>>

-----------------------------------------------------------------------------
Subscribe ==
  /\ Idle
  /\ subscribed' = ~ subscribed
  /\ UNCHANGED <<adapter, blocks, pc, locations, writes, pointer, done, raws, notified>>

InBatchesOf(kind) == IF kind = "get" THEN adapter.batchGet ELSE adapter.batchSet

Call(kind, at, buckets) ==
  /\ Idle
  /\ pc' = kind
  /\ locations' = at
  /\ writes' = buckets
  /\ raws' = <<>>
  /\ notified' = <<>>
  /\ UNCHANGED <<adapter, blocks, subscribed, pointer, done>>

Get(at) == at \in Seq(Locations) /\ Call("get", at, <<>>)

Set(at, buckets) ==
  /\ at \in Seq(Locations)
  /\ \A i \in DOMAIN buckets : buckets[i] \notin Malformed
  /\ Call("set", at, buckets)

FillWithZeroes == Set([i \in 1 .. Capacity |-> i - 1], [i \in 1 .. Capacity |-> Zero])

\* All locations and buckets are checked before the first is read or written.
Refused(at, buckets) ==
  /\ Idle
  /\ \/ at \notin Seq(Locations)
     \/ \E i \in DOMAIN buckets : buckets[i] \in Malformed
  /\ pc' = "threw"
  /\ raws' = <<>>
  /\ notified' = <<>>
  /\ UNCHANGED <<adapter, blocks, subscribed, locations, writes, pointer, done>>

-----------------------------------------------------------------------------
\* Mutant: every part starts at the first location.
PartFromFirst ==
  IF adapter.batchLimit = 0 \/ Len(locations) - pointer <= adapter.batchLimit
  THEN SubSeq(locations, 1, Len(locations) - pointer)
  ELSE SubSeq(locations, 1, adapter.batchLimit)

\* The locations of the part in work.
Part ==
  IF adapter.batchLimit = 0 \/ Len(locations) - pointer <= adapter.batchLimit
  THEN SubSeq(locations, pointer + 1, Len(locations))
  ELSE SubSeq(locations, pointer + 1, pointer + adapter.batchLimit)

\* A request for one bucket uses the single operations of any backend.
InBatches == Len(locations) # 1 /\ InBatchesOf(pc)

\* Mutant: the size of a batch is not told.
NotifyOfOne(size) ==
  notified' = IF subscribed THEN Append(notified, 1) ELSE notified

Notify(size) ==
  notified' = IF subscribed THEN Append(notified, size) ELSE notified

NextPart ==
  /\ pointer' = IF adapter.batchLimit = 0 THEN Len(locations) ELSE pointer + adapter.batchLimit
  /\ done' = 0

\* One bucket of a part, by the single operation.
NextBucket ==
  IF done + 1 = Len(Part) THEN NextPart ELSE done' = done + 1 /\ UNCHANGED pointer

MoreToDo == pointer < Len(locations)

\* Reading a bucket that is not there is an error, too.
GetBatch ==
  /\ pc = "get" /\ MoreToDo /\ InBatches
  /\ \/ /\ \A i \in DOMAIN Part : blocks[Part[i]] # Absent
        /\ raws' = raws \o [i \in DOMAIN Part |-> blocks[Part[i]]]
     \/ adapter.failedRead = "unnoticed" /\ raws' = raws \o [i \in DOMAIN Part |-> Unread]
  /\ NextPart
  /\ Notify(Len(Part))
  /\ UNCHANGED <<adapter, blocks, subscribed, pc, locations, writes>>

\* Mutant: a part is put at the front of the response.
SlotFromFront(response) == done + 1

Slot(response) == Len(response) - Len(Part) + done + 1

\* The response is made longer by the whole part first, then filled.
GetOne ==
  /\ pc = "get" /\ MoreToDo /\ ~ InBatches
  /\ LET resized == IF done > 0 THEN raws ELSE raws \o [i \in DOMAIN Part |-> Unread]
     IN  \/ /\ blocks[Part[done + 1]] # Absent
            /\ raws' = [resized EXCEPT ![Slot(resized)] = blocks[Part[done + 1]]]
         \/ adapter.failedRead = "unnoticed" /\ raws' = resized
  /\ NextBucket
  /\ Notify(1)
  /\ UNCHANGED <<adapter, blocks, subscribed, pc, locations, writes>>

PartWritten ==
  [l \in Locations |->
     LET at == {i \in DOMAIN Part : Part[i] = l}
     IN  IF at = {} THEN blocks[l]
         ELSE writes[pointer + CHOOSE i \in at : \A j \in at : j <= i]]

OneWritten == [blocks EXCEPT ![Part[done + 1]] = writes[pointer + done + 1]]

SetBatch ==
  /\ pc = "set" /\ MoreToDo /\ InBatches
  /\ blocks' = PartWritten
  /\ NextPart
  /\ Notify(Len(Part))
  /\ UNCHANGED <<adapter, subscribed, pc, locations, writes, raws>>

SetOne ==
  /\ pc = "set" /\ MoreToDo /\ ~ InBatches
  /\ \/ blocks' = OneWritten
     \/ adapter.failedWrite = "unnoticed" /\ UNCHANGED blocks
  /\ NextBucket
  /\ Notify(1)
  /\ UNCHANGED <<adapter, subscribed, pc, locations, writes, raws>>

End(outcome) ==
  /\ pc' = outcome
  /\ locations' = <<>> /\ writes' = <<>>
  /\ pointer' = 0 /\ done' = 0
  /\ UNCHANGED <<adapter, subscribed>>

\* An empty request goes to the batch operation, too.
EmptyBatch == locations = <<>> /\ InBatchesOf(pc)

Return ==
  /\ ~ Idle /\ ~ MoreToDo
  /\ IF EmptyBatch THEN Notify(0) ELSE UNCHANGED notified
  /\ End("returned")
  /\ UNCHANGED <<blocks, raws>>

\* The backend throws before or after a write took effect; the answer is lost
\* with the locals of the call.
Throws ==
  /\ ~ Idle
  /\ MoreToDo \/ EmptyBatch
  /\ (IF pc = "get" THEN adapter.failedRead ELSE adapter.failedWrite) = "throws"
  /\ \/ UNCHANGED blocks
     \/ /\ pc = "set" /\ MoreToDo
        /\ blocks' = IF InBatches THEN PartWritten ELSE OneWritten
  /\ End("threw")
  /\ raws' = <<>>
  /\ UNCHANGED notified

\* The process ends in a read; the next one opens what the backend holds.
Crash ==
  /\ pc = "get" /\ MoreToDo
  /\ adapter.failedRead = "fatal"
  /\ pc' = "threw"
  /\ locations' = <<>> /\ writes' = <<>> /\ raws' = <<>> /\ notified' = <<>>
  /\ pointer' = 0 /\ done' = 0
  /\ subscribed' = FALSE
  /\ UNCHANGED <<adapter, blocks>>

-----------------------------------------------------------------------------
Requests == UNION {[1 .. n -> 0 .. Capacity] : n \in 0 .. RequestSize}

Operation ==
  \/ Subscribe
  \/ FillWithZeroes
  \/ \E at \in Requests : Get(at) \/ Refused(at, <<>>)
  \/ \E at \in Requests : \E buckets \in [DOMAIN at -> Buckets \cup Malformed] :
       Set(at, buckets) \/ Refused(at, buckets)

Progress == GetBatch \/ GetOne \/ SetBatch \/ SetOne \/ Return \/ Throws \/ Crash

Next == Operation \/ Progress

Spec == Init /\ [][Next]_vars

-----------------------------------------------------------------------------
(***************************************************************************)
(* Properties.                                                             *)
(***************************************************************************)
Completed == IF pointer < Len(locations) THEN pointer + done ELSE Len(locations)

(***************************************************************************)
(* The subscribers are told of every bucket read or written exactly once,  *)
(* in notifications no larger than a batch may be: told are the running    *)
(* totals of the notifications (storage-adapter.cpp:299-343).              *)
(***************************************************************************)
NotifiedOfAll ==
  subscribed /\ ~ Idle =>
    /\ \E told \in [0 .. Len(notified) -> 0 .. Completed] :
         /\ told[0] = 0 /\ told[Len(notified)] = Completed
         /\ \A i \in 1 .. Len(notified) : told[i] = told[i - 1] + notified[i]
    /\ adapter.batchLimit # 0 => \A i \in DOMAIN notified : notified[i] <= adapter.batchLimit

Pending ==
  LET rest == IF pc = "set" THEN Len(locations) - Completed ELSE 0
  IN  [i \in 1 .. rest |-> <<locations[Completed + i], writes[Completed + i]>>]

Store == INSTANCE BucketStore WITH
  Places <- Locations, Contents <- Buckets, None <- Absent,
  table <- blocks, pending <- Pending,
  asked <- IF pc = "get" THEN locations ELSE <<>>,
  answer <- IF pc = "get" THEN <<>> ELSE raws,
  state <- IF pc = "get" THEN "getting" ELSE IF pc = "set" THEN "setting" ELSE pc

\* Whatever the limit and the backend, parts and single operations add up to
\* the get and set the ORAM relies on: nothing is skipped, done twice or put
\* in another's place (storage-adapter.cpp:54-83, 169-198, 214-229).
ImplementsBucketStore == Store!Spec
=============================================================================
