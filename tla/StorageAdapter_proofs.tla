------------------------ MODULE StorageAdapter_proofs ------------------------
(***************************************************************************)
(* The storage adapter implements BucketStore, for every limit of a batch, *)
(* every backend that does not ignore its errors and requests of every     *)
(* length.                                                                 *)
(***************************************************************************)
EXTENDS StorageAdapter, SequenceTheorems, FiniteSetTheorems, TLAPS

-----------------------------------------------------------------------------
(***************************************************************************)
(* The parts of a request.                                                 *)
(***************************************************************************)
LEMMA PartFacts ==
  ASSUME TypeOK, MoreToDo
  PROVE  /\ Part \in Seq(Locations)
         /\ Len(Part) \in 1 .. Len(locations) - pointer
         /\ DOMAIN Part = 1 .. Len(Part)
         /\ \A i \in 1 .. Len(Part) : Part[i] = locations[pointer + i]
         /\ adapter.batchLimit # 0 => Len(Part) <= adapter.batchLimit
<1>1. /\ locations \in Seq(Locations) /\ Len(locations) \in Nat /\ pointer \in Nat
      /\ pointer < Len(locations) /\ adapter.batchLimit \in Nat
  BY AdapterAssumption DEF TypeOK, MoreToDo
<1> DEFINE last == IF adapter.batchLimit = 0 \/ Len(locations) - pointer <= adapter.batchLimit
                   THEN Len(locations) ELSE pointer + adapter.batchLimit
<1>2. Part = SubSeq(locations, pointer + 1, last)
  BY DEF Part
<1>3. last \in pointer + 1 .. Len(locations)
  BY <1>1
<1>4. adapter.batchLimit # 0 => last - pointer <= adapter.batchLimit
  BY <1>1
<1> HIDE DEF last
<1>5. \A i \in pointer + 1 .. last : locations[i] \in Locations
  BY <1>1, <1>3, LenProperties
<1>6. /\ Part \in Seq(Locations)
      /\ Len(Part) = last - pointer
      /\ \A i \in 1 .. last - pointer : Part[i] = locations[pointer + i]
  BY <1>1, <1>2, <1>3, <1>5, SubSeqProperties
<1>7. DOMAIN Part = 1 .. Len(Part)
  BY <1>6, LenProperties
<1> QED BY <1>1, <1>3, <1>4, <1>6, <1>7

LEMMA NextPartFacts ==
  ASSUME TypeOK, MoreToDo, NextPart, locations' = locations
  PROVE  /\ pointer' \in Nat /\ done' = 0
         /\ Completed' = pointer + Len(Part)
         /\ Completed' \in Nat /\ Completed' <= Len(locations)
<1>1. /\ Len(locations) \in Nat /\ pointer \in Nat
      /\ pointer < Len(locations) /\ adapter.batchLimit \in Nat
  BY AdapterAssumption DEF TypeOK, MoreToDo
<1>2. CASE adapter.batchLimit = 0 \/ Len(locations) - pointer <= adapter.batchLimit
  <2>1. Part = SubSeq(locations, pointer + 1, Len(locations))
    BY <1>2 DEF Part
  <2>2. Len(Part) = Len(locations) - pointer
    <3>1. \A i \in pointer + 1 .. Len(locations) : locations[i] \in Locations
      BY <1>1, LenProperties DEF TypeOK
    <3> QED BY <1>1, <2>1, <3>1, SubSeqProperties
  <2>3. ~ pointer' < Len(locations) /\ pointer' \in Nat /\ done' = 0
    BY <1>1, <1>2 DEF NextPart
  <2>4. Completed' = Len(locations)
    BY <2>3 DEF Completed
  <2> QED BY <1>1, <2>2, <2>3, <2>4
<1>3. CASE ~ (adapter.batchLimit = 0 \/ Len(locations) - pointer <= adapter.batchLimit)
  <2>1. Part = SubSeq(locations, pointer + 1, pointer + adapter.batchLimit)
    BY <1>3 DEF Part
  <2>2. Len(Part) = adapter.batchLimit
    <3>1. \A i \in pointer + 1 .. pointer + adapter.batchLimit : locations[i] \in Locations
      BY <1>1, <1>3, LenProperties DEF TypeOK
    <3> QED BY <1>1, <1>3, <2>1, <3>1, SubSeqProperties
  <2>3. pointer' = pointer + adapter.batchLimit /\ pointer' < Len(locations) /\ done' = 0
    BY <1>1, <1>3 DEF NextPart
  <2> QED BY <1>1, <2>2, <2>3 DEF Completed
<1> QED BY <1>2, <1>3

-----------------------------------------------------------------------------
(***************************************************************************)
(* The invariant: how far the call is, and what get has read.              *)
(***************************************************************************)
ProgressOK ==
  /\ Idle => locations = <<>> /\ writes = <<>> /\ pointer = 0 /\ done = 0
  /\ pc = "set" => Len(writes) = Len(locations) /\ raws = <<>>
  /\ done > 0 => MoreToDo /\ ~ InBatches /\ done < Len(Part)

\* The response has room for the part in work, once that is begun; what is
\* before Completed is filled.
ResponseOK ==
  pc = "get" =>
    /\ Len(raws) = IF done > 0 THEN pointer + Len(Part) ELSE Completed
    /\ adapter.failedRead # "unnoticed" =>
         \A i \in 1 .. Completed :
           blocks[locations[i]] # Absent /\ raws[i] = blocks[locations[i]]

AdapterInv == TypeOK /\ ProgressOK /\ ResponseOK

LEMMA CompletedFacts ==
  ASSUME TypeOK, ProgressOK
  PROVE  /\ Completed \in Nat /\ Completed <= Len(locations)
         /\ MoreToDo => Completed = pointer + done
         /\ ~ MoreToDo => Completed = Len(locations) /\ done = 0
         /\ MoreToDo => done < Len(Part)
<1>1. Len(locations) \in Nat /\ pointer \in Nat /\ done \in Nat
  BY DEF TypeOK
<1>2. MoreToDo => Len(Part) \in 1 .. Len(locations) - pointer
  BY PartFacts
<1> QED BY <1>1, <1>2 DEF ProgressOK, MoreToDo, Completed

\* One bucket further.
LEMMA NextBucketFacts ==
  ASSUME TypeOK, ProgressOK, MoreToDo, ~ InBatches, NextBucket,
         UNCHANGED <<adapter, locations, pc>>
  PROVE  /\ pointer' \in Nat /\ done' \in Nat
         /\ Completed' = Completed + 1
         /\ done' > 0 => MoreToDo' /\ ~ InBatches' /\ done' < Len(Part)'
                           /\ pointer' = pointer /\ Part' = Part
         /\ done' = 0 => Completed' = pointer + Len(Part)
<1>1. /\ pointer \in Nat /\ done \in Nat /\ Len(locations) \in Nat
      /\ Len(Part) \in 1 .. Len(locations) - pointer
      /\ Completed = pointer + done /\ done < Len(Part)
  BY CompletedFacts, PartFacts DEF TypeOK
<1>2. CASE done + 1 = Len(Part)
  BY <1>1, <1>2, NextPartFacts DEF NextBucket
<1>3. CASE done + 1 # Len(Part)
  <2>1. pointer' = pointer /\ done' = done + 1 /\ Part' = Part /\ MoreToDo'
    BY <1>3 DEF NextBucket, Part, MoreToDo
  <2>2. ~ InBatches'
    BY DEF InBatches, InBatchesOf
  <2>3. Completed' = pointer + done + 1
    BY <1>1, <2>1 DEF Completed, MoreToDo
  <2> QED BY <1>1, <1>3, <2>1, <2>2, <2>3
<1> QED BY <1>2, <1>3

LEMMA AdapterInvInit == Init => AdapterInv
<1> SUFFICES ASSUME Init PROVE AdapterInv
  OBVIOUS
<1>1. /\ adapter \in Adapters /\ subscribed = FALSE /\ pc = "returned"
      /\ locations = <<>> /\ writes = <<>> /\ pointer = 0 /\ done = 0
      /\ raws = <<>> /\ notified = <<>>
  BY DEF Init
<1>2. blocks \in [Locations -> Buckets \cup {Absent}]
  BY AdapterAssumption DEF Init
<1>3. TypeOK
  <2>1. locations \in Seq(Locations) /\ writes \in Seq(Buckets) /\ notified \in Seq(Nat)
    BY <1>1
  <2>2. \A S : raws \in Seq(S)
    BY <1>1
  <2> QED BY <1>1, <1>2, <2>1, <2>2 DEF TypeOK
<1> QED BY <1>1, <1>3 DEF AdapterInv, ProgressOK, ResponseOK

-----------------------------------------------------------------------------
(***************************************************************************)
(* The invariant holds after each step.                                    *)
(***************************************************************************)
LEMMA NotifyType ==
  ASSUME TypeOK, NEW size \in Nat, Notify(size) PROVE notified' \in Seq(Nat)
BY DEF TypeOK, Notify

LEMMA RawsType == TypeOK => raws \in Seq(Buckets \cup {Unread})
<1> SUFFICES ASSUME TypeOK PROVE raws \in Seq(Buckets \cup {Unread})
  OBVIOUS
<1>1. raws \in Seq(Buckets) \/ raws \in Seq(Buckets \cup {Unread})
  <2>1. CASE pc = "get" \/ adapter.failedRead = "unnoticed"
    BY <2>1 DEF TypeOK
  <2>2. CASE ~ (pc = "get" \/ adapter.failedRead = "unnoticed")
    <3>1. Buckets \cup {} = Buckets
      OBVIOUS
    <3> QED BY <2>2, <3>1 DEF TypeOK
  <2> QED BY <2>1, <2>2
<1> QED BY <1>1, SeqMonotonic

LEMMA ZerosAreGiven ==
  /\ [i \in 1 .. Capacity |-> i - 1] \in Seq(Locations)
  /\ [i \in 1 .. Capacity |-> Zero] \in Seq(Buckets)
  /\ Len([i \in 1 .. Capacity |-> i - 1]) = Len([i \in 1 .. Capacity |-> Zero])
BY AdapterAssumption DEF Locations

\* A call is only begun with well-formed buckets, one for each location.
LEMMA OperationFacts ==
  ASSUME AdapterInv, Operation
  PROVE  /\ Idle /\ UNCHANGED <<adapter, blocks, pointer, done>>
         /\ subscribed' \in BOOLEAN
         /\ locations' \in Seq(Locations) /\ writes' \in Seq(Buckets)
         /\ \/ Subscribe /\ UNCHANGED <<pc, locations, writes, raws, notified>>
            \/ /\ raws' = <<>> /\ notified' = <<>>
               /\ \/ pc' = "threw" /\ UNCHANGED <<locations, writes>>
                  \/ pc' = "get" /\ writes' = <<>>
                  \/ pc' = "set" /\ Len(writes') = Len(locations')
<1> USE DEF AdapterInv
<1>1. CASE Subscribe
  BY <1>1 DEF Subscribe, TypeOK
<1>2. CASE FillWithZeroes
  BY <1>2, ZerosAreGiven DEF FillWithZeroes, Set, Call, TypeOK
<1>3. CASE \E at \in Requests : Get(at)
  BY <1>3 DEF Get, Call, TypeOK
<1>4. CASE \E at \in Requests : \E buckets : Refused(at, buckets)
  BY <1>4 DEF Refused, TypeOK
<1>5. CASE \E at \in Requests : \E buckets \in [DOMAIN at -> Buckets \cup Malformed] :
             Set(at, buckets)
  <2>1. PICK at \in Requests : \E buckets \in [DOMAIN at -> Buckets \cup Malformed] :
               Set(at, buckets)
    BY <1>5
  <2>2. PICK buckets \in [DOMAIN at -> Buckets \cup Malformed] : Set(at, buckets)
    BY <2>1
  <2>3. at \in Seq(Locations) /\ Len(at) \in Nat /\ DOMAIN at = 1 .. Len(at)
    BY <2>2 DEF Set
  <2>4. buckets \in [1 .. Len(at) -> Buckets]
    BY <2>2, <2>3 DEF Set
  <2>5. buckets \in Seq(Buckets) /\ Len(buckets) = Len(at)
    BY <2>3, <2>4
  <2> QED BY <2>2, <2>3, <2>5 DEF Set, Call, TypeOK
<1> QED BY <1>1, <1>2, <1>3, <1>4, <1>5 DEF Operation

LEMMA OperationKeepsInv ==
  ASSUME AdapterInv, Operation
  PROVE  AdapterInv'
<1> USE DEF AdapterInv
<1>1. CASE Subscribe
  BY <1>1 DEF Subscribe, TypeOK, ProgressOK, ResponseOK, Idle, MoreToDo, InBatches,
     InBatchesOf, Part, Completed
<1>2. CASE ~ Subscribe
  <2>1. /\ Idle /\ UNCHANGED <<adapter, blocks, pointer, done>>
        /\ subscribed' \in BOOLEAN
        /\ locations' \in Seq(Locations) /\ writes' \in Seq(Buckets)
        /\ raws' = <<>> /\ notified' = <<>>
        /\ \/ pc' = "threw" /\ UNCHANGED <<locations, writes>>
           \/ pc' = "get" /\ writes' = <<>>
           \/ pc' = "set" /\ Len(writes') = Len(locations')
    BY <1>2, OperationFacts
  <2>2. pointer' = 0 /\ done' = 0
    BY <2>1 DEF ProgressOK
  <2>3. TypeOK'
    <3>1. \A S : raws' \in Seq(S)
      BY <2>1
    <3>2. notified' \in Seq(Nat)
      BY <2>1
    <3> QED BY <2>1, <2>2, <3>1, <3>2 DEF TypeOK
  <2>4. ProgressOK'
    BY <2>1, <2>2 DEF ProgressOK, Idle
  <2>5. ResponseOK'
    <3>1. Completed' = 0 /\ Len(raws') = 0
      BY <2>1, <2>2 DEF Completed
    <3> QED BY <2>2, <3>1 DEF ResponseOK
  <2> QED BY <2>3, <2>4, <2>5
<1> QED BY <1>1, <1>2

LEMMA LastExists ==
  ASSUME NEW n \in Nat, NEW at \in SUBSET (1 .. n), at # {}
  PROVE  \E i \in at : \A j \in at : j <= i
<1> DEFINE Above(i) == i .. n
           above == {Above(i) : i \in at}
<1>1. above \subseteq FiniteSubsetsOf(1 .. n)
  BY FS_Interval, FS_Subset DEF FiniteSubsetsOf
<1>2. IsWellFoundedOn(StrictSubsetOrdering(1 .. n), FiniteSubsetsOf(1 .. n))
  BY FS_StrictSubsetOrderingWellFounded
<1>3. above # {}
  OBVIOUS
<1>4. \E x \in above : \A y \in above : ~ (<<y, x>> \in StrictSubsetOrdering(1 .. n))
  <2> HIDE DEF above
  <2> QED BY <1>1, <1>2, <1>3, WFMin
<1>5. PICK i \in at : \A j \in at : ~ (<<Above(j), Above(i)>> \in StrictSubsetOrdering(1 .. n))
  BY <1>4
<1>6. ASSUME NEW j \in at, ~ j <= i PROVE FALSE
  <2>1. Above(j) \subseteq Above(i) /\ i \in Above(i) /\ i \notin Above(j)
    BY <1>6
  <2>2. <<Above(j), Above(i)>> \in StrictSubsetOrdering(1 .. n)
    BY <2>1 DEF StrictSubsetOrdering
  <2> QED BY <1>5, <2>2
<1> QED BY <1>6

LEMMA GetBatchKeepsInv ==
  ASSUME AdapterInv, GetBatch
  PROVE  AdapterInv'
<1> USE DEF AdapterInv
<1>1. /\ pc = "get" /\ MoreToDo /\ InBatches /\ NextPart /\ done = 0
      /\ UNCHANGED <<adapter, blocks, subscribed, pc, locations, writes>>
  BY DEF GetBatch, ProgressOK, TypeOK
<1>2. /\ Len(Part) \in Nat /\ DOMAIN Part = 1 .. Len(Part)
      /\ \A i \in 1 .. Len(Part) : Part[i] \in Locations /\ Part[i] = locations[pointer + i]
  BY <1>1, PartFacts
<1>3. Completed = pointer /\ Len(raws) = pointer /\ pointer \in Nat
  BY <1>1, CompletedFacts DEF ResponseOK, TypeOK
<1>4. pointer' \in Nat /\ done' = 0 /\ Completed' = pointer + Len(Part)
  BY <1>1, NextPartFacts
<1>5. raws \in Seq(Buckets \cup {Unread})
  BY RawsType
<1>6. PICK read \in Seq(Buckets \cup {Unread}) :
        /\ raws' = raws \o read /\ Len(read) = Len(Part)
        /\ adapter.failedRead # "unnoticed" =>
             \A i \in 1 .. Len(Part) : blocks[Part[i]] # Absent /\ read[i] = blocks[Part[i]]
  <2>1. CASE (\A i \in DOMAIN Part : blocks[Part[i]] # Absent)
             /\ raws' = raws \o [i \in DOMAIN Part |-> blocks[Part[i]]]
    <3> DEFINE read == [i \in 1 .. Len(Part) |-> blocks[Part[i]]]
    <3>1. \A i \in 1 .. Len(Part) : blocks[Part[i]] \in Buckets \cup {Unread}
      BY <1>2, <2>1 DEF TypeOK
    <3>2. read \in Seq(Buckets \cup {Unread}) /\ Len(read) = Len(Part)
      BY <1>2, <3>1
    <3> QED BY <1>2, <2>1, <3>2
  <2>2. CASE adapter.failedRead = "unnoticed" /\ raws' = raws \o [i \in DOMAIN Part |-> Unread]
    <3> DEFINE read == [i \in 1 .. Len(Part) |-> Unread]
    <3>1. read \in Seq(Buckets \cup {Unread}) /\ Len(read) = Len(Part)
      BY <1>2
    <3> QED BY <1>2, <2>2, <3>1
  <2> QED BY <2>1, <2>2 DEF GetBatch
<1>7. /\ raws' \in Seq(Buckets \cup {Unread})
      /\ Len(raws') = pointer + Len(Part)
      /\ \A i \in 1 .. pointer + Len(Part) :
           raws'[i] = IF i <= pointer THEN raws[i] ELSE read[i - pointer]
  BY <1>3, <1>5, <1>6, ConcatProperties
<1>8. TypeOK'
  <2>1. notified' \in Seq(Nat)
    BY <1>2, NotifyType DEF GetBatch
  <2> QED BY <1>1, <1>4, <1>7, <2>1 DEF TypeOK
<1>9. ProgressOK'
  BY <1>1, <1>4 DEF ProgressOK, Idle
<1>10. ResponseOK'
  <2>1. ASSUME adapter.failedRead # "unnoticed", NEW i \in 1 .. pointer + Len(Part)
        PROVE  blocks[locations[i]] # Absent /\ raws'[i] = blocks[locations[i]]
    <3>1. CASE i <= pointer
      BY <1>1, <1>3, <1>7, <2>1, <3>1 DEF ResponseOK
    <3>2. CASE i > pointer
      <4>1. i - pointer \in 1 .. Len(Part) /\ pointer + (i - pointer) = i
        BY <1>2, <1>3, <3>2
      <4>2. Part[i - pointer] = locations[i]
        BY <1>2, <4>1
      <4>3. raws'[i] = read[i - pointer]
        BY <1>3, <1>7, <3>2
      <4> QED BY <1>6, <2>1, <4>1, <4>2, <4>3
    <3> QED BY <1>3, <3>1, <3>2
  <2> QED BY <1>1, <1>4, <1>7, <2>1 DEF ResponseOK
<1> QED BY <1>8, <1>9, <1>10

LEMMA GetOneKeepsInv ==
  ASSUME AdapterInv, GetOne
  PROVE  AdapterInv'
<1> USE DEF AdapterInv
<1>1. /\ pc = "get" /\ MoreToDo /\ ~ InBatches /\ NextBucket
      /\ UNCHANGED <<adapter, blocks, subscribed, pc, locations, writes>>
  BY DEF GetOne
<1>2. /\ Len(Part) \in Nat /\ DOMAIN Part = 1 .. Len(Part)
      /\ \A i \in 1 .. Len(Part) : Part[i] \in Locations /\ Part[i] = locations[pointer + i]
  BY <1>1, PartFacts
<1>3. Completed = pointer + done /\ pointer \in Nat /\ done \in Nat /\ done < Len(Part)
  BY <1>1, CompletedFacts DEF TypeOK
<1>4. /\ pointer' \in Nat /\ done' \in Nat /\ Completed' = Completed + 1
      /\ done' > 0 => MoreToDo' /\ ~ InBatches' /\ done' < Len(Part)'
                        /\ pointer' = pointer /\ Part' = Part
      /\ done' = 0 => Completed' = pointer + Len(Part)
  BY <1>1, NextBucketFacts
<1> DEFINE resized == IF done > 0 THEN raws ELSE raws \o [i \in DOMAIN Part |-> Unread]
<1>5. /\ resized \in Seq(Buckets \cup {Unread})
      /\ Len(resized) = pointer + Len(Part)
      /\ \A i \in 1 .. Completed : resized[i] = raws[i]
  <2>1. raws \in Seq(Buckets \cup {Unread})
    BY RawsType
  <2>2. CASE done > 0
    BY <1>1, <2>1, <2>2 DEF ResponseOK
  <2>3. CASE done = 0
    <3> DEFINE room == [i \in 1 .. Len(Part) |-> Unread]
    <3>1. room \in Seq(Buckets \cup {Unread}) /\ Len(room) = Len(Part)
      BY <1>2
    <3>2. Len(raws) = pointer
      BY <1>1, <1>3, <2>3 DEF ResponseOK
    <3>3. resized = raws \o room
      BY <1>2, <2>3
    <3> HIDE DEF room, resized
    <3>4. /\ raws \o room \in Seq(Buckets \cup {Unread})
          /\ Len(raws \o room) = pointer + Len(Part)
          /\ \A i \in 1 .. pointer + Len(Part) : i <= pointer => (raws \o room)[i] = raws[i]
      <4>1. /\ raws \o room \in Seq(Buckets \cup {Unread})
            /\ Len(raws \o room) = Len(raws) + Len(room)
            /\ \A i \in 1 .. Len(raws) + Len(room) :
                 (raws \o room)[i] = IF i <= Len(raws) THEN raws[i] ELSE room[i - Len(raws)]
        BY <2>1, <3>1, ConcatProperties
      <4> QED BY <3>1, <3>2, <4>1
    <3>5. \A i \in 1 .. Completed : i \in 1 .. pointer + Len(Part) /\ i <= pointer
      BY <1>2, <1>3, <2>3
    <3> QED BY <3>3, <3>4, <3>5
  <2> QED BY <1>3, <2>2, <2>3
<1>6. \/ /\ blocks[Part[done + 1]] # Absent
         /\ raws' = [resized EXCEPT ![Slot(resized)] = blocks[Part[done + 1]]]
      \/ adapter.failedRead = "unnoticed" /\ raws' = resized
  BY DEF GetOne
<1> HIDE DEF resized
<1>7. Slot(resized) = Completed + 1 /\ Completed + 1 \in 1 .. Len(resized)
  BY <1>2, <1>3, <1>5 DEF Slot
<1>8. Part[done + 1] = locations[Completed + 1] /\ Part[done + 1] \in Locations
  BY <1>2, <1>3
<1>9. /\ raws' \in Seq(Buckets \cup {Unread}) /\ Len(raws') = pointer + Len(Part)
      /\ adapter.failedRead # "unnoticed" =>
           /\ blocks[Part[done + 1]] # Absent
           /\ raws'[Completed + 1] = blocks[Part[done + 1]]
           /\ \A i \in 1 .. Completed : raws'[i] = raws[i]
  <2>1. CASE adapter.failedRead = "unnoticed" /\ raws' = resized
    BY <1>5, <2>1
  <2>2. CASE /\ blocks[Part[done + 1]] # Absent
             /\ raws' = [resized EXCEPT ![Slot(resized)] = blocks[Part[done + 1]]]
    <3> DEFINE e == blocks[Part[done + 1]]
               slot == Completed + 1
    <3>1. e \in Buckets \cup {Unread}
      BY <1>8, <2>2 DEF TypeOK
    <3>2. slot \in 1 .. Len(resized) /\ raws' = [resized EXCEPT ![slot] = e]
      BY <1>7, <2>2
    <3>3. /\ Len(raws') = Len(resized) /\ raws' \in Seq(Buckets \cup {Unread})
          /\ \A j \in 1 .. Len(resized) : raws'[j] = IF j = slot THEN e ELSE resized[j]
      <4> HIDE DEF e, slot
      <4> QED BY <1>5, <3>1, <3>2, ExceptSeq
    <3>4. \A i \in 1 .. Completed : i \in 1 .. Len(resized) /\ i # slot
      BY <1>3, <1>7
    <3> QED BY <1>5, <2>2, <3>2, <3>3, <3>4
  <2> QED BY <1>6, <2>1, <2>2
<1>10. TypeOK'
  <2>1. notified' \in Seq(Nat)
    BY NotifyType DEF GetOne
  <2> QED BY <1>1, <1>4, <1>9, <2>1 DEF TypeOK
<1>11. ProgressOK'
  BY <1>1, <1>4 DEF ProgressOK, Idle
<1>12. ResponseOK'
  <2>1. ASSUME adapter.failedRead # "unnoticed", NEW i \in 1 .. Completed + 1
        PROVE  blocks[locations[i]] # Absent /\ raws'[i] = blocks[locations[i]]
    <3>1. CASE i \in 1 .. Completed
      BY <1>1, <1>9, <2>1, <3>1 DEF ResponseOK
    <3>2. CASE i = Completed + 1
      BY <1>8, <1>9, <2>1, <3>2
    <3> QED BY <1>3, <3>1, <3>2
  <2>2. Len(raws') = IF done' > 0 THEN pointer' + Len(Part)' ELSE Completed'
    BY <1>4, <1>9
  <2> QED BY <1>1, <1>4, <2>1, <2>2 DEF ResponseOK
<1> QED BY <1>10, <1>11, <1>12

\* What is in the part in work can be written.
LEMMA WrittenType ==
  ASSUME AdapterInv, pc = "set", MoreToDo
  PROVE  /\ PartWritten \in [Locations -> Buckets \cup {Absent}]
         /\ OneWritten \in [Locations -> Buckets \cup {Absent}]
<1> USE DEF AdapterInv
<1>1. /\ Len(Part) \in 1 .. Len(locations) - pointer /\ DOMAIN Part = 1 .. Len(Part)
      /\ pointer \in Nat /\ done \in Nat /\ done < Len(Part) /\ Len(locations) \in Nat
  BY PartFacts, CompletedFacts DEF TypeOK
<1>2. \A i \in 1 .. Len(Part) : writes[pointer + i] \in Buckets
  <2>1. Len(writes) = Len(locations) /\ writes \in Seq(Buckets)
    BY DEF ProgressOK, TypeOK
  <2>2. \A i \in 1 .. Len(Part) : pointer + i \in 1 .. Len(writes)
    BY <1>1, <2>1
  <2> QED BY <2>1, <2>2, ElementOfSeq
<1>3. ASSUME NEW l \in Locations PROVE PartWritten[l] \in Buckets \cup {Absent}
  <2> DEFINE at == {i \in DOMAIN Part : Part[i] = l}
             last == CHOOSE i \in at : \A j \in at : j <= i
  <2>1. CASE at = {}
    BY <2>1 DEF PartWritten, TypeOK
  <2>2. CASE at # {}
    <3>1. at \in SUBSET (1 .. Len(Part)) /\ Len(Part) \in Nat
      BY <1>1
    <3>2. \E i \in at : \A j \in at : j <= i
      <4> HIDE DEF at
      <4> QED BY <2>2, <3>1, LastExists
    <3>3. last \in at
      <4> HIDE DEF at
      <4> QED BY <3>2
    <3>4. last \in 1 .. Len(Part)
      BY <3>1, <3>3
    <3>5. PartWritten[l] = writes[pointer + last]
      BY <2>2 DEF PartWritten
    <3> HIDE DEF last
    <3> QED BY <1>2, <3>4, <3>5
  <2> QED BY <2>1, <2>2
<1>4. PartWritten \in [Locations -> Buckets \cup {Absent}]
  <2>1. PartWritten = [l \in Locations |-> PartWritten[l]]
    BY DEF PartWritten
  <2> HIDE DEF PartWritten
  <2> QED BY <1>3, <2>1
<1>5. OneWritten \in [Locations -> Buckets \cup {Absent}]
  <2>1. done + 1 \in 1 .. Len(Part)
    BY <1>1
  <2>2. writes[pointer + done + 1] \in Buckets
    BY <1>1, <1>2, <2>1
  <2> QED BY <2>2 DEF OneWritten, TypeOK
<1> QED BY <1>4, <1>5

LEMMA SetKeepsInv ==
  ASSUME AdapterInv, SetBatch \/ SetOne
  PROVE  AdapterInv'
<1> USE DEF AdapterInv
<1>1. /\ pc = "set" /\ MoreToDo /\ UNCHANGED <<adapter, subscribed, pc, locations, writes, raws>>
  BY DEF SetBatch, SetOne
<1>2. blocks' \in [Locations -> Buckets \cup {Absent}]
  BY <1>1, WrittenType DEF SetBatch, SetOne, TypeOK
<1>3. Len(Part) \in Nat
  BY <1>1, PartFacts DEF TypeOK
<1>4. notified' \in Seq(Nat)
  BY <1>3, NotifyType DEF SetBatch, SetOne
<1>5. /\ pointer' \in Nat /\ done' \in Nat
      /\ done' > 0 => MoreToDo' /\ ~ InBatches' /\ done' < Len(Part)'
  <2>1. CASE SetBatch
    BY <1>1, <2>1, NextPartFacts DEF SetBatch
  <2>2. CASE SetOne
    BY <1>1, <2>2, NextBucketFacts DEF SetOne
  <2> QED BY <2>1, <2>2
<1>6. TypeOK'
  BY <1>1, <1>2, <1>4, <1>5 DEF TypeOK
<1>7. ProgressOK' /\ ResponseOK'
  BY <1>1, <1>5 DEF ProgressOK, ResponseOK, Idle
<1> QED BY <1>6, <1>7

LEMMA EndKeepsInv ==
  ASSUME AdapterInv, Return \/ Throws
  PROVE  AdapterInv'
<1> USE DEF AdapterInv
<1>1. \E outcome \in {"returned", "threw"} : End(outcome)
  BY DEF Return, Throws
<1>2. ProgressOK' /\ ResponseOK'
  BY <1>1 DEF End, ProgressOK, ResponseOK, Idle
<1>3. blocks' \in [Locations -> Buckets \cup {Absent}]
  BY WrittenType DEF Return, Throws, TypeOK
<1>4. notified' \in Seq(Nat)
  <2>1. Notify(0) \/ UNCHANGED notified
    BY DEF Return, Throws
  <2> QED BY <2>1, NotifyType DEF TypeOK
<1>5. raws' \in Seq(Buckets \cup IF adapter.failedRead = "unnoticed" THEN {Unread} ELSE {})
  <2>1. CASE Throws \/ pc # "get" \/ adapter.failedRead = "unnoticed"
    <3>1. Throws => \A S : raws' \in Seq(S)
      BY DEF Throws
    <3>2. Return => raws' = raws
      BY DEF Return
    <3> QED BY <2>1, <3>1, <3>2 DEF TypeOK
  <2>2. CASE Return /\ pc = "get" /\ adapter.failedRead # "unnoticed"
    <3>1. ~ MoreToDo /\ raws' = raws
      BY <2>2 DEF Return
    <3>2. Completed = Len(locations) /\ done = 0 /\ Len(raws) = Len(locations)
      BY <2>2, <3>1, CompletedFacts DEF ResponseOK
    <3>3. \A i \in 1 .. Len(raws) : raws[i] \in Buckets
      <4>1. \A i \in 1 .. Len(raws) : locations[i] \in Locations
        BY <3>2, ElementOfSeq DEF TypeOK
      <4> QED BY <2>2, <3>2, <4>1 DEF ResponseOK, TypeOK
    <3>4. raws \in [1 .. Len(raws) -> Buckets] /\ Len(raws) \in Nat
      BY <3>3, RawsType, LenProperties
    <3> QED BY <2>2, <3>1, <3>4
  <2> QED BY <2>1, <2>2
<1>6. TypeOK'
  <2>1. /\ locations' = <<>> /\ writes' = <<>> /\ pointer' = 0 /\ done' = 0
        /\ UNCHANGED <<adapter, subscribed>> /\ pc' \in {"returned", "threw"}
    BY <1>1 DEF End
  <2>2. \A S : <<>> \in Seq(S)
    OBVIOUS
  <2> QED BY <1>3, <1>4, <1>5, <2>1, <2>2 DEF TypeOK
<1> QED BY <1>2, <1>6

LEMMA CrashKeepsInv ==
  ASSUME AdapterInv, Crash
  PROVE  AdapterInv'
<1> USE DEF AdapterInv
<1>1. /\ pc' = "threw" /\ locations' = <<>> /\ writes' = <<>> /\ raws' = <<>>
      /\ notified' = <<>> /\ pointer' = 0 /\ done' = 0 /\ subscribed' = FALSE
      /\ UNCHANGED <<adapter, blocks>>
  BY DEF Crash
<1>2. \A S : <<>> \in Seq(S)
  OBVIOUS
<1>3. TypeOK'
  BY <1>1, <1>2 DEF TypeOK
<1> QED BY <1>1, <1>3 DEF ProgressOK, ResponseOK, Idle

LEMMA AdapterInvStep == AdapterInv /\ [Next]_vars => AdapterInv'
<1> SUFFICES ASSUME AdapterInv, [Next]_vars PROVE AdapterInv'
  OBVIOUS
<1>1. CASE UNCHANGED vars
  BY <1>1 DEF vars, AdapterInv, TypeOK, ProgressOK, ResponseOK, Idle, MoreToDo, InBatches,
     InBatchesOf, Part, Completed
<1>2. CASE Next
  BY <1>2, OperationKeepsInv, GetBatchKeepsInv, GetOneKeepsInv, SetKeepsInv, EndKeepsInv,
     CrashKeepsInv
     DEF Next, Progress
<1> QED BY <1>1, <1>2

\* A get that returns has filled its whole response with buckets the backend
\* has, in every backend that tells its errors.
THEOREM AnswersFilled == Spec => []TypeOK
<1>1. AdapterInv => TypeOK
  BY DEF AdapterInv
<1> QED BY AdapterInvInit, AdapterInvStep, <1>1, PTL DEF Spec

-----------------------------------------------------------------------------
(***************************************************************************)
(* The notifications.                                                      *)
(***************************************************************************)
\* One more notification extends the running totals by one.
LEMMA OneMoreTold ==
  ASSUME TypeOK, NotifiedOfAll, ~ Idle, Completed \in Nat,
         NEW size \in Nat, Notify(size), Completed' = Completed + size,
         adapter.batchLimit # 0 => size <= adapter.batchLimit,
         UNCHANGED <<adapter, subscribed>>
  PROVE  NotifiedOfAll'
<1> SUFFICES ASSUME subscribed PROVE NotifiedOfAll'
  BY DEF NotifiedOfAll
<1> DEFINE n == Len(notified)
<1>1. /\ notified \in Seq(Nat) /\ n \in Nat /\ DOMAIN notified = 1 .. n
      /\ notified' = Append(notified, size)
  BY DEF TypeOK, Notify
<1>2. /\ Len(notified') = n + 1 /\ DOMAIN notified' = 1 .. n + 1
      /\ notified'[n + 1] = size /\ \A i \in 1 .. n : notified'[i] = notified[i]
  BY <1>1
<1>3. PICK told \in [0 .. n -> 0 .. Completed] :
        /\ told[0] = 0 /\ told[n] = Completed
        /\ \A i \in 1 .. n : told[i] = told[i - 1] + notified[i]
  BY DEF NotifiedOfAll
<1>4. adapter.batchLimit # 0 => \A i \in 1 .. n : notified[i] <= adapter.batchLimit
  BY <1>1 DEF NotifiedOfAll
<1> HIDE DEF n
<1> DEFINE more == [i \in 0 .. n + 1 |-> IF i <= n THEN told[i] ELSE Completed']
<1>5. more \in [0 .. n + 1 -> 0 .. Completed']
  BY <1>1, <1>3
<1>6. more[0] = 0 /\ more[n + 1] = Completed'
  BY <1>1, <1>3
<1>7. ASSUME NEW i \in 1 .. n + 1 PROVE more[i] = more[i - 1] + notified'[i]
  <2>1. CASE i \in 1 .. n
    BY <1>1, <1>2, <1>3, <2>1
  <2>2. CASE i = n + 1
    BY <1>1, <1>2, <1>3, <2>2
  <2> QED BY <1>1, <2>1, <2>2
<1>8. adapter.batchLimit # 0 => \A i \in 1 .. n + 1 : notified'[i] <= adapter.batchLimit
  BY <1>1, <1>2, <1>4
<1> HIDE DEF more
<1>9. \E t \in [0 .. Len(notified') -> 0 .. Completed'] :
        /\ t[0] = 0 /\ t[Len(notified')] = Completed'
        /\ \A i \in 1 .. Len(notified') : t[i] = t[i - 1] + notified'[i]
  BY <1>2, <1>5, <1>6, <1>7
<1> QED BY <1>2, <1>8, <1>9 DEF NotifiedOfAll

LEMMA NotifiedStep ==
  ASSUME AdapterInv, NotifiedOfAll, [Next]_vars
  PROVE  NotifiedOfAll'
<1> USE DEF AdapterInv
<1>1. CASE Operation
  <2>1. CASE Idle'
    BY <2>1 DEF NotifiedOfAll
  <2>2. CASE ~ Idle'
    <3>1. ~ Subscribe /\ Idle
      BY <1>1, <2>2, OperationFacts DEF Subscribe, Idle
    <3>2. notified' = <<>> /\ pointer' = 0 /\ done' = 0 /\ locations' \in Seq(Locations)
      BY <1>1, <3>1, OperationFacts DEF ProgressOK
    <3>3. Completed' = 0 /\ Len(notified') = 0 /\ DOMAIN notified' = {}
      BY <3>2 DEF Completed
    <3> DEFINE told == [i \in 0 .. 0 |-> 0]
    <3>4. told \in [0 .. 0 -> 0 .. 0] /\ told[0] = 0 /\ 1 .. 0 = {}
      OBVIOUS
    <3> HIDE DEF told
    <3> QED BY <3>3, <3>4 DEF NotifiedOfAll
  <2> QED BY <2>1, <2>2
<1>2. CASE GetBatch \/ SetBatch
  <2>1. /\ ~ Idle /\ MoreToDo /\ done = 0 /\ NextPart /\ Notify(Len(Part))
        /\ UNCHANGED <<adapter, subscribed, pc, locations>>
    BY <1>2 DEF GetBatch, SetBatch, Idle, ProgressOK, TypeOK
  <2>2. Completed = pointer /\ pointer \in Nat /\ Completed' = pointer + Len(Part)
    BY <2>1, CompletedFacts, NextPartFacts DEF TypeOK
  <2>3. Len(Part) \in Nat /\ (adapter.batchLimit # 0 => Len(Part) <= adapter.batchLimit)
    BY <2>1, PartFacts DEF TypeOK
  <2> QED BY <2>1, <2>2, <2>3, OneMoreTold
<1>3. CASE GetOne \/ SetOne
  <2>1. /\ ~ Idle /\ MoreToDo /\ ~ InBatches /\ NextBucket /\ Notify(1)
        /\ UNCHANGED <<adapter, subscribed, pc, locations>>
    BY <1>3 DEF GetOne, SetOne, Idle
  <2>2. Completed \in Nat /\ Completed' = Completed + 1
    BY <2>1, CompletedFacts, NextBucketFacts
  <2>3. adapter.batchLimit # 0 => 1 <= adapter.batchLimit
    BY AdapterAssumption DEF TypeOK
  <2> QED BY <2>1, <2>2, <2>3, OneMoreTold
<1>4. CASE Return \/ Throws
  BY <1>4 DEF Return, Throws, End, Idle, NotifiedOfAll
<1>5. CASE Crash
  BY <1>5 DEF Crash, Idle, NotifiedOfAll
<1>6. CASE UNCHANGED vars
  BY <1>6 DEF vars, NotifiedOfAll, Idle, Completed
<1> QED BY <1>1, <1>2, <1>3, <1>4, <1>5, <1>6 DEF Next, Progress

\* Whoever subscribes is told of each bucket of a request once, part by part or
\* one by one, and of no part larger than the limit.
THEOREM SubscribersToldOfAll == Spec => []NotifiedOfAll
<1>1. Init => NotifiedOfAll
  BY DEF Init, NotifiedOfAll, Idle
<1>2. AdapterInv /\ NotifiedOfAll /\ [Next]_vars => NotifiedOfAll'
  BY NotifiedStep
<1> QED BY AdapterInvInit, AdapterInvStep, <1>1, <1>2, PTL DEF Spec

-----------------------------------------------------------------------------
(***************************************************************************)
(* Every step is a step of BucketStore or leaves it unchanged: a primitive *)
(* write is a write of the first of the pending pairs.                     *)
(***************************************************************************)
ErrorsTold == \A a \in Adapters : "unnoticed" \notin {a.failedRead, a.failedWrite}

LEMMA NothingPending ==
  ASSUME AdapterInv, pc # "set" \/ ~ MoreToDo
  PROVE  Pending = <<>>
<1>1. ~ MoreToDo => Completed = Len(locations) /\ Len(locations) \in Nat
  BY CompletedFacts DEF AdapterInv, TypeOK
<1>2. (IF pc = "set" THEN Len(locations) - Completed ELSE 0) = 0
  BY <1>1
<1> QED BY <1>2 DEF Pending

LEMMA PendingFacts ==
  ASSUME AdapterInv, pc = "set"
  PROVE  /\ Pending \in Seq(Locations \X Buckets)
         /\ Len(Pending) = Len(locations) - Completed
         /\ \A i \in 1 .. Len(locations) - Completed :
              Pending[i] = <<locations[Completed + i], writes[Completed + i]>>
<1> USE DEF AdapterInv
<1>1. /\ Completed \in Nat /\ Completed <= Len(locations) /\ Len(locations) \in Nat
      /\ Len(writes) = Len(locations)
  BY CompletedFacts DEF TypeOK, ProgressOK
<1> DEFINE rest == Len(locations) - Completed
<1>2. rest \in Nat
  BY <1>1
<1>3. Pending = [i \in 1 .. rest |-> <<locations[Completed + i], writes[Completed + i]>>]
  BY DEF Pending
<1>4. \A i \in 1 .. rest : <<locations[Completed + i], writes[Completed + i]>>
                             \in Locations \X Buckets
  <2> SUFFICES ASSUME NEW i \in 1 .. rest
               PROVE  /\ locations[Completed + i] \in Locations
                      /\ writes[Completed + i] \in Buckets
    OBVIOUS
  <2>1. Completed + i \in 1 .. Len(locations)
    BY <1>1
  <2> QED BY <1>1, <2>1, ElementOfSeq DEF TypeOK
<1> HIDE DEF rest
<1>5. Pending \in [1 .. rest -> Locations \X Buckets]
  BY <1>3, <1>4
<1>6. Pending \in Seq(Locations \X Buckets) /\ Len(Pending) = rest
  BY <1>2, <1>5
<1> QED BY <1>3, <1>6 DEF rest

LEMMA StillPending ==
  ASSUME AdapterInv, pc = "set", pc' = "set", UNCHANGED <<locations, writes>>,
         NEW n \in Nat \ {0}, n <= Len(locations) - Completed, Completed' = Completed + n
  PROVE  n \in 1 .. Len(Pending) /\ Pending' = SubSeq(Pending, n + 1, Len(Pending))
<1> DEFINE left == Len(locations) - (Completed + n)
<1>1. Completed \in Nat /\ Len(locations) \in Nat /\ left \in Nat
  BY CompletedFacts DEF AdapterInv, TypeOK
<1>2. /\ Pending \in Seq(Locations \X Buckets)
      /\ Len(Pending) = left + n
      /\ \A i \in 1 .. left + n :
           Pending[i] = <<locations[Completed + i], writes[Completed + i]>>
  BY <1>1, PendingFacts
<1>3. Pending' = [i \in 1 .. left |-> <<locations[Completed + n + i], writes[Completed + n + i]>>]
  BY DEF Pending
<1> HIDE DEF left
<1>4. \A i \in 1 .. left : n + i \in 1 .. left + n /\ Completed + (n + i) = Completed + n + i
  BY <1>1
<1>5. Pending' = [i \in 1 .. left |-> Pending[n + i]]
  BY <1>2, <1>3, <1>4
<1>6. \A i \in 1 .. left : Pending[n + i] \in Locations \X Buckets
  BY <1>2, <1>4, ElementOfSeq
<1>7. Pending' \in Seq(Locations \X Buckets) /\ Len(Pending') = left
  BY <1>1, <1>5, <1>6
<1> DEFINE rest == SubSeq(Pending, n + 1, left + n)
<1>8. rest \in Seq(Locations \X Buckets) /\ Len(rest) = left
      /\ \A i \in 1 .. left : rest[i] = Pending[n + i]
  <2> DEFINE from == n + 1
             to   == left + n
  <2>1. from \in Int /\ to \in Int /\ to - from + 1 = left
    BY <1>1
  <2>2. \A i \in from .. to : Pending[i] \in Locations \X Buckets
    BY <1>1, <1>2, ElementOfSeq
  <2>3. rest = SubSeq(Pending, from, to)
    OBVIOUS
  <2>4. \A i \in 1 .. left : from + i - 1 = n + i
    BY <1>1
  <2> HIDE DEF from, to, rest
  <2>5. /\ rest \in Seq(Locations \X Buckets)
        /\ Len(rest) = IF from <= to THEN to - from + 1 ELSE 0
        /\ \A i \in 1 .. to - from + 1 : rest[i] = Pending[from + i - 1]
    BY <2>1, <2>2, <2>3, SubSeqProperties
  <2>6. Len(rest) = left
    BY <1>1, <2>1, <2>5
  <2> QED BY <2>1, <2>4, <2>5, <2>6
<1> HIDE DEF rest
<1>9. Pending' = rest
  BY <1>5, <1>7, <1>8, SeqEqual
<1> QED BY <1>1, <1>2, <1>9 DEF rest

\* The first n of the pending pairs.
LEMMA FirstPending ==
  ASSUME AdapterInv, pc = "set", NEW n \in Nat \ {0}, n <= Len(locations) - Completed
  PROVE  LET first == SubSeq(Pending, 1, n)
         IN  /\ DOMAIN first = 1 .. n
             /\ \A i \in 1 .. n :
                  first[i] = <<locations[Completed + i], writes[Completed + i]>>
<1>1. Completed \in Nat /\ Len(locations) \in Nat
  BY CompletedFacts DEF AdapterInv, TypeOK
<1>2. /\ Pending \in Seq(Locations \X Buckets)
      /\ Len(Pending) = Len(locations) - Completed
      /\ \A i \in 1 .. Len(locations) - Completed :
           Pending[i] = <<locations[Completed + i], writes[Completed + i]>>
  BY PendingFacts
<1>3. \A i \in 1 .. n : i \in 1 .. Len(Pending) /\ Pending[i] \in Locations \X Buckets
  BY <1>1, <1>2, ElementOfSeq
<1> DEFINE first == SubSeq(Pending, 1, n)
<1>4. /\ first \in Seq(Locations \X Buckets)
      /\ Len(first) = n
      /\ \A i \in 1 .. n : first[i] = Pending[i]
  BY <1>3, SubSeqProperties
<1> HIDE DEF first
<1>5. DOMAIN first = 1 .. n
  BY <1>4, LenProperties
<1>6. \A i \in 1 .. n : first[i] = <<locations[Completed + i], writes[Completed + i]>>
  BY <1>1, <1>2, <1>3, <1>4
<1> QED BY <1>5, <1>6 DEF first

\* Writing a part in a batch is writing its pairs one after the other.
LEMMA PartWrittenIsWritten ==
  ASSUME AdapterInv, pc = "set", MoreToDo, InBatches
  PROVE  PartWritten = Store!Written(SubSeq(Pending, 1, Len(Part)))
<1> DEFINE n == Len(Part)
           first == SubSeq(Pending, 1, n)
<1>1. /\ n \in Nat \ {0} /\ n <= Len(locations) - Completed /\ Completed = pointer
      /\ DOMAIN Part = 1 .. n /\ \A i \in 1 .. n : Part[i] = locations[Completed + i]
  <2>1. done = 0 /\ pointer \in Nat /\ Len(locations) \in Nat
    BY DEF AdapterInv, ProgressOK, TypeOK
  <2>2. Completed = pointer
    BY <2>1, CompletedFacts DEF AdapterInv
  <2>3. /\ n \in 1 .. Len(locations) - pointer
        /\ DOMAIN Part = 1 .. n /\ \A i \in 1 .. n : Part[i] = locations[pointer + i]
    BY PartFacts DEF AdapterInv
  <2> HIDE DEF n
  <2> QED BY <2>1, <2>2, <2>3
<1>2. /\ DOMAIN first = 1 .. n
      /\ \A i \in 1 .. n : first[i] = <<locations[Completed + i], writes[Completed + i]>>
  BY <1>1, FirstPending
<1>3. ASSUME NEW l \in Locations
      PROVE  PartWritten[l] = Store!Written(first)[l]
  <2> DEFINE at == {i \in 1 .. n : locations[Completed + i] = l}
             last == CHOOSE i \in at : \A j \in at : j <= i
  <2>1. at = {i \in DOMAIN Part : Part[i] = l}
    BY <1>1
  <2>2. at = {i \in DOMAIN first : first[i][1] = l}
    <3> HIDE DEF first
    <3> QED BY <1>2
  <2> HIDE DEF at
  <2>3. PartWritten[l] = IF at = {} THEN blocks[l] ELSE writes[pointer + last]
    BY <2>1 DEF PartWritten
  <2>4. Store!Written(first)[l] = IF at = {} THEN blocks[l] ELSE first[last][2]
    <3> HIDE DEF first
    <3> QED BY <2>2 DEF Store!Written
  <2>5. at # {} => last \in 1 .. n
    <3>1. at \in SUBSET (1 .. n)
      BY DEF at
    <3>2. at # {} => \E i \in at : \A j \in at : j <= i
      BY <1>1, <3>1, LastExists
    <3> QED BY <3>1, <3>2
  <2>6. at # {} => first[last][2] = writes[pointer + last]
    <3> HIDE DEF first, last
    <3> QED BY <1>1, <1>2, <2>5
  <2> QED BY <2>3, <2>4, <2>6
<1> HIDE DEF first
<1>4. PartWritten = [l \in Locations |-> PartWritten[l]]
  BY DEF PartWritten
<1>5. Store!Written(first) = [l \in Locations |-> Store!Written(first)[l]]
  BY DEF Store!Written
<1>6. PartWritten = Store!Written(first)
  BY <1>3, <1>4, <1>5
<1> QED BY <1>6 DEF first

LEMMA OneWrittenIsWritten ==
  ASSUME AdapterInv, pc = "set", MoreToDo
  PROVE  OneWritten = Store!Written(SubSeq(Pending, 1, 1))
<1> DEFINE first == SubSeq(Pending, 1, 1)
<1>1. /\ 1 <= Len(locations) - Completed /\ Completed = pointer + done
      /\ Part[done + 1] = locations[Completed + 1] /\ Part[done + 1] \in Locations
      /\ pointer \in Nat /\ done \in Nat
  <2>1. pointer \in Nat /\ done \in Nat /\ Len(locations) \in Nat
    BY DEF AdapterInv, TypeOK
  <2>2. Completed = pointer + done /\ done < Len(Part)
    BY CompletedFacts DEF AdapterInv
  <2>3. /\ Len(Part) \in 1 .. Len(locations) - pointer
        /\ \A i \in 1 .. Len(Part) : Part[i] = locations[pointer + i] /\ Part[i] \in Locations
    BY PartFacts DEF AdapterInv
  <2>4. done + 1 \in 1 .. Len(Part) /\ Completed + 1 = pointer + (done + 1)
    BY <2>1, <2>2, <2>3
  <2> QED BY <2>1, <2>2, <2>3, <2>4
<1>2. DOMAIN first = 1 .. 1 /\ first[1] = <<locations[Completed + 1], writes[Completed + 1]>>
  BY <1>1, FirstPending
<1> HIDE DEF first
<1>3. ASSUME NEW l \in Locations
      PROVE  OneWritten[l] = Store!Written(first)[l]
  <2> DEFINE at == {i \in DOMAIN first : first[i][1] = l}
             last == CHOOSE i \in at : \A j \in at : j <= i
  <2>1. at = IF locations[Completed + 1] = l THEN {1} ELSE {}
    BY <1>2
  <2> HIDE DEF at
  <2>2. at = {1} => last = 1
    <3>1. at = {1} => (1 \in at /\ \A i \in at : i = 1)
      OBVIOUS
    <3>2. at = {1} => \E i \in at : \A j \in at : j <= i
      OBVIOUS
    <3> QED BY <3>1, <3>2
  <2>3. Store!Written(first)[l] = IF at = {} THEN blocks[l] ELSE first[last][2]
    BY DEF Store!Written, at
  <2> HIDE DEF last
  <2>4. OneWritten[l] = IF locations[Completed + 1] = l THEN writes[Completed + 1] ELSE blocks[l]
    BY <1>1 DEF OneWritten, AdapterInv, TypeOK
  <2> QED BY <1>2, <2>1, <2>2, <2>3, <2>4
<1>4. OneWritten = [l \in Locations |-> OneWritten[l]]
  BY WrittenType
<1>5. Store!Written(first) = [l \in Locations |-> Store!Written(first)[l]]
  BY DEF Store!Written
<1>6. OneWritten = Store!Written(first)
  BY <1>3, <1>4, <1>5
<1> QED BY <1>6 DEF first

LEMMA CallIsCall ==
  ASSUME AdapterInv, AdapterInv', Operation
  PROVE  Store!Get \/ Store!Set \/ Store!Refuse \/ UNCHANGED Store!vars
<1>1. /\ Idle /\ blocks' = blocks /\ pointer' = pointer /\ done' = done
      /\ locations' \in Seq(Locations)
      /\ \/ Subscribe /\ UNCHANGED <<pc, locations, writes, raws>>
         \/ /\ raws' = <<>>
            /\ \/ pc' = "threw" /\ UNCHANGED <<locations, writes>>
               \/ pc' = "get"
               \/ pc' = "set" /\ Len(writes') = Len(locations')
  BY OperationFacts
<1>2. Pending = <<>> /\ pc \notin {"get", "set"} /\ Store!Ended
  BY <1>1, NothingPending DEF Idle, Store!Ended
<1>3. CASE UNCHANGED <<pc, locations, writes, raws>>
  <2>1. Pending' = <<>>
    BY <1>1, <1>2, <1>3 DEF Pending
  <2> QED BY <1>1, <1>2, <1>3, <2>1 DEF Store!vars
<1>4. CASE raws' = <<>> /\ pc' \in {"threw", "get"}
  <2>1. Pending' = <<>>
    BY <1>4 DEF Pending
  <2> QED BY <1>1, <1>2, <1>4, <2>1 DEF Store!Get, Store!Refuse
<1>5. CASE raws' = <<>> /\ pc' = "set" /\ Len(writes') = Len(locations')
  <2>1. Pending' \in Seq(Locations \X Buckets)
    <3> DEFINE rest == Len(locations')
    <3>1. Completed' = 0
      BY <1>1 DEF Completed, AdapterInv, ProgressOK, TypeOK
    <3>2. Pending' = [i \in 1 .. rest |-> <<locations'[i], writes'[i]>>]
      BY <1>5, <3>1 DEF Pending
    <3>3. rest \in Nat /\ \A i \in 1 .. rest :
            locations'[i] \in Locations /\ writes'[i] \in Buckets
      BY <1>5, ElementOfSeq DEF AdapterInv, TypeOK
    <3> HIDE DEF rest
    <3> QED BY <3>2, <3>3
  <2> QED BY <1>1, <1>2, <1>5, <2>1 DEF Store!Set
<1> QED BY <1>1, <1>3, <1>4, <1>5

LEMMA GetIsInner ==
  ASSUME AdapterInv, GetBatch \/ GetOne
  PROVE  UNCHANGED Store!vars
<1>1. pc = "get" /\ UNCHANGED <<blocks, pc, locations>>
  BY DEF GetBatch, GetOne
<1>2. Pending = <<>> /\ Pending' = <<>>
  BY <1>1 DEF Pending
<1> QED BY <1>1, <1>2 DEF Store!vars

LEMMA SetIsWrite ==
  ASSUME AdapterInv, AdapterInv', ErrorsTold, SetBatch \/ SetOne
  PROVE  Store!Write
<1>1. /\ pc = "set" /\ pc' = "set" /\ MoreToDo /\ UNCHANGED <<locations, writes, raws>>
  BY DEF SetBatch, SetOne
<1>2. /\ pointer \in Nat /\ done \in Nat /\ Completed = pointer + done
      /\ Len(locations) \in Nat /\ Len(Part) \in 1 .. Len(locations) - pointer
      /\ done < Len(Part)
  BY <1>1, CompletedFacts, PartFacts DEF AdapterInv, TypeOK
<1>3. \E n \in Nat \ {0} :
        /\ n <= Len(locations) - Completed /\ Completed' = Completed + n
        /\ blocks' = Store!Written(SubSeq(Pending, 1, n))
  <2>1. CASE SetBatch
    <3>1. InBatches /\ done = 0 /\ blocks' = PartWritten
      BY <1>2, <2>1 DEF SetBatch, AdapterInv, ProgressOK
    <3>2. Completed' = pointer + Len(Part)
      BY <1>1, <2>1, NextPartFacts DEF SetBatch, AdapterInv
    <3>3. blocks' = Store!Written(SubSeq(Pending, 1, Len(Part)))
      BY <1>1, <3>1, PartWrittenIsWritten
    <3>4. Len(Part) \in Nat \ {0} /\ Len(Part) <= Len(locations) - Completed
          /\ Completed' = Completed + Len(Part)
      BY <1>2, <3>1, <3>2
    <3> QED BY <3>3, <3>4
  <2>2. CASE SetOne
    <3>1. blocks' = OneWritten
      BY <2>2 DEF SetOne, ErrorsTold, AdapterInv, TypeOK
    <3>2. Completed' = Completed + 1
      BY <1>1, <2>2, NextBucketFacts DEF SetOne, AdapterInv
    <3>3. blocks' = Store!Written(SubSeq(Pending, 1, 1))
      BY <1>1, <3>1, OneWrittenIsWritten
    <3>4. 1 <= Len(locations) - Completed
      BY <1>2
    <3> QED BY <3>2, <3>3, <3>4
  <2> QED BY <2>1, <2>2
<1>4. PICK n \in Nat \ {0} :
        /\ n <= Len(locations) - Completed /\ Completed' = Completed + n
        /\ blocks' = Store!Written(SubSeq(Pending, 1, n))
  BY <1>3
<1>5. n \in 1 .. Len(Pending) /\ Pending' = SubSeq(Pending, n + 1, Len(Pending))
  BY <1>1, <1>4, StillPending
<1> QED BY <1>1, <1>4, <1>5 DEF Store!Write

LEMMA ReturnAnswers ==
  ASSUME AdapterInv, ErrorsTold, Return
  PROVE  Store!Return
<1> USE DEF AdapterInv
<1>1. /\ pc \in {"get", "set"} /\ pc' = "returned" /\ ~ MoreToDo
      /\ blocks' = blocks /\ raws' = raws
  BY DEF Return, End, Idle, TypeOK
<1>2. Pending = <<>> /\ Pending' = <<>>
  <2>1. Pending' = <<>>
    BY <1>1 DEF Pending
  <2> QED BY <1>1, <2>1, NothingPending
<1>3. CASE pc = "get"
  <2>1. Completed = Len(locations) /\ Len(raws) = Len(locations)
        /\ DOMAIN locations = 1 .. Len(locations)
    BY <1>1, <1>3, CompletedFacts DEF ResponseOK, TypeOK
  <2>2. \A i \in DOMAIN locations :
          blocks[locations[i]] # Absent /\ raws[i] = blocks[locations[i]]
    BY <1>3, <2>1 DEF ResponseOK, ErrorsTold, TypeOK
  <2>3. raws = [i \in DOMAIN locations |-> blocks[locations[i]]]
    <3>1. raws = [i \in 1 .. Len(raws) |-> raws[i]]
      BY RawsType, LenProperties
    <3> QED BY <2>1, <2>2, <3>1
  <2> QED BY <1>1, <1>2, <1>3, <2>2, <2>3 DEF Store!Return, Store!Ended
<1>4. CASE pc = "set"
  <2>1. raws = <<>>
    BY <1>4 DEF ProgressOK
  <2>2. [i \in DOMAIN <<>> |-> blocks[<<>>[i]]] = <<>>
    OBVIOUS
  <2> QED BY <1>1, <1>2, <1>4, <2>1, <2>2 DEF Store!Return, Store!Ended
<1> QED BY <1>1, <1>3, <1>4

LEMMA ThrowLeavesFirst ==
  ASSUME AdapterInv, Throws
  PROVE  Store!Throw
<1> USE DEF AdapterInv
<1>1. pc \in {"get", "set"} /\ pc' = "threw" /\ raws' = <<>>
  BY DEF Throws, End, Idle, TypeOK
<1>2. Pending' = <<>>
  BY <1>1 DEF Pending
<1>3. pc = "set" => raws = <<>>
  BY DEF ProgressOK
<1>4. \E n \in 0 .. Len(Pending) : blocks' = Store!Written(SubSeq(Pending, 1, n))
  <2>1. CASE UNCHANGED blocks
    <3>1. SubSeq(Pending, 1, 0) = <<>>
      BY SubSeqEmpty
    <3>2. Store!Written(<<>>) = blocks
      <4>1. DOMAIN <<>> = {}
        OBVIOUS
      <4>2. Store!Written(<<>>) = [l \in Locations |-> blocks[l]]
        BY <4>1 DEF Store!Written
      <4> QED BY <4>2 DEF TypeOK
    <3>3. Len(Pending) \in Nat
      <4>1. CASE pc = "set"
        BY <4>1, PendingFacts
      <4>2. CASE pc # "set"
        BY <4>2, NothingPending
      <4> QED BY <4>1, <4>2
    <3>4. blocks' = Store!Written(SubSeq(Pending, 1, 0))
      BY <2>1, <3>1, <3>2
    <3>5. 0 \in 0 .. Len(Pending)
      BY <3>3
    <3> QED BY <3>4, <3>5
  <2>2. CASE pc = "set" /\ MoreToDo /\ blocks' = IF InBatches THEN PartWritten ELSE OneWritten
    <3>1. /\ pointer \in Nat /\ done \in Nat /\ Completed = pointer + done
          /\ Len(locations) \in Nat /\ Len(Part) \in 1 .. Len(locations) - pointer
          /\ done < Len(Part) /\ (InBatches => done = 0)
      BY <2>2, CompletedFacts, PartFacts DEF ProgressOK, TypeOK
    <3>2. Len(Pending) = Len(locations) - Completed
      BY <2>2, PendingFacts
    <3>3. CASE InBatches
      <4>1. Len(Part) \in 0 .. Len(Pending)
        BY <3>1, <3>2, <3>3
      <4> QED BY <2>2, <3>3, <4>1, PartWrittenIsWritten
    <3>4. CASE ~ InBatches
      <4>1. 1 \in 0 .. Len(Pending)
        BY <3>1, <3>2
      <4> QED BY <2>2, <3>4, <4>1, OneWrittenIsWritten
    <3> QED BY <3>3, <3>4
  <2> QED BY <2>1, <2>2 DEF Throws
<1> QED BY <1>1, <1>2, <1>3, <1>4 DEF Store!Throw, Store!Ended

LEMMA CrashLeavesAll ==
  ASSUME AdapterInv, Crash
  PROVE  Store!Throw
<1> USE DEF AdapterInv
<1>1. pc = "get" /\ pc' = "threw" /\ raws' = <<>> /\ blocks' = blocks
  BY DEF Crash
<1>2. Pending = <<>> /\ Pending' = <<>>
  BY <1>1 DEF Pending
<1>3. Store!Written(SubSeq(Pending, 1, 0)) = blocks
  <2>1. SubSeq(Pending, 1, 0) = <<>> /\ DOMAIN <<>> = {}
    BY <1>2
  <2>2. Store!Written(<<>>) = [l \in Locations |-> blocks[l]]
    BY <2>1 DEF Store!Written
  <2> QED BY <2>1, <2>2 DEF TypeOK
<1>4. 0 \in 0 .. Len(Pending)
  BY <1>2
<1> QED BY <1>1, <1>2, <1>3, <1>4 DEF Store!Throw, Store!Ended

LEMMA AdapterStep ==
  ASSUME ErrorsTold, AdapterInv, AdapterInv', [Next]_vars
  PROVE  [Store!Next]_Store!vars
<1>1. CASE Operation
  BY <1>1, CallIsCall DEF Store!Next
<1>2. CASE GetBatch \/ GetOne
  BY <1>2, GetIsInner
<1>3. CASE SetBatch \/ SetOne
  BY <1>3, SetIsWrite DEF Store!Next
<1>4. CASE Return
  BY <1>4, ReturnAnswers DEF Store!Next
<1>5. CASE Throws
  BY <1>5, ThrowLeavesFirst DEF Store!Next
<1>6. CASE Crash
  BY <1>6, CrashLeavesAll DEF Store!Next
<1>7. CASE UNCHANGED vars
  <2>1. Pending' = Pending
    BY <1>7 DEF vars, Pending, Completed
  <2> QED BY <1>7, <2>1 DEF vars, Store!vars
<1> QED BY <1>1, <1>2, <1>3, <1>4, <1>5, <1>6, <1>7 DEF Next, Progress

LEMMA StoreInit == Init => Store!Init
<1> SUFFICES ASSUME Init PROVE Store!Init
  OBVIOUS
<1>1. Pending = <<>>
  BY DEF Init, Pending
<1>2. blocks \in [Locations -> Buckets \cup {Absent}]
  BY AdapterAssumption DEF Init
<1> QED BY <1>1, <1>2 DEF Init, Store!Init

\* Over a backend that tells its errors the adapter is a store of buckets,
\* however requests are cut into parts: a get answers with the buckets at its
\* locations, a set writes its pairs in order, one that throws the first of them.
THEOREM AdapterRefinement ==
  ASSUME ErrorsTold PROVE Spec => ImplementsBucketStore
<1>1. AdapterInv /\ AdapterInv' /\ [Next]_vars => [Store!Next]_Store!vars
  BY AdapterStep
<1> QED
  BY AdapterInvInit, AdapterInvStep, StoreInit, <1>1, PTL
     DEF Spec, ImplementsBucketStore, Store!Spec
=============================================================================
