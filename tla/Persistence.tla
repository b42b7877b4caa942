---------------------------- MODULE Persistence ----------------------------
(***************************************************************************)
(* Restarts.  The application stores the in-memory position map and stash  *)
(* in files (storeToFile of position-map-adapter.cpp and                   *)
(* stash-adapter.cpp) while the bucket storage outlives the client.  A     *)
(* restart makes a client that is not initialised and loads both files;    *)
(* the cache is gone.                                                      *)
(*                                                                         *)
(* A server has a bucket when set returns.  A storage that is a file of    *)
(* the client is written through a stream that is never flushed: the last  *)
(* bucket of an upload may stay in the buffer of the stream until its next *)
(* seek, or until the adapter is destroyed, and is lost with a client that *)
(* is killed.                                                              *)
(*                                                                         *)
(* The state of a file stream is never looked at: a store may return       *)
(* having written a part of its file, and a load of such a file leaves the *)
(* rest of the memory as it is.  A record cut in the middle is left out.   *)
(***************************************************************************)
EXTENDS PathORAMContract

CONSTANTS
  FilesMayFail,    \* can a write to a file end early (a disk is full)?
  LateFlush        \* is the storage a file, of which a bucket may be buffered?

\* A file stream as a storage reports no failure.
ASSUME FilesAssumption ==
  /\ {FilesMayFail, LateFlush} \subseteq BOOLEAN
  /\ Uninitialised # {}
  /\ ~ (LateFlush /\ StorageMayFail)

VARIABLES
  disk,        \* what of the storage is there for another process
  mapFile,     \* the position map as stored: the positions that were written
  stashFile,   \* the stash as stored: the records that were written
  unsaved,     \* (history) blocks a restart may not bring back
  stored       \* (history) the files stored in full since the last call

durableVars == <<vars, disk, mapFile, stashFile, unsaved, stored>>

Files == {"map", "stash"}

CopiesIn(blocks, id) == {block \in blocks : block.id = id}

\* The constructor has run and both files were stored.  The storage was filled
\* with dummies twice, so a bucket that is still buffered changes nothing.
DurableInit ==
  /\ Init
  /\ disk = storage
  /\ mapFile = position
  /\ stashFile = stash
  /\ unsaved = {}
  /\ stored = Files

-----------------------------------------------------------------------------
\* The files and the storage do not hold the block as the client does.
Differs(id) ==
  \/ id \notin DOMAIN mapFile
  \/ mapFile[id] # position[id]
  \/ CopiesIn(stashFile, id) # CopiesIn(stash, id)
  \/ \E l \in DOMAIN cache : CopiesIn(cache[l], id) # CopiesIn(storage[l], id)

Record(file, inFull) ==
  /\ stored' = IF inFull THEN stored \cup {file} ELSE stored \ {file}
  /\ unsaved' = stranded \cup {id \in MappedIds : Differs(id)'}

\* The cells are written in order of the ids.
StoreMap ==
  /\ Idle
  /\ UNCHANGED <<vars, disk>>
  /\ \E length \in 0 .. MapCapacity :
       /\ ~ FilesMayFail => length = MapCapacity
       /\ mapFile' = [id \in {i \in MappedIds : i < length} |-> position[id]]
       /\ stashFile' = stashFile
       /\ Record("map", DOMAIN mapFile' = MappedIds)

\* Mutant: the size is compared with 1, and a stash of one block is not written.
RecordsOfMany == IF Cardinality(stash) > 1 THEN stash ELSE {}

Records == stash

\* The records are written in any order.
StoreStash ==
  /\ Idle
  /\ UNCHANGED <<vars, disk>>
  /\ \E written \in SUBSET Records :
       /\ ~ FilesMayFail => written = Records
       /\ stashFile' = written /\ mapFile' = mapFile
       /\ Record("stash", written = Records)

\* Mutant: the file is not read.
UnloadedMap(garbage) == garbage

\* The new map is not initialised memory before the file is read into it.
LoadedMap(garbage) ==
  [id \in MappedIds |-> IF id \in DOMAIN mapFile THEN mapFile[id] ELSE garbage[id]]

\* storeToFile takes the payload size of one block for all of them, and
\* loadFromFile is given the block size: what it makes of other files is not modelled.
Readable(file) == \A block \in file : block.data.size = BlockSize

\* A new client loads the files.
Reload ==
  /\ Readable(stashFile)
  /\ \E garbage \in [MappedIds -> Uninitialised] : position' = LoadedMap(garbage)
  /\ stash' = stashFile
  /\ cache' = NoCache
  /\ End("returned")
  /\ stranded' = unsaved'
  /\ disk' = storage'
  /\ UNCHANGED <<mapFile, stashFile, stored>>

-----------------------------------------------------------------------------
(***************************************************************************)
(* What is there of the storage if the client is killed now.               *)
(***************************************************************************)
Uploads   == pc = "sync" /\ Accepted /\ DOMAIN cache # {}
Downloads == ~ (DOMAIN cache' \subseteq DOMAIN cache)

\* Each bucket goes out when the stream seeks to the next; one is the last.
WriteBuckets ==
  /\ Uploads
  /\ \/ disk' = storage'
     \/ \E last \in DOMAIN cache : disk' = [storage' EXCEPT ![last] = storage[last]]

\* So does the bucket that is left when the next call seeks to read.
ReadBuckets == Downloads /\ disk' = storage

Flush ==
  IF LateFlush
  THEN \/ WriteBuckets
       \/ ReadBuckets
       \/ ~ Uploads /\ ~ Downloads /\ disk' = disk
  ELSE disk' = storage'

-----------------------------------------------------------------------------
\* The blocks an upload adds to a bucket of the storage, takes from it or changes.
Moved ==
  {id \in MappedIds :
     \E l \in Locations : CopiesIn(storage[l], id) # CopiesIn(storage'[l], id)}

\* The client is gone, wherever it was.  The destructor of the storage closes
\* the file; a client that is killed does not come to it.
Restart ==
  /\ storage' \in {storage, disk}
  /\ unsaved' = unsaved \cup Moved
  /\ Reload

\* The client is gone in the middle of an upload.
CrashInSync ==
  /\ pc = "sync"
  /\ Accepted
  /\ \E written \in SUBSET DOMAIN cache :
       storage' = [l \in Locations |->
                     IF l \in written THEN PadAll(cache[l]) ELSE storage[l]]
  /\ unsaved' = unsaved \cup Moved
  /\ Reload

Operate ==
  /\ Next
  /\ Flush
  /\ stored' = {}
  /\ unsaved' = unsaved \cup Moved
  /\ UNCHANGED <<mapFile, stashFile>>

DurableNext == Operate \/ StoreMap \/ StoreStash \/ Restart \/ CrashInSync

DurableSpec == DurableInit /\ [][DurableNext]_durableVars

-----------------------------------------------------------------------------
(***************************************************************************)
(* Properties.                                                             *)
(***************************************************************************)

InStorage(id) == {block \in UNION {storage[l] : l \in Locations} : block.id = id}

\* What a restarted client would read.
Recovered(id) ==
  LET inFile == CopiesIn(stashFile, id)
      inTree == InStorage(id)
  IN  IF inFile # {} THEN (CHOOSE block \in inFile : TRUE).data
      ELSE IF inTree # {} THEN (CHOOSE block \in inTree : TRUE).data
      ELSE EmptyPayload

\* The blocks of the bucket that is not in the file yet.
Buffered ==
  {id \in MappedIds :
     \E l \in Locations : CopiesIn(disk[l], id) # CopiesIn(storage[l], id)}

Durable == INSTANCE DurableBlockStore WITH
  Slack <- IF LateFlush THEN 2 * Z ELSE 0,
  buffered <- Buffered,
  BlockIds <- MappedIds, Requests <- Request, Payloads <- Payload,
  Empty <- Nothing, Pad <- Padded,
  contents <- Contents, answers <- response,
  state <- IF Idle THEN pc ELSE "running",
  saved <- [id \in MappedIds |-> IF id \in unsaved THEN Lost ELSE Padded(Recovered(id))]

\* A restart at any point of any call brings back every block as it was when
\* the files were stored, but for the blocks an upload has moved since; after
\* both files were stored and no call ran, it brings back everything.  A kill
\* can also lose the blocks of the bucket that a file storage has buffered
\* (storage-adapter.cpp:428-435): at most 2 Z, and none once a call has
\* answered a request.
ImplementsDurableBlockStore == Durable!DurableSpec
=============================================================================
