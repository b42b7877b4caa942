-------------------------- MODULE DurableBlockStore --------------------------
(***************************************************************************)
(* BlockStore across restarts.  The application stores the position map    *)
(* and the stash in files; a restart brings back the table as the files    *)
(* and the storage hold it.  Of the last upload a few blocks may still be  *)
(* in a buffer of the client, for a kill to lose.                          *)
(***************************************************************************)
EXTENDS BlockStore, FiniteSets

CONSTANTS
  Files,            \* the files a restart reads
  Slack             \* the most blocks a buffer of the client can hold back

VARIABLES
  saved,            \* the table a restart would bring back
  stored,           \* the files stored in full since the last call
  buffered          \* the blocks of saved that only an orderly end keeps

DurableInit ==
  /\ Init
  /\ saved = contents
  /\ stored = Files
  /\ buffered = {}

\* Of each block a restart knows what this table says, or nothing.
AtMost(table) == \A id \in BlockIds : saved'[id] \in {table[id], Lost}

Uploads == state = "running" /\ ~ Unserved /\ state' # "running"

\* A call that has not come to its upload leaves what was saved as it is, and
\* a restart undoes the call as a whole.  An upload may move any block.  Nothing
\* is answered before the buffer is empty.
Operate ==
  /\ Next
  /\ stored' = {}
  /\ IF Uploads
     THEN AtMost(saved) /\ Cardinality(buffered') <= Slack
     ELSE saved' = saved /\ buffered' \in {buffered, {}}
  /\ answers' # <<>> => buffered' = {}

\* What is buffered goes out with the first read of a call.
Drain ==
  /\ state = "running"
  /\ buffered' = {}
  /\ UNCHANGED <<vars, saved, stored>>

\* Once both files are stored after a call that returned, all is saved, to be
\* lost, for the buffered blocks, by a kill only.
Store(file) ==
  /\ Ended
  /\ stored' = stored \cup {file}
  /\ IF stored' = Files /\ state = "returned" THEN saved' = contents
                                              ELSE AtMost(contents)
  /\ UNCHANGED <<vars, buffered>>

StoreInPart(file) ==
  /\ Ended
  /\ stored' = stored \ {file}
  /\ AtMost(contents)
  /\ UNCHANGED <<vars, buffered>>

Reload ==
  /\ state' = "returned"
  /\ requests' = <<>>
  /\ answers' = <<>>
  /\ contents' = saved'
  /\ buffered' = {}
  /\ UNCHANGED stored

\* An orderly end or a kill.
Restart ==
  /\ Reload
  /\ \A id \in BlockIds :
       saved'[id] \in {saved[id]} \cup (IF id \in buffered THEN {Lost} ELSE {})

\* The client is gone in the middle of an upload.
CrashInUpload ==
  /\ state = "running" /\ ~ Unserved
  /\ Reload
  /\ AtMost(saved)

DurableNext ==
  \/ Operate \/ Drain
  \/ \E file \in Files : Store(file) \/ StoreInPart(file)
  \/ Restart \/ CrashInUpload

DurableSpec == DurableInit /\ [][DurableNext]_<<vars, saved, stored, buffered>>
=============================================================================
