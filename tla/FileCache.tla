------------------------------ MODULE FileCache ------------------------------
(***************************************************************************)
(* One entry of the file cache under concurrent Store and Load calls, I/O  *)
(* errors, killed processes and power loss (src/execution/cache.go: Load   *)
(* and Store; src/internal/fsutil/fsutil.go: AtomicWrite, SyncDirectory).  *)
(*                                                                         *)
(* The file system is what POSIX promises, no more: written data survive a *)
(* power loss once the file is synced, a rename once its directory is, a   *)
(* new directory once its parent is.  Before that either state may be      *)
(* found.  A killed process loses nothing that was written.                *)
(***************************************************************************)
EXTENDS Integers, FiniteSets

CONSTANTS Writers,      \* concurrent Store calls for the key
          Readers,      \* concurrent Load calls for the key
          ShardExists,  \* whether the entry's directory, named after the first two
                        \* characters of the key, is on disk beforehand
          MaxLives,     \* bound on the number of processes, one after the other
          None          \* no file

\* A file is named after the Store call that created it.
Files == (1 .. MaxLives) \X Writers

ASSUME FileCacheAssumption ==
    /\ ShardExists \in BOOLEAN
    /\ MaxLives \in Nat \ {0}
    /\ None \notin Files /\ None # <<"corrupt">>

VARIABLES
    life,     \* number of the current process
    pc,       \* pc[w]: where Store call w stands
    written,  \* the files whose data are complete
    synced,   \* the files whose data are on disk
    entry,    \* the file at the entry's path, or None
    onDisk,   \* what may be at the path after a power loss
    acked,    \* whether a Store has returned nil, ever
    loading,  \* loading[r]: "idle", "found" (stat succeeded) or "done"
    loaded    \* loaded[r]: what Load returned: a file, None (a miss) or "corrupt"

fileCacheVars == <<life, pc, written, synced, entry, onDisk, acked, loading, loaded>>

fileVars == <<written, synced, entry, onDisk>>
readVars == <<loading, loaded>>

File(w) == <<life, w>>
Goto(w, label) == pc' = [pc EXCEPT ![w] = label]
------------------------------------------------------------------------------
(* Store and AtomicWrite                                                     *)

\* MkdirAll, CreateTemp and Chmod.
Create(w) ==
    /\ pc[w] = "idle"
    /\ Goto(w, "write")
    /\ UNCHANGED <<life, fileVars, acked, readVars>>

\* Mutation of Write: a short write is not noticed.
WriteUnchecked(w) ==
    /\ pc[w] = "write"
    /\ written' \in {written, written \cup {File(w)}}
    /\ Goto(w, "sync")
    /\ UNCHANGED <<life, synced, entry, onDisk, acked, readVars>>

\* Write the envelope to the temporary file.
Write(w) ==
    /\ pc[w] = "write"
    /\ written' = written \cup {File(w)}
    /\ Goto(w, "sync")
    /\ UNCHANGED <<life, synced, entry, onDisk, acked, readVars>>

\* Mutation of SyncFile: the temporary file is only closed.
SyncFileNot(w) ==
    /\ pc[w] = "sync"
    /\ Goto(w, "rename")
    /\ UNCHANGED <<life, fileVars, acked, readVars>>

\* Sync the temporary file.
SyncFile(w) ==
    /\ pc[w] = "sync"
    /\ synced' = synced \cup {File(w)}
    /\ Goto(w, "rename")
    /\ UNCHANGED <<life, written, entry, onDisk, acked, readVars>>

\* Rename over the entry's path: visible at once, on disk perhaps.
Rename(w) ==
    /\ pc[w] = "rename"
    /\ entry' = File(w)
    /\ onDisk' = onDisk \cup {File(w)}
    /\ Goto(w, "syncdir")
    /\ UNCHANGED <<life, written, synced, acked, readVars>>

\* Mutation of SyncDir: Store returns when the rename is done.
SyncDirNot(w) ==
    /\ pc[w] = "syncdir"
    /\ acked' = TRUE
    /\ Goto(w, "returned")
    /\ UNCHANGED <<life, fileVars, readVars>>

\* SyncDirectory settles what the path holds, if the directory itself is on
\* disk: nothing ever syncs the parent of a directory that MkdirAll created.
SyncDir(w) ==
    /\ pc[w] = "syncdir"
    /\ onDisk' = IF ShardExists THEN {entry} ELSE {entry, None}
    /\ acked' = TRUE
    /\ Goto(w, "returned")
    /\ UNCHANGED <<life, written, synced, entry, readVars>>

\* A system call fails, or the context is done before the rename: Store returns
\* an error and the temporary file is removed.
StoreFails(w) ==
    /\ pc[w] \in {"idle", "write", "sync", "rename", "syncdir"}
    /\ Goto(w, "failed")
    /\ UNCHANGED <<life, fileVars, acked, readVars>>
------------------------------------------------------------------------------
(* Load                                                                      *)

\* os.Stat: a missing file is a miss.
Stat(r) ==
    /\ loading[r] = "idle"
    /\ loading' = [loading EXCEPT ![r] = IF entry = None THEN "done" ELSE "found"]
    /\ UNCHANGED <<life, pc, fileVars, acked, loaded>>

\* ReadFile and the validation of the envelope; the file may be another one by
\* now.  A file without its data does not validate.
Read(r) ==
    /\ loading[r] = "found"
    /\ loading' = [loading EXCEPT ![r] = "done"]
    /\ loaded' = [loaded EXCEPT ![r] = IF entry \in written THEN entry ELSE <<"corrupt">>]
    /\ UNCHANGED <<life, pc, fileVars, acked>>
------------------------------------------------------------------------------
(* Processes and power                                                       *)

Fresh ==
    /\ life < MaxLives
    /\ life' = life + 1
    /\ pc' = [w \in Writers |-> "idle"]
    /\ loading' = [r \in Readers |-> "idle"]
    /\ loaded' = [r \in Readers |-> None]

\* The process is killed, or ends, and another one starts.
Killed ==
    /\ Fresh
    /\ UNCHANGED <<fileVars, acked>>

\* The machine loses power: the path holds one of the files it may hold, and
\* files that were never synced may have lost their data.
PowerLoss ==
    /\ Fresh
    /\ entry' \in onDisk
    /\ onDisk' = {entry'}
    /\ \E lost \in SUBSET (written \ synced) : written' = written \ lost
    /\ synced' = written'
    /\ UNCHANGED acked
------------------------------------------------------------------------------

FileInit ==
    /\ life = 1
    /\ pc = [w \in Writers |-> "idle"]
    /\ written = {}
    /\ synced = {}
    /\ entry = None
    /\ onDisk = {None}
    /\ acked = FALSE
    /\ loading = [r \in Readers |-> "idle"]
    /\ loaded = [r \in Readers |-> None]

StoreStep(w) ==
    \/ Create(w) \/ Write(w) \/ SyncFile(w) \/ Rename(w) \/ SyncDir(w) \/ StoreFails(w)

FileNext ==
    \/ \E w \in Writers : StoreStep(w)
    \/ \E r \in Readers : Stat(r) \/ Read(r)
    \/ Killed \/ PowerLoss
------------------------------------------------------------------------------
(* Properties                                                                *)

\* A Load never finds a torn entry: whatever Store calls were under way, failed
\* or were cut off by a kill or a power loss, what is at the path is complete
\* (FileCache.Load would fail the run with ErrCorruptCache).
NeverCorrupt == \A r \in Readers : loaded[r] # <<"corrupt">>

\* A Store that returned nil, into a directory that was on disk beforehand, is
\* for good: no later Store, failure, kill or power loss leaves the path without
\* a complete entry.  The condition is needed: AtomicWrite creates the directory
\* of a key's first two characters with MkdirAll and never syncs its parent
\* (src/internal/fsutil/fsutil.go:39), so the entries stored in a new one may
\* all be gone after a power loss, although NewFileCache "creates a durable item
\* cache" (src/execution/cache.go:100).  Even then none is torn.
AcknowledgedIsDurable ==
    acked => /\ onDisk \subseteq synced \cup {None}
             /\ ShardExists => None \notin onDisk
==============================================================================
