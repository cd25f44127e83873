----------------------------- MODULE CacheProofs -----------------------------
(***************************************************************************)
(* Proofs about both caches: the file cache survives kills and power       *)
(* losses, the migration of the MySQL cache survives interruptions and     *)
(* races, and both implement CacheContract, for any Store and Load calls,  *)
(* processes, tables and any database they find.                           *)
(***************************************************************************)
EXTENDS CacheBackends, Sequences, TLAPS

------------------------------------------------------------------------------
(* The file cache                                                            *)

StoreSteps == {"idle", "write", "sync", "rename", "syncdir", "returned", "failed"}

FileTypeOK ==
    /\ life \in 1 .. MaxLives
    /\ pc \in [Writers -> StoreSteps]
    /\ written \subseteq Files
    /\ entry \in Files \cup {None}
    /\ acked \in BOOLEAN
    /\ loading \in [Readers -> {"idle", "found", "done"}]
    /\ loaded \in [Readers -> Files \cup {None}]

\* A file gets its data, then is synced, then appears at the path: so whatever a
\* reader or a power loss may find there is on disk with its data.
DataFirst ==
    /\ synced \subseteq written
    /\ entry \in onDisk /\ onDisk \subseteq synced \cup {None}
    /\ \A w \in Writers :
         /\ pc[w] = "sync" => File(w) \in written
         /\ pc[w] \in {"rename", "syncdir"} => File(w) \in synced

\* The path is never emptied but by a power loss, which no Store call and no
\* Load outlives.
NeverEmptied ==
    /\ \A w \in Writers : pc[w] = "syncdir" => entry # None
    /\ \A r \in Readers : /\ loading[r] = "found" => entry # None
                          /\ loading[r] # "done" => loaded[r] = None
    /\ ShardExists /\ acked => None \notin onDisk

FileInv == FileTypeOK /\ DataFirst /\ NeverEmptied

\* A cache that has just been opened over an empty directory satisfies it.
LEMMA FileInvInit == FileInit => FileInv
<1> SUFFICES ASSUME FileInit PROVE FileInv
  OBVIOUS
<1> USE FileCacheAssumption DEF FileInit
<1>1. FileTypeOK
  <2>1. life \in 1 .. MaxLives
    OBVIOUS
  <2>2. pc \in [Writers -> StoreSteps] /\ loading \in [Readers -> {"idle", "found", "done"}]
    BY Zenon DEF StoreSteps
  <2>3. loaded \in [Readers -> Files \cup {None}]
    BY Zenon
  <2> QED BY <2>1, <2>2, <2>3 DEF FileTypeOK
<1>2. DataFirst
  BY DEF DataFirst
<1>3. NeverEmptied
  BY DEF NeverEmptied
<1> QED BY <1>1, <1>2, <1>3 DEF FileInv

\* The temporary file of a running Store call.
LEMMA FileOfStore ==
    ASSUME FileInv, NEW w \in Writers
    PROVE  File(w) \in Files /\ File(w) # None
BY FileCacheAssumption DEF FileInv, FileTypeOK, File, Files

\* Each step of a Store call keeps the order of its system calls.
LEMMA StoreStepInv ==
    ASSUME FileInv, NEW w \in Writers, StoreStep(w)
    PROVE  FileInv'
<1> USE DEF FileInv, FileTypeOK, DataFirst, NeverEmptied, StoreSteps, Goto, fileVars, readVars
<1>0. File(w) \in Files /\ File(w) # None
  BY FileOfStore
<1>1. CASE Create(w)
  BY <1>1 DEF Create, File
<1>2. CASE Write(w)
  BY <1>0, <1>2 DEF Write, File
<1>3. CASE SyncFile(w)
  BY <1>0, <1>3 DEF SyncFile, File
<1>4. CASE Rename(w)
  BY <1>0, <1>4 DEF Rename, File
<1>5. CASE SyncDir(w)
  BY <1>5 DEF SyncDir, File
<1>6. CASE StoreFails(w)
  BY <1>6 DEF StoreFails, File
<1> QED BY <1>1, <1>2, <1>3, <1>4, <1>5, <1>6 DEF StoreStep

\* Load changes no file, and finds the entry complete.
LEMMA LoadStepInv ==
    ASSUME FileInv, NEW r \in Readers, Stat(r) \/ Read(r)
    PROVE  FileInv'
<1> USE DEF FileInv, FileTypeOK, DataFirst, NeverEmptied, fileVars, readVars
<1>1. CASE Stat(r)
  BY <1>1 DEF Stat, File
<1>2. CASE Read(r)
  BY <1>2 DEF Read, File
<1> QED BY <1>1, <1>2

\* A kill or a power loss leaves one of the files the path may hold.
LEMMA FailureInv ==
    ASSUME FileInv, Killed \/ PowerLoss
    PROVE  FileInv'
<1> USE FileCacheAssumption
    DEF FileInv, FileTypeOK, DataFirst, NeverEmptied, StoreSteps, Fresh, fileVars
<1>1. CASE Killed
  BY <1>1 DEF Killed, File
<1>2. CASE PowerLoss
  BY <1>2 DEF PowerLoss, File
<1> QED BY <1>1, <1>2

\* Every step of the file cache, a crash included, preserves it.
LEMMA FileInvStep == FileInv /\ [FileNext]_fileCacheVars => FileInv'
<1> SUFFICES ASSUME FileInv, [FileNext]_fileCacheVars
             PROVE  FileInv'
  OBVIOUS
<1>1. CASE UNCHANGED fileCacheVars
  BY <1>1 DEF fileCacheVars, FileInv, FileTypeOK, DataFirst, NeverEmptied, File
<1>2. CASE FileNext
  BY <1>2, StoreStepInv, LoadStepInv, FailureInv DEF FileNext
<1> QED BY <1>1, <1>2

\* Whichever backend a program uses, no file is touched but by FileNext.
LEMMA FileInvHolds == Spec => []FileInv
<1>1. Init => FileInv
  BY FileInvInit DEF Init
<1>2. FileInv /\ [Next]_allVars => FileInv'
  <2>1. [Next]_allVars => [FileNext]_fileCacheVars
    BY DEF Next, allVars
  <2> QED BY <2>1, FileInvStep
<1> QED BY <1>1, <1>2, PTL DEF Spec

\* No Load of the file cache ever meets a torn entry, however many Store and
\* Load calls, kills and power losses there are (FileCache.Load, AtomicWrite).
THEOREM NeverTorn == Spec => []NeverCorrupt
<1>1. \A f \in Files : f # <<"corrupt">>
  <2> SUFFICES ASSUME NEW n \in 1 .. MaxLives, NEW w \in Writers
               PROVE  <<n, w>> # <<"corrupt">>
    BY DEF Files
  <2>1. Len(<<n, w>>) = 2 /\ Len(<<"corrupt">>) = 1
    OBVIOUS
  <2> QED BY <2>1
<1>2. FileInv => NeverCorrupt
  BY <1>1, FileCacheAssumption DEF FileInv, FileTypeOK, NeverCorrupt
<1> QED BY <1>2, FileInvHolds, PTL

\* What a Store of the file cache has acknowledged is never torn by anything that
\* happens later, and survives it if the directory of the entry was on disk
\* (SyncDirectory).
THEOREM AcknowledgedSurvives == Spec => []AcknowledgedIsDurable
<1>1. FileInv => AcknowledgedIsDurable
  BY DEF FileInv, DataFirst, NeverEmptied, AcknowledgedIsDurable
<1> QED BY <1>1, FileInvHolds, PTL

------------------------------------------------------------------------------
(* The migration of the MySQL cache                                          *)

Migrating == {"inspectVersions", "inspectTable", "createVersions", "readVersion",
              "insertMarker", "createTable", "validate", "finalize"}
Using == {"ready", "stored"}
Views == [versions : BOOLEAN, table : BOOLEAN, version : {0, 1, 2}]

MySQLTypeOK ==
    /\ schema \in [Tables -> Schemas]
    /\ versions \in BOOLEAN
    /\ marker \in [Tables -> Markers]
    /\ lock \in Procs \cup {Nothing}
    /\ step \in [Procs -> Migrating \cup Using \cup {"closed", "refused"}]
    /\ saw \in [Procs -> Views]
    /\ row \in [Tables -> Procs \cup {Nothing}]
    /\ answer \in [Procs -> {Nothing} \cup {<<r>> : r \in Procs \cup {Nothing}}]
    /\ \A p \in Procs : step[p] = "stored" => row[T(p)] # Nothing
    /\ \A t \in known : row[t] # Nothing

\* One constructor at a time is between GET_LOCK and RELEASE_LOCK.
Exclusive == \A p \in Procs : step[p] \in Migrating => lock = p

\* What the constructor knows of its table when it executes a statement: nobody
\* else has changed what it has inspected.
ViewIsTrue(p) ==
    LET table == schema[T(p)]
        recorded == marker[T(p)]
    IN
    /\ step[p] = "inspectTable" => saw[p].versions = versions
    /\ step[p] = "createVersions" => ~versions /\ table = "none" /\ saw[p].table = FALSE
    /\ step[p] = "readVersion" => saw[p].table = (table # "none")
    /\ step[p] = "insertMarker" => table = "none" /\ recorded = Nothing /\ saw[p].version = 0
    /\ step[p] = "createTable" => table = "none" /\ recorded = 0 /\ saw[p].version = 0
    /\ step[p] = "validate" => table # "none" /\ recorded \in {0, 1} /\ saw[p].version = recorded
    /\ step[p] = "finalize" => table = "v1" /\ recorded = 0

\* Without a version table there is no marker, and a table that was found in one of
\* flowkit's own states stays in one.
StaysOwn ==
    /\ ~versions => \A t \in Tables : marker[t] = Nothing
    /\ \A p \in Procs : step[p] \in Migrating
         \ {"inspectVersions", "inspectTable", "createVersions"} => versions
    /\ \A t \in Tables : found[t] \in Own => <<schema[t], marker[t]>> \in Own

MySQLInv ==
    /\ MySQLTypeOK
    /\ Exclusive
    /\ \A p \in Procs : ViewIsTrue(p)
    /\ StaysOwn
    /\ ReadyMeansUsable
    /\ RefusesOnlyForeign

\* It holds of a database nobody has opened yet.
LEMMA MySQLInvInit == MySQLInit => MySQLInv
<1> SUFFICES ASSUME MySQLInit PROVE MySQLInv
  OBVIOUS
<1> USE MySQLCacheAssumption DEF MySQLInit
<1>1. MySQLTypeOK
  BY DEF MySQLTypeOK, Migrating, Using, Views, NewView, Markers, Schemas, T
<1>2. StaysOwn
  BY DEF StaysOwn, Migrating, Own
<1>3. Exclusive /\ (\A p \in Procs : ViewIsTrue(p)) /\ ReadyMeansUsable /\ RefusesOnlyForeign
  BY DEF Exclusive, ViewIsTrue, ReadyMeansUsable, RefusesOnlyForeign, Migrating
<1> QED BY <1>1, <1>2, <1>3 DEF MySQLInv

\* While one constructor migrates, no other one does.
LEMMA OthersWait ==
    ASSUME MySQLInv, NEW p \in Procs, step[p] \in Migrating
    PROVE  lock = p /\ \A q \in Procs \ {p} : step[q] \notin Migrating
BY DEF MySQLInv, Exclusive

\* The locals of a new migrate.
LEMMA NewViewType == NewView \in Views
BY DEF NewView, Views

\* An unversioned table is refused; else migrate knows whether its table exists.
LEMMA InspectTableInv ==
    ASSUME MySQLInv, NEW p \in Procs, InspectTable(p)
    PROVE  MySQLInv'
<1> USE MySQLCacheAssumption
    DEF MySQLInv, MySQLTypeOK, Migrating, Using, Markers, Schemas, T,
        schemaVars, entryVars, Continue, Finish, Execute, InspectTable
<1>0. step[p] \in Migrating /\ lock = p /\ \A q \in Procs \ {p} : step[q] \notin Migrating
  BY OthersWait
<1>1. MySQLTypeOK'
  <2>1. /\ schema' \in [Tables -> Schemas] /\ versions' \in BOOLEAN
        /\ marker' \in [Tables -> Markers] /\ lock' \in Procs \cup {Nothing}
    OBVIOUS
  <2>2. step' \in [Procs -> Migrating \cup Using \cup {"closed", "refused"}]
    OBVIOUS
  <2>3. saw' \in [Procs -> Views]
    <3>1. saw \in [Procs -> Views]
      OBVIOUS
    <3>2. CASE saw' = [saw EXCEPT ![p] = NewView]
      BY <3>2, NewViewType
    <3>3. ASSUME NEW b \in BOOLEAN, saw' = [saw EXCEPT ![p].table = b]
          PROVE  saw' \in [Procs -> Views]
      BY ONLY <3>1, <3>3 DEF Views
    <3> QED BY <3>2, <3>3
  <2>4. \A q \in Procs : step'[q] = "stored" => step[q] = "stored"
    OBVIOUS
  <2> QED BY <2>1, <2>2, <2>3, <2>4
<1>2. Exclusive'
  BY <1>0 DEF Exclusive
<1>3. (\A q \in Procs : ViewIsTrue(q))'
  BY <1>0 DEF ViewIsTrue, StaysOwn, Views, NewView
<1>4. StaysOwn'
  BY <1>0 DEF ViewIsTrue, StaysOwn, Own
<1>5. ReadyMeansUsable'
  BY DEF ViewIsTrue, ReadyMeansUsable
<1>6. RefusesOnlyForeign'
  BY DEF ViewIsTrue, StaysOwn, RefusesOnlyForeign, Own, Views, NewView
<1> QED BY <1>1, <1>2, <1>3, <1>4, <1>5, <1>6 DEF MySQLInv

\* The version table is created once, and never meets one of another process.
LEMMA CreateVersionsInv ==
    ASSUME MySQLInv, NEW p \in Procs, CreateVersions(p)
    PROVE  MySQLInv'
<1> USE MySQLCacheAssumption
    DEF MySQLInv, MySQLTypeOK, Migrating, Using, Markers, Schemas, T,
        schemaVars, entryVars, Continue, Finish, Execute, CreateVersions
<1>0. step[p] \in Migrating /\ lock = p /\ \A q \in Procs \ {p} : step[q] \notin Migrating
  BY OthersWait
<1>1. MySQLTypeOK'
  <2>1. /\ schema' \in [Tables -> Schemas] /\ versions' \in BOOLEAN
        /\ marker' \in [Tables -> Markers] /\ lock' \in Procs \cup {Nothing}
    OBVIOUS
  <2>2. step' \in [Procs -> Migrating \cup Using \cup {"closed", "refused"}]
    OBVIOUS
  <2>3. saw' \in [Procs -> Views]
    BY NewViewType
  <2>4. \A q \in Procs : step'[q] = "stored" => step[q] = "stored"
    OBVIOUS
  <2> QED BY <2>1, <2>2, <2>3, <2>4
<1>2. Exclusive'
  BY <1>0 DEF Exclusive
<1>3. (\A q \in Procs : ViewIsTrue(q))'
  BY <1>0 DEF ViewIsTrue, StaysOwn, Views, NewView
<1>4. StaysOwn'
  BY <1>0 DEF ViewIsTrue, StaysOwn, Own
<1>5. ReadyMeansUsable'
  BY DEF ViewIsTrue, ReadyMeansUsable
<1>6. RefusesOnlyForeign'
  BY DEF ViewIsTrue, StaysOwn, RefusesOnlyForeign, Own, Views, NewView
<1> QED BY <1>1, <1>2, <1>3, <1>4, <1>5, <1>6 DEF MySQLInv

\* What ReadVersion refuses was not flowkit's own from the start.
LEMMA ReadVersionInv ==
    ASSUME MySQLInv, NEW p \in Procs, ReadVersion(p)
    PROVE  MySQLInv'
<1> USE MySQLCacheAssumption
    DEF MySQLInv, MySQLTypeOK, Migrating, Using, Markers, Schemas, T,
        schemaVars, entryVars, Continue, Finish, Execute, ReadVersion
<1>0. step[p] \in Migrating /\ lock = p /\ \A q \in Procs \ {p} : step[q] \notin Migrating
  BY OthersWait
<1>1. MySQLTypeOK'
  <2>1. /\ schema' \in [Tables -> Schemas] /\ versions' \in BOOLEAN
        /\ marker' \in [Tables -> Markers] /\ lock' \in Procs \cup {Nothing}
    OBVIOUS
  <2>2. step' \in [Procs -> Migrating \cup Using \cup {"closed", "refused"}]
    OBVIOUS
  <2>3. saw' \in [Procs -> Views]
    <3>1. saw \in [Procs -> Views]
      OBVIOUS
    <3>2. CASE saw' = [saw EXCEPT ![p] = NewView]
      BY <3>2, NewViewType
    <3>3. ASSUME NEW n \in {0, 1, 2}, saw' = [saw EXCEPT ![p].version = n]
          PROVE  saw' \in [Procs -> Views]
      BY ONLY <3>1, <3>3 DEF Views
    <3> QED BY <3>2, <3>3
  <2>4. \A q \in Procs : step'[q] = "stored" => step[q] = "stored"
    OBVIOUS
  <2> QED BY <2>1, <2>2, <2>3, <2>4
<1>2. Exclusive'
  BY <1>0 DEF Exclusive
<1>3. (\A q \in Procs : ViewIsTrue(q))'
  BY <1>0 DEF ViewIsTrue, StaysOwn, Views, NewView
<1>4. StaysOwn'
  BY <1>0 DEF ViewIsTrue, StaysOwn, Own
<1>5. ReadyMeansUsable'
  BY DEF ViewIsTrue, ReadyMeansUsable
<1>6. RefusesOnlyForeign'
  BY DEF ViewIsTrue, StaysOwn, RefusesOnlyForeign, Own, Views, NewView
<1> QED BY <1>1, <1>2, <1>3, <1>4, <1>5, <1>6 DEF MySQLInv

\* The marker of a new table is inserted, and never meets another one.
LEMMA InsertMarkerInv ==
    ASSUME MySQLInv, NEW p \in Procs, InsertMarker(p)
    PROVE  MySQLInv'
<1> USE MySQLCacheAssumption
    DEF MySQLInv, MySQLTypeOK, Migrating, Using, Markers, Schemas, T,
        schemaVars, entryVars, Continue, Finish, Execute, InsertMarker
<1>0. step[p] \in Migrating /\ lock = p /\ \A q \in Procs \ {p} : step[q] \notin Migrating
  BY OthersWait
<1>1. MySQLTypeOK'
  <2>1. /\ schema' \in [Tables -> Schemas] /\ versions' \in BOOLEAN
        /\ marker' \in [Tables -> Markers] /\ lock' \in Procs \cup {Nothing}
    OBVIOUS
  <2>2. step' \in [Procs -> Migrating \cup Using \cup {"closed", "refused"}]
    <3>1. step' \in {[step EXCEPT ![p] = "createTable"], [step EXCEPT ![p] = "refused"]}
      OBVIOUS
    <3> QED BY <3>1
  <2>3. saw' \in [Procs -> Views]
    BY NewViewType
  <2>4. \A q \in Procs : step'[q] = "stored" => step[q] = "stored"
    OBVIOUS
  <2> QED BY <2>1, <2>2, <2>3, <2>4
<1>2. Exclusive'
  BY <1>0 DEF Exclusive
<1>3. (\A q \in Procs : ViewIsTrue(q))'
  BY <1>0 DEF ViewIsTrue, StaysOwn, Views, NewView
<1>4. StaysOwn'
  BY <1>0 DEF ViewIsTrue, StaysOwn, Own
<1>5. ReadyMeansUsable'
  BY DEF ViewIsTrue, ReadyMeansUsable
<1>6. RefusesOnlyForeign'
  BY DEF ViewIsTrue, StaysOwn, RefusesOnlyForeign, Own, Views, NewView
<1> QED BY <1>1, <1>2, <1>3, <1>4, <1>5, <1>6 DEF MySQLInv

\* The table is created behind its marker, and never meets another one.
LEMMA CreateTableInv ==
    ASSUME MySQLInv, NEW p \in Procs, CreateTable(p)
    PROVE  MySQLInv'
<1> USE MySQLCacheAssumption
    DEF MySQLInv, MySQLTypeOK, Migrating, Using, Markers, Schemas, T,
        schemaVars, entryVars, Continue, Finish, Execute, CreateTable
<1>0. step[p] \in Migrating /\ lock = p /\ \A q \in Procs \ {p} : step[q] \notin Migrating
  BY OthersWait
<1>1. MySQLTypeOK'
  <2>1. /\ schema' \in [Tables -> Schemas] /\ versions' \in BOOLEAN
        /\ marker' \in [Tables -> Markers] /\ lock' \in Procs \cup {Nothing}
    OBVIOUS
  <2>2. step' \in [Procs -> Migrating \cup Using \cup {"closed", "refused"}]
    <3>1. step' \in {[step EXCEPT ![p] = "validate"], [step EXCEPT ![p] = "refused"]}
      OBVIOUS
    <3> QED BY <3>1
  <2>3. saw' \in [Procs -> Views]
    BY NewViewType
  <2>4. \A q \in Procs : step'[q] = "stored" => step[q] = "stored"
    OBVIOUS
  <2> QED BY <2>1, <2>2, <2>3, <2>4
<1>2. Exclusive'
  BY <1>0 DEF Exclusive
<1>3. (\A q \in Procs : ViewIsTrue(q))'
  BY <1>0 DEF ViewIsTrue, StaysOwn, Views, NewView
<1>4. StaysOwn'
  BY <1>0 DEF ViewIsTrue, StaysOwn, Own
<1>5. ReadyMeansUsable'
  BY DEF ViewIsTrue, ReadyMeansUsable
<1>6. RefusesOnlyForeign'
  BY DEF ViewIsTrue, StaysOwn, RefusesOnlyForeign, Own, Views, NewView
<1> QED BY <1>1, <1>2, <1>3, <1>4, <1>5, <1>6 DEF MySQLInv

\* A table that does not validate was not flowkit's own from the start.
LEMMA ValidateInv ==
    ASSUME MySQLInv, NEW p \in Procs, Validate(p)
    PROVE  MySQLInv'
<1> USE MySQLCacheAssumption
    DEF MySQLInv, MySQLTypeOK, Migrating, Using, Markers, Schemas, T,
        schemaVars, entryVars, Continue, Finish, Execute, Validate
<1>0. step[p] \in Migrating /\ lock = p /\ \A q \in Procs \ {p} : step[q] \notin Migrating
  BY OthersWait
<1>1. MySQLTypeOK'
  <2>1. /\ schema' \in [Tables -> Schemas] /\ versions' \in BOOLEAN
        /\ marker' \in [Tables -> Markers] /\ lock' \in Procs \cup {Nothing}
    OBVIOUS
  <2>2. step' \in [Procs -> Migrating \cup Using \cup {"closed", "refused"}]
    OBVIOUS
  <2>3. saw' \in [Procs -> Views]
    BY NewViewType
  <2>4. \A q \in Procs : step'[q] = "stored" => step[q] = "stored"
    OBVIOUS
  <2> QED BY <2>1, <2>2, <2>3, <2>4
<1>2. Exclusive'
  BY <1>0 DEF Exclusive
<1>3. (\A q \in Procs : ViewIsTrue(q))'
  BY <1>0 DEF ViewIsTrue, StaysOwn, Views, NewView
<1>4. StaysOwn'
  BY <1>0 DEF ViewIsTrue, StaysOwn, Own
<1>5. ReadyMeansUsable'
  BY DEF ViewIsTrue, ReadyMeansUsable
<1>6. RefusesOnlyForeign'
  BY DEF ViewIsTrue, StaysOwn, RefusesOnlyForeign, Own, Views, NewView
<1> QED BY <1>1, <1>2, <1>3, <1>4, <1>5, <1>6 DEF MySQLInv

\* The statements that read or that change one row, and the use of an open cache.
LEMMA OtherStatementInv ==
    ASSUME MySQLInv, NEW p \in Procs,
           \/ GetLock(p) \/ InspectVersions(p) \/ Finalize(p)
           \/ Upsert(p) \/ StoreReturns(p) \/ Select(p) \/ Interrupted(p)
    PROVE  MySQLInv'
<1> USE MySQLCacheAssumption
    DEF MySQLInv, MySQLTypeOK, Exclusive, ViewIsTrue, StaysOwn, ReadyMeansUsable,
        RefusesOnlyForeign, Migrating, Using, Views, NewView, Markers, Schemas, Own, T,
        schemaVars, entryVars, Continue, Finish
<1>1. CASE GetLock(p)
  BY <1>1 DEF GetLock
<1>2. CASE InspectVersions(p)
  BY <1>2 DEF InspectVersions
<1>3. CASE Finalize(p)
  BY <1>3 DEF Finalize
<1>4. CASE Upsert(p)
  BY <1>4 DEF Upsert
<1>5. CASE StoreReturns(p)
  BY <1>5 DEF StoreReturns
<1>6. CASE Select(p)
  BY <1>6 DEF Select
<1>7. CASE Interrupted(p)
  BY <1>7 DEF Interrupted
<1> QED BY <1>1, <1>2, <1>3, <1>4, <1>5, <1>6, <1>7

\* Every statement of an opener preserves it, whoever runs in between.
LEMMA MySQLInvStep == MySQLInv /\ [MySQLNext]_mysqlVars => MySQLInv'
<1> SUFFICES ASSUME MySQLInv, [MySQLNext]_mysqlVars
             PROVE  MySQLInv'
  OBVIOUS
<1>1. CASE UNCHANGED mysqlVars
  BY <1>1 DEF mysqlVars, schemaVars, entryVars, MySQLInv, MySQLTypeOK, Exclusive, ViewIsTrue,
              StaysOwn, ReadyMeansUsable, RefusesOnlyForeign
<1>2. ASSUME NEW p \in Procs, Migrate(p)
      PROVE  MySQLInv'
  BY <1>2, InspectTableInv, CreateVersionsInv, ReadVersionInv, InsertMarkerInv,
     CreateTableInv, ValidateInv, OtherStatementInv DEF Migrate
<1> QED BY <1>1, <1>2, OtherStatementInv DEF MySQLNext

\* It holds in every state of the two caches side by side.
LEMMA MySQLInvHolds == Spec => []MySQLInv
<1>1. Init => MySQLInv
  BY MySQLInvInit DEF Init
<1>2. MySQLInv /\ [Next]_allVars => MySQLInv'
  <2>1. [Next]_allVars => [MySQLNext]_mysqlVars
    BY DEF Next, allVars
  <2> QED BY <2>1, MySQLInvStep
<1> QED BY <1>1, <1>2, PTL DEF Spec

\* A constructor of the MySQL cache that succeeds has a table of the recorded
\* schema for as long as the cache is open, for any processes and tables and
\* whatever the database held (MySQLCache.migrate).
THEOREM OpenedIsUsable == Spec => []ReadyMeansUsable
<1>1. MySQLInv => ReadyMeansUsable
  BY DEF MySQLInv
<1> QED BY <1>1, MySQLInvHolds, PTL

\* No interruption and no race of migrations makes a constructor refuse a table
\* that flowkit created or began to create (MySQLCache.migrate).
THEOREM MigrationRecovers == Spec => []RefusesOnlyForeign
<1>1. MySQLInv => RefusesOnlyForeign
  BY DEF MySQLInv
<1> QED BY <1>1, MySQLInvHolds, PTL

------------------------------------------------------------------------------
(* Both implement the contract                                               *)

\* What the contract sees of the file cache is what is there: nothing is torn.
LEMMA FileView ==
    ASSUME FileInv
    PROVE  /\ FileEntry(entry, written) = entry
           /\ {FileEntry(f, synced) : f \in onDisk} = onDisk
<1>1. entry \in written \cup {None} /\ \A f \in onDisk : f \in synced \cup {None}
  BY DEF FileInv, DataFirst
<1> QED BY <1>1 DEF FileEntry

\* The same after a step.
LEMMA FileViewNext ==
    ASSUME FileInv'
    PROVE  /\ FileEntry(entry, written)' = entry'
           /\ {FileEntry(f, synced) : f \in onDisk}' = onDisk'
<1>1. entry' \in written' \cup {None} /\ \A f \in onDisk' : f \in synced' \cup {None}
  BY DEF FileInv, DataFirst
<1> QED BY <1>1 DEF FileEntry

\* A step of the file cache is a step of the contract, or invisible to callers.
LEMMA FileRefines ==
    ASSUME FileInv, FileInv', ShardExists, backend = "file", backend' = "file",
           FileNext, UNCHANGED mysqlVars
    PROVE  [Contract!Next]_(Contract!vars)
<1> USE DEF fileVars, readVars
<1>0. /\ FileEntry(entry, written) = entry /\ {FileEntry(f, synced) : f \in onDisk} = onDisk
      /\ FileEntry(entry, written)' = entry'
      /\ {FileEntry(f, synced) : f \in onDisk}' = onDisk'
  BY FileView, FileViewNext
<1>1. ASSUME NEW w \in Writers, Rename(w)
      PROVE  Contract!Publish(File(w))
  BY <1>0, <1>1 DEF Rename, Contract!Publish, LoadAnswer
<1>2. ASSUME NEW w \in Writers, SyncDir(w)
      PROVE  Contract!Acknowledge
  BY <1>0, <1>2 DEF SyncDir, Contract!Acknowledge, FileInv, NeverEmptied, LoadAnswer
<1>3. ASSUME NEW w \in Writers, Create(w) \/ Write(w) \/ SyncFile(w) \/ StoreFails(w)
      PROVE  UNCHANGED Contract!vars
  BY <1>0, <1>3 DEF Create, Write, SyncFile, StoreFails, Contract!vars, LoadAnswer
<1>4. ASSUME NEW r \in Readers, Read(r)
      PROVE  Contract!Answer(r)
  BY <1>0, <1>4 DEF Read, Contract!Answer, FileInv, FileTypeOK, DataFirst, NeverEmptied, LoadAnswer
<1>5. ASSUME NEW r \in Readers, Stat(r)
      PROVE  Contract!Answer(r) \/ UNCHANGED Contract!vars
  <2>1. loading[r] = "idle" /\ loaded[r] = None /\ loading \in [Readers -> {"idle", "found", "done"}]
    BY <1>5 DEF Stat, FileInv, FileTypeOK, NeverEmptied
  <2>2. CASE entry = None
    BY <1>0, <1>5, <2>1, <2>2 DEF Stat, Contract!Answer, LoadAnswer
  <2>3. CASE entry # None
    BY <1>0, <1>5, <2>1, <2>3 DEF Stat, Contract!vars, LoadAnswer
  <2> QED BY <2>2, <2>3
<1>6. ASSUME Killed
      PROVE  Contract!Ask(Contract!Callers)
  BY <1>0, <1>6 DEF Killed, Fresh, Contract!Ask, Contract!Callers, LoadAnswer
<1>7. ASSUME PowerLoss
      PROVE  Contract!Fail
  BY <1>0, <1>7 DEF PowerLoss, Fresh, Contract!Fail, Contract!NoAnswers, Contract!Callers, LoadAnswer
<1>8. \A w \in Writers : File(w) \in Files
  BY FileOfStore
<1>9. \A r \in Readers : r \in Contract!Callers
  BY DEF Contract!Callers
<1> QED
  BY <1>1, <1>2, <1>3, <1>4, <1>5, <1>6, <1>7, <1>8, <1>9 DEF FileNext, StoreStep, Contract!Next

\* A step of the MySQL cache is a step of the contract, or invisible to the callers
\* of the observed table.
LEMMA MySQLRefines ==
    ASSUME MySQLInv, backend = "mysql", backend' = "mysql", MySQLNext, UNCHANGED fileCacheVars
    PROVE  [Contract!Next]_(Contract!vars)
<1> USE MySQLCacheAssumption, CacheBackendsAssumption
    DEF entryVars, RowEntry, Row, SelectAnswer, Continue, T
<1>0. row \in [Tables -> Procs \cup {Nothing}] /\ answer \in [Procs -> {Nothing} \cup {<<r>> : r \in Procs \cup {Nothing}}]
  BY DEF MySQLInv, MySQLTypeOK
<1>1. ASSUME NEW p \in Procs, Upsert(p)
      PROVE  Contract!Publish(p) \/ UNCHANGED Contract!vars
  BY <1>0, <1>1 DEF Upsert, Contract!Publish, Contract!vars
<1>2. ASSUME NEW p \in Procs, StoreReturns(p)
      PROVE  Contract!Acknowledge \/ UNCHANGED Contract!vars
  BY <1>0, <1>2 DEF StoreReturns, Contract!Acknowledge, Contract!vars, MySQLInv, MySQLTypeOK
<1>3. ASSUME NEW p \in Procs, Select(p)
      PROVE  (p \in Contract!Callers /\ Contract!Answer(p)) \/ UNCHANGED Contract!vars
  BY <1>0, <1>3 DEF Select, Contract!Answer, Contract!Callers, Contract!vars
<1>4. ASSUME NEW p \in Procs, Interrupted(p)
      PROVE  (p \in Contract!Callers /\ Contract!Ask({p})) \/ UNCHANGED Contract!vars
  BY <1>0, <1>4 DEF Interrupted, Contract!Ask, Contract!Callers, Contract!vars
<1>5. ASSUME NEW p \in Procs, Migrate(p)
      PROVE  UNCHANGED Contract!vars
  BY <1>5 DEF Migrate, GetLock, InspectVersions, InspectTable, CreateVersions, ReadVersion,
              InsertMarker, CreateTable, Validate, Finalize, Contract!vars
<1> QED
  BY <1>1, <1>2, <1>3, <1>4, <1>5 DEF MySQLNext, Contract!Next

\* The file cache, in an existing directory, and the MySQL cache implement the
\* contract of execution.Cache: a Load answers with what was published, complete,
\* and an acknowledged Store is never lost, for any processes and failures.
THEOREM CachesImplementContract ==
    ASSUME ShardExists
    PROVE  Spec => ImplementsCache
<1>1. Init => Contract!Init
  BY MySQLCacheAssumption, CacheBackendsAssumption
  DEF Init, FileInit, MySQLInit, Contract!Init, Contract!NoAnswers, Contract!Callers,
      FileEntry, RowEntry, Row, LoadAnswer, SelectAnswer
<1>2. FileInv /\ FileInv' /\ MySQLInv /\ [Next]_allVars => [Contract!Next]_(Contract!vars)
  <2> SUFFICES ASSUME FileInv, FileInv', MySQLInv, [Next]_allVars
               PROVE  [Contract!Next]_(Contract!vars)
    OBVIOUS
  <2>1. CASE UNCHANGED allVars
    BY <2>1 DEF allVars, fileCacheVars, mysqlVars, entryVars, Contract!vars, FileEntry, RowEntry,
                Row, LoadAnswer, SelectAnswer
  <2>2. CASE backend = "file" /\ FileNext /\ UNCHANGED <<backend, mysqlVars>>
    BY <2>2, FileRefines
  <2>3. CASE backend = "mysql" /\ MySQLNext /\ UNCHANGED <<backend, fileCacheVars>>
    BY <2>3, MySQLRefines
  <2> QED BY <2>1, <2>2, <2>3 DEF Next
<1> QED
  BY <1>1, <1>2, FileInvHolds, MySQLInvHolds, PTL DEF Spec, ImplementsCache, Contract!Spec
==============================================================================
