---------------------------- MODULE CacheBackends ----------------------------
(***************************************************************************)
(* A program is wired to the file cache or to the MySQL cache; both keep   *)
(* the promises of CacheContract.                                          *)
(***************************************************************************)
EXTENDS FileCache, MySQLCache

CONSTANT Observed  \* the table whose entry is compared with the contract

ASSUME CacheBackendsAssumption == Observed \in Tables /\ None \notin Procs

VARIABLE backend  \* "file" or "mysql"

allVars == <<backend, fileCacheVars, mysqlVars>>

Init ==
    /\ backend \in {"file", "mysql"}
    /\ FileInit /\ MySQLInit
    /\ backend = "file" => versions /\ \A t \in Tables : found[t] = <<"v1", 1>>

Next ==
    \/ backend = "file" /\ FileNext /\ UNCHANGED <<backend, mysqlVars>>
    \/ backend = "mysql" /\ MySQLNext /\ UNCHANGED <<backend, fileCacheVars>>

Spec == Init /\ [][Next]_allVars
------------------------------------------------------------------------------
(* The entry of the file cache, or of the observed table, as callers see it  *)

Torn == <<"torn">>
Waiting == <<"waiting">>
Row == row[Observed]

\* A file whose data are not where they have to be is no entry.
FileEntry(f, complete) == IF f \in complete \cup {None} THEN f ELSE Torn
RowEntry(r) == IF r = Nothing THEN None ELSE r

LoadAnswer(r) == IF loading[r] = "done" THEN loaded[r] ELSE Waiting
SelectAnswer(p) == IF answer[p] = Nothing THEN Waiting ELSE RowEntry(answer[p][1])

Contract == INSTANCE CacheContract WITH
    Values <- Files \cup Procs,
    Absent <- None,
    Pending <- Waiting,
    content <- IF backend = "file" THEN FileEntry(entry, written) ELSE RowEntry(Row),
    possible <- IF backend = "file" THEN {FileEntry(f, synced) : f \in onDisk}
                ELSE {RowEntry(Row)},
    acked <- IF backend = "file" THEN acked ELSE Observed \in known,
    answers <- IF backend = "file" THEN [r \in Readers |-> LoadAnswer(r)]
               ELSE [p \in {q \in Procs : T(q) = Observed} |-> SelectAnswer(p)]

\* Both backends implement the contract of execution.Cache, through races of
\* writers and readers, interrupted statements, killed processes and power
\* losses: MySQLCache "is a drop-in replacement for FileCache"
\* (src/execution/mysql_cache.go:55).  For the file cache this takes ShardExists,
\* like AcknowledgedIsDurable.
ImplementsCache == Contract!Spec
==============================================================================
