----------------------------- MODULE MySQLCache -----------------------------
(***************************************************************************)
(* The MySQL cache (src/execution/mysql_cache.go): processes that open     *)
(* caches in one database, each with migrate, whose SQL statements are the *)
(* actions, and then Store and Load an entry of their table.               *)
(*                                                                         *)
(* A statement takes effect at once or not at all; DDL commits implicitly. *)
(* The schema lock belongs to the connection and is free when that is lost.*)
(* The database may be found in any state.                                 *)
(***************************************************************************)
EXTENDS Integers

CONSTANTS Procs,    \* processes that open a cache
          Tables,   \* names of cache tables
          TableOf,  \* TableOf[p]: MySQLCacheOptions.TableName
          Nothing   \* no row, no lock holder, no answer

Markers == {Nothing, 0, 1, 2}
Schemas == {"none", "v1", "other"}

ASSUME MySQLCacheAssumption ==
    /\ TableOf \in [Procs -> Tables]
    /\ Nothing \notin Procs /\ Nothing \notin {0, 1, 2}
    /\ \A r \in Procs \cup {Nothing} : Nothing # <<r>>

VARIABLES
    schema,    \* schema[t]: no table, one of version 1, or another one
    versions,  \* whether flowkit_schema_version exists
    marker,    \* marker[t]: the schema_version recorded for t
    lock,      \* the holder of the schema lock
    step,      \* step[p]: the statement p executes next
    saw,       \* saw[p]: what p has read of the database
    row,       \* row[t]: the value_json of the entry, named by its writer
    answer,    \* answer[p]: the last answer of Load
    known,     \* the tables with an acknowledged entry (history)
    found      \* schema and marker as the first process found them (history)

schemaVars == <<schema, versions, marker>>
entryVars == <<row, answer, known>>
mysqlVars == <<schemaVars, lock, step, saw, entryVars, found>>

T(p) == TableOf[p]

NewView == [versions |-> FALSE, table |-> FALSE, version |-> 0]

Continue(p, label) == step' = [step EXCEPT ![p] = label] /\ UNCHANGED lock

\* migrate returns nil or an error: RELEASE_LOCK is executed, its locals are gone.
Finish(p, label) ==
    /\ step' = [step EXCEPT ![p] = label]
    /\ lock' = Nothing
    /\ saw' = [saw EXCEPT ![p] = NewView]

\* A statement that conflicts with what the database holds fails the constructor.
Execute(p, possible, effect, next) ==
    IF possible THEN effect /\ Continue(p, next) /\ UNCHANGED saw
    ELSE Finish(p, "refused") /\ UNCHANGED schemaVars
------------------------------------------------------------------------------
(* migrate                                                                   *)

\* GET_LOCK.  When it times out the constructor fails and nothing has changed.
GetLock(p) ==
    /\ step[p] = "closed" /\ lock = Nothing
    /\ lock' = p
    /\ step' = [step EXCEPT ![p] = "inspectVersions"]
    /\ UNCHANGED <<schemaVars, saw, entryVars, found>>

InspectVersions(p) ==
    /\ step[p] = "inspectVersions"
    /\ saw' = [saw EXCEPT ![p].versions = versions]
    /\ Continue(p, "inspectTable")
    /\ UNCHANGED <<schemaVars, entryVars, found>>

\* An unversioned table is refused.
InspectTable(p) ==
    LET exists == schema[T(p)] # "none" IN
    /\ step[p] = "inspectTable"
    /\ \/ ~saw[p].versions /\ exists /\ Finish(p, "refused")
       \/ /\ saw[p].versions \/ ~exists
          /\ Continue(p, IF saw[p].versions THEN "readVersion" ELSE "createVersions")
          /\ saw' = [saw EXCEPT ![p].table = exists]
    /\ UNCHANGED <<schemaVars, entryVars, found>>

CreateVersions(p) ==
    /\ step[p] = "createVersions"
    /\ Execute(p, ~versions, versions' = TRUE /\ UNCHANGED <<schema, marker>>, "readVersion")
    /\ UNCHANGED <<entryVars, found>>

\* The recorded version and what was seen of the table decide how to go on.
ReadVersion(p) ==
    LET recorded == marker[T(p)]
        next == CASE recorded = Nothing /\ ~saw[p].table      -> "insertMarker"
                  [] recorded = 0 /\ ~saw[p].table            -> "createTable"
                  [] recorded \in {0, 1} /\ saw[p].table      -> "validate"
                  [] OTHER                                    -> "refused"
    IN
    /\ step[p] = "readVersion"
    /\ \/ next = "refused" /\ Finish(p, next)
       \/ /\ next # "refused" /\ Continue(p, next)
          /\ saw' = [saw EXCEPT ![p].version = IF recorded = Nothing THEN 0 ELSE recorded]
    /\ UNCHANGED <<schemaVars, entryVars, found>>

\* Mutation of InsertMarker: the marker is left to the end.
InsertMarkerNot(p) ==
    /\ step[p] = "insertMarker"
    /\ Continue(p, "createTable")
    /\ UNCHANGED <<schemaVars, saw, entryVars, found>>

\* The marker comes first, so that an interrupted initialization is recognised.
InsertMarker(p) ==
    /\ step[p] = "insertMarker"
    /\ Execute(p, marker[T(p)] = Nothing,
               marker' = [marker EXCEPT ![T(p)] = 0] /\ UNCHANGED <<schema, versions>>,
               "createTable")
    /\ UNCHANGED <<entryVars, found>>

CreateTable(p) ==
    /\ step[p] = "createTable"
    /\ Execute(p, schema[T(p)] = "none",
               schema' = [schema EXCEPT ![T(p)] = "v1"] /\ UNCHANGED <<versions, marker>>,
               "validate")
    /\ UNCHANGED <<entryVars, found>>

\* Mutation of Validate: a table of the recorded version is trusted.
ValidateNew(p) ==
    /\ step[p] = "validate"
    /\ \/ saw[p].version = 0 /\ schema[T(p)] = "v1" /\ Continue(p, "finalize") /\ UNCHANGED saw
       \/ saw[p].version = 1 /\ Finish(p, "ready")
       \/ saw[p].version = 0 /\ schema[T(p)] # "v1" /\ Finish(p, "refused")
    /\ UNCHANGED <<schemaVars, entryVars, found>>

\* validateMySQLCacheSchemaV1 compares columns and primary key.
Validate(p) ==
    /\ step[p] = "validate"
    /\ \/ schema[T(p)] # "v1" /\ Finish(p, "refused")
       \/ schema[T(p)] = "v1" /\ saw[p].version = 0 /\ Continue(p, "finalize") /\ UNCHANGED saw
       \/ schema[T(p)] = "v1" /\ saw[p].version = 1 /\ Finish(p, "ready")
    /\ UNCHANGED <<schemaVars, entryVars, found>>

\* UPDATE ... WHERE schema_version = 0.
Finalize(p) ==
    /\ step[p] = "finalize"
    /\ marker' = [marker EXCEPT ![T(p)] = IF @ = 0 THEN 1 ELSE @]
    /\ Finish(p, "ready")
    /\ UNCHANGED <<schema, versions, entryVars, found>>

Migrate(p) ==
    \/ GetLock(p) \/ InspectVersions(p) \/ InspectTable(p) \/ CreateVersions(p)
    \/ ReadVersion(p) \/ InsertMarker(p) \/ CreateTable(p) \/ Validate(p) \/ Finalize(p)
------------------------------------------------------------------------------
(* Store and Load                                                            *)

\* The upsert commits; its reply is still to come.
Upsert(p) ==
    /\ step[p] = "ready"
    /\ row' = [row EXCEPT ![T(p)] = p]
    /\ Continue(p, "stored")
    /\ UNCHANGED <<schemaVars, saw, answer, known, found>>

\* Store returns nil, or an error when the reply is lost.
StoreReturns(p) ==
    /\ step[p] = "stored"
    /\ known' \in {known, known \cup {T(p)}}
    /\ Continue(p, "ready")
    /\ UNCHANGED <<schemaVars, saw, row, answer, found>>

\* Load's SELECT; a row is a complete envelope.
Select(p) ==
    /\ step[p] = "ready"
    /\ answer' = [answer EXCEPT ![p] = <<row[T(p)]>>]
    /\ UNCHANGED <<schemaVars, lock, step, saw, row, known, found>>
------------------------------------------------------------------------------
(* Connections and processes                                                 *)

\* The connection is lost, the context is done or the process crashes; it may
\* open the cache again.
Interrupted(p) ==
    /\ step[p] \notin {"closed", "refused"}
    /\ step' = [step EXCEPT ![p] = "closed"]
    /\ lock' = IF lock = p THEN Nothing ELSE lock
    /\ saw' = [saw EXCEPT ![p] = NewView]
    /\ answer' = [answer EXCEPT ![p] = Nothing]
    /\ UNCHANGED <<schemaVars, row, known, found>>

MySQLInit ==
    /\ schema \in [Tables -> Schemas]
    /\ versions \in BOOLEAN
    /\ marker \in [Tables -> IF versions THEN Markers ELSE {Nothing}]
    /\ lock = Nothing
    /\ step = [p \in Procs |-> "closed"]
    /\ saw = [p \in Procs |-> NewView]
    /\ row = [t \in Tables |-> Nothing]
    /\ answer = [p \in Procs |-> Nothing]
    /\ known = {}
    /\ found = [t \in Tables |-> <<schema[t], marker[t]>>]

MySQLNext ==
    \E p \in Procs :
      Migrate(p) \/ Upsert(p) \/ StoreReturns(p) \/ Select(p) \/ Interrupted(p)
------------------------------------------------------------------------------
(* Properties                                                                *)

\* A constructor that succeeds returns a cache whose table has the recorded
\* schema, for as long as the cache is used, whoever migrates what meanwhile.
ReadyMeansUsable ==
    \A p \in Procs : step[p] \in {"ready", "stored"} =>
      schema[T(p)] = "v1" /\ marker[T(p)] = 1

\* The states of a table that flowkit creates, schema and marker, in this order.
Own == {<<"none", Nothing>>, <<"none", 0>>, <<"v1", 0>>, <<"v1", 1>>}

\* What migrate finds or has begun itself, in this process or an interrupted
\* one, is never taken for somebody else's: "interruption before or after CREATE
\* [is] recoverable on the next constructor call"
\* (src/execution/mysql_cache.go:169-171).  Only a database that was foreign from
\* the start is refused.
RefusesOnlyForeign ==
    \A p \in Procs : step[p] = "refused" => found[T(p)] \notin Own
==============================================================================
