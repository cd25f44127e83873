------------------------------ MODULE MCCaches ------------------------------
(***************************************************************************)
(* Two Store calls for one key race each other and a Load of the file      *)
(* cache, in up to three processes one after the other; or two processes   *)
(* share a MySQL table and a third one has a table of its own.             *)
(***************************************************************************)
EXTENDS CacheBackends

CONSTANTS s1, s2, ld, p1, p2, p3, t1, t2

MCWriters == {s1, s2}
MCReaders == {ld}
MCProcs == {p1, p2, p3}
MCTables == {t1, t2}
MCTableOf == [p \in MCProcs |-> IF p = p3 THEN t2 ELSE t1]
==============================================================================
