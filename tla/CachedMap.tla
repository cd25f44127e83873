------------------------------ MODULE CachedMap ------------------------------
(***************************************************************************)
(* MapCached and MapCachedBatches (src/execution/cached_map.go,            *)
(* cached_batch_map.go): one work call per miss, or per batch of misses,   *)
(* whose results are stored at once and reported item by item as           *)
(* CacheOutcomes.  The report is returned with an error too.  MapCached    *)
(* tells a callback of every result; MapCachedBatches has no observer.     *)
(***************************************************************************)
EXTENDS ParallelMap

IsCachedMap == engine \in {"MapCached", "MapCachedBatches"}

\* The result callback of MapCached.
NotifyFails == engine = "MapCached" /\ Fault("observer")

\* Cache.Load of the next group: an error, a miss, or a hit for its items, one
\* by one, until the callback fails.
LoadCached(i) ==
    LET value == store[KeyOf[i]]
    IN  /\ IsCachedMap /\ outcome = "loading"
        /\ i \in ToLook /\ \A j \in ToLook : i <= j
        /\ looked' = i
        /\ \/ /\ canceled \/ Fault("load")
              /\ outcome' = "failed"
              /\ UNCHANGED <<misses, itemVars, counts>>
           \/ /\ value # None
              /\ \E seen \in Visited(<<i>>) :
                   /\ \/ seen = Indexes(i) /\ UNCHANGED outcome
                      \/ NotifyFails /\ outcome' = "failed"
                   /\ Give(seen, Result("value", value))
                   /\ Mark(seen, "hit")
                   /\ Add({"Hits"}, Cardinality(seen))
              /\ UNCHANGED misses
           \/ /\ value = None
              /\ misses' = Append(misses, i)
              /\ Add({"Misses"}, Cardinality(Indexes(i)))
              /\ UNCHANGED <<outcome, itemVars>>
        /\ UNCHANGED <<engine, run, store, canceled, mapVars, pc, batchVars, paid>>

\* The batches are cut and priced; MapCachedBatches refuses a cost below one.
StartMapCached ==
    /\ IsCachedMap /\ outcome = "loading" /\ ToLook = {}
    /\ \/ outcome' = IF misses = <<>> THEN "ok" ELSE "mapping"
       \/ /\ engine = "MapCachedBatches" /\ misses # <<>> /\ Fault("cost")
          /\ outcome' = "failed"
    /\ UNCHANGED <<engine, run, store, canceled, looked, misses, mapVars, pc, batchVars, paid,
                   itemVars, counts>>

\* Map's Limiter admits the batch and the work call starts, or the limiter
\* refuses; a cost below one, which only MapCached leaves to Map, is refused too.
AdmitCached(b) ==
    /\ IsCachedMap /\ pc[b] = "admit"
    /\ \/ Goto(b, "do") /\ Add({"WorkCalls"}, 1)
       \/ /\ Fault("refuse") \/ CtxDone \/ (engine = "MapCached" /\ Fault("cost"))
          /\ Goto(b, "failed") /\ UNCHANGED counts
    /\ UNCHANGED <<mainVars, store, mapVars, batchVars, paid, itemVars>>

\* The work call returns.  An error, or an answer of the wrong length, ends Map.
WorkCached(b) ==
    /\ IsCachedMap /\ pc[b] = "do"
    /\ \/ Goto(b, "store") /\ paid' = paid \cup ToSet(Batch(b))
       \/ /\ \/ CtxDone \/ Fault("fatal")
             \/ engine = "MapCachedBatches" /\ Fault("short")
          /\ Goto(b, "failed") /\ UNCHANGED paid
    /\ UNCHANGED <<mainVars, store, mapVars, batchVars, itemVars, counts>>

\* Mutation of CommitCached: a batch is reported stored with its first value.
CommitCachedAtOnce(b) ==
    LET i == Batch(b)[place[b]]
        stored == [store EXCEPT ![KeyOf[i]] = <<run, i>>]
        last == place[b] = Len(Batch(b))
    IN  /\ IsCachedMap /\ pc[b] = "store"
        /\ \/ /\ store' = stored
              /\ Add({"Stored"}, 1)
              /\ Mark(UNION {Indexes(j) : j \in ToSet(Batch(b))}, "stored")
              /\ place' = [place EXCEPT ![b] = @ + 1]
              /\ Goto(b, IF last THEN "ended" ELSE "store")
              /\ UNCHANGED faulty
           \/ /\ Fault("store")
              /\ store' \in {store, stored}
              /\ Goto(b, "failed")
              /\ faulty' = faulty \cup {b}
              /\ UNCHANGED <<place, outcomes, counts>>
        /\ UNCHANGED <<mainVars, mapVars, attempt, paid, results>>

\* The next value is stored, with a context that is never done, and its items
\* are reported stored.  MapCached tells its callback of one item at a time and
\* leaves the others pending when that fails.
CommitCached(b) ==
    LET i == Batch(b)[place[b]]
        stored == [store EXCEPT ![KeyOf[i]] = <<run, i>>]
        last == place[b] = Len(Batch(b))
    IN  /\ IsCachedMap /\ pc[b] = "store"
        /\ \/ /\ store' = stored
              /\ Add({"Stored"}, 1)
              /\ Mark(Indexes(i), "stored")
              /\ place' = [place EXCEPT ![b] = @ + 1]
              /\ Goto(b, IF last THEN "ended" ELSE "store")
              /\ UNCHANGED faulty
           \/ /\ NotifyFails
              /\ store' = stored
              /\ Add({"Stored"}, 1)
              /\ \E seen \in Visited(<<i>>) : Mark(seen, "stored")
              /\ Goto(b, "failed")
              /\ faulty' = faulty \cup {b}
              /\ UNCHANGED place
           \/ /\ Fault("store")
              /\ store' \in {store, stored}
              /\ Goto(b, "failed")
              /\ faulty' = faulty \cup {b}
              /\ UNCHANGED <<place, outcomes, counts>>
        /\ UNCHANGED <<mainVars, mapVars, attempt, paid, results>>

\* Map returns: with an error, or with a value for every miss, which goes to all
\* items of its group.
ReturnCached ==
    /\ IsCachedMap /\ Joined
    /\ results' = [j \in Items |->
                     IF outcome' = "ok" /\ \E i \in ToSet(misses) : j \in Indexes(i)
                       THEN Result("value", <<run, CHOOSE i \in ToSet(misses) : j \in Indexes(i)>>)
                       ELSE results[j]]
    /\ UNCHANGED <<engine, run, store, canceled, looked, misses, mapVars, pc, batchVars, paid,
                   outcomes, counts>>

CachedMainStep == (\E i \in Items : LoadCached(i)) \/ StartMapCached \/ ReturnCached

CachedStep(b) == AdmitCached(b) \/ WorkCached(b) \/ CommitCached(b)
==============================================================================
