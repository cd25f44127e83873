-------------------------------- MODULE Bulk --------------------------------
(***************************************************************************)
(* The bulk engine (src/flow/bulk.go, runBulk): one provider call per      *)
(* batch of misses, with admission and retries around it; the results of a *)
(* batch are committed one at a time.                                      *)
(*                                                                         *)
(* An observer is the ledger or the OnResult hook.  It may fail by itself, *)
(* and a strict ledger refuses because the context it is given is done:    *)
(* the caller's while runBulk loads, that of Map's errgroup in a batch.    *)
(***************************************************************************)
EXTENDS ParallelMap

IsBulk == engine \in {"Bulk", "BulkUncached"}

ObserverFails == Fault("observer") \/ (Fault("strict") /\ CtxDone)

\* The sum of the meters overflows, before or after the values are accepted.
MeterOverflows == Fault("meter")

------------------------------------------------------------------------------
(* Load, then map                                                            *)

\* Store.Load of the next group: an error, a miss, or a hit for its items, which
\* are journalled and go to the hook one by one, until an observer fails.
Load(i) ==
    LET value == store[KeyOf[i]]
    IN  /\ IsBulk /\ outcome = "loading"
        /\ i \in ToLook /\ \A j \in ToLook : i <= j
        /\ looked' = i
        /\ \/ /\ Cached /\ (canceled \/ Fault("load"))
              /\ outcome' = "failed"
              /\ UNCHANGED <<misses, itemVars, counts>>
           \/ /\ Cached /\ value # None
              /\ \E seen \in Visited(<<i>>) :
                   /\ \/ seen = Indexes(i) /\ UNCHANGED outcome
                      \/ ObserverFails /\ outcome' = "failed"
                   /\ Give(seen, Result("value", value))
                   /\ Mark(seen, "hit")
                   /\ Add({"Hits"}, Cardinality(seen))
              /\ UNCHANGED misses
           \/ /\ Cached => value = None
              /\ misses' = Append(misses, i)
              /\ Add({"Misses"}, IF Cached THEN Cardinality(Indexes(i)) ELSE 0)
              /\ UNCHANGED <<outcome, itemVars>>
        /\ UNCHANGED <<engine, run, store, canceled, mapVars, pc, batchVars, paid>>

\* Without misses runBulk is done; else Map gets the batches.
StartMap ==
    /\ IsBulk /\ outcome = "loading" /\ ToLook = {}
    /\ outcome' = IF misses = <<>> THEN "ok" ELSE "mapping"
    /\ UNCHANGED <<engine, run, store, canceled, looked, misses, mapVars, pc, batchVars, paid,
                   itemVars, counts>>

\* runBulk returns the results or Map's error.
Return ==
    /\ IsBulk /\ Joined
    /\ UNCHANGED <<engine, run, store, canceled, looked, misses, mapVars, pc, batchVars, paid,
                   itemVars, counts>>
------------------------------------------------------------------------------
(* One batch                                                                 *)

\* env.admit for all units of the batch.
Admit(b) ==
    /\ IsBulk /\ pc[b] = "admit"
    /\ \/ Goto(b, "do") /\ Add({"StartedSequences"}, IF attempt[b] = 1 THEN 1 ELSE 0)
       \/ (Fault("refuse") \/ CtxDone) /\ Goto(b, "failed") /\ UNCHANGED counts
    /\ UNCHANGED <<mainVars, store, mapVars, batchVars, paid, itemVars>>

\* doBulk returns without an error: a value per group, or fewer, which is fatal.
\* The values are metered before any of them is stored; a meter that overflows is
\* fatal too, and the batch is lost although its work was done.
DoSucceeds(b) ==
    /\ IsBulk /\ pc[b] = "do"
    /\ Add({"WorkCalls"}, 1)
    /\ \/ Goto(b, "store") /\ paid' = paid \cup ToSet(Batch(b)) /\ UNCHANGED faulty
       \/ /\ MeterOverflows
          /\ Goto(b, "failed")
          /\ paid' = paid \cup ToSet(Batch(b))
          /\ faulty' = faulty \cup {b}
       \/ Fault("short") /\ Goto(b, "failed") /\ UNCHANGED <<paid, faulty>>
    /\ UNCHANGED <<mainVars, store, mapVars, attempt, place, itemVars>>

\* doBulk fails with a transient error, attempts are left, and the retry is
\* journalled for every item of the batch.
DoRetries(b) ==
    /\ IsBulk /\ pc[b] = "do"
    /\ ~CtxDone /\ Fault("transient") /\ attempt[b] < Attempts
    /\ Add({"WorkCalls", "Retries"}, 1)
    /\ Goto(b, "backoff") \/ (ObserverFails /\ Goto(b, "failed"))
    /\ UNCHANGED <<mainVars, store, mapVars, batchVars, paid, itemVars>>

\* The backoff's select: the delay is over, or the context is done.
BackOff(b) ==
    /\ IsBulk /\ pc[b] = "backoff"
    /\ \/ Goto(b, "admit") /\ attempt' = [attempt EXCEPT ![b] = @ + 1]
       \/ CtxDone /\ Goto(b, "failed") /\ UNCHANGED attempt
    /\ UNCHANGED <<mainVars, store, mapVars, place, faulty, paid, itemVars, counts>>

\* An error that is not fatal and not retried.
LastError(b) == Fault("data") \/ (Fault("transient") /\ attempt[b] = Attempts)

\* doBulk fails for good: fatal to the run (what it returned is metered first), or
\* the items of the batch are flagged and journalled one by one, until the ledger
\* fails.
DoFails(b) ==
    LET flag == IF OnError = "Skip" THEN "skipped" ELSE "quarantined"
        counter == IF OnError = "Skip" THEN "Skipped" ELSE "Quarantined"
        all == UNION {Indexes(i) : i \in ToSet(Batch(b))}
    IN
    /\ IsBulk /\ pc[b] = "do"
    /\ \/ /\ \/ CtxDone \/ Fault("fatal") \/ MeterOverflows
             \/ OnError = "FailFast" /\ LastError(b)
          /\ Goto(b, "failed")
          /\ Add({"WorkCalls"}, 1)
          /\ UNCHANGED results
       \/ /\ ~CtxDone /\ OnError # "FailFast" /\ LastError(b)
          /\ \E seen \in Visited(Batch(b)) :
               /\ \/ seen = all /\ Goto(b, "ended")
                  \/ ObserverFails /\ Goto(b, "failed")
               /\ Give(seen, Result(flag, None))
               /\ counts' = [counts EXCEPT !["WorkCalls"] = @ + 1,
                                           ![counter] = @ + Cardinality(seen)]
    /\ UNCHANGED <<mainVars, store, mapVars, batchVars, paid, outcomes>>

\* Mutation of Commit: the group's context decides whether a result is kept.
CommitUnlessCanceled(b) ==
    LET i == Batch(b)[place[b]]
        value == <<run, i>>
    IN  /\ IsBulk /\ pc[b] = "store"
        /\ IF CtxDone
             THEN Goto(b, "failed") /\ UNCHANGED <<store, itemVars, counts>>
             ELSE /\ store' = IF Cached THEN [store EXCEPT ![KeyOf[i]] = value] ELSE store
                  /\ Add({"Stored"}, IF Cached THEN 1 ELSE 0)
                  /\ Give(Indexes(i), Result("value", value))
                  /\ Mark(Indexes(i), IF Cached THEN "stored" ELSE "pending")
                  /\ Goto(b, "observe")
        /\ UNCHANGED <<mainVars, mapVars, batchVars, paid>>

\* Mutation of Commit: the values are matched with the batch from its end.
CommitReversed(b) ==
    LET i == Batch(b)[place[b]]
        value == <<run, Batch(b)[Len(Batch(b)) + 1 - place[b]]>>
    IN  /\ IsBulk /\ pc[b] = "store"
        /\ store' = IF Cached THEN [store EXCEPT ![KeyOf[i]] = value] ELSE store
        /\ Add({"Stored"}, IF Cached THEN 1 ELSE 0)
        /\ Give(Indexes(i), Result("value", value))
        /\ Mark(Indexes(i), IF Cached THEN "stored" ELSE "pending")
        /\ Goto(b, "observe")
        /\ UNCHANGED <<mainVars, mapVars, batchVars, paid>>

\* The next value of the batch is stored, with a context that is never done, and
\* becomes the result of all items of its group.  A Store that fails may have
\* taken effect (module FileCache: the sync of the directory fails).
Commit(b) ==
    LET i == Batch(b)[place[b]]
        value == <<run, i>>
        stored == IF Cached THEN [store EXCEPT ![KeyOf[i]] = value] ELSE store
    IN  /\ IsBulk /\ pc[b] = "store"
        /\ \/ /\ store' = stored
              /\ Add({"Stored"}, IF Cached THEN 1 ELSE 0)
              /\ Give(Indexes(i), Result("value", value))
              /\ Mark(Indexes(i), IF Cached THEN "stored" ELSE "pending")
              /\ Goto(b, "observe")
              /\ UNCHANGED faulty
           \/ /\ Cached /\ Fault("store")
              /\ store' \in {store, stored}
              /\ Goto(b, "failed")
              /\ faulty' = faulty \cup {b}
              /\ UNCHANGED <<itemVars, counts>>
        /\ UNCHANGED <<mainVars, mapVars, attempt, place, paid>>

\* Its items are journalled and go to the hook before the next value is stored.
Observe(b) ==
    /\ IsBulk /\ pc[b] = "observe"
    /\ \/ /\ place' = [place EXCEPT ![b] = @ + 1]
          /\ Goto(b, IF place[b] = Len(Batch(b)) THEN "ended" ELSE "store")
          /\ UNCHANGED faulty
       \/ /\ ObserverFails
          /\ Goto(b, "failed")
          /\ faulty' = faulty \cup {b}
          /\ UNCHANGED place
    /\ UNCHANGED <<mainVars, store, mapVars, attempt, paid, itemVars, counts>>

BulkMainStep == (\E i \in Items : Load(i)) \/ StartMap \/ Return

BulkStep(b) ==
    \/ Admit(b) \/ DoSucceeds(b) \/ DoRetries(b) \/ BackOff(b) \/ DoFails(b) \/ Commit(b)
    \/ Observe(b)
==============================================================================
