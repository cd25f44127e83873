----------------------------- MODULE ParallelMap -----------------------------
(***************************************************************************)
(* execution.Map (src/execution/map.go) and what its three cached callers  *)
(* have in common: runBulk (src/flow/bulk.go), MapCached and               *)
(* MapCachedBatches (src/execution/cached_map.go, cached_batch_map.go).    *)
(* Items are grouped by key, hits are loaded one after the other, and Map  *)
(* hands the batches of misses to a pool of workers under one errgroup.    *)
(* The callers' own steps are in modules Bulk and CachedMap; MapEngines    *)
(* puts them together.                                                     *)
(*                                                                         *)
(* What the provider computes for the group of item i is <<run, i>>.       *)
(* Admission is a grant or a refusal (module Admission).                   *)
(***************************************************************************)
EXTENDS Integers, Sequences, FiniteSets, SequencesExt

CONSTANTS N,          \* number of items
          Keys,       \* digests of the cache keys
          KeyOf,      \* KeyOf[i]: the key of item i
          Engines,    \* the callers to look at, a subset of EngineNames
          BatchSize,
          Pool,       \* MapOptions.Workers
          Attempts,   \* Policy.Retry.Attempts of the bulk engine
          OnError,    \* Policy.OnError of the bulk engine
          MaxRuns,    \* how often the program is started on one Store
          Faults,     \* a subset of FaultKinds
          None        \* no value

EngineNames == {"Bulk", "BulkUncached", "MapCached", "MapCachedBatches"}

\* "observer": an observer fails by itself; "strict": the ledger refuses an event
\* when the context it is given is done, as a sink that does I/O under it does.
FaultKinds == {"load", "store", "observer", "strict", "meter", "refuse", "cost", "short",
               "cancel", "transient", "data", "fatal"}

Items == 1 .. N
Values == (1 .. MaxRuns) \X Items

ASSUME ParallelMapAssumption ==
    /\ N \in Nat /\ KeyOf \in [Items -> Keys]
    /\ Engines \subseteq EngineNames
    /\ {BatchSize, Pool, Attempts, MaxRuns} \subseteq Nat \ {0}
    /\ OnError \in {"FailFast", "Quarantine", "Skip"}
    /\ Faults \subseteq FaultKinds
    /\ None \notin Values

VARIABLES
    engine,    \* the caller of Map
    run,       \* number of the current program start
    store,     \* store[k]: the stored value, or None; survives a restart
    canceled,  \* the caller's context is done
    outcome,   \* "loading", "mapping", "ok" or "failed"
    looked,    \* the latest group that was looked up, or 0
    misses,    \* the groups to work on, each named by its first item
    fed,       \* how many batches Map's feeder has handed over
    feeder,    \* Map's feeder: "on", "done" or "failed"
    pc,        \* pc[b]: where the worker on batch b stands
    attempt,   \* attempt[b]: attempt of its loop
    place,     \* place[b]: the group of b being committed
    faulty,    \* the batches whose commit was cut short, at place[b] (history)
    paid,      \* the groups whose work has succeeded in this run
    results,   \* results[i]: the item's result
    outcomes,  \* outcomes[i]: its CacheOutcome: "pending", "hit" or "stored"
    counts     \* the StepReport or CacheReport

vars == <<engine, run, store, canceled, outcome, looked, misses, fed, feeder, pc, attempt,
          place, faulty, paid, results, outcomes, counts>>

mainVars == <<engine, run, canceled, outcome, looked, misses>>
mapVars == <<fed, feeder>>
batchVars == <<attempt, place, faulty>>
itemVars == <<results, outcomes>>

\* CacheReport.Writes is the StepReport's Stored.
Counters == {"Hits", "Misses", "Stored", "StartedSequences", "WorkCalls", "Retries",
             "Quarantined", "Skipped"}

Result(kind, value) == [kind |-> kind, value |-> value]
NoResult == Result("none", None)

Fault(kind) == kind \in Faults
Cached == engine # "BulkUncached"

Add(names, n) == counts' = [c \in Counters |-> counts[c] + (IF c \in names THEN n ELSE 0)]

\* The value becomes the result of the items.
Give(items, result) ==
    results' = [j \in Items |-> IF j \in items THEN result ELSE results[j]]

Mark(items, state) ==
    outcomes' = [j \in Items |-> IF j \in items THEN state ELSE outcomes[j]]
------------------------------------------------------------------------------
(* Groups and batches                                                        *)

\* The items a group stands for.  Groups are looked up in the order of their first
\* items, by which they are named; these are still to look up.
Indexes(i) == IF Cached THEN {j \in Items : KeyOf[j] = KeyOf[i]} ELSE {i}
Groups == {i \in Items : \A j \in Indexes(i) : i <= j}
ToLook == {i \in Groups : i > looked}

\* What a loop over the items of the groups has visited when it ends early: all
\* groups before some place, and the items of the group there up to some item.
Visited(groups) ==
    {(UNION {Indexes(groups[q]) : q \in 1 .. p - 1}) \cup {j \in Indexes(groups[p]) : j <= last} :
       p \in DOMAIN groups, last \in Items} \ {{}}

Size == IF engine = "MapCached" THEN 1 ELSE BatchSize

\* misses[start:end] of batch b, and the number of batches.
Batch(b) ==
    LET start == (b - 1) * Size
        end == IF start + Size < Len(misses) THEN start + Size ELSE Len(misses)
    IN  SubSeq(misses, start + 1, end)

BatchCount == (Len(misses) + Size - 1) \div Size
Batches == 1 .. BatchCount
------------------------------------------------------------------------------
(* Map                                                                       *)

\* The errgroup's context.
CtxDone == canceled \/ feeder = "failed" \/ \E b \in Batches : pc[b] = "failed"

Running == {b \in Batches : pc[b] \notin {"queued", "ended", "failed"}}
Failed == {b \in Batches : pc[b] = "failed"}

\* The feeder hands the next batch to an idle worker.
Feed ==
    /\ outcome = "mapping" /\ feeder = "on" /\ fed < BatchCount
    /\ Cardinality(Running) + Cardinality(Failed) < Pool
    /\ fed' = fed + 1
    /\ pc' = [pc EXCEPT ![fed + 1] = "admit"]
    /\ UNCHANGED <<mainVars, store, feeder, batchVars, paid, itemVars, counts>>

\* Mutation of FeederReturns: the feeder does not watch the context.
FeederReturnsFed ==
    /\ outcome = "mapping" /\ feeder = "on"
    /\ fed = BatchCount
    /\ feeder' = "done"
    /\ UNCHANGED <<mainVars, store, fed, pc, batchVars, paid, itemVars, counts>>

\* Every batch was handed over, or the feeder's select saw the context done.
FeederReturns ==
    /\ outcome = "mapping" /\ feeder = "on"
    /\ fed = BatchCount \/ CtxDone
    /\ feeder' = IF fed = BatchCount THEN "done" ELSE "failed"
    /\ UNCHANGED <<mainVars, store, fed, pc, batchVars, paid, itemVars, counts>>

FeederStep == Feed \/ FeederReturns

\* group.Wait returns, with the first error if there is one.
Joined ==
    /\ outcome = "mapping" /\ feeder # "on" /\ Running = {}
    /\ outcome' = IF Failed # {} \/ feeder = "failed" THEN "failed" ELSE "ok"

Goto(b, label) == pc' = [pc EXCEPT ![b] = label]
------------------------------------------------------------------------------
(* The caller and the program                                                *)

CallerCancels ==
    /\ Fault("cancel") /\ ~canceled /\ outcome \in {"loading", "mapping"}
    /\ canceled' = TRUE
    /\ UNCHANGED <<engine, run, store, outcome, looked, misses, mapVars, pc, batchVars, paid,
                   itemVars, counts>>

\* The program ends or crashes and is started again on the same Store.
Restart ==
    /\ run < MaxRuns
    /\ run' = run + 1
    /\ canceled' = FALSE
    /\ outcome' = "loading"
    /\ looked' = 0
    /\ misses' = <<>>
    /\ fed' = 0
    /\ feeder' = "on"
    /\ pc' = [b \in Items |-> "queued"]
    /\ attempt' = [b \in Items |-> 1]
    /\ place' = [b \in Items |-> 1]
    /\ faulty' = {}
    /\ paid' = {}
    /\ results' = [i \in Items |-> NoResult]
    /\ outcomes' = [i \in Items |-> "pending"]
    /\ counts' = [c \in Counters |-> 0]
    /\ UNCHANGED <<engine, store>>

Init ==
    /\ engine \in Engines
    /\ run = 1
    /\ store = [k \in Keys |-> None]
    /\ canceled = FALSE
    /\ outcome = "loading"
    /\ looked = 0
    /\ misses = <<>>
    /\ fed = 0
    /\ feeder = "on"
    /\ pc = [b \in Items |-> "queued"]
    /\ attempt = [b \in Items |-> 1]
    /\ place = [b \in Items |-> 1]
    /\ faulty = {}
    /\ paid = {}
    /\ results = [i \in Items |-> NoResult]
    /\ outcomes = [i \in Items |-> "pending"]
    /\ counts = [c \in Counters |-> 0]
==============================================================================
