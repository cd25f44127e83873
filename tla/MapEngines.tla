----------------------------- MODULE MapEngines -----------------------------
(***************************************************************************)
(* The callers of execution.Map, their program and the Store it is started *)
(* on again: modules Bulk and CachedMap over ParallelMap.                  *)
(***************************************************************************)
EXTENDS Bulk, CachedMap

MainStep == BulkMainStep \/ CachedMainStep \/ FeederStep

BatchStep(b) == BulkStep(b) \/ CachedStep(b)

Next ==
    \/ MainStep
    \/ \E b \in Batches : BatchStep(b)
    \/ CallerCancels
    \/ Restart

Spec == Init /\ [][Next]_vars

\* Goroutines run, and a provider, a Store, a limiter and a timer answer.
Fairness == WF_vars(MainStep) /\ \A b \in Items : WF_vars(b \in Batches /\ BatchStep(b))

FairSpec == Spec /\ Fairness
------------------------------------------------------------------------------
Ended == outcome \in {"ok", "failed"}

TypeOK ==
    /\ engine \in Engines /\ run \in 1 .. MaxRuns
    /\ store \in [Keys -> Values \cup {None}]
    /\ canceled \in BOOLEAN
    /\ outcome \in {"loading", "mapping", "ok", "failed"}
    /\ looked \in 0 .. N /\ ToSet(misses) \subseteq Items
    /\ fed \in 0 .. BatchCount /\ feeder \in {"on", "done", "failed"}
    /\ pc \in [Items -> {"queued", "admit", "do", "backoff", "store", "observe", "ended",
                         "failed"}]
    /\ attempt \in [Items -> 1 .. Attempts] /\ place \in [Items -> 1 .. N]
    /\ faulty \subseteq Batches /\ paid \subseteq Items
    /\ outcomes \in [Items -> {"pending", "hit", "stored"}]

\* A value lies in the slot and under the key of the item it was computed for,
\* or of one with the same key, whichever batch, run or hit it came from; and a
\* call that succeeds has a result in every slot.
ResultsAligned ==
    /\ \A i \in Items : results[i].kind = "value" =>
         /\ i \in Indexes(results[i].value[2])
         /\ results[i].value[1] = run \/ outcomes[i] = "hit"
    /\ \A k \in Keys : store[k] # None => KeyOf[store[k][2]] = k
    /\ outcome = "ok" => \A i \in Items : results[i] # NoResult

\* When the call is over, the work that succeeded is in the Store, whatever has
\* become of the sibling batches and of the caller's context meanwhile (Store is
\* called with context.WithoutCancel).  A batch loses something only from the
\* place at which its own commit was cut short: by its Store, its observer or,
\* before the first place, by an overflowing meter (src/flow/bulk.go:256, 347).
PaidWorkIsKept ==
    Cached /\ Ended =>
      \A b \in Batches : \A p \in DOMAIN Batch(b) :
        Batch(b)[p] \in paid /\ (b \in faulty => p < place[b]) =>
          store[KeyOf[Batch(b)[p]]] = <<run, Batch(b)[p]>>

\* What the code says of a batch whose sibling fails: "Commit each result even if
\* a sibling batch just canceled the run: completed provider work stays
\* recoverable" (src/flow/bulk.go:363).
CompletedWorkRecoverable ==
    Cached /\ Ended => \A i \in paid : store[KeyOf[i]] = <<run, i>>

\* What the caller is told per item and in total is what happened, at every
\* moment and also when the call fails: a hit was in the Store before this run, an
\* item reported stored can be loaded, nothing is counted twice, and every work
\* call is the first of its sequence or a retry.
OutcomesTruthful ==
    LET reported(state) == {i \in Items : outcomes[i] = state}
        keptNow == {i \in ToSet(misses) : store[KeyOf[i]] = <<run, i>>}
        flagged(kind) == {i \in Items : results[i].kind = kind}
    IN
    /\ \A i \in reported("hit") : store[KeyOf[i]] # None /\ store[KeyOf[i]][1] < run
    /\ \A i \in reported("stored") : store[KeyOf[i]] # None /\ store[KeyOf[i]][1] = run
    /\ counts["Hits"] = Cardinality(reported("hit"))
    /\ IF faulty = {} /\ Cached
         THEN counts["Stored"] = Cardinality(keptNow)
         ELSE counts["Stored"] <= Cardinality(keptNow)
    /\ counts["Quarantined"] = Cardinality(flagged("quarantined"))
    /\ counts["Skipped"] = Cardinality(flagged("skipped"))
    /\ outcome = "ok" /\ Cached =>
         /\ counts["Hits"] + counts["Misses"] = N
         /\ \A i \in flagged("value") : outcomes[i] # "pending"
    /\ outcome = "ok" =>
         counts["WorkCalls"] = (IF IsBulk THEN counts["StartedSequences"] ELSE BatchCount)
                               + counts["Retries"]

\* The call returns, whatever fails: the feeder never waits for workers that
\* have all ended with an error.
MapEnds == outcome \in {"loading", "mapping"} ~> Ended
==============================================================================
