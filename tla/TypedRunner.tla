---------------------------- MODULE TypedRunner ----------------------------
(***************************************************************************)
(* The per-stage engine of a plain step: what happens to one item between  *)
(* the channel it comes from and the channel it goes to (src/flow/run.go:  *)
(* process, follow, lead, work, success, fail).  Items with equal keys     *)
(* share one in-flight call; a cached step loads before it works and       *)
(* stores what it paid for; retries, failure modes, the ledger, the result *)
(* hook and cancellation decide the rest.                                  *)
(*                                                                         *)
(* A worker goroutine is identified with the item it is processing.  The   *)
(* value of a successful Do is <<run, item>>, so that two executions for   *)
(* one key are told apart.  Admission is a grant or a refusal (module      *)
(* Admission), channels are left to Pipeline.  Between two steps of one    *)
(* item everything another goroutine can see is final: the counters that   *)
(* follow a call are updated with it.                                      *)
(***************************************************************************)
EXTENDS Integers, FiniteSets

CONSTANTS Items,      \* the items of all runners
          Inputs,     \* the sets of items that a program may process
          Runners,    \* the typedRunners of one process that share a Store
          RunnerOf,   \* RunnerOf[i]: the runner that processes item i
          Keys,       \* digests of the cache keys
          KeyOf,      \* KeyOf[i]: the key of item i
          Cached,     \* the runners with an Identity and a Store
          Pool,       \* Policy.Workers
          Attempts,   \* Policy.Retry.Attempts
          OnError,    \* OnError[r]: Policy.OnError of the step of runner r
          MaxRuns,    \* how often the program is started on one Store
          Faults,     \* the faults that may happen, a subset of FaultKinds
          None        \* no value

\* Failing or refusing collaborators, and the classes of a failing Do ("fatal"
\* stands for a class the engine does not know as well: both end the run).
FaultKinds == {"key", "load", "store", "ledger", "hook", "meter", "refuse", "cancel",
               "transient", "data", "fatal"}

\* What the Do of an item returns in one run of the program.
Values == (1 .. MaxRuns) \X Items

ASSUME RunnerAssumption ==
    /\ Inputs \subseteq SUBSET Items /\ \A s \in Inputs : IsFiniteSet(s)
    /\ RunnerOf \in [Items -> Runners]
    /\ KeyOf \in [Items -> Keys]
    /\ Cached \subseteq Runners
    /\ Pool \in Nat \ {0} /\ Attempts \in Nat \ {0} /\ MaxRuns \in Nat \ {0}
    /\ OnError \in [Runners -> {"FailFast", "Quarantine", "Skip"}]
    /\ Faults \subseteq FaultKinds
    /\ None \notin Values

\* No two cached steps have the same Identity: a key includes its Kind and Version.
KeysApart ==
    \A i, j \in Items :
        {RunnerOf[i], RunnerOf[j]} \subseteq Cached /\ KeyOf[i] = KeyOf[j] =>
            RunnerOf[i] = RunnerOf[j]

VARIABLES
    input,      \* the items this program processes
    run,        \* number of the current program start
    store,      \* store[k]: the stored value, or None; survives a restart
    canceled,   \* the runners whose group context is done
    call,       \* call[r][k]: the inflightCall: NoResult, Open or what it published
    pc,         \* pc[i]: where item i stands
    leads,      \* the items whose goroutine owns the in-flight call of its key
    attempt,    \* attempt[i]: attempt of work's loop
    got,        \* got[i]: what Do returned for i in this run, or None
    result,     \* result[i]: the result or error process returns
    counts      \* counts[r]: the StepReport

vars == <<input, run, store, canceled, call, pc, leads, attempt, got, result, counts>>

PC == {"idle", "load", "backoff", "admit", "do", "store", "follow", "observe", "publish",
       "return", "ended"}

Counters == {"Items", "Hits", "Misses", "Stored", "StartedSequences", "WorkCalls", "Retries",
             "Quarantined", "Skipped"}

\* A result: its kind, value and cache state, or an error and its cause.
Result(kind, value, state) == [kind |-> kind, value |-> value, state |-> state]
Error(cause) == Result("error", None, cause)
NoResult == Result("none", None, "")
Open == Result("open", None, "")

IsCached(i) == RunnerOf[i] \in Cached
Of(r) == {i \in input : RunnerOf[i] = r}
CtxDone(i) == RunnerOf[i] \in canceled
Fault(kind) == kind \in Faults

Goto(i, label) == pc' = [pc EXCEPT ![i] = label]

\* runner.count: add one to each of the named counters.
Count(i, names) ==
    counts' = [counts EXCEPT ![RunnerOf[i]] =
                 [c \in Counters |-> @[c] + (IF c \in names THEN 1 ELSE 0)]]

\* process is about to return: a leader publishes to its call first.
Resolve(i, outcome) ==
    /\ result' = [result EXCEPT ![i] = outcome]
    /\ Goto(i, IF i \in leads THEN "publish" ELSE "return")
------------------------------------------------------------------------------
(* process                                                                   *)

Busy(r) == {i \in Of(r) : pc[i] \notin {"idle", "ended"}}
Errored(r) == {i \in Of(r) : pc[i] = "ended" /\ result[i].kind = "error"}

\* Mutation of Process: the lookup of the in-flight call is left out.
ProcessAlwaysLeads(i) ==
    /\ i \in input /\ pc[i] = "idle"
    /\ Cardinality(Busy(RunnerOf[i])) + Cardinality(Errored(RunnerOf[i])) < Pool
    /\ Count(i, {"Items"})
    /\ call' = [call EXCEPT ![RunnerOf[i]][KeyOf[i]] = Open]
    /\ leads' = leads \cup {i}
    /\ Goto(i, "load")
    /\ UNCHANGED <<input, run, store, canceled, attempt, got, result>>

\* A free worker takes the item.  An uncached item goes to work; a cached one
\* gets its key, then, under the mutex, follows the call it finds or leads.
Process(i) ==
    LET r == RunnerOf[i]
        k == KeyOf[i]
    IN  /\ i \in input /\ pc[i] = "idle"
        /\ Cardinality(Busy(r)) + Cardinality(Errored(r)) < Pool
        /\ Count(i, {"Items"})
        /\ \/ /\ ~IsCached(i)
              /\ Goto(i, "admit")
              /\ UNCHANGED <<call, leads, result>>
           \/ /\ IsCached(i) /\ Fault("key")
              /\ result' = [result EXCEPT ![i] = Error("key")]
              /\ Goto(i, "return")
              /\ UNCHANGED <<call, leads>>
           \/ /\ IsCached(i) /\ call[r][k] # NoResult
              /\ Goto(i, "follow")
              /\ UNCHANGED <<call, leads, result>>
           \/ /\ IsCached(i) /\ call[r][k] = NoResult
              /\ call' = [call EXCEPT ![r][k] = Open]
              /\ leads' = leads \cup {i}
              /\ Goto(i, "load")
              /\ UNCHANGED result
        /\ UNCHANGED <<input, run, store, canceled, attempt, got>>

\* Mutation of Publish: a leader that quarantines returns before it closes done.
PublishValues(i) ==
    /\ pc[i] = "publish"
    /\ call' = IF result[i].kind = "quarantined" THEN call
                 ELSE [call EXCEPT ![RunnerOf[i]][KeyOf[i]] = result[i]]
    /\ Goto(i, "return")
    /\ UNCHANGED <<input, run, store, canceled, leads, attempt, got, result, counts>>

\* lead returned: the call gets the result and its done channel is closed.
Publish(i) ==
    /\ pc[i] = "publish"
    /\ call' = [call EXCEPT ![RunnerOf[i]][KeyOf[i]] = result[i]]
    /\ Goto(i, "return")
    /\ UNCHANGED <<input, run, store, canceled, leads, attempt, got, result, counts>>

\* process returned: an error ends the worker and cancels the group context.
Return(i) ==
    /\ pc[i] = "return"
    /\ canceled' = IF result[i].kind = "error" THEN canceled \cup {RunnerOf[i]} ELSE canceled
    /\ Goto(i, "ended")
    /\ UNCHANGED <<input, run, store, call, leads, attempt, got, result, counts>>
------------------------------------------------------------------------------
(* follow                                                                    *)

\* The select of follow sees the context done.
FollowCanceled(i) ==
    /\ pc[i] = "follow"
    /\ CtxDone(i)
    /\ Resolve(i, Error("ctx"))
    /\ UNCHANGED <<input, run, store, canceled, call, leads, attempt, got, counts>>

\* Mutation of FollowCounters: a flagged duplicate is not counted as a miss.
FollowCountersFlagOnly(outcome) ==
    IF outcome.kind = "quarantined" THEN {"Quarantined"}
    ELSE IF outcome.kind = "skipped" THEN {"Skipped"}
    ELSE IF outcome.state = "hit" THEN {"Hits"} ELSE {"Misses"}

\* What a follower counts for the outcome it replicates.
FollowCounters(outcome) ==
    IF outcome.kind = "quarantined" THEN {"Misses", "Quarantined"}
    ELSE IF outcome.kind = "skipped" THEN {"Misses", "Skipped"}
    ELSE IF outcome.state = "hit" THEN {"Hits"} ELSE {"Misses"}

\* The select of follow sees the call done: replicate its error or outcome.
FollowCall(i) ==
    LET outcome == call[RunnerOf[i]][KeyOf[i]] IN
    /\ pc[i] = "follow"
    /\ outcome # Open
    /\ result' = [result EXCEPT ![i] = outcome]
    /\ IF outcome.kind = "error"
         THEN Goto(i, "return") /\ UNCHANGED counts
         ELSE Goto(i, "observe") /\ Count(i, FollowCounters(outcome))
    /\ UNCHANGED <<input, run, store, canceled, call, leads, attempt, got>>
------------------------------------------------------------------------------
(* lead                                                                      *)

\* Store.Load fails when the context is done, else it finds the entry or not.
Hit(i) == ~CtxDone(i) /\ store[KeyOf[i]] # None
Miss(i) == ~CtxDone(i) /\ store[KeyOf[i]] = None

\* Store.Store overwrites the entry of a key under the mutex.
StoreValue(i) == store' = [store EXCEPT ![KeyOf[i]] = got[i]]

\* Mutation of Load: a key is worked on without asking the Store.
LoadNothing(i) ==
    /\ pc[i] = "load"
    /\ Goto(i, "admit")
    /\ Count(i, {"Misses"})
    /\ UNCHANGED <<input, run, store, canceled, call, leads, attempt, got, result>>

\* Store.Load: an error, a hit, or a miss that goes to work.
Load(i) ==
    /\ pc[i] = "load"
    /\ \/ /\ CtxDone(i) \/ Fault("load")
          /\ Resolve(i, Error("load"))
          /\ UNCHANGED counts
       \/ /\ Hit(i)
          /\ result' = [result EXCEPT ![i] = Result("value", store[KeyOf[i]], "hit")]
          /\ Goto(i, "observe")
          /\ Count(i, {"Hits"})
       \/ /\ Miss(i)
          /\ Goto(i, "admit")
          /\ Count(i, {"Misses"})
          /\ UNCHANGED result
    /\ UNCHANGED <<input, run, store, canceled, call, leads, attempt, got>>
------------------------------------------------------------------------------
(* work                                                                      *)

\* env.admit grants one unit of every resource, refuses, or sees the context.
Admit(i) ==
    /\ pc[i] = "admit"
    /\ \/ /\ Goto(i, "do")
          /\ Count(i, IF attempt[i] = 1 THEN {"StartedSequences"} ELSE {})
          /\ UNCHANGED result
       \/ /\ Fault("refuse") \/ CtxDone(i)
          /\ Resolve(i, Error("admit"))
          /\ UNCHANGED counts
    /\ UNCHANGED <<input, run, store, canceled, call, leads, attempt, got>>

\* Do returns a value, which a cached step stores next.
DoSucceeds(i) ==
    /\ pc[i] = "do"
    /\ got' = [got EXCEPT ![i] = <<run, i>>]
    /\ Count(i, {"WorkCalls"})
    /\ \/ /\ IsCached(i)
          /\ Goto(i, "store")
          /\ UNCHANGED result
       \/ /\ ~IsCached(i)
          /\ result' = [result EXCEPT ![i] = Result("value", <<run, i>>, "")]
          /\ Goto(i, "observe")
    /\ UNCHANGED <<input, run, store, canceled, call, leads, attempt>>

\* Do returns, with a value or an error, and a meter overflows: AttemptMeter's
\* for either, Meter's for a value that is not stored yet.
DoOverflows(i) ==
    /\ pc[i] = "do"
    /\ Fault("meter")
    /\ got' \in {got, [got EXCEPT ![i] = <<run, i>>]}
    /\ Count(i, {"WorkCalls"})
    /\ Resolve(i, Error("meter"))
    /\ UNCHANGED <<input, run, store, canceled, call, leads, attempt>>

\* Do fails while the context is done: no retry and no failure mode.
DoCanceled(i) ==
    /\ pc[i] = "do"
    /\ CtxDone(i)
    /\ Count(i, {"WorkCalls"})
    /\ Resolve(i, Error("ctx"))
    /\ UNCHANGED <<input, run, store, canceled, call, leads, attempt, got>>

\* Do fails with a transient error and attempts are left: the retry is counted
\* and journalled, then the item backs off.
DoRetries(i) ==
    /\ pc[i] = "do"
    /\ ~CtxDone(i) /\ Fault("transient") /\ attempt[i] < Attempts
    /\ Count(i, {"WorkCalls", "Retries"})
    /\ \/ /\ Goto(i, "backoff")
          /\ UNCHANGED result
       \/ Fault("ledger") /\ Resolve(i, Error("ledger"))
    /\ UNCHANGED <<input, run, store, canceled, call, leads, attempt, got>>

\* fail: a last error kills the run, skips the item or quarantines it.
Fail(i, class) ==
    IF class = "fatal" \/ OnError[RunnerOf[i]] = "FailFast"
      THEN Resolve(i, Error(class)) /\ Count(i, {"WorkCalls"})
      ELSE IF OnError[RunnerOf[i]] = "Skip"
        THEN /\ result' = [result EXCEPT ![i] = Result("skipped", None, "")]
             /\ Goto(i, "observe")
             /\ Count(i, {"WorkCalls", "Skipped"})
        ELSE /\ result' = [result EXCEPT ![i] = Result("quarantined", None, "")]
             /\ Goto(i, "observe")
             /\ Count(i, {"WorkCalls", "Quarantined"})

\* Do fails with an error that is not retried.
DoFails(i) ==
    /\ pc[i] = "do"
    /\ ~CtxDone(i)
    /\ \E class \in {"transient", "data", "fatal"} :
         /\ Fault(class)
         /\ class = "transient" => attempt[i] = Attempts
         /\ Fail(i, class)
    /\ UNCHANGED <<input, run, store, canceled, call, leads, attempt, got>>

\* The backoff's select: the delay is over, or the context is done.
BackOff(i) ==
    /\ pc[i] = "backoff"
    /\ \/ /\ attempt' = [attempt EXCEPT ![i] = @ + 1]
          /\ Goto(i, "admit")
          /\ UNCHANGED result
       \/ CtxDone(i) /\ Resolve(i, Error("ctx")) /\ UNCHANGED attempt
    /\ UNCHANGED <<input, run, store, canceled, call, leads, got, counts>>

\* Mutation of Commit: success stores with the group's context.
CommitUnlessCanceled(i) ==
    /\ pc[i] = "store"
    /\ IF CtxDone(i)
         THEN Resolve(i, Error("ctx")) /\ UNCHANGED <<store, counts>>
         ELSE /\ StoreValue(i)
              /\ result' = [result EXCEPT ![i] = Result("value", got[i], "stored")]
              /\ Goto(i, "observe")
              /\ Count(i, {"Stored"})
    /\ UNCHANGED <<input, run, canceled, call, leads, attempt, got>>

\* Mutation of Commit: an error of the Store is ignored.
CommitRegardless(i) ==
    /\ pc[i] = "store"
    /\ store' \in {[store EXCEPT ![KeyOf[i]] = got[i]]} \cup (IF Fault("store") THEN {store} ELSE {})
    /\ result' = [result EXCEPT ![i] = Result("value", got[i], "stored")]
    /\ Goto(i, "observe")
    /\ Count(i, {"Stored"})
    /\ UNCHANGED <<input, run, canceled, call, leads, attempt, got>>

\* success stores with a context that is never done.
Commit(i) ==
    /\ pc[i] = "store"
    /\ \/ /\ StoreValue(i)
          /\ result' = [result EXCEPT ![i] = Result("value", got[i], "stored")]
          /\ Goto(i, "observe")
          /\ Count(i, {"Stored"})
       \/ /\ Fault("store")
          /\ Resolve(i, Error("store"))
          /\ UNCHANGED <<store, counts>>
    /\ UNCHANGED <<input, run, canceled, call, leads, attempt, got>>

\* The item's event is journalled, then a value goes to the OnResult hook.
Observe(i) ==
    /\ pc[i] = "observe"
    /\ \/ Resolve(i, result[i])
       \/ Fault("ledger") /\ Resolve(i, Error("ledger"))
       \/ Fault("hook") /\ result[i].kind = "value" /\ Resolve(i, Error("hook"))
    /\ UNCHANGED <<input, run, store, canceled, call, leads, attempt, got, counts>>
------------------------------------------------------------------------------
(* The run                                                                   *)

\* The caller cancels, or another stage of the pipeline fails.
Cancel(r) ==
    /\ Fault("cancel") /\ Of(r) # {} /\ r \notin canceled
    /\ canceled' = canceled \cup {r}
    /\ UNCHANGED <<input, run, store, call, pc, leads, attempt, got, result, counts>>

Fresh ==
    /\ canceled' = {}
    /\ call' = [r \in Runners |-> [k \in Keys |-> NoResult]]
    /\ pc' = [i \in Items |-> "idle"]
    /\ leads' = {}
    /\ attempt' = [i \in Items |-> 1]
    /\ got' = [i \in Items |-> None]
    /\ result' = [i \in Items |-> NoResult]
    /\ counts' = [r \in Runners |-> [c \in Counters |-> 0]]

\* The program ends or crashes at any point and is started again on the same
\* Store: "Durability = per-item memoization", nothing else is kept.
Restart ==
    /\ run < MaxRuns
    /\ run' = run + 1
    /\ Fresh
    /\ UNCHANGED <<input, store>>

Init ==
    /\ input \in Inputs
    /\ run = 1
    /\ store = [k \in Keys |-> None]
    /\ canceled = {}
    /\ call = [r \in Runners |-> [k \in Keys |-> NoResult]]
    /\ pc = [i \in Items |-> "idle"]
    /\ leads = {}
    /\ attempt = [i \in Items |-> 1]
    /\ got = [i \in Items |-> None]
    /\ result = [i \in Items |-> NoResult]
    /\ counts = [r \in Runners |-> [c \in Counters |-> 0]]

\* The steps of a goroutine that is processing i.
ItemStep(i) ==
    \/ Publish(i) \/ Return(i) \/ FollowCanceled(i) \/ FollowCall(i) \/ Load(i) \/ Admit(i)
    \/ DoSucceeds(i) \/ DoOverflows(i) \/ DoCanceled(i) \/ DoRetries(i) \/ DoFails(i)
    \/ BackOff(i) \/ Commit(i) \/ Observe(i)

Next ==
    \/ \E i \in Items : Process(i) \/ ItemStep(i)
    \/ \E r \in Runners : Cancel(r)
    \/ Restart

\* A goroutine that can run does, timers fire, and Do, the Store, the ledger
\* and the hook return.  Nobody has to feed another item, to cancel or restart.
Fairness == \A i \in Items : WF_vars(ItemStep(i))

Spec == Init /\ [][Next]_vars

FairSpec == Spec /\ Fairness
------------------------------------------------------------------------------
(* Properties                                                                *)

Results ==
    {NoResult, Result("skipped", None, ""), Result("quarantined", None, "")}
      \cup {Error(cause) : cause \in FaultKinds \cup {"ctx", "admit"}}
      \cup {Result("value", v, s) : v \in Values, s \in {"", "hit", "stored"}}

\* Every variable keeps its type; in particular work's loop makes at most
\* Attempts attempts (typedRunner.work).
TypeOK ==
    /\ input \in Inputs
    /\ run \in 1 .. MaxRuns
    /\ store \in [Keys -> Values \cup {None}]
    /\ canceled \subseteq Runners
    /\ call \in [Runners -> [Keys -> Results \cup {Open}]]
    /\ pc \in [Items -> PC]
    /\ leads \subseteq Items
    /\ attempt \in [Items -> 1 .. Attempts]
    /\ got \in [Items -> Values \cup {None}]
    /\ result \in [Items -> Results]
    /\ counts \in [Runners -> [Counters -> Nat]]

\* In one process at most one Do call of a cached step succeeds for a key,
\* whatever items share it and whenever they arrive ("so a key never runs twice
\* in one process", src/flow/run.go:816; each runner has its own in-flight map,
\* so that this holds for one step only).
KeyRunsOnce ==
    \A i, j \in Items :
        /\ IsCached(i) /\ RunnerOf[i] = RunnerOf[j] /\ KeyOf[i] = KeyOf[j]
        /\ got[i] # None /\ got[j] # None
        => i = j

Resolved(i) == pc[i] \in {"publish", "return", "ended"} /\ result[i].kind # "error"

\* A run's output never differs from the Store: the value of an item is the
\* stored value of its key, however the item got it, and a quarantined or
\* skipped item is not stored, so that the next run tries it again
\* (src/flow/run.go:817, "duplicate nondeterministic work would desynchronize
\* the run's output from the stored entry").
OutputMatchesStore ==
    \A i \in Items : IsCached(i) /\ Resolved(i) =>
        store[KeyOf[i]] = IF result[i].kind = "value" THEN result[i].value ELSE None

\* A successful Do is in the Store when its item ends, even if the run was
\* canceled meanwhile or the ledger or the hook failed (success, "finish its
\* local atomic commit even if a sibling item has just canceled the run"); only
\* a failing Store or an overflowing meter loses it.
PaidWorkIsKept ==
    \A i \in Items :
        /\ IsCached(i) /\ got[i] # None /\ pc[i] = "ended"
        /\ result[i] \notin {Error("store"), Error("meter")}
        => store[KeyOf[i]] = got[i]

\* An entry, once stored, is never replaced, in this run or a later one: a
\* later run hits it (lead loads before it works, one leader per key).
StoredForGood ==
    [][\A k \in Keys : store[k] # None => store'[k] = store[k]]_vars

\* The report adds up when every item of a runner has ended without an error:
\* each cached item is a hit or a miss, each flagged result and each stored key
\* is counted once, and every work call is a first attempt or a retry (the
\* counters of process, follow, lead, work, success and fail).
ReportAddsUp ==
    \A r \in Runners :
        LET c == counts[r]
            Having(kind) == Cardinality({i \in Of(r) : result[i].kind = kind})
        IN  (\A i \in Of(r) : pc[i] = "ended" /\ result[i].kind # "error") =>
                /\ c["Items"] = Cardinality(Of(r))
                /\ c["Hits"] + c["Misses"] = IF r \in Cached THEN c["Items"] ELSE 0
                /\ c["Hits"] = Cardinality({i \in Of(r) : result[i].state = "hit"})
                /\ c["Quarantined"] = Having("quarantined")
                /\ c["Skipped"] = Having("skipped")
                /\ c["Stored"] = Cardinality({i \in leads \cap Of(r) : got[i] # None})
                /\ c["WorkCalls"] = c["StartedSequences"] + c["Retries"]
                /\ c["Retries"] <= (Attempts - 1) * c["StartedSequences"]

\* An item that a worker took always ends, in particular a follower whose
\* leader fails, is canceled or never publishes a value (follow waits for
\* call.done, which process closes on every path); a crash ends it too.
ItemEnds == \A i \in Items : pc[i] \notin {"idle", "ended"} ~> pc[i] \in {"idle", "ended"}
==============================================================================
