# flowkit in TLA+

Specifications of [flowkit](../src), a Go library that runs typed steps over
many items: in a pipeline of stages or in batches, with resource budgets, rate
limits, retries, a cache of results, and live observation. What matters in such
a program is what happens when several workers, a failing provider, a canceled
context and a crash meet; tests exercise few of these orders. The modules here
translate the code's control flow, TLC explores every order on small instances,
and TLAPS proves the safety properties of every part for all sizes.

Paths below are relative to the repository (`src/`).

## 1. Inventory

| Component | State it keeps | Operations | Hard behaviour | What makes it correct |
|---|---|---|---|---|
| Admission: `flow/run.go` (`runEnv.admit`), `execution/{budget,rate,chain,reservation}.go` | per resource a remaining budget, a token channel, a closed flag and channel; per call the reservations so far | reserve, refuse, roll back, refund, replenish, close, commit | several resources per call, concurrent workers, cancellation and close in mid-acquire, hold-and-wait | budgets are conserved, rates hold, a call pays all or nothing, nobody waits for ever |
| Preflight: `flow/run.go` (`Share`, `Declare`, `ensure`), `execution/resource_plan.go` | plans, budgets, estimate and unpriced names of a shared `runEnv` | register a list of plans; validate a list | late refusal, repeated declaration while budget is being spent, two copies of the arithmetic | all or nothing, one budget per name, cumulative gate, the copies agree |
| Backoff: `flow/run.go` (`retryDelay`, `nextRetryDelay`), `flow/policy.go` | the delay of a retry loop | wait, double | overflow of a 64-bit duration, jitter at the cap | waits lie between base and cap |
| Pipeline driver: `flow/run.go` (`runStages`, `typedRunner.run`, `overrideStageRunner.run`) | channels, goroutines, two levels of errgroup, result slots | feed, receive, process, send, drain, collect, join | full channels, failing stages, close against cancel, Barrier and override stages | every result once, no send on a closed channel, everything ends |
| Typed runner: `flow/run.go` (`process` … `fail`), `flow/store.go` | in-flight calls, Store, counters | follow, load, admit, do, retry, store, observe | duplicate keys, failing leader, cancellation after paid work, crash | one execution per key, output equals Store, paid work is kept |
| Run lifecycle: `flow/run.go` (`Run`, `runCore`), `flow/observe.go` | snapshot sequence, reporter goroutine, journal | start, tick, deliver, stop, join, terminal | two publishers, observers that fail, contexts canceled by flowkit itself | journal and result agree, ordered snapshots, no failure without a cause |
| Caches: `execution/cache.go`, `internal/fsutil/fsutil.go`, `execution/mysql_cache.go` | temp files, entry, directory; a database's tables, schema markers, lock and rows | write, sync, rename, sync directory, load; lock, inspect, create, record, verify, upsert, select | kill and power loss between any two of these; several processes and interrupted DDL in one database | one contract for both: no torn entry, acknowledged means durable; a constructor that succeeds has a usable table and one that is refused met a foreign one |
| Map engines: `execution/map.go`, `flow/bulk.go`, `execution/cached_map.go`, `execution/cached_batch_map.go` | groups by key, batches, feeder and worker pool, results, outcomes, counters | load, feed, admit, do, retry, commit, observe | partial commit, short last batch, dying workers, crash | results in their slots, outcomes and counters tell what happened, paid work kept, ends |
| Batched engine: `flow/batch.go`, `flow/run.go` (`overrideStageRunner`) | groups, answers, the list of missing items, results | group, nested Run, split, repair in a nested Run, collect, deliver | three numberings of the same items, partial answers, failing hooks | each item is resolved once, in its place, and observers hear its index |
| Reports: `flow/report.go`, `flow/observe.go` | counters and maps of the active and the completed nested Runs | merge, clone, snapshot | a reporter that reads while Runs complete; a map shared with running workers | no work is counted twice, snapshots never go back, the last one is complete |

How they interact: `Run` validates the steps, lets `ensure` register their
plans, opens the journal and the reporter, and starts `runStages`; each stage's
workers call `process`, which uses the Store, `admit` and the observers. Bulk
and Batched steps replace the stage's engine (an *override*): alone they run
directly under `runCore`, inside a pipeline they drain their input and run
nested. Every goroutine of a Run shares one errgroup context; the first error
cancels it. The caller's context, the reporter's `runContext` and the group
context are nested in that order, and which of them a call is given decides
several of the findings below.

The parts without state are listed under "Not modelled". `PROJECT.json` lists
every component with its status, the hazards with their lines, and for each
definition the lines it translates.

## 2. Modules

* **AdmissionParams**, **AtomicAdmission**, **Admission** — `Admission` has one
  action per lock or channel operation of a worker in `admit`; `pc`, `pos` and
  `acquired` are the loop of `admit` and the loop of `TokenBucket.Reserve`.
  `AtomicAdmission` is the promise in `admit`'s comment ("reserves every named
  resource as one transaction"): a call starts by paying everything in one step.
  `Admission` is checked and proved to implement it; the only shared variable is
  the set of started calls, so the refinement mapping is the identity on it.
  `AdmissionProofs` holds the theorems. Two branches that no limiter of the
  repository takes are left out: a name without a limiter, and a limiter that is
  not reservable.
* **Preflight** — the state of a `runEnv` and the locals of the `ensure` that
  holds its mutex: `Lock` copies what is registered, `Consider` is one round of the
  loop, `Refuse` an early return, `Register` the commit. The mutex keeps a second
  `ensure` out, but not the work that spends a budget meanwhile. `Validated` is the
  second implementation of the same arithmetic. Costs are integers: rounding of
  floating-point sums is left out. A sum of costs is the number of elements of
  `Dollars`, a set with one element for each dollar of each plan.
* **Backoff** — the two functions with Go's wraparound, and the loop that calls
  them. The width of a duration is a constant. `PolicyProofs` holds the theorems
  about Backoff and Preflight, the two parts that carry out a step's policy.
* **Pipeline** — feeder, stages, workers, barrier goroutines, collector, caller
  and reporter. A deferred `close(out)` happens before the errgroup learns of the
  error, so a goroutine first *returns* and then is *joined*. What a stage
  computes for an item is a choice between value, flag and fatal error.
  `EmitOrders` is the order in which an override stage passes its items on: the
  clean ones by index, then the ones that arrived flagged. `PipelineProofs` holds
  the theorems.
* **TypedRunner** — one item's way through `process`. Items stand for the
  goroutines that process them; the pool limits how many are busy. The value of
  a Do is tagged with run and item, so that two executions of a key differ.
  `Restart` ends the program anywhere and keeps only the Store. `KeysApart` says
  that no two cached steps have the same Identity. `TypedRunnerProofs` holds the
  theorems.
* **RunLifecycle** — `Run` around the work of one step, and the goroutine of the
  periodic reporter. Each observer call names the context it is given. A
  *strict* observer refuses a call under a done context, as one doing I/O does.
  `LifecycleProofs` holds the theorems. Its specification is `LifecycleSpec`, so that
  `MCRunControl` can take it up next to Preflight and Backoff.
* **FileCache**, **MySQLCache**, **CacheContract**, **CacheBackends** —
  `FileCache` has one entry and POSIX durability and nothing more: `onDisk` is
  the set of what a power loss may leave at the path. `MySQLCache` has one action
  per SQL statement of `migrate` and of Store and Load, in several processes; a
  statement takes effect or not, its reply may be lost, a lost connection frees
  the schema lock, and the database may be found in any state (no tables, half a
  migration, a table of another version or of somebody else). `CacheContract` is
  the abstract specification of `execution.Cache` for one entry: what is
  published, what a failure may bring back, what Loads answer. `CacheBackends`
  lets a program be wired to either backend and gives the refinement mapping
  under which both implement the contract. A torn file maps to a value outside
  the contract, so a step that exposed one would not be a step of it.
  `CacheProofs` holds the theorems.
* **ParallelMap**, **Bulk**, **CachedMap**, **MapEngines** — `ParallelMap` is
  `execution.Map` (feeder, pool, errgroup) with the grouping by key and the
  batches that its callers share; `Bulk` adds `runBulk` with admission, retries,
  failure modes, meters and observers (which may fail by themselves or, a *strict*
  ledger, because their context is done), `CachedMap` adds `MapCached` and
  `MapCachedBatches` with their outcomes and report. A batch commits its results
  one at a time. A group is named by its first item, and groups are looked up in
  that order. `MapEngines` composes them with the caller, who may cancel, and a
  program that may be started again on the same Store. `MapProofs` holds the
  theorems.
* **Batched** — `runBatched` alone or as a stage of a pipeline. Its two nested
  Runs are reduced to what they do to a group or an item (count retries, answer,
  fail); the loops that split answers and collect repairs take one group or one
  item per step, so that a hook may fail anywhere. `Clean` is the compact slice
  a stage hands over: positions in it, positions in the list of repairs and the
  caller's indexes are three different numberings. The reporter's three steps are
  the lock under which it takes the completed report and the active closure, the
  lock under which that closure copies the counters, and the merge outside both.
  One number and one map stand for all fields of a report. `BatchedProofs` holds
  the theorems.

Admission is a grant or a refusal in TypedRunner and Bulk; processing is a
choice in Pipeline; the work is a choice in RunLifecycle; a nested Run is one in
Batched. Each of these choices
covers every outcome of the module it stands for.

Definitions whose comment begins with "Mutation of" are deliberately wrong
variants. They are used by nothing; each is a plausible slip in the code, and
replacing the original by it makes TLC report the property it is listed with in
`PROJECT.json`.

## 3. Runs

Every run is `tlc -config <cfg> <module>`.

| Run | Instance | What it shows |
|---|---|---|
| `admission` | two workers, two rated resources in opposite orders (bursts of 2) and an unrated one, requests of 1, 2 and 3 units, two calls each | conservation of budgets, rates, atomicity, and that every call is admitted or refused, also one that holds tokens of one bucket while it waits for the other |
| `run_control` | preflight: two names, eleven declarations (equal, different, references, unpriced, uncovered, malformed), all requests of up to two, six gates and none, spending in between; life cycle: streaming or override step, periodic reporter or none, strict or lenient observers, three ticks, every fault, without the configuration of `override_strict`; backoff: every base and cap of a 6-bit duration, six retries | all or nothing at every moment, one budget and plan per name, an estimate that is the cost of the plans, the cumulative gate, agreement with `ValidateResourcePlans`; the journal tells the outcome, ordered snapshots, failures have causes, Run returns; no wraparound, waits within the policy |
| `pipeline` | a streaming stage, then one that streams, is a Barrier or an override; two workers in each, two items, channels of one, every fault | results complete and never duplicated, no send on a closed channel, a Barrier waits, flagged items untouched, everything ends |
| `barrier_cancel` | the Barrier pipeline, the caller may cancel | **violated** `NothingLost` (finding 1) |
| `typed_runner` | a cached step with three items, two of one key (Quarantine), or an uncached one with two items (Skip); two workers, two attempts, two program starts, every fault | one execution per key, output equals Store, paid work kept, counters, stored for good, every item ends |
| `override_strict` | override step, periodic reporter, strict ledger, no faults | **violated** `FailureHasCause` (finding 2) |
| `caches` | file: two Stores and a Load of one key, three processes one after the other, an existing shard directory; MySQL: two processes on one table and a third on another, any initial database | no torn entry, acknowledged entries survive, a successful constructor has a usable table, only foreign tables are refused, and both backends implement `CacheContract` |
| `map_engines` | all four callers of `execution.Map`; six items, five keys, batches of two, two workers, two attempts, two program starts, every fault | aligned results, paid work kept, outcomes and counters true, ends |
| `batched` | alone or as a stage with any items flagged before; three items, groups out of order, uncovered items, overlapping and out-of-range groups, two attempts, at most two retries per nested Run | every item resolved once and in place, observers told the right index, exact and monotone reports |
| `report_race` | the same | **violated** `SnapshotConsistent` (finding 3) |
| `stage_index` | the same | **violated** `HookGetsInputIndex` (finding 4) |
| `sibling_ledger` | the bulk engine of `map_engines`, one program start, a strict ledger and fatal provider errors | **violated** `CompletedWorkRecoverable` (finding 5) |

The largest run, `batched`, has 1.9 million distinct states; `caches` 575,000,
`map_engines` 240,000, `admission` 204,000.

`run_control` asks about three parts that share no state. `MCRunControl` chooses
one of them at the start of a behaviour and leaves the variables of the others as
they are, so its state space is the sum of the three, not their product.

Bounds, and why they suffice. Two workers show every race of a pair, and the
code treats all workers alike; opposite orders of two names are the shortest
hold-and-wait cycle, and the run reaches it: a worker with a token of one bucket
that waits at the other, empty one, while the second worker has it the other way
round; a request above the burst and one above half of it reach
both refusals. Channels of capacity one are full after one item, as those of 16
are after 16; two items fill a channel and leave one in a worker, or one with
the barrier's own goroutine. Two attempts
have a retry and a last try. Two program starts have a crash and a recovery;
three processes of the file cache a recovery that crashes again. Two processes on
one table are every race of a migration, since they exclude each other by the
lock and differ only in what they find; a third on another table shares the lock
and the version table with them. Three items give a group of two in reverse
order, a group of one and an uncovered item at once, and a stage that sees two of
them has a compact slice whose every position differs from the item's index. Five
misses in
batches of two have a full, a second concurrent and a short batch. `MaxMinted`,
`MaxTicks`, `MaxCalls` and `MaxRetries` cut unbounded counters; `MaxMinted` is
large enough for every token the calls of the instance can ask for, so that it
never starves a waiter.

### Findings

1. `flow/run.go:922`: a Barrier stage has drained its upstream, and its goroutine
   hands the buffered items to the stage's own workers. If the context is done
   before it has handed over all of them it returns nil (while it drains, a
   cancellation gives `ctx.Err()` at line 914), and the rest is dropped. If every
   other goroutine ends normally, `Run` returns success with missing results,
   against "Results[i] corresponds to items[i], always" (`flow/run.go:394`).
2. `flow/run.go:481`: `step_completed` is sent under the context that stopping
   the reporter has just canceled; with a periodic Reporter and a ledger that
   honours its context every successful Bulk or Batched Run fails.
3. `flow/run.go:966`: `report` copies a `StepReport` by value, so the copy shares
   `RetriesByClass` with the workers, and `runStages` merges it outside the mutex
   (`flow/run.go:651`). A retry meanwhile gives a snapshot whose `Retries` and
   `RetriesByClass` disagree, or a concurrent map iteration and write, which ends
   the process; "Every map is copied so a reporter can retain the value while
   runners continue updating counters" (`flow/report.go:106`).
4. `flow/run.go:765`: an override stage runs its clean items as a nested Run over a
   slice of their own. Results and item errors are translated back to the caller's
   indexes, what `OnResult` is told is not, against "with its input index"
   (`flow/step.go:57`). `ObserversToldRight` is about the numbering within that
   slice only.
5. `flow/bulk.go:378`: the ledger event between two Stores of a batch is sent under
   the errgroup's context. When a sibling has failed, a ledger that honours its
   context ends the commit loop and the rest of a paid batch is lost, against
   "completed provider work stays recoverable" (`flow/bulk.go:363`).
   `PaidWorkIsKept` states what is kept nonetheless, and the theorem
   `CompletedWorkIsRecoverable` under which conditions the comment is right.

### Further differences between comments and code

The properties state what holds; where a comment promises more, this is the
exception they make.

* A Barrier stage may start on an incomplete set when an upstream stage has
  failed, because the stage's channel is closed before the errgroup cancels the
  context (`flow/step.go:36`; `BarrierWaits` has the exception).
* In-flight calls are shared per runner, not per process (`flow/run.go:816`;
  `KeyRunsOnce` is checked for one runner).
* A cache entry is visible between its rename and the sync of its directory
  (`execution/cache.go:181` says "only after"; `AcknowledgedIsDurable` speaks of
  entries whose Store has returned).
* The parent of a new shard directory is never synced
  (`internal/fsutil/fsutil.go:39`), so the first entry of a shard may be lost by
  a power failure after it was acknowledged (`execution/cache.go:100`,
  "durable"). `AcknowledgedIsDurable` promises an entry only if `ShardExists`, and
  an untorn one otherwise; `SyncDir` models both, `caches` has an existing shard,
  because the contract of `ImplementsCache` has no such exception.
* A meter that overflows after `doBulk` has succeeded ends the batch before its
  first Store (`flow/bulk.go:260`, `flow/bulk.go:351`): the whole paid batch is
  lost. `PaidWorkIsKept` of `MapEngines` excepts that batch, and of one whose Store
  or observer failed the part from there on.
* An override stage, and a repair step that is itself an override, show no live
  report until they end: the nested Run replaces `registerReport`
  (`flow/run.go:469`, against the comment at `flow/run.go:754`).
  `ReporterLocks` and `plain` model that.
* The ledger events of Batched's group Run carry the number of the group, not the
  index of an item; `Batched` leaves them out.
* `execution/mysql_cache.go:41` refers to `OpenCache`, which does not exist.

## 4. Fairness

Liveness is checked under weak fairness of the goroutines' own steps: the Go
scheduler runs every goroutine that can run, `select` does not ignore a ready
case for ever (weak fairness is enough because a done context or a closed
channel stays ready), tickers of an open bucket tick, timers fire, and Do, the
Store and the observers return. Nothing else is fair: nobody has to cancel, to
close a bucket, to feed another item, to fail or to restart. A Do that ignores
its context and never returns blocks a Run in the code too. `RunEnds`, `MapEnds`
and `AllGoroutinesEnd` therefore say that flowkit adds no waiting of its own.

## 5. Proofs

**AdmissionProofs** (any sets of workers and resources, any names, sizes,
limits, bursts and bounds that satisfy `AdmissionAssumption`, `NamesDistinct` and
`RateAssumption`; these say that a budget is natural, a request is positive and
no step names a resource twice, which `NewBudget`, `Budget.Reserve` and
`validatePolicy` enforce):

* `TypeCorrect`: budgets never go negative and buckets never overflow.
* `BudgetConservation`: what is left of a budget, plus what started calls paid,
  plus what unfinished calls hold, is the limit.
* `WorkStaysWithinBudget`: started work never exceeds a limit.
* `RateIsKept`: the tokens in a bucket and the tokens that calls have drawn are
  together at most the burst and what was minted.
* `AdmissionIsAtomic`: `Admission` implements `AtomicAdmission`.

`BudgetConserved` is not inductive by itself. A rollback gives back the units of
the name under the cursor, so one has to know that this name is in fact held;
and a commit moves the units of a call from "held" to "paid", so one has to know
that the call holds all its names and has not started before. `Core` supplies
that: `CursorOK` ties each control state to a range of the cursor and of the
acquired tokens, `CallsFresh` says that a call in admission is newer than its
worker's started calls. `Core` is inductive (one lemma per action); over it,
`Budgets` (conservation and finiteness of the charged sets) is inductive: only
`BudgetReserve` and `BudgetRollback` change `Charged`, by exactly the block of
the call's units, and every other step leaves it alone. `Rates` is the same for
tokens: a receive adds one element to `Drawn`, a refund removes one or several,
and the steps that move the cursor change nothing, because a rollback takes up at
the previous name exactly the tokens that name had acquired (`TokensAt` reads the
tokens of a call off its cursor). `WorkStaysWithinBudget` and `AdmissionIsAtomic`
follow: what is paid is part of what is charged.

**PolicyProofs**, of Backoff (any width, any defaults): `BackoffTypeCorrect`, no
delay wraps around; `BackoffWaits`, every wait lies between the smaller of base and
cap, and the cap. The invariant `Delays` adds that the loop's delay never falls below
the smaller of base and cap; the two lemmas bound the two functions.

**PolicyProofs**, of Preflight (any names, declarations, requests and gates; the
assumption `PreflightAssumption` gives types only and admits malformed ones):

* `RequestsAreAtomic`: the registered names are those of the accepted requests, also
  while an `ensure` is under way.
* `BudgetsAreNeverRefilled`: one budget and one plan per name, for good.
* `GateIsCumulative`: all requests together stay within the gate, and the estimate
  is the cost of the registered plans.
* `TwoCopiesAgree`: in a new `runEnv`, `ensure` grants exactly the lists of
  differently named plans that `ValidateResourcePlans` accepts, with one estimate.

What the loop computes is an invariant of its rounds. `Walked` says that the
prospective plans are the registered ones and exactly the names behind the loop, each
checked and priced once; `Ledger` says the same of what is registered, with the
budgets; `Listed` that in a new `runEnv` a list without repetitions is entered
declaration by declaration, which is what makes the two copies agree.
`OneMorePlan` is the lemma on which both sums rest: a plan under a new name or at a
new position adds exactly its cost.

**CacheProofs** (any Store and Load calls, processes, tables, number of restarts
and any database the first process finds):

* `NeverTorn`: no Load of the file cache meets a torn entry.
* `AcknowledgedSurvives`: once a Store has returned, nothing torn can be at the path
  after a kill or power loss, and in a shard directory that was on disk before an
  entry is there; the property carries the condition, because the code does not
  sync the parent of a new shard directory (section 3).
* `OpenedIsUsable`, `MigrationRecovers`: an open MySQL cache has a table of the
  recorded schema, and only foreign tables are refused.
* `CachesImplementContract`: both implement `CacheContract` under the mapping of
  `CacheBackends`; for the file cache with `ShardExists`. For each action of the two backends a
  lemma names the contract's step or the stutter.

`FileInv` says that a file is written before it is synced and synced before its
name appears (`DataFirst`), so everything a reader or a power loss can find at the
path is complete, and that only a power loss empties the path (`NeverEmptied`).
`MySQLInv` ties what the holder of the schema lock saw to what the database holds:
the lock keeps others from changing it in between.

**TypedRunnerProofs** (any items, keys, runners, pools, attempts, faults,
restarts; a Run is given finitely many items): `NeverRunsTwice`, `ReportIsExact`; and
under `KeysApart` `OutputIsStored`, `PaidIsKept` and `NeverReplaced`. The hypothesis is a real one: in-flight calls are kept per
runner, so two cached steps of one Identity in one pipeline may both run a key and
the later one replaces the entry of the earlier. The properties speak of Store and
outputs only; the invariant adds who may be at work: a call in flight has exactly
one leader (`OneLeader`, `CallOK`), only a leader works and pays, whoever else has
a result has it from the closed call (`ControlAt`), and nothing is stored under a
key while its leader works (`ContentsAt`, `CallContents`). For `ReportIsExact` the
invariant `Books` counts: each per-item counter is the number of items that have come
past the place where it is raised, `Retries` is the number of attempts given up, and
the work calls, with the ones an admitted worker is about to make, are the sequences
started and the retries. An item that has ended owes none.

**LifecycleProofs** (any configurations, number of ticks and faults):
`JournalIsTruthful`, `SnapshotsOrdered`, and `FailuresHaveCauses` under
`NoStrictOverride`, which excludes the configuration of finding 2 and no other.
The invariant relates `Run`'s place to the reporter goroutine (`Joined`: it is
gone before the terminal snapshot), to the number it may be delivering
(`Delivered`), to the journal (`Journalled`) and to the reasons for which a context
can be done (`Blamed`).

**PipelineProofs** (any number of items and stages, any kinds, pools, capacity and
faults):

* `ChannelsCloseLast`: nobody can send on a closed channel.
* `BarriersWait`: a Barrier stage has every item before it processes one, unless a
  goroutine before it failed.
* `SuccessIsComplete`: a successful Run has every result, unless the caller
  canceled a pipeline with a Barrier (finding 1).
* `NeverInTwoPlaces`, `FlaggedLeftAlone`, `PipelineTypes`.

An item is at every moment in exactly one *spot* (not fed, in a channel, drained,
in a worker's hands, collected): `OneSpot`. Every step either leaves all spots
alone (`Stays`) or moves one item one rank on (`Flows`), and one lemma for each of
the two carries most of the invariant through all actions. `Progress` says which
stages an item in a spot has been through; `StageOK`, `WorkerOK` and `GroupOK`
where the goroutines stand; `Ahead` that nothing is beyond a stage that is still
draining; `Settled` that nothing is left behind a closed channel unless a goroutine
behind it failed or a barrier goroutine has dropped items. `Settled` is what makes
success complete: the collector ends at the last closed channel, and a failure
behind it reaches the errgroup before `Run` returns.

**MapProofs** (any items and keys, batch sizes, pools, attempts, policies, faults
and number of restarts that satisfy `ParallelMapAssumption`, which asks for positive
sizes and natural counts):

* `BatchWorkIsKept`: when a call is over, every group whose work succeeded is in the
  Store; a batch that its own Store, observer or meter has cut short keeps all that
  precedes that place.
* `CompletedWorkIsRecoverable`: if no Store, observer or meter fails and no ledger
  minds its context, all work that succeeded is in the Store. Nothing marks a batch
  then, and what is paid is in some batch (`Bought`).
* `ResultsStayAligned`: values lie in the slots and under the keys they were computed
  for, and a successful call leaves no slot empty.

Neither property says how a batch gets there. The invariant does: a group that was
looked up has its results or is a miss (`Looking`), batches are handed over in order
and none is left when the feeder is done (`Feeding`), and a worker at a given place
has committed everything before it and owes the rest, a failed one too (`BatchOK`). A step of one worker
leaves the other batches alone, because batches are disjoint stretches of the misses
and no two groups have a key in common; the lemmas `BatchFacts`, `BatchesApart`,
`BatchOfMiss` and `GroupFacts` establish that from the arithmetic of the batch size.
A call succeeds only when the feeder is done and no worker has failed, so every batch
has ended and, since every item is in a group and every miss in a batch, every slot is
filled. That every group has a first item is the only place where a least element is
needed; it comes from the well-foundedness of the naturals.

* `ReportsAreTruthful`: outcomes and counters tell what happened, at every moment and
  also when the call fails.

Its invariant `Books` rests on one fact: a group is touched once. Until it is found in
the Store or committed by the worker at its place (`Owed`), its items have no result
and no outcome, so the set of items that a counter counts grows by exactly what the
counter adds. Nothing is stored before Map starts, so a hit is older than the run
(`Told`). For the bulk engine the work calls and the batches that owe one
(`Owing`) are together the sequences started and the retries; a successful call owes
none.

**BatchedProofs** (any groups, hooks, faults, attempts and flagged items that satisfy
`BatchedAssumption`):

* `SnapshotsCountOnce`: a snapshot never counts work twice or work that was not done,
  and the last one has all of it.
* `SnapshotsNeverShrink`: no snapshot shows less than an earlier one.
* `EveryItemGetsItsResult`: a successful Run has for every item its own result in its
  place, from a group, a repair or a stage before, and errors name the caller's index.
* `ObserversHearItemsOnce`: the hooks hear of every value once, and hooks and ledger
  hear of it under its own number in the slice that Batched was given (finding 4).

`Reporting` follows what the reporter has read under each of its two locks: the
completed part and the active part together are never more than the work done and
never less than what it delivered before. `Itemwise` says where each item is in the
three numberings (the caller's indexes, the clean slice, the list of repairs). That
list and that slice are ascending enumerations of sets; the lemma that they list
every element once looks at a least counterexample.

Only model-checked: the liveness properties `AdmissionEnds`, `AllGoroutinesEnd`,
`ItemEnds`, `RunEnds` and `MapEnds`, because TLAPS reasons neither about fairness nor
about ENABLED. Every invariant, every action property and both refinements that a
passing run checks are also proved.

No module declares a RECURSIVE operator.

## 6. Not modelled

* Error classification (`flow/classify.go`): a function of error texts and status
  codes; its result is an input (`transient`, `data`, `fatal`) of TypedRunner
  and Bulk.
* Step composition, digests and JSON, path helpers: constructors and pure
  encodings without state. Keys and values are model values.
* Command line, examples, scripts and MySQL test support: wiring and fixtures.
* Of the MySQL cache, the settings of the connection pool and the limit on the
  size of a value; of reports, that there are many counters instead of one.
* Floating-point rounding of costs, and wall-clock time: a timer fires at any
  moment.

## 7. Plan

Done: every part of the library that keeps state, with the runs above, the two
refinements (`Admission` of `AtomicAdmission`, `CacheBackends` of
`CacheContract`), checked and proved, and the safety proofs of section 5.

Open: proofs of the liveness properties, when the prover supports them; and the
parts of section 6, should they come to keep state.
