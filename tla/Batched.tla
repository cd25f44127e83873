------------------------------- MODULE Batched -------------------------------
(***************************************************************************)
(* A Batched step (src/flow/batch.go, runBatched): a nested Run over       *)
(* groups of items, and a nested Run that repairs, item by item, what the  *)
(* group answers leave out.  Batched is the whole Run or a stage of a      *)
(* pipeline (overrideStageRunner), which hands it only the items that no   *)
(* earlier stage has flagged.  The two nested Runs are reduced to what     *)
(* they do to a unit, a group or an item: count its retries and answer.    *)
(*                                                                         *)
(* The periodic reporter reads the live report through the closures that   *)
(* registerReport passes around (src/flow/observe.go, reportSource; merge  *)
(* and Clone of src/flow/report.go).                                       *)
(***************************************************************************)
EXTENDS Integers, Sequences, FiniteSets, SequencesExt, Bags

CONSTANTS N,          \* number of items of the caller
          Groupings,  \* what BatchSpec.Group may return: sequences of index groups
          Attempts,   \* Retry.Attempts of both nested steps
          MaxRetries  \* bound on the retries of one nested Run

Items == 1 .. N
Runs == {"groups", "repairs"}

\* Retries stands for every number of a StepReport, RetriesByClass for its map.
Fields == {"Retries", "RetriesByClass"}

ASSUME BatchedAssumption ==
    /\ N \in Nat /\ Attempts \in Nat \ {0} /\ MaxRetries \in Nat
    /\ Groupings \subseteq Seq(Seq(Nat))

VARIABLES
    stage,      \* Batched is a stage of a pipeline
    upstream,   \* the items an earlier stage has flagged
    plain,      \* the repair step is a plain step and registers its live report
    grouping,   \* what Group returned
    phase,      \* "start", a nested Run, "split", "collect", "ok", "failed" or "crashed"
    error,      \* runBatched returns an error
    unit,       \* unit[r][u]: the answer of nested Run r for its unit u
    tries,      \* tries[r][u]: its attempts
    at,         \* how far the loop over the groups or the repairs is
    missing,    \* the positions to repair
    results,    \* results[q]: the result at position q
    told,       \* the bag of what hooks and ledger were told of items
    out,        \* out[i]: the result the caller of Run gets for item i
    live,       \* live[r]: the counters of the runner of nested Run r
    report,     \* the merged report
    active,     \* the nested Run whose report is registered, or "none"
    reporter,   \* the reporter's goroutine: "idle", "read" or "merge"
    view,       \* what it has read
    published   \* the snapshot it has published last

itemVars == <<unit, tries, missing, results, told, out>>
reportVars == <<live, report, active>>
readerVars == <<reporter, view, published>>
inputVars == <<stage, upstream, plain>>
vars == <<inputVars, grouping, phase, error, at, itemVars, reportVars, readerVars>>

\* A loop that collects the numbers in a set, in order.
Ascending(set) ==
    CHOOSE s \in [1 .. Cardinality(set) -> set] : \A p, q \in DOMAIN s : p < q => s[p] < s[q]

\* The slice runBatched is given: positions of it are not the caller's indexes.
Clean == Ascending(Items \ upstream)
Positions == DOMAIN Clean

Result(kind, item, index) == [kind |-> kind, item |-> item, index |-> index]
NoResult == Result("none", 0, 0)

Zero == [f \in Fields |-> 0]
NoReport == [r \in Runs |-> Zero]
NoView == [base |-> NoReport, run |-> "none", copied |-> Zero]
Sum(c, d) == [f \in Fields |-> c[f] + d[f]]

Message(who, index, item) == [who |-> who, index |-> index, item |-> item]
Told(who, index, item) == SetToBag({Message(who, index, item)})
Copies(message, bag) == IF message \in BagToSet(bag) THEN bag[message] ELSE 0
Tell(who, index, item) == told' = told (+) Told(who, index, item)
------------------------------------------------------------------------------
(* Reports                                                                   *)

\* report.merge of what is still active.
CurrentReport ==
    [r \in Runs |-> IF active = r THEN Sum(report[r], live[r]) ELSE report[r]]

\* Mutation of MergeCompleted: the completed Run stays registered.
MergeCompletedOnly(r) ==
    /\ report' = [report EXCEPT ![r] = Sum(@, live[r])]
    /\ UNCHANGED active

\* A nested Run has returned.
MergeCompleted(r) ==
    /\ report' = [report EXCEPT ![r] = Sum(@, live[r])]
    /\ active' = "none"

\* Mutation of ReporterLocks: the completed part is left out while a Run is active.
ReporterLocksActive ==
    /\ reporter = "idle" /\ phase \notin {"ok", "failed", "crashed"}
    /\ view' = [base   |-> IF stage \/ active # "none" THEN NoReport ELSE report,
                run    |-> IF stage THEN "none" ELSE active,
                copied |-> Zero]
    /\ reporter' = "read"
    /\ UNCHANGED <<inputVars, grouping, phase, error, at, itemVars, reportVars, published>>

\* A tick: the reporter takes a clone of the report and the active closure.  A
\* stage shows its own report, to which nobody has registered a live one: the
\* nested Run replaces registerReport.
ReporterLocks ==
    /\ reporter = "idle" /\ phase \notin {"ok", "failed", "crashed"}
    /\ view' = [base   |-> IF stage THEN NoReport ELSE report,
                run    |-> IF stage THEN "none" ELSE active,
                copied |-> Zero]
    /\ reporter' = "read"
    /\ UNCHANGED <<inputVars, grouping, phase, error, at, itemVars, reportVars, published>>

\* Without a live report the snapshot is complete.  Otherwise the runner's counters
\* are copied under its mutex, but for the map RetriesByClass, which is shared
\* once the runner has made one.
ReporterCopies ==
    /\ reporter = "read" /\ phase # "crashed"
    /\ \/ /\ view.run = "none"
          /\ published' = view.base
          /\ reporter' = "idle"
          /\ view' = NoView
       \/ /\ view.run # "none"
          /\ view' = [view EXCEPT !.copied = live[view.run]]
          /\ reporter' = "merge"
          /\ UNCHANGED published
    /\ UNCHANGED <<inputVars, grouping, phase, error, at, itemVars, reportVars>>

\* The runner's first retry makes its map.
MapShared == reporter = "merge" /\ view.copied["RetriesByClass"] > 0

\* merge runs over the shared map, without the mutex.
ReporterMerges ==
    LET read == [view.copied EXCEPT !["RetriesByClass"] =
                   IF MapShared THEN live[view.run]["RetriesByClass"] ELSE 0]
    IN  /\ reporter = "merge" /\ phase # "crashed"
        /\ published' = [view.base EXCEPT ![view.run] = Sum(@, read)]
        /\ reporter' = "idle"
        /\ view' = NoView
        /\ UNCHANGED <<inputVars, grouping, phase, error, at, itemVars, reportVars>>
------------------------------------------------------------------------------
(* The nested Runs                                                           *)

InRange(groups) == \A g \in DOMAIN groups : ToSet(groups[g]) \subseteq Positions

Disjoint(groups) ==
    \A g, h \in DOMAIN groups : \A p \in DOMAIN groups[g], q \in DOMAIN groups[h] :
      groups[g][p] = groups[h][q] => g = h /\ p = q

\* A nested Run starts with nothing answered.
Begin(r, units) ==
    /\ unit' = [unit EXCEPT ![r] = [u \in units |-> "waiting"]]
    /\ tries' = [tries EXCEPT ![r] = [u \in units |-> 1]]

\* Group cuts the items; an index outside the slice or in two groups is refused.
StartGroups ==
    /\ phase = "start"
    /\ \E groups \in Groupings :
         /\ grouping' = groups
         /\ IF InRange(groups) /\ Disjoint(groups)
              THEN /\ phase' = "groups" /\ active' = "groups"
                   /\ Begin("groups", DOMAIN groups)
                   /\ UNCHANGED error
              ELSE phase' = "done" /\ error' = TRUE /\ UNCHANGED <<active, unit, tries>>
    /\ UNCHANGED <<inputVars, at, missing, results, told, out, live, report, readerVars>>

\* The provider fails, the runner counts a retry under its mutex, and the
\* retry is journalled.  The write of the map may meet the reporter's reading of it:
\* the Go runtime ends the process when it notices.
Retry(r, u) ==
    /\ phase = r /\ unit[r][u] = "waiting" /\ tries[r][u] < Attempts
    /\ live[r]["Retries"] < MaxRetries
    /\ tries' = [tries EXCEPT ![r][u] = @ + 1]
    /\ live' = [live EXCEPT ![r]["Retries"] = @ + 1, ![r]["RetriesByClass"] = @ + 1]
    /\ IF r = "repairs" THEN Tell("ledger", missing[u], Clean[missing[u]]) ELSE UNCHANGED told
    /\ phase' \in {phase} \cup (IF MapShared /\ view.run = r THEN {"crashed"} ELSE {})
    /\ UNCHANGED <<inputVars, grouping, error, at, unit, missing, results, out, report, active,
                   readerVars>>

\* Mutation of RepairTold: the compact index of the nested Run reaches the observers.
RepairToldCompact(u, kind) ==
    LET item == Clean[missing[u]]
    IN  Told("ledger", u, item)
        (+) (IF kind = "value" THEN Told("repairHook", u, item) ELSE EmptyBag)

\* remappedLedger and the wrapped OnResult of the repair step translate the
\* compact index of the nested Run.
RepairTold(u, kind) ==
    LET item == Clean[missing[u]]
    IN  Told("ledger", missing[u], item)
        (+) (IF kind = "value" THEN Told("repairHook", missing[u], item) ELSE EmptyBag)

\* The nested Run has an answer for the unit.
Answer(r, u) ==
    /\ phase = r /\ unit[r][u] = "waiting"
    /\ \E kind \in IF r = "groups" THEN {"value", "flagged"} ELSE {"value", "quarantined", "skipped"} :
         /\ unit' = [unit EXCEPT ![r][u] = kind]
         /\ told' = IF r = "repairs" THEN told (+) RepairTold(u, kind) ELSE told
    /\ UNCHANGED <<inputVars, grouping, phase, error, at, tries, missing, results, out,
                   reportVars, readerVars>>

\* A fatal error, a refusal, a failing observer or a cancellation ends the nested
\* Run; its report counts nonetheless.
NestedFails(r) ==
    /\ phase = r
    /\ MergeCompleted(r)
    /\ phase' = "done" /\ error' = TRUE
    /\ UNCHANGED <<inputVars, grouping, at, itemVars, live, readerVars>>

\* The group Run returns; uncovered items are the first to repair.
GroupsReturn ==
    LET covered == UNION {ToSet(grouping[g]) : g \in DOMAIN grouping}
    IN  /\ phase = "groups" /\ \A u \in DOMAIN grouping : unit["groups"][u] # "waiting"
        /\ MergeCompleted("groups")
        /\ missing' = Ascending(Positions \ covered)
        /\ phase' = "split"
        /\ at' = 1
        /\ UNCHANGED <<inputVars, grouping, error, unit, tries, results, told, out, live,
                       readerVars>>

\* The answer of the next group is split; what it lacks, or all of a flagged group
\* or an answer that does not parse, goes to repair.  The hook of Batched is told of
\* the others one by one, until it fails.
SplitGroup ==
    LET group == grouping[at]
        answered == unit["groups"][at] = "value"
        value(q) == Result("value", Clean[q], 0)
    IN  /\ phase = "split" /\ at <= Len(grouping)
        /\ \E parsed \in SUBSET (IF answered THEN ToSet(group) ELSE {}) :
             LET lacking == Ascending({p \in DOMAIN group : group[p] \notin parsed})
             IN
             /\ missing' = missing \o [n \in DOMAIN lacking |-> group[lacking[n]]]
             /\ \E heard \in {{group[p] : p \in 1 .. n} \cap parsed : n \in 0 .. Len(group)} :
                  /\ results' = [q \in Positions |-> IF q \in heard THEN value(q) ELSE results[q]]
                  /\ told' = told (+) SetToBag({Message("hook", q, Clean[q]) : q \in heard})
                  /\ \/ heard = parsed /\ at' = at + 1 /\ UNCHANGED <<phase, error>>
                     \/ heard # {} /\ phase' = "done" /\ error' = TRUE /\ UNCHANGED at
        /\ UNCHANGED <<inputVars, grouping, unit, tries, out, reportVars, readerVars>>

\* Nothing is missing, or the repair Run starts; a plain repair step registers
\* its live report.
StartRepairs ==
    /\ phase = "split" /\ at > Len(grouping)
    /\ phase' = IF missing = <<>> THEN "done" ELSE "repairs"
    /\ active' = IF missing # <<>> /\ plain THEN "repairs" ELSE active
    /\ Begin("repairs", DOMAIN missing)
    /\ at' = 1
    /\ UNCHANGED <<inputVars, grouping, error, missing, results, told, out, live, report,
                   readerVars>>

RepairsReturn ==
    /\ phase = "repairs" /\ \A u \in DOMAIN missing : unit["repairs"][u] # "waiting"
    /\ MergeCompleted("repairs")
    /\ phase' = "collect"
    /\ UNCHANGED <<inputVars, grouping, error, at, itemVars, live, readerVars>>

\* Mutation of Collect: the repaired results are put where they stand in the
\* compact slice.
CollectCompact ==
    LET q == missing[at]
        kind == unit["repairs"][at]
    IN  /\ phase = "collect"
        /\ results' = [results EXCEPT ![at] = Result(kind, Clean[q], at)]
        /\ IF kind = "value" THEN Tell("hook", q, Clean[q]) ELSE UNCHANGED told
        /\ at' = at + 1
        /\ phase' = IF at = Len(missing) THEN "done" ELSE phase
        /\ UNCHANGED <<inputVars, grouping, error, unit, tries, missing, out, reportVars, readerVars>>

\* The next repaired result goes to its position, an ItemError with its index
\* adjusted; the hook of Batched hears of a value and may fail.
Collect ==
    LET q == missing[at]
        kind == unit["repairs"][at]
    IN  /\ phase = "collect"
        /\ results' = [results EXCEPT ![q] = Result(kind, Clean[q],
                                                    IF kind = "quarantined" THEN q ELSE 0)]
        /\ IF kind = "value" THEN Tell("hook", q, Clean[q]) ELSE UNCHANGED told
        /\ \/ /\ at' = at + 1
              /\ phase' = IF at = Len(missing) THEN "done" ELSE phase
              /\ UNCHANGED error
           \/ /\ kind = "value"
              /\ phase' = "done" /\ error' = TRUE
              /\ UNCHANGED at
        /\ UNCHANGED <<inputVars, grouping, unit, tries, missing, out, reportVars, readerVars>>

\* runBatched returns and the reporter is joined.  A stage passes every result on
\* under the index of its item, an ItemError too, next to the flagged items.  The
\* report is part of the Run's terminal snapshot.
Deliver ==
    LET position(i) == CHOOSE q \in Positions : Clean[q] = i
        passed(i) == IF i \in upstream THEN Result("upstream", i, i)
                     ELSE LET result == results[position(i)]
                          IN  [result EXCEPT !.index = IF stage /\ @ # 0 THEN i ELSE @]
    IN  /\ phase = "done" /\ reporter = "idle"
        /\ phase' = IF error THEN "failed" ELSE "ok"
        /\ out' = IF error THEN out ELSE [i \in Items |-> passed(i)]
        /\ published' = CurrentReport
        /\ UNCHANGED <<inputVars, grouping, error, at, unit, tries, missing, results, told,
                       reportVars, reporter, view>>
------------------------------------------------------------------------------

Init ==
    /\ stage \in BOOLEAN /\ plain \in IF stage THEN {TRUE} ELSE BOOLEAN
    /\ upstream \in IF stage THEN SUBSET Items ELSE {{}}
    /\ grouping = <<>>
    /\ phase = "start"
    /\ error = FALSE
    /\ unit = [r \in Runs |-> <<>>]
    /\ tries = [r \in Runs |-> <<>>]
    /\ at = 1
    /\ missing = <<>>
    /\ results = [q \in Positions |-> NoResult]
    /\ told = EmptyBag
    /\ out = [i \in Items |-> NoResult]
    /\ live = NoReport
    /\ report = NoReport
    /\ active = "none"
    /\ reporter = "idle"
    /\ view = NoView
    /\ published = NoReport

EngineStep ==
    \/ StartGroups \/ GroupsReturn \/ SplitGroup \/ StartRepairs \/ RepairsReturn \/ Collect
    \/ Deliver
    \/ \E r \in Runs : NestedFails(r) \/ \E u \in DOMAIN unit[r] : Retry(r, u) \/ Answer(r, u)

ReporterStep == ReporterLocks \/ ReporterCopies \/ ReporterMerges

Next == EngineStep \/ ReporterStep

Spec == Init /\ [][Next]_vars
------------------------------------------------------------------------------
(* Properties                                                                *)

\* A Run that succeeds has for every item its own result, be it from a group's
\* answer, from a repair or flagged before the stage, and an ItemError names the
\* item by the caller's index, whatever compact slices it has passed through.
RepairsLandInPlace ==
    phase = "ok" => \A i \in Items :
      /\ out[i].item = i
      /\ out[i].kind = "upstream" <=> i \in upstream
      /\ out[i].kind = "quarantined" => out[i].index = i

\* Within the slice that Batched was given no observer is told of a wrong item:
\* hooks and ledger name it by its position there, also after the repairs' own
\* slice (whether that position is the caller's index is HookGetsInputIndex); the
\* hook of Batched hears of every value exactly once, that of the repair step of
\* every repaired one, and the ledger has every attempt of a repair.
ObserversToldRight ==
    LET heard(who, q) == Copies(Message(who, q, Clean[q]), told)
        one(condition) == IF condition THEN 1 ELSE 0
    IN
    /\ \A m \in BagToSet(told) : m.index \in Positions /\ Clean[m.index] = m.item
    /\ phase = "ok" => \A q \in Positions :
         LET repaired == {u \in DOMAIN missing : missing[u] = q}
             isValue == results[q].kind = "value"
         IN  /\ heard("hook", q) = one(isValue)
             /\ heard("repairHook", q) = one(isValue /\ repaired # {})
             /\ \A u \in repaired : heard("ledger", q) = tries["repairs"][u]

\* OnResult observes every successful item "with its input index"
\* (src/flow/step.go:54-57), in whatever stage and slice it was worked on.
HookGetsInputIndex ==
    \A m \in BagToSet(told) : m.who \in {"hook", "repairHook"} => m.index = m.item

\* No snapshot counts anything twice, at whatever moment between two nested Runs
\* it is taken, and the report that is returned, with an error too, has counted
\* everything.
ReportExact ==
    /\ \A r \in Runs, f \in Fields : published[r][f] <= live[r][f]
    /\ phase \in {"ok", "failed"} => published = live

\* Progress never goes back from one snapshot to the next.
SnapshotsGrow ==
    [][\A r \in Runs, f \in Fields : published'[r][f] >= published[r][f]]_published

\* "Every map is copied so a reporter can retain the value while runners continue
\* updating counters" (src/flow/report.go:106-107): the numbers of a snapshot are
\* of one moment, and taking one does not end the program.
SnapshotConsistent ==
    /\ phase # "crashed"
    /\ \A r \in Runs : published[r]["Retries"] = published[r]["RetriesByClass"]
==============================================================================
