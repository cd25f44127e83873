---------------------------- MODULE BatchedProofs ----------------------------
(***************************************************************************)
(* Proofs about Batched, for any number of items, groupings, attempts and  *)
(* retries.  The report and its reporter are treated first (Reporting):    *)
(* they share nothing with the items but the phase.                        *)
(***************************************************************************)
EXTENDS Batched, FiniteSetTheorems, WellFoundedInduction, TLAPS

------------------------------------------------------------------------------
(* Reports                                                                   *)

Counts == [Fields -> Nat]
Phases == {"start", "groups", "split", "repairs", "collect", "done", "ok", "failed", "crashed"}

\* Nothing counted in c is missing from d.
Within(c, d) == \A f \in Fields : c[f] <= d[f]

ReportTypes ==
    /\ stage \in BOOLEAN /\ plain \in BOOLEAN
    /\ phase \in Phases
    /\ live \in [Runs -> Counts] /\ report \in [Runs -> Counts]
    /\ published \in [Runs -> Counts]
    /\ active \in Runs \cup {"none"}
    /\ reporter \in {"idle", "read", "merge"}
    /\ view \in [base : [Runs -> Counts], run : Runs \cup {"none"}, copied : Counts]

\* The counters of a nested Run are in the merged report once it is over, and not before.
Merged(r) ==
    /\ report[r] = Zero \/ report[r] = live[r]
    /\ active = r => report[r] = Zero /\ phase \in {r, "crashed"} /\ (r = "groups" \/ plain)
    /\ phase = r => report[r] = Zero
    /\ phase = r => active = r \/ (active = "none" /\ r = "repairs" /\ ~plain)
    /\ r = "groups" /\ phase \notin {"start", "groups", "crashed"} => report[r] = live[r]
    /\ r = "repairs" /\ phase \notin {"repairs", "crashed"} => report[r] = live[r]
    /\ r = "repairs" /\ phase \in {"start", "groups", "split"} => live[r] = Zero
    /\ phase = "start" => live[r] = Zero

\* A snapshot shows of a Run that is not registered only what is merged.
Shown(r) ==
    /\ Within(published[r], live[r])
    /\ active # r => Within(published[r], report[r])

\* What the reporter holds is no more than what is counted, and no less than what
\* it published before.
Viewed(r) ==
    reporter # "idle" =>
      /\ view.run # r => Within(published[r], view.base[r]) /\ Within(view.base[r], report[r])
      /\ view.run = r => /\ view.base[r] = Zero
                         /\ r = "groups" \/ plain
                         /\ active = r \/ report[r] = live[r]
                         /\ reporter = "merge" =>
                              Within(published[r], view.copied) /\ Within(view.copied, live[r])

Reporting ==
    /\ ReportTypes
    /\ \A r \in Runs : Merged(r) /\ Shown(r) /\ Viewed(r)
    /\ reporter = "merge" => view.run # "none"
    /\ stage /\ reporter # "idle" => view.run = "none" /\ view.base = NoReport
    /\ stage /\ phase \notin {"ok", "failed"} => published = NoReport
    /\ phase \in {"ok", "failed"} => reporter = "idle" /\ published = live

\* Counters can be compared, and added to those of a Run that has counted nothing.
LEMMA CountFacts ==
    ASSUME NEW c \in Counts, NEW d \in Counts
    PROVE  /\ Zero \in Counts /\ Within(Zero, c) /\ Within(c, c)
           /\ Sum(c, d) \in Counts /\ Sum(Zero, c) = c
           /\ Within(c, d) => \A e \in Counts : Within(d, e) => Within(c, e)
BY DEF Counts, Zero, Within, Sum, Fields

\* Retries of a Run are counted under its own name.
LEMMA RunFacts ==
    Runs = {"groups", "repairs"} /\ "none" \notin Runs /\ Fields = {"Retries", "RetriesByClass"}
BY DEF Runs, Fields

\* Nothing has been counted or published at the start.
LEMMA ReportingInit ==
    Init => Reporting
<1> SUFFICES ASSUME Init PROVE Reporting
  OBVIOUS
<1>1. Zero \in Counts /\ NoReport \in [Runs -> Counts] /\ \A r \in Runs : NoReport[r] = Zero
  BY DEF Zero, NoReport, Counts
<1>2. NoView \in [base : [Runs -> Counts], run : Runs \cup {"none"}, copied : Counts]
  BY <1>1 DEF NoView
<1>3. ReportTypes
  BY <1>1, <1>2 DEF Init, ReportTypes, Phases
<1>4. ASSUME NEW r \in Runs PROVE Merged(r) /\ Shown(r) /\ Viewed(r)
  <2>1. live[r] = Zero /\ report[r] = Zero /\ published[r] = Zero /\ Within(Zero, Zero)
    BY <1>1, CountFacts DEF Init
  <2>2. active = "none" /\ phase = "start" /\ reporter = "idle"
    BY DEF Init
  <2> QED BY <2>1, <2>2, RunFacts DEF Merged, Shown, Viewed
<1> QED BY <1>3, <1>4 DEF Init, Reporting

\* A step that counts nothing and registers nothing.
LEMMA PhaseMoves ==
    ASSUME Reporting, UNCHANGED <<stage, plain, live, report, active, reporter, view, published>>,
           \/ phase' = phase
           \/ phase \in {"start", "split", "collect"} /\ phase' = "done"
           \/ phase = "split" /\ phase' = "repairs" /\ ~plain
    PROVE  Reporting'
<1>1. ReportTypes'
  BY DEF Reporting, ReportTypes, Phases
<1>2. ASSUME NEW r \in Runs PROVE Merged(r)' /\ Shown(r)' /\ Viewed(r)'
  <2>1. Merged(r) /\ Shown(r) /\ Viewed(r) /\ active \in Runs \cup {"none"}
    BY DEF Reporting, ReportTypes
  <2>2. Merged("groups") /\ Merged("repairs")
    BY RunFacts DEF Reporting
  <2>3. Merged(r)'
    <3>1. CASE phase' = phase
      BY <2>1, <3>1 DEF Merged
    <3>2. CASE phase \in {"start", "split", "collect"} /\ phase' = "done"
      BY <2>1, <3>2, RunFacts DEF Merged
    <3>3. CASE phase = "split" /\ phase' = "repairs" /\ ~plain
      <4>1. active = "none"
        BY <2>1, <2>2, <3>3, RunFacts DEF Merged
      <4> QED BY <2>1, <3>3, <4>1, RunFacts DEF Merged
    <3> QED BY <3>1, <3>2, <3>3
  <2>4. Shown(r)'
    BY <2>1 DEF Shown
  <2>5. Viewed(r)'
    BY <2>1 DEF Viewed
  <2> QED BY <2>3, <2>4, <2>5
<1> QED BY <1>1, <1>2 DEF Reporting

\* A nested Run starts, and its live report is registered.
LEMMA Registers ==
    ASSUME Reporting, NEW r \in Runs, phase' = r, active' = r,
           phase = IF r = "groups" THEN "start" ELSE "split", r = "groups" \/ plain,
           UNCHANGED <<stage, plain, live, report, reporter, view, published>>
    PROVE  Reporting'
<1>1. ReportTypes'
  BY RunFacts DEF Reporting, ReportTypes, Phases
<1>2. Merged("groups") /\ Merged("repairs") /\ active \in Runs \cup {"none"}
  BY RunFacts DEF Reporting, ReportTypes
<1>3. active = "none"
  BY <1>2, RunFacts DEF Merged
<1>4. live[r] = Zero /\ report[r] = Zero
  BY <1>2, RunFacts DEF Merged
<1>5. ASSUME NEW s \in Runs PROVE Merged(s)' /\ Shown(s)' /\ Viewed(s)'
  <2>1. Merged(s) /\ Shown(s) /\ Viewed(s)
    BY DEF Reporting
  <2>2. Merged(s)'
    BY <1>2, <1>4, <2>1, RunFacts DEF Merged
  <2>3. Shown(s)'
    <3>1. Within(published[s], live[s]) /\ Within(published[s], report[s])
      BY <1>3, <2>1, RunFacts DEF Shown
    <3> QED BY <3>1 DEF Shown
  <2>4. Viewed(s)'
    <3>1. active # s
      BY <1>3, RunFacts
    <3> QED BY <3>1, <2>1 DEF Viewed
  <2> QED BY <2>2, <2>3, <2>4
<1> QED BY <1>1, <1>5, RunFacts DEF Reporting

\* A nested Run is over, with or without an error.
LEMMA Completes ==
    ASSUME Reporting, NEW r \in Runs, phase = r, MergeCompleted(r),
           phase' = "done" \/ (phase' = IF r = "groups" THEN "split" ELSE "collect"),
           UNCHANGED <<stage, plain, live, reporter, view, published>>
    PROVE  Reporting'
<1>1. live \in [Runs -> Counts] /\ report \in [Runs -> Counts] /\ published \in [Runs -> Counts]
  BY DEF Reporting, ReportTypes
<1>2. report[r] = Zero /\ \A s \in Runs : Merged(s) /\ Shown(s) /\ Viewed(s)
  BY DEF Reporting, Merged
<1>3. /\ report' \in [Runs -> Counts] /\ report'[r] = live[r] /\ active' = "none"
      /\ \A s \in Runs \ {r} : report'[s] = report[s]
  <2>1. Sum(report[r], live[r]) = live[r] /\ live[r] \in Counts
    BY <1>1, <1>2, CountFacts
  <2> QED BY <1>1, <2>1 DEF MergeCompleted
<1>4. ReportTypes'
  BY <1>3, RunFacts DEF Reporting, ReportTypes, Phases
<1>5. ASSUME NEW s \in Runs PROVE Merged(s)' /\ Shown(s)' /\ Viewed(s)'
  <2>1. CASE s = r
    <3>1. Merged(s)'
      BY <1>2, <1>3, <2>1, RunFacts DEF Merged
    <3>2. Shown(s)'
      BY <1>2, <1>3, <2>1 DEF Shown
    <3>3. Viewed(s)'
      <4>1. Within(Zero, live[r])
        BY <1>1, CountFacts
      <4>2. view \in [base : [Runs -> Counts], run : Runs \cup {"none"}, copied : Counts]
        BY DEF Reporting, ReportTypes
      <4>3. Within(view.base[r], Zero) => Within(view.base[r], live[r])
        BY <1>1, <4>1, <4>2, CountFacts
      <4> QED BY <1>2, <1>3, <2>1, <4>3 DEF Viewed
    <3> QED BY <3>1, <3>2, <3>3
  <2>2. CASE s # r
    <3>1. Merged(s)'
      BY <1>2, <1>3, <2>2, RunFacts DEF Merged
    <3>2. Shown(s)'
      <4>1. active # s
        BY <1>2, <2>2, RunFacts DEF Merged
      <4> QED BY <1>2, <1>3, <2>2, <4>1 DEF Shown
    <3>3. Viewed(s)'
      <4>1. active # s
        BY <1>2, <2>2, RunFacts DEF Merged
      <4> QED BY <1>2, <1>3, <2>2, <4>1 DEF Viewed
    <3> QED BY <3>1, <3>2, <3>3
  <2> QED BY <2>1, <2>2
<1> QED BY <1>3, <1>4, <1>5, RunFacts DEF Reporting

\* A retry is counted while a snapshot may be under way.
LEMMA RetryReports ==
    ASSUME Reporting, NEW r, NEW u, r \in Runs, Retry(r, u)
    PROVE  Reporting'
<1>1. /\ phase = r /\ phase' \in {r, "crashed"}
      /\ UNCHANGED <<stage, plain, report, active, reporter, view, published>>
  BY DEF Retry, inputVars, readerVars
<1>2. /\ live \in [Runs -> Counts] /\ report \in [Runs -> Counts] /\ published \in [Runs -> Counts]
      /\ view \in [base : [Runs -> Counts], run : Runs \cup {"none"}, copied : Counts]
  BY DEF Reporting, ReportTypes
<1>3. /\ live' \in [Runs -> Counts] /\ Within(live[r], live'[r])
      /\ \A s \in Runs \ {r} : live'[s] = live[s]
  <2>1. live' = [live EXCEPT ![r] = [f \in Fields |-> live[r][f] + 1]]
    BY <1>2, RunFacts DEF Retry, Counts
  <2>2. [f \in Fields |-> live[r][f] + 1] \in Counts
    BY <1>2 DEF Counts
  <2> QED BY <1>2, <2>1, <2>2 DEF Counts, Within
<1>4. \A s \in Runs : Merged(s) /\ Shown(s) /\ Viewed(s)
  BY DEF Reporting
<1>5. ReportTypes'
  BY <1>1, <1>3, RunFacts DEF Reporting, ReportTypes, Phases
<1>6. ASSUME NEW s \in Runs PROVE Merged(s)' /\ Shown(s)' /\ Viewed(s)'
  <2>1. CASE s = r
    <3>1. Merged(s)'
      BY <1>1, <1>4, <2>1, RunFacts DEF Merged
    <3>2. Shown(s)'
      BY <1>1, <1>2, <1>3, <1>4, <2>1, CountFacts DEF Shown
    <3>3. Viewed(s)'
      <4>1. view.run = r /\ reporter # "idle" => active = r
        BY <1>1, <1>4, RunFacts DEF Merged, Viewed
      <4> QED BY <1>1, <1>2, <1>3, <1>4, <2>1, <4>1, CountFacts DEF Viewed
    <3> QED BY <3>1, <3>2, <3>3
  <2>2. CASE s # r
    <3>1. Merged(s)'
      BY <1>1, <1>3, <1>4, <2>2, RunFacts DEF Merged
    <3>2. Shown(s)'
      BY <1>1, <1>3, <1>4, <2>2 DEF Shown
    <3>3. Viewed(s)'
      BY <1>1, <1>3, <1>4, <2>2 DEF Viewed
    <3> QED BY <3>1, <3>2, <3>3
  <2> QED BY <2>1, <2>2
<1> QED BY <1>1, <1>5, <1>6, RunFacts DEF Reporting

\* What a snapshot may have been taken from does not shrink.
Grows == \A r \in Runs : Within(published[r], published'[r])

\* The reporter takes the merged report and remembers which Run is active.
LEMMA LocksReports ==
    ASSUME Reporting, ReporterLocks
    PROVE  Reporting' /\ Grows
<1>1. /\ reporter = "idle" /\ reporter' = "read" /\ phase \notin {"ok", "failed", "crashed"}
      /\ UNCHANGED <<stage, plain, phase, live, report, active, published>>
  BY DEF ReporterLocks, inputVars, reportVars
<1>2. /\ live \in [Runs -> Counts] /\ report \in [Runs -> Counts] /\ published \in [Runs -> Counts]
      /\ active \in Runs \cup {"none"} /\ stage \in BOOLEAN
      /\ \A r \in Runs : Merged(r) /\ Shown(r) /\ Viewed(r)
      /\ stage => published = NoReport
  BY <1>1 DEF Reporting, ReportTypes
<1>3. Zero \in Counts /\ NoReport \in [Runs -> Counts] /\ \A r \in Runs : NoReport[r] = Zero
  BY DEF Zero, NoReport, Counts
<1>4. view' = [base   |-> IF stage THEN NoReport ELSE report,
               run    |-> IF stage THEN "none" ELSE active,
               copied |-> Zero]
  BY DEF ReporterLocks
<1>5. view' \in [base : [Runs -> Counts], run : Runs \cup {"none"}, copied : Counts]
  BY <1>2, <1>3, <1>4
<1>6. ReportTypes'
  BY <1>1, <1>5 DEF Reporting, ReportTypes
<1>7. ASSUME NEW r \in Runs PROVE Merged(r)' /\ Shown(r)' /\ Viewed(r)'
  <2>1. Merged(r)' /\ Shown(r)'
    BY <1>1, <1>2 DEF Merged, Shown
  <2>2. Viewed(r)'
    <3>1. CASE stage
      <4>1. view'.run # r /\ view'.base[r] = Zero /\ published[r] = Zero
        BY <1>2, <1>3, <1>4, <3>1, RunFacts
      <4>2. Within(Zero, Zero) /\ Within(Zero, report[r])
        BY <1>2, <1>3, CountFacts
      <4> QED BY <1>1, <4>1, <4>2 DEF Viewed
    <3>2. CASE ~stage
      <4>1. view'.run = active /\ view'.base[r] = report[r] /\ Within(report[r], report[r])
        BY <1>2, <1>4, <3>2, CountFacts
      <4>2. active # r => Within(published[r], report[r])
        BY <1>2 DEF Shown
      <4>3. active = r => report[r] = Zero /\ (r = "groups" \/ plain)
        BY <1>2 DEF Merged
      <4> QED BY <1>1, <4>1, <4>2, <4>3 DEF Viewed
    <3> QED BY <3>1, <3>2
  <2> QED BY <2>1, <2>2
<1>8. stage => view'.run = "none" /\ view'.base = NoReport
  BY <1>4
<1>9. Grows
  BY <1>1, <1>2, CountFacts DEF Grows
<1> QED BY <1>1, <1>2, <1>6, <1>7, <1>8, <1>9 DEF Reporting

\* What is merged of a Run is no more than what it has counted.
LEMMA MergedWithin ==
    ASSUME Reporting, NEW r \in Runs
    PROVE  Within(report[r], live[r])
<1>1. live[r] \in Counts /\ (report[r] = Zero \/ report[r] = live[r])
  BY DEF Reporting, ReportTypes, Merged
<1> QED BY <1>1, CountFacts

\* A snapshot is published, of which every part is between the last one and what
\* is counted.
LEMMA Publishes ==
    ASSUME Reporting, reporter # "idle", reporter' = "idle", view' = NoView,
           UNCHANGED <<stage, plain, phase, live, report, active>>,
           published' \in [Runs -> Counts], stage => published' = NoReport,
           \A r \in Runs : /\ Within(published[r], published'[r])
                           /\ Within(published'[r], live[r])
                           /\ active # r => Within(published'[r], report[r])
    PROVE  Reporting' /\ Grows
<1>1. NoView \in [base : [Runs -> Counts], run : Runs \cup {"none"}, copied : Counts]
  BY DEF NoView, NoReport, Zero, Counts
<1>2. ReportTypes'
  BY <1>1 DEF Reporting, ReportTypes
<1>3. ASSUME NEW r \in Runs PROVE Merged(r)' /\ Shown(r)' /\ Viewed(r)'
  <2>1. Merged(r)
    BY DEF Reporting
  <2> QED BY <2>1 DEF Merged, Shown, Viewed
<1>4. phase \notin {"ok", "failed"}
  BY DEF Reporting
<1> QED BY <1>2, <1>3, <1>4 DEF Reporting, Grows

\* Without an active Run the snapshot is published, otherwise its counters are copied.
LEMMA CopiesReports ==
    ASSUME Reporting, ReporterCopies
    PROVE  Reporting' /\ Grows
<1>1. /\ reporter = "read" /\ phase # "crashed"
      /\ UNCHANGED <<stage, plain, phase, live, report, active>>
  BY DEF ReporterCopies, inputVars, reportVars
<1>2. /\ live \in [Runs -> Counts] /\ report \in [Runs -> Counts] /\ published \in [Runs -> Counts]
      /\ view \in [base : [Runs -> Counts], run : Runs \cup {"none"}, copied : Counts]
      /\ \A r \in Runs : Merged(r) /\ Shown(r) /\ Viewed(r)
      /\ stage => view.run = "none" /\ view.base = NoReport
  BY <1>1 DEF Reporting, ReportTypes
<1>3. CASE view.run = "none"
  <2>1. reporter' = "idle" /\ view' = NoView /\ published' = view.base
    BY <1>3 DEF ReporterCopies
  <2>2. ASSUME NEW r \in Runs
        PROVE  /\ Within(published[r], published'[r])
               /\ Within(published'[r], live[r])
               /\ Within(published'[r], report[r])
    <3>1. Within(published[r], view.base[r]) /\ Within(view.base[r], report[r])
      BY <1>1, <1>2, <1>3, RunFacts DEF Viewed
    <3>2. Within(report[r], live[r])
      BY MergedWithin
    <3> QED BY <1>2, <2>1, <3>1, <3>2, CountFacts
  <2> QED BY <1>1, <1>2, <2>1, <2>2, Publishes
<1>4. CASE view.run # "none"
  <2>1. reporter' = "merge" /\ view' = [view EXCEPT !.copied = live[view.run]] /\ published' = published
    BY <1>4 DEF ReporterCopies
  <2>2. view.run \in Runs /\ live[view.run] \in Counts
    BY <1>2, <1>4
  <2>3. /\ view'.run = view.run /\ view'.base = view.base /\ view'.copied = live[view.run]
        /\ view' \in [base : [Runs -> Counts], run : Runs \cup {"none"}, copied : Counts]
    BY <1>2, <2>1, <2>2
  <2>4. ReportTypes'
    BY <1>1, <2>1, <2>3 DEF Reporting, ReportTypes
  <2>5. ASSUME NEW r \in Runs PROVE Merged(r)' /\ Shown(r)' /\ Viewed(r)'
    <3>1. Merged(r)' /\ Shown(r)'
      BY <1>1, <1>2, <2>1 DEF Merged, Shown
    <3>2. Within(published[r], live[r]) /\ Within(live[r], live[r])
      BY <1>2, CountFacts DEF Shown
    <3>3. Viewed(r)'
      BY <1>1, <1>2, <2>1, <2>3, <3>2 DEF Viewed
    <3> QED BY <3>1, <3>3
  <2>6. Grows
    BY <1>2, <2>1, CountFacts DEF Grows
  <2> QED BY <1>1, <1>2, <1>4, <2>1, <2>3, <2>4, <2>5, <2>6 DEF Reporting
<1> QED BY <1>3, <1>4

\* The merge reads the map that the runner has gone on counting in.
LEMMA MergesReports ==
    ASSUME Reporting, ReporterMerges
    PROVE  Reporting' /\ Grows
<1> DEFINE r == view.run
           read == [view.copied EXCEPT !["RetriesByClass"] =
                      IF MapShared THEN live[view.run]["RetriesByClass"] ELSE 0]
<1>1. /\ reporter = "merge" /\ phase # "crashed" /\ reporter' = "idle" /\ view' = NoView
      /\ published' = [view.base EXCEPT ![r] = Sum(@, read)]
      /\ UNCHANGED <<stage, plain, phase, live, report, active>>
  BY DEF ReporterMerges, inputVars, reportVars
<1>2. /\ live \in [Runs -> Counts] /\ report \in [Runs -> Counts] /\ published \in [Runs -> Counts]
      /\ view \in [base : [Runs -> Counts], run : Runs \cup {"none"}, copied : Counts]
      /\ \A s \in Runs : Merged(s) /\ Shown(s) /\ Viewed(s)
      /\ r # "none" /\ ~stage
  BY <1>1 DEF Reporting, ReportTypes
<1>3. r \in Runs /\ view.base \in [Runs -> Counts] /\ view.copied \in Counts /\ live[r] \in Counts
      /\ published[r] \in Counts
  BY <1>2
<1>4. /\ view.base[r] = Zero /\ (active = r \/ report[r] = live[r])
      /\ Within(published[r], view.copied) /\ Within(view.copied, live[r])
  BY <1>1, <1>2, <1>3 DEF Viewed
<1>5. read \in Counts
  BY <1>3, RunFacts DEF Counts
<1>6. Within(published[r], read) /\ Within(read, live[r])
  <2>1. read["Retries"] = view.copied["Retries"]
    BY <1>3, RunFacts DEF Counts
  <2>2. read["RetriesByClass"] = IF view.copied["RetriesByClass"] > 0
                                   THEN live[r]["RetriesByClass"] ELSE 0
    BY <1>1, <1>3, RunFacts DEF Counts, MapShared
  <2> HIDE DEF r, read
  <2> QED BY <1>3, <1>4, <1>5, <2>1, <2>2, RunFacts DEF Within, Counts
<1> HIDE DEF read
<1>7. published' = [view.base EXCEPT ![r] = read]
  BY <1>1, <1>3, <1>4, <1>5, CountFacts
<1>8. published' \in [Runs -> Counts]
  BY <1>3, <1>5, <1>7
<1>9. ASSUME NEW s \in Runs
      PROVE  /\ Within(published[s], published'[s])
             /\ Within(published'[s], live[s])
             /\ active # s => Within(published'[s], report[s])
  <2>1. CASE s = r
    <3>1. published'[s] = read
      BY <1>3, <1>7, <2>1
    <3> QED BY <1>4, <1>6, <2>1, <3>1
  <2>2. CASE s # r
    <3>1. published'[s] = view.base[s] /\ view.base[s] \in Counts
      BY <1>3, <1>7, <2>2
    <3>2. Within(published[s], view.base[s]) /\ Within(view.base[s], report[s])
      BY <1>1, <1>2, <2>2 DEF Viewed
    <3>3. Within(report[s], live[s])
      BY MergedWithin
    <3> QED BY <1>2, <3>1, <3>2, <3>3, CountFacts
  <2> QED BY <2>1, <2>2
<1> QED BY <1>1, <1>2, <1>8, <1>9, Publishes

\* The terminal snapshot has counted everything.
LEMMA DeliverReports ==
    ASSUME Reporting, Deliver
    PROVE  Reporting' /\ Grows
<1>1. /\ phase = "done" /\ phase' \in {"ok", "failed"} /\ reporter = "idle"
      /\ UNCHANGED <<stage, plain, live, report, active, reporter, view>>
      /\ published' = CurrentReport
  BY DEF Deliver, inputVars, reportVars
<1>2. /\ live \in [Runs -> Counts] /\ report \in [Runs -> Counts] /\ published \in [Runs -> Counts]
      /\ active \in Runs \cup {"none"} /\ \A r \in Runs : Merged(r) /\ Shown(r)
  BY DEF Reporting, ReportTypes
<1>3. active = "none" /\ \A r \in Runs : report[r] = live[r]
  BY <1>1, <1>2, RunFacts DEF Merged
<1>4. published' = live
  BY <1>1, <1>2, <1>3, RunFacts DEF CurrentReport
<1>5. ReportTypes'
  BY <1>1, <1>2, <1>4 DEF Reporting, ReportTypes, Phases
<1>6. ASSUME NEW r \in Runs PROVE Merged(r)' /\ Shown(r)' /\ Viewed(r)'
  <2>1. Merged(r)'
    BY <1>1, <1>2, <1>3, RunFacts DEF Merged
  <2>2. Within(live[r], live[r])
    BY <1>2, CountFacts
  <2> QED BY <1>1, <1>3, <1>4, <2>1, <2>2 DEF Shown, Viewed
<1>7. Grows
  BY <1>2, <1>4 DEF Grows, Shown
<1> QED BY <1>1, <1>4, <1>5, <1>6, <1>7 DEF Reporting

\* Every step keeps Reporting, and no snapshot falls behind the one before.
LEMMA ReportingStep ==
    Reporting /\ [Next]_vars => Reporting' /\ Grows
<1> SUFFICES ASSUME Reporting, [Next]_vars PROVE Reporting' /\ Grows
  OBVIOUS
<1>0. UNCHANGED published => Grows
  BY CountFacts DEF Reporting, ReportTypes, Grows
<1>1. CASE StartGroups
  <2>0. UNCHANGED <<stage, plain, live, report, reporter, view, published>> /\ phase = "start"
    BY <1>1 DEF StartGroups, inputVars, readerVars
  <2>1. CASE phase' = "groups" /\ active' = "groups"
    BY <1>0, <2>0, <2>1, Registers, RunFacts
  <2>2. CASE phase' = "done" /\ UNCHANGED active
    BY <1>0, <2>0, <2>2, PhaseMoves
  <2> QED BY <1>1, <2>1, <2>2 DEF StartGroups
<1>2. CASE GroupsReturn
  <2>1. /\ phase = "groups" /\ MergeCompleted("groups") /\ phase' = "split"
        /\ UNCHANGED <<stage, plain, live, reporter, view, published>>
    BY <1>2 DEF GroupsReturn, inputVars, readerVars
  <2> QED BY <1>0, <2>1, Completes, RunFacts
<1>3. CASE SplitGroup
  <2>1. /\ phase = "split" /\ phase' \in {phase, "done"}
        /\ UNCHANGED <<stage, plain, live, report, active, reporter, view, published>>
    BY <1>3 DEF SplitGroup, inputVars, reportVars, readerVars
  <2> QED BY <1>0, <2>1, PhaseMoves
<1>4. CASE StartRepairs
  <2>1. /\ phase = "split" /\ phase' = (IF missing = <<>> THEN "done" ELSE "repairs")
        /\ active' = (IF missing # <<>> /\ plain THEN "repairs" ELSE active)
        /\ UNCHANGED <<stage, plain, live, report, reporter, view, published>>
    BY <1>4 DEF StartRepairs, inputVars, readerVars
  <2>2. CASE missing # <<>> /\ plain
    BY <1>0, <2>1, <2>2, Registers, RunFacts
  <2>3. CASE ~(missing # <<>> /\ plain)
    BY <1>0, <2>1, <2>3, PhaseMoves
  <2> QED BY <2>2, <2>3
<1>5. CASE RepairsReturn
  <2>1. /\ phase = "repairs" /\ MergeCompleted("repairs") /\ phase' = "collect"
        /\ UNCHANGED <<stage, plain, live, reporter, view, published>>
    BY <1>5 DEF RepairsReturn, inputVars, readerVars
  <2> QED BY <1>0, <2>1, Completes, RunFacts
<1>6. CASE Collect
  <2>1. /\ phase = "collect" /\ phase' \in {phase, "done"}
        /\ UNCHANGED <<stage, plain, live, report, active, reporter, view, published>>
    BY <1>6 DEF Collect, inputVars, reportVars, readerVars
  <2> QED BY <1>0, <2>1, PhaseMoves
<1>7. CASE Deliver
  BY <1>7, DeliverReports
<1>8. ASSUME NEW r \in Runs, NestedFails(r) PROVE Reporting' /\ Grows
  <2>1. /\ phase = r /\ MergeCompleted(r) /\ phase' = "done"
        /\ UNCHANGED <<stage, plain, live, reporter, view, published>>
    BY <1>8 DEF NestedFails, inputVars, readerVars
  <2> QED BY <1>0, <2>1, Completes
<1>9. ASSUME NEW r \in Runs, NEW u \in DOMAIN unit[r], Retry(r, u) PROVE Reporting' /\ Grows
  <2>1. UNCHANGED published
    BY <1>9 DEF Retry, readerVars
  <2> QED BY <1>0, <1>9, <2>1, RetryReports
<1>10. ASSUME NEW r \in Runs, NEW u \in DOMAIN unit[r], Answer(r, u) PROVE Reporting' /\ Grows
  <2>1. UNCHANGED <<stage, plain, phase, live, report, active, reporter, view, published>>
    BY <1>10 DEF Answer, inputVars, reportVars, readerVars
  <2> QED BY <1>0, <2>1, PhaseMoves
<1>11. CASE ReporterStep
  BY <1>11, LocksReports, CopiesReports, MergesReports DEF ReporterStep
<1>12. CASE UNCHANGED vars
  <2>1. UNCHANGED <<stage, plain, phase, live, report, active, reporter, view, published>>
    BY <1>12 DEF vars, inputVars, reportVars, readerVars
  <2> QED BY <1>0, <2>1, PhaseMoves
<1> QED BY <1>1, <1>2, <1>3, <1>4, <1>5, <1>6, <1>7, <1>8, <1>9, <1>10, <1>11, <1>12
    DEF Next, EngineStep

\* The reports of src/flow/report.go and registerReport of src/flow/batch.go: at
\* any moment between the nested Runs and the ticks, a snapshot counts nothing
\* twice, and the report that is returned has counted everything.
THEOREM SnapshotsCountOnce ==
    Spec => []ReportExact
<1>1. Reporting => ReportExact
  <2> SUFFICES ASSUME Reporting PROVE ReportExact
    OBVIOUS
  <2>1. \A r \in Runs : Shown(r)
    BY DEF Reporting
  <2> QED BY <2>1 DEF Reporting, ReportExact, Shown, Within
<1>2. Reporting /\ [Next]_vars => Reporting'
  BY ReportingStep
<1> QED BY <1>1, <1>2, ReportingInit, PTL DEF Spec

\* The periodic snapshots of src/flow/observe.go: progress never goes back from
\* one to the next, at whatever step a Run is merged and unregistered.
THEOREM SnapshotsNeverShrink ==
    Spec => SnapshotsGrow
<1>1. Reporting /\ [Next]_vars
        => [\A r \in Runs, f \in Fields : published'[r][f] >= published[r][f]]_published
  <2> SUFFICES ASSUME Reporting, [Next]_vars
               PROVE  \A r \in Runs, f \in Fields : published'[r][f] >= published[r][f]
    OBVIOUS
  <2>1. Reporting' /\ Grows
    BY ReportingStep
  <2>2. published \in [Runs -> Counts] /\ published' \in [Runs -> Counts]
    BY <2>1 DEF Reporting, ReportTypes
  <2> QED BY <2>1, <2>2 DEF Grows, Within, Counts
<1>2. Reporting /\ [Next]_vars => Reporting'
  BY ReportingStep
<1> QED BY <1>1, <1>2, ReportingInit, PTL DEF Spec, SnapshotsGrow
------------------------------------------------------------------------------
(* Items: what the invariant says of them                                    *)

Going == ~error /\ phase # "crashed"

\* The position is to be repaired, or in a group that is still to be split.
Left(q) == \E u \in DOMAIN missing : missing[u] = q
Ahead(q) == \E g \in DOMAIN grouping : g >= at /\ q \in ToSet(grouping[g])

Slices ==
    /\ stage \in BOOLEAN /\ upstream \in SUBSET Items /\ (~stage => upstream = {})
    /\ error \in BOOLEAN /\ phase \in Phases /\ at \in Nat \ {0}
    /\ DOMAIN unit = Runs /\ DOMAIN tries = Runs
    /\ grouping \in Seq(Seq(Nat)) /\ (~error => InRange(grouping) /\ Disjoint(grouping))
    /\ missing \in Seq(Positions)
    /\ \A u, v \in DOMAIN missing : missing[u] = missing[v] => u = v
    /\ phase \notin {"done", "failed"} => ~error
    /\ phase \in {"start", "groups"} => missing = <<>>
    /\ phase = "split" => \A q \in Positions : ~(Ahead(q) /\ Left(q))
    /\ phase = "repairs" => at = 1 /\ missing # <<>>
    /\ phase = "collect" => at <= Len(missing)

\* What is known of the repairs: nothing before their Run, everything after it.
Repairs ==
    /\ phase \in {"start", "groups", "split"} => DOMAIN unit["repairs"] = {}
    /\ phase \notin {"start", "groups", "split"} => DOMAIN unit["repairs"] = DOMAIN missing
    /\ \A u \in DOMAIN unit["repairs"] :
         /\ unit["repairs"][u] \in {"value", "quarantined", "skipped"} \cup
                                   (IF phase = "repairs" THEN {"waiting"} ELSE {})
         /\ tries["repairs"][u] \in Nat \ {0}
    /\ DOMAIN tries["repairs"] = DOMAIN unit["repairs"]

\* The position has no result yet.
Pending(q) ==
    \/ phase \in {"start", "groups"}
    \/ phase = "split" /\ (Ahead(q) \/ Left(q))
    \/ phase = "repairs" /\ Left(q)
    \/ phase = "collect" /\ \E u \in DOMAIN missing : u >= at /\ missing[u] = q

\* The result of a position, once there is one, is that of its item.
Settled(q) ==
    \E kind \in {"value", "quarantined", "skipped"} :
      results[q] = Result(kind, Clean[q], IF kind = "quarantined" THEN q ELSE 0)

Placed ==
    /\ \A q \in Positions : IF Pending(q) THEN results[q] = NoResult ELSE Settled(q)
    /\ \A u \in DOMAIN missing :
         \/ phase = "collect" /\ u < at
         \/ phase \in {"done", "ok"}
         => results[missing[u]].kind = unit["repairs"][u]

One(condition) == IF condition THEN 1 ELSE 0
Heard(who, q) == Copies(Message(who, q, Clean[q]), told)

\* The observers have heard of a result when it is there, and the ledger of every attempt.
Observed ==
    \A q \in Positions :
      /\ Heard("hook", q) = One(results[q].kind = "value")
      /\ Heard("repairHook", q) = One(\E u \in DOMAIN unit["repairs"] :
                                        missing[u] = q /\ unit["repairs"][u] = "value")
      /\ (\A u \in DOMAIN unit["repairs"] : missing[u] # q) => Heard("ledger", q) = 0
      /\ \A u \in DOMAIN unit["repairs"] : missing[u] = q =>
           Heard("ledger", q) = tries["repairs"][u] - 1 + One(unit["repairs"][u] # "waiting")

\* No observer is told of a wrong item.
Addressed ==
    /\ told \in [DOMAIN told -> Nat]
    /\ \A m \in DOMAIN told : m.index \in Positions /\ Clean[m.index] = m.item

Itemwise ==
    /\ Slices
    /\ DOMAIN results = Positions
    /\ Addressed
    /\ Going => Repairs /\ Placed /\ Observed
    /\ RepairsLandInPlace
------------------------------------------------------------------------------
(* Ascending enumerations                                                    *)

Increasing(s) == \A p, q \in DOMAIN s : p < q => s[p] < s[q]

\* A set of naturals that is not empty has a least element.
LEMMA LeastNatural ==
    ASSUME NEW T, T \subseteq Nat, T # {}
    PROVE  \E m \in T : \A n \in T : m <= n
<1> DEFINE R == {p \in Nat \X Nat : p[1] < p[2]}
<1>1. IsWellFoundedOn(R, Nat)
  BY NatLessThanWellFounded, Zenon DEF OpToRel
<1>2. PICK m \in T : \A n \in T : ~(<<n, m>> \in R)
  <2> HIDE DEF R
  <2> QED BY <1>1, WFMin
<1>3. \A n \in T : ~(n < m)
  BY <1>2
<1> QED BY <1>3

Listed(n) ==
    \A S \in SUBSET (1 .. n) : \E s \in [1 .. Cardinality(S) -> S] : Increasing(s)

\* The greatest element goes to the end of the list of the others.
LEMMA ListedNext ==
    ASSUME NEW n \in Nat, Listed(n)
    PROVE  Listed(n + 1)
<1> SUFFICES ASSUME NEW S \in SUBSET (1 .. (n + 1))
             PROVE  \E s \in [1 .. Cardinality(S) -> S] : Increasing(s)
  BY DEF Listed
<1>1. CASE (n + 1) \notin S
  <2>1. S \in SUBSET (1 .. n)
    BY <1>1
  <2> QED BY <2>1 DEF Listed
<1>2. CASE (n + 1) \in S
  <2> DEFINE T == S \ {n + 1}
             k == Cardinality(T)
  <2>1. T \in SUBSET (1 .. n) /\ IsFiniteSet(1 .. (n + 1))
    BY FS_Interval
  <2>2. IsFiniteSet(S)
    BY <2>1, FS_Subset
  <2>3. IsFiniteSet(T) /\ k = Cardinality(S) - 1 /\ k \in Nat
    BY <1>2, <2>2, FS_RemoveElement, FS_CardinalityType
  <2>4. Cardinality(S) = k + 1
    BY <2>2, <2>3, FS_CardinalityType
  <2>5. PICK t \in [1 .. k -> T] : Increasing(t)
    BY <2>1 DEF Listed
  <2> HIDE DEF k
  <2> DEFINE s == [p \in 1 .. (k + 1) |-> IF p = k + 1 THEN n + 1 ELSE t[p]]
  <2>6. s \in [1 .. (k + 1) -> S]
    BY <1>2, <2>3, <2>5
  <2>7. ASSUME NEW p \in 1 .. (k + 1), NEW q \in 1 .. (k + 1), p < q PROVE s[p] < s[q]
    <3>1. p \in 1 .. k /\ s[p] = t[p]
      BY <2>3, <2>7
    <3>4. t[p] \in 1 .. n
      <4>1. t[p] \in T
        BY <2>5, <3>1
      <4> QED BY <2>1, <4>1
    <3>2. CASE q = k + 1
      BY <3>1, <3>2, <3>4
    <3>3. CASE q # k + 1
      <4>1. q \in 1 .. k /\ s[q] = t[q]
        BY <2>3, <3>3
      <4> QED BY <2>5, <2>7, <3>1, <4>1 DEF Increasing
    <3> QED BY <3>2, <3>3
  <2>8. Increasing(s)
    BY <2>7 DEF Increasing
  <2> QED BY <2>4, <2>6, <2>8
<1> QED BY <1>1, <1>2

\* A set of positions can be listed in order: the least n for which it cannot is
\* neither 0 nor the successor of a number.
LEMMA Lists ==
    \A n \in Nat : Listed(n)
<1> DEFINE T == {n \in Nat : ~Listed(n)}
<1> SUFFICES ASSUME T # {} PROVE FALSE
  OBVIOUS
<1>1. PICK m \in T : \A n \in T : m <= n
  BY LeastNatural
<1>2. CASE m = 0
  <2>1. ASSUME NEW S \in SUBSET (1 .. 0)
        PROVE  \E s \in [1 .. Cardinality(S) -> S] : Increasing(s)
    <3>1. S = {} /\ 1 .. 0 = {} /\ Cardinality(S) = 0
      <4>1. 1 .. 0 = {}
        OBVIOUS
      <4>2. S = {}
        BY <4>1
      <4> QED BY <4>1, <4>2, FS_EmptySet
    <3>2. [p \in {} |-> 0] \in [1 .. Cardinality(S) -> S]
      BY <3>1
    <3>3. Increasing([p \in {} |-> 0])
      BY DEF Increasing
    <3> QED BY <3>2, <3>3
  <2> QED BY <1>1, <1>2, <2>1 DEF Listed
<1>3. CASE m # 0
  <2>1. m - 1 \in Nat /\ (m - 1) + 1 = m /\ ~(m <= m - 1)
    BY <1>1, <1>3
  <2>2. Listed(m - 1)
    BY <1>1, <2>1
  <2>3. Listed((m - 1) + 1)
    BY <2>1, <2>2, ListedNext
  <2> QED BY <1>1, <2>1, <2>3
<1> QED BY <1>2, <1>3

\* The loop lists every number of the set once.
LEMMA AscendingFacts ==
    ASSUME NEW n \in Nat, NEW S \in SUBSET (1 .. n)
    PROVE  /\ IsFiniteSet(S) /\ Cardinality(S) \in Nat
           /\ Ascending(S) \in [1 .. Cardinality(S) -> S]
           /\ Increasing(Ascending(S))
           /\ \A p, q \in 1 .. Cardinality(S) : Ascending(S)[p] = Ascending(S)[q] => p = q
           /\ \A x \in S : \E p \in 1 .. Cardinality(S) : Ascending(S)[p] = x
<1> DEFINE k == Cardinality(S)
           a == Ascending(S)
<1>1. IsFiniteSet(S) /\ k \in Nat
  <2>1. IsFiniteSet(1 .. n)
    BY FS_Interval
  <2>2. IsFiniteSet(S)
    BY <2>1, FS_Subset
  <2> QED BY <2>2, FS_CardinalityType
<1>2. \E s \in [1 .. k -> S] : Increasing(s)
  BY Lists DEF Listed
<1>3. a \in [1 .. k -> S] /\ Increasing(a)
  BY <1>2 DEF Ascending, Increasing
<1> HIDE DEF a, k
<1>4. \A p, q \in 1 .. k : a[p] = a[q] => p = q
  <2> SUFFICES ASSUME NEW p \in 1 .. k, NEW q \in 1 .. k, a[p] = a[q] PROVE p = q
    OBVIOUS
  <2>1. a[p] \in Nat /\ a[q] \in Nat
    <3>1. a[p] \in S /\ a[q] \in S
      BY <1>3
    <3>2. \A x \in S : x \in 1 .. n
      OBVIOUS
    <3>3. a[p] \in 1 .. n /\ a[q] \in 1 .. n
      BY <3>1, <3>2
    <3> QED BY <3>3
  <2>2. ~(p < q) /\ ~(q < p)
    BY <1>3, <2>1 DEF Increasing
  <2> QED BY <1>1, <2>2
<1>5. \A x \in S : \E p \in 1 .. k : a[p] = x
  <2>1. a \in Injection(1 .. k, S)
    BY <1>3, <1>4 DEF Injection, IsInjective
  <2>2. Cardinality(1 .. k) = k /\ IsFiniteSet(1 .. k)
    BY <1>1, FS_Interval
  <2>3. a \in Surjection(1 .. k, S)
    BY <1>1, <2>1, <2>2, FS_Injection DEF k
  <2> QED BY <2>3 DEF Surjection
<1> QED BY <1>1, <1>3, <1>4, <1>5 DEF a, k

\* When nothing is left out, the list is the numbers themselves.
LEMMA AscendingAll ==
    ASSUME NEW n \in Nat
    PROVE  \A q \in 1 .. n : Ascending(1 .. n)[q] = q
<1> DEFINE a == Ascending(1 .. n)
           T == {q \in 1 .. n : a[q] # q}
<1>1. Cardinality(1 .. n) = n
  BY FS_Interval
<1>2. a \in [1 .. n -> 1 .. n] /\ Increasing(a) /\ \A x \in 1 .. n : \E p \in 1 .. n : a[p] = x
  BY <1>1, AscendingFacts
<1> HIDE DEF a
<1> SUFFICES ASSUME T # {} PROVE FALSE
  BY DEF a
<1>3. PICK m \in T : \A q \in T : m <= q
  <2>1. T \subseteq Nat
    OBVIOUS
  <2> HIDE DEF T
  <2> QED BY <2>1, LeastNatural
<1>4. \A q \in 1 .. n : q < m => a[q] = q
  BY <1>3
<1>5. a[m] > m
  <2>1. a[m] \in 1 .. n /\ a[m] # m
    BY <1>2, <1>3
  <2>2. CASE a[m] < m
    <3>1. a[a[m]] = a[m]
      BY <1>4, <2>1, <2>2
    <3>2. a[a[m]] < a[m]
      BY <1>2, <1>3, <2>1, <2>2 DEF Increasing
    <3> QED BY <2>1, <3>1, <3>2
  <2> QED BY <1>3, <2>1, <2>2
<1>6. PICK p \in 1 .. n : a[p] = m
  BY <1>2, <1>3
<1>7. CASE p < m
  BY <1>3, <1>4, <1>6, <1>7
<1>8. CASE p = m
  BY <1>3, <1>6, <1>8
<1>9. CASE p > m
  <2>1. a[m] < a[p]
    BY <1>2, <1>3, <1>9 DEF Increasing
  <2> QED BY <1>2, <1>3, <1>5, <1>6, <2>1
<1> QED BY <1>3, <1>7, <1>8, <1>9

\* The slice given to runBatched holds each item that is not flagged, once.
LEMMA CleanFacts ==
    ASSUME upstream \in SUBSET Items
    PROVE  /\ Positions = 1 .. Cardinality(Items \ upstream)
           /\ Cardinality(Items \ upstream) \in Nat
           /\ Clean \in [Positions -> Items \ upstream]
           /\ \A p, q \in Positions : Clean[p] = Clean[q] => p = q
           /\ \A i \in Items \ upstream : \E q \in Positions : Clean[q] = i
           /\ upstream = {} => \A q \in Positions : Clean[q] = q
<1>1. N \in Nat /\ Items \ upstream \in SUBSET (1 .. N)
  BY BatchedAssumption DEF Items
<1>2. /\ Cardinality(Items \ upstream) \in Nat
      /\ Clean \in [1 .. Cardinality(Items \ upstream) -> Items \ upstream]
      /\ \A p, q \in 1 .. Cardinality(Items \ upstream) : Clean[p] = Clean[q] => p = q
      /\ \A i \in Items \ upstream : \E q \in 1 .. Cardinality(Items \ upstream) : Clean[q] = i
  BY <1>1, AscendingFacts DEF Clean
<1>3. Positions = 1 .. Cardinality(Items \ upstream)
  BY <1>2 DEF Positions
<1>4. ASSUME upstream = {} PROVE \A q \in Positions : Clean[q] = q
  <2>1. Items \ upstream = 1 .. N /\ Cardinality(1 .. N) = N
    BY <1>1, <1>4, FS_Interval DEF Items
  <2> QED BY <1>1, <1>3, <2>1, AscendingAll DEF Clean
<1> QED BY <1>2, <1>3, <1>4
------------------------------------------------------------------------------
(* What the observers are told                                               *)

\* Bags add up copy by copy.
LEMMA BagFacts ==
    ASSUME NEW A, NEW B, A \in [DOMAIN A -> Nat], B \in [DOMAIN B -> Nat]
    PROVE  /\ DOMAIN (A (+) B) = DOMAIN A \cup DOMAIN B
           /\ A (+) B \in [DOMAIN A \cup DOMAIN B -> Nat]
           /\ \A m : Copies(m, A (+) B) = Copies(m, A) + Copies(m, B)
<1>1. DOMAIN (A (+) B) = DOMAIN A \cup DOMAIN B
  BY DEF (+)
<1>2. A (+) B \in [DOMAIN A \cup DOMAIN B -> Nat]
  BY DEF (+)
<1>3. ASSUME NEW m PROVE Copies(m, A (+) B) = Copies(m, A) + Copies(m, B)
  BY DEF (+), Copies, BagToSet
<1> QED BY <1>1, <1>2, <1>3

\* A set is a bag with one copy of each message.
LEMMA SetBagFacts ==
    ASSUME NEW S
    PROVE  /\ DOMAIN SetToBag(S) = S /\ SetToBag(S) \in [S -> Nat]
           /\ \A m : Copies(m, SetToBag(S)) = IF m \in S THEN 1 ELSE 0
BY DEF SetToBag, Copies, BagToSet

\* A message is told apart by who hears it, the index and the item.
LEMMA MessageFacts ==
    ASSUME NEW w, NEW q, NEW i
    PROVE  /\ Message(w, q, i).who = w /\ Message(w, q, i).index = q /\ Message(w, q, i).item = i
           /\ \A x, p, j : Message(w, q, i) = Message(x, p, j) => w = x /\ q = p /\ i = j
BY DEF Message
------------------------------------------------------------------------------
(* Items: the steps                                                          *)

\* The slice does not change.
LEMMA SameSlice ==
    ASSUME UNCHANGED upstream
    PROVE  Clean' = Clean /\ Positions' = Positions
BY DEF Clean, Positions, Items

\* Nothing is told, split, repaired or collected before the groups are answered.
LEMMA ItemwiseInit ==
    Init => Itemwise
<1> SUFFICES ASSUME Init PROVE Itemwise
  OBVIOUS
<1>1. Slices
  <2>1. /\ stage \in BOOLEAN /\ upstream \in SUBSET Items /\ (~stage => upstream = {})
        /\ error = FALSE /\ phase = "start" /\ at = 1 /\ grouping = <<>> /\ missing = <<>>
    BY DEF Init
  <2>2. DOMAIN unit = Runs /\ DOMAIN tries = Runs
    BY DEF Init
  <2>3. InRange(grouping) /\ Disjoint(grouping) /\ grouping \in Seq(Seq(Nat))
    BY <2>1 DEF InRange, Disjoint
  <2>4. missing \in Seq(Positions) /\ \A u, v \in DOMAIN missing : missing[u] = missing[v] => u = v
    BY <2>1
  <2>5. phase \in Phases /\ at \in Nat \ {0}
    BY <2>1 DEF Phases
  <2>6. error \in BOOLEAN
    BY <2>1, Zenon
  <2> QED BY <2>1, <2>2, <2>3, <2>4, <2>5, <2>6 DEF Slices
<1>2. DOMAIN results = Positions /\ \A q \in Positions : results[q] = NoResult
  BY DEF Init
<1>3. told = EmptyBag /\ DOMAIN told = {} /\ told \in [DOMAIN told -> Nat]
  BY DEF Init, EmptyBag, SetToBag
<1>4. Addressed
  BY <1>3 DEF Addressed
<1>5. unit["repairs"] = <<>> /\ tries["repairs"] = <<>> /\ missing = <<>> /\ phase = "start"
  BY RunFacts DEF Init
<1>6. Repairs
  BY <1>5 DEF Repairs
<1>7. Placed
  BY <1>2, <1>5 DEF Placed, Pending
<1>8. Observed
  <2>1. \A who, q : Heard(who, q) = 0
    BY <1>3 DEF Heard, Copies, BagToSet
  <2> QED BY <1>2, <1>5, <2>1 DEF Observed, One, NoResult, Result
<1>9. RepairsLandInPlace
  BY <1>5 DEF RepairsLandInPlace
<1> QED BY <1>1, <1>2, <1>4, <1>6, <1>7, <1>8, <1>9 DEF Itemwise

\* What was told stays right while nothing is told.
LEMMA ToldNothing ==
    ASSUME UNCHANGED <<upstream, told>>
    PROVE  /\ Addressed => Addressed'
           /\ \A who, q : Heard(who, q)' = Heard(who, q)
<1>1. Clean' = Clean /\ Positions' = Positions
  BY SameSlice
<1> QED BY <1>1 DEF Addressed, Heard

\* And so does what was heard, while no answer is added.
LEMMA ObservedStays ==
    ASSUME Observed, UNCHANGED <<upstream, told, missing, results>>,
           UNCHANGED <<unit["repairs"], tries["repairs"]>>
    PROVE  Observed'
<1>1. Positions' = Positions /\ \A who, q : Heard(who, q)' = Heard(who, q)
  BY SameSlice, ToldNothing
<1>2. UNCHANGED <<missing, results, unit["repairs"], tries["repairs"]>>
  OBVIOUS
<1> QED BY <1>1, <1>2 DEF Observed, One

\* Steps that leave the items alone: the reporter's, those of the group Run, and
\* the end of a nested Run with an error.
LEMMA ItemsAlone ==
    ASSUME Itemwise, UNCHANGED <<stage, upstream, grouping, at, missing, results, told, out>>,
           DOMAIN unit' = Runs, DOMAIN tries' = Runs,
           UNCHANGED <<unit["repairs"], tries["repairs"]>>,
           \/ UNCHANGED <<phase, error>>
           \/ phase \in Runs /\ phase' = "crashed" /\ UNCHANGED error
           \/ phase \in Runs /\ phase' = "done" /\ error' = TRUE
    PROVE  Itemwise'
<1>1. Clean' = Clean /\ Positions' = Positions
  BY SameSlice
<1>2. Slices'
  <2>1. \A q \in Positions : (Ahead(q)' <=> Ahead(q)) /\ (Left(q)' <=> Left(q))
    BY DEF Ahead, Left
  <2>2. InRange(grouping)' = InRange(grouping) /\ Disjoint(grouping)' = Disjoint(grouping)
    BY <1>1 DEF InRange, Disjoint
  <2>3. Slices
    BY DEF Itemwise
  <2>4. /\ error' \in BOOLEAN /\ phase' \in Phases /\ (phase' \notin {"done", "failed"} => ~error')
        /\ ~error' => ~error
        /\ phase' \in {phase, "crashed", "done"}
    <3>1. error \in BOOLEAN /\ phase \in Phases /\ (phase \notin {"done", "failed"} => ~error)
      BY <2>3 DEF Slices
    <3>2. CASE UNCHANGED <<phase, error>>
      BY <3>1, <3>2
    <3>3. CASE phase \in Runs /\ phase' = "crashed" /\ UNCHANGED error
      BY <3>1, <3>3, RunFacts DEF Phases
    <3>4. CASE phase \in Runs /\ phase' = "done" /\ error' = TRUE
      BY <3>1, <3>4, RunFacts DEF Phases
    <3> QED BY <3>2, <3>3, <3>4
  <2>5. missing' \in Seq(Positions') /\ \A u, v \in DOMAIN missing' : missing'[u] = missing'[v] => u = v
    BY <1>1, <2>3 DEF Slices
  <2>6. /\ phase' \in {"start", "groups"} => missing' = <<>>
        /\ phase' = "split" => \A q \in Positions' : ~(Ahead(q)' /\ Left(q)')
        /\ phase' = "repairs" => at' = 1 /\ missing' # <<>>
        /\ phase' = "collect" => at' <= Len(missing')
    BY <1>1, <2>1, <2>3, <2>4 DEF Slices
  <2>7. grouping' \in Seq(Seq(Nat)) /\ (~error' => InRange(grouping)' /\ Disjoint(grouping)')
    BY <2>2, <2>3, <2>4 DEF Slices
  <2>8. /\ stage' \in BOOLEAN /\ upstream' \in SUBSET Items' /\ (~stage' => upstream' = {})
        /\ at' \in Nat \ {0}
    BY <2>3 DEF Slices, Items
  <2> QED BY <2>4, <2>5, <2>6, <2>7, <2>8 DEF Slices
<1>3. Addressed' /\ DOMAIN results' = Positions'
  BY <1>1, ToldNothing DEF Itemwise
<1>4. RepairsLandInPlace'
  BY <1>1, RunFacts DEF Itemwise, RepairsLandInPlace, Items
<1>5. ASSUME Going' PROVE Repairs' /\ Placed' /\ Observed'
  <2>1. UNCHANGED <<phase, error>> /\ Repairs /\ Placed /\ Observed
    BY <1>5 DEF Going, Itemwise
  <2>2. Repairs'
    BY <2>1 DEF Repairs
  <2>3. Placed'
    <3>1. \A q \in Positions : (Pending(q)' <=> Pending(q)) /\ (Settled(q)' <=> Settled(q))
      BY <1>1, <2>1 DEF Pending, Ahead, Left, Settled
    <3> QED BY <1>1, <2>1, <3>1 DEF Placed, NoResult
  <2>4. Observed'
    BY <2>1, ObservedStays
  <2> QED BY <2>2, <2>3, <2>4
<1> QED BY <1>2, <1>3, <1>4, <1>5 DEF Itemwise
\* Group has cut the items.
LEMMA StartGroupsItems ==
    ASSUME Itemwise, StartGroups
    PROVE  Itemwise'
<1>1. /\ phase = "start" /\ UNCHANGED <<stage, upstream, at, missing, results, told, out>>
      /\ Slices /\ Addressed /\ DOMAIN results = Positions
  BY DEF StartGroups, inputVars, Itemwise
<1>2. Clean' = Clean /\ Positions' = Positions
  BY <1>1, SameSlice
<1>3. PICK groups \in Groupings :
        /\ grouping' = groups
        /\ \/ /\ InRange(groups) /\ Disjoint(groups)
              /\ phase' = "groups" /\ Begin("groups", DOMAIN groups) /\ error' = error
           \/ phase' = "done" /\ error' = TRUE /\ unit' = unit /\ tries' = tries
  BY DEF StartGroups
<1>4. missing = <<>> /\ ~error /\ DOMAIN unit = Runs /\ DOMAIN tries = Runs
  BY <1>1 DEF Slices
<1>5. Repairs /\ Placed /\ Observed
  BY <1>1, <1>4 DEF Itemwise, Going
<1>6. /\ DOMAIN unit' = Runs /\ DOMAIN tries' = Runs
      /\ UNCHANGED <<unit["repairs"], tries["repairs"]>>
  BY <1>3, <1>4, RunFacts DEF Begin
<1>7. groups \in Seq(Seq(Nat))
  BY <1>3, BatchedAssumption
<1>8. Slices'
  <2>1. /\ stage' \in BOOLEAN /\ upstream' \in SUBSET Items' /\ (~stage' => upstream' = {})
        /\ at' \in Nat \ {0}
    BY <1>1 DEF Slices, Items
  <2>2. /\ error' \in BOOLEAN /\ phase' \in Phases /\ (phase' \notin {"done", "failed"} => ~error')
        /\ phase' \in {"groups", "done"}
    <3>1. error \in BOOLEAN /\ ~error
      BY <1>1, <1>4 DEF Slices
    <3>2. CASE phase' = "groups" /\ error' = error
      BY <3>1, <3>2 DEF Phases
    <3>3. CASE phase' = "done" /\ error' = TRUE
      BY <3>3 DEF Phases
    <3> QED BY <1>3, <3>2, <3>3
  <2>3. ~error' => InRange(grouping)' /\ Disjoint(grouping)'
    <3>1. InRange(groups)' = InRange(groups) /\ Disjoint(groups)' = Disjoint(groups)
      BY <1>2 DEF InRange, Disjoint
    <3> QED BY <1>2, <1>3 DEF InRange, Disjoint
  <2> QED BY <1>1, <1>2, <1>3, <1>4, <1>6, <1>7, <2>1, <2>2, <2>3 DEF Slices
<1>9. Addressed' /\ DOMAIN results' = Positions' /\ RepairsLandInPlace'
  BY <1>1, <1>2, <1>3, ToldNothing DEF RepairsLandInPlace
<1>10. ASSUME Going' PROVE Repairs' /\ Placed' /\ Observed'
  <2>1. phase' = "groups"
    BY <1>3, <1>10 DEF Going
  <2>2. Repairs'
    BY <1>1, <1>5, <1>6, <2>1 DEF Repairs
  <2>3. Placed'
    BY <1>1, <1>2, <1>4, <1>5, <2>1 DEF Placed, Pending, NoResult
  <2>4. Observed'
    BY <1>1, <1>5, <1>6, ObservedStays
  <2> QED BY <2>2, <2>3, <2>4
<1> QED BY <1>8, <1>9, <1>10 DEF Itemwise

\* Everything is split: what is missing goes to the repair Run.
LEMMA StartRepairsItems ==
    ASSUME Itemwise, StartRepairs
    PROVE  Itemwise'
<1>1. /\ phase = "split" /\ at > Len(grouping) /\ at' = 1
      /\ phase' = (IF missing = <<>> THEN "done" ELSE "repairs")
      /\ UNCHANGED <<stage, upstream, grouping, error, missing, results, told, out>>
      /\ Begin("repairs", DOMAIN missing)
      /\ Slices /\ Addressed /\ DOMAIN results = Positions
  BY DEF StartRepairs, inputVars, Itemwise
<1>2. Clean' = Clean /\ Positions' = Positions
  BY <1>1, SameSlice
<1>4. ~error /\ DOMAIN unit = Runs /\ DOMAIN tries = Runs
  BY <1>1 DEF Slices
<1>5. Repairs /\ Placed /\ Observed
  BY <1>1, <1>4 DEF Itemwise, Going
<1>6. /\ DOMAIN unit' = Runs /\ DOMAIN tries' = Runs
      /\ unit'["repairs"] = [u \in DOMAIN missing |-> "waiting"]
      /\ tries'["repairs"] = [u \in DOMAIN missing |-> 1]
  BY <1>1, <1>4, RunFacts DEF Begin
<1>7. \A q : ~Ahead(q)
  <2>1. \A g \in DOMAIN grouping : ~(g >= at)
    BY <1>1 DEF Slices
  <2> QED BY <2>1 DEF Ahead
<1>8. Slices'
  <2>1. /\ stage' \in BOOLEAN /\ upstream' \in SUBSET Items' /\ (~stage' => upstream' = {})
        /\ at' \in Nat \ {0} /\ error' \in BOOLEAN /\ ~error'
    BY <1>1, <1>4 DEF Slices, Items
  <2>2. phase' \in Phases /\ phase' \notin {"start", "groups", "split", "collect"}
    BY <1>1 DEF Phases
  <2>3. InRange(grouping)' /\ Disjoint(grouping)'
    <3>1. InRange(grouping) /\ Disjoint(grouping)
      BY <1>1, <1>4 DEF Slices
    <3> QED BY <1>1, <1>2, <3>1 DEF InRange, Disjoint
  <2> QED BY <1>1, <1>2, <1>6, <2>1, <2>2, <2>3 DEF Slices
<1>9. Addressed' /\ DOMAIN results' = Positions' /\ RepairsLandInPlace'
  BY <1>1, <1>2, ToldNothing DEF RepairsLandInPlace
<1>10. Repairs'
  BY <1>1, <1>6 DEF Repairs
<1>11. Placed'
  <2>1. \A q \in Positions : (Pending(q)' <=> Pending(q)) /\ (Settled(q)' <=> Settled(q))
    <3> SUFFICES ASSUME NEW q \in Positions
                 PROVE  (Pending(q)' <=> Left(q)) /\ (Pending(q) <=> Left(q)) /\ (Settled(q)' <=> Settled(q))
      OBVIOUS
    <3>1. Pending(q) <=> Left(q)
      BY <1>1, <1>7 DEF Pending
    <3>2. Pending(q)' <=> Left(q)
      BY <1>1 DEF Pending, Left
    <3> QED BY <1>1, <1>2, <3>1, <3>2 DEF Settled
  <2> QED BY <1>1, <1>2, <1>5, <2>1 DEF Placed, NoResult
<1>12. Observed'
  <2>1. \A who, q : Heard(who, q)' = Heard(who, q)
    BY <1>1, ToldNothing
  <2>2. DOMAIN unit["repairs"] = {}
    BY <1>1, <1>5 DEF Repairs
  <2>3. \A q \in Positions : /\ Heard("hook", q) = One(results[q].kind = "value")
                             /\ Heard("repairHook", q) = 0 /\ Heard("ledger", q) = 0
    BY <1>5, <2>2 DEF Observed, One
  <2> QED BY <1>1, <1>2, <1>6, <2>1, <2>3 DEF Observed, One
<1> QED BY <1>8, <1>9, <1>10, <1>11, <1>12 DEF Itemwise

\* Every repair is answered.
LEMMA RepairsReturnItems ==
    ASSUME Itemwise, RepairsReturn
    PROVE  Itemwise'
<1>1. /\ phase = "repairs" /\ phase' = "collect"
      /\ \A u \in DOMAIN missing : unit["repairs"][u] # "waiting"
      /\ UNCHANGED <<stage, upstream, grouping, error, at, unit, tries, missing, results, told, out>>
      /\ Slices /\ Addressed /\ DOMAIN results = Positions
  BY DEF RepairsReturn, inputVars, itemVars, Itemwise
<1>2. Clean' = Clean /\ Positions' = Positions
  BY <1>1, SameSlice
<1>4. ~error /\ at = 1 /\ missing # <<>> /\ missing \in Seq(Positions)
  BY <1>1 DEF Slices
<1>5. Repairs /\ Placed /\ Observed
  BY <1>1, <1>4 DEF Itemwise, Going
<1>8. Slices'
  <2>1. /\ stage' \in BOOLEAN /\ upstream' \in SUBSET Items' /\ (~stage' => upstream' = {})
        /\ at' \in Nat \ {0} /\ error' \in BOOLEAN /\ ~error'
    BY <1>1, <1>4 DEF Slices, Items
  <2>2. phase' \in Phases
    BY <1>1 DEF Phases
  <2>3. InRange(grouping)' /\ Disjoint(grouping)'
    <3>1. InRange(grouping) /\ Disjoint(grouping)
      BY <1>1, <1>4 DEF Slices
    <3> QED BY <1>1, <1>2, <3>1 DEF InRange, Disjoint
  <2>4. at' <= Len(missing')
    BY <1>1, <1>4
  <2> QED BY <1>1, <1>2, <2>1, <2>2, <2>3, <2>4 DEF Slices
<1>9. Addressed' /\ DOMAIN results' = Positions' /\ RepairsLandInPlace'
  BY <1>1, <1>2, ToldNothing DEF RepairsLandInPlace
<1>10. Repairs'
  BY <1>1, <1>5 DEF Repairs
<1>11. Placed'
  <2>1. \A u \in DOMAIN missing : u >= at /\ ~(u < at)
    BY <1>4
  <2>2. \A q \in Positions : (Pending(q)' <=> Pending(q)) /\ (Settled(q)' <=> Settled(q))
    <3> SUFFICES ASSUME NEW q \in Positions
                 PROVE  (Pending(q)' <=> Left(q)) /\ (Pending(q) <=> Left(q)) /\ (Settled(q)' <=> Settled(q))
      OBVIOUS
    <3>1. Pending(q) <=> Left(q)
      BY <1>1 DEF Pending
    <3>2. Pending(q)' <=> Left(q)
      BY <1>1, <2>1 DEF Pending, Left
    <3> QED BY <1>1, <1>2, <3>1, <3>2 DEF Settled
  <2> QED BY <1>1, <1>2, <1>5, <2>1, <2>2 DEF Placed, NoResult
<1>12. Observed'
  BY <1>1, <1>5, ObservedStays
<1> QED BY <1>8, <1>9, <1>10, <1>11, <1>12 DEF Itemwise
\* The groups are answered; what no group covers is missing.
LEMMA GroupsReturnItems ==
    ASSUME Itemwise, GroupsReturn
    PROVE  Itemwise'
<1> DEFINE covered == UNION {ToSet(grouping[g]) : g \in DOMAIN grouping}
           k == Cardinality(Positions \ covered)
<1>1. /\ phase = "groups" /\ phase' = "split" /\ at' = 1
      /\ missing' = Ascending(Positions \ covered)
      /\ UNCHANGED <<stage, upstream, grouping, error, unit, tries, results, told, out>>
      /\ Slices /\ Addressed /\ DOMAIN results = Positions
  BY DEF GroupsReturn, inputVars, Itemwise
<1>2. Clean' = Clean /\ Positions' = Positions
  BY <1>1, SameSlice
<1>4. ~error
  BY <1>1 DEF Slices
<1>5. Repairs /\ Placed /\ Observed
  BY <1>1, <1>4 DEF Itemwise, Going
<1>6. /\ k \in Nat /\ missing' \in [1 .. k -> Positions \ covered]
      /\ \A u, v \in 1 .. k : missing'[u] = missing'[v] => u = v
      /\ \A q \in Positions \ covered : \E u \in 1 .. k : missing'[u] = q
  <2>1. /\ Positions = 1 .. Cardinality(Items \ upstream)
        /\ Cardinality(Items \ upstream) \in Nat
    BY <1>1, CleanFacts DEF Slices
  <2>2. Positions \ covered \in SUBSET (1 .. Cardinality(Items \ upstream))
    BY <2>1
  <2> HIDE DEF covered
  <2> QED BY <1>1, <2>1, <2>2, AscendingFacts
<1> HIDE DEF k
<1>7. \A q \in Positions : (Left(q)' <=> q \notin covered) /\ (Ahead(q)' <=> q \in covered)
  <2> SUFFICES ASSUME NEW q \in Positions
               PROVE  (Left(q)' <=> q \notin covered) /\ (Ahead(q)' <=> q \in covered)
    OBVIOUS
  <2>1. Left(q)' <=> \E u \in 1 .. k : missing'[u] = q
    BY <1>6 DEF Left
  <2>2. Left(q)' <=> q \notin covered
    <3> HIDE DEF covered
    <3> QED BY <1>6, <2>1
  <2>3. Ahead(q)' <=> q \in covered
    <3>1. \A g \in DOMAIN grouping : g >= 1
      BY <1>1 DEF Slices
    <3> QED BY <1>1, <3>1 DEF Ahead
  <2> QED BY <2>2, <2>3
<1> HIDE DEF covered
<1>8. Slices'
  <2>1. /\ stage' \in BOOLEAN /\ upstream' \in SUBSET Items' /\ (~stage' => upstream' = {})
        /\ at' \in Nat \ {0} /\ error' \in BOOLEAN /\ ~error'
    BY <1>1, <1>4 DEF Slices, Items
  <2>2. phase' \in Phases
    BY <1>1 DEF Phases
  <2>3. InRange(grouping)' /\ Disjoint(grouping)'
    <3>1. InRange(grouping) /\ Disjoint(grouping)
      BY <1>1, <1>4 DEF Slices
    <3> QED BY <1>1, <1>2, <3>1 DEF InRange, Disjoint
  <2>4. missing' \in Seq(Positions') /\ DOMAIN missing' = 1 .. k
    BY <1>2, <1>6
  <2>5. \A u, v \in DOMAIN missing' : missing'[u] = missing'[v] => u = v
    BY <1>6, <2>4
  <2>6. \A q \in Positions' : ~(Ahead(q)' /\ Left(q)')
    BY <1>2, <1>7
  <2>7. DOMAIN unit' = Runs /\ DOMAIN tries' = Runs /\ grouping' \in Seq(Seq(Nat))
    BY <1>1 DEF Slices
  <2> QED BY <1>1, <2>1, <2>2, <2>3, <2>4, <2>5, <2>6, <2>7 DEF Slices
<1>9. Addressed' /\ DOMAIN results' = Positions' /\ RepairsLandInPlace'
  BY <1>1, <1>2, ToldNothing DEF RepairsLandInPlace
<1>10. Repairs'
  BY <1>1, <1>5 DEF Repairs
<1>11. Placed'
  <2>1. \A q \in Positions : Pending(q)' /\ results[q] = NoResult
    BY <1>1, <1>5, <1>7 DEF Placed, Pending
  <2> QED BY <1>1, <1>2, <2>1 DEF Placed, NoResult
<1>12. Observed'
  <2>1. \A who, q : Heard(who, q)' = Heard(who, q)
    BY <1>1, ToldNothing
  <2>2. DOMAIN unit["repairs"] = {}
    BY <1>1, <1>5 DEF Repairs
  <2> QED BY <1>1, <1>2, <1>5, <2>1, <2>2 DEF Observed, One
<1> QED BY <1>8, <1>9, <1>10, <1>11, <1>12 DEF Itemwise

\* What is told of positions of the slice is addressed right.
LEMMA Tells ==
    ASSUME Addressed, UNCHANGED upstream, NEW B, B \in [DOMAIN B -> Nat], told' = told (+) B,
           \A m \in DOMAIN B : m.index \in Positions /\ Clean[m.index] = m.item
    PROVE  /\ Addressed'
           /\ \A who, q : /\ Heard(who, q) \in Nat
                          /\ Heard(who, q)' = Heard(who, q) + Copies(Message(who, q, Clean[q]), B)
<1>1. Clean' = Clean /\ Positions' = Positions
  BY SameSlice
<1>2. told \in [DOMAIN told -> Nat] /\ \A m \in DOMAIN told : m.index \in Positions /\ Clean[m.index] = m.item
  BY DEF Addressed
<1>3. /\ DOMAIN told' = DOMAIN told \cup DOMAIN B
      /\ told' \in [DOMAIN told \cup DOMAIN B -> Nat]
      /\ \A m : Copies(m, told') = Copies(m, told) + Copies(m, B)
  BY <1>2, BagFacts
<1>4. Addressed'
  BY <1>1, <1>2, <1>3 DEF Addressed
<1>5. \A m : Copies(m, told) \in Nat
  BY <1>2 DEF Copies, BagToSet
<1> QED BY <1>1, <1>3, <1>4, <1>5 DEF Heard

\* The same observer is told of a set of positions.
LEMMA TellsAll ==
    ASSUME Addressed, UNCHANGED upstream, NEW w, NEW H \in SUBSET Positions, NEW S,
           \A m : m \in S <=> \E q \in H : m = Message(w, q, Clean[q]),
           told' = told (+) SetToBag(S)
    PROVE  /\ Addressed'
           /\ \A who, q : Heard(who, q) \in Nat
           /\ \A q \in H : Heard(w, q)' = Heard(w, q) + 1
           /\ \A who, q : who # w \/ q \notin H => Heard(who, q)' = Heard(who, q)
<1> DEFINE B == SetToBag(S)
<1>1. DOMAIN B = S /\ B \in [DOMAIN B -> Nat]
  BY SetBagFacts
<1>2. \A m : Copies(m, B) = IF m \in S THEN 1 ELSE 0
  BY SetBagFacts
<1>3. \A m \in S : m.index \in Positions /\ Clean[m.index] = m.item
  BY MessageFacts
<1>4. \A who, q : Message(who, q, Clean[q]) \in S <=> who = w /\ q \in H
  BY MessageFacts
<1>5. told' = told (+) B
  OBVIOUS
<1> HIDE DEF B
<1>6. /\ Addressed'
      /\ \A who, q : /\ Heard(who, q) \in Nat
                     /\ Heard(who, q)' = Heard(who, q) + Copies(Message(who, q, Clean[q]), B)
  BY <1>1, <1>3, <1>5, Tells
<1>7. \A q \in H : Copies(Message(w, q, Clean[q]), B) = 1
  BY <1>2, <1>4
<1>8. \A who, q : who # w \/ q \notin H => Copies(Message(who, q, Clean[q]), B) = 0
  <2> SUFFICES ASSUME NEW who, NEW q, ~(who = w /\ q \in H)
               PROVE  Copies(Message(who, q, Clean[q]), B) = 0
    OBVIOUS
  <2>1. Message(who, q, Clean[q]) \notin S
    BY <1>4, Zenon
  <2> QED BY <1>2, <2>1
<1>9. \A q \in H : Heard(w, q)' = Heard(w, q) + 1
  BY <1>6, <1>7
<1>10. ASSUME NEW who, NEW q, who # w \/ q \notin H PROVE Heard(who, q)' = Heard(who, q)
  <2>1. Copies(Message(who, q, Clean[q]), B) = 0
    BY <1>8, <1>10, Zenon
  <2> QED BY <1>6, <2>1
<1> QED BY <1>6, <1>9, <1>10

\* An observer is told of one position.
LEMMA TellsOne ==
    ASSUME Addressed, UNCHANGED upstream, NEW w, NEW q \in Positions,
           told' = told (+) Told(w, q, Clean[q])
    PROVE  /\ Addressed'
           /\ \A who, p : Heard(who, p) \in Nat
           /\ Heard(w, q)' = Heard(w, q) + 1
           /\ \A who, p : who # w \/ p # q => Heard(who, p)' = Heard(who, p)
<1> DEFINE H == {q}
           S == {Message(w, q, Clean[q])}
<1>1. \A m : m \in S <=> \E p \in H : m = Message(w, p, Clean[p])
  OBVIOUS
<1>2. told' = told (+) SetToBag(S)
  BY DEF Told
<1>3. H \in SUBSET Positions
  OBVIOUS
<1> HIDE DEF H, S
<1>4. /\ Addressed'
      /\ \A who, p : Heard(who, p) \in Nat
      /\ \A p \in H : Heard(w, p)' = Heard(w, p) + 1
      /\ \A who, p : who # w \/ p \notin H => Heard(who, p)' = Heard(who, p)
  BY <1>1, <1>2, <1>3, TellsAll
<1> QED BY <1>4 DEF H

\* A retry of a repair reaches the ledger under the position of its item.
LEMMA RetryRepairsItems ==
    ASSUME Itemwise, NEW u \in DOMAIN unit["repairs"], Retry("repairs", u)
    PROVE  Itemwise'
<1>1. /\ phase = "repairs" /\ phase' \in {"repairs", "crashed"}
      /\ unit["repairs"][u] = "waiting" /\ tries' = [tries EXCEPT !["repairs"][u] = @ + 1]
      /\ told' = told (+) Told("ledger", missing[u], Clean[missing[u]])
      /\ UNCHANGED <<stage, upstream, grouping, error, at, unit, missing, results, out>>
      /\ Slices /\ Addressed /\ DOMAIN results = Positions
  BY DEF Retry, Tell, inputVars, Itemwise
<1>2. Clean' = Clean /\ Positions' = Positions
  BY <1>1, SameSlice
<1>4. /\ ~error /\ DOMAIN tries = Runs /\ missing \in Seq(Positions) /\ "repairs" \in Runs
      /\ \A v, w \in DOMAIN missing : missing[v] = missing[w] => v = w
  BY <1>1, RunFacts DEF Slices
<1>5. Repairs /\ Placed /\ Observed
  BY <1>1, <1>4 DEF Itemwise, Going
<1>6. /\ u \in DOMAIN missing /\ DOMAIN unit["repairs"] = DOMAIN missing
      /\ DOMAIN tries["repairs"] = DOMAIN missing
      /\ \A v \in DOMAIN missing : tries["repairs"][v] \in Nat \ {0}
  BY <1>1, <1>4, <1>5 DEF Repairs
<1>12. PICK q \in Positions : missing[u] = q
  BY <1>4, <1>6
<1>7. /\ DOMAIN tries' = Runs /\ DOMAIN tries'["repairs"] = DOMAIN missing
      /\ tries'["repairs"][u] = tries["repairs"][u] + 1
      /\ \A v \in DOMAIN missing : v # u => tries'["repairs"][v] = tries["repairs"][v]
  BY <1>1, <1>4, <1>6
<1>8. Slices'
  <2>1. /\ stage' \in BOOLEAN /\ upstream' \in SUBSET Items' /\ (~stage' => upstream' = {})
        /\ at' \in Nat \ {0} /\ error' \in BOOLEAN /\ ~error'
    BY <1>1, <1>4 DEF Slices, Items
  <2>2. phase' \in Phases
    BY <1>1 DEF Phases
  <2>3. InRange(grouping)' /\ Disjoint(grouping)'
    <3>1. InRange(grouping) /\ Disjoint(grouping)
      BY <1>1, <1>4 DEF Slices
    <3> QED BY <1>1, <1>2, <3>1 DEF InRange, Disjoint
  <2> QED BY <1>1, <1>2, <1>7, <2>1, <2>2, <2>3 DEF Slices
<1>9. /\ Addressed'
      /\ \A who, p : Heard(who, p) \in Nat
      /\ Heard("ledger", q)' = Heard("ledger", q) + 1
      /\ \A who, p : who # "ledger" \/ p # q => Heard(who, p)' = Heard(who, p)
  BY <1>1, <1>12, TellsOne
<1>10. DOMAIN results' = Positions' /\ RepairsLandInPlace'
  BY <1>1, <1>2 DEF RepairsLandInPlace
<1>11. ASSUME Going' PROVE Repairs' /\ Placed' /\ Observed'
  <2>1. phase' = phase
    BY <1>1, <1>11 DEF Going
  <2>2. Repairs'
    <3>1. \A v \in DOMAIN missing : tries'["repairs"][v] \in Nat \ {0}
      BY <1>6, <1>7
    <3> QED BY <1>1, <1>5, <1>6, <1>7, <2>1, <3>1 DEF Repairs
  <2>3. Placed'
    <3>1. \A p \in Positions : (Pending(p)' <=> Pending(p)) /\ (Settled(p)' <=> Settled(p))
      BY <1>1, <1>2, <2>1 DEF Pending, Ahead, Left, Settled
    <3> QED BY <1>1, <1>2, <1>5, <2>1, <3>1 DEF Placed, NoResult
  <2>4. Observed'
    <3> SUFFICES ASSUME NEW p \in Positions
                 PROVE
          /\ Heard("hook", p)' = One(results[p].kind = "value")
          /\ Heard("repairHook", p)' = One(\E v \in DOMAIN missing :
                                            missing[v] = p /\ unit["repairs"][v] = "value")
          /\ (\A v \in DOMAIN missing : missing[v] # p) => Heard("ledger", p)' = 0
          /\ \A v \in DOMAIN missing : missing[v] = p =>
               Heard("ledger", p)' = tries'["repairs"][v] - 1 + One(unit["repairs"][v] # "waiting")
      BY <1>1, <1>2, <1>6 DEF Observed, One
    <3>1. /\ Heard("hook", p) = One(results[p].kind = "value")
          /\ Heard("repairHook", p) = One(\E v \in DOMAIN missing :
                                            missing[v] = p /\ unit["repairs"][v] = "value")
          /\ (\A v \in DOMAIN missing : missing[v] # p) => Heard("ledger", p) = 0
          /\ \A v \in DOMAIN missing : missing[v] = p =>
               Heard("ledger", p) = tries["repairs"][v] - 1 + One(unit["repairs"][v] # "waiting")
      BY <1>5, <1>6 DEF Observed, One
    <3>2. Heard("hook", p)' = Heard("hook", p) /\ Heard("repairHook", p)' = Heard("repairHook", p)
      BY <1>9
    <3>3. (\A v \in DOMAIN missing : missing[v] # p) => Heard("ledger", p)' = 0
      <4>1. (\A v \in DOMAIN missing : missing[v] # p) => p # q
        BY <1>6, <1>12
      <4> QED BY <1>9, <3>1, <4>1
    <3>4. ASSUME NEW v \in DOMAIN missing, missing[v] = p
          PROVE  Heard("ledger", p)' = tries'["repairs"][v] - 1 + One(unit["repairs"][v] # "waiting")
      <4>1. CASE v = u
        <5>1. Heard("ledger", p) = tries["repairs"][u] - 1 /\ Heard("ledger", p)' = Heard("ledger", p) + 1
          BY <1>1, <1>6, <1>9, <1>12, <3>1, <3>4, <4>1 DEF One
        <5> QED BY <1>1, <1>6, <1>7, <4>1, <5>1 DEF One
      <4>2. CASE v # u
        <5>1. p # q
          BY <1>4, <1>6, <1>12, <3>4, <4>2
        <5> QED BY <1>7, <1>9, <3>1, <3>4, <4>2, <5>1
      <4> QED BY <4>1, <4>2
    <3> QED BY <3>1, <3>2, <3>3, <3>4
  <2> QED BY <2>2, <2>3, <2>4
<1> QED BY <1>8, <1>9, <1>10, <1>11 DEF Itemwise

\* The ledger is told of an answer, the hook of the repair step of a value.
LEMMA RepairTells ==
    ASSUME Addressed, UNCHANGED upstream, NEW u, NEW kind, NEW q \in Positions, missing[u] = q,
           told' = told (+) RepairTold(u, kind)
    PROVE  /\ Addressed'
           /\ \A who, p : Heard(who, p) \in Nat
           /\ Heard("ledger", q)' = Heard("ledger", q) + 1
           /\ kind = "value" => Heard("repairHook", q)' = Heard("repairHook", q) + 1
           /\ kind # "value" => Heard("repairHook", q)' = Heard("repairHook", q)
           /\ \A who, p : who \notin {"ledger", "repairHook"} \/ p # q
                            => Heard(who, p)' = Heard(who, p)
<1> DEFINE L == {Message("ledger", q, Clean[q])}
           H == IF kind = "value" THEN {Message("repairHook", q, Clean[q])} ELSE {}
           B == SetToBag(L) (+) SetToBag(H)
<1>1. RepairTold(u, kind) = B
  BY DEF RepairTold, Told, EmptyBag
<1>2. /\ DOMAIN SetToBag(L) = L /\ SetToBag(L) \in [L -> Nat]
      /\ DOMAIN SetToBag(H) = H /\ SetToBag(H) \in [H -> Nat]
  BY SetBagFacts
<1>3. \A m : /\ Copies(m, SetToBag(L)) = IF m \in L THEN 1 ELSE 0
             /\ Copies(m, SetToBag(H)) = IF m \in H THEN 1 ELSE 0
  BY SetBagFacts
<1>4. \A m \in L \cup H : m.index \in Positions /\ Clean[m.index] = m.item
  BY MessageFacts
<1>5. \A who, p : /\ Message(who, p, Clean[p]) \in L <=> who = "ledger" /\ p = q
                  /\ Message(who, p, Clean[p]) \in H <=> who = "repairHook" /\ p = q /\ kind = "value"
  BY MessageFacts
<1> HIDE DEF L, H
<1>6. /\ DOMAIN B = L \cup H /\ B \in [DOMAIN B -> Nat]
      /\ \A m : Copies(m, B) = Copies(m, SetToBag(L)) + Copies(m, SetToBag(H))
  BY <1>2, BagFacts
<1>7. told' = told (+) B
  BY <1>1
<1> HIDE DEF B
<1>8. /\ Addressed'
      /\ \A who, p : /\ Heard(who, p) \in Nat
                     /\ Heard(who, p)' = Heard(who, p) + Copies(Message(who, p, Clean[p]), B)
  BY <1>4, <1>6, <1>7, Tells
<1>9. \A who, p : who \notin {"ledger", "repairHook"} \/ p # q => Heard(who, p)' = Heard(who, p)
  <2> SUFFICES ASSUME NEW who, NEW p, who \notin {"ledger", "repairHook"} \/ p # q
               PROVE  Heard(who, p)' = Heard(who, p)
    OBVIOUS
  <2>1. Message(who, p, Clean[p]) \notin L /\ Message(who, p, Clean[p]) \notin H
    <3>1. ~(who = "ledger" /\ p = q) /\ ~(who = "repairHook" /\ p = q /\ kind = "value")
      OBVIOUS
    <3> QED BY <1>5, <3>1, Zenon
  <2>2. Copies(Message(who, p, Clean[p]), B) = 0
    BY <1>3, <1>6, <2>1
  <2> QED BY <1>8, <2>2
<1>10. Copies(Message("ledger", q, Clean[q]), B) = 1
  BY <1>3, <1>5, <1>6
<1>11. Copies(Message("repairHook", q, Clean[q]), B) = IF kind = "value" THEN 1 ELSE 0
  BY <1>3, <1>5, <1>6
<1> QED BY <1>8, <1>9, <1>10, <1>11

\* A repair is answered.
LEMMA AnswerRepairsItems ==
    ASSUME Itemwise, NEW u \in DOMAIN unit["repairs"], Answer("repairs", u)
    PROVE  Itemwise'
<1>1. PICK kind \in {"value", "quarantined", "skipped"} :
        unit' = [unit EXCEPT !["repairs"][u] = kind] /\ told' = told (+) RepairTold(u, kind)
  BY RunFacts DEF Answer
<1>2. /\ phase = "repairs" /\ phase' = "repairs" /\ unit["repairs"][u] = "waiting"
      /\ UNCHANGED <<stage, upstream, grouping, error, at, tries, missing, results, out>>
      /\ Slices /\ Addressed /\ DOMAIN results = Positions
  BY DEF Answer, inputVars, Itemwise
<1>3. Clean' = Clean /\ Positions' = Positions
  BY <1>2, SameSlice
<1>4. /\ ~error /\ DOMAIN unit = Runs /\ missing \in Seq(Positions) /\ "repairs" \in Runs
      /\ \A v, w \in DOMAIN missing : missing[v] = missing[w] => v = w
  BY <1>2, RunFacts DEF Slices
<1>5. Repairs /\ Placed /\ Observed
  BY <1>2, <1>4 DEF Itemwise, Going
<1>6. /\ u \in DOMAIN missing /\ DOMAIN unit["repairs"] = DOMAIN missing
      /\ \A v \in DOMAIN missing : tries["repairs"][v] \in Nat \ {0}
  BY <1>2, <1>4, <1>5 DEF Repairs
<1>13. PICK q \in Positions : missing[u] = q
  BY <1>4, <1>6
<1>7. /\ DOMAIN unit' = Runs /\ DOMAIN unit'["repairs"] = DOMAIN missing
      /\ unit'["repairs"][u] = kind
      /\ \A v \in DOMAIN missing : v # u => unit'["repairs"][v] = unit["repairs"][v]
  BY <1>1, <1>4, <1>6
<1>8. Slices'
  <2>1. /\ stage' \in BOOLEAN /\ upstream' \in SUBSET Items' /\ (~stage' => upstream' = {})
        /\ at' \in Nat \ {0} /\ error' \in BOOLEAN /\ ~error'
    BY <1>2, <1>4 DEF Slices, Items
  <2>2. phase' \in Phases
    BY <1>2 DEF Phases
  <2>3. InRange(grouping)' /\ Disjoint(grouping)'
    <3>1. InRange(grouping) /\ Disjoint(grouping)
      BY <1>2, <1>4 DEF Slices
    <3> QED BY <1>2, <1>3, <3>1 DEF InRange, Disjoint
  <2> QED BY <1>2, <1>3, <1>7, <2>1, <2>2, <2>3 DEF Slices
<1>9. /\ Addressed'
      /\ \A who, p : Heard(who, p) \in Nat
      /\ Heard("ledger", q)' = Heard("ledger", q) + 1
      /\ kind = "value" => Heard("repairHook", q)' = Heard("repairHook", q) + 1
      /\ kind # "value" => Heard("repairHook", q)' = Heard("repairHook", q)
      /\ \A who, p : who \notin {"ledger", "repairHook"} \/ p # q
                       => Heard(who, p)' = Heard(who, p)
  BY <1>1, <1>2, <1>13, RepairTells
<1>10. DOMAIN results' = Positions' /\ RepairsLandInPlace'
  BY <1>2, <1>3 DEF RepairsLandInPlace
<1>11. Repairs'
  BY <1>2, <1>5, <1>6, <1>7 DEF Repairs
<1>12. Placed'
  <2>1. \A p \in Positions : (Pending(p)' <=> Pending(p)) /\ (Settled(p)' <=> Settled(p))
    BY <1>2, <1>3 DEF Pending, Ahead, Left, Settled
  <2> QED BY <1>2, <1>3, <1>5, <2>1 DEF Placed, NoResult
<1>14. Observed'
  <2> SUFFICES ASSUME NEW p \in Positions
               PROVE
        /\ Heard("hook", p)' = One(results[p].kind = "value")
        /\ Heard("repairHook", p)' = One(\E v \in DOMAIN missing :
                                          missing[v] = p /\ unit'["repairs"][v] = "value")
        /\ (\A v \in DOMAIN missing : missing[v] # p) => Heard("ledger", p)' = 0
        /\ \A v \in DOMAIN missing : missing[v] = p =>
             Heard("ledger", p)' = tries["repairs"][v] - 1 + One(unit'["repairs"][v] # "waiting")
    BY <1>2, <1>3, <1>7 DEF Observed, One
  <2>1. /\ Heard("hook", p) = One(results[p].kind = "value")
        /\ Heard("repairHook", p) = One(\E v \in DOMAIN missing :
                                          missing[v] = p /\ unit["repairs"][v] = "value")
        /\ (\A v \in DOMAIN missing : missing[v] # p) => Heard("ledger", p) = 0
        /\ \A v \in DOMAIN missing : missing[v] = p =>
             Heard("ledger", p) = tries["repairs"][v] - 1 + One(unit["repairs"][v] # "waiting")
    BY <1>5, <1>6 DEF Observed, One
  <2>2. Heard("hook", p)' = Heard("hook", p)
    BY <1>9
  <2>3. Heard("repairHook", p)' = One(\E v \in DOMAIN missing :
                                        missing[v] = p /\ unit'["repairs"][v] = "value")
    <3>1. CASE p = q
      <4>1. \A v \in DOMAIN missing : missing[v] = p <=> v = u
        BY <1>4, <1>6, <1>13, <3>1
      <4>2. Heard("repairHook", p) = 0
        BY <1>2, <2>1, <4>1 DEF One
      <4> QED BY <1>6, <1>7, <1>9, <3>1, <4>1, <4>2 DEF One
    <3>2. CASE p # q
      <4>1. \A v \in DOMAIN missing : missing[v] = p => v # u
        BY <1>13, <3>2
      <4> QED BY <1>7, <1>9, <2>1, <3>2, <4>1 DEF One
    <3> QED BY <3>1, <3>2
  <2>4. (\A v \in DOMAIN missing : missing[v] # p) => Heard("ledger", p)' = 0
    <3>1. (\A v \in DOMAIN missing : missing[v] # p) => p # q
      BY <1>6, <1>13
    <3> QED BY <1>9, <2>1, <3>1
  <2>5. ASSUME NEW v \in DOMAIN missing, missing[v] = p
        PROVE  Heard("ledger", p)' = tries["repairs"][v] - 1 + One(unit'["repairs"][v] # "waiting")
    <3>1. CASE v = u
      <4>1. Heard("ledger", p) = tries["repairs"][u] - 1 /\ Heard("ledger", p)' = Heard("ledger", p) + 1
        BY <1>2, <1>6, <1>9, <1>13, <2>1, <2>5, <3>1 DEF One
      <4> QED BY <1>6, <1>7, <3>1, <4>1 DEF One
    <3>2. CASE v # u
      <4>1. p # q
        BY <1>4, <1>6, <1>13, <2>5, <3>2
      <4> QED BY <1>7, <1>9, <2>1, <2>5, <3>2, <4>1
    <3> QED BY <3>1, <3>2
  <2> QED BY <2>1, <2>2, <2>3, <2>4, <2>5
<1> QED BY <1>8, <1>9, <1>10, <1>11, <1>12, <1>14 DEF Itemwise

Lacking(group, set) == [n \in DOMAIN Ascending(set) |-> group[Ascending(set)[n]]]

\* What an answer lacks of its group is listed once each.
LEMMA Lacks ==
    ASSUME NEW group \in Seq(Nat), \A p, q \in DOMAIN group : group[p] = group[q] => p = q,
           NEW S \in SUBSET DOMAIN group
    PROVE  /\ Lacking(group, S) \in Seq(Nat)
           /\ \A u, v \in DOMAIN Lacking(group, S) : Lacking(group, S)[u] = Lacking(group, S)[v] => u = v
           /\ \A u \in DOMAIN Lacking(group, S) : \E p \in S : Lacking(group, S)[u] = group[p]
           /\ \A p \in S : \E u \in DOMAIN Lacking(group, S) : Lacking(group, S)[u] = group[p]
<1> DEFINE k == Cardinality(S)
           lacking == Ascending(S)
           more == Lacking(group, S)
<1>1. S \in SUBSET (1 .. Len(group)) /\ Len(group) \in Nat
  OBVIOUS
<1>5. /\ k \in Nat /\ lacking \in [1 .. k -> S]
      /\ \A u, v \in 1 .. k : lacking[u] = lacking[v] => u = v
      /\ \A p \in S : \E u \in 1 .. k : lacking[u] = p
  BY <1>1, AscendingFacts
<1> HIDE DEF k
<1>6. DOMAIN more = 1 .. k /\ \A u \in 1 .. k : more[u] = group[lacking[u]] /\ lacking[u] \in S
  BY <1>5 DEF Lacking
<1>9. more \in [1 .. k -> Nat]
  <2>1. \A u \in 1 .. k : group[lacking[u]] \in Nat
    BY <1>6
  <2> QED BY <1>5, <2>1 DEF Lacking
<1> HIDE DEF lacking, more
<1>7. \A u, v \in DOMAIN more : more[u] = more[v] => u = v
  <2> SUFFICES ASSUME NEW u \in 1 .. k, NEW v \in 1 .. k, group[lacking[u]] = group[lacking[v]]
               PROVE  u = v
    BY <1>6
  <2>1. lacking[u] \in DOMAIN group /\ lacking[v] \in DOMAIN group
    BY <1>6
  <2>2. lacking[u] = lacking[v]
    BY <2>1
  <2> QED BY <1>5, <2>2
<1>8. ASSUME NEW p \in S PROVE \E u \in DOMAIN more : more[u] = group[p]
  <2>1. PICK u \in 1 .. k : lacking[u] = p
    BY <1>5
  <2> QED BY <1>6, <2>1
<1>10. \A u \in DOMAIN more : \E p \in S : more[u] = group[p]
  BY <1>6
<1>11. more \in Seq(Nat)
  BY <1>5, <1>9
<1> QED BY <1>7, <1>8, <1>10, <1>11 DEF more

\* Appending to the list of what is missing.
LEMMA Joins ==
    ASSUME NEW P, NEW s \in Seq(P), NEW t \in Seq(P),
           \A u, v \in DOMAIN s : s[u] = s[v] => u = v,
           \A u, v \in DOMAIN t : t[u] = t[v] => u = v,
           \A u \in DOMAIN s, v \in DOMAIN t : s[u] # t[v]
    PROVE  /\ s \o t \in Seq(P)
           /\ \A u, v \in DOMAIN (s \o t) : (s \o t)[u] = (s \o t)[v] => u = v
           /\ \A q : (\E u \in DOMAIN (s \o t) : (s \o t)[u] = q)
                       <=> (\E u \in DOMAIN s : s[u] = q) \/ (\E u \in DOMAIN t : t[u] = q)
<1> DEFINE j == s \o t
<1>1. /\ Len(s) \in Nat /\ Len(t) \in Nat /\ DOMAIN s = 1 .. Len(s) /\ DOMAIN t = 1 .. Len(t)
      /\ j \in Seq(P) /\ DOMAIN j = 1 .. (Len(s) + Len(t))
      /\ \A u \in 1 .. (Len(s) + Len(t)) : j[u] = IF u <= Len(s) THEN s[u] ELSE t[u - Len(s)]
  OBVIOUS
<1> HIDE DEF j
<1>2. \A u \in DOMAIN j : \/ u \in DOMAIN s /\ j[u] = s[u]
                          \/ u > Len(s) /\ u - Len(s) \in DOMAIN t /\ j[u] = t[u - Len(s)]
  BY <1>1
<1>3. \A u, v \in DOMAIN j : j[u] = j[v] => u = v
  <2> SUFFICES ASSUME NEW u \in DOMAIN j, NEW v \in DOMAIN j, j[u] = j[v] PROVE u = v
    OBVIOUS
  <2>1. CASE u \in DOMAIN s /\ j[u] = s[u] /\ v \in DOMAIN s /\ j[v] = s[v]
    BY <2>1
  <2>2. CASE /\ u - Len(s) \in DOMAIN t /\ j[u] = t[u - Len(s)]
             /\ v - Len(s) \in DOMAIN t /\ j[v] = t[v - Len(s)]
    <3>1. u - Len(s) = v - Len(s)
      BY <2>2
    <3> QED BY <1>1, <3>1
  <2>3. CASE u \in DOMAIN s /\ j[u] = s[u] /\ v - Len(s) \in DOMAIN t /\ j[v] = t[v - Len(s)]
    BY <2>3
  <2>4. CASE v \in DOMAIN s /\ j[v] = s[v] /\ u - Len(s) \in DOMAIN t /\ j[u] = t[u - Len(s)]
    BY <2>4
  <2> QED BY <1>2, <2>1, <2>2, <2>3, <2>4
<1>4. ASSUME NEW q, NEW u \in DOMAIN s, s[u] = q PROVE \E v \in DOMAIN j : j[v] = q
  BY <1>1, <1>4
<1>5. ASSUME NEW q, NEW u \in DOMAIN t, t[u] = q PROVE \E v \in DOMAIN j : j[v] = q
  <2>1. Len(s) + u \in DOMAIN j /\ j[Len(s) + u] = t[u]
    BY <1>1
  <2> QED BY <1>5, <2>1
<1>6. \A q : (\E u \in DOMAIN j : j[u] = q)
               <=> (\E u \in DOMAIN s : s[u] = q) \/ (\E u \in DOMAIN t : t[u] = q)
  BY <1>2, <1>4, <1>5
<1> QED BY <1>1, <1>3, <1>6 DEF j

\* A repaired result goes to the position it was missing from.
LEMMA CollectItems ==
    ASSUME Itemwise, Collect
    PROVE  Itemwise'
<1>1. /\ phase = "collect" /\ Slices /\ Addressed /\ DOMAIN results = Positions
      /\ UNCHANGED <<stage, upstream, grouping, unit, tries, missing, out>>
  BY DEF Collect, inputVars, Itemwise
<1>2. Clean' = Clean /\ Positions' = Positions
  BY <1>1, SameSlice
<1>3. /\ ~error /\ at \in DOMAIN missing /\ at <= Len(missing) /\ missing \in Seq(Positions)
      /\ error \in BOOLEAN
      /\ \A v, w \in DOMAIN missing : missing[v] = missing[w] => v = w
  BY <1>1 DEF Slices
<1>4. Repairs /\ Placed /\ Observed
  BY <1>1, <1>3 DEF Itemwise, Going
<1>5. PICK q \in Positions : missing[at] = q
  BY <1>3
<1>6. PICK kind \in {"value", "quarantined", "skipped"} : unit["repairs"][at] = kind
  BY <1>1, <1>3, <1>4 DEF Repairs
<1> DEFINE result == Result(kind, Clean[q], IF kind = "quarantined" THEN q ELSE 0)
<1>7. /\ results' = [results EXCEPT ![q] = result]
      /\ kind = "value" => told' = told (+) Told("hook", q, Clean[q])
      /\ kind # "value" => told' = told
      /\ \/ /\ at' = at + 1 /\ UNCHANGED error
            /\ phase' = IF at = Len(missing) THEN "done" ELSE "collect"
         \/ kind = "value" /\ phase' = "done" /\ error' = TRUE /\ at' = at
  BY <1>1, <1>5, <1>6 DEF Collect, Tell
<1>8. /\ DOMAIN results' = Positions' /\ results'[q] = result /\ result.kind = kind
      /\ \A p \in Positions \ {q} : results'[p] = results[p]
  BY <1>1, <1>2, <1>7 DEF Result
<1>9. Slices'
  <2>1. /\ stage' \in BOOLEAN /\ upstream' \in SUBSET Items' /\ (~stage' => upstream' = {})
        /\ at' \in Nat \ {0}
    BY <1>1, <1>7 DEF Slices, Items
  <2>2. /\ error' \in BOOLEAN /\ phase' \in {"collect", "done"}
        /\ phase' = "collect" => ~error' /\ at' <= Len(missing')
    <3>1. CASE at' = at + 1 /\ error' = error /\ phase' = IF at = Len(missing) THEN "done" ELSE "collect"
      BY <1>1, <1>3, <3>1
    <3>2. CASE phase' = "done" /\ error' = TRUE
      BY <3>2
    <3> QED BY <1>7, <3>1, <3>2
  <2>3. InRange(grouping)' /\ Disjoint(grouping)'
    <3>1. InRange(grouping) /\ Disjoint(grouping)
      BY <1>1, <1>3 DEF Slices
    <3> QED BY <1>1, <1>2, <3>1 DEF InRange, Disjoint
  <2> QED BY <1>1, <1>2, <2>1, <2>2, <2>3 DEF Slices, Phases
<1>10. /\ Addressed'
       /\ kind = "value" => Heard("hook", q)' = Heard("hook", q) + 1
       /\ kind # "value" => Heard("hook", q)' = Heard("hook", q)
       /\ \A who, p : who # "hook" \/ p # q => Heard(who, p)' = Heard(who, p)
  <2>1. CASE kind = "value"
    BY <1>1, <1>7, <2>1, TellsOne
  <2>2. CASE kind # "value"
    BY <1>1, <1>7, <2>2, ToldNothing
  <2> QED BY <2>1, <2>2
<1>11. RepairsLandInPlace'
  BY <1>7 DEF RepairsLandInPlace
<1>12. ASSUME Going' PROVE Repairs' /\ Placed' /\ Observed'
  <2>1. at' = at + 1 /\ phase' = IF at = Len(missing) THEN "done" ELSE "collect"
    BY <1>7, <1>12 DEF Going
  <2>2. Repairs'
    BY <1>1, <1>4, <2>1 DEF Repairs
  <2>3. \A u \in DOMAIN missing : u # at => missing[u] # q
    BY <1>3, <1>5
  <2>4. Pending(q) /\ ~Pending(q)' /\ Settled(q)'
    <3>1. Pending(q)
      BY <1>1, <1>3, <1>5 DEF Pending
    <3>2. ~Pending(q)'
      BY <1>1, <1>3, <2>1, <2>3 DEF Pending
    <3>3. Settled(q)'
      BY <1>2, <1>8 DEF Settled
    <3> QED BY <3>1, <3>2, <3>3
  <2>5. ASSUME NEW p \in Positions, p # q
        PROVE  (Pending(p)' <=> Pending(p)) /\ (Settled(p)' <=> Settled(p))
    <3>1. Pending(p)' <=> Pending(p)
      <4>1. Pending(p) <=> \E u \in DOMAIN missing : u >= at /\ missing[u] = p
        BY <1>1 DEF Pending
      <4>2. CASE at = Len(missing)
        <5>1. ~Pending(p)
          BY <1>3, <1>5, <2>5, <4>1, <4>2
        <5> QED BY <2>1, <4>2, <5>1 DEF Pending
      <4>3. CASE at # Len(missing)
        <5>1. Pending(p)' <=> \E u \in DOMAIN missing : u >= at + 1 /\ missing[u] = p
          BY <1>1, <2>1, <4>3 DEF Pending
        <5> QED BY <1>3, <1>5, <2>5, <4>1, <5>1
      <4> QED BY <4>2, <4>3
    <3>2. Settled(p)' <=> Settled(p)
      BY <1>2, <1>8, <2>5 DEF Settled
    <3> QED BY <3>1, <3>2
  <2>6. Placed'
    <3>1. ASSUME NEW p \in Positions PROVE IF Pending(p)' THEN results'[p] = NoResult ELSE Settled(p)'
      <4>1. CASE p = q
        BY <2>4, <4>1
      <4>2. CASE p # q
        BY <1>4, <1>8, <2>5, <4>2 DEF Placed
      <4> QED BY <4>1, <4>2
    <3>2. ASSUME NEW u \in DOMAIN missing, phase' = "done" \/ u < at + 1
          PROVE  results'[missing[u]].kind = unit["repairs"][u]
      <4>1. CASE u = at
        BY <1>5, <1>6, <1>8, <4>1
      <4>2. CASE u # at
        <5>1. u < at
          BY <1>3, <2>1, <3>2, <4>2
        <5>2. results[missing[u]].kind = unit["repairs"][u]
          BY <1>1, <1>4, <5>1 DEF Placed
        <5>3. missing[u] \in Positions \ {q}
          BY <1>3, <2>3, <4>2
        <5> QED BY <1>8, <5>2, <5>3
      <4> QED BY <4>1, <4>2
    <3>3. phase' \in {"done", "collect"}
      BY <2>1
    <3> QED BY <1>1, <1>2, <2>1, <3>1, <3>2, <3>3 DEF Placed, NoResult
  <2>7. Observed'
    <3>1. ASSUME NEW p \in Positions PROVE Heard("hook", p)' = One(results'[p].kind = "value")
      <4>1. Heard("hook", p) = One(results[p].kind = "value")
        BY <1>4 DEF Observed
      <4>2. CASE p = q
        <5>1. results[q] = NoResult
          BY <1>4, <2>4 DEF Placed
        <5>2. Heard("hook", q) = 0
          BY <4>1, <4>2, <5>1 DEF One, NoResult, Result
        <5> QED BY <1>8, <1>10, <4>2, <5>2 DEF One
      <4>3. CASE p # q
        BY <1>8, <1>10, <4>1, <4>3 DEF One
      <4> QED BY <4>2, <4>3
    <3>2. ASSUME NEW p \in Positions
          PROVE  Heard("repairHook", p)' = Heard("repairHook", p) /\ Heard("ledger", p)' = Heard("ledger", p)
      BY <1>10
    <3> QED BY <1>1, <1>2, <1>4, <3>1, <3>2 DEF Observed, One
  <2> QED BY <2>2, <2>6, <2>7
<1> QED BY <1>8, <1>9, <1>10, <1>11, <1>12 DEF Itemwise
\* A group's answer is split: its values are settled, the rest is missing.
LEMMA SplitGroupItems ==
    ASSUME Itemwise, SplitGroup
    PROVE  Itemwise'
<1> DEFINE value(q) == Result("value", Clean[q], 0)
           group == grouping[at]
           G == ToSet(group)
<1>1. /\ phase = "split" /\ at <= Len(grouping) /\ Slices /\ Addressed /\ DOMAIN results = Positions
      /\ UNCHANGED <<stage, upstream, grouping, unit, tries, out>>
  BY DEF SplitGroup, inputVars, Itemwise
<1>2. Clean' = Clean /\ Positions' = Positions
  BY <1>1, SameSlice
<1>3. /\ ~error /\ error \in BOOLEAN /\ at \in DOMAIN grouping /\ missing \in Seq(Positions)
      /\ \A v, w \in DOMAIN missing : missing[v] = missing[w] => v = w
      /\ grouping \in Seq(Seq(Nat)) /\ InRange(grouping) /\ Disjoint(grouping)
      /\ \A q \in Positions : ~(Ahead(q) /\ Left(q))
  BY <1>1 DEF Slices
<1>4. Repairs /\ Placed /\ Observed
  BY <1>1, <1>3 DEF Itemwise, Going
<1>5. group \in Seq(Nat)
  BY <1>3
<1>6. /\ G \subseteq Positions
      /\ \A p, q \in DOMAIN group : group[p] = group[q] => p = q
      /\ \A g \in DOMAIN grouping : g # at => G \cap ToSet(grouping[g]) = {}
  <2>1. G \subseteq Positions
    BY <1>3, <1>5 DEF InRange
  <2>2. \A p, q \in DOMAIN group : group[p] = group[q] => p = q
    BY <1>3, <1>5 DEF Disjoint
  <2>3. \A g \in DOMAIN grouping : g # at => G \cap ToSet(grouping[g]) = {}
    BY <1>3, <1>5 DEF Disjoint, ToSet
  <2> QED BY <2>1, <2>2, <2>3
<1>7. PICK parsed \in SUBSET (IF unit["groups"][at] = "value" THEN ToSet(grouping[at]) ELSE {}) :
        LET lacking == Ascending({p \in DOMAIN grouping[at] : grouping[at][p] \notin parsed})
        IN
        /\ missing' = missing \o [n \in DOMAIN lacking |-> grouping[at][lacking[n]]]
        /\ \E heard \in {{grouping[at][p] : p \in 1 .. n} \cap parsed : n \in 0 .. Len(grouping[at])} :
             /\ results' = [q \in Positions |-> IF q \in heard THEN value(q) ELSE results[q]]
             /\ told' = told (+) SetToBag({Message("hook", q, Clean[q]) : q \in heard})
             /\ \/ heard = parsed /\ at' = at + 1 /\ UNCHANGED <<phase, error>>
                \/ heard # {} /\ phase' = "done" /\ error' = TRUE /\ UNCHANGED at
  BY DEF SplitGroup
<1>18. parsed \subseteq G
  OBVIOUS
<1>8. PICK heard \in SUBSET parsed :
        /\ results' = [q \in Positions |-> IF q \in heard THEN value(q) ELSE results[q]]
        /\ told' = told (+) SetToBag({Message("hook", q, Clean[q]) : q \in heard})
        /\ \/ heard = parsed /\ at' = at + 1 /\ UNCHANGED <<phase, error>>
           \/ phase' = "done" /\ error' = TRUE /\ UNCHANGED at
  BY <1>7
<1> DEFINE S == {p \in DOMAIN group : group[p] \notin parsed}
           more == Lacking(group, S)
<1>9. /\ more \in Seq(Nat)
      /\ \A u, v \in DOMAIN more : more[u] = more[v] => u = v
      /\ \A u \in DOMAIN more : more[u] \in G \ parsed
      /\ \A q \in G \ parsed : \E u \in DOMAIN more : more[u] = q
      /\ missing' = missing \o more
  <2>1. missing' = missing \o more
    BY <1>7 DEF Lacking
  <2>2. S \subseteq DOMAIN group /\ \A p \in DOMAIN group : p \in S <=> group[p] \notin parsed
    OBVIOUS
  <2>3. \A q : q \in G \ parsed <=> \E p \in S : q = group[p]
    BY DEF ToSet
  <2> HIDE DEF S, G, group
  <2>4. \A p, q \in DOMAIN group : group[p] = group[q] => p = q
    BY <1>6
  <2>5. /\ more \in Seq(Nat)
        /\ \A u, v \in DOMAIN more : more[u] = more[v] => u = v
        /\ \A u \in DOMAIN more : \E p \in S : more[u] = group[p]
        /\ \A p \in S : \E u \in DOMAIN more : more[u] = group[p]
    BY <1>5, <2>2, <2>4, Lacks
  <2> HIDE DEF more
  <2>6. \A u \in DOMAIN more : more[u] \in G \ parsed
    BY <2>3, <2>5, Zenon
  <2>7. ASSUME NEW q \in G \ parsed PROVE \E u \in DOMAIN more : more[u] = q
    <3>1. PICK p \in S : q = group[p]
      BY <2>3, Zenon
    <3>2. PICK u \in DOMAIN more : more[u] = group[p]
      BY <2>5
    <3> QED BY <3>1, <3>2
  <2> QED BY <2>1, <2>5, <2>6, <2>7, Zenon
<1> HIDE DEF S, more
<1> HIDE DEF G
<1>10. /\ parsed \subseteq G /\ heard \subseteq parsed /\ heard \in SUBSET Positions
  BY <1>6, <1>18
<1>11. \A q \in G : Ahead(q) /\ ~Left(q)
  <2>1. \A q \in G : Ahead(q)
    BY <1>1, <1>3, <1>5 DEF Ahead, G, Slices
  <2> QED BY <1>3, <1>6, <2>1
<1>12. /\ missing' \in Seq(Positions)
       /\ \A u, v \in DOMAIN missing' : missing'[u] = missing'[v] => u = v
       /\ \A q : Left(q)' <=> Left(q) \/ q \in G \ parsed
  <2>1. more \in Seq(Positions)
    BY <1>6, <1>9
  <2>2. \A u \in DOMAIN missing, v \in DOMAIN more : missing[u] # more[v]
    BY <1>9, <1>11 DEF Left
  <2> DEFINE j == missing \o more
  <2>5. /\ j \in Seq(Positions)
        /\ \A u, v \in DOMAIN j : j[u] = j[v] => u = v
        /\ \A q : (\E u \in DOMAIN j : j[u] = q)
                    <=> (\E u \in DOMAIN missing : missing[u] = q) \/ (\E u \in DOMAIN more : more[u] = q)
    <3>1. missing \in Seq(Positions) /\ \A u, v \in DOMAIN missing : missing[u] = missing[v] => u = v
      BY <1>3
    <3>2. \A u, v \in DOMAIN more : more[u] = more[v] => u = v
      BY <1>9
    <3> QED BY <2>1, <2>2, <3>1, <3>2, Joins
  <2>6. missing' = j
    BY <1>9
  <2> HIDE DEF j
  <2>3. /\ missing' \in Seq(Positions)
        /\ \A u, v \in DOMAIN missing' : missing'[u] = missing'[v] => u = v
        /\ \A q : (\E u \in DOMAIN missing' : missing'[u] = q)
                    <=> (\E u \in DOMAIN missing : missing[u] = q) \/ (\E u \in DOMAIN more : more[u] = q)
    BY <2>5, <2>6, Zenon
  <2>4. \A q : (\E u \in DOMAIN more : more[u] = q) <=> q \in G \ parsed
    BY <1>9, <1>10
  <2> QED BY <2>3, <2>4 DEF Left
<1>13. at' = at + 1 => \A q : Ahead(q)' <=> Ahead(q) /\ q \notin G
  <2> SUFFICES ASSUME at' = at + 1, NEW q PROVE Ahead(q)' <=> Ahead(q) /\ q \notin G
    OBVIOUS
  <2>1. Ahead(q)' <=> \E g \in DOMAIN grouping : g >= at + 1 /\ q \in ToSet(grouping[g])
    BY <1>1 DEF Ahead
  <2>2. DOMAIN grouping \subseteq Nat /\ at \in Nat
    BY <1>3
  <2>3. ASSUME NEW g \in DOMAIN grouping, g >= at + 1, q \in ToSet(grouping[g])
        PROVE  Ahead(q) /\ q \notin G
    <3>1. g # at /\ g >= at
      BY <2>2, <2>3
    <3> QED BY <1>6, <2>3, <3>1 DEF Ahead
  <2>4. ASSUME NEW g \in DOMAIN grouping, g >= at, q \in ToSet(grouping[g]), q \notin G
        PROVE  g >= at + 1
    <3>1. g # at
      BY <1>5, <2>4 DEF G
    <3> QED BY <2>2, <2>4, <3>1
  <2> QED BY <2>1, <2>3, <2>4 DEF Ahead
<1>14. Slices'
  <2>1. /\ stage' \in BOOLEAN /\ upstream' \in SUBSET Items' /\ (~stage' => upstream' = {})
        /\ at' \in Nat \ {0}
    BY <1>1, <1>8 DEF Slices, Items
  <2>2. /\ error' \in BOOLEAN /\ phase' \in {"split", "done"}
        /\ phase' = "split" => ~error' /\ at' = at + 1
    <3>1. CASE at' = at + 1 /\ phase' = phase /\ error' = error
      BY <1>1, <1>3, <3>1
    <3>2. CASE phase' = "done" /\ error' = TRUE
      BY <3>2
    <3> QED BY <1>8, <3>1, <3>2
  <2>3. InRange(grouping)' /\ Disjoint(grouping)'
    BY <1>1, <1>2, <1>3 DEF InRange, Disjoint
  <2>4. phase' = "split" => \A q \in Positions' : ~(Ahead(q)' /\ Left(q)')
    BY <1>2, <1>3, <1>12, <1>13, <2>2
  <2>5. DOMAIN unit' = Runs /\ DOMAIN tries' = Runs /\ grouping' \in Seq(Seq(Nat))
    BY <1>1 DEF Slices
  <2> QED BY <1>2, <1>12, <2>1, <2>2, <2>3, <2>4, <2>5 DEF Slices, Phases
<1>15. /\ Addressed'
       /\ \A q \in heard : Heard("hook", q)' = Heard("hook", q) + 1
       /\ \A who, q : who # "hook" \/ q \notin heard => Heard(who, q)' = Heard(who, q)
  <2> DEFINE T == {Message("hook", q, Clean[q]) : q \in heard}
  <2>1. told' = told (+) SetToBag(T)
    BY <1>8
  <2>3. \A m : m \in T <=> \E q \in heard : m = Message("hook", q, Clean[q])
    OBVIOUS
  <2> HIDE DEF T
  <2>2. Addressed /\ UNCHANGED upstream /\ heard \in SUBSET Positions
    BY <1>1, <1>10
  <2> QED BY <2>1, <2>2, <2>3, TellsAll
<1>16. DOMAIN results' = Positions' /\ RepairsLandInPlace'
  BY <1>1, <1>2, <1>8 DEF RepairsLandInPlace
<1>17. ASSUME Going' PROVE Repairs' /\ Placed' /\ Observed'
  <2>1. heard = parsed /\ at' = at + 1 /\ phase' = "split"
    BY <1>1, <1>8, <1>17 DEF Going
  <2>2. DOMAIN unit["repairs"] = {} /\ DOMAIN tries["repairs"] = {}
    BY <1>1, <1>4 DEF Repairs
  <2>3. Repairs'
    BY <1>1, <2>1, <2>2 DEF Repairs
  <2>4. \A q \in Positions : /\ Pending(q) <=> Ahead(q) \/ Left(q)
                             /\ Pending(q)' <=> Ahead(q)' \/ Left(q)'
    BY <1>1, <2>1 DEF Pending
  <2>5. ASSUME NEW q \in Positions, q \in parsed
        PROVE  /\ Pending(q) /\ ~Pending(q)' /\ results[q] = NoResult /\ results'[q] = value(q)
               /\ Settled(q)'
    <3>1. Pending(q) /\ ~Pending(q)'
      BY <1>10, <1>11, <1>12, <1>13, <2>1, <2>4, <2>5
    <3>2. results[q] = NoResult /\ results'[q] = value(q)
      BY <1>4, <1>8, <2>1, <2>5, <3>1 DEF Placed
    <3>3. Settled(q)'
      BY <1>2, <3>2 DEF Settled
    <3> QED BY <3>1, <3>2, <3>3
  <2>6. ASSUME NEW q \in Positions, q \notin parsed
        PROVE  /\ results'[q] = results[q]
               /\ Pending(q)' <=> Pending(q)
               /\ Settled(q)' <=> Settled(q)
    <3>1. results'[q] = results[q]
      BY <1>8, <2>1, <2>6
    <3>2. Pending(q)' <=> Pending(q)
      BY <1>11, <1>12, <1>13, <2>1, <2>4, <2>6
    <3> QED BY <1>2, <3>1, <3>2 DEF Settled
  <2>7. Placed'
    <3>1. ASSUME NEW q \in Positions PROVE IF Pending(q)' THEN results'[q] = NoResult ELSE Settled(q)'
      <4>1. IF Pending(q) THEN results[q] = NoResult ELSE Settled(q)
        BY <1>4 DEF Placed
      <4> QED BY <2>5, <2>6, <4>1
    <3> QED BY <1>2, <2>1, <3>1 DEF Placed, NoResult
  <2>8. ASSUME NEW q \in Positions PROVE Heard("hook", q)' = One(results'[q].kind = "value")
    <3>1. Heard("hook", q) = One(results[q].kind = "value")
      BY <1>4 DEF Observed
    <3>2. CASE q \in parsed
      <4>3. results[q] = NoResult /\ results'[q] = Result("value", Clean[q], 0)
        BY <2>5, <3>2
      <4>1. Heard("hook", q) = 0 /\ Heard("hook", q)' = Heard("hook", q) + 1
        BY <1>15, <2>1, <3>1, <3>2, <4>3 DEF One, NoResult, Result
      <4>2. results'[q].kind = "value"
        BY <4>3 DEF Result
      <4> QED BY <4>1, <4>2 DEF One
    <3>3. CASE q \notin parsed
      BY <1>15, <2>1, <2>6, <3>1, <3>3 DEF One
    <3> QED BY <3>2, <3>3
  <2>9. Observed'
    <3>1. \A q \in Positions : /\ Heard("repairHook", q)' = Heard("repairHook", q)
                               /\ Heard("ledger", q)' = Heard("ledger", q)
      BY <1>15
    <3> QED BY <1>1, <1>2, <1>4, <2>2, <2>8, <3>1 DEF Observed, One
  <2> QED BY <2>3, <2>7, <2>9
<1> QED BY <1>14, <1>15, <1>16, <1>17 DEF Itemwise

\* Every item of the caller gets the result of its position.
LEMMA DeliverItems ==
    ASSUME Itemwise, Deliver
    PROVE  Itemwise'
<1> DEFINE position(i) == CHOOSE q \in Positions : Clean[q] = i
<1>1. /\ phase = "done" /\ Slices /\ Addressed /\ DOMAIN results = Positions
      /\ UNCHANGED <<stage, upstream, grouping, error, at, unit, tries, missing, results, told>>
  BY DEF Deliver, inputVars, Itemwise
<1>2. Clean' = Clean /\ Positions' = Positions /\ Items' = Items
  BY <1>1, SameSlice DEF Items
<1>3. error \in BOOLEAN /\ phase' = (IF error THEN "failed" ELSE "ok")
  BY <1>1 DEF Slices, Deliver
<1>4. Slices'
  <2>1. /\ stage' \in BOOLEAN /\ upstream' \in SUBSET Items' /\ (~stage' => upstream' = {})
        /\ at' \in Nat \ {0} /\ error' \in BOOLEAN
    BY <1>1 DEF Slices, Items
  <2>2. phase' \in {"ok", "failed"} /\ (phase' = "ok" => ~error')
    BY <1>1, <1>3
  <2>3. ~error' => InRange(grouping)' /\ Disjoint(grouping)'
    <3>1. ~error => InRange(grouping) /\ Disjoint(grouping)
      BY <1>1 DEF Slices
    <3> QED BY <1>1, <1>2, <3>1 DEF InRange, Disjoint
  <2> QED BY <1>1, <1>2, <2>1, <2>2, <2>3 DEF Slices, Phases
<1>5. Addressed' /\ DOMAIN results' = Positions'
  BY <1>1, <1>2, ToldNothing
<1>6. ASSUME Going' PROVE ~error /\ phase' = "ok" /\ Repairs /\ Placed /\ Observed
  BY <1>1, <1>3, <1>6 DEF Going, Itemwise
<1>7. ASSUME Going' PROVE Repairs' /\ Placed' /\ Observed'
  <2>1. Repairs'
    BY <1>1, <1>6, <1>7 DEF Repairs
  <2>2. Placed'
    <3>1. \A q \in Positions : ~Pending(q) /\ ~Pending(q)' /\ (Settled(q)' <=> Settled(q))
      BY <1>1, <1>2, <1>6, <1>7 DEF Pending, Settled
    <3> QED BY <1>1, <1>2, <1>6, <1>7, <3>1 DEF Placed
  <2>3. Observed'
    BY <1>1, <1>6, <1>7, ObservedStays
  <2> QED BY <2>1, <2>2, <2>3
<1>8. ASSUME phase' = "ok", NEW i \in Items
      PROVE  /\ out'[i].item = i
             /\ out'[i].kind = "upstream" <=> i \in upstream
             /\ out'[i].kind = "quarantined" => out'[i].index = i
  <2>1. ~error /\ Going'
    BY <1>1, <1>3, <1>8 DEF Going
  <2>2. out'[i] = IF i \in upstream THEN Result("upstream", i, i)
                  ELSE [results[position(i)] EXCEPT !.index = IF stage /\ @ # 0 THEN i ELSE @]
    BY <2>1 DEF Deliver
  <2>3. CASE i \in upstream
    BY <2>2, <2>3 DEF Result
  <2>4. CASE i \notin upstream
    <3>1. \E q \in Positions : Clean[q] = i
      BY <1>1, <2>4, CleanFacts DEF Slices
    <3>2. PICK q \in Positions : q = position(i) /\ Clean[q] = i
      BY <3>1
    <3>3. Settled(q)
      BY <1>1, <1>6, <2>1 DEF Placed, Pending
    <3>4. PICK kind \in {"value", "quarantined", "skipped"} :
            results[q] = Result(kind, i, IF kind = "quarantined" THEN q ELSE 0)
      BY <3>2, <3>3 DEF Settled
    <3>5. out'[i] = [results[q] EXCEPT !.index = IF stage /\ @ # 0 THEN i ELSE @]
      BY <2>2, <2>4, <3>2
    <3>6. out'[i].item = i /\ out'[i].kind = kind
      BY <3>4, <3>5 DEF Result
    <3>7. ASSUME kind = "quarantined" PROVE out'[i].index = i
      <4>1. q # 0 /\ (~stage => q = i)
        BY <1>1, <3>2, CleanFacts DEF Slices
      <4> QED BY <3>4, <3>5, <3>7, <4>1 DEF Result
    <3> QED BY <2>4, <3>6, <3>7
  <2> QED BY <2>3, <2>4
<1>9. RepairsLandInPlace'
  BY <1>1, <1>2, <1>8 DEF RepairsLandInPlace
<1> QED BY <1>4, <1>5, <1>7, <1>9 DEF Itemwise

\* Every step keeps Itemwise.
LEMMA ItemwiseStep ==
    Itemwise /\ [Next]_vars => Itemwise'
<1> SUFFICES ASSUME Itemwise, [Next]_vars PROVE Itemwise'
  OBVIOUS
<1>0. DOMAIN unit = Runs /\ DOMAIN tries = Runs
  BY DEF Itemwise, Slices
<1>1. CASE StartGroups \/ GroupsReturn \/ SplitGroup \/ StartRepairs \/ RepairsReturn \/ Collect \/ Deliver
  BY <1>1, StartGroupsItems, GroupsReturnItems, SplitGroupItems, StartRepairsItems,
     RepairsReturnItems, CollectItems, DeliverItems
<1>2. ASSUME NEW r \in Runs, NestedFails(r) PROVE Itemwise'
  <2>1. /\ UNCHANGED <<stage, upstream, grouping, at, missing, results, told, out, unit, tries>>
        /\ phase \in Runs /\ phase' = "done" /\ error' = TRUE
    BY <1>2 DEF NestedFails, inputVars, itemVars
  <2> QED BY <1>0, <2>1, ItemsAlone
<1>3. ASSUME NEW r \in Runs, NEW u \in DOMAIN unit[r], Retry(r, u) PROVE Itemwise'
  <2>1. CASE r = "repairs"
    BY <1>3, <2>1, RetryRepairsItems
  <2>2. CASE r = "groups"
    <3>1. /\ UNCHANGED <<stage, upstream, grouping, at, missing, results, told, out, unit, error>>
          /\ phase \in Runs /\ phase' \in {phase, "crashed"}
          /\ tries' = [tries EXCEPT !["groups"][u] = @ + 1]
      BY <1>3, <2>2 DEF Retry, inputVars
    <3>2. DOMAIN tries' = Runs /\ UNCHANGED <<unit["repairs"], tries["repairs"]>>
      BY <1>0, <3>1, RunFacts
    <3> QED BY <1>0, <3>1, <3>2, ItemsAlone
  <2> QED BY <2>1, <2>2, RunFacts
<1>4. ASSUME NEW r \in Runs, NEW u \in DOMAIN unit[r], Answer(r, u) PROVE Itemwise'
  <2>1. CASE r = "repairs"
    BY <1>4, <2>1, AnswerRepairsItems
  <2>2. CASE r = "groups"
    <3>1. /\ UNCHANGED <<stage, upstream, grouping, at, missing, results, told, out, tries, error, phase>>
          /\ \E kind \in {"value", "flagged"} : unit' = [unit EXCEPT !["groups"][u] = kind]
      BY <1>4, <2>2 DEF Answer, inputVars
    <3>2. DOMAIN unit' = Runs /\ UNCHANGED <<unit["repairs"], tries["repairs"]>>
      BY <1>0, <3>1, RunFacts
    <3> QED BY <1>0, <3>1, <3>2, ItemsAlone
  <2> QED BY <2>1, <2>2, RunFacts
<1>5. CASE ReporterStep \/ UNCHANGED vars
  <2>1. UNCHANGED <<stage, upstream, grouping, at, missing, results, told, out, unit, tries, error, phase>>
    BY <1>5 DEF ReporterStep, ReporterLocks, ReporterCopies, ReporterMerges, vars, inputVars, itemVars
  <2> QED BY <1>0, <2>1, ItemsAlone
<1> QED BY <1>1, <1>2, <1>3, <1>4, <1>5 DEF Next, EngineStep

\* runBatched and overrideStageRunner of src/flow/batch.go: a Run that succeeds
\* has for every item its own result, through both compact slices and back.
THEOREM EveryItemGetsItsResult ==
    Spec => []RepairsLandInPlace
<1>1. Itemwise => RepairsLandInPlace
  BY DEF Itemwise
<1> QED BY <1>1, ItemwiseInit, ItemwiseStep, PTL DEF Spec

\* remappedLedger, the wrapped OnResult and the hook of runBatched: within the slice
\* that runBatched was given, no observer is told of a wrong item, of a value twice
\* or of none, and the ledger of a repaired item has every attempt.
THEOREM ObserversHearItemsOnce ==
    Spec => []ObserversToldRight
<1>1. Itemwise => ObserversToldRight
  <2> SUFFICES ASSUME Itemwise PROVE ObserversToldRight
    OBVIOUS
  <2>1. \A m \in BagToSet(told) : m.index \in Positions /\ Clean[m.index] = m.item
    BY DEF Itemwise, Addressed, BagToSet
  <2>2. ASSUME phase = "ok", NEW q \in Positions
        PROVE  /\ Heard("hook", q) = One(results[q].kind = "value")
               /\ Heard("repairHook", q) =
                    One(results[q].kind = "value" /\ {u \in DOMAIN missing : missing[u] = q} # {})
               /\ \A u \in {v \in DOMAIN missing : missing[v] = q} :
                    Heard("ledger", q) = tries["repairs"][u]
    <3>1. Repairs /\ Placed /\ Observed
      BY <2>2 DEF Itemwise, Going, Slices
    <3>2. /\ DOMAIN unit["repairs"] = DOMAIN missing
          /\ \A u \in DOMAIN missing : /\ unit["repairs"][u] # "waiting"
                                       /\ tries["repairs"][u] \in Nat
                                       /\ results[missing[u]].kind = unit["repairs"][u]
      BY <2>2, <3>1 DEF Repairs, Placed
    <3>3. /\ Heard("hook", q) = One(results[q].kind = "value")
          /\ Heard("repairHook", q) = One(\E u \in DOMAIN missing :
                                            missing[u] = q /\ unit["repairs"][u] = "value")
          /\ \A u \in DOMAIN missing : missing[u] = q =>
               Heard("ledger", q) = tries["repairs"][u] - 1 + One(unit["repairs"][u] # "waiting")
      BY <3>1, <3>2 DEF Observed, One
    <3>4. (\E u \in DOMAIN missing : missing[u] = q /\ unit["repairs"][u] = "value")
            <=> (results[q].kind = "value" /\ {u \in DOMAIN missing : missing[u] = q} # {})
      BY <3>2
    <3> QED BY <3>2, <3>3, <3>4 DEF One
  <2> QED BY <2>1, <2>2 DEF ObserversToldRight, Heard, One
<1> QED BY <1>1, ItemwiseInit, ItemwiseStep, PTL DEF Spec
==============================================================================
