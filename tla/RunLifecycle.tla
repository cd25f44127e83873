---------------------------- MODULE RunLifecycle ----------------------------
(***************************************************************************)
(* One top-level Run as its observers see it: the ledger's run and step    *)
(* events, the reporter's initial, periodic and terminal snapshots, and    *)
(* the goroutine that publishes the periodic ones (src/flow/run.go: Run,   *)
(* runCore and the end of runStages; src/flow/observe.go).                 *)
(*                                                                         *)
(* Both observers are configured.  The work of the run is one step that    *)
(* succeeds or fails (modules Pipeline and TypedRunner), with one stage.   *)
(* Kept is which context each observer call gets, and when that context is *)
(* done: a strict ledger or reporter refuses a call whose context is done, *)
(* as a sink that does I/O under its context does.                         *)
(***************************************************************************)
EXTENDS Integers, Sequences, SequencesExt

CONSTANTS Modes,      \* the configurations, sets of Traits
          MaxTicks,   \* bound on the periodic snapshots
          Faults      \* a subset of FaultKinds

\* "override": the step is a Bulk or Batched step; "periodic": ReportInterval is
\* positive; "strict": the observers refuse a done context.
Traits == {"override", "periodic", "strict"}

FaultKinds == {"invalid", "ledger", "reporter", "work", "cancel"}

ASSUME LifecycleAssumption ==
    /\ Modes \subseteq SUBSET Traits
    /\ MaxTicks \in Nat
    /\ Faults \subseteq FaultKinds

VARIABLES
    mode,       \* the configuration of this run
    pc,         \* where the goroutine that called Run stands
    canceled,   \* the caller's context is done
    runDone,    \* the reporter's runContext has been canceled by flowkit itself
    runErr,     \* Run has an error to return
    faulted,    \* something failed that is not flowkit (history)
    reporter,   \* the periodic reporter: "off", "waiting", "calling" or "done"
    stopped,    \* its stop channel is closed
    repErr,     \* it put an error on its done channel
    holding,    \* the sequence number of the snapshot it is delivering
    sequence,   \* observationState.sequence
    snapshots,  \* the snapshots delivered: <<sequence, terminal>>
    journal     \* the events the ledger has accepted

lifecycleVars == <<mode, pc, canceled, runDone, runErr, faulted, reporter, stopped, repErr,
          holding, sequence, snapshots, journal>>

reporterVars == <<reporter, stopped, repErr, holding>>

Override == "override" \in mode
Periodic == "periodic" \in mode
Strict == "strict" \in mode

RunCtxDone == canceled \/ runDone
Fault(kind) == kind \in Faults

\* An observer call under a context fails or succeeds; only a failure that the
\* context does not explain is the observer's own.
May(kind, ctxDone, ok) ==
    IF ok THEN ~(Strict /\ ctxDone) /\ UNCHANGED faulted
    ELSE \/ Strict /\ ctxDone /\ UNCHANGED faulted
         \/ Fault(kind) /\ faulted' = TRUE

\* emitLedger
Journal(event, ctxDone, ok) ==
    /\ May("ledger", ctxDone, ok)
    /\ journal' = IF ok THEN Append(journal, event) ELSE journal

\* publish from the goroutine of Run
Publish(terminal, ctxDone, ok) ==
    /\ May("reporter", ctxDone, ok)
    /\ sequence' = sequence + 1
    /\ snapshots' = IF ok THEN Append(snapshots, <<sequence + 1, terminal>>) ELSE snapshots
------------------------------------------------------------------------------
(* Run, before the work                                                      *)

\* Policies, plans and runners are validated before anything is observable.
Validate ==
    /\ pc = "validate"
    /\ \/ pc' = "start" /\ UNCHANGED <<runErr, faulted>>
       \/ Fault("invalid") /\ pc' = "returned" /\ runErr' = TRUE /\ faulted' = TRUE
    /\ UNCHANGED <<mode, canceled, runDone, reporterVars, sequence, snapshots, journal>>

\* run_started; if the ledger fails there is no run to journal.
Start ==
    /\ pc = "start"
    /\ \E ok \in BOOLEAN :
         /\ Journal("run_started", canceled, ok)
         /\ runErr' = ~ok
         /\ pc' = IF ok THEN "initial" ELSE "returned"
    /\ UNCHANGED <<mode, canceled, runDone, reporterVars, sequence, snapshots>>

\* The initial snapshot; then the periodic reporter is started.
Initial ==
    /\ pc = "initial"
    /\ \E ok \in BOOLEAN :
         /\ Publish(FALSE, canceled, ok)
         /\ runErr' = ~ok
         /\ pc' = IF ok THEN "step" ELSE "abort"
         /\ reporter' = IF ok /\ Periodic THEN "waiting" ELSE reporter
    /\ UNCHANGED <<mode, canceled, runDone, stopped, repErr, holding, journal>>

\* The initial snapshot failed: run_failed is journalled, come what may.
Abort ==
    /\ pc = "abort"
    /\ \E ok \in BOOLEAN : Journal("run_failed", FALSE, ok)
    /\ pc' = "returned"
    /\ UNCHANGED <<mode, canceled, runDone, runErr, reporterVars, sequence, snapshots>>
------------------------------------------------------------------------------
(* runCore and runStages                                                     *)

StepStarts ==
    /\ pc = "step"
    /\ \E ok \in BOOLEAN :
         /\ Journal("step_started", RunCtxDone, ok)
         /\ runErr' = ~ok
         /\ pc' = IF ok THEN "work" ELSE "stop"
    /\ UNCHANGED <<mode, canceled, runDone, reporterVars, sequence, snapshots>>

\* The items are processed; a done context may or may not be noticed.  A stage
\* goroutine journals step_completed itself, runCore only after the join.
Work ==
    /\ pc = "work"
    /\ \/ /\ pc' = IF Override THEN "stop" ELSE "complete"
          /\ UNCHANGED <<runErr, faulted>>
       \/ /\ RunCtxDone \/ Fault("work")
          /\ faulted' = (faulted \/ ~RunCtxDone)
          /\ runErr' = TRUE
          /\ pc' = "stop"
    /\ UNCHANGED <<mode, canceled, runDone, reporterVars, sequence, snapshots, journal>>

StepCompletes ==
    /\ pc = "complete"
    /\ \E ok \in BOOLEAN :
         /\ Journal("step_completed", RunCtxDone, ok)
         /\ runErr' = ~ok
    /\ pc' = IF Override THEN "terminal" ELSE "stop"
    /\ UNCHANGED <<mode, canceled, runDone, reporterVars, sequence, snapshots>>

\* stopReporter closes the stop channel ...
Stop ==
    /\ pc = "stop"
    /\ stopped' = TRUE
    /\ pc' = "join"
    /\ UNCHANGED <<mode, canceled, runDone, runErr, faulted, reporter, repErr, holding, sequence,
                   snapshots, journal>>

\* Mutation of Join: the reporter goroutine is not waited for.
JoinAtOnce ==
    /\ pc = "join"
    /\ runErr' = (runErr \/ repErr)
    /\ runDone' = (runDone \/ Periodic)
    /\ pc' = IF Override /\ ~runErr' THEN "complete" ELSE "terminal"
    /\ UNCHANGED <<mode, canceled, faulted, reporterVars, sequence, snapshots, journal>>

\* Mutation of Join: runContext's own error is taken for the reporter's.
JoinReportsContext ==
    /\ pc = "join"
    /\ reporter \in {"off", "done"}
    /\ runErr' = (runErr \/ repErr \/ Periodic)
    /\ runDone' = (runDone \/ Periodic)
    /\ pc' = IF Override /\ ~runErr' THEN "complete" ELSE "terminal"
    /\ UNCHANGED <<mode, canceled, faulted, reporterVars, sequence, snapshots, journal>>

\* ... takes the reporter's error from the done channel and cancels runContext.
Join ==
    /\ pc = "join"
    /\ reporter \in {"off", "done"}
    /\ runErr' = (runErr \/ repErr)
    /\ runDone' = (runDone \/ Periodic)
    /\ pc' = IF Override /\ ~runErr' THEN "complete" ELSE "terminal"
    /\ UNCHANGED <<mode, canceled, faulted, reporterVars, sequence, snapshots, journal>>
------------------------------------------------------------------------------
(* Run, after the work                                                       *)

\* publishTerminal, under a context that does not depend on the caller's.
Terminal ==
    /\ pc = "terminal"
    /\ \E ok \in BOOLEAN :
         /\ Publish(TRUE, FALSE, ok)
         /\ runErr' = (runErr \/ ~ok)
    /\ pc' = "end"
    /\ UNCHANGED <<mode, canceled, runDone, reporterVars, journal>>

\* Mutation of End: the terminal event is chosen by the run's context.
EndByContext ==
    /\ pc = "end"
    /\ \E ok \in BOOLEAN :
         /\ Journal(IF canceled THEN "run_failed" ELSE "run_completed", FALSE, ok)
         /\ runErr' = (runErr \/ ~ok)
    /\ pc' = "returned"
    /\ UNCHANGED <<mode, canceled, runDone, reporterVars, sequence, snapshots>>

\* The terminal event, under such a context too; then Run returns.
End ==
    /\ pc = "end"
    /\ \E ok \in BOOLEAN :
         /\ Journal(IF runErr THEN "run_failed" ELSE "run_completed", FALSE, ok)
         /\ runErr' = (runErr \/ ~ok)
    /\ pc' = "returned"
    /\ UNCHANGED <<mode, canceled, runDone, reporterVars, sequence, snapshots>>
------------------------------------------------------------------------------
(* The periodic reporter and the caller                                      *)

\* The ticker fires: a snapshot is taken under the observation's mutex.
Tick ==
    /\ reporter = "waiting"
    /\ sequence <= MaxTicks
    /\ reporter' = "calling"
    /\ sequence' = sequence + 1
    /\ holding' = sequence + 1
    /\ UNCHANGED <<mode, pc, canceled, runDone, runErr, faulted, stopped, repErr, snapshots, journal>>

\* Reporter.Report returns; an error goes to done and cancels runContext.
Deliver ==
    /\ reporter = "calling"
    /\ \E ok \in BOOLEAN :
         /\ May("reporter", RunCtxDone, ok)
         /\ snapshots' = IF ok THEN Append(snapshots, <<holding, FALSE>>) ELSE snapshots
         /\ reporter' = IF ok THEN "waiting" ELSE "done"
         /\ repErr' = ~ok
         /\ runDone' = (runDone \/ ~ok)
    /\ UNCHANGED <<mode, pc, canceled, runErr, stopped, holding, sequence, journal>>

\* Mutation of Quit: only the context ends the reporter.
QuitByContext ==
    /\ reporter = "waiting"
    /\ RunCtxDone
    /\ reporter' = "done"
    /\ UNCHANGED <<mode, pc, canceled, runDone, runErr, faulted, stopped, repErr, holding, sequence,
                   snapshots, journal>>

\* The reporter's select sees the stop channel closed or the context done.
Quit ==
    /\ reporter = "waiting"
    /\ stopped \/ RunCtxDone
    /\ reporter' = "done"
    /\ UNCHANGED <<mode, pc, canceled, runDone, runErr, faulted, stopped, repErr, holding, sequence,
                   snapshots, journal>>

CallerCancels ==
    /\ Fault("cancel") /\ ~canceled /\ pc # "returned"
    /\ canceled' = TRUE
    /\ UNCHANGED <<mode, pc, runDone, runErr, faulted, reporterVars, sequence, snapshots, journal>>
------------------------------------------------------------------------------

LifecycleInit ==
    /\ mode \in Modes
    /\ pc = "validate"
    /\ canceled = FALSE
    /\ runDone = FALSE
    /\ runErr = FALSE
    /\ faulted = FALSE
    /\ reporter = "off"
    /\ stopped = FALSE
    /\ repErr = FALSE
    /\ holding = 0
    /\ sequence = 0
    /\ snapshots = <<>>
    /\ journal = <<>>

RunStep ==
    \/ Validate \/ Start \/ Initial \/ Abort \/ StepStarts \/ Work \/ StepCompletes
    \/ Stop \/ Join \/ Terminal \/ End

ReporterStep == Tick \/ Deliver \/ Quit

LifecycleNext == RunStep \/ ReporterStep \/ CallerCancels

\* Both goroutines run when they can, and the observers return.  MaxTicks stands
\* for the ticker not winning the reporter's select for ever.
LifecycleFairness ==
    WF_lifecycleVars(RunStep) /\ WF_lifecycleVars(Deliver) /\ WF_lifecycleVars(Quit)

LifecycleSpec == LifecycleInit /\ [][LifecycleNext]_lifecycleVars

LifecycleFairSpec == LifecycleSpec /\ LifecycleFairness
------------------------------------------------------------------------------
(* Properties                                                                *)

Returned == pc = "returned"

\* The journal tells the outcome: Run returns without an error exactly if
\* run_completed is journalled, a terminal event is the last one, and a run
\* that was journalled as completed or that succeeds has journalled its step's
\* completion (Run's terminal event is its last observable act).
JournalTellsOutcome ==
    /\ Returned => (runErr <=> "run_completed" \notin ToSet(journal))
    /\ \A n \in DOMAIN journal : journal[n] \in {"run_completed", "run_failed"} =>
          /\ Returned /\ n = Len(journal)
          /\ journal[n] = "run_completed" => Contains(journal, "step_completed")

\* Snapshots arrive in the order of their sequence numbers and the terminal one
\* comes last, once, although two goroutines publish (startPeriodicReporter's
\* stop joins before publishTerminal).
SnapshotsInOrder ==
    \A m, n \in DOMAIN snapshots : m < n =>
        snapshots[m][1] < snapshots[n][1] /\ ~snapshots[m][2]

\* A run that nothing fails and nobody cancels succeeds: run_failed "records a
\* failed or canceled terminal run boundary" (src/flow/report.go:201), and the
\* runContext is "canceled when the reporter fails" (src/flow/observe.go:103).
FailureHasCause == Returned /\ runErr => faulted \/ canceled

\* A Run that passed its validation returns, and by then its reporter goroutine
\* has ended, whatever the observers do (stopReporter joins it).
RunEnds == pc = "start" ~> (Returned /\ reporter \in {"off", "done"})
==============================================================================
