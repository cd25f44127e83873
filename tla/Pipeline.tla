------------------------------- MODULE Pipeline -------------------------------
(***************************************************************************)
(* The pipeline driver of one Run: a feeder, one goroutine per stage with  *)
(* its workers, and a collector, joined by channels and one errgroup       *)
(* (src/flow/run.go: runStages, typedRunner.run, overrideStageRunner.run). *)
(*                                                                         *)
(* Kept: every goroutine, channel close, select, context check and error   *)
(* return, and the order "close the channel, then tell the errgroup" that  *)
(* deferred closes give.  Abstracted: what process and the nested Run of   *)
(* an override stage compute for an item, which is a choice between a      *)
(* value, a flagged item (quarantined or skipped) and a fatal error.       *)
(* TypedRunner models that part.                                           *)
(***************************************************************************)
EXTENDS Integers, Sequences, FiniteSets, SequencesExt

CONSTANTS N,         \* number of items
          S,         \* number of stages
          Pipelines, \* the pipelines: "stream", "barrier" (Step.Barrier) or "override"
                     \* for each stage
          Pool,      \* Pool[s]: Policy.Workers of stage s
          Capacity,  \* buffer of the channel between stages (16 in the code)
          Faults     \* which faults may happen: a subset of FaultKinds

FaultKinds == {"cancel", "reporter", "ledger", "fatal"}

ASSUME PipelineAssumption ==
    /\ N \in Nat
    /\ S \in Nat \ {0}
    /\ Pipelines \subseteq [1 .. S -> {"stream", "barrier", "override"}]
    /\ Pool \in [1 .. S -> Nat \ {0}]
    /\ Capacity \in Nat \ {0}
    /\ Faults \subseteq FaultKinds

Items == 1 .. N
Stages == 1 .. S
Feeder == 0                 \* channel c is closed by goroutine c:
Collector == S + 1          \* the feed by the feeder, out by its stage
Goroutines == 0 .. S + 1
Workers == UNION {{s} \X (1 .. Pool[s]) : s \in Stages}
Of(s) == {w \in Workers : w[1] = s}

VARIABLES
    kind,       \* kind[s]: what stage s is
    canceled,   \* the caller's context is done
    reporter,   \* the periodic reporter: "up" or "failed"
    groupErr,   \* the errgroup has recorded an error and canceled its context
    life,       \* life[g]: "running", "returned" (channel closed) or "joined"
    erred,      \* the goroutines that returned an error
    phase,      \* phase[s]: where stage s's goroutine stands
    stageErr,   \* the stages whose inner errgroup has recorded an error
    fed,        \* items handed over by the feeder
    chan,       \* chan[s]: the buffered channel stage s sends to
    drained,    \* drained[s]: the items a barrier or override stage has drained
    sent,       \* sent[s]: how many of them it has passed on
    gate,       \* gate[s]: the barrier goroutine: "none", "open" or "closed"
    at,         \* at[w]: where worker w stands
    hold,       \* hold[w]: the item w works on (0: none)
    flagged,    \* items that are quarantined or skipped
    done,       \* done[i]: the stages that have produced a value for i
    collected,  \* the indexes written to results
    outcome     \* what Run returned: "running", "ok" or "failed"

groupVars == <<canceled, reporter, groupErr, life, erred, outcome>>
stageVars == <<phase, stageErr, drained, sent, gate>>
workerVars == <<at, hold>>
itemVars == <<flagged, done>>
vars == <<groupVars, stageVars, fed, chan, workerVars, itemVars, collected, kind>>

\* errgroup.Wait cancels the group's context too.
CtxDone == canceled \/ reporter = "failed" \/ groupErr \/ outcome # "running"
InnerDone(s) == CtxDone \/ s \in stageErr
Fault(f) == f \in Faults
------------------------------------------------------------------------------
(* Channels: 0 is the unbuffered feed, s the output of stage s.              *)

Closed(c) == life[c] # "running"

\* An item that a receiver on channel c can take now.
Offered(c) ==
    IF c = Feeder THEN {fed + 1} \cap (IF Closed(Feeder) THEN {} ELSE Items)
                  ELSE {chan[c][j] : j \in {1} \cap DOMAIN chan[c]}

Receive(c, i) ==
    /\ i \in Offered(c)
    /\ IF c = Feeder
         THEN fed' = fed + 1 /\ UNCHANGED chan
         ELSE chan' = [chan EXCEPT ![c] = Tail(@)] /\ UNCHANGED fed

Exhausted(c) == Closed(c) /\ (c # Feeder => chan[c] = <<>>)

HasRoom(s) == Len(chan[s]) < Capacity

\* A goroutine of the errgroup returns; its deferred close runs first.
Returns(g, failing) ==
    /\ life' = [life EXCEPT ![g] = "returned"]
    /\ erred' = IF failing THEN erred \cup {g} ELSE erred
    /\ UNCHANGED <<canceled, reporter, groupErr, outcome>>
------------------------------------------------------------------------------
(* Feeder, collector, errgroup and caller                                    *)

\* Every input was handed over, or the select saw the context done.
FeederReturns ==
    /\ life[Feeder] = "running"
    /\ fed = N \/ CtxDone
    /\ Returns(Feeder, fed < N)
    /\ UNCHANGED <<stageVars, fed, chan, workerVars, itemVars, collected, kind>>

Collect ==
    /\ life[Collector] = "running"
    /\ \E i \in Items : Receive(S, i) /\ collected' = collected \cup {i}
    /\ UNCHANGED <<groupVars, stageVars, workerVars, itemVars, kind>>

CollectorReturns ==
    /\ life[Collector] = "running"
    /\ Exhausted(S)
    /\ Returns(Collector, FALSE)
    /\ UNCHANGED <<stageVars, fed, chan, workerVars, itemVars, collected, kind>>

\* The errgroup wrapper: the first error cancels the group's context.
Join(g) ==
    /\ life[g] = "returned"
    /\ life' = [life EXCEPT ![g] = "joined"]
    /\ groupErr' = (groupErr \/ g \in erred)
    /\ UNCHANGED <<canceled, reporter, erred, outcome, stageVars, fed, chan, workerVars,
                   itemVars, collected, kind>>

\* group.Wait returns, the reporter is joined, and Run returns.
RunReturns ==
    /\ outcome = "running"
    /\ \A g \in Goroutines : life[g] = "joined"
    /\ outcome' = IF groupErr \/ reporter = "failed" THEN "failed" ELSE "ok"
    /\ UNCHANGED <<canceled, reporter, groupErr, life, erred, stageVars, fed, chan,
                   workerVars, itemVars, collected, kind>>

CallerCancels ==
    /\ Fault("cancel") /\ ~canceled /\ outcome = "running"
    /\ canceled' = TRUE
    /\ UNCHANGED <<reporter, groupErr, life, erred, outcome, stageVars, fed, chan, workerVars,
                   itemVars, collected, kind>>

\* A failing Reporter cancels the run's context and fails the run.
ReporterFails ==
    /\ Fault("reporter") /\ reporter = "up" /\ outcome = "running"
    /\ reporter' = "failed"
    /\ UNCHANGED <<canceled, groupErr, life, erred, outcome, stageVars, fed, chan, workerVars,
                   itemVars, collected, kind>>
------------------------------------------------------------------------------
(* Stage goroutines                                                          *)

\* step_started is journalled, then the runner starts; a ledger error returns.
StageStarts(s) ==
    /\ phase[s] = "start" /\ life[s] = "running"
    /\ \/ /\ IF kind[s] = "stream"
               THEN /\ phase' = [phase EXCEPT ![s] = "work"]
                    /\ at' = [w \in Workers |-> IF w[1] = s THEN "recv" ELSE at[w]]
               ELSE /\ phase' = [phase EXCEPT ![s] = "drain"]
                    /\ UNCHANGED at
          /\ UNCHANGED groupVars
       \/ Fault("ledger") /\ Returns(s, TRUE) /\ UNCHANGED <<phase, at>>
    /\ UNCHANGED <<stageErr, drained, sent, gate, fed, chan, hold, itemVars, collected, kind>>

\* A barrier or override stage ranges over its input until it is closed.
Drain(s) ==
    /\ phase[s] = "drain" /\ life[s] = "running"
    /\ \E i \in Items :
         /\ Receive(s - 1, i)
         /\ drained' = [drained EXCEPT ![s] = Append(@, i)]
    /\ UNCHANGED <<groupVars, phase, stageErr, sent, gate, workerVars, itemVars, collected, kind>>

\* Mutation of Drained: the stage drains what has arrived so far.
DrainedSoFar(s) ==
    /\ phase[s] = "drain" /\ life[s] = "running"
    /\ Offered(s - 1) = {} /\ drained[s] # <<>>
    /\ phase' = [phase EXCEPT ![s] = IF kind[s] = "barrier" THEN "work" ELSE "nested"]
    /\ gate' = [gate EXCEPT ![s] = IF kind[s] = "barrier" THEN "open" ELSE @]
    /\ at' = [w \in Workers |-> IF w[1] = s /\ kind[s] = "barrier" THEN "recv" ELSE at[w]]
    /\ UNCHANGED <<groupVars, stageErr, drained, sent, fed, chan, hold, itemVars, collected, kind>>

\* The context check after draining; then the barrier goroutine and the
\* workers start, or the nested Run is called.
Drained(s) ==
    /\ phase[s] = "drain" /\ life[s] = "running"
    /\ Exhausted(s - 1)
    /\ IF CtxDone
         THEN Returns(s, TRUE) /\ UNCHANGED <<phase, gate, at>>
         ELSE /\ UNCHANGED groupVars
              /\ IF kind[s] = "barrier"
                   THEN /\ phase' = [phase EXCEPT ![s] = "work"]
                        /\ gate' = [gate EXCEPT ![s] = "open"]
                        /\ at' = [w \in Workers |-> IF w[1] = s THEN "recv" ELSE at[w]]
                   ELSE /\ phase' = [phase EXCEPT ![s] = "nested"]
                        /\ UNCHANGED <<gate, at>>
    /\ UNCHANGED <<stageErr, drained, sent, fed, chan, hold, itemVars, collected, kind>>

\* The barrier goroutine passed on everything, or saw the context done.
GateCloses(s) ==
    /\ gate[s] = "open"
    /\ sent[s] = Len(drained[s]) \/ CtxDone
    /\ gate' = [gate EXCEPT ![s] = "closed"]
    /\ UNCHANGED <<groupVars, phase, stageErr, drained, sent, fed, chan, workerVars, itemVars,
                   collected, kind>>

\* The orders in which the drained items may be emitted (there is one): clean
\* items by index, then the items that arrived flagged, as they arrived.
EmitOrders(s) ==
    LET Before(p, q) ==
          LET i == drained[s][p]
              j == drained[s][q]
          IN  \/ i \notin flagged /\ (j \in flagged \/ i < j)
              \/ {i, j} \subseteq flagged /\ p < q
    IN  {order \in Bijection(DOMAIN drained[s], DOMAIN drained[s]) :
           \A p, q \in DOMAIN order : p < q => Before(order[p], order[q])}

\* The nested Run of an override stage: an error, or a result for each clean
\* item, some of them flagged.  The results are then emitted in order.
NestedRun(s) ==
    LET clean == ToSet(drained[s]) \ flagged
    IN  /\ phase[s] = "nested" /\ life[s] = "running"
        /\ \/ /\ Fault("fatal") \/ CtxDone
              /\ Returns(s, TRUE)
              /\ UNCHANGED <<phase, drained, itemVars>>
           \/ \E bad \in SUBSET clean, order \in EmitOrders(s) :
                /\ flagged' = flagged \cup bad
                /\ done' = [i \in Items |-> IF i \in clean \ bad THEN done[i] \cup {s} ELSE done[i]]
                /\ drained' = [drained EXCEPT ![s] = [p \in DOMAIN @ |-> @[order[p]]]]
                /\ phase' = [phase EXCEPT ![s] = "emit"]
                /\ UNCHANGED groupVars
        /\ UNCHANGED <<stageErr, sent, gate, fed, chan, workerVars, collected, kind>>

\* emit: send the next item, or see the context done.
Emit(s) ==
    /\ phase[s] = "emit" /\ life[s] = "running"
    /\ sent[s] < Len(drained[s])
    /\ \/ /\ HasRoom(s)
          /\ chan' = [chan EXCEPT ![s] = Append(@, drained[s][sent[s] + 1])]
          /\ sent' = [sent EXCEPT ![s] = @ + 1]
          /\ UNCHANGED groupVars
       \/ CtxDone /\ Returns(s, TRUE) /\ UNCHANGED <<chan, sent>>
    /\ UNCHANGED <<phase, stageErr, drained, gate, fed, workerVars, itemVars, collected, kind>>

\* Mutation of StageReturns: the first worker to exit ends the stage.
StageReturnsEarly(s) ==
    /\ life[s] = "running"
    /\ \/ phase[s] = "work" /\ \E w \in Of(s) : at[w] = "exit"
       \/ phase[s] = "emit" /\ sent[s] = Len(drained[s])
    /\ \/ Returns(s, s \in stageErr)
       \/ Fault("ledger") /\ s \notin stageErr /\ Returns(s, TRUE)
    /\ UNCHANGED <<stageVars, fed, chan, workerVars, itemVars, collected, kind>>

\* The runner returned (inner group.Wait, or everything emitted); on success
\* step_completed is journalled before the stage goroutine returns.
StageReturns(s) ==
    /\ life[s] = "running"
    /\ \/ phase[s] = "work" /\ \A w \in Of(s) : at[w] = "exit"
       \/ phase[s] = "emit" /\ sent[s] = Len(drained[s])
    /\ \/ Returns(s, s \in stageErr)
       \/ Fault("ledger") /\ s \notin stageErr /\ Returns(s, TRUE)
    /\ UNCHANGED <<stageVars, fed, chan, workerVars, itemVars, collected, kind>>
------------------------------------------------------------------------------
(* Workers of a typedRunner                                                  *)

WorkerErr(w) ==
    /\ at' = [at EXCEPT ![w] = "exit"]
    /\ stageErr' = stageErr \cup {w[1]}

\* Mutation of WorkerReceives: a flagged item is processed like any other.
WorkerReceivesFlagged(w) ==
    LET s == w[1] IN
    /\ at[w] = "recv"
    /\ \E i \in Items :
         /\ IF kind[s] = "barrier"
              THEN /\ gate[s] = "open" /\ sent[s] < Len(drained[s])
                   /\ i = drained[s][sent[s] + 1]
                   /\ sent' = [sent EXCEPT ![s] = @ + 1]
                   /\ UNCHANGED <<fed, chan>>
              ELSE Receive(s - 1, i) /\ UNCHANGED sent
         /\ hold' = [hold EXCEPT ![w] = i]
         /\ at' = [at EXCEPT ![w] = "process"]
    /\ UNCHANGED <<groupVars, phase, stageErr, drained, gate, itemVars, collected, kind>>

\* for item := range source: a flagged item goes straight to the send.
WorkerReceives(w) ==
    LET s == w[1] IN
    /\ at[w] = "recv"
    /\ \E i \in Items :
         /\ IF kind[s] = "barrier"
              THEN /\ gate[s] = "open" /\ sent[s] < Len(drained[s])
                   /\ i = drained[s][sent[s] + 1]
                   /\ sent' = [sent EXCEPT ![s] = @ + 1]
                   /\ UNCHANGED <<fed, chan>>
              ELSE Receive(s - 1, i) /\ UNCHANGED sent
         /\ hold' = [hold EXCEPT ![w] = i]
         /\ at' = [at EXCEPT ![w] = IF i \in flagged THEN "send" ELSE "process"]
    /\ UNCHANGED <<groupVars, phase, stageErr, drained, gate, itemVars, collected, kind>>

\* The source is closed and empty: the worker returns nil.
WorkerEnds(w) ==
    LET s == w[1] IN
    /\ at[w] = "recv"
    /\ IF kind[s] = "barrier" THEN gate[s] = "closed" ELSE Exhausted(s - 1)
    /\ at' = [at EXCEPT ![w] = "exit"]
    /\ UNCHANGED <<groupVars, stageVars, fed, chan, hold, itemVars, collected, kind>>

\* process resolves the item to a value, a flagged item or a fatal error.
Process(w) ==
    LET i == hold[w] IN
    /\ at[w] = "process"
    /\ \/ /\ done' = [done EXCEPT ![i] = @ \cup {w[1]}]
          /\ at' = [at EXCEPT ![w] = "send"]
          /\ UNCHANGED <<flagged, stageErr>>
       \/ /\ flagged' = flagged \cup {i}
          /\ at' = [at EXCEPT ![w] = "send"]
          /\ UNCHANGED <<done, stageErr>>
       \/ /\ Fault("fatal") \/ InnerDone(w[1])
          /\ WorkerErr(w)
          /\ UNCHANGED itemVars
    /\ UNCHANGED <<groupVars, phase, drained, sent, gate, fed, chan, hold, collected, kind>>

\* Mutation of Send: the worker sends without watching the context.
SendBlocks(w) ==
    LET s == w[1] IN
    /\ at[w] = "send"
    /\ HasRoom(s)
    /\ chan' = [chan EXCEPT ![s] = Append(@, hold[w])]
    /\ hold' = [hold EXCEPT ![w] = 0]
    /\ at' = [at EXCEPT ![w] = "recv"]
    /\ UNCHANGED <<groupVars, phase, stageErr, drained, sent, gate, fed, itemVars, collected, kind>>

\* Mutation of Send: a done context ends the worker without an error.
SendGivesUp(w) ==
    LET s == w[1] IN
    /\ at[w] = "send"
    /\ \/ /\ HasRoom(s)
          /\ chan' = [chan EXCEPT ![s] = Append(@, hold[w])]
          /\ hold' = [hold EXCEPT ![w] = 0]
          /\ at' = [at EXCEPT ![w] = "recv"]
       \/ InnerDone(s) /\ at' = [at EXCEPT ![w] = "exit"] /\ UNCHANGED <<chan, hold>>
    /\ UNCHANGED <<groupVars, phase, stageErr, drained, sent, gate, fed, itemVars, collected, kind>>

\* Mutation of Send: a flagged item is sent on and then falls through to process.
SendFallsThrough(w) ==
    LET s == w[1] IN
    /\ at[w] = "send"
    /\ \/ /\ HasRoom(s)
          /\ chan' = [chan EXCEPT ![s] = Append(@, hold[w])]
          /\ at' = [at EXCEPT ![w] = IF hold[w] \in flagged THEN "process" ELSE "recv"]
          /\ UNCHANGED <<hold, stageErr>>
       \/ InnerDone(s) /\ WorkerErr(w) /\ UNCHANGED <<chan, hold>>
    /\ UNCHANGED <<groupVars, phase, drained, sent, gate, fed, itemVars, collected, kind>>

\* The select after process: send the item on, or see the inner context done.
Send(w) ==
    LET s == w[1] IN
    /\ at[w] = "send"
    /\ \/ /\ HasRoom(s)
          /\ chan' = [chan EXCEPT ![s] = Append(@, hold[w])]
          /\ hold' = [hold EXCEPT ![w] = 0]
          /\ at' = [at EXCEPT ![w] = "recv"]
          /\ UNCHANGED stageErr
       \/ InnerDone(s) /\ WorkerErr(w) /\ UNCHANGED <<chan, hold>>
    /\ UNCHANGED <<groupVars, phase, drained, sent, gate, fed, itemVars, collected, kind>>
------------------------------------------------------------------------------

Init ==
    /\ kind \in Pipelines
    /\ canceled = FALSE
    /\ reporter = "up"
    /\ groupErr = FALSE
    /\ life = [g \in Goroutines |-> "running"]
    /\ erred = {}
    /\ phase = [s \in Stages |-> "start"]
    /\ stageErr = {}
    /\ fed = 0
    /\ chan = [s \in Stages |-> <<>>]
    /\ drained = [s \in Stages |-> <<>>]
    /\ sent = [s \in Stages |-> 0]
    /\ gate = [s \in Stages |-> "none"]
    /\ at = [w \in Workers |-> "idle"]
    /\ hold = [w \in Workers |-> 0]
    /\ flagged = {}
    /\ done = [i \in Items |-> {}]
    /\ collected = {}
    /\ outcome = "running"

StageStep(s) ==
    \/ StageStarts(s) \/ Drain(s) \/ Drained(s) \/ NestedRun(s) \/ Emit(s) \/ StageReturns(s)

WorkerStep(w) == WorkerReceives(w) \/ WorkerEnds(w) \/ Process(w) \/ Send(w)

Next ==
    \/ FeederReturns \/ Collect \/ CollectorReturns \/ RunReturns
    \/ CallerCancels \/ ReporterFails
    \/ \E g \in Goroutines : Join(g)
    \/ \E s \in Stages : StageStep(s) \/ GateCloses(s)
    \/ \E w \in Workers : WorkerStep(w)

\* The Go scheduler runs every goroutine that can run; work returns (Do and
\* the hooks terminate).  Nobody has to cancel, and nothing has to fail.
Fairness ==
    /\ WF_vars(FeederReturns) /\ WF_vars(Collect \/ CollectorReturns) /\ WF_vars(RunReturns)
    /\ \A g \in Goroutines : WF_vars(Join(g))
    /\ \A s \in Stages : WF_vars(StageStep(s)) /\ WF_vars(GateCloses(s))
    /\ \A w \in Workers : WF_vars(WorkerStep(w))

Spec == Init /\ [][Next]_vars

FairSpec == Spec /\ Fairness
------------------------------------------------------------------------------
(* Properties                                                                *)

\* Every variable keeps its type; in particular no channel holds more than its
\* capacity and no stage passes on more than it drained (runStages' channels).
TypeOK ==
    /\ kind \in Pipelines
    /\ canceled \in BOOLEAN /\ groupErr \in BOOLEAN
    /\ reporter \in {"up", "failed"}
    /\ life \in [Goroutines -> {"running", "returned", "joined"}]
    /\ erred \subseteq Goroutines
    /\ phase \in [Stages -> {"start", "drain", "nested", "emit", "work"}]
    /\ stageErr \subseteq Stages
    /\ fed \in 0 .. N
    /\ chan \in [Stages -> Seq(Items)]
    /\ \A s \in Stages : Len(chan[s]) <= Capacity
    /\ drained \in [Stages -> Seq(Items)]
    /\ \A s \in Stages : sent[s] \in 0 .. Len(drained[s])
    /\ gate \in [Stages -> {"none", "open", "closed"}]
    /\ at \in [Workers -> {"idle", "recv", "process", "send", "exit"}]
    /\ hold \in [Workers -> 0 .. N]
    /\ flagged \subseteq Items
    /\ done \in [Items -> SUBSET Stages]
    /\ collected \subseteq Items
    /\ outcome \in {"running", "ok", "failed"}

\* Every item has a result, and a result that is not flagged has been through
\* every stage.
Complete == \A i \in Items : i \in collected /\ (i \in flagged \/ done[i] = Stages)

\* Run returns without an error only with a result for every item: "Results[i]
\* corresponds to items[i], always" (src/flow/run.go:394, the comment of Run).
NothingLost == outcome = "ok" => Complete

Barriers == {s \in Stages : kind[s] = "barrier"}

\* The same, unless the caller cancels a pipeline with a Barrier stage: a failure
\* of a stage, the ledger or the reporter never passes for success, nor does a
\* cancellation that streaming and override stages see (runStages).
LossOnlyByCancel == outcome = "ok" /\ (canceled => Barriers = {}) => Complete

\* Where item i is: in a channel, drained and not yet passed on, or in a worker.
Queued(i) == {p \in Stages \X (1 .. Capacity) : p[2] <= Len(chan[p[1]]) /\ chan[p[1]][p[2]] = i}
Waiting(i) == {p \in Stages \X Items : /\ sent[p[1]] < p[2] /\ p[2] <= Len(drained[p[1]])
                                       /\ drained[p[1]][p[2]] = i}
Holders(i) == {w \in Workers : at[w] \in {"process", "send"} /\ hold[w] = i}

\* An item is in at most one place, from the feeder to the collector: no item
\* is worked on twice by a stage and no result is written twice, also while
\* stages fail and contexts are canceled in any order.
NoDuplicate ==
    \A i \in Items :
        Cardinality(Queued(i)) + Cardinality(Waiting(i)) + Cardinality(Holders(i))
          + Cardinality({i} \cap collected) + Cardinality({i} \cap (fed + 1 .. N)) <= 1

\* No goroutine can still send when a stage's channel is closed (which would
\* panic): the driver closes it only after every worker of the stage has exited
\* ("run must not close the channels", src/flow/run.go:550).
NoSendOnClosed ==
    \A s \in Stages : Closed(s) => \A w \in Of(s) : at[w] \in {"idle", "exit"}

\* A flagged item bypasses every later stage unchanged (erasedItem,
\* src/flow/run.go:526), and the stages an item has been through are always a
\* prefix of the pipeline.
FlaggedUntouched ==
    [][\A i \in Items : /\ i \in flagged => done'[i] = done[i] /\ i \in flagged'
                        /\ \A s \in done'[i] \ done[i] : done[i] = 1 .. s - 1]_vars

\* Run always returns and leaves no barrier goroutine behind, whichever stages
\* fail, whoever cancels, however full the channels are.
AllGoroutinesEnd == <>[](outcome # "running" /\ \A s \in Stages : gate[s] # "open")

\* A Barrier stage processes its first item only when every upstream result has
\* arrived, or else the run is failing: "Barrier makes a pipeline stage wait for
\* every upstream result before processing its first item" (src/flow/step.go:36).
\* A stage that fails closes its channel before the errgroup cancels the context,
\* so that the unconditional sentence does not hold.
BarrierWaits ==
    \A w \in Workers : w[1] \in Barriers /\ at[w] = "process" =>
        ToSet(drained[w[1]]) = Items \/ \E g \in erred : g < w[1]
===============================================================================
