--------------------------- MODULE LifecycleProofs ---------------------------
(***************************************************************************)
(* Proofs about RunLifecycle, for any set of configurations, any number of *)
(* periodic snapshots and any faults.  The inductive invariant relates the *)
(* program counter of Run to the reporter goroutine (Joined), to what has  *)
(* been delivered (Delivered), to what has been journalled (Journalled)    *)
(* and to the causes of an error (Blamed).                                 *)
(***************************************************************************)
EXTENDS RunLifecycle, TLAPS

PCs == {"validate", "start", "initial", "abort", "step", "work", "complete", "stop", "join",
        "terminal", "end", "returned"}

Events == {"run_started", "step_started", "step_completed", "run_completed", "run_failed"}

Types ==
    /\ mode \in Modes
    /\ pc \in PCs
    /\ canceled \in BOOLEAN /\ runDone \in BOOLEAN /\ runErr \in BOOLEAN /\ faulted \in BOOLEAN
    /\ stopped \in BOOLEAN /\ repErr \in BOOLEAN
    /\ reporter \in {"off", "waiting", "calling", "done"}
    /\ sequence \in Nat /\ holding \in Nat
    /\ snapshots \in Seq(Nat \X BOOLEAN)
    /\ journal \in Seq(Events)

\* Run has waited for the reporter.
Past == {"terminal", "end", "returned"}
AfterJoin == pc \in Past \/ (pc = "complete" /\ Override)

\* The reporter lives between the initial snapshot and the join.
Joined ==
    /\ pc \in {"validate", "start", "initial", "abort"} => reporter = "off"
    /\ AfterJoin => reporter \in {"off", "done"}

\* A goroutine that delivers holds the latest number, which is not delivered yet;
\* the terminal snapshot is the last act of Run as a publisher.
Delivered ==
    /\ reporter = "calling" => holding = sequence
    /\ \A n \in DOMAIN snapshots :
         /\ snapshots[n][1] <= sequence
         /\ reporter = "calling" => snapshots[n][1] < sequence
         /\ snapshots[n][2] => pc \in {"end", "returned"}

\* No terminal event before the return, and none without the step's completion.
Journalled ==
    /\ pc # "returned" =>
         \A n \in DOMAIN journal : journal[n] \notin {"run_completed", "run_failed"}
    /\ pc = "abort" => runErr
    /\ ~runErr /\ (pc \in {"terminal", "end"} \/ (pc \in {"stop", "join"} /\ ~Override)) =>
         Contains(journal, "step_completed")

\* Before the join only a failure ends runContext.
Blamed ==
    /\ runErr \/ repErr => faulted \/ canceled
    /\ runDone => faulted \/ canceled \/ (Periodic /\ AfterJoin)

\* A strict observer, a periodic reporter and a Bulk or Batched step: the one
\* configuration in which Run cancels a context that it still journals with.
NoStrictOverride == \A m \in Modes : ~(Traits \subseteq m)

Inv ==
    /\ Types
    /\ Joined
    /\ Delivered
    /\ SnapshotsInOrder
    /\ Journalled
    /\ JournalTellsOutcome
    /\ NoStrictOverride => Blamed

\* Every behaviour starts in the invariant.
LEMMA InvInit == LifecycleInit => Inv
<1> SUFFICES ASSUME LifecycleInit PROVE Inv
  OBVIOUS
<1>1. Types
  <2>1. /\ canceled \in BOOLEAN /\ runDone \in BOOLEAN /\ runErr \in BOOLEAN
        /\ faulted \in BOOLEAN /\ stopped \in BOOLEAN /\ repErr \in BOOLEAN
    BY Zenon DEF LifecycleInit
  <2>2. /\ mode \in Modes /\ pc \in PCs
        /\ reporter \in {"off", "waiting", "calling", "done"}
        /\ sequence \in Nat /\ holding \in Nat
        /\ snapshots \in Seq(Nat \X BOOLEAN) /\ journal \in Seq(Events)
    BY DEF LifecycleInit, PCs
  <2> QED BY <2>1, <2>2 DEF Types
<1>2. Joined /\ Delivered /\ SnapshotsInOrder /\ Blamed
  BY DEF LifecycleInit, Joined, AfterJoin, Past, Delivered, SnapshotsInOrder, Blamed
<1>3. Journalled /\ JournalTellsOutcome
  BY DEF LifecycleInit, Journalled, JournalTellsOutcome, Returned
<1> QED BY <1>1, <1>2, <1>3 DEF Inv

------------------------------------------------------------------------------
(* Types                                                                     *)

\* An observer call leaves its history variable a Boolean, and only sets it.
LEMMA MayFacts ==
    ASSUME NEW kind, NEW ctxDone \in BOOLEAN, NEW ok \in BOOLEAN, faulted \in BOOLEAN,
           May(kind, ctxDone, ok)
    PROVE  /\ faulted' \in BOOLEAN
           /\ faulted => faulted'
           /\ ~ok => faulted' \/ (Strict /\ ctxDone)
BY Zenon DEF May

\* emitLedger appends the event or leaves the journal.
LEMMA JournalFacts ==
    ASSUME Types, NEW event \in Events, NEW ctxDone \in BOOLEAN, NEW ok \in BOOLEAN,
           Journal(event, ctxDone, ok)
    PROVE  /\ journal' \in Seq(Events)
           /\ ok => journal' = Append(journal, event)
           /\ ~ok => journal' = journal
           /\ faulted' \in BOOLEAN
           /\ faulted => faulted'
           /\ ~ok => faulted' \/ (Strict /\ ctxDone)
<1>1. May("ledger", ctxDone, ok) /\ faulted \in BOOLEAN /\ journal \in Seq(Events)
  BY DEF Journal, Types
<1>2. journal' = IF ok THEN Append(journal, event) ELSE journal
  BY DEF Journal
<1>3. CASE ok
  <2>1. Append(journal, event) \in Seq(Events)
    BY <1>1
  <2> QED BY <1>1, <1>2, <1>3, <2>1, MayFacts
<1>4. CASE ~ok
  BY <1>1, <1>2, <1>4, MayFacts
<1> QED BY <1>3, <1>4

\* publish takes the next number, and delivers it or does not.
LEMMA PublishFacts ==
    ASSUME Types, NEW terminal \in BOOLEAN, NEW ctxDone \in BOOLEAN, NEW ok \in BOOLEAN,
           Publish(terminal, ctxDone, ok)
    PROVE  /\ sequence' = sequence + 1
           /\ snapshots' \in Seq(Nat \X BOOLEAN)
           /\ snapshots' \in {snapshots, Append(snapshots, <<sequence + 1, terminal>>)}
           /\ faulted' \in BOOLEAN
           /\ faulted => faulted'
           /\ ~ok => faulted' \/ (Strict /\ ctxDone)
<1>1. May("reporter", ctxDone, ok) /\ faulted \in BOOLEAN
  BY DEF Publish, Types
<1>2. /\ sequence' = sequence + 1
      /\ snapshots' \in {snapshots, Append(snapshots, <<sequence + 1, terminal>>)}
  BY DEF Publish
<1>3. Append(snapshots, <<sequence + 1, terminal>>) \in Seq(Nat \X BOOLEAN)
  BY DEF Types
<1>4. snapshots' \in Seq(Nat \X BOOLEAN)
  BY <1>2, <1>3 DEF Types
<1> QED BY <1>1, <1>2, <1>4, MayFacts

\* Every variable keeps its type.
LEMMA TypesStep == Types /\ [LifecycleNext]_lifecycleVars => Types'
<1> SUFFICES ASSUME Types, [LifecycleNext]_lifecycleVars PROVE Types'
  OBVIOUS
<1> DEFINE Bools == /\ canceled \in BOOLEAN /\ runDone \in BOOLEAN /\ runErr \in BOOLEAN
                    /\ faulted \in BOOLEAN /\ stopped \in BOOLEAN /\ repErr \in BOOLEAN
           Rest == /\ mode \in Modes /\ pc \in PCs
                   /\ reporter \in {"off", "waiting", "calling", "done"}
                   /\ sequence \in Nat /\ holding \in Nat
                   /\ snapshots \in Seq(Nat \X BOOLEAN) /\ journal \in Seq(Events)
<1>0. Bools /\ Rest /\ RunCtxDone \in BOOLEAN /\ Periodic \in BOOLEAN
  BY DEF Types, RunCtxDone, Periodic
<1>1. CASE Validate
  <2>1. Bools'
    BY <1>0, <1>1, Zenon DEF Validate, reporterVars
  <2>2. Rest'
    BY <1>0, <1>1 DEF Validate, reporterVars, PCs
  <2> QED BY <2>1, <2>2 DEF Types
<1>2. CASE Start \/ StepStarts \/ StepCompletes \/ Abort \/ End
  <2>1. PICK ok \in BOOLEAN, ctxDone \in BOOLEAN, event \in Events :
          /\ Journal(event, ctxDone, ok)
          /\ runErr' \in {runErr, ~ok, runErr \/ ~ok}
          /\ pc' \in PCs
          /\ UNCHANGED <<mode, canceled, runDone, reporterVars, sequence, snapshots>>
    BY <1>0, <1>2 DEF Start, StepStarts, StepCompletes, Abort, End, Events, PCs
  <2>2. journal' \in Seq(Events) /\ faulted' \in BOOLEAN
    BY <2>1, JournalFacts
  <2>3. Bools'
    BY <1>0, <2>1, <2>2, Zenon DEF reporterVars
  <2>4. Rest'
    BY <1>0, <2>1, <2>2 DEF reporterVars
  <2> QED BY <2>3, <2>4 DEF Types
<1>3. CASE Initial \/ Terminal
  <2>1. PICK ok \in BOOLEAN, ctxDone \in BOOLEAN, terminal \in BOOLEAN :
          /\ Publish(terminal, ctxDone, ok)
          /\ runErr' \in {~ok, runErr \/ ~ok}
          /\ pc' \in PCs
          /\ reporter' \in {reporter, "waiting"}
          /\ UNCHANGED <<mode, canceled, runDone, stopped, repErr, holding, journal>>
    BY <1>0, <1>3 DEF Initial, Terminal, PCs, reporterVars
  <2>2. snapshots' \in Seq(Nat \X BOOLEAN) /\ faulted' \in BOOLEAN /\ sequence' = sequence + 1
    BY <2>1, PublishFacts
  <2>3. Bools'
    BY <1>0, <2>1, <2>2, Zenon
  <2>4. Rest'
    BY <1>0, <2>1, <2>2
  <2> QED BY <2>3, <2>4 DEF Types
<1>4. CASE Work \/ Stop \/ Join \/ Tick \/ Quit \/ CallerCancels
  <2>1. Bools'
    BY <1>0, <1>4, Zenon DEF Work, Stop, Join, Tick, Quit, CallerCancels, reporterVars
  <2>2. Rest'
    BY <1>0, <1>4 DEF Work, Stop, Join, Tick, Quit, CallerCancels, reporterVars, PCs
  <2> QED BY <2>1, <2>2 DEF Types
<1>5. CASE Deliver
  <2>1. PICK ok \in BOOLEAN :
          /\ May("reporter", RunCtxDone, ok)
          /\ snapshots' \in {snapshots, Append(snapshots, <<holding, FALSE>>)}
          /\ reporter' \in {"waiting", "done"}
          /\ repErr' = ~ok
          /\ runDone' = (runDone \/ ~ok)
    BY <1>5 DEF Deliver
  <2>2. /\ UNCHANGED <<mode, pc, canceled, runErr, stopped, holding, sequence, journal>>
        /\ faulted' \in BOOLEAN
    BY <1>0, <1>5, <2>1, MayFacts DEF Deliver
  <2>3. Append(snapshots, <<holding, FALSE>>) \in Seq(Nat \X BOOLEAN)
    <3>1. holding \in Nat /\ FALSE \in BOOLEAN
      BY <1>0
    <3>2. <<holding, FALSE>> \in Nat \X BOOLEAN
      BY <3>1, Zenon
    <3> QED BY <1>0, <3>2
  <2>4. Bools'
    BY <1>0, <2>1, <2>2, Zenon
  <2>5. Rest'
    BY <1>0, <2>1, <2>2, <2>3
  <2> QED BY <2>4, <2>5 DEF Types
<1>6. CASE UNCHANGED lifecycleVars
  BY <1>6 DEF Types, lifecycleVars, reporterVars
<1> QED BY <1>1, <1>2, <1>3, <1>4, <1>5, <1>6 DEF LifecycleNext, RunStep, ReporterStep

\* stopReporter waits for the reporter before Run goes on.
LEMMA JoinedStep == Types /\ Joined /\ [LifecycleNext]_lifecycleVars => Joined'
<1> SUFFICES ASSUME Types, Joined, [LifecycleNext]_lifecycleVars PROVE Joined'
  OBVIOUS
<1> USE DEF Types, Joined, AfterJoin, Past, Override, reporterVars
<1>1. CASE Validate \/ Start \/ Initial \/ Abort \/ StepStarts \/ Work
  BY <1>1 DEF Validate, Start, Initial, Abort, StepStarts, Work
<1>2. CASE StepCompletes \/ Stop \/ Join \/ Terminal \/ End
  BY <1>2 DEF StepCompletes, Stop, Join, Terminal, End
<1>3. CASE Tick \/ Deliver \/ Quit \/ CallerCancels \/ UNCHANGED lifecycleVars
  BY <1>3 DEF Tick, Deliver, Quit, CallerCancels, lifecycleVars
<1> QED BY <1>1, <1>2, <1>3 DEF LifecycleNext, RunStep, ReporterStep

------------------------------------------------------------------------------
(* Snapshots                                                                 *)

\* A step that appends a later snapshot to an order without a terminal one.
LEMMA AppendInOrder ==
    ASSUME Types, NEW n \in Nat, NEW terminal \in BOOLEAN, SnapshotsInOrder,
           \A m \in DOMAIN snapshots : snapshots[m][1] < n /\ ~snapshots[m][2],
           snapshots' = Append(snapshots, <<n, terminal>>)
    PROVE  /\ SnapshotsInOrder'
           /\ \A m \in DOMAIN snapshots' : snapshots'[m][1] <= n /\ (snapshots'[m][2] => terminal)
<1>1. /\ DOMAIN snapshots = 1 .. Len(snapshots) /\ Len(snapshots) \in Nat
      /\ DOMAIN snapshots' = 1 .. Len(snapshots) + 1
      /\ \A m \in 1 .. Len(snapshots) : snapshots'[m] = snapshots[m]
      /\ snapshots'[Len(snapshots) + 1] = <<n, terminal>>
      /\ \A m \in 1 .. Len(snapshots) : snapshots[m][1] \in Nat
  BY DEF Types
<1>2. \A m \in 1 .. Len(snapshots) + 1 : m \in 1 .. Len(snapshots) \/ m = Len(snapshots) + 1
  BY <1>1
<1> QED BY <1>1, <1>2 DEF SnapshotsInOrder

\* Only the owner of the sequence delivers.
LEMMA DeliveredStep ==
    Types /\ Joined /\ Delivered /\ SnapshotsInOrder /\ [LifecycleNext]_lifecycleVars =>
      Delivered' /\ SnapshotsInOrder'
<1> SUFFICES ASSUME Types, Joined, Delivered, SnapshotsInOrder, [LifecycleNext]_lifecycleVars
             PROVE  Delivered' /\ SnapshotsInOrder'
  OBVIOUS
<1>0. /\ sequence \in Nat /\ holding \in Nat
      /\ \A m \in DOMAIN snapshots : snapshots[m][1] \in Nat
  BY DEF Types
<1>1. CASE Initial \/ Terminal
  <2>1. PICK ok \in BOOLEAN, ctxDone \in BOOLEAN, terminal \in BOOLEAN :
          /\ Publish(terminal, ctxDone, ok)
          /\ terminal => pc' = "end"
          /\ reporter' \in {reporter, "waiting"}
    BY <1>1 DEF Types, Initial, Terminal, reporterVars
  <2>2. reporter # "calling" /\ pc \notin {"end", "returned"}
    BY <1>1 DEF Joined, AfterJoin, Past, Initial, Terminal
  <2>3. /\ sequence' = sequence + 1
        /\ snapshots' \in {snapshots, Append(snapshots, <<sequence + 1, terminal>>)}
    BY <2>1, PublishFacts
  <2>4. \A m \in DOMAIN snapshots : snapshots[m][1] < sequence + 1 /\ ~snapshots[m][2]
    BY <1>0, <2>2 DEF Delivered
  <2>5. CASE snapshots' = snapshots
    BY <1>0, <2>1, <2>2, <2>3, <2>4, <2>5 DEF Delivered, SnapshotsInOrder
  <2>6. CASE snapshots' = Append(snapshots, <<sequence + 1, terminal>>)
    <3>1. /\ SnapshotsInOrder'
          /\ \A m \in DOMAIN snapshots' :
               snapshots'[m][1] <= sequence + 1 /\ (snapshots'[m][2] => terminal)
      BY <1>0, <2>4, <2>6, AppendInOrder
    <3> QED BY <2>1, <2>2, <2>3, <3>1 DEF Delivered
  <2> QED BY <2>3, <2>5, <2>6
<1>2. CASE Tick
  BY <1>0, <1>2 DEF Tick, Delivered, SnapshotsInOrder
<1>3. CASE Deliver
  <2>1. /\ reporter = "calling" /\ reporter' # "calling" /\ UNCHANGED <<pc, sequence>>
        /\ holding = sequence
        /\ snapshots' \in {snapshots, Append(snapshots, <<sequence, FALSE>>)}
    BY <1>3 DEF Deliver, Delivered
  <2>2. pc \notin {"end", "returned"}
    BY <2>1 DEF Joined, AfterJoin, Past
  <2>3. \A m \in DOMAIN snapshots : snapshots[m][1] < sequence /\ ~snapshots[m][2]
    BY <2>1, <2>2 DEF Delivered
  <2>4. CASE snapshots' = snapshots
    BY <1>0, <2>1, <2>3, <2>4 DEF Delivered, SnapshotsInOrder
  <2>5. CASE snapshots' = Append(snapshots, <<sequence, FALSE>>)
    <3>1. /\ SnapshotsInOrder'
          /\ \A m \in DOMAIN snapshots' :
               snapshots'[m][1] <= sequence /\ (snapshots'[m][2] => FALSE)
      BY <1>0, <2>3, <2>5, AppendInOrder
    <3> QED BY <2>1, <3>1 DEF Delivered
  <2> QED BY <2>1, <2>4, <2>5
<1>4. CASE /\ UNCHANGED <<holding, sequence, snapshots>> /\ (reporter' = "calling" => reporter = "calling")
           /\ pc \in {"end", "returned"} => pc' \in {"end", "returned"}
  BY <1>4 DEF Delivered, SnapshotsInOrder
<1> QED
  BY <1>1, <1>2, <1>3, <1>4
  DEF LifecycleNext, RunStep, ReporterStep, Validate, Start, Abort, StepStarts, Work, StepCompletes, Stop,
      Join, End, Quit, CallerCancels, lifecycleVars, reporterVars

------------------------------------------------------------------------------
(* The journal                                                               *)

Final == {"run_completed", "run_failed"}

\* What an appended event adds to the journal.
LEMMA AppendEvent ==
    ASSUME Types, NEW event \in Events, journal' = Append(journal, event)
    PROVE  /\ DOMAIN journal = 1 .. Len(journal) /\ Len(journal) \in Nat
           /\ DOMAIN journal' = 1 .. Len(journal) + 1 /\ Len(journal') = Len(journal) + 1
           /\ \A n \in 1 .. Len(journal) + 1 :
                journal'[n] = IF n = Len(journal) + 1 THEN event ELSE journal[n]
           /\ Contains(journal, "step_completed") => Contains(journal', "step_completed")
           /\ Contains(journal', event)
BY DEF Types, Contains

\* The terminal event is the last one and tells the outcome.
LEMMA JournalledStep ==
    Types /\ Journalled /\ JournalTellsOutcome /\ [LifecycleNext]_lifecycleVars => Journalled' /\ JournalTellsOutcome'
<1> SUFFICES ASSUME Types, Journalled, JournalTellsOutcome, [LifecycleNext]_lifecycleVars
             PROVE  Journalled' /\ JournalTellsOutcome'
  OBVIOUS
<1>0. journal \in Seq(Events) /\ runErr \in BOOLEAN /\ RunCtxDone \in BOOLEAN /\ canceled \in BOOLEAN
  BY DEF Types, RunCtxDone
<1>1. CASE Start \/ StepStarts \/ StepCompletes
  <2>1. PICK ok \in BOOLEAN, ctxDone \in BOOLEAN, event \in Events \ Final :
          /\ Journal(event, ctxDone, ok)
          /\ runErr' = ~ok
          /\ ok => pc' \notin {"returned", "abort"}
          /\ pc' # "abort"
          /\ ok /\ event # "step_completed" => pc' \in {"initial", "work"}
    BY <1>0, <1>1 DEF Start, StepStarts, StepCompletes, Events, Final
  <2>2. pc # "returned" /\ \A n \in DOMAIN journal : journal[n] \notin Final
    BY <1>1 DEF Journalled, Start, StepStarts, StepCompletes, Final
  <2>3. CASE ok
    <3>1. journal' = Append(journal, event) /\ ~runErr'
      BY <2>1, <2>3, JournalFacts
    <3>2. \A n \in DOMAIN journal' : journal'[n] \notin Final
      BY <2>2, <3>1, AppendEvent
    <3>3. event = "step_completed" => Contains(journal', "step_completed")
      BY <3>1, AppendEvent
    <3> QED BY <2>1, <2>3, <3>2, <3>3 DEF Journalled, JournalTellsOutcome, Returned, Final
  <2>4. CASE ~ok
    <3>1. journal' = journal /\ runErr'
      BY <2>1, <2>4, JournalFacts
    <3> QED BY <2>2, <3>1 DEF Journalled, JournalTellsOutcome, Returned, Final, ToSet
  <2> QED BY <2>3, <2>4
<1>2. CASE Abort \/ End
  <2>1. PICK ok \in BOOLEAN, event \in Final :
          /\ Journal(event, FALSE, ok)
          /\ (event = "run_failed") <=> runErr
          /\ runErr' <=> (runErr \/ (pc = "end" /\ ~ok))
          /\ pc' = "returned"
    BY <1>0, <1>2 DEF Abort, End, Final, Journalled
  <2>2. /\ pc # "returned" /\ \A n \in DOMAIN journal : journal[n] \notin Final
        /\ ~runErr => Contains(journal, "step_completed") /\ pc = "end"
    BY <1>2 DEF Journalled, Abort, End, Final
  <2>3. CASE ok
    <3>1. journal' = Append(journal, event) /\ event \in Events
      BY <2>1, <2>3, JournalFacts DEF Final, Events
    <3>2. runErr' <=> event # "run_completed"
      BY <2>1, <2>3 DEF Final
    <3>3. ("run_completed" \in ToSet(journal')) <=> event = "run_completed"
      BY <2>2, <3>1, AppendEvent DEF ToSet, Final
    <3>4. \A n \in DOMAIN journal' : journal'[n] \in Final =>
            /\ n = Len(journal')
            /\ journal'[n] = "run_completed" => Contains(journal', "step_completed")
      BY <2>1, <2>2, <3>1, AppendEvent
    <3> QED BY <2>1, <3>2, <3>3, <3>4 DEF Journalled, JournalTellsOutcome, Returned, Final
  <2>4. CASE ~ok
    <3>1. journal' = journal
      BY <2>1, <2>4, JournalFacts DEF Final, Events
    <3>2. runErr'
      BY <2>1, <2>2, <2>4
    <3> QED BY <2>1, <2>2, <3>1, <3>2 DEF Journalled, JournalTellsOutcome, Returned, Final, ToSet
  <2> QED BY <2>3, <2>4
<1>3. CASE UNCHANGED <<mode, pc, runErr, journal>>
  BY <1>3 DEF Journalled, JournalTellsOutcome, Returned, Override
<1>4. CASE Validate
  <2>1. /\ pc = "validate" /\ journal' = journal
        /\ pc' = "start" \/ (pc' = "returned" /\ runErr')
    BY <1>4 DEF Validate
  <2> QED BY <2>1 DEF Journalled, JournalTellsOutcome, Returned, ToSet
<1>5. CASE Initial \/ Work \/ Stop \/ Join \/ Terminal
  <2>1. /\ pc # "returned" /\ pc' # "returned" /\ journal' = journal /\ mode' = mode
        /\ pc' = "abort" => runErr'
        /\ ~runErr' /\ (pc' \in {"terminal", "end"} \/ (pc' \in {"stop", "join"} /\ ~Override)) =>
             ~runErr /\ (pc = "terminal" \/ (pc \in {"stop", "join"} /\ ~Override))
    BY <1>0, <1>5 DEF Initial, Work, Stop, Join, Terminal
  <2> QED BY <2>1 DEF Journalled, JournalTellsOutcome, Returned, Override
<1> QED
  BY <1>1, <1>2, <1>3, <1>4, <1>5
  DEF LifecycleNext, RunStep, ReporterStep, Tick, Deliver, Quit, CallerCancels, lifecycleVars, reporterVars

------------------------------------------------------------------------------
(* Causes                                                                    *)

\* A context that is done for an observer is done for a reason.
LEMMA BlamedStep ==
    ASSUME NoStrictOverride, Types, Joined, Blamed, [LifecycleNext]_lifecycleVars
    PROVE  Blamed'
<1>0. /\ RunCtxDone \in BOOLEAN /\ canceled \in BOOLEAN /\ runErr \in BOOLEAN
      /\ faulted \in BOOLEAN /\ repErr \in BOOLEAN /\ runDone \in BOOLEAN
  BY DEF Types, RunCtxDone
<1>1. ~(Override /\ Periodic /\ Strict)
  BY DEF NoStrictOverride, Types, Traits, Override, Periodic, Strict
<1> DEFINE Cause == faulted \/ canceled
<1>2. ASSUME UNCHANGED <<mode, canceled, repErr, runDone>>, Cause => Cause',
             runErr' => runErr \/ Cause', AfterJoin => AfterJoin'
      PROVE  Blamed'
  BY <1>0, <1>2 DEF Blamed, Periodic
<1>3. CASE Start \/ StepStarts \/ StepCompletes \/ Abort \/ End
  <2>1. PICK ok \in BOOLEAN, ctxDone \in BOOLEAN, event \in Events :
          /\ Journal(event, ctxDone, ok)
          /\ runErr' => runErr \/ ~ok
          /\ Strict /\ ctxDone => Cause
    BY <1>0, <1>1, <1>3
    DEF Start, StepStarts, StepCompletes, Abort, End, Events, RunCtxDone, Blamed, AfterJoin, Past
  <2>2. (faulted => faulted') /\ (~ok => faulted' \/ (Strict /\ ctxDone))
    BY <2>1, JournalFacts
  <2>3. UNCHANGED <<mode, canceled, repErr, runDone>> /\ (AfterJoin => AfterJoin')
    BY <1>3 DEF Start, StepStarts, StepCompletes, Abort, End, reporterVars, AfterJoin, Past, Override
  <2> QED BY <1>2, <2>1, <2>2, <2>3
<1>4. CASE Initial \/ Terminal
  <2>1. PICK ok \in BOOLEAN, ctxDone \in BOOLEAN, terminal \in BOOLEAN :
          /\ Publish(terminal, ctxDone, ok)
          /\ runErr' => runErr \/ ~ok
          /\ ctxDone => canceled
    BY <1>0, <1>4 DEF Initial, Terminal
  <2>2. (faulted => faulted') /\ (~ok => faulted' \/ (Strict /\ ctxDone))
    BY <2>1, PublishFacts
  <2>3. UNCHANGED <<mode, canceled, repErr, runDone>> /\ (AfterJoin => AfterJoin')
    BY <1>4 DEF Initial, Terminal, reporterVars, AfterJoin, Past, Override
  <2> QED BY <1>2, <2>1, <2>2, <2>3
<1>5. CASE Validate \/ Stop
  <2>1. /\ UNCHANGED <<mode, canceled, repErr, runDone>> /\ (AfterJoin => AfterJoin')
        /\ (faulted => faulted') /\ (runErr' => runErr \/ faulted')
    BY <1>0, <1>5 DEF Validate, Stop, reporterVars, AfterJoin, Past, Override
  <2> QED BY <1>2, <2>1
<1>6. CASE Work
  <2>0. /\ UNCHANGED <<mode, canceled, repErr, runDone>> /\ pc = "work"
        /\ (runErr' = runErr /\ faulted' = faulted) \/ faulted' = (faulted \/ ~RunCtxDone)
    BY <1>6 DEF Work, reporterVars
  <2>1. (faulted => faulted') /\ (runErr' => runErr \/ faulted' \/ RunCtxDone)
    <3>1. CASE runErr' = runErr /\ faulted' = faulted
      BY ONLY <3>1
    <3>2. CASE faulted' = (faulted \/ ~RunCtxDone)
      BY ONLY <1>0, <3>2, Zenon
    <3> QED BY ONLY <2>0, <3>1, <3>2
  <2>2. RunCtxDone => Cause /\ ~AfterJoin
    BY <2>0 DEF RunCtxDone, Blamed, AfterJoin, Past
  <2>3. ~AfterJoin
    BY <2>0 DEF AfterJoin, Past
  <2> QED BY <1>2, <2>0, <2>1, <2>2, <2>3
<1>7. CASE Join
  <2>1. /\ UNCHANGED <<mode, canceled, repErr, faulted>>
        /\ (runErr' => runErr \/ repErr) /\ (runDone' => runDone \/ Periodic)
        /\ AfterJoin'
    BY <1>0, <1>7 DEF Join, reporterVars, AfterJoin, Past, Override
  <2> QED BY <1>0, <2>1 DEF Blamed, Periodic
<1>8. CASE Deliver
  <2>1. PICK ok \in BOOLEAN :
          /\ May("reporter", RunCtxDone, ok)
          /\ repErr' => ~ok
          /\ runDone' => runDone \/ ~ok
    BY <1>0, <1>8 DEF Deliver
  <2>2. UNCHANGED <<mode, pc, canceled, runErr>> /\ reporter = "calling"
    BY <1>8 DEF Deliver
  <2>3. (faulted => faulted') /\ (~ok => faulted' \/ RunCtxDone)
    BY <1>0, <2>1, MayFacts
  <2>4. RunCtxDone => Cause
    BY <2>2 DEF RunCtxDone, Blamed, Joined
  <2>5. runDone => Cause
    BY <2>4 DEF RunCtxDone
  <2> QED BY <1>0, <2>1, <2>2, <2>3, <2>4, <2>5 DEF Blamed
<1>9. CASE CallerCancels
  BY <1>0, <1>9 DEF CallerCancels, Blamed, reporterVars
<1>10. CASE Tick \/ Quit \/ UNCHANGED lifecycleVars
  <2>1. UNCHANGED <<mode, pc, canceled, repErr, runDone, faulted, runErr>>
    BY <1>10 DEF Tick, Quit, lifecycleVars, reporterVars
  <2> QED BY <2>1 DEF Blamed, AfterJoin, Periodic, Override
<1> QED
  BY <1>3, <1>4, <1>5, <1>6, <1>7, <1>8, <1>9, <1>10 DEF LifecycleNext, RunStep, ReporterStep

------------------------------------------------------------------------------
(* Theorems                                                                  *)

\* Every step keeps the invariant, so that it always holds.
LEMMA InvHolds == LifecycleSpec => []Inv
<1>1. Inv /\ [LifecycleNext]_lifecycleVars => Inv'
  BY TypesStep, JoinedStep, DeliveredStep, JournalledStep, BlamedStep DEF Inv
<1> QED BY <1>1, InvInit, PTL DEF LifecycleSpec

\* Run returns without an error exactly if run_completed is journalled; a
\* terminal event is the last one, and run_completed follows step_completed (Run,
\* runCore, runStages), in every configuration.
THEOREM JournalIsTruthful == LifecycleSpec => []JournalTellsOutcome
<1>1. Inv => JournalTellsOutcome
  BY DEF Inv
<1> QED BY <1>1, InvHolds, PTL

\* Snapshots arrive in the order of their numbers, the terminal one last and
\* once, although two goroutines publish (startPeriodicReporter joins before
\* publishTerminal).
THEOREM SnapshotsOrdered == LifecycleSpec => []SnapshotsInOrder
<1>1. Inv => SnapshotsInOrder
  BY DEF Inv
<1> QED BY <1>1, InvHolds, PTL

\* A run that fails has met a failure or a cancellation, in every configuration
\* but a strict observer with a periodic reporter and a Bulk or Batched step.
THEOREM FailuresHaveCauses ==
    ASSUME NoStrictOverride
    PROVE  LifecycleSpec => []FailureHasCause
<1>1. Inv => FailureHasCause
  BY DEF Inv, Blamed, FailureHasCause
<1> QED BY <1>1, InvHolds, PTL
==============================================================================
