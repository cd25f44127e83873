---------------------------- MODULE PipelineProofs ----------------------------
(***************************************************************************)
(* Proofs about Pipeline, for any number of items and stages, any kinds,   *)
(* pool sizes, channel capacity and faults.  An item is at every moment in *)
(* exactly one spot, and a step moves one item to a spot further on; the   *)
(* rest of the inductive invariant says what a spot tells about its items  *)
(* (Progress), where a stage and its workers stand (Control), and what a   *)
(* closed channel says about everything behind it (Settled).               *)
(***************************************************************************)
EXTENDS Pipeline, FiniteSetTheorems, TLAPS
------------------------------------------------------------------------------
(* Spots                                                                     *)

Spots ==
    {"in", "out"} \X {0} \cup {"chan", "drain"} \X Stages \cup {"hand"} \X Workers

Pending(s) == {drained[s][p] : p \in sent[s] + 1 .. Len(drained[s])}

\* The items in a spot: not fed yet, in a channel, drained and not passed on, in
\* the hands of a worker (also of one that has failed), or collected.
Holding(x) ==
    IF x[1] = "in" THEN fed + 1 .. N
    ELSE IF x[1] = "chan" THEN ToSet(chan[x[2]])
    ELSE IF x[1] = "drain" THEN Pending(x[2])
    ELSE IF x[1] = "hand" THEN {hold[x[2]]} \ {0}
    ELSE collected

\* How far a spot is: 2s - 1 inside stage s, 2s in its channel.
Rank(x) ==
    IF x[1] = "in" THEN 0
    ELSE IF x[1] = "chan" THEN 2 * x[2]
    ELSE IF x[1] = "drain" THEN 2 * x[2] - 1
    ELSE IF x[1] = "hand" THEN 2 * x[2][1] - 1
    ELSE 2 * S + 1

OneSpot == \A i \in Items : \E x \in Spots : \A y \in Spots : i \in Holding(y) <=> y = x

\* The stages that an item has been through, unless it is flagged.
Through(i, s) == i \in flagged \/ done[i] = 1 .. s

Fits(i, x) ==
    IF x[1] = "in" THEN done[i] = {}
    ELSE IF x[1] = "chan" THEN Through(i, x[2])
    ELSE IF x[1] = "drain" THEN Through(i, IF phase[x[2]] = "emit" THEN x[2] ELSE x[2] - 1)
    ELSE IF x[1] = "hand" THEN
           /\ at[x[2]] = "process" => i \notin flagged /\ done[i] = 1 .. x[2][1] - 1
           /\ at[x[2]] = "send" => Through(i, x[2][1])
    ELSE Through(i, S)

Progress == \A x \in Spots : \A i \in Holding(x) : Fits(i, x)

------------------------------------------------------------------------------
(* Goroutines                                                                *)

Types ==
    /\ kind \in Pipelines
    /\ life \in [Goroutines -> {"running", "returned", "joined"}]
    /\ erred \subseteq Goroutines
    /\ phase \in [Stages -> {"start", "drain", "nested", "emit", "work"}]
    /\ stageErr \subseteq Stages
    /\ fed \in 0 .. N
    /\ chan \in [Stages -> Seq(Items)]
    /\ drained \in [Stages -> Seq(Items)]
    /\ sent \in [Stages -> Nat]
    /\ gate \in [Stages -> {"none", "open", "closed"}]
    /\ at \in [Workers -> {"idle", "recv", "process", "send", "exit"}]
    /\ hold \in [Workers -> 0 .. N]
    /\ flagged \subseteq Items
    /\ done \in [Items -> SUBSET Stages]
    /\ collected \subseteq Items

\* Channels and drained items have no repetitions.
Injective(q) == \A m, n \in 1 .. Len(q) : q[m] = q[n] => m = n

\* The context is done for a reason other than the end of the run.
Troubled == canceled \/ reporter = "failed" \/ groupErr

SeqOK(s) == Injective(chan[s]) /\ Injective(drained[s]) /\ sent[s] <= Len(drained[s])

\* Where the goroutine of stage s and its barrier goroutine stand.
StageOK(s) ==
    /\ phase[s] \in {"start", "drain", "nested"} => sent[s] = 0
    /\ phase[s] = "start" \/ kind[s] = "stream" => drained[s] = <<>>
    /\ phase[s] = "drain" => kind[s] # "stream"
    /\ phase[s] \in {"nested", "emit"} => kind[s] = "override"
    /\ phase[s] = "work" => kind[s] # "override"
    /\ gate[s] # "none" <=> kind[s] = "barrier" /\ phase[s] = "work"
    /\ phase[s] \in {"nested", "emit"} \/ gate[s] # "none" => Exhausted(s - 1)
    /\ gate[s] = "closed" => sent[s] = Len(drained[s]) \/ Troubled
    /\ s \in stageErr => phase[s] = "work"
    /\ Closed(s) /\ s \notin erred =>
         /\ s \notin stageErr
         /\ phase[s] = "work" \/ (phase[s] = "emit" /\ sent[s] = Len(drained[s]))

\* Where its workers stand.
WorkerOK(w) ==
    /\ at[w] # "idle" <=> phase[w[1]] = "work"
    /\ at[w] \in {"idle", "recv"} => hold[w] = 0
    /\ at[w] \in {"process", "send"} => hold[w] # 0
    /\ Closed(w[1]) => at[w] \in {"idle", "exit"}
    /\ at[w] = "exit" /\ w[1] \notin stageErr =>
         /\ hold[w] = 0
         /\ IF kind[w[1]] = "barrier" THEN gate[w[1]] = "closed" ELSE Exhausted(w[1] - 1)

\* The errgroup, the feeder and the collector.
GroupOK ==
    /\ \A g \in erred : life[g] # "running"
    /\ \A g \in erred : life[g] = "joined" => groupErr
    /\ Closed(Feeder) /\ Feeder \notin erred => fed = N
    /\ Closed(Collector) => Exhausted(S)
    /\ outcome # "running" => \A g \in Goroutines : life[g] = "joined"
    /\ outcome = "ok" => ~groupErr /\ reporter # "failed"

------------------------------------------------------------------------------
(* Upstream and downstream                                                   *)

\* Nothing is beyond a stage that has not begun to send.
Ahead(s) ==
    phase[s] \in {"start", "drain", "nested"} =>
      \A x \in Spots : Rank(x) >= 2 * s => Holding(x) = {}

\* A barrier goroutine may have seen the context done and dropped its items.
Dropping == Troubled /\ Barriers # {}

\* Nothing is left behind a closed channel, unless a goroutine behind it failed
\* or a barrier goroutine drops items.
Settled(c) ==
    Closed(c) /\ ~Dropping /\ (\A g \in erred : g > c) =>
      \A x \in Spots : Rank(x) < 2 * c => Holding(x) = {}

\* A Barrier stage at work has everything, or a goroutine before it failed.
Waited(s) ==
    gate[s] # "none" => ToSet(drained[s]) = Items \/ \E g \in erred : g < s

Inv ==
    /\ Types
    /\ OneSpot
    /\ Progress
    /\ \A s \in Stages : SeqOK(s) /\ StageOK(s)
    /\ \A w \in Workers : WorkerOK(w)
    /\ GroupOK
    /\ \A s \in Stages : Ahead(s) /\ Waited(s)
    /\ \A c \in 0 .. S : Settled(c)

------------------------------------------------------------------------------
(* Sequences without repetitions                                             *)

\* Appending a new element adds it once.
LEMMA AppendFacts ==
    ASSUME NEW T, NEW q \in Seq(T), NEW e \in T, Injective(q), e \notin ToSet(q)
    PROVE  /\ Append(q, e) \in Seq(T) /\ Injective(Append(q, e))
           /\ ToSet(Append(q, e)) = ToSet(q) \cup {e}
<1>1. /\ Len(Append(q, e)) = Len(q) + 1 /\ Len(q) \in Nat /\ Append(q, e) \in Seq(T)
      /\ DOMAIN q = 1 .. Len(q) /\ DOMAIN Append(q, e) = 1 .. Len(q) + 1
      /\ \A m \in 1 .. Len(q) : Append(q, e)[m] = q[m]
      /\ Append(q, e)[Len(q) + 1] = e
  OBVIOUS
<1>2. \A m \in 1 .. Len(q) + 1 : m \in 1 .. Len(q) \/ m = Len(q) + 1
  BY <1>1
<1>3. \A m \in 1 .. Len(q) : q[m] # e
  BY <1>1 DEF ToSet
<1>4. Injective(Append(q, e))
  BY <1>1, <1>2, <1>3 DEF Injective
<1>5. ToSet(Append(q, e)) = ToSet(q) \cup {e}
  BY <1>1, <1>2 DEF ToSet
<1> QED BY <1>1, <1>4, <1>5

\* Taking the head removes it, and only it.
LEMMA TailFacts ==
    ASSUME NEW T, NEW q \in Seq(T), Injective(q), 1 \in DOMAIN q
    PROVE  /\ Tail(q) \in Seq(T) /\ Injective(Tail(q)) /\ q[1] \in ToSet(q)
           /\ ToSet(Tail(q)) = ToSet(q) \ {q[1]}
<1>1. /\ Len(Tail(q)) = Len(q) - 1 /\ Len(q) \in Nat \ {0} /\ Tail(q) \in Seq(T)
      /\ DOMAIN q = 1 .. Len(q) /\ DOMAIN Tail(q) = 1 .. Len(q) - 1
      /\ \A m \in 1 .. Len(q) - 1 : Tail(q)[m] = q[m + 1]
  OBVIOUS
<1>2. \A m \in 1 .. Len(q) : m = 1 \/ (m - 1 \in 1 .. Len(q) - 1 /\ m = (m - 1) + 1)
  BY <1>1
<1>3. Injective(Tail(q))
  BY <1>1 DEF Injective
<1>4. ToSet(Tail(q)) = ToSet(q) \ {q[1]}
  <2>1. ASSUME NEW m \in 1 .. Len(q) - 1
        PROVE  Tail(q)[m] \in ToSet(q) /\ Tail(q)[m] # q[1]
    BY <1>1 DEF ToSet, Injective
  <2>2. ASSUME NEW m \in 1 .. Len(q), m # 1
        PROVE  q[m] \in ToSet(Tail(q))
    <3>1. m - 1 \in 1 .. Len(q) - 1 /\ Tail(q)[m - 1] = q[(m - 1) + 1] /\ (m - 1) + 1 = m
      BY <1>1, <2>2
    <3> QED BY <1>1, <3>1 DEF ToSet
  <2> QED BY <1>1, <2>1, <2>2 DEF ToSet
<1> QED BY <1>1, <1>3, <1>4 DEF ToSet

------------------------------------------------------------------------------
(* Facts about spots                                                         *)

\* The spots, what they hold, and how far they are.
LEMMA SpotFacts ==
    /\ \A x \in Spots :
         \/ x \in {<<"in", 0>>, <<"out", 0>>}
         \/ \E s \in Stages : x \in {<<"chan", s>>, <<"drain", s>>}
         \/ \E w \in Workers : x = <<"hand", w>>
    /\ <<"in", 0>> \in Spots /\ <<"out", 0>> \in Spots
    /\ \A s \in Stages : <<"chan", s>> \in Spots /\ <<"drain", s>> \in Spots
    /\ \A w \in Workers : <<"hand", w>> \in Spots
<1>1. \A x \in {"in", "out"} \X {0} : x \in {<<"in", 0>>, <<"out", 0>>}
  OBVIOUS
<1>2. \A x \in {"chan", "drain"} \X Stages : \E s \in Stages : x \in {<<"chan", s>>, <<"drain", s>>}
  OBVIOUS
<1>3. \A x \in {"hand"} \X Workers : \E w \in Workers : x = <<"hand", w>>
  OBVIOUS
<1>4. \A x \in Spots :
        \/ x \in {<<"in", 0>>, <<"out", 0>>}
        \/ \E s \in Stages : x \in {<<"chan", s>>, <<"drain", s>>}
        \/ \E w \in Workers : x = <<"hand", w>>
  BY <1>1, <1>2, <1>3, Zenon DEF Spots
<1>5. <<"in", 0>> \in Spots /\ <<"out", 0>> \in Spots
  BY DEF Spots
<1>6. \A s \in Stages : <<"chan", s>> \in Spots /\ <<"drain", s>> \in Spots
  BY DEF Spots
<1>7. \A w \in Workers : <<"hand", w>> \in Spots
  BY DEF Spots
<1> QED BY <1>4, <1>5, <1>6, <1>7

\* What each kind of spot holds.
LEMMA HoldingFacts ==
    /\ Holding(<<"in", 0>>) = fed + 1 .. N
    /\ Holding(<<"out", 0>>) = collected
    /\ \A s \in Stages : /\ Holding(<<"chan", s>>) = ToSet(chan[s])
                         /\ Holding(<<"drain", s>>) = Pending(s)
    /\ \A w \in Workers : Holding(<<"hand", w>>) = {hold[w]} \ {0}
BY DEF Holding

\* The same after a step.
LEMMA HoldingNext ==
    /\ Holding(<<"in", 0>>)' = fed' + 1 .. N
    /\ Holding(<<"out", 0>>)' = collected'
    /\ \A s \in Stages : /\ Holding(<<"chan", s>>)' = ToSet(chan'[s])
                         /\ Holding(<<"drain", s>>)' = Pending(s)'
    /\ \A w \in Workers : Holding(<<"hand", w>>)' = {hold'[w]} \ {0}
BY DEF Holding

\* How far each kind of spot is.
LEMMA RankFacts ==
    /\ Rank(<<"in", 0>>) = 0
    /\ Rank(<<"out", 0>>) = 2 * S + 1
    /\ \A s \in Stages : Rank(<<"chan", s>>) = 2 * s /\ Rank(<<"drain", s>>) = 2 * s - 1
    /\ \A w \in Workers : Rank(<<"hand", w>>) = 2 * w[1] - 1
BY DEF Rank

\* A worker belongs to a stage, and a stage has a worker.
LEMMA WorkerFacts ==
    /\ \A w \in Workers : w[1] \in Stages
    /\ \A s \in Stages : \E w \in Workers : w[1] = s
    /\ \A s \in Stages : s \in Nat \ {0} /\ s \in Goroutines /\ s - 1 \in Goroutines /\ s <= S
<1>1. \A s \in Stages : s \in Nat \ {0} /\ s \in Goroutines /\ s - 1 \in Goroutines /\ s <= S
  BY PipelineAssumption DEF Stages, Goroutines
<1>2. \A w \in Workers : w[1] \in Stages
  BY DEF Workers
<1>3. ASSUME NEW s \in Stages PROVE \E w \in Workers : w[1] = s
  <2>1. 1 \in 1 .. Pool[s]
    BY PipelineAssumption DEF Stages
  <2>2. <<s, 1>> \in Workers
    BY <2>1 DEF Workers
  <2> QED BY <2>2
<1> QED BY <1>1, <1>2, <1>3

------------------------------------------------------------------------------
(* Every step moves at most one item                                         *)

Stays == \A x \in Spots : Holding(x)' = Holding(x)

Moved(i, from, to) ==
    /\ from # to
    /\ i \in Holding(from)
    /\ Holding(from)' = Holding(from) \ {i}
    /\ Holding(to)' = Holding(to) \cup {i}
    /\ \A x \in Spots \ {from, to} : Holding(x)' = Holding(x)

\* One item moves on by a rank or within its stage, and leaves a stage only when
\* that has begun to send.
Flows(i, from, to) ==
    /\ Moved(i, from, to)
    /\ Rank(from) \in Int
    /\ Rank(to) \in {Rank(from), Rank(from) + 1}
    /\ \A s \in Stages : Rank(to) = 2 * s => phase[s] \notin {"start", "drain", "nested"}
    /\ UNCHANGED <<groupVars, phase>>

Flow == Stays \/ \E i \in Items, from, to \in Spots : Flows(i, from, to)

\* An item that moves is in one spot again.
LEMMA OneSpotFlow == ASSUME OneSpot, Flow PROVE OneSpot'
<1>1. CASE Stays
  BY <1>1 DEF Stays, OneSpot
<1>2. ASSUME NEW i \in Items, NEW from \in Spots, NEW to \in Spots, Moved(i, from, to)
      PROVE  OneSpot'
  <2>1. \A y \in Spots : i \in Holding(y)' <=> y = to
    <3>1. \A y \in Spots : i \in Holding(y) <=> y = from
      BY <1>2 DEF OneSpot, Moved
    <3> QED BY <1>2, <3>1 DEF Moved
  <2>2. ASSUME NEW j \in Items, j # i PROVE \A y \in Spots : j \in Holding(y)' <=> j \in Holding(y)
    BY <1>2, <2>2 DEF Moved
  <2> QED BY <2>1, <2>2 DEF OneSpot
<1> QED BY <1>1, <1>2 DEF Flow, Flows

\* Nothing overtakes a stage that has not begun to send.
LEMMA AheadFlow ==
    ASSUME \A s \in Stages : Ahead(s), Flow,
           \A s \in Stages : phase'[s] \in {"start", "drain", "nested"} =>
                               phase[s] \in {"start", "drain", "nested"}
    PROVE  \A s \in Stages : Ahead(s)'
<1> SUFFICES ASSUME NEW s \in Stages, phase[s] \in {"start", "drain", "nested"},
                    NEW x \in Spots, Rank(x) >= 2 * s
             PROVE  Holding(x)' = {}
  BY DEF Ahead, Rank
<1>0. \A y \in Spots : Rank(y) >= 2 * s => Holding(y) = {}
  BY DEF Ahead
<1>1. CASE Stays
  BY <1>0, <1>1 DEF Stays
<1>2. ASSUME NEW i \in Items, NEW from \in Spots, NEW to \in Spots, Flows(i, from, to)
      PROVE  Holding(x)' = {}
  <2>1. Rank(from) < 2 * s /\ s \in Int
    BY <1>0, <1>2, WorkerFacts DEF Flows, Moved
  <2>2. x # to /\ x # from
    BY <1>2, <2>1 DEF Flows
  <2> QED BY <1>0, <1>2, <2>2 DEF Flows, Moved
<1> QED BY <1>1, <1>2 DEF Flow

\* Nothing comes back behind a closed channel.
LEMMA SettledFlow ==
    ASSUME NEW c \in 0 .. S, Settled(c), Flow, Closed(c)' => Closed(c), erred \subseteq erred',
           Dropping => Dropping'
    PROVE  Settled(c)'
<1> SUFFICES ASSUME Closed(c), ~Dropping, \A g \in erred : g > c,
                    NEW x \in Spots, Rank(x) < 2 * c
             PROVE  Holding(x)' = {}
  BY DEF Settled, Rank
<1>0. \A y \in Spots : Rank(y) < 2 * c => Holding(y) = {}
  BY DEF Settled
<1>1. CASE Stays
  BY <1>0, <1>1 DEF Stays
<1>2. ASSUME NEW i \in Items, NEW from \in Spots, NEW to \in Spots, Flows(i, from, to)
      PROVE  Holding(x)' = {}
  <2>1. Rank(from) >= 2 * c /\ c \in Int
    BY <1>0, <1>2 DEF Flows, Moved
  <2>2. x # to /\ x # from
    BY <1>2, <2>1 DEF Flows
  <2> QED BY <1>0, <1>2, <2>2 DEF Flows, Moved
<1> QED BY <1>1, <1>2 DEF Flow

\* A step that leaves the channels and the workers alone moves nothing.
LEMMA StaysUnchanged ==
    ASSUME UNCHANGED <<fed, chan, drained, sent, hold, collected>>
    PROVE  Stays
BY DEF Stays, Holding, Pending

\* What is pending at first.
LEMMA PendingAll ==
    /\ \A s : sent[s] = 0 /\ drained[s] \in Seq(Items) => Pending(s) = ToSet(drained[s])
    /\ \A s : sent'[s] = 0 /\ drained'[s] \in Seq(Items) => Pending(s)' = ToSet(drained'[s])
<1>1. 0 + 1 = 1 /\ \A q \in Seq(Items) : DOMAIN q = 1 .. Len(q)
  OBVIOUS
<1>2. ASSUME NEW s, sent[s] = 0, drained[s] \in Seq(Items) PROVE Pending(s) = ToSet(drained[s])
  <2>1. DOMAIN drained[s] = sent[s] + 1 .. Len(drained[s])
    BY <1>1, <1>2
  <2> QED BY <2>1, Zenon DEF Pending, ToSet
<1>3. ASSUME NEW s, sent'[s] = 0, drained'[s] \in Seq(Items)
      PROVE  Pending(s)' = ToSet(drained'[s])
  <2>1. DOMAIN drained'[s] = sent'[s] + 1 .. Len(drained'[s])
    BY <1>1, <1>3
  <2> QED BY <2>1, Zenon DEF Pending, ToSet
<1> QED BY <1>2, <1>3, Zenon

\* What is pending when one more has been passed on.
LEMMA PendingFacts ==
    ASSUME NEW q \in Seq(Items), NEW n \in Nat, Injective(q)
    PROVE  /\ n < Len(q) =>
                /\ q[n + 1] \in Items
                /\ q[n + 1] \in {q[p] : p \in n + 1 .. Len(q)}
                /\ {q[p] : p \in (n + 1) + 1 .. Len(q)} =
                     {q[p] : p \in n + 1 .. Len(q)} \ {q[n + 1]}
<1>1. DOMAIN q = 1 .. Len(q) /\ Len(q) \in Nat /\ \A p \in 1 .. Len(q) : q[p] \in Items
  OBVIOUS
<1>3. ASSUME n < Len(q)
      PROVE  {q[p] : p \in (n + 1) + 1 .. Len(q)} = {q[p] : p \in n + 1 .. Len(q)} \ {q[n + 1]}
  <2>1. \A p \in n + 1 .. Len(q) : p = n + 1 \/ p \in (n + 1) + 1 .. Len(q)
    BY <1>1
  <2>2. \A p \in (n + 1) + 1 .. Len(q) : p \in n + 1 .. Len(q) /\ q[p] # q[n + 1]
    BY <1>1, <1>3 DEF Injective
  <2> QED BY <2>1, <2>2
<1>4. n < Len(q) => n + 1 \in 1 .. Len(q) /\ n + 1 \in n + 1 .. Len(q)
  BY <1>1
<1> QED BY <1>1, <1>3, <1>4

------------------------------------------------------------------------------
(* Receiving                                                                 *)

Source(c) == IF c = 0 THEN <<"in", 0>> ELSE <<"chan", c>>

\* A receive on channel c takes the item out of its spot and leaves the others.
LEMMA ReceiveFacts ==
    ASSUME Inv, NEW c \in 0 .. S, NEW i \in Items, Receive(c, i)
    PROVE  /\ Source(c) \in Spots /\ Rank(Source(c)) = 2 * c
           /\ i \in Holding(Source(c))
           /\ Holding(Source(c))' = Holding(Source(c)) \ {i}
           /\ Source(c) # <<"in", 0>> => Holding(<<"in", 0>>)' = Holding(<<"in", 0>>)
           /\ \A s \in Stages : Source(c) # <<"chan", s>> =>
                Holding(<<"chan", s>>)' = Holding(<<"chan", s>>)
           /\ fed' \in 0 .. N /\ chan' \in [Stages -> Seq(Items)]
           /\ \A s \in Stages : Injective(chan'[s])
           /\ \A s \in 0 .. S : Exhausted(s) => s # c
           /\ \A s \in Stages : chan[s] = <<>> => chan'[s] = <<>>
           /\ Closed(Feeder) => fed' = fed
<1>0. /\ fed \in 0 .. N /\ chan \in [Stages -> Seq(Items)] /\ N \in Nat /\ S \in Nat \ {0}
      /\ \A s \in Stages : Injective(chan[s])
  BY PipelineAssumption DEF Inv, Types, SeqOK, StageOK
<1>1. CASE c = 0
  <2>1. ~Closed(Feeder) /\ i = fed + 1 /\ fed' = fed + 1 /\ chan' = chan
    BY <1>1 DEF Receive, Offered, Feeder
  <2>2. fed + 1 <= N
    BY <1>0, <2>1 DEF Items
  <2>3. fed' + 1 .. N = (fed + 1 .. N) \ {i} /\ i \in fed + 1 .. N
    BY <1>0, <2>1, <2>2
  <2>4. Source(c) = <<"in", 0>> /\ \A s \in Stages : Source(c) # <<"chan", s>>
    BY <1>1 DEF Source
  <2>5. \A s \in Stages : Holding(<<"chan", s>>)' = Holding(<<"chan", s>>)
    BY <2>1, HoldingFacts, HoldingNext
  <2>6. \A s \in 0 .. S : Exhausted(s) => s # c
    BY <1>1, <2>1 DEF Exhausted, Feeder
  <2>7. i \in Holding(Source(c)) /\ Holding(Source(c))' = Holding(Source(c)) \ {i}
    BY <2>3, <2>4, HoldingFacts, HoldingNext
  <2>8. Source(c) \in Spots /\ Rank(Source(c)) = 2 * c
    BY <1>1, <2>4, SpotFacts, RankFacts
  <2>9. fed' \in 0 .. N
    BY <1>0, <2>1, <2>2
  <2> QED BY <1>0, <2>1, <2>4, <2>5, <2>6, <2>7, <2>8, <2>9
<1>2. CASE c # 0
  <2>1. /\ c \in Stages /\ 1 \in DOMAIN chan[c] /\ i = chan[c][1]
        /\ chan' = [chan EXCEPT ![c] = Tail(chan[c])] /\ fed' = fed
    BY <1>0, <1>2 DEF Receive, Offered, Feeder, Stages
  <2>2. /\ Tail(chan[c]) \in Seq(Items) /\ Injective(Tail(chan[c])) /\ i \in ToSet(chan[c])
        /\ ToSet(Tail(chan[c])) = ToSet(chan[c]) \ {i}
    BY <1>0, <2>1, TailFacts
  <2>3. chan'[c] = Tail(chan[c]) /\ \A s \in Stages \ {c} : chan'[s] = chan[s]
    BY <1>0, <2>1
  <2>4. /\ Source(c) = <<"chan", c>> /\ Source(c) # <<"in", 0>>
        /\ \A s \in Stages : Source(c) # <<"chan", s>> => s # c
    BY <1>2 DEF Source
  <2>5. chan[c] # <<>>
    BY <2>1
  <2>6. \A s \in 0 .. S : Exhausted(s) => s # c
    BY <1>2, <2>5 DEF Exhausted, Feeder
  <2>7. chan' \in [Stages -> Seq(Items)] /\ \A s \in Stages : Injective(chan'[s])
    BY <1>0, <2>1, <2>2, <2>3
  <2>8. i \in Holding(Source(c)) /\ Holding(Source(c))' = Holding(Source(c)) \ {i}
    BY <2>1, <2>2, <2>3, <2>4, HoldingFacts, HoldingNext
  <2>9. /\ Holding(<<"in", 0>>)' = Holding(<<"in", 0>>)
        /\ \A s \in Stages \ {c} : Holding(<<"chan", s>>)' = Holding(<<"chan", s>>)
    BY <2>1, <2>3, HoldingFacts, HoldingNext
  <2>10. Source(c) \in Spots /\ Rank(Source(c)) = 2 * c
    BY <2>1, <2>4, SpotFacts, RankFacts
  <2> QED BY <1>0, <2>1, <2>3, <2>4, <2>5, <2>6, <2>7, <2>8, <2>9, <2>10
<1> QED BY <1>1, <1>2

------------------------------------------------------------------------------
(* The steps that move an item                                               *)

\* A move is known by what happens to each kind of spot.
LEMMA StaysElsewhere ==
    ASSUME NEW from \in Spots, NEW to \in Spots,
           <<"in", 0>> \in {from, to} \/ Holding(<<"in", 0>>)' = Holding(<<"in", 0>>),
           <<"out", 0>> \in {from, to} \/ Holding(<<"out", 0>>)' = Holding(<<"out", 0>>),
           \A s \in Stages :
             \/ <<"chan", s>> \in {from, to}
             \/ Holding(<<"chan", s>>)' = Holding(<<"chan", s>>),
           \A s \in Stages :
             \/ <<"drain", s>> \in {from, to}
             \/ Holding(<<"drain", s>>)' = Holding(<<"drain", s>>),
           \A w \in Workers :
             \/ <<"hand", w>> \in {from, to}
             \/ Holding(<<"hand", w>>)' = Holding(<<"hand", w>>)
    PROVE  \A x \in Spots \ {from, to} : Holding(x)' = Holding(x)
<1> TAKE x \in Spots \ {from, to}
<1>1. CASE x = <<"in", 0>> \/ x = <<"out", 0>>
  BY <1>1
<1>2. ASSUME NEW s \in Stages, x \in {<<"chan", s>>, <<"drain", s>>}
      PROVE  Holding(x)' = Holding(x)
  BY <1>2
<1>3. ASSUME NEW w \in Workers, x = <<"hand", w>>
      PROVE  Holding(x)' = Holding(x)
  BY <1>3
<1> QED BY <1>1, <1>2, <1>3, SpotFacts

\* A spot whose variable does not change.
LEMMA SameSpot ==
    /\ fed' = fed => Holding(<<"in", 0>>)' = Holding(<<"in", 0>>)
    /\ collected' = collected => Holding(<<"out", 0>>)' = Holding(<<"out", 0>>)
    /\ \A s \in Stages : chan'[s] = chan[s] => Holding(<<"chan", s>>)' = Holding(<<"chan", s>>)
    /\ \A s \in Stages : drained'[s] = drained[s] /\ sent'[s] = sent[s] =>
         Holding(<<"drain", s>>)' = Holding(<<"drain", s>>)
    /\ \A w \in Workers : hold'[w] = hold[w] => Holding(<<"hand", w>>)' = Holding(<<"hand", w>>)
<1>1. \A s \in Stages : drained'[s] = drained[s] /\ sent'[s] = sent[s] => Pending(s)' = Pending(s)
  BY DEF Pending
<1> QED BY <1>1, HoldingFacts, HoldingNext

\* The collector takes an item out of the last channel.
LEMMA CollectFlows ==
    ASSUME Inv, NEW i \in Items, Receive(S, i), collected' = collected \cup {i},
           UNCHANGED <<groupVars, stageVars, workerVars>>
    PROVE  Flows(i, <<"chan", S>>, <<"out", 0>>)
<1>1. S \in 0 .. S /\ S \in Stages /\ Source(S) = <<"chan", S>> /\ S \in Nat
  BY PipelineAssumption DEF Stages, Source
<1>2. \A x \in Spots \ {<<"chan", S>>, <<"out", 0>>} : Holding(x)' = Holding(x)
  <2>1. /\ \A s \in Stages : Holding(<<"drain", s>>)' = Holding(<<"drain", s>>)
        /\ \A w \in Workers : Holding(<<"hand", w>>)' = Holding(<<"hand", w>>)
    BY SameSpot DEF stageVars, workerVars
  <2>2. /\ Holding(<<"in", 0>>)' = Holding(<<"in", 0>>)
        /\ \A s \in Stages : <<"chan", S>> # <<"chan", s>> =>
             Holding(<<"chan", s>>)' = Holding(<<"chan", s>>)
    BY <1>1, ReceiveFacts
  <2>3. <<"chan", S>> \in Spots /\ <<"out", 0>> \in Spots
    BY <1>1, SpotFacts
  <2> QED BY <2>1, <2>2, <2>3, StaysElsewhere
<1>3. Holding(<<"out", 0>>)' = Holding(<<"out", 0>>) \cup {i}
  BY HoldingFacts, HoldingNext
<1>4. Moved(i, <<"chan", S>>, <<"out", 0>>)
  BY <1>1, <1>2, <1>3, ReceiveFacts DEF Moved
<1>5. Rank(<<"chan", S>>) = 2 * S /\ Rank(<<"out", 0>>) = 2 * S + 1
  BY <1>1, RankFacts
<1>6. \A s \in Stages : 2 * S + 1 # 2 * s
  BY <1>1, WorkerFacts
<1> QED BY <1>1, <1>4, <1>5, <1>6 DEF Flows, stageVars

\* A barrier or override stage takes an item out of the channel before it.
LEMMA DrainFlows ==
    ASSUME Inv, NEW s \in Stages, NEW i \in Items, Receive(s - 1, i), phase[s] = "drain",
           drained' = [drained EXCEPT ![s] = Append(@, i)],
           UNCHANGED <<groupVars, phase, stageErr, sent, gate, workerVars, collected>>
    PROVE  /\ Flows(i, Source(s - 1), <<"drain", s>>)
           /\ Injective(drained'[s]) /\ drained' \in [Stages -> Seq(Items)]
<1>0. /\ drained \in [Stages -> Seq(Items)] /\ sent[s] = 0 /\ sent' = sent
      /\ Injective(drained[s]) /\ drained[s] \in Seq(Items)
      /\ s - 1 \in 0 .. S /\ s \in Nat \ {0}
  <2>1. drained \in [Stages -> Seq(Items)] /\ sent[s] = 0 /\ Injective(drained[s])
    BY DEF Inv, Types, SeqOK, StageOK
  <2>2. s - 1 \in 0 .. S /\ s \in Nat \ {0}
    BY PipelineAssumption DEF Stages
  <2> QED BY <2>1, <2>2
<1>1. Pending(s) = ToSet(drained[s])
  BY <1>0, PendingAll
<1>2. i \notin ToSet(drained[s])
  <2>1. i \in Holding(Source(s - 1)) /\ Source(s - 1) \in Spots /\ Source(s - 1) # <<"drain", s>>
    BY <1>0, ReceiveFacts DEF Source
  <2>2. i \notin Holding(<<"drain", s>>)
    BY <2>1, SpotFacts DEF Inv, OneSpot
  <2> QED BY <1>1, <2>2, HoldingFacts
<1>3. drained'[s] = Append(drained[s], i) /\ \A t \in Stages \ {s} : drained'[t] = drained[t]
  BY <1>0
<1>4. /\ drained'[s] \in Seq(Items) /\ Injective(drained'[s])
      /\ ToSet(drained'[s]) = ToSet(drained[s]) \cup {i}
  BY <1>0, <1>2, <1>3, AppendFacts
<1>5. Pending(s)' = ToSet(drained'[s])
  BY <1>0, <1>4, PendingAll
<1>6. \A x \in Spots \ {Source(s - 1), <<"drain", s>>} : Holding(x)' = Holding(x)
  <2>1. /\ \A t \in Stages \ {s} : Holding(<<"drain", t>>)' = Holding(<<"drain", t>>)
        /\ \A w \in Workers : Holding(<<"hand", w>>)' = Holding(<<"hand", w>>)
        /\ Holding(<<"out", 0>>)' = Holding(<<"out", 0>>)
    BY <1>0, <1>3, SameSpot DEF workerVars
  <2>2. Source(s - 1) \in Spots /\ <<"drain", s>> \in Spots
    BY <1>0, ReceiveFacts, SpotFacts
  <2>3. /\ Source(s - 1) # <<"in", 0>> => Holding(<<"in", 0>>)' = Holding(<<"in", 0>>)
        /\ \A t \in Stages : Source(s - 1) # <<"chan", t>> =>
             Holding(<<"chan", t>>)' = Holding(<<"chan", t>>)
    BY <1>0, ReceiveFacts
  <2> QED BY <2>1, <2>2, <2>3, StaysElsewhere
<1>7. Holding(<<"drain", s>>)' = Holding(<<"drain", s>>) \cup {i}
  BY <1>1, <1>4, <1>5, HoldingFacts, HoldingNext
<1>8. Source(s - 1) # <<"drain", s>>
  BY DEF Source
<1>9. Moved(i, Source(s - 1), <<"drain", s>>)
  BY <1>0, <1>6, <1>7, <1>8, ReceiveFacts DEF Moved
<1>10. Rank(Source(s - 1)) = 2 * (s - 1) /\ Rank(<<"drain", s>>) = 2 * s - 1
  BY <1>0, RankFacts, ReceiveFacts
<1>11. \A t \in Stages : 2 * s - 1 # 2 * t
  BY WorkerFacts
<1>12. drained' \in [Stages -> Seq(Items)]
  BY <1>0, <1>3, <1>4
<1>13. /\ Rank(Source(s - 1)) \in Int /\ Rank(<<"drain", s>>) = Rank(Source(s - 1)) + 1
       /\ \A t \in Stages : Rank(<<"drain", s>>) # 2 * t
  <2>1. 2 * (s - 1) \in Int /\ 2 * s - 1 = 2 * (s - 1) + 1
    BY <1>0
  <2> QED BY <1>10, <1>11, <2>1, Zenon
<1>14. UNCHANGED <<groupVars, phase>>
  OBVIOUS
<1> QED BY <1>4, <1>9, <1>12, <1>13, <1>14 DEF Flows

\* The next drained item is passed on.
LEMMA PassFacts ==
    ASSUME Inv, NEW s \in Stages, sent[s] < Len(drained[s]),
           sent' = [sent EXCEPT ![s] = @ + 1], drained' = drained,
           NEW i, i = drained[s][sent[s] + 1]
    PROVE  /\ i \in Items
           /\ i \in Holding(<<"drain", s>>)
           /\ Holding(<<"drain", s>>)' = Holding(<<"drain", s>>) \ {i}
           /\ \A t \in Stages : t # s => Holding(<<"drain", t>>)' = Holding(<<"drain", t>>)
           /\ sent' \in [Stages -> Nat] /\ sent'[s] = sent[s] + 1 /\ sent'[s] <= Len(drained'[s])
<1>1. drained[s] \in Seq(Items) /\ Injective(drained[s]) /\ sent \in [Stages -> Nat] /\ sent[s] \in Nat
  BY DEF Inv, Types, SeqOK, StageOK
<1>2. sent' \in [Stages -> Nat] /\ sent'[s] = sent[s] + 1 /\ sent'[s] <= Len(drained'[s])
  BY <1>1
<1>3. i \in Items /\ i \in Pending(s) /\ Pending(s)' = Pending(s) \ {i}
  <2>1. Pending(s)' = {drained[s][p] : p \in (sent[s] + 1) + 1 .. Len(drained[s])}
    BY <1>2 DEF Pending
  <2> QED BY <1>1, <2>1, PendingFacts DEF Pending
<1>4. \A t \in Stages : t # s => sent'[t] = sent[t]
  BY <1>1
<1> QED BY <1>2, <1>3, <1>4, SameSpot, HoldingFacts, HoldingNext

\* An item is sent to the channel of stage s.
LEMMA SendFacts ==
    ASSUME Inv, NEW s \in Stages, NEW i \in Items, i \notin Holding(<<"chan", s>>),
           chan' = [chan EXCEPT ![s] = Append(@, i)]
    PROVE  /\ Holding(<<"chan", s>>)' = Holding(<<"chan", s>>) \cup {i}
           /\ \A t \in Stages : t # s => /\ chan'[t] = chan[t]
                                       /\ Holding(<<"chan", t>>)' = Holding(<<"chan", t>>)
           /\ chan' \in [Stages -> Seq(Items)]
           /\ \A t \in Stages : Injective(chan'[t])
<1>1. chan \in [Stages -> Seq(Items)] /\ \A t \in Stages : Injective(chan[t])
  BY DEF Inv, Types, SeqOK, StageOK
<1>2. chan'[s] = Append(chan[s], i) /\ \A t \in Stages : t # s => chan'[t] = chan[t]
  BY <1>1
<1>3. i \notin ToSet(chan[s])
  BY HoldingFacts
<1>4. /\ chan'[s] \in Seq(Items) /\ Injective(chan'[s])
      /\ ToSet(chan'[s]) = ToSet(chan[s]) \cup {i}
  BY <1>1, <1>2, <1>3, AppendFacts
<1>5. chan' \in [Stages -> Seq(Items)] /\ \A t \in Stages : Injective(chan'[t])
  BY <1>1, <1>2, <1>4
<1> QED BY <1>2, <1>4, <1>5, SameSpot, HoldingFacts, HoldingNext

\* A worker takes an item, or gives it away.
LEMMA HandFacts ==
    ASSUME Inv, NEW w \in Workers, NEW n \in 0 .. N, hold' = [hold EXCEPT ![w] = n]
    PROVE  /\ hold' \in [Workers -> 0 .. N] /\ hold'[w] = n
           /\ hold[w] = 0 /\ n # 0 =>
                Holding(<<"hand", w>>)' = Holding(<<"hand", w>>) \cup {n} /\ Holding(<<"hand", w>>) = {}
           /\ hold[w] # 0 /\ n = 0 =>
                /\ Holding(<<"hand", w>>)' = Holding(<<"hand", w>>) \ {hold[w]}
                /\ Holding(<<"hand", w>>)' = {}
                /\ hold[w] \in Items
                /\ hold[w] \in Holding(<<"hand", w>>)
           /\ \A v \in Workers : v # w => /\ hold'[v] = hold[v]
                                        /\ Holding(<<"hand", v>>)' = Holding(<<"hand", v>>)
<1>1. hold \in [Workers -> 0 .. N] /\ N \in Nat
  BY PipelineAssumption DEF Inv, Types
<1>2. hold' \in [Workers -> 0 .. N] /\ hold'[w] = n /\ \A v \in Workers : v # w => hold'[v] = hold[v]
  BY <1>1
<1>3. hold[w] # 0 => hold[w] \in Items
  BY <1>1 DEF Items
<1>4. Holding(<<"hand", w>>) = {hold[w]} \ {0} /\ Holding(<<"hand", w>>)' = {n} \ {0}
  BY <1>2, HoldingFacts, HoldingNext
<1>5. \A v \in Workers : v # w => Holding(<<"hand", v>>)' = Holding(<<"hand", v>>)
  BY <1>2, SameSpot
<1> QED BY <1>2, <1>3, <1>4, <1>5

\* An override stage emits its next item to its channel.
LEMMA EmitFlows ==
    ASSUME Inv, NEW s \in Stages, phase[s] = "emit", sent[s] < Len(drained[s]),
           NEW i, i = drained[s][sent[s] + 1],
           chan' = [chan EXCEPT ![s] = Append(@, i)], sent' = [sent EXCEPT ![s] = @ + 1],
           UNCHANGED <<groupVars, phase, drained, fed, hold, collected>>
    PROVE  Flows(i, <<"drain", s>>, <<"chan", s>>) /\ i \in Items
<1>1. <<"drain", s>> \in Spots /\ <<"chan", s>> \in Spots /\ <<"drain", s>> # <<"chan", s>>
  BY SpotFacts
<1>2. i \in Items /\ i \in Holding(<<"drain", s>>)
  BY PassFacts
<1>3. i \notin Holding(<<"chan", s>>)
  BY <1>1, <1>2 DEF Inv, OneSpot
<1>4. \A x \in Spots \ {<<"drain", s>>, <<"chan", s>>} : Holding(x)' = Holding(x)
  <2>1. /\ Holding(<<"in", 0>>)' = Holding(<<"in", 0>>) /\ Holding(<<"out", 0>>)' = Holding(<<"out", 0>>)
        /\ \A w \in Workers : Holding(<<"hand", w>>)' = Holding(<<"hand", w>>)
    BY SameSpot
  <2>2. \A t \in Stages : t # s => Holding(<<"drain", t>>)' = Holding(<<"drain", t>>)
    BY PassFacts
  <2>3. \A t \in Stages : t # s => Holding(<<"chan", t>>)' = Holding(<<"chan", t>>)
    BY <1>2, <1>3, SendFacts
  <2> QED BY <1>1, <2>1, <2>2, <2>3, StaysElsewhere
<1>5. Moved(i, <<"drain", s>>, <<"chan", s>>)
  <2>1. Holding(<<"drain", s>>)' = Holding(<<"drain", s>>) \ {i}
    BY PassFacts
  <2>2. Holding(<<"chan", s>>)' = Holding(<<"chan", s>>) \cup {i}
    BY <1>2, <1>3, SendFacts
  <2> QED BY <1>1, <1>2, <1>4, <2>1, <2>2 DEF Moved
<1>6. Rank(<<"drain", s>>) = 2 * s - 1 /\ Rank(<<"chan", s>>) = 2 * s /\ s \in Nat
  BY RankFacts, WorkerFacts
<1>7. \A t \in Stages : 2 * s = 2 * t => t = s
  BY WorkerFacts
<1> QED BY <1>2, <1>5, <1>6, <1>7 DEF Flows

\* A worker sends its item to the channel of its stage.
LEMMA SendFlows ==
    ASSUME Inv, NEW w \in Workers, NEW s \in Stages, s = w[1], at[w] = "send",
           chan' = [chan EXCEPT ![s] = Append(@, hold[w])], hold' = [hold EXCEPT ![w] = 0],
           UNCHANGED <<groupVars, phase, drained, sent, fed, collected>>
    PROVE  Flows(hold[w], <<"hand", w>>, <<"chan", s>>) /\ hold[w] \in Items
<1>0. hold[w] # 0 /\ phase[s] = "work" /\ 0 \in 0 .. N
  BY PipelineAssumption DEF Inv, WorkerOK
<1>1. <<"hand", w>> \in Spots /\ <<"chan", s>> \in Spots /\ <<"hand", w>> # <<"chan", s>>
  BY SpotFacts
<1>2. /\ hold[w] \in Items /\ hold[w] \in Holding(<<"hand", w>>)
      /\ Holding(<<"hand", w>>)' = Holding(<<"hand", w>>) \ {hold[w]}
      /\ \A v \in Workers : v # w => Holding(<<"hand", v>>)' = Holding(<<"hand", v>>)
  BY <1>0, HandFacts
<1>3. hold[w] \notin Holding(<<"chan", s>>)
  BY <1>1, <1>2 DEF Inv, OneSpot
<1>4. /\ Holding(<<"chan", s>>)' = Holding(<<"chan", s>>) \cup {hold[w]}
      /\ \A t \in Stages : t # s => Holding(<<"chan", t>>)' = Holding(<<"chan", t>>)
  BY <1>2, <1>3, SendFacts
<1>5. \A x \in Spots \ {<<"hand", w>>, <<"chan", s>>} : Holding(x)' = Holding(x)
  <2>1. /\ Holding(<<"in", 0>>)' = Holding(<<"in", 0>>) /\ Holding(<<"out", 0>>)' = Holding(<<"out", 0>>)
        /\ \A t \in Stages : Holding(<<"drain", t>>)' = Holding(<<"drain", t>>)
    BY SameSpot
  <2> QED BY <1>1, <1>2, <1>4, <2>1, StaysElsewhere
<1>6. Moved(hold[w], <<"hand", w>>, <<"chan", s>>)
  BY <1>1, <1>2, <1>4, <1>5 DEF Moved
<1>7. Rank(<<"hand", w>>) = 2 * s - 1 /\ Rank(<<"chan", s>>) = 2 * s /\ s \in Nat
  BY RankFacts, WorkerFacts
<1>8. \A t \in Stages : 2 * s = 2 * t => t = s
  BY WorkerFacts
<1> QED BY <1>0, <1>2, <1>6, <1>7, <1>8 DEF Flows

\* A worker receives an item, from the channel before its stage or from the
\* barrier goroutine.
LEMMA ReceiveFlows ==
    ASSUME Inv, NEW w \in Workers, NEW s \in Stages, s = w[1], at[w] = "recv", NEW i \in Items,
           hold' = [hold EXCEPT ![w] = i],
           UNCHANGED <<groupVars, phase, drained, collected>>,
           \/ Receive(s - 1, i) /\ UNCHANGED sent
           \/ /\ sent[s] < Len(drained[s]) /\ i = drained[s][sent[s] + 1]
              /\ sent' = [sent EXCEPT ![s] = @ + 1] /\ UNCHANGED <<fed, chan>>
    PROVE  \E from \in Spots \ {<<"hand", w>>} : Flows(i, from, <<"hand", w>>)
<1>0. /\ hold[w] = 0 /\ i \in 0 .. N /\ i # 0 /\ s - 1 \in 0 .. S /\ s \in Nat \ {0}
  <2>1. hold[w] = 0
    BY DEF Inv, WorkerOK
  <2> QED BY <2>1, PipelineAssumption DEF Items, Stages
<1>1. /\ Holding(<<"hand", w>>)' = Holding(<<"hand", w>>) \cup {i}
      /\ \A v \in Workers : v # w => Holding(<<"hand", v>>)' = Holding(<<"hand", v>>)
  BY <1>0, HandFacts
<1>2. /\ <<"hand", w>> \in Spots /\ Rank(<<"hand", w>>) = 2 * s - 1
      /\ \A t \in Stages : 2 * s - 1 # 2 * t
      /\ Holding(<<"out", 0>>)' = Holding(<<"out", 0>>)
      /\ 2 * (s - 1) \in Int /\ 2 * s - 1 \in Int /\ 2 * s - 1 = 2 * (s - 1) + 1
  <2>1. \A t \in Stages : 2 * s - 1 # 2 * t
    BY WorkerFacts
  <2>2. 2 * (s - 1) \in Int /\ 2 * s - 1 \in Int /\ 2 * s - 1 = 2 * (s - 1) + 1
    BY <1>0
  <2>3. <<"hand", w>> \in Spots /\ Rank(<<"hand", w>>) = 2 * s - 1
    BY SpotFacts, RankFacts
  <2>4. Holding(<<"out", 0>>)' = Holding(<<"out", 0>>)
    BY SameSpot
  <2> QED BY <2>1, <2>2, <2>3, <2>4
<1>3. ASSUME Receive(s - 1, i), sent' = sent
      PROVE  Flows(i, Source(s - 1), <<"hand", w>>) /\ Source(s - 1) \in Spots \ {<<"hand", w>>}
  <2>1. Source(s - 1) \in Spots /\ Source(s - 1) # <<"hand", w>>
    BY <1>0, <1>3, ReceiveFacts DEF Source
  <2>2. \A t \in Stages : Holding(<<"drain", t>>)' = Holding(<<"drain", t>>)
    BY <1>3, SameSpot
  <2>3. \A x \in Spots \ {Source(s - 1), <<"hand", w>>} : Holding(x)' = Holding(x)
    <3>1. /\ Source(s - 1) # <<"in", 0>> => Holding(<<"in", 0>>)' = Holding(<<"in", 0>>)
          /\ \A t \in Stages : Source(s - 1) # <<"chan", t>> =>
               Holding(<<"chan", t>>)' = Holding(<<"chan", t>>)
      BY <1>0, <1>3, ReceiveFacts
    <3> QED BY <1>1, <1>2, <2>1, <2>2, <3>1, StaysElsewhere
  <2>4. Moved(i, Source(s - 1), <<"hand", w>>)
    BY <1>0, <1>1, <1>3, <2>1, <2>3, ReceiveFacts DEF Moved
  <2>5. Rank(Source(s - 1)) = 2 * (s - 1)
    BY <1>0, <1>3, ReceiveFacts
  <2> QED BY <1>2, <2>1, <2>4, <2>5 DEF Flows
<1>4. ASSUME sent[s] < Len(drained[s]), i = drained[s][sent[s] + 1],
             sent' = [sent EXCEPT ![s] = @ + 1], UNCHANGED <<fed, chan>>
      PROVE  Flows(i, <<"drain", s>>, <<"hand", w>>) /\ <<"drain", s>> \in Spots \ {<<"hand", w>>}
  <2>1. <<"drain", s>> \in Spots /\ <<"drain", s>> # <<"hand", w>>
    BY SpotFacts
  <2>2. /\ i \in Holding(<<"drain", s>>)
        /\ Holding(<<"drain", s>>)' = Holding(<<"drain", s>>) \ {i}
        /\ \A t \in Stages : t # s => Holding(<<"drain", t>>)' = Holding(<<"drain", t>>)
    BY <1>4, PassFacts
  <2>3. \A x \in Spots \ {<<"drain", s>>, <<"hand", w>>} : Holding(x)' = Holding(x)
    <3>1. /\ Holding(<<"in", 0>>)' = Holding(<<"in", 0>>)
          /\ \A t \in Stages : Holding(<<"chan", t>>)' = Holding(<<"chan", t>>)
      BY <1>4, SameSpot
    <3> QED BY <1>1, <1>2, <2>1, <2>2, <3>1, StaysElsewhere
  <2>4. Moved(i, <<"drain", s>>, <<"hand", w>>)
    BY <1>1, <2>1, <2>2, <2>3 DEF Moved
  <2>5. Rank(<<"drain", s>>) = 2 * s - 1
    BY RankFacts
  <2> QED BY <1>2, <2>1, <2>4, <2>5 DEF Flows
<1> QED BY <1>3, <1>4

\* A sequence in another order has the same elements.
LEMMA PermuteFacts ==
    ASSUME NEW T, NEW q \in Seq(T), Injective(q), NEW r \in Seq(T), Len(r) = Len(q),
           NEW order \in Bijection(1 .. Len(q), 1 .. Len(q)),
           \A p \in 1 .. Len(q) : r[p] = q[order[p]]
    PROVE  Injective(r) /\ ToSet(r) = ToSet(q)
<1>1. /\ DOMAIN q = 1 .. Len(q) /\ Len(q) \in Nat /\ DOMAIN r = 1 .. Len(q)
      /\ \A p \in 1 .. Len(q) : r[p] = q[order[p]]
  OBVIOUS
<1>2. /\ \A p \in 1 .. Len(q) : order[p] \in 1 .. Len(q)
      /\ \A a, b \in 1 .. Len(q) : order[a] = order[b] => a = b
      /\ \A p \in 1 .. Len(q) : \E a \in 1 .. Len(q) : order[a] = p
  BY DEF Bijection, Injection, Surjection, IsInjective
<1>5. Injective(r)
  <2> SUFFICES ASSUME NEW m \in 1 .. Len(q), NEW n \in 1 .. Len(q), r[m] = r[n] PROVE m = n
    BY DEF Injective
  <2>1. q[order[m]] = q[order[n]] /\ order[m] \in 1 .. Len(q) /\ order[n] \in 1 .. Len(q)
    BY <1>1, <1>2
  <2>2. order[m] = order[n]
    BY <2>1 DEF Injective
  <2> QED BY <1>2, <2>2
<1>6. ToSet(r) = ToSet(q)
  <2>1. ASSUME NEW p \in 1 .. Len(q) PROVE r[p] \in ToSet(q)
    <3>1. order[p] \in 1 .. Len(q) /\ r[p] = q[order[p]]
      BY <1>1, <1>2
    <3> QED BY <1>1, <3>1 DEF ToSet
  <2>2. ASSUME NEW p \in 1 .. Len(q) PROVE q[p] \in ToSet(r)
    <3>1. PICK a \in 1 .. Len(q) : order[a] = p
      BY <1>2
    <3>2. r[a] = q[p]
      BY <1>1, <3>1
    <3> QED BY <1>1, <3>2 DEF ToSet
  <2>3. /\ \A e \in ToSet(r) : \E p \in 1 .. Len(q) : e = r[p]
        /\ \A e \in ToSet(q) : \E p \in 1 .. Len(q) : e = q[p]
    BY <1>1 DEF ToSet
  <2>4. ToSet(r) \subseteq ToSet(q)
    BY ONLY <2>1, <2>3, Zenon
  <2>5. ToSet(q) \subseteq ToSet(r)
    BY ONLY <2>2, <2>3, Zenon
  <2> QED BY <2>4, <2>5
<1> QED BY <1>5, <1>6

\* The results of a nested run are the drained items in another order.
LEMMA NestedFacts ==
    ASSUME Inv, NEW s \in Stages, phase[s] = "nested", NEW order \in EmitOrders(s), sent' = sent,
           drained' = [drained EXCEPT ![s] = [p \in DOMAIN @ |-> @[order[p]]]]
    PROVE  /\ drained' \in [Stages -> Seq(Items)]
           /\ \A t \in Stages : t # s => drained'[t] = drained[t]
           /\ Injective(drained'[s]) /\ Len(drained'[s]) = Len(drained[s])
           /\ ToSet(drained'[s]) = ToSet(drained[s])
           /\ \A t \in Stages : Holding(<<"drain", t>>)' = Holding(<<"drain", t>>)
<1> DEFINE q == drained[s]
           D == DOMAIN q
           r == [p \in D |-> q[order[p]]]
<1>1. drained \in [Stages -> Seq(Items)] /\ q \in Seq(Items) /\ Injective(q) /\ sent[s] = 0
  BY DEF Inv, Types, SeqOK, StageOK
<1>2. D = 1 .. Len(q) /\ Len(q) \in Nat /\ \A p \in D : q[p] \in Items
  BY <1>1
<1>3. order \in Bijection(D, D)
  BY DEF EmitOrders
<1>4. drained'[s] = r /\ \A t \in Stages : t # s => drained'[t] = drained[t]
  BY <1>1
<1> HIDE DEF q, D, r
<1>5. r \in Seq(Items) /\ Len(r) = Len(q) /\ Injective(r) /\ ToSet(r) = ToSet(q)
  <2>1. r = [p \in 1 .. Len(q) |-> q[order[p]]]
    BY <1>2 DEF r
  <2>2. order \in Bijection(1 .. Len(q), 1 .. Len(q))
    BY <1>2, <1>3
  <2>3. r \in [1 .. Len(q) -> Items] /\ Len(q) \in Nat
    BY <1>2, <2>1, <2>2 DEF Bijection, Injection
  <2>4. r \in Seq(Items) /\ Len(r) = Len(q)
    BY <2>3
  <2>5. \A p \in 1 .. Len(q) : r[p] = q[order[p]]
    BY <2>1
  <2> QED BY ONLY <1>1, <2>2, <2>4, <2>5, PermuteFacts
<1>9. drained' \in [Stages -> Seq(Items)]
  BY <1>1, <1>4, <1>5
<1>10. Pending(s)' = Pending(s)
  <2>1. Pending(s) = ToSet(q)
    BY <1>1, PendingAll DEF q
  <2>2. sent'[s] = 0 /\ drained'[s] \in Seq(Items)
    BY <1>1, <1>4, <1>5
  <2>3. Pending(s)' = ToSet(drained'[s])
    BY <2>2, PendingAll
  <2> QED BY <1>4, <1>5, <2>1, <2>3
<1>11. \A t \in Stages : Holding(<<"drain", t>>)' = Holding(<<"drain", t>>)
  BY <1>4, <1>10, SameSpot, HoldingFacts, HoldingNext
<1> QED BY <1>4, <1>5, <1>9, <1>11 DEF q

\* Every step leaves all items where they are, or moves one of them on.
LEMMA FlowStep == ASSUME Inv, [Next]_vars PROVE Flow
<1>1. CASE UNCHANGED vars
  BY <1>1, StaysUnchanged DEF Flow, vars, stageVars, workerVars
<1>2. CASE FeederReturns
  BY <1>2, StaysUnchanged DEF Flow, FeederReturns, stageVars, workerVars
<1>3. CASE Collect
  <2>1. PICK i \in Items : Receive(S, i) /\ collected' = collected \cup {i}
    BY <1>3 DEF Collect
  <2>2. Flows(i, <<"chan", S>>, <<"out", 0>>)
    BY <1>3, <2>1, CollectFlows DEF Collect
  <2>3. <<"chan", S>> \in Spots /\ <<"out", 0>> \in Spots
    <3>1. S \in Stages
      BY PipelineAssumption DEF Stages
    <3> QED BY <3>1, SpotFacts
  <2> QED BY <2>2, <2>3 DEF Flow
<1>4. CASE CollectorReturns
  BY <1>4, StaysUnchanged DEF Flow, CollectorReturns, stageVars, workerVars
<1>5. CASE RunReturns
  BY <1>5, StaysUnchanged DEF Flow, RunReturns, stageVars, workerVars
<1>6. CASE CallerCancels
  BY <1>6, StaysUnchanged DEF Flow, CallerCancels, stageVars, workerVars
<1>7. CASE ReporterFails
  BY <1>7, StaysUnchanged DEF Flow, ReporterFails, stageVars, workerVars
<1>8. ASSUME NEW g \in Goroutines, Join(g) PROVE Flow
  BY <1>8, StaysUnchanged DEF Flow, Join, stageVars, workerVars
<1>9. ASSUME NEW s \in Stages, GateCloses(s) PROVE Flow
  BY <1>9, StaysUnchanged DEF Flow, GateCloses, stageVars, workerVars
<1>10. ASSUME NEW s \in Stages, StageStarts(s) PROVE Flow
  BY <1>10, StaysUnchanged DEF Flow, StageStarts
<1>11. ASSUME NEW s \in Stages, Drain(s) PROVE Flow
  <2>1. PICK i \in Items : /\ Receive(s - 1, i)
                           /\ drained' = [drained EXCEPT ![s] = Append(@, i)]
    BY <1>11 DEF Drain
  <2>2. Flows(i, Source(s - 1), <<"drain", s>>)
    BY <1>11, <2>1, DrainFlows DEF Drain
  <2>3. Source(s - 1) \in Spots /\ <<"drain", s>> \in Spots
    <3>1. s - 1 \in 0 .. S
      BY PipelineAssumption DEF Stages
    <3> QED BY <2>1, <3>1, ReceiveFacts, SpotFacts
  <2> QED BY <2>2, <2>3 DEF Flow
<1>12. ASSUME NEW s \in Stages, Drained(s) PROVE Flow
  BY <1>12, StaysUnchanged DEF Flow, Drained
<1>13. ASSUME NEW s \in Stages, NestedRun(s) PROVE Flow
  <2>1. CASE drained' = drained
    BY <1>13, <2>1, StaysUnchanged DEF Flow, NestedRun, workerVars
  <2>2. ASSUME NEW order \in EmitOrders(s),
               drained' = [drained EXCEPT ![s] = [p \in DOMAIN @ |-> @[order[p]]]]
        PROVE  Stays
    <3>1. UNCHANGED <<sent, fed, chan, hold, collected>> /\ phase[s] = "nested"
      BY <1>13 DEF NestedRun, workerVars
    <3>2. \A t \in Stages : Holding(<<"drain", t>>)' = Holding(<<"drain", t>>)
      BY <2>2, <3>1, NestedFacts
    <3>3. /\ Holding(<<"in", 0>>)' = Holding(<<"in", 0>>) /\ Holding(<<"out", 0>>)' = Holding(<<"out", 0>>)
          /\ \A t \in Stages : Holding(<<"chan", t>>)' = Holding(<<"chan", t>>)
          /\ \A w \in Workers : Holding(<<"hand", w>>)' = Holding(<<"hand", w>>)
      BY <3>1, SameSpot
    <3> QED BY <3>2, <3>3, SpotFacts DEF Stays
  <2> QED BY <1>13, <2>1, <2>2 DEF Flow, NestedRun
<1>14. ASSUME NEW s \in Stages, Emit(s) PROVE Flow
  <2>1. CASE chan' = chan /\ sent' = sent
    BY <1>14, <2>1, StaysUnchanged DEF Flow, Emit, workerVars
  <2>2. ASSUME chan' = [chan EXCEPT ![s] = Append(@, drained[s][sent[s] + 1])],
               sent' = [sent EXCEPT ![s] = @ + 1], UNCHANGED groupVars
        PROVE  Flow
    <3>1. UNCHANGED <<groupVars, phase, drained, fed, hold, collected>> /\ phase[s] = "emit"
          /\ sent[s] < Len(drained[s])
      BY <1>14, <2>2 DEF Emit, workerVars
    <3>2. /\ Flows(drained[s][sent[s] + 1], <<"drain", s>>, <<"chan", s>>)
          /\ drained[s][sent[s] + 1] \in Items
      BY <2>2, <3>1, EmitFlows
    <3> QED BY <3>2, SpotFacts DEF Flow
  <2> QED BY <1>14, <2>1, <2>2 DEF Emit
<1>15. ASSUME NEW s \in Stages, StageReturns(s) PROVE Flow
  BY <1>15, StaysUnchanged DEF Flow, StageReturns, stageVars, workerVars
<1>16. ASSUME NEW w \in Workers, WorkerReceives(w) PROVE Flow
  <2>1. w[1] \in Stages /\ at[w] = "recv" /\ UNCHANGED <<groupVars, phase, drained, collected>>
    BY <1>16, WorkerFacts DEF WorkerReceives
  <2>2. PICK i \in Items :
          /\ hold' = [hold EXCEPT ![w] = i]
          /\ \/ Receive(w[1] - 1, i) /\ UNCHANGED sent
             \/ /\ sent[w[1]] < Len(drained[w[1]]) /\ i = drained[w[1]][sent[w[1]] + 1]
                /\ sent' = [sent EXCEPT ![w[1]] = @ + 1] /\ UNCHANGED <<fed, chan>>
    BY <1>16 DEF WorkerReceives
  <2>3. \E from \in Spots \ {<<"hand", w>>} : Flows(i, from, <<"hand", w>>)
    BY <2>1, <2>2, ReceiveFlows
  <2> QED BY <2>3, SpotFacts DEF Flow
<1>17. ASSUME NEW w \in Workers, WorkerEnds(w) PROVE Flow
  BY <1>17, StaysUnchanged DEF Flow, WorkerEnds, stageVars
<1>18. ASSUME NEW w \in Workers, Process(w) PROVE Flow
  BY <1>18, StaysUnchanged DEF Flow, Process
<1>19. ASSUME NEW w \in Workers, Send(w) PROVE Flow
  <2>1. CASE chan' = chan /\ hold' = hold
    BY <1>19, <2>1, StaysUnchanged DEF Flow, Send
  <2>2. ASSUME chan' = [chan EXCEPT ![w[1]] = Append(@, hold[w])], hold' = [hold EXCEPT ![w] = 0]
        PROVE  Flow
    <3>1. UNCHANGED <<groupVars, phase, drained, sent, fed, collected>> /\ at[w] = "send"
          /\ w[1] \in Stages
      BY <1>19, WorkerFacts DEF Send
    <3>2. Flows(hold[w], <<"hand", w>>, <<"chan", w[1]>>) /\ hold[w] \in Items
      BY <2>2, <3>1, SendFlows
    <3> QED BY <3>1, <3>2, SpotFacts DEF Flow
  <2> QED BY <1>19, <2>1, <2>2 DEF Send
<1>20. CASE \E g \in Goroutines : Join(g)
  BY <1>20, <1>8
<1>21. CASE \E s \in Stages : StageStep(s) \/ GateCloses(s)
  BY <1>21, <1>9, <1>10, <1>11, <1>12, <1>13, <1>14, <1>15 DEF StageStep
<1>22. CASE \E w \in Workers : WorkerStep(w)
  BY <1>22, <1>16, <1>17, <1>18, <1>19 DEF WorkerStep
<1> QED
  BY <1>1, <1>2, <1>3, <1>4, <1>5, <1>6, <1>7, <1>20, <1>21, <1>22, Zenon DEF Next

------------------------------------------------------------------------------
(* What a step never undoes, and the types                                   *)

Mono ==
    /\ kind' = kind
    /\ erred \subseteq erred' /\ stageErr \subseteq stageErr'
    /\ Troubled => Troubled'
    /\ \A c \in Goroutines : Closed(c) => Closed(c)'
    /\ \A c \in 0 .. S : Exhausted(c) => Exhausted(c)'
    /\ Closed(Feeder) => fed' = fed

\* The lives of the goroutines move forward when one of them returns.
LEMMA ReturnFacts ==
    ASSUME Inv, NEW g \in Goroutines, NEW failing \in BOOLEAN, Returns(g, failing)
    PROVE  /\ life' \in [Goroutines -> {"running", "returned", "joined"}]
           /\ life'[g] = "returned" /\ \A h \in Goroutines : h # g => life'[h] = life[h]
           /\ erred \subseteq erred' /\ erred' \subseteq Goroutines /\ erred' \subseteq erred \cup {g}
           /\ failing => g \in erred'
           /\ ~failing => erred' = erred
           /\ UNCHANGED <<canceled, reporter, groupErr, outcome>>
<1>1. life \in [Goroutines -> {"running", "returned", "joined"}] /\ erred \subseteq Goroutines
  BY DEF Inv, Types
<1> QED BY <1>1 DEF Returns

\* A channel is closed by the goroutine that sends to it, so that an exhausted
\* channel stays exhausted.
LEMMA MonoStep == ASSUME Inv, [Next]_vars PROVE Mono
<1>0. /\ life \in [Goroutines -> {"running", "returned", "joined"}]
      /\ chan \in [Stages -> Seq(Items)]
      /\ \A c \in 0 .. S : c \in Goroutines /\ (c # 0 => c \in Stages)
      /\ \A s \in Stages : s \in 0 .. S /\ s # 0 /\ s - 1 \in 0 .. S
      /\ S \in 0 .. S
  BY PipelineAssumption DEF Inv, Types, Goroutines, Stages
<1> DEFINE Forward == /\ \A c \in Goroutines : Closed(c) => Closed(c)'
                      /\ erred \subseteq erred'
                      /\ Troubled => Troubled'
<1>a. ASSUME UNCHANGED groupVars PROVE Forward
  BY <1>a DEF groupVars, Closed, Troubled
<1>b. ASSUME NEW g \in Goroutines, NEW failing \in BOOLEAN, Returns(g, failing) PROVE Forward
  BY <1>b, ReturnFacts DEF Closed, Troubled
<1>c. ASSUME Forward, UNCHANGED <<kind, stageErr, fed, chan>> PROVE Mono
  BY <1>0, <1>c DEF Mono, Exhausted, Feeder
<1>d. ASSUME UNCHANGED <<kind, groupVars, stageErr>>, NEW c \in 0 .. S, NEW i \in Items, Receive(c, i)
      PROVE  Mono
  <2>1. Forward
    BY <1>a, <1>d
  <2>2. /\ \A s \in Stages : chan[s] = <<>> => chan'[s] = <<>>
        /\ Closed(Feeder) => fed' = fed
    BY <1>d, ReceiveFacts
  <2> QED BY <1>0, <1>d, <2>1, <2>2 DEF Mono, Exhausted, Feeder
<1>e. ASSUME UNCHANGED <<kind, groupVars, fed>>, stageErr \subseteq stageErr',
             NEW s \in Stages, ~Closed(s), \A t \in Stages : t # s => chan'[t] = chan[t]
      PROVE  Mono
  <2>1. Forward
    BY <1>a, <1>e
  <2> QED BY <1>0, <1>e, <2>1 DEF Mono, Exhausted, Feeder
<1> HIDE DEF Forward
<1>1. CASE UNCHANGED vars
  BY <1>1, <1>a, <1>c DEF vars, stageVars
<1>2. CASE FeederReturns
  <2>1. Feeder \in Goroutines /\ (fed < N) \in BOOLEAN
    BY PipelineAssumption DEF Feeder, Goroutines
  <2> QED BY <1>2, <2>1, <1>b, <1>c DEF FeederReturns, stageVars
<1>3. CASE Collect
  BY <1>0, <1>3, <1>d DEF Collect, stageVars
<1>4. CASE CollectorReturns
  <2>1. Collector \in Goroutines
    BY PipelineAssumption DEF Collector, Goroutines
  <2> QED BY <1>4, <2>1, <1>b, <1>c DEF CollectorReturns, stageVars
<1>5. CASE RunReturns
  <2>1. Forward
    BY <1>5 DEF RunReturns, Forward, Closed, Troubled
  <2> QED BY <1>5, <2>1, <1>c DEF RunReturns, stageVars
<1>6. CASE CallerCancels
  <2>1. Forward
    BY <1>6 DEF CallerCancels, Forward, Closed, Troubled
  <2> QED BY <1>6, <2>1, <1>c DEF CallerCancels, stageVars
<1>7. CASE ReporterFails
  <2>1. Forward
    BY <1>7 DEF ReporterFails, Forward, Closed, Troubled
  <2> QED BY <1>7, <2>1, <1>c DEF ReporterFails, stageVars
<1>8. ASSUME NEW g \in Goroutines, Join(g) PROVE Mono
  <2>1. \A c \in Goroutines : Closed(c) => Closed(c)'
    BY <1>0, <1>8 DEF Join, Closed
  <2>2. Troubled => Troubled'
    BY <1>8 DEF Join, Troubled
  <2>3. Forward
    BY <1>8, <2>1, <2>2 DEF Join, Forward
  <2> QED BY <1>8, <2>3, <1>c DEF Join, stageVars
<1>9. ASSUME NEW s \in Stages, GateCloses(s) PROVE Mono
  BY <1>9, <1>a, <1>c DEF GateCloses, stageVars
<1>10. ASSUME NEW s \in Stages, StageStarts(s) PROVE Mono
  <2>1. Forward
    BY <1>10, <1>a, <1>b, WorkerFacts DEF StageStarts
  <2> QED BY <1>10, <2>1, <1>c DEF StageStarts
<1>11. ASSUME NEW s \in Stages, Drain(s) PROVE Mono
  BY <1>0, <1>11, <1>d DEF Drain
<1>12. ASSUME NEW s \in Stages, Drained(s) PROVE Mono
  <2>1. Forward
    BY <1>12, <1>a, <1>b, WorkerFacts DEF Drained
  <2> QED BY <1>12, <2>1, <1>c DEF Drained
<1>13. ASSUME NEW s \in Stages, NestedRun(s) PROVE Mono
  <2>1. Forward
    BY <1>13, <1>a, <1>b, WorkerFacts DEF NestedRun
  <2> QED BY <1>13, <2>1, <1>c DEF NestedRun
<1>14. ASSUME NEW s \in Stages, Emit(s) PROVE Mono
  <2>1. CASE UNCHANGED groupVars
    <3>1. ~Closed(s) /\ UNCHANGED <<kind, fed, stageErr>>
      BY <1>14 DEF Emit, Closed
    <3>2. \A t \in Stages : t # s => chan'[t] = chan[t]
      BY <1>0, <1>14 DEF Emit
    <3> QED BY <2>1, <3>1, <3>2, <1>e
  <2>2. CASE Returns(s, TRUE) /\ chan' = chan
    <3>1. Forward
      BY <2>2, <1>b, WorkerFacts
    <3> QED BY <1>14, <2>2, <3>1, <1>c DEF Emit
  <2> QED BY <1>14, <2>1, <2>2 DEF Emit
<1>15. ASSUME NEW s \in Stages, StageReturns(s) PROVE Mono
  <2>1. Forward
    <3>1. (s \in stageErr) \in BOOLEAN /\ TRUE \in BOOLEAN /\ s \in Goroutines
      BY WorkerFacts
    <3> QED BY <1>15, <3>1, <1>b DEF StageReturns
  <2> QED BY <1>15, <2>1, <1>c DEF StageReturns, stageVars
<1>16. ASSUME NEW w \in Workers, WorkerReceives(w) PROVE Mono
  <2>1. UNCHANGED <<kind, groupVars, stageErr>> /\ w[1] - 1 \in 0 .. S
    BY <1>0, <1>16, WorkerFacts DEF WorkerReceives
  <2>2. CASE UNCHANGED <<fed, chan>>
    BY <2>1, <2>2, <1>a, <1>c
  <2>3. CASE \E i \in Items : Receive(w[1] - 1, i)
    BY <2>1, <2>3, <1>d
  <2> QED BY <1>16, <2>2, <2>3 DEF WorkerReceives
<1>17. ASSUME NEW w \in Workers, WorkerEnds(w) PROVE Mono
  BY <1>17, <1>a, <1>c DEF WorkerEnds, stageVars
<1>18. ASSUME NEW w \in Workers, Process(w) PROVE Mono
  <2>1. ~Closed(w[1]) /\ w[1] \in Stages
    BY <1>18, WorkerFacts DEF Inv, WorkerOK, Process
  <2>2. UNCHANGED <<kind, groupVars, fed, chan>> /\ stageErr \subseteq stageErr'
    BY <1>18 DEF Process, WorkerErr
  <2> QED BY <2>1, <2>2, <1>e
<1>19. ASSUME NEW w \in Workers, Send(w) PROVE Mono
  <2>1. ~Closed(w[1]) /\ w[1] \in Stages
    BY <1>19, WorkerFacts DEF Inv, WorkerOK, Send
  <2>2. UNCHANGED <<kind, groupVars, fed>> /\ stageErr \subseteq stageErr'
    BY <1>19 DEF Send, WorkerErr
  <2>3. \A t \in Stages : t # w[1] => chan'[t] = chan[t]
    BY <1>0, <1>19, <2>1 DEF Send
  <2> QED BY <2>1, <2>2, <2>3, <1>e
<1>20. CASE \E g \in Goroutines : Join(g)
  BY <1>20, <1>8
<1>21. CASE \E s \in Stages : StageStep(s) \/ GateCloses(s)
  BY <1>21, <1>9, <1>10, <1>11, <1>12, <1>13, <1>14, <1>15 DEF StageStep
<1>22. CASE \E w \in Workers : WorkerStep(w)
  BY <1>22, <1>16, <1>17, <1>18, <1>19 DEF WorkerStep
<1> QED
  BY <1>1, <1>2, <1>3, <1>4, <1>5, <1>6, <1>7, <1>20, <1>21, <1>22, Zenon DEF Next

\* The variables keep their types.
LEMMA TypesStep == ASSUME Inv, [Next]_vars PROVE Types'
<1>0. Types
  BY DEF Inv
<1>w. \A w \in Workers : w[1] \in Stages
  BY WorkerFacts
<1>g. \A s \in Stages : s \in Goroutines
  BY WorkerFacts
<1>1. CASE UNCHANGED vars
  BY <1>0, <1>1 DEF vars, groupVars, stageVars, workerVars, itemVars, Types
<1>2. CASE FeederReturns
  <2>1. Feeder \in Goroutines
    BY PipelineAssumption DEF Feeder, Goroutines
  <2> QED BY <1>0, <1>2, <2>1 DEF FeederReturns, Returns, stageVars, workerVars, itemVars, Types
<1>3. CASE Collect
  <2>1. PICK i \in Items : Receive(S, i) /\ collected' = collected \cup {i}
    BY <1>3 DEF Collect
  <2>2. S \in 0 .. S
    BY PipelineAssumption
  <2>3. fed' \in 0 .. N /\ chan' \in [Stages -> Seq(Items)]
    BY <2>1, <2>2, ReceiveFacts
  <2> QED BY <1>0, <1>3, <2>1, <2>3 DEF Collect, groupVars, stageVars, workerVars, itemVars, Types
<1>4. CASE CollectorReturns
  <2>1. Collector \in Goroutines
    BY PipelineAssumption DEF Collector, Goroutines
  <2> QED BY <1>0, <1>4, <2>1 DEF CollectorReturns, Returns, stageVars, workerVars, itemVars, Types
<1>5. CASE RunReturns
  BY <1>0, <1>5 DEF RunReturns, stageVars, workerVars, itemVars, Types
<1>6. CASE CallerCancels
  BY <1>0, <1>6 DEF CallerCancels, stageVars, workerVars, itemVars, Types
<1>7. CASE ReporterFails
  BY <1>0, <1>7 DEF ReporterFails, stageVars, workerVars, itemVars, Types
<1>8. ASSUME NEW g \in Goroutines, Join(g) PROVE Types'
  BY <1>0, <1>8 DEF Join, stageVars, workerVars, itemVars, Types
<1>9. ASSUME NEW s \in Stages, GateCloses(s) PROVE Types'
  BY <1>0, <1>9 DEF GateCloses, groupVars, workerVars, itemVars, Types
<1>10. ASSUME NEW s \in Stages, StageStarts(s) PROVE Types'
  BY <1>0, <1>10, <1>g DEF StageStarts, Returns, groupVars, itemVars, Types
<1>11. ASSUME NEW s \in Stages, Drain(s) PROVE Types'
  <2>1. PICK i \in Items : /\ Receive(s - 1, i)
                           /\ drained' = [drained EXCEPT ![s] = Append(@, i)]
    BY <1>11 DEF Drain
  <2>2. s - 1 \in 0 .. S
    BY PipelineAssumption DEF Stages
  <2>3. fed' \in 0 .. N /\ chan' \in [Stages -> Seq(Items)]
    BY <2>1, <2>2, ReceiveFacts
  <2>4. drained' \in [Stages -> Seq(Items)]
    BY <1>11, <2>1, DrainFlows DEF Drain
  <2> QED BY <1>0, <1>11, <2>3, <2>4 DEF Drain, groupVars, workerVars, itemVars, Types
<1>12. ASSUME NEW s \in Stages, Drained(s) PROVE Types'
  <2>1. /\ life' \in [Goroutines -> {"running", "returned", "joined"}] /\ erred' \subseteq Goroutines
    <3>1. CASE Returns(s, TRUE)
      BY <1>g, <3>1, ReturnFacts
    <3>2. CASE UNCHANGED groupVars
      BY <1>0, <3>2 DEF groupVars, Types
    <3> QED BY <1>12, <3>1, <3>2 DEF Drained
  <2>2. /\ phase' \in [Stages -> {"start", "drain", "nested", "emit", "work"}]
        /\ gate' \in [Stages -> {"none", "open", "closed"}]
        /\ at' \in [Workers -> {"idle", "recv", "process", "send", "exit"}]
    BY <1>0, <1>12 DEF Drained, Types
  <2> QED BY <1>0, <1>12, <2>1, <2>2 DEF Drained, itemVars, Types
<1>13. ASSUME NEW s \in Stages, NestedRun(s) PROVE Types'
  <2>1. CASE UNCHANGED <<phase, drained, itemVars>> /\ Returns(s, TRUE)
    BY <1>0, <1>13, <1>g, <2>1 DEF NestedRun, Returns, workerVars, itemVars, Types
  <2>2. ASSUME NEW clean, clean = ToSet(drained[s]) \ flagged,
               NEW bad \in SUBSET clean, NEW order \in EmitOrders(s),
               flagged' = flagged \cup bad,
               done' = [i \in Items |-> IF i \in clean \ bad THEN done[i] \cup {s} ELSE done[i]],
               drained' = [drained EXCEPT ![s] = [p \in DOMAIN @ |-> @[order[p]]]],
               phase' = [phase EXCEPT ![s] = "emit"], UNCHANGED groupVars
        PROVE  Types'
    <3>1. drained' \in [Stages -> Seq(Items)]
      BY <1>13, <2>2, NestedFacts DEF NestedRun
    <3>2. bad \subseteq Items
      <4>1. drained[s] \in Seq(Items)
        BY <1>0 DEF Types
      <4>2. ToSet(drained[s]) \subseteq Items
        BY <4>1 DEF ToSet
      <4> QED BY <2>2, <4>2
    <3>3. flagged' \subseteq Items
      BY <1>0, <2>2, <3>2 DEF Types
    <3>4. done' \in [Items -> SUBSET Stages]
      BY <1>0, <2>2 DEF Types
    <3>5. phase' \in [Stages -> {"start", "drain", "nested", "emit", "work"}]
      BY <1>0, <2>2 DEF Types
    <3> QED BY <1>0, <1>13, <2>2, <3>1, <3>3, <3>4, <3>5 DEF NestedRun, workerVars, groupVars, Types
  <2> QED BY <1>13, <2>1, <2>2, Zenon DEF NestedRun
<1>14. ASSUME NEW s \in Stages, Emit(s) PROVE Types'
  <2>1. CASE Returns(s, TRUE) /\ UNCHANGED <<chan, sent>>
    BY <1>0, <1>14, <1>g, <2>1 DEF Emit, Returns, workerVars, itemVars, Types
  <2>2. ASSUME chan' = [chan EXCEPT ![s] = Append(@, drained[s][sent[s] + 1])],
               sent' = [sent EXCEPT ![s] = @ + 1], UNCHANGED groupVars
        PROVE  Types'
    <3>1. sent[s] < Len(drained[s]) /\ drained' = drained
      BY <1>14 DEF Emit
    <3>2. sent' \in [Stages -> Nat] /\ drained[s][sent[s] + 1] \in Items
      BY <2>2, <3>1, PassFacts
    <3>3. chan' \in [Stages -> Seq(Items)]
      BY <1>0, <2>2, <3>2 DEF Types
    <3> QED BY <1>0, <1>14, <2>2, <3>2, <3>3 DEF Emit, groupVars, workerVars, itemVars, Types
  <2> QED BY <1>14, <2>1, <2>2 DEF Emit
<1>15. ASSUME NEW s \in Stages, StageReturns(s) PROVE Types'
  BY <1>0, <1>15, <1>g DEF StageReturns, Returns, stageVars, workerVars, itemVars, Types
<1>16. ASSUME NEW w \in Workers, WorkerReceives(w) PROVE Types'
  <2>1. PICK i \in Items :
          /\ hold' = [hold EXCEPT ![w] = i]
          /\ at' = [at EXCEPT ![w] = IF i \in flagged THEN "send" ELSE "process"]
          /\ \/ Receive(w[1] - 1, i) /\ UNCHANGED sent
             \/ sent' = [sent EXCEPT ![w[1]] = @ + 1] /\ UNCHANGED <<fed, chan>>
    BY <1>16 DEF WorkerReceives
  <2>2. fed' \in 0 .. N /\ chan' \in [Stages -> Seq(Items)]
    <3>1. w[1] - 1 \in 0 .. S
      BY PipelineAssumption, WorkerFacts DEF Stages
    <3>2. CASE Receive(w[1] - 1, i)
      BY <3>1, <3>2, ReceiveFacts
    <3>3. CASE UNCHANGED <<fed, chan>>
      BY <1>0, <3>3 DEF Types
    <3> QED BY <2>1, <3>2, <3>3
  <2>3. sent' \in [Stages -> Nat] /\ hold' \in [Workers -> 0 .. N]
    <3>1. w[1] \in Stages /\ i \in 0 .. N
      BY <1>w, PipelineAssumption DEF Items
    <3>2. sent' \in [Stages -> Nat]
      BY <1>0, <2>1, <3>1 DEF Types
    <3> QED BY <1>0, <2>1, <3>1, <3>2 DEF Types
  <2>4. at' \in [Workers -> {"idle", "recv", "process", "send", "exit"}]
    BY <1>0, <2>1 DEF Types
  <2> QED BY <1>0, <1>16, <2>2, <2>3, <2>4 DEF WorkerReceives, groupVars, itemVars, Types
<1>17. ASSUME NEW w \in Workers, WorkerEnds(w) PROVE Types'
  BY <1>0, <1>17 DEF WorkerEnds, groupVars, stageVars, itemVars, Types
<1>18. ASSUME NEW w \in Workers, Process(w) PROVE Types'
  <2>1. hold[w] \in Items
    <3>1. hold[w] # 0 /\ hold[w] \in 0 .. N
      BY <1>18 DEF Process, Inv, WorkerOK, Types
    <3> QED BY <3>1, PipelineAssumption DEF Items
  <2>2. done' \in [Items -> SUBSET Stages] /\ flagged' \subseteq Items
    <3>1. flagged' \subseteq Items
      BY <1>0, <1>18, <2>1 DEF Process, itemVars, Types
    <3>2. w[1] \in Stages /\ done \in [Items -> SUBSET Stages]
      BY <1>0, <1>w DEF Types
    <3>3. CASE done' = [done EXCEPT ![hold[w]] = @ \cup {w[1]}]
      BY <2>1, <3>1, <3>2, <3>3
    <3> QED BY <1>18, <3>1, <3>2, <3>3 DEF Process, itemVars
  <2>3. /\ at' \in [Workers -> {"idle", "recv", "process", "send", "exit"}]
        /\ stageErr' \subseteq Stages
    BY <1>0, <1>w, <1>18 DEF Process, WorkerErr, Types
  <2> QED BY <1>0, <1>18, <2>2, <2>3 DEF Process, groupVars, Types
<1>19. ASSUME NEW w \in Workers, Send(w) PROVE Types'
  <2>1. hold[w] \in Items
    <3>1. hold[w] # 0 /\ hold[w] \in 0 .. N
      BY <1>19 DEF Send, Inv, WorkerOK, Types
    <3> QED BY <3>1, PipelineAssumption DEF Items
  <2>2. chan' \in [Stages -> Seq(Items)] /\ hold' \in [Workers -> 0 .. N]
    <3>1. w[1] \in Stages /\ 0 \in 0 .. N
      BY <1>w, PipelineAssumption
    <3>2. hold' \in [Workers -> 0 .. N]
      BY <1>0, <1>19, <3>1 DEF Send, Types
    <3>3. CASE chan' = [chan EXCEPT ![w[1]] = Append(@, hold[w])]
      BY <1>0, <2>1, <3>1, <3>2, <3>3 DEF Types
    <3> QED BY <1>0, <1>19, <3>2, <3>3 DEF Send, Types
  <2>3. /\ at' \in [Workers -> {"idle", "recv", "process", "send", "exit"}]
        /\ stageErr' \subseteq Stages
    BY <1>0, <1>w, <1>19 DEF Send, WorkerErr, Types
  <2> QED BY <1>0, <1>19, <2>2, <2>3 DEF Send, groupVars, itemVars, Types
<1>20. CASE \E g \in Goroutines : Join(g)
  BY <1>20, <1>8
<1>21. CASE \E s \in Stages : StageStep(s) \/ GateCloses(s)
  BY <1>21, <1>9, <1>10, <1>11, <1>12, <1>13, <1>14, <1>15 DEF StageStep
<1>22. CASE \E w \in Workers : WorkerStep(w)
  BY <1>22, <1>16, <1>17, <1>18, <1>19 DEF WorkerStep
<1> QED
  BY <1>1, <1>2, <1>3, <1>4, <1>5, <1>6, <1>7, <1>20, <1>21, <1>22, Zenon DEF Next

------------------------------------------------------------------------------
(* What the items have been through                                          *)

\* What is true of an item in its spot stays true when neither changes.
LEMMA FitsKept ==
    ASSUME NEW i, NEW x \in Spots, Fits(i, x), done'[i] = done[i], i \in flagged' <=> i \in flagged,
           \A s \in Stages : x = <<"drain", s>> => (phase'[s] = "emit" <=> phase[s] = "emit"),
           \A w \in Workers :
             x = <<"hand", w>> => at'[w] = at[w] \/ at'[w] \notin {"process", "send"}
    PROVE  Fits(i, x)'
<1>1. CASE x = <<"in", 0>> \/ x = <<"out", 0>>
  BY <1>1 DEF Fits, Through
<1>2. ASSUME NEW s \in Stages, x = <<"chan", s>> PROVE Fits(i, x)'
  BY <1>2 DEF Fits, Through
<1>3. ASSUME NEW s \in Stages, x = <<"drain", s>> PROVE Fits(i, x)'
  BY <1>3 DEF Fits, Through
<1>4. ASSUME NEW w \in Workers, x = <<"hand", w>> PROVE Fits(i, x)'
  BY <1>4 DEF Fits, Through
<1> QED BY <1>1, <1>2, <1>3, <1>4, SpotFacts

\* What the spots say, one by one.
LEMMA FitsFacts ==
    ASSUME NEW i
    PROVE  /\ Fits(i, <<"in", 0>>) <=> done[i] = {}
           /\ Fits(i, <<"out", 0>>)' <=> (i \in flagged' \/ done'[i] = 1 .. S)
           /\ \A s \in Stages :
                /\ Fits(i, <<"chan", s>>) <=> (i \in flagged \/ done[i] = 1 .. s)
                /\ Fits(i, <<"chan", s>>)' <=> (i \in flagged' \/ done'[i] = 1 .. s)
                /\ phase[s] = "emit" => (Fits(i, <<"drain", s>>) <=> (i \in flagged \/ done[i] = 1 .. s))
                /\ phase'[s] = "emit" =>
                     (Fits(i, <<"drain", s>>)' <=> (i \in flagged' \/ done'[i] = 1 .. s))
                /\ phase[s] # "emit" =>
                     (Fits(i, <<"drain", s>>) <=> (i \in flagged \/ done[i] = 1 .. s - 1))
                /\ phase'[s] # "emit" =>
                     (Fits(i, <<"drain", s>>)' <=> (i \in flagged' \/ done'[i] = 1 .. s - 1))
           /\ \A w \in Workers :
                /\ Fits(i, <<"hand", w>>) =>
                     /\ at[w] = "process" => i \notin flagged /\ done[i] = 1 .. w[1] - 1
                     /\ at[w] = "send" => i \in flagged \/ done[i] = 1 .. w[1]
                /\ /\ at'[w] = "process" => i \notin flagged' /\ done'[i] = 1 .. w[1] - 1
                   /\ at'[w] = "send" => i \in flagged' \/ done'[i] = 1 .. w[1]
                   => Fits(i, <<"hand", w>>)'
BY DEF Fits, Through

\* Progress when no item moves and none is worked on.
LEMMA ProgressStays ==
    ASSUME Inv, Stays, UNCHANGED <<flagged, done>>,
           \A s \in Stages : phase'[s] = "emit" <=> phase[s] = "emit",
           \A w \in Workers : at'[w] = at[w] \/ at'[w] \notin {"process", "send"}
    PROVE  Progress'
<1> SUFFICES ASSUME NEW x \in Spots, NEW i \in Holding(x) PROVE Fits(i, x)'
  BY DEF Progress, Stays
<1>1. Fits(i, x)
  BY DEF Inv, Progress
<1> QED BY <1>1, FitsKept

\* Progress when an item moves.
LEMMA ProgressMoves ==
    ASSUME Inv, NEW i \in Items, NEW from \in Spots, NEW to \in Spots, Flows(i, from, to),
           UNCHANGED <<flagged, done>>,
           \A w \in Workers : at'[w] = at[w] \/ at'[w] \notin {"process", "send"}
                                \/ (to = <<"hand", w>> /\ hold[w] = 0),
           Fits(i, to)'
    PROVE  Progress'
<1> SUFFICES ASSUME NEW x \in Spots, NEW j, j \in Holding(x)', x # to \/ j # i PROVE Fits(j, x)'
  BY DEF Progress
<1>1. j \in Holding(x)
  BY DEF Flows, Moved
<1>2. Fits(j, x)
  BY <1>1 DEF Inv, Progress
<1>3. ASSUME NEW w \in Workers, x = <<"hand", w>> PROVE ~(to = <<"hand", w>> /\ hold[w] = 0)
  BY <1>1, <1>3, HoldingFacts
<1>4. phase' = phase
  BY DEF Flows
<1> QED BY <1>2, <1>3, <1>4, FitsKept

\* What a receiver of stage s learns about the item.
LEMMA ReceivedFits ==
    ASSUME Inv, NEW s \in Stages, NEW i \in Items, i \in Holding(Source(s - 1))
    PROVE  i \in flagged \/ done[i] = 1 .. s - 1
<1>1. s - 1 \in 0 .. S /\ s \in Nat /\ (s - 1 # 0 => s - 1 \in Stages)
  BY PipelineAssumption DEF Stages
<1>2. CASE s - 1 = 0
  <2>1. Source(s - 1) = <<"in", 0>> /\ 1 .. s - 1 = {}
    BY <1>1, <1>2 DEF Source
  <2>2. Fits(i, <<"in", 0>>)
    BY <2>1, SpotFacts DEF Inv, Progress
  <2> QED BY <2>1, <2>2, FitsFacts
<1>3. CASE s - 1 # 0
  <2>1. Source(s - 1) = <<"chan", s - 1>> /\ s - 1 \in Stages
    BY <1>1, <1>3 DEF Source
  <2>2. Fits(i, <<"chan", s - 1>>)
    BY <2>1, SpotFacts DEF Inv, Progress
  <2> QED BY <2>1, <2>2, FitsFacts
<1> QED BY <1>2, <1>3

\* Spots hold items.
LEMMA HoldingItems == ASSUME Inv PROVE \A x \in Spots : Holding(x) \subseteq Items
<1> SUFFICES ASSUME NEW x \in Spots, NEW i \in Holding(x) PROVE i \in Items
  OBVIOUS
<1>1. /\ \A t \in Stages : chan[t] \in Seq(Items) /\ drained[t] \in Seq(Items) /\ sent[t] \in Nat
      /\ hold \in [Workers -> 0 .. N] /\ collected \subseteq Items /\ fed \in 0 .. N /\ N \in Nat
  BY PipelineAssumption DEF Inv, Types
<1>2. CASE x = <<"in", 0>>
  <2>1. i \in fed + 1 .. N
    BY <1>2, HoldingFacts
  <2> QED BY <1>1, <2>1 DEF Items
<1>3. CASE x = <<"out", 0>>
  BY <1>1, <1>3, HoldingFacts
<1>4. ASSUME NEW t \in Stages, x = <<"chan", t>> PROVE i \in Items
  <2>1. i \in ToSet(chan[t])
    BY <1>4, HoldingFacts
  <2> QED BY <1>1, <2>1 DEF ToSet
<1>5. ASSUME NEW t \in Stages, x = <<"drain", t>> PROVE i \in Items
  <2>1. i \in Pending(t)
    BY <1>5, HoldingFacts
  <2> QED BY <1>1, <2>1 DEF Pending
<1>6. ASSUME NEW w \in Workers, x = <<"hand", w>> PROVE i \in Items
  <2>1. i = hold[w] /\ i # 0
    BY <1>6, HoldingFacts
  <2> QED BY <1>1, <2>1 DEF Items
<1> QED BY <1>2, <1>3, <1>4, <1>5, <1>6, SpotFacts

\* An item goes through the stages in order, and not at all once it is flagged.
LEMMA ProgressStep == ASSUME Inv, [Next]_vars PROVE Progress'
<1>0. /\ flagged \subseteq Items /\ done \in [Items -> SUBSET Stages]
      /\ at \in [Workers -> {"idle", "recv", "process", "send", "exit"}]
      /\ phase \in [Stages -> {"start", "drain", "nested", "emit", "work"}]
  BY DEF Inv, Types
<1>a. ASSUME UNCHANGED <<fed, chan, drained, sent, hold, collected, flagged, done>>,
             \A s \in Stages : phase'[s] = "emit" <=> phase[s] = "emit",
             \A w \in Workers : at'[w] = at[w] \/ at'[w] \notin {"process", "send"}
      PROVE  Progress'
  BY <1>a, StaysUnchanged, ProgressStays
<1>1. CASE UNCHANGED vars
  BY <1>1, <1>a DEF vars, stageVars, workerVars, itemVars
<1>2. CASE FeederReturns
  BY <1>2, <1>a DEF FeederReturns, stageVars, workerVars, itemVars
<1>3. CASE Collect
  <2>1. PICK i \in Items : Receive(S, i) /\ collected' = collected \cup {i}
    BY <1>3 DEF Collect
  <2>2. S \in Stages /\ S \in 0 .. S /\ Source(S) = <<"chan", S>>
    BY PipelineAssumption DEF Stages, Source
  <2>3. <<"chan", S>> \in Spots /\ <<"out", 0>> \in Spots
    BY <2>2, SpotFacts
  <2>4. UNCHANGED <<groupVars, stageVars, workerVars, flagged, done, at>>
    BY <1>3 DEF Collect, workerVars, itemVars
  <2>5. Flows(i, <<"chan", S>>, <<"out", 0>>)
    BY <2>1, <2>4, CollectFlows
  <2>6. Fits(i, <<"chan", S>>)
    BY <2>3, <2>5 DEF Inv, Progress, Flows, Moved
  <2>7. Fits(i, <<"out", 0>>)'
    BY <2>2, <2>4, <2>6, FitsFacts
  <2> QED BY <2>3, <2>4, <2>5, <2>7, ProgressMoves
<1>4. CASE CollectorReturns
  BY <1>4, <1>a DEF CollectorReturns, stageVars, workerVars, itemVars
<1>5. CASE RunReturns
  BY <1>5, <1>a DEF RunReturns, stageVars, workerVars, itemVars
<1>6. CASE CallerCancels
  BY <1>6, <1>a DEF CallerCancels, stageVars, workerVars, itemVars
<1>7. CASE ReporterFails
  BY <1>7, <1>a DEF ReporterFails, stageVars, workerVars, itemVars
<1>8. ASSUME NEW g \in Goroutines, Join(g) PROVE Progress'
  BY <1>8, <1>a DEF Join, stageVars, workerVars, itemVars
<1>9. ASSUME NEW s \in Stages, GateCloses(s) PROVE Progress'
  BY <1>9, <1>a DEF GateCloses, workerVars, itemVars
<1>10. ASSUME NEW s \in Stages, StageStarts(s) PROVE Progress'
  <2>1. \A t \in Stages : phase'[t] = "emit" <=> phase[t] = "emit"
    BY <1>0, <1>10 DEF StageStarts
  <2>2. \A w \in Workers : at'[w] = at[w] \/ at'[w] \notin {"process", "send"}
    BY <1>10 DEF StageStarts
  <2> QED BY <1>10, <1>a, <2>1, <2>2 DEF StageStarts, itemVars
<1>11. ASSUME NEW s \in Stages, Drain(s) PROVE Progress'
  <2>1. PICK i \in Items : /\ Receive(s - 1, i)
                           /\ drained' = [drained EXCEPT ![s] = Append(@, i)]
    BY <1>11 DEF Drain
  <2>2. Flows(i, Source(s - 1), <<"drain", s>>)
    BY <1>11, <2>1, DrainFlows DEF Drain
  <2>3. Source(s - 1) \in Spots /\ <<"drain", s>> \in Spots /\ i \in Holding(Source(s - 1))
    <3>1. s - 1 \in 0 .. S
      BY PipelineAssumption DEF Stages
    <3> QED BY <2>1, <3>1, ReceiveFacts, SpotFacts
  <2>4. UNCHANGED <<flagged, done, at, phase>> /\ phase[s] = "drain"
    BY <1>11 DEF Drain, workerVars, itemVars
  <2>5. i \in flagged \/ done[i] = 1 .. s - 1
    BY <2>3, ReceivedFits
  <2>6. Fits(i, <<"drain", s>>)'
    BY <2>4, <2>5, FitsFacts
  <2> QED BY <2>2, <2>3, <2>4, <2>6, ProgressMoves
<1>12. ASSUME NEW s \in Stages, Drained(s) PROVE Progress'
  <2>1. \A t \in Stages : phase'[t] = "emit" <=> phase[t] = "emit"
    BY <1>0, <1>12 DEF Drained
  <2>2. \A w \in Workers : at'[w] = at[w] \/ at'[w] \notin {"process", "send"}
    BY <1>12 DEF Drained
  <2> QED BY <1>12, <1>a, <2>1, <2>2 DEF Drained, itemVars
<1>13. ASSUME NEW s \in Stages, NestedRun(s) PROVE Progress'
  <2>1. CASE UNCHANGED <<phase, drained, itemVars>>
    BY <1>13, <1>a, <2>1 DEF NestedRun, workerVars, itemVars
  <2>2. ASSUME NEW clean, clean = ToSet(drained[s]) \ flagged,
               NEW bad \in SUBSET clean, NEW order \in EmitOrders(s),
               flagged' = flagged \cup bad,
               done' = [i \in Items |-> IF i \in clean \ bad THEN done[i] \cup {s} ELSE done[i]],
               drained' = [drained EXCEPT ![s] = [p \in DOMAIN @ |-> @[order[p]]]],
               phase' = [phase EXCEPT ![s] = "emit"]
        PROVE  Progress'
    <3>1. UNCHANGED <<sent, fed, chan, hold, collected, at>> /\ phase[s] = "nested"
      BY <1>13 DEF NestedRun, workerVars
    <3>2. \A t \in Stages : Holding(<<"drain", t>>)' = Holding(<<"drain", t>>)
      BY <2>2, <3>1, NestedFacts
    <3>3. Stays
      <4>1. /\ Holding(<<"in", 0>>)' = Holding(<<"in", 0>>)
            /\ Holding(<<"out", 0>>)' = Holding(<<"out", 0>>)
            /\ \A t \in Stages : Holding(<<"chan", t>>)' = Holding(<<"chan", t>>)
            /\ \A w \in Workers : Holding(<<"hand", w>>)' = Holding(<<"hand", w>>)
        BY <3>1, SameSpot
      <4> QED BY <3>2, <4>1, SpotFacts DEF Stays
    <3>4. Holding(<<"drain", s>>) = ToSet(drained[s]) /\ ToSet(drained[s]) \subseteq Items
      <4>1. drained[s] \in Seq(Items) /\ sent[s] = 0
        BY <3>1 DEF Inv, Types, SeqOK, StageOK
      <4>2. ToSet(drained[s]) \subseteq Items
        BY <4>1 DEF ToSet
      <4> QED BY <4>1, <4>2, PendingAll, HoldingFacts
    <3>5. ASSUME NEW i \in Holding(<<"drain", s>>) PROVE Fits(i, <<"drain", s>>)'
      <4>1. i \in Items /\ Fits(i, <<"drain", s>>) /\ phase[s] # "emit" /\ phase'[s] = "emit"
        BY <1>0, <2>2, <3>1, <3>4, SpotFacts DEF Inv, Progress
      <4>2. i \in flagged \/ done[i] = 1 .. s - 1
        BY <4>1, FitsFacts
      <4>3. CASE i \in flagged \/ i \in bad
        BY <2>2, <4>1, <4>3, FitsFacts
      <4>4. CASE i \notin flagged /\ i \notin bad
        <5>1. done'[i] = (1 .. s - 1) \cup {s}
          BY <2>2, <3>4, <4>1, <4>2, <4>4
        <5>2. (1 .. s - 1) \cup {s} = 1 .. s
          BY WorkerFacts
        <5> QED BY <4>1, <5>1, <5>2, FitsFacts
      <4> QED BY <4>3, <4>4
    <3>6. ASSUME NEW x \in Spots, x # <<"drain", s>>, NEW i \in Holding(x) PROVE Fits(i, x)'
      <4>1. Fits(i, x)
        BY DEF Inv, Progress
      <4>2. i \notin clean
        <5>1. i \in Items => i \notin Holding(<<"drain", s>>)
          BY <3>6, SpotFacts DEF Inv, OneSpot
        <5> QED BY <2>2, <3>4, <5>1
      <4>3. i \in flagged' <=> i \in flagged
        BY <2>2, <4>2
      <4>4. i \in Items
        BY <3>6, HoldingItems
      <4>5. done'[i] = done[i]
        BY <2>2, <4>2, <4>4
      <4>6. \A t \in Stages : x = <<"drain", t>> => (phase'[t] = "emit" <=> phase[t] = "emit")
        BY <1>0, <2>2, <3>6
      <4> QED BY <3>1, <4>1, <4>3, <4>5, <4>6, FitsKept
    <3> QED BY <3>3, <3>5, <3>6 DEF Progress, Stays
  <2> QED BY <1>13, <2>1, <2>2, Zenon DEF NestedRun
<1>14. ASSUME NEW s \in Stages, Emit(s) PROVE Progress'
  <2>1. CASE chan' = chan /\ sent' = sent
    BY <1>14, <1>a, <2>1 DEF Emit, workerVars, itemVars
  <2>2. ASSUME NEW i, i = drained[s][sent[s] + 1], chan' = [chan EXCEPT ![s] = Append(@, i)],
               sent' = [sent EXCEPT ![s] = @ + 1], UNCHANGED groupVars
        PROVE  Progress'
    <3>1. UNCHANGED <<groupVars, phase, drained, fed, hold, collected, flagged, done, at>>
          /\ phase[s] = "emit" /\ sent[s] < Len(drained[s])
      BY <1>14, <2>2 DEF Emit, workerVars, itemVars
    <3>2. Flows(i, <<"drain", s>>, <<"chan", s>>) /\ i \in Items
      BY <2>2, <3>1, EmitFlows
    <3>3. <<"drain", s>> \in Spots /\ <<"chan", s>> \in Spots
      BY SpotFacts
    <3>4. Fits(i, <<"drain", s>>)
      BY <3>2, <3>3 DEF Inv, Progress, Flows, Moved
    <3>5. Fits(i, <<"chan", s>>)'
      BY <3>1, <3>4, FitsFacts
    <3> QED BY <3>1, <3>2, <3>3, <3>5, ProgressMoves
  <2> QED BY <1>14, <2>1, <2>2 DEF Emit
<1>15. ASSUME NEW s \in Stages, StageReturns(s) PROVE Progress'
  BY <1>15, <1>a DEF StageReturns, stageVars, workerVars, itemVars
<1>16. ASSUME NEW w \in Workers, WorkerReceives(w) PROVE Progress'
  <2> DEFINE s == w[1]
  <2>1. /\ s \in Stages /\ s - 1 \in 0 .. S /\ at[w] = "recv" /\ phase[s] = "work" /\ hold[w] = 0
        /\ UNCHANGED <<groupVars, phase, drained, collected, flagged, done>>
    <3>1. at[w] = "recv" /\ UNCHANGED <<groupVars, phase, drained, collected, flagged, done>>
      BY <1>16 DEF WorkerReceives, itemVars
    <3>2. s \in Stages /\ s - 1 \in 0 .. S
      BY WorkerFacts, PipelineAssumption DEF Stages
    <3> QED BY <3>1, <3>2 DEF Inv, WorkerOK
  <2>2. PICK i \in Items :
          /\ hold' = [hold EXCEPT ![w] = i]
          /\ at' = [at EXCEPT ![w] = IF i \in flagged THEN "send" ELSE "process"]
          /\ \/ Receive(s - 1, i) /\ UNCHANGED sent
             \/ /\ sent[s] < Len(drained[s]) /\ i = drained[s][sent[s] + 1]
                /\ sent' = [sent EXCEPT ![s] = @ + 1] /\ UNCHANGED <<fed, chan>>
    BY <1>16 DEF WorkerReceives
  <2> HIDE DEF s
  <2>3. PICK from \in Spots : Flows(i, from, <<"hand", w>>)
    BY <2>1, <2>2, ReceiveFlows DEF s
  <2>4. i \in flagged \/ done[i] = 1 .. s - 1
    <3>1. CASE Receive(s - 1, i)
      BY <2>1, <3>1, ReceiveFacts, ReceivedFits
    <3>2. CASE sent[s] < Len(drained[s]) /\ i = drained[s][sent[s] + 1]
               /\ sent' = [sent EXCEPT ![s] = @ + 1]
      <4>1. i \in Holding(<<"drain", s>>)
        BY <2>1, <3>2, PassFacts
      <4>2. Fits(i, <<"drain", s>>)
        BY <2>1, <4>1, SpotFacts DEF Inv, Progress
      <4> QED BY <2>1, <4>2, FitsFacts
    <3> QED BY <2>2, <3>1, <3>2
  <2>5. at'[w] = (IF i \in flagged THEN "send" ELSE "process") /\ \A v \in Workers : v # w => at'[v] = at[v]
    BY <1>0, <2>2
  <2>6. Fits(i, <<"hand", w>>)'
    BY <2>1, <2>4, <2>5, FitsFacts DEF s
  <2>7. <<"hand", w>> \in Spots
    BY SpotFacts
  <2> QED BY <2>1, <2>3, <2>5, <2>6, <2>7, ProgressMoves
<1>17. ASSUME NEW w \in Workers, WorkerEnds(w) PROVE Progress'
  <2>1. \A v \in Workers : at'[v] = at[v] \/ at'[v] \notin {"process", "send"}
    BY <1>0, <1>17 DEF WorkerEnds
  <2> QED BY <1>17, <1>a, <2>1 DEF WorkerEnds, stageVars, itemVars
<1>18. ASSUME NEW w \in Workers, Process(w) PROVE Progress'
  <2>1. CASE WorkerErr(w) /\ UNCHANGED itemVars
    <3>1. \A v \in Workers : at'[v] = at[v] \/ at'[v] \notin {"process", "send"}
      BY <1>0, <2>1 DEF WorkerErr
    <3> QED BY <1>18, <1>a, <2>1, <3>1 DEF Process, itemVars
  <2>2. ASSUME NEW i, i = hold[w], at' = [at EXCEPT ![w] = "send"],
               \/ done' = [done EXCEPT ![i] = @ \cup {w[1]}] /\ flagged' = flagged
               \/ flagged' = flagged \cup {i} /\ done' = done
        PROVE  Progress'
    <3>1. UNCHANGED <<fed, chan, drained, sent, hold, collected, phase>> /\ at[w] = "process"
      BY <1>18 DEF Process
    <3>2. i # 0 /\ i \in Items /\ w[1] \in Stages
      <4>1. hold[w] # 0 /\ hold[w] \in 0 .. N
        BY <3>1 DEF Inv, WorkerOK, Types
      <4> QED BY <2>2, <4>1, WorkerFacts, PipelineAssumption DEF Items
    <3>3. Stays
      BY <3>1, StaysUnchanged
    <3>4. i \in Holding(<<"hand", w>>) /\ <<"hand", w>> \in Spots
      BY <2>2, <3>2, HoldingFacts, SpotFacts
    <3>5. at'[w] = "send" /\ \A v \in Workers : v # w => at'[v] = at[v]
      BY <1>0, <2>2
    <3>6. done[i] = 1 .. w[1] - 1
      <4>1. Fits(i, <<"hand", w>>)
        BY <3>4 DEF Inv, Progress
      <4> QED BY <3>1, <4>1, FitsFacts
    <3>7. Fits(i, <<"hand", w>>)'
      <4>1. (1 .. w[1] - 1) \cup {w[1]} = 1 .. w[1]
        BY <3>2, WorkerFacts
      <4>2. i \in flagged' \/ done'[i] = 1 .. w[1]
        BY <1>0, <2>2, <3>2, <3>6, <4>1
      <4> QED BY <3>5, <4>2, FitsFacts
    <3>8. ASSUME NEW x \in Spots, NEW j \in Holding(x), x # <<"hand", w>> \/ j # i PROVE Fits(j, x)'
      <4>1. Fits(j, x)
        BY DEF Inv, Progress
      <4>2. j # i
        BY <3>2, <3>4, <3>8 DEF Inv, OneSpot
      <4>3. x # <<"hand", w>>
        BY <2>2, <3>8, <4>2, HoldingFacts
      <4>4. done'[j] = done[j] /\ (j \in flagged' <=> j \in flagged)
        <5>1. j \in Items
          BY <3>8, HoldingItems
        <5> QED BY <1>0, <2>2, <4>2, <5>1
      <4>5. \A v \in Workers : x = <<"hand", v>> => at'[v] = at[v]
        BY <3>5, <4>3
      <4> QED BY <3>1, <4>1, <4>4, <4>5, FitsKept
    <3> QED BY <3>3, <3>7, <3>8 DEF Progress, Stays
  <2> QED BY <1>18, <2>1, <2>2 DEF Process
<1>19. ASSUME NEW w \in Workers, Send(w) PROVE Progress'
  <2>1. CASE WorkerErr(w) /\ chan' = chan /\ hold' = hold
    <3>1. \A v \in Workers : at'[v] = at[v] \/ at'[v] \notin {"process", "send"}
      BY <1>0, <2>1 DEF WorkerErr
    <3> QED BY <1>19, <1>a, <2>1, <3>1 DEF Send, itemVars
  <2>2. ASSUME NEW i, i = hold[w], chan' = [chan EXCEPT ![w[1]] = Append(@, i)],
               hold' = [hold EXCEPT ![w] = 0], at' = [at EXCEPT ![w] = "recv"]
        PROVE  Progress'
    <3>1. UNCHANGED <<groupVars, phase, drained, sent, fed, collected, flagged, done>>
          /\ at[w] = "send" /\ w[1] \in Stages
      BY <1>19, WorkerFacts DEF Send, itemVars
    <3>2. Flows(i, <<"hand", w>>, <<"chan", w[1]>>) /\ i \in Items
      BY <2>2, <3>1, SendFlows
    <3>3. <<"hand", w>> \in Spots /\ <<"chan", w[1]>> \in Spots
      BY <3>1, SpotFacts
    <3>4. Fits(i, <<"hand", w>>)
      BY <3>2, <3>3 DEF Inv, Progress, Flows, Moved
    <3>5. Fits(i, <<"chan", w[1]>>)'
      BY <3>1, <3>4, FitsFacts
    <3>6. \A v \in Workers : at'[v] = at[v] \/ at'[v] \notin {"process", "send"}
      BY <1>0, <2>2
    <3> QED BY <3>1, <3>2, <3>3, <3>5, <3>6, ProgressMoves
  <2> QED BY <1>19, <2>1, <2>2 DEF Send
<1>20. CASE \E g \in Goroutines : Join(g)
  BY <1>20, <1>8
<1>21. CASE \E s \in Stages : StageStep(s) \/ GateCloses(s)
  BY <1>21, <1>9, <1>10, <1>11, <1>12, <1>13, <1>14, <1>15 DEF StageStep
<1>22. CASE \E w \in Workers : WorkerStep(w)
  BY <1>22, <1>16, <1>17, <1>18, <1>19 DEF WorkerStep
<1> QED
  BY <1>1, <1>2, <1>3, <1>4, <1>5, <1>6, <1>7, <1>20, <1>21, <1>22, Zenon DEF Next

------------------------------------------------------------------------------
(* Where the goroutines stand                                                *)

\* Channels and drained items stay free of repetitions.
LEMMA SeqStep == ASSUME Inv, [Next]_vars PROVE \A s \in Stages : SeqOK(s)'
<1>0. /\ \A s \in Stages : Injective(chan[s]) /\ Injective(drained[s]) /\ sent[s] <= Len(drained[s])
      /\ \A s \in Stages : s - 1 \in 0 .. S
      /\ S \in 0 .. S
      /\ drained \in [Stages -> Seq(Items)] /\ sent \in [Stages -> Nat]
  BY PipelineAssumption DEF Inv, Types, SeqOK, Stages
<1>a. ASSUME UNCHANGED <<chan, drained, sent>> PROVE \A s \in Stages : SeqOK(s)'
  BY <1>0, <1>a DEF SeqOK, Injective
<1>b. ASSUME \A t \in Stages : Injective(chan'[t]),
             \A t \in Stages : Injective(drained'[t]),
             \A t \in Stages : sent'[t] <= Len(drained'[t])
      PROVE \A s \in Stages : SeqOK(s)'
  BY <1>b DEF SeqOK, Injective
<1>1. CASE UNCHANGED vars
  BY <1>1, <1>a DEF vars, stageVars
<1>2. CASE FeederReturns
  BY <1>2, <1>a DEF FeederReturns, stageVars
<1>3. CASE Collect
  <2>1. \A t \in Stages : Injective(chan'[t])
    BY <1>0, <1>3, ReceiveFacts DEF Collect
  <2>2. UNCHANGED <<drained, sent>>
    BY <1>3 DEF Collect, stageVars
  <2> QED BY <1>0, <1>b, <2>1, <2>2
<1>4. CASE CollectorReturns
  BY <1>4, <1>a DEF CollectorReturns, stageVars
<1>5. CASE RunReturns
  BY <1>5, <1>a DEF RunReturns, stageVars
<1>6. CASE CallerCancels
  BY <1>6, <1>a DEF CallerCancels, stageVars
<1>7. CASE ReporterFails
  BY <1>7, <1>a DEF ReporterFails, stageVars
<1>8. ASSUME NEW g \in Goroutines, Join(g) PROVE \A s \in Stages : SeqOK(s)'
  BY <1>8, <1>a DEF Join, stageVars
<1>9. ASSUME NEW s \in Stages, GateCloses(s) PROVE \A t \in Stages : SeqOK(t)'
  BY <1>9, <1>a DEF GateCloses, stageVars
<1>10. ASSUME NEW s \in Stages, StageStarts(s) PROVE \A t \in Stages : SeqOK(t)'
  BY <1>10, <1>a DEF StageStarts
<1>11. ASSUME NEW s \in Stages, Drain(s) PROVE \A t \in Stages : SeqOK(t)'
  <2>1. PICK i \in Items : /\ Receive(s - 1, i)
                           /\ drained' = [drained EXCEPT ![s] = Append(@, i)]
    BY <1>11 DEF Drain
  <2>2. \A t \in Stages : Injective(chan'[t])
    BY <1>0, <2>1, ReceiveFacts
  <2>3. Injective(drained'[s])
    BY <1>11, <2>1, DrainFlows DEF Drain
  <2>4. \A t \in Stages : t # s => drained'[t] = drained[t]
    BY <1>0, <2>1
  <2>5. sent' = sent /\ Len(drained'[s]) >= Len(drained[s]) /\ Len(drained'[s]) \in Int
        /\ Len(drained[s]) \in Int
    BY <1>0, <1>11, <2>1 DEF Drain
  <2>6. \A t \in Stages : Injective(drained'[t])
    BY <1>0, <2>3, <2>4
  <2>7. ASSUME NEW t \in Stages PROVE sent'[t] <= Len(drained'[t])
    <3>1. sent[t] <= Len(drained[t]) /\ sent[t] \in Int
      BY <1>0
    <3>2. CASE t = s
      BY <2>5, <3>1, <3>2
    <3>3. CASE t # s
      BY <2>4, <2>5, <3>1, <3>3
    <3> QED BY <3>2, <3>3
  <2> QED BY <1>b, <2>2, <2>6, <2>7
<1>12. ASSUME NEW s \in Stages, Drained(s) PROVE \A t \in Stages : SeqOK(t)'
  BY <1>12, <1>a DEF Drained
<1>13. ASSUME NEW s \in Stages, NestedRun(s) PROVE \A t \in Stages : SeqOK(t)'
  <2>1. UNCHANGED <<chan, sent>> /\ phase[s] = "nested"
    BY <1>13 DEF NestedRun
  <2>2. CASE drained' = drained
    BY <2>1, <2>2, <1>a
  <2>3. ASSUME NEW order \in EmitOrders(s),
               drained' = [drained EXCEPT ![s] = [p \in DOMAIN @ |-> @[order[p]]]]
        PROVE  \A t \in Stages : SeqOK(t)'
    <3>1. /\ \A t \in Stages : t # s => drained'[t] = drained[t]
          /\ Injective(drained'[s]) /\ Len(drained'[s]) = Len(drained[s])
      BY <2>1, <2>3, NestedFacts
    <3>2. \A t \in Stages : Injective(drained'[t])
      BY <1>0, <3>1
    <3>3. \A t \in Stages : sent'[t] <= Len(drained'[t])
      BY <1>0, <2>1, <3>1
    <3> QED BY <1>0, <1>b, <2>1, <3>2, <3>3
  <2> QED BY <1>13, <2>2, <2>3 DEF NestedRun
<1>14. ASSUME NEW s \in Stages, Emit(s) PROVE \A t \in Stages : SeqOK(t)'
  <2>1. CASE chan' = chan /\ sent' = sent
    BY <1>14, <1>a, <2>1 DEF Emit
  <2>2. ASSUME NEW i, i = drained[s][sent[s] + 1], chan' = [chan EXCEPT ![s] = Append(@, i)],
               sent' = [sent EXCEPT ![s] = @ + 1], UNCHANGED groupVars
        PROVE  \A t \in Stages : SeqOK(t)'
    <3>1. sent[s] < Len(drained[s]) /\ drained' = drained
      BY <1>14 DEF Emit
    <3>2. /\ i \in Items /\ i \in Holding(<<"drain", s>>) /\ sent'[s] <= Len(drained'[s])
      BY <2>2, <3>1, PassFacts
    <3>3. i \notin Holding(<<"chan", s>>)
      BY <3>2, SpotFacts DEF Inv, OneSpot
    <3>4. \A t \in Stages : Injective(chan'[t])
      BY <2>2, <3>2, <3>3, SendFacts
    <3>5. \A t \in Stages : sent'[t] <= Len(drained'[t])
      BY <1>0, <2>2, <3>1, <3>2
    <3> QED BY <1>0, <1>b, <3>1, <3>4, <3>5
  <2> QED BY <1>14, <2>1, <2>2 DEF Emit
<1>15. ASSUME NEW s \in Stages, StageReturns(s) PROVE \A t \in Stages : SeqOK(t)'
  BY <1>15, <1>a DEF StageReturns, stageVars
<1>16. ASSUME NEW w \in Workers, WorkerReceives(w) PROVE \A t \in Stages : SeqOK(t)'
  <2>0. w[1] \in Stages /\ w[1] - 1 \in 0 .. S /\ drained' = drained
    BY <1>0, <1>16, WorkerFacts DEF WorkerReceives
  <2>1. PICK i \in Items :
          \/ Receive(w[1] - 1, i) /\ UNCHANGED sent
          \/ /\ sent[w[1]] < Len(drained[w[1]]) /\ i = drained[w[1]][sent[w[1]] + 1]
             /\ sent' = [sent EXCEPT ![w[1]] = @ + 1] /\ UNCHANGED <<fed, chan>>
    BY <1>16 DEF WorkerReceives
  <2>2. CASE Receive(w[1] - 1, i) /\ UNCHANGED sent
    <3>1. \A t \in Stages : Injective(chan'[t])
      BY <2>0, <2>2, ReceiveFacts
    <3> QED BY <1>0, <1>b, <2>0, <2>2, <3>1
  <2>3. CASE /\ sent[w[1]] < Len(drained[w[1]]) /\ i = drained[w[1]][sent[w[1]] + 1]
             /\ sent' = [sent EXCEPT ![w[1]] = @ + 1] /\ UNCHANGED <<fed, chan>>
    <3>1. sent'[w[1]] <= Len(drained'[w[1]])
      BY <2>0, <2>3, PassFacts
    <3>2. \A t \in Stages : sent'[t] <= Len(drained'[t])
      BY <1>0, <2>0, <2>3, <3>1
    <3> QED BY <1>0, <1>b, <2>0, <2>3, <3>2
  <2> QED BY <2>1, <2>2, <2>3
<1>17. ASSUME NEW w \in Workers, WorkerEnds(w) PROVE \A t \in Stages : SeqOK(t)'
  BY <1>17, <1>a DEF WorkerEnds, stageVars
<1>18. ASSUME NEW w \in Workers, Process(w) PROVE \A t \in Stages : SeqOK(t)'
  BY <1>18, <1>a DEF Process
<1>19. ASSUME NEW w \in Workers, Send(w) PROVE \A t \in Stages : SeqOK(t)'
  <2>0. w[1] \in Stages /\ UNCHANGED <<drained, sent>> /\ at[w] = "send"
    BY <1>19, WorkerFacts DEF Send
  <2>1. CASE chan' = chan
    BY <1>a, <2>0, <2>1
  <2>2. ASSUME NEW i, i = hold[w], chan' = [chan EXCEPT ![w[1]] = Append(@, i)]
        PROVE  \A t \in Stages : SeqOK(t)'
    <3>1. i # 0 /\ i \in Items
      <4>1. hold[w] # 0 /\ hold[w] \in 0 .. N
        BY <2>0 DEF Inv, WorkerOK, Types
      <4> QED BY <2>2, <4>1, PipelineAssumption DEF Items
    <3>2. i \in Holding(<<"hand", w>>)
      BY <2>2, <3>1, HoldingFacts
    <3>3. i \notin Holding(<<"chan", w[1]>>)
      <4>1. <<"chan", w[1]>> \in Spots /\ <<"hand", w>> \in Spots /\ <<"chan", w[1]>> # <<"hand", w>>
        BY <2>0, SpotFacts
      <4> QED BY <3>1, <3>2, <4>1 DEF Inv, OneSpot
    <3>4. \A t \in Stages : Injective(chan'[t])
      BY <2>0, <2>2, <3>1, <3>3, SendFacts
    <3> QED BY <1>0, <1>b, <2>0, <3>4
  <2> QED BY <1>19, <2>1, <2>2 DEF Send
<1>20. CASE \E g \in Goroutines : Join(g)
  BY <1>20, <1>8
<1>21. CASE \E s \in Stages : StageStep(s) \/ GateCloses(s)
  BY <1>21, <1>9, <1>10, <1>11, <1>12, <1>13, <1>14, <1>15 DEF StageStep
<1>22. CASE \E w \in Workers : WorkerStep(w)
  BY <1>22, <1>16, <1>17, <1>18, <1>19 DEF WorkerStep
<1> QED
  BY <1>1, <1>2, <1>3, <1>4, <1>5, <1>6, <1>7, <1>20, <1>21, <1>22, Zenon DEF Next

\* Nothing changes for stage t, or for worker w.
SameStage(t) ==
    /\ UNCHANGED <<phase[t], drained[t], sent[t], gate[t], life[t]>>
    /\ t \in stageErr' <=> t \in stageErr

SameWorker(w) == at'[w] = at[w] /\ hold'[w] = hold[w]

\* A stage that takes no part in a step stands where it stood.
LEMMA StageKept ==
    ASSUME Inv, Mono, NEW t \in Stages, SameStage(t) PROVE StageOK(t)'
<1>1. StageOK(t)
  BY DEF Inv
<1>2. t - 1 \in 0 .. S
  BY PipelineAssumption DEF Stages
<1>3. /\ phase'[t] = phase[t] /\ drained'[t] = drained[t] /\ sent'[t] = sent[t] /\ gate'[t] = gate[t]
      /\ (Closed(t)' <=> Closed(t)) /\ (t \in stageErr' <=> t \in stageErr)
      /\ kind' = kind /\ (Exhausted(t - 1) => Exhausted(t - 1)') /\ (Troubled => Troubled')
      /\ (t \in erred => t \in erred')
  BY <1>2 DEF SameStage, Mono, Closed
<1> QED BY <1>1, <1>3 DEF StageOK

\* So does a worker.
LEMMA WorkerKept ==
    ASSUME Inv, Mono, NEW w \in Workers, SameStage(w[1]), SameWorker(w) PROVE WorkerOK(w)'
<1>1. WorkerOK(w)
  BY DEF Inv
<1>2. w[1] \in Stages /\ w[1] - 1 \in 0 .. S
  BY WorkerFacts, PipelineAssumption DEF Stages
<1>3. /\ phase'[w[1]] = phase[w[1]] /\ gate'[w[1]] = gate[w[1]]
      /\ (Closed(w[1])' <=> Closed(w[1])) /\ (w[1] \in stageErr => w[1] \in stageErr')
      /\ kind' = kind /\ (Exhausted(w[1] - 1) => Exhausted(w[1] - 1)')
      /\ at'[w] = at[w] /\ hold'[w] = hold[w]
  BY <1>2 DEF SameStage, SameWorker, Mono, Closed
<1> QED BY <1>1, <1>3 DEF WorkerOK

\* The goroutines of the stages and their workers stand where the code puts them.
ControlOK == (\A s \in Stages : StageOK(s)) /\ (\A w \in Workers : WorkerOK(w))

\* Every step keeps the goroutines of a stage and its workers in step with each
\* other.
LEMMA ControlStep == ASSUME Inv, [Next]_vars PROVE ControlOK'
<1>m. Mono
  BY MonoStep
<1>t. /\ life \in [Goroutines -> {"running", "returned", "joined"}]
      /\ phase \in [Stages -> {"start", "drain", "nested", "emit", "work"}]
      /\ stageErr \subseteq Stages
      /\ drained \in [Stages -> Seq(Items)]
      /\ sent \in [Stages -> Nat]
      /\ gate \in [Stages -> {"none", "open", "closed"}]
      /\ at \in [Workers -> {"idle", "recv", "process", "send", "exit"}]
      /\ hold \in [Workers -> 0 .. N]
      /\ \A s \in Stages : s \in Goroutines /\ s - 1 \in 0 .. S
      /\ \A w \in Workers : w[1] \in Stages
  <2>1. \A s \in Stages : s \in Goroutines /\ s - 1 \in 0 .. S
    BY PipelineAssumption DEF Goroutines, Stages
  <2>2. \A w \in Workers : w[1] \in Stages
    BY WorkerFacts
  <2> QED BY <2>1, <2>2 DEF Inv, Types
<1>k. \A s \in Stages : kind[s] \in {"stream", "barrier", "override"}
  BY PipelineAssumption DEF Inv, Types, Stages
<1>a. ASSUME \A t \in Stages : SameStage(t), \A w \in Workers : SameWorker(w) PROVE ControlOK'
  BY <1>a, <1>m, <1>t, StageKept, WorkerKept DEF ControlOK
\* A step of stage s and its workers.
<1>b. ASSUME NEW s \in Stages,
             \A t \in Stages : t # s => SameStage(t),
             \A w \in Workers : w[1] # s => SameWorker(w),
             StageOK(s)', \A w \in Workers : w[1] = s => WorkerOK(w)'
      PROVE  ControlOK'
  BY <1>b, <1>m, <1>t, StageKept, WorkerKept DEF ControlOK
<1>c. ASSUME UNCHANGED <<stageVars, life, workerVars>> PROVE ControlOK'
  <2>1. (\A t \in Stages : SameStage(t)) /\ (\A w \in Workers : SameWorker(w))
    BY <1>c DEF SameStage, SameWorker, stageVars, workerVars
  <2> QED BY <2>1, <1>a
\* A return changes the life of one goroutine.
<1>r. ASSUME NEW g \in Goroutines, NEW failing \in BOOLEAN, Returns(g, failing)
      PROVE  \A t \in Stages : t # g => life'[t] = life[t]
  BY <1>r, <1>t, ReturnFacts
<1>1. CASE UNCHANGED vars
  BY <1>1, <1>c DEF vars, groupVars
<1>2. CASE FeederReturns
  <2>1. Feeder \in Goroutines /\ (fed < N) \in BOOLEAN /\ \A t \in Stages : t # Feeder
    BY PipelineAssumption DEF Feeder, Goroutines, Stages
  <2>2. \A t \in Stages : life'[t] = life[t]
    BY <1>2, <1>r, <2>1 DEF FeederReturns
  <2>3. (\A t \in Stages : SameStage(t)) /\ (\A w \in Workers : SameWorker(w))
    BY <1>2, <2>2 DEF FeederReturns, SameStage, SameWorker, stageVars, workerVars
  <2> QED BY <2>3, <1>a
<1>3. CASE Collect
  BY <1>3, <1>c DEF Collect, groupVars
<1>4. CASE CollectorReturns
  <2>1. Collector \in Goroutines /\ \A t \in Stages : t # Collector
    BY PipelineAssumption DEF Collector, Goroutines, Stages
  <2>2. \A t \in Stages : life'[t] = life[t]
    BY <1>4, <1>r, <2>1 DEF CollectorReturns
  <2>3. (\A t \in Stages : SameStage(t)) /\ (\A w \in Workers : SameWorker(w))
    BY <1>4, <2>2 DEF CollectorReturns, SameStage, SameWorker, stageVars, workerVars
  <2> QED BY <2>3, <1>a
<1>5. CASE RunReturns
  BY <1>5, <1>c DEF RunReturns
<1>6. CASE CallerCancels
  BY <1>6, <1>c DEF CallerCancels
<1>7. CASE ReporterFails
  BY <1>7, <1>c DEF ReporterFails
<1>8. ASSUME NEW g \in Goroutines, Join(g) PROVE ControlOK'
  <2>1. UNCHANGED <<stageVars, workerVars>> /\ life' = [life EXCEPT ![g] = "joined"]
        /\ life[g] = "returned"
    BY <1>8 DEF Join
  <2>2. \A t \in Stages : Closed(t)' <=> Closed(t)
    BY <1>t, <2>1 DEF Closed
  <2>3. ASSUME NEW t \in Stages PROVE StageOK(t)'
    <3>1. StageOK(t) /\ t - 1 \in 0 .. S
      BY <1>t DEF Inv
    <3>2. /\ UNCHANGED <<phase, drained, sent, gate, stageErr>>
          /\ kind' = kind /\ (Exhausted(t - 1) => Exhausted(t - 1)') /\ (Troubled => Troubled')
          /\ (t \in erred => t \in erred')
      BY <1>m, <2>1, <3>1 DEF Mono, stageVars
    <3> QED BY <2>2, <3>1, <3>2 DEF StageOK
  <2>4. ASSUME NEW w \in Workers PROVE WorkerOK(w)'
    <3>1. WorkerOK(w) /\ w[1] \in Stages /\ w[1] - 1 \in 0 .. S
      BY <1>t DEF Inv
    <3>2. /\ UNCHANGED <<phase, gate, stageErr, at, hold>>
          /\ kind' = kind /\ (Exhausted(w[1] - 1) => Exhausted(w[1] - 1)')
      BY <1>m, <2>1, <3>1 DEF Mono, stageVars, workerVars
    <3> QED BY <2>2, <3>1, <3>2 DEF WorkerOK
  <2> QED BY <2>3, <2>4 DEF ControlOK
<1>9. ASSUME NEW s \in Stages, GateCloses(s) PROVE ControlOK'
  <2>0. /\ UNCHANGED <<groupVars, phase, stageErr, drained, sent, at, hold, kind>>
        /\ gate[s] = "open" /\ gate'[s] = "closed" /\ \A t \in Stages : t # s => gate'[t] = gate[t]
        /\ sent[s] = Len(drained[s]) \/ CtxDone
    BY <1>9, <1>t DEF GateCloses, workerVars
  <2>1. \A t \in Stages : t # s => SameStage(t)
    BY <2>0 DEF SameStage, groupVars
  <2>2. \A w \in Workers : SameWorker(w)
    BY <2>0 DEF SameWorker
  <2>3. StageOK(s) /\ s - 1 \in 0 .. S /\ s \in Goroutines
    BY <1>t DEF Inv
  <2>4. CtxDone => Troubled
    \* Run has returned, and the barrier goroutine still runs: the stage failed.
    <3>1. ASSUME outcome # "running" PROVE groupErr
      <4>1. life[s] = "joined" /\ (s \in erred => groupErr)
        BY <2>3, <3>1 DEF Inv, GroupOK
      <4>2. CASE s \in erred
        BY <4>1, <4>2
      <4>3. CASE s \notin erred
        <5>1. s \notin stageErr /\ phase[s] = "work"
          BY <2>0, <2>3, <4>1, <4>3 DEF StageOK, Closed
        <5>2. PICK w \in Workers : w[1] = s
          BY WorkerFacts
        <5>3. at[w] = "exit"
          BY <4>1, <5>1, <5>2 DEF Inv, WorkerOK, Closed
        <5>4. gate[s] = "closed"
          BY <2>0, <2>3, <5>1, <5>2, <5>3 DEF Inv, WorkerOK, StageOK
        <5> QED BY <2>0, <5>4
      <4> QED BY <4>2, <4>3
    <3> QED BY <3>1 DEF CtxDone, Troubled
  <2>5. Exhausted(s - 1)' /\ (Troubled => Troubled') /\ (Closed(s)' <=> Closed(s))
        /\ (s \in erred => s \in erred')
    BY <1>m, <2>0, <2>3 DEF Mono, Closed, StageOK, groupVars
  <2>6. StageOK(s)'
    BY <2>0, <2>3, <2>4, <2>5 DEF StageOK
  <2>7. ASSUME NEW w \in Workers, w[1] = s PROVE WorkerOK(w)'
    <3>1. WorkerOK(w) /\ kind[s] = "barrier"
      BY <2>0, <2>3 DEF Inv, StageOK
    <3> QED BY <2>0, <2>5, <2>7, <3>1 DEF WorkerOK
  <2> QED BY <1>b, <2>1, <2>2, <2>6, <2>7
\* A stage fails that has no workers.
<1>x. ASSUME NEW s \in Stages, Returns(s, TRUE), ~Closed(s),
             UNCHANGED <<phase, stageErr, drained, sent, gate, at, hold>>, phase[s] # "work"
      PROVE  ControlOK'
  <2>0. s \in Goroutines /\ s - 1 \in 0 .. S /\ StageOK(s)
    BY <1>t DEF Inv
  <2>1. s \in erred' /\ \A t \in Stages : t # s => life'[t] = life[t]
    BY <1>r, <1>x, <2>0, ReturnFacts
  <2>2. \A t \in Stages : t # s => SameStage(t)
    BY <1>x, <2>1 DEF SameStage
  <2>3. \A w \in Workers : SameWorker(w)
    BY <1>x DEF SameWorker
  <2>4. kind' = kind /\ (Exhausted(s - 1) => Exhausted(s - 1)') /\ (Troubled => Troubled')
    BY <1>m, <2>0 DEF Mono
  <2>5. StageOK(s)'
    BY <1>x, <2>0, <2>1, <2>4 DEF StageOK
  <2>6. ASSUME NEW w \in Workers, w[1] = s PROVE WorkerOK(w)'
    <3>1. WorkerOK(w)
      BY DEF Inv
    <3> QED BY <1>x, <2>4, <2>6, <3>1 DEF WorkerOK
  <2> QED BY <1>b, <2>2, <2>3, <2>5, <2>6
\* The workers of a stage start.
<1>y. ASSUME NEW s \in Stages, phase[s] # "work", ~Closed(s), UNCHANGED <<stageErr, hold, life>>,
             phase' = [phase EXCEPT ![s] = "work"],
             at' = [w \in Workers |-> IF w[1] = s THEN "recv" ELSE at[w]]
      PROVE  \A w \in Workers : w[1] = s => WorkerOK(w)'
  <2> SUFFICES ASSUME NEW w \in Workers, w[1] = s PROVE WorkerOK(w)'
    OBVIOUS
  <2>1. WorkerOK(w) /\ phase'[s] = "work" /\ at'[w] = "recv" /\ hold'[w] = hold[w]
    BY <1>t, <1>y DEF Inv
  <2>2. at[w] = "idle" /\ hold[w] = 0
    BY <1>y, <2>1 DEF WorkerOK
  <2>3. ~Closed(s)'
    BY <1>y DEF Closed
  <2> QED BY <2>1, <2>2, <2>3 DEF WorkerOK
<1>10. ASSUME NEW s \in Stages, StageStarts(s) PROVE ControlOK'
  <2>0. /\ phase[s] = "start" /\ ~Closed(s) /\ UNCHANGED <<stageErr, drained, sent, gate, hold>>
        /\ StageOK(s) /\ s - 1 \in 0 .. S
    BY <1>10, <1>t DEF StageStarts, Closed, Inv
  <2>1. CASE Returns(s, TRUE) /\ UNCHANGED <<phase, at>>
    BY <1>x, <2>0, <2>1
  <2>a. ASSUME UNCHANGED groupVars PROVE ~Returns(s, TRUE)
    <3>1. life[s] = "running" /\ life' = life
      BY <1>10, <2>a DEF StageStarts, groupVars
    <3>2. Returns(s, TRUE) => life'[s] = "returned"
      BY <1>t, ReturnFacts
    <3> QED BY <3>1, <3>2
  <2>2. CASE UNCHANGED groupVars /\ kind[s] = "stream"
    <3>1. /\ phase' = [phase EXCEPT ![s] = "work"]
          /\ at' = [w \in Workers |-> IF w[1] = s THEN "recv" ELSE at[w]]
      BY <1>10, <2>a, <2>2 DEF StageStarts
    <3>2. life' = life /\ erred' = erred
      BY <2>2 DEF groupVars
    <3>3. \A t \in Stages : t # s => SameStage(t)
      BY <1>t, <2>0, <3>1, <3>2 DEF SameStage
    <3>4. \A w \in Workers : w[1] # s => SameWorker(w)
      BY <2>0, <3>1 DEF SameWorker
    <3>5. phase'[s] = "work" /\ kind' = kind /\ ~Closed(s)'
      BY <1>t, <1>m, <2>0, <3>1, <3>2 DEF Mono, Closed
    <3>6. StageOK(s)'
      BY <2>0, <2>2, <3>5 DEF StageOK
    <3>7. \A w \in Workers : w[1] = s => WorkerOK(w)'
      BY <1>y, <2>0, <3>1, <3>2
    <3> QED BY <1>b, <3>3, <3>4, <3>6, <3>7
  <2>3. CASE UNCHANGED groupVars /\ kind[s] # "stream"
    <3>1. phase' = [phase EXCEPT ![s] = "drain"] /\ at' = at
      BY <1>10, <2>a, <2>3 DEF StageStarts
    <3>2. life' = life /\ erred' = erred
      BY <2>3 DEF groupVars
    <3>3. \A t \in Stages : t # s => SameStage(t)
      BY <1>t, <2>0, <3>1, <3>2 DEF SameStage
    <3>4. \A w \in Workers : SameWorker(w)
      BY <2>0, <3>1 DEF SameWorker
    <3>5. phase'[s] = "drain" /\ kind' = kind /\ ~Closed(s)'
      BY <1>t, <1>m, <2>0, <3>1, <3>2 DEF Mono, Closed
    <3>6. StageOK(s)'
      BY <2>0, <2>3, <3>5 DEF StageOK
    <3>7. ASSUME NEW w \in Workers, w[1] = s PROVE WorkerOK(w)'
      <4>1. WorkerOK(w) /\ at'[w] = at[w] /\ hold'[w] = hold[w]
        BY <2>0, <3>1 DEF Inv
      <4> QED BY <2>0, <3>5, <3>7, <4>1 DEF WorkerOK
    <3> QED BY <1>b, <3>3, <3>4, <3>6, <3>7
  <2> QED BY <1>10, <2>1, <2>2, <2>3 DEF StageStarts
<1>11. ASSUME NEW s \in Stages, Drain(s) PROVE ControlOK'
  <2>0. /\ phase[s] = "drain" /\ ~Closed(s) /\ StageOK(s)
        /\ UNCHANGED <<groupVars, phase, stageErr, sent, gate, at, hold>>
    BY <1>11 DEF Drain, Closed, workerVars, Inv
  <2>1. \A t \in Stages : t # s => drained'[t] = drained[t]
    BY <1>11, <1>t DEF Drain
  <2>2. \A t \in Stages : t # s => SameStage(t)
    BY <2>0, <2>1 DEF SameStage, groupVars
  <2>3. \A w \in Workers : SameWorker(w)
    BY <2>0 DEF SameWorker
  <2>4. kind' = kind /\ ~Closed(s)' /\ UNCHANGED <<phase, stageErr, sent, gate>>
    BY <1>m, <2>0 DEF Mono, Closed, groupVars
  <2>5. StageOK(s)'
    BY <2>0, <2>4 DEF StageOK
  <2>6. ASSUME NEW w \in Workers, w[1] = s PROVE WorkerOK(w)'
    <3>1. WorkerOK(w) /\ at'[w] = at[w] /\ hold'[w] = hold[w]
      BY <2>0 DEF Inv
    <3> QED BY <2>0, <2>4, <2>6, <3>1 DEF WorkerOK
  <2> QED BY <1>b, <2>2, <2>3, <2>5, <2>6
<1>12. ASSUME NEW s \in Stages, Drained(s) PROVE ControlOK'
  <2>0. /\ phase[s] = "drain" /\ ~Closed(s) /\ UNCHANGED <<stageErr, drained, sent, hold>>
        /\ StageOK(s) /\ s - 1 \in 0 .. S /\ Exhausted(s - 1)
    BY <1>12, <1>t DEF Drained, Closed, Inv
  <2>1. CASE Returns(s, TRUE) /\ UNCHANGED <<phase, gate, at>>
    BY <1>x, <2>0, <2>1
  <2>a. kind' = kind /\ Exhausted(s - 1)'
    BY <1>m, <2>0 DEF Mono
  <2>2. CASE UNCHANGED groupVars /\ kind[s] = "barrier"
    <3>1. /\ phase' = [phase EXCEPT ![s] = "work"]
          /\ gate' = [gate EXCEPT ![s] = "open"]
          /\ at' = [w \in Workers |-> IF w[1] = s THEN "recv" ELSE at[w]]
      <4>1. CASE ~CtxDone
        BY <1>12, <2>2, <4>1 DEF Drained
      <4>2. CASE CtxDone
        <5>1. life' = [life EXCEPT ![s] = "returned"]
          BY <1>12, <4>2 DEF Drained, Returns
        <5> QED BY <1>t, <2>0, <2>2, <5>1 DEF groupVars, Closed
      <4> QED BY <4>1, <4>2
    <3>2. life' = life /\ erred' = erred
      BY <2>2 DEF groupVars
    <3>3. \A t \in Stages : t # s => SameStage(t)
      BY <1>t, <2>0, <3>1, <3>2 DEF SameStage
    <3>4. \A w \in Workers : w[1] # s => SameWorker(w)
      BY <2>0, <3>1 DEF SameWorker
    <3>5. phase'[s] = "work" /\ ~Closed(s)' /\ gate'[s] = "open"
      BY <1>t, <2>0, <3>1, <3>2 DEF Closed
    <3>6. StageOK(s)'
      BY <2>0, <2>a, <2>2, <3>5 DEF StageOK
    <3>7. \A w \in Workers : w[1] = s => WorkerOK(w)'
      BY <1>y, <2>0, <3>1, <3>2
    <3> QED BY <1>b, <3>3, <3>4, <3>6, <3>7
  <2>3. CASE UNCHANGED groupVars /\ kind[s] # "barrier"
    <3>1. phase' = [phase EXCEPT ![s] = "nested"] /\ UNCHANGED <<gate, at>>
      <4>1. CASE ~CtxDone
        BY <1>12, <2>3, <4>1 DEF Drained
      <4>2. CASE CtxDone
        <5>1. life' = [life EXCEPT ![s] = "returned"]
          BY <1>12, <4>2 DEF Drained, Returns
        <5> QED BY <1>t, <2>0, <2>3, <5>1 DEF groupVars, Closed
      <4> QED BY <4>1, <4>2
    <3>2. life' = life /\ erred' = erred
      BY <2>3 DEF groupVars
    <3>3. \A t \in Stages : t # s => SameStage(t)
      BY <1>t, <2>0, <3>1, <3>2 DEF SameStage
    <3>4. \A w \in Workers : SameWorker(w)
      BY <2>0, <3>1 DEF SameWorker
    <3>5. phase'[s] = "nested" /\ ~Closed(s)' /\ gate'[s] = gate[s] /\ kind[s] = "override"
      BY <1>t, <1>k, <2>0, <2>3, <3>1, <3>2 DEF Closed, StageOK
    <3>6. StageOK(s)'
      BY <2>0, <2>a, <2>3, <3>5 DEF StageOK
    <3>7. ASSUME NEW w \in Workers, w[1] = s PROVE WorkerOK(w)'
      <4>1. WorkerOK(w) /\ at'[w] = at[w] /\ hold'[w] = hold[w]
        BY <2>0, <3>1 DEF Inv
      <4> QED BY <2>0, <3>5, <3>7, <4>1 DEF WorkerOK
    <3> QED BY <1>b, <3>3, <3>4, <3>6, <3>7
  <2> QED BY <1>12, <2>1, <2>2, <2>3 DEF Drained
<1>13. ASSUME NEW s \in Stages, NestedRun(s) PROVE ControlOK'
  <2>0. /\ phase[s] = "nested" /\ ~Closed(s) /\ UNCHANGED <<stageErr, sent, gate, at, hold>>
        /\ StageOK(s) /\ s - 1 \in 0 .. S
    BY <1>13, <1>t DEF NestedRun, Closed, workerVars, Inv
  <2>1. CASE Returns(s, TRUE) /\ UNCHANGED <<phase, drained, itemVars>>
    BY <1>x, <2>0, <2>1
  <2>2. ASSUME UNCHANGED groupVars, phase' = [phase EXCEPT ![s] = "emit"],
               NEW order, drained' = [drained EXCEPT ![s] = [p \in DOMAIN @ |-> @[order[p]]]]
        PROVE  ControlOK'
    <3>2. life' = life /\ erred' = erred
      BY <2>2 DEF groupVars
    <3>3. \A t \in Stages : t # s => SameStage(t)
      <4>1. \A t \in Stages : t # s => drained'[t] = drained[t] /\ phase'[t] = phase[t]
        BY <1>t, <2>2
      <4> QED BY <2>0, <3>2, <4>1 DEF SameStage
    <3>4. \A w \in Workers : SameWorker(w)
      BY <2>0 DEF SameWorker
    <3>5. phase'[s] = "emit" /\ ~Closed(s)' /\ kind' = kind /\ kind[s] = "override"
          /\ (Exhausted(s - 1) => Exhausted(s - 1)')
      BY <1>t, <1>m, <2>0, <2>2, <3>2 DEF Closed, StageOK, Mono
    <3>6. StageOK(s)'
      BY <2>0, <3>5 DEF StageOK
    <3>7. ASSUME NEW w \in Workers, w[1] = s PROVE WorkerOK(w)'
      <4>1. WorkerOK(w) /\ at'[w] = at[w] /\ hold'[w] = hold[w]
        BY <2>0 DEF Inv
      <4> QED BY <2>0, <3>5, <3>7, <4>1 DEF WorkerOK
    <3> QED BY <1>b, <3>3, <3>4, <3>6, <3>7
  <2> QED BY <1>13, <2>1, <2>2 DEF NestedRun
<1>14. ASSUME NEW s \in Stages, Emit(s) PROVE ControlOK'
  <2>0. /\ phase[s] = "emit" /\ ~Closed(s) /\ UNCHANGED <<phase, stageErr, drained, gate, at, hold>>
        /\ StageOK(s) /\ s - 1 \in 0 .. S
    BY <1>14, <1>t DEF Emit, Closed, workerVars, Inv
  <2>1. CASE Returns(s, TRUE) /\ sent' = sent
    BY <1>x, <2>0, <2>1
  <2>2. CASE UNCHANGED groupVars /\ sent' = [sent EXCEPT ![s] = @ + 1]
    <3>2. life' = life /\ erred' = erred
      BY <2>2 DEF groupVars
    <3>3. \A t \in Stages : t # s => SameStage(t)
      BY <1>t, <2>0, <2>2, <3>2 DEF SameStage
    <3>4. \A w \in Workers : SameWorker(w)
      BY <2>0 DEF SameWorker
    <3>5. /\ phase'[s] = "emit" /\ ~Closed(s)' /\ kind' = kind /\ gate[s] = "none"
          /\ (Exhausted(s - 1) => Exhausted(s - 1)')
      BY <1>m, <2>0, <3>2 DEF Closed, StageOK, Mono
    <3>6. StageOK(s)'
      BY <2>0, <3>5 DEF StageOK
    <3>7. ASSUME NEW w \in Workers, w[1] = s PROVE WorkerOK(w)'
      <4>1. WorkerOK(w) /\ at'[w] = at[w] /\ hold'[w] = hold[w]
        BY <2>0 DEF Inv
      <4> QED BY <2>0, <3>5, <3>7, <4>1 DEF WorkerOK
    <3> QED BY <1>b, <3>3, <3>4, <3>6, <3>7
  <2> QED BY <1>14, <2>1, <2>2 DEF Emit
<1>15. ASSUME NEW s \in Stages, StageReturns(s) PROVE ControlOK'
  <2>0. /\ ~Closed(s) /\ UNCHANGED <<phase, stageErr, drained, sent, gate, at, hold>>
        /\ StageOK(s) /\ s - 1 \in 0 .. S /\ s \in Goroutines
        /\ \/ phase[s] = "work" /\ \A w \in Of(s) : at[w] = "exit"
           \/ phase[s] = "emit" /\ sent[s] = Len(drained[s])
    BY <1>15, <1>t DEF StageReturns, Closed, stageVars, workerVars, Inv
  <2>1. (\A t \in Stages : t # s => life'[t] = life[t]) /\ (s \in stageErr => s \in erred')
    <3>1. (s \in stageErr) \in BOOLEAN /\ TRUE \in BOOLEAN
      OBVIOUS
    <3> QED BY <1>15, <1>r, <2>0, <3>1, ReturnFacts DEF StageReturns
  <2>2. \A t \in Stages : t # s => SameStage(t)
    BY <2>0, <2>1 DEF SameStage
  <2>3. \A w \in Workers : SameWorker(w)
    BY <2>0 DEF SameWorker
  <2>4. kind' = kind /\ (Exhausted(s - 1) => Exhausted(s - 1)') /\ (Troubled => Troubled')
    BY <1>m, <2>0 DEF Mono
  <2>5. StageOK(s)'
    BY <2>0, <2>1, <2>4 DEF StageOK
  <2>6. ASSUME NEW w \in Workers, w[1] = s PROVE WorkerOK(w)'
    <3>1. WorkerOK(w) /\ at'[w] = at[w] /\ hold'[w] = hold[w]
      BY <2>0 DEF Inv
    <3>2. at[w] \in {"idle", "exit"}
      BY <1>t, <2>0, <2>6, <3>1 DEF WorkerOK, Of
    <3> QED BY <2>0, <2>4, <2>6, <3>1, <3>2 DEF WorkerOK
  <2> QED BY <1>b, <2>2, <2>3, <2>5, <2>6
\* A step of one worker of a stage at work.
<1>z. ASSUME NEW w \in Workers, WorkerOK(w)', at[w] \notin {"idle", "exit"},
             UNCHANGED <<groupVars, phase, drained, gate>>,
             \A t \in Stages : t # w[1] => sent'[t] = sent[t],
             gate[w[1]] = "closed" => sent'[w[1]] = sent[w[1]],
             stageErr' \subseteq stageErr \cup {w[1]},
             \A v \in Workers : v # w => at'[v] = at[v] /\ hold'[v] = hold[v]
      PROVE  ControlOK'
  <2> DEFINE s == w[1]
  <2>0. /\ s \in Stages /\ StageOK(s) /\ s - 1 \in 0 .. S /\ WorkerOK(w)
    BY <1>t DEF Inv
  <2> HIDE DEF s
  <2>1. phase[s] = "work" /\ ~Closed(s) /\ ~Closed(s)'
    BY <1>z, <2>0 DEF WorkerOK, s, groupVars, Closed
  <2>2. \A t \in Stages : t # s => SameStage(t)
    BY <1>z, <1>m DEF SameStage, groupVars, s, Mono
  <2>3. \A v \in Workers : v[1] # s => SameWorker(v)
    BY <1>z DEF SameWorker, s
  <2>4. kind' = kind /\ (Exhausted(s - 1) => Exhausted(s - 1)') /\ (Troubled => Troubled')
        /\ stageErr \subseteq stageErr'
    BY <1>m, <2>0 DEF Mono
  <2>5. StageOK(s)'
    <3>1. /\ phase'[s] = "work" /\ gate'[s] = gate[s] /\ drained'[s] = drained[s]
          /\ (gate[s] = "closed" => sent'[s] = sent[s])
      BY <1>z, <2>1 DEF s
    <3> QED BY <2>0, <2>1, <2>4, <3>1 DEF StageOK
  <2>6. ASSUME NEW v \in Workers, v[1] = s PROVE WorkerOK(v)'
    <3>1. CASE v = w
      BY <1>z, <3>1
    <3>2. CASE v # w
      <4>1. WorkerOK(v) /\ at'[v] = at[v] /\ hold'[v] = hold[v]
        BY <1>z, <3>2 DEF Inv
      <4>2. phase'[s] = phase[s] /\ gate'[s] = gate[s]
        BY <1>z
      <4> QED BY <2>1, <2>4, <2>6, <4>1, <4>2 DEF WorkerOK
    <3> QED BY <3>1, <3>2
  <2> QED BY <1>b, <2>0, <2>2, <2>3, <2>5, <2>6
<1>p. ASSUME NEW w \in Workers, at[w] \notin {"idle", "exit"}, UNCHANGED <<groupVars, phase, gate>>
      PROVE  /\ w[1] \in Stages /\ WorkerOK(w)
             /\ phase'[w[1]] = "work" /\ ~Closed(w[1])' /\ kind' = kind /\ gate'[w[1]] = gate[w[1]]
             /\ (Exhausted(w[1] - 1) => Exhausted(w[1] - 1)')
  <2>1. w[1] \in Stages /\ w[1] - 1 \in 0 .. S /\ WorkerOK(w)
    BY <1>t DEF Inv
  <2>2. phase'[w[1]] = "work" /\ ~Closed(w[1])'
    BY <1>p, <2>1 DEF WorkerOK, Closed, groupVars
  <2> QED BY <1>m, <1>p, <2>1, <2>2 DEF Mono
\* A worker fails.
<1>f. ASSUME NEW w \in Workers, WorkerErr(w), at[w] \notin {"idle", "exit"},
             UNCHANGED <<groupVars, phase, drained, sent, gate, hold>>
      PROVE  ControlOK'
  <2>1. /\ at'[w] = "exit" /\ \A v \in Workers : v # w => at'[v] = at[v]
        /\ w[1] \in stageErr' /\ stageErr' = stageErr \cup {w[1]}
    BY <1>f, <1>t DEF WorkerErr
  <2>2. WorkerOK(w)'
    BY <1>f, <1>p, <2>1 DEF WorkerOK
  <2> QED BY <1>f, <1>z, <2>1, <2>2
<1>16. ASSUME NEW w \in Workers, WorkerReceives(w) PROVE ControlOK'
  <2>0. /\ at[w] = "recv" /\ UNCHANGED <<groupVars, phase, stageErr, drained, gate>>
        /\ w[1] \in Stages
    BY <1>16, <1>t DEF WorkerReceives
  <2>1. /\ \A t \in Stages : t # w[1] => sent'[t] = sent[t]
        /\ gate[w[1]] = "closed" => sent'[w[1]] = sent[w[1]]
    BY <1>16, <1>t, <2>0 DEF WorkerReceives
  <2>2. PICK i \in Items :
          /\ hold' = [hold EXCEPT ![w] = i]
          /\ at' = [at EXCEPT ![w] = IF i \in flagged THEN "send" ELSE "process"]
    BY <1>16 DEF WorkerReceives
  <2>3. /\ at'[w] \in {"send", "process"} /\ hold'[w] # 0
        /\ \A v \in Workers : v # w => at'[v] = at[v] /\ hold'[v] = hold[v]
    BY <1>t, <2>2 DEF Items
  <2>4. WorkerOK(w)'
    BY <1>p, <2>0, <2>3 DEF WorkerOK
  <2> QED BY <1>z, <2>0, <2>1, <2>3, <2>4
<1>17. ASSUME NEW w \in Workers, WorkerEnds(w) PROVE ControlOK'
  <2>0. /\ at[w] = "recv" /\ UNCHANGED <<groupVars, phase, stageErr, drained, sent, gate, hold>>
        /\ at'[w] = "exit" /\ \A v \in Workers : v # w => at'[v] = at[v]
        /\ IF kind[w[1]] = "barrier" THEN gate[w[1]] = "closed" ELSE Exhausted(w[1] - 1)
    BY <1>17, <1>t DEF WorkerEnds, stageVars
  <2>1. hold'[w] = 0
    BY <2>0, <1>p DEF WorkerOK
  <2>2. WorkerOK(w)'
    BY <1>p, <2>0, <2>1 DEF WorkerOK
  <2> QED BY <1>z, <2>0, <2>2
<1>18. ASSUME NEW w \in Workers, Process(w) PROVE ControlOK'
  <2>0. at[w] = "process" /\ UNCHANGED <<groupVars, phase, drained, sent, gate, hold>>
    BY <1>18 DEF Process
  <2>1. CASE WorkerErr(w)
    BY <1>f, <2>0, <2>1
  <2>2. CASE at' = [at EXCEPT ![w] = "send"] /\ stageErr' = stageErr
    <3>1. at'[w] = "send" /\ \A v \in Workers : v # w => at'[v] = at[v]
      BY <1>t, <2>2
    <3>2. WorkerOK(w)'
      BY <1>p, <2>0, <3>1 DEF WorkerOK
    <3> QED BY <1>z, <2>0, <2>2, <3>1, <3>2
  <2> QED BY <1>18, <2>1, <2>2 DEF Process
<1>19. ASSUME NEW w \in Workers, Send(w) PROVE ControlOK'
  <2>0. at[w] = "send" /\ UNCHANGED <<groupVars, phase, drained, sent, gate>>
    BY <1>19 DEF Send
  <2>1. CASE WorkerErr(w) /\ hold' = hold
    BY <1>f, <2>0, <2>1
  <2>2. CASE at' = [at EXCEPT ![w] = "recv"] /\ hold' = [hold EXCEPT ![w] = 0] /\ stageErr' = stageErr
    <3>1. /\ at'[w] = "recv" /\ hold'[w] = 0
          /\ \A v \in Workers : v # w => at'[v] = at[v] /\ hold'[v] = hold[v]
      BY <1>t, <2>2
    <3>2. WorkerOK(w)'
      BY <1>p, <2>0, <3>1 DEF WorkerOK
    <3> QED BY <1>z, <2>0, <2>2, <3>1, <3>2
  <2> QED BY <1>19, <2>1, <2>2 DEF Send
<1>20. CASE \E g \in Goroutines : Join(g)
  BY <1>20, <1>8
<1>21. CASE \E s \in Stages : StageStep(s) \/ GateCloses(s)
  BY <1>21, <1>9, <1>10, <1>11, <1>12, <1>13, <1>14, <1>15 DEF StageStep
<1>22. CASE \E w \in Workers : WorkerStep(w)
  BY <1>22, <1>16, <1>17, <1>18, <1>19 DEF WorkerStep
<1> QED
  BY <1>1, <1>2, <1>3, <1>4, <1>5, <1>6, <1>7, <1>20, <1>21, <1>22, Zenon DEF Next

\* Errors reach the errgroup, and Run returns when every goroutine is joined.
LEMMA GroupStep == ASSUME Inv, [Next]_vars PROVE GroupOK'
<1>m. Mono
  BY MonoStep
<1>g. GroupOK
  BY DEF Inv
<1>t. /\ life \in [Goroutines -> {"running", "returned", "joined"}] /\ erred \subseteq Goroutines
      /\ fed \in 0 .. N /\ N \in Nat
      /\ Feeder \in Goroutines /\ Collector \in Goroutines /\ Feeder # Collector
      /\ \A s \in Stages : s \in Goroutines /\ s # Feeder /\ s # Collector
      /\ Feeder \in 0 .. S /\ S \in 0 .. S
  <2>1. /\ life \in [Goroutines -> {"running", "returned", "joined"}] /\ erred \subseteq Goroutines
        /\ fed \in 0 .. N /\ N \in Nat
    BY PipelineAssumption DEF Inv, Types
  <2> QED BY <2>1, PipelineAssumption DEF Feeder, Collector, Goroutines, Stages
<1>e. (Exhausted(S) => Exhausted(S)') /\ (Closed(Feeder) => fed' = fed)
  BY <1>m, <1>t DEF Mono
<1>a. ASSUME UNCHANGED groupVars PROVE GroupOK'
  <2>1. UNCHANGED <<canceled, reporter, groupErr, life, erred, outcome>>
    BY <1>a DEF groupVars
  <2>2. (Closed(Feeder)' <=> Closed(Feeder)) /\ (Closed(Collector)' <=> Closed(Collector))
    BY <2>1 DEF Closed, Feeder, Collector
  <2> QED BY <1>g, <1>e, <2>1, <2>2 DEF GroupOK
<1>r. ASSUME NEW g \in Goroutines, NEW failing \in BOOLEAN, Returns(g, failing), life[g] = "running",
             g = Feeder /\ ~failing => fed' = N, g = Collector => Exhausted(S)
      PROVE  GroupOK'
  <2>1. /\ life'[g] = "returned" /\ \A h \in Goroutines : h # g => life'[h] = life[h]
        /\ erred \subseteq erred' /\ erred' \subseteq erred \cup {g} /\ erred' \subseteq Goroutines
        /\ (failing => g \in erred')
        /\ UNCHANGED <<canceled, reporter, groupErr, outcome>>
    BY <1>r, ReturnFacts
  <2>2. g \notin erred /\ outcome = "running"
    BY <1>r, <1>g DEF GroupOK
  <2>3. \A h \in erred' : life'[h] # "running" /\ (life'[h] = "joined" => groupErr')
    BY <1>g, <2>1, <2>2 DEF GroupOK
  <2>4. Closed(Feeder)' /\ Feeder \notin erred' => fed' = N
    <3>1. CASE g = Feeder
      BY <1>r, <2>1, <3>1
    <3>2. CASE g # Feeder
      BY <1>g, <1>e, <1>t, <2>1, <3>2 DEF GroupOK, Closed, Feeder
    <3> QED BY <3>1, <3>2
  <2>5. Closed(Collector)' => Exhausted(S)'
    <3>1. CASE g = Collector
      BY <1>r, <1>e, <3>1
    <3>2. CASE g # Collector
      BY <1>g, <1>e, <1>t, <2>1, <3>2 DEF GroupOK, Closed, Collector
    <3> QED BY <3>1, <3>2
  <2> QED BY <2>1, <2>2, <2>3, <2>4, <2>5 DEF GroupOK
<1>s. ASSUME NEW s \in Stages, NEW failing \in BOOLEAN, Returns(s, failing), life[s] = "running"
      PROVE  GroupOK'
  BY <1>r, <1>s, <1>t
<1>1. CASE UNCHANGED vars
  BY <1>1, <1>a DEF vars
<1>2. CASE FeederReturns
  <2>1. (fed < N) \in BOOLEAN /\ (~(fed < N) => fed = N) /\ fed' = fed
    BY <1>2, <1>t DEF FeederReturns
  <2> QED BY <1>2, <1>r, <1>t, <2>1 DEF FeederReturns
<1>3. CASE Collect
  BY <1>3, <1>a DEF Collect
<1>4. CASE CollectorReturns
  BY <1>4, <1>r, <1>t DEF CollectorReturns
<1>5. CASE RunReturns
  <2>1. /\ UNCHANGED <<reporter, groupErr, life, erred>>
        /\ \A g \in Goroutines : life[g] = "joined"
        /\ outcome' = IF groupErr \/ reporter = "failed" THEN "failed" ELSE "ok"
    BY <1>5 DEF RunReturns
  <2>2. (Closed(Feeder)' <=> Closed(Feeder)) /\ (Closed(Collector)' <=> Closed(Collector))
    BY <2>1 DEF Closed, Feeder, Collector
  <2>3. outcome' = "ok" => ~groupErr' /\ reporter' # "failed"
    BY <2>1
  <2> QED BY <1>g, <1>e, <2>1, <2>2, <2>3 DEF GroupOK
<1>6. CASE CallerCancels
  <2>1. UNCHANGED <<reporter, groupErr, life, erred, outcome>>
    BY <1>6 DEF CallerCancels
  <2>2. (Closed(Feeder)' <=> Closed(Feeder)) /\ (Closed(Collector)' <=> Closed(Collector))
    BY <2>1 DEF Closed, Feeder, Collector
  <2> QED BY <1>g, <1>e, <2>1, <2>2 DEF GroupOK
<1>7. CASE ReporterFails
  <2>1. UNCHANGED <<groupErr, life, erred, outcome>> /\ outcome = "running"
    BY <1>7 DEF ReporterFails
  <2>2. (Closed(Feeder)' <=> Closed(Feeder)) /\ (Closed(Collector)' <=> Closed(Collector))
    BY <2>1 DEF Closed, Feeder, Collector
  <2> QED BY <1>g, <1>e, <2>1, <2>2 DEF GroupOK
<1>8. ASSUME NEW g \in Goroutines, Join(g) PROVE GroupOK'
  <2>1. /\ UNCHANGED <<reporter, erred, outcome>> /\ life[g] = "returned"
        /\ life'[g] = "joined" /\ \A h \in Goroutines : h # g => life'[h] = life[h]
        /\ groupErr' = (groupErr \/ g \in erred)
    BY <1>8, <1>t DEF Join
  <2>2. (Closed(Feeder)' <=> Closed(Feeder)) /\ (Closed(Collector)' <=> Closed(Collector))
    BY <1>t, <2>1 DEF Closed, Feeder, Collector
  <2>3. outcome = "running"
    BY <1>g, <2>1 DEF GroupOK
  <2>4. \A h \in erred' : life'[h] # "running" /\ (life'[h] = "joined" => groupErr')
    BY <1>g, <1>t, <2>1 DEF GroupOK
  <2> QED BY <1>g, <1>e, <2>1, <2>2, <2>3, <2>4 DEF GroupOK
<1>9. ASSUME NEW s \in Stages, GateCloses(s) PROVE GroupOK'
  BY <1>9, <1>a DEF GateCloses
<1>10. ASSUME NEW s \in Stages, StageStarts(s) PROVE GroupOK'
  BY <1>10, <1>a, <1>s DEF StageStarts
<1>11. ASSUME NEW s \in Stages, Drain(s) PROVE GroupOK'
  BY <1>11, <1>a DEF Drain
<1>12. ASSUME NEW s \in Stages, Drained(s) PROVE GroupOK'
  BY <1>12, <1>a, <1>s DEF Drained
<1>13. ASSUME NEW s \in Stages, NestedRun(s) PROVE GroupOK'
  BY <1>13, <1>a, <1>s DEF NestedRun
<1>14. ASSUME NEW s \in Stages, Emit(s) PROVE GroupOK'
  BY <1>14, <1>a, <1>s DEF Emit
<1>15. ASSUME NEW s \in Stages, StageReturns(s) PROVE GroupOK'
  <2>1. (s \in stageErr) \in BOOLEAN /\ TRUE \in BOOLEAN
    OBVIOUS
  <2> QED BY <1>15, <1>s, <2>1 DEF StageReturns
<1>16. ASSUME NEW w \in Workers, WorkerReceives(w) PROVE GroupOK'
  BY <1>16, <1>a DEF WorkerReceives
<1>17. ASSUME NEW w \in Workers, WorkerEnds(w) PROVE GroupOK'
  BY <1>17, <1>a DEF WorkerEnds
<1>18. ASSUME NEW w \in Workers, Process(w) PROVE GroupOK'
  BY <1>18, <1>a DEF Process
<1>19. ASSUME NEW w \in Workers, Send(w) PROVE GroupOK'
  BY <1>19, <1>a DEF Send
<1>20. CASE \E g \in Goroutines : Join(g)
  BY <1>20, <1>8
<1>21. CASE \E s \in Stages : StageStep(s) \/ GateCloses(s)
  BY <1>21, <1>9, <1>10, <1>11, <1>12, <1>13, <1>14, <1>15 DEF StageStep
<1>22. CASE \E w \in Workers : WorkerStep(w)
  BY <1>22, <1>16, <1>17, <1>18, <1>19 DEF WorkerStep
<1> QED
  BY <1>1, <1>2, <1>3, <1>4, <1>5, <1>6, <1>7, <1>20, <1>21, <1>22, Zenon DEF Next

------------------------------------------------------------------------------
(* What closed channels and waiting stages say                               *)

\* The runner of stage s has nothing left to do.
StageDone(s) ==
    \/ phase[s] = "work" /\ \A w \in Of(s) : at[w] = "exit"
    \/ phase[s] = "emit" /\ sent[s] = Len(drained[s])

\* A channel is closed by the feeder, by a failing stage, or by a stage that is
\* done; a barrier opens when its stage has drained its input; a stage does not
\* go back to waiting.
LEMMA ChangeStep ==
    ASSUME Inv, [Next]_vars
    PROVE  /\ \A c \in 0 .. S : Closed(c)' /\ ~Closed(c) =>
                c = 0 \/ c \in erred' \/ (StageDone(c) /\ c \notin stageErr)
           /\ \A s \in Stages : gate'[s] # "none" =>
                /\ drained'[s] = drained[s]
                /\ gate[s] # "none" \/ (phase[s] = "drain" /\ Exhausted(s - 1) /\ ~CtxDone)
           /\ \A s \in Stages : phase'[s] \in {"start", "drain", "nested"} =>
                phase[s] \in {"start", "drain", "nested"}
<1> DEFINE Closing == \A c \in 0 .. S : Closed(c)' /\ ~Closed(c) =>
                        c = 0 \/ c \in erred' \/ (StageDone(c) /\ c \notin stageErr)
           Opening == \A s \in Stages : gate'[s] # "none" =>
                        /\ drained'[s] = drained[s]
                        /\ gate[s] # "none" \/ (phase[s] = "drain" /\ Exhausted(s - 1) /\ ~CtxDone)
           Starting == \A s \in Stages : phase'[s] \in {"start", "drain", "nested"} =>
                        phase[s] \in {"start", "drain", "nested"}
<1>t. /\ life \in [Goroutines -> {"running", "returned", "joined"}] /\ erred \subseteq Goroutines
      /\ phase \in [Stages -> {"start", "drain", "nested", "emit", "work"}]
      /\ drained \in [Stages -> Seq(Items)]
      /\ gate \in [Stages -> {"none", "open", "closed"}]
      /\ \A s \in Stages : gate[s] # "none" => phase[s] = "work"
  BY DEF Inv, Types, StageOK
<1>n. /\ Feeder = 0 /\ Feeder \in Goroutines /\ Collector \in Goroutines /\ Collector \notin 0 .. S
      /\ \A c \in 0 .. S : c \in Goroutines /\ (c # 0 => c \in Stages)
      /\ \A s \in Stages : s \in Goroutines
  BY PipelineAssumption DEF Feeder, Collector, Goroutines, Stages
<1>a. ASSUME UNCHANGED life PROVE Closing
  BY <1>a DEF Closed
<1>r. ASSUME NEW g \in Goroutines, NEW failing \in BOOLEAN, Returns(g, failing),
             failing \/ g = 0 \/ g \notin 0 .. S \/ (StageDone(g) /\ g \notin stageErr)
      PROVE  Closing
  <2>1. (\A h \in Goroutines : h # g => life'[h] = life[h]) /\ (failing => g \in erred')
    BY <1>r, ReturnFacts
  <2>2. \A c \in 0 .. S : Closed(c)' /\ ~Closed(c) => c = g
    BY <1>n, <2>1 DEF Closed
  <2> QED BY <1>r, <2>1, <2>2
<1>o. ASSUME UNCHANGED <<gate, drained>> PROVE Opening
  BY <1>o
<1>p. ASSUME UNCHANGED phase PROVE Starting
  BY <1>p
<1>q. ASSUME NEW s \in Stages, phase[s] \in {"start", "drain", "nested"}, NEW v,
             phase' = [phase EXCEPT ![s] = v]
      PROVE  Starting
  BY <1>q, <1>t
<1> HIDE DEF Closing, Opening, Starting
<1>1. ASSUME UNCHANGED vars PROVE Closing /\ Opening /\ Starting
  BY <1>1, <1>a, <1>o, <1>p DEF vars, groupVars, stageVars
<1>2. ASSUME FeederReturns PROVE Closing /\ Opening /\ Starting
  <2>1. (fed < N) \in BOOLEAN
    OBVIOUS
  <2>2. Closing
    BY <1>2, <1>r, <1>n, <2>1 DEF FeederReturns
  <2> QED BY <1>2, <1>o, <1>p, <2>2 DEF FeederReturns, stageVars
<1>3. ASSUME Collect PROVE Closing /\ Opening /\ Starting
  BY <1>3, <1>a, <1>o, <1>p DEF Collect, groupVars, stageVars
<1>4. ASSUME CollectorReturns PROVE Closing /\ Opening /\ Starting
  <2>2. Closing
    BY <1>4, <1>r, <1>n DEF CollectorReturns
  <2> QED BY <1>4, <1>o, <1>p, <2>2 DEF CollectorReturns, stageVars
<1>5. ASSUME RunReturns PROVE Closing /\ Opening /\ Starting
  BY <1>5, <1>a, <1>o, <1>p DEF RunReturns, stageVars
<1>6. ASSUME CallerCancels PROVE Closing /\ Opening /\ Starting
  BY <1>6, <1>a, <1>o, <1>p DEF CallerCancels, stageVars
<1>7. ASSUME ReporterFails PROVE Closing /\ Opening /\ Starting
  BY <1>7, <1>a, <1>o, <1>p DEF ReporterFails, stageVars
<1>8. ASSUME NEW g \in Goroutines, Join(g) PROVE Closing /\ Opening /\ Starting
  <2>1. \A c \in 0 .. S : Closed(c)' => Closed(c)
    BY <1>8, <1>t, <1>n DEF Join, Closed
  <2>2. Closing
    BY <2>1 DEF Closing
  <2> QED BY <1>8, <1>o, <1>p, <2>2 DEF Join, stageVars
<1>9. ASSUME NEW s \in Stages, GateCloses(s) PROVE Closing /\ Opening /\ Starting
  <2>1. Opening
    BY <1>9, <1>t DEF GateCloses, Opening
  <2> QED BY <1>9, <1>a, <1>p, <2>1 DEF GateCloses, groupVars
<1>10. ASSUME NEW s \in Stages, StageStarts(s) PROVE Closing /\ Opening /\ Starting
  <2>1. Closing
    BY <1>10, <1>a, <1>r, <1>n DEF StageStarts, groupVars
  <2>2. Opening
    BY <1>10, <1>o DEF StageStarts
  <2>3. Starting
    BY <1>10, <1>p, <1>q DEF StageStarts
  <2> QED BY <2>1, <2>2, <2>3
<1>11. ASSUME NEW s \in Stages, Drain(s) PROVE Closing /\ Opening /\ Starting
  <2>1. Opening
    BY <1>11, <1>t DEF Drain, Opening
  <2> QED BY <1>11, <1>a, <1>p, <2>1 DEF Drain, groupVars
<1>12. ASSUME NEW s \in Stages, Drained(s) PROVE Closing /\ Opening /\ Starting
  <2>1. Closing
    BY <1>12, <1>a, <1>r, <1>n DEF Drained, groupVars
  <2>2. Opening
    <3>1. CASE gate' = gate
      BY <1>12, <1>o, <3>1 DEF Drained
    <3>2. CASE ~CtxDone /\ gate' = [gate EXCEPT ![s] = "open"]
      BY <1>12, <1>t, <3>2 DEF Drained, Opening
    <3> QED BY <1>12, <3>1, <3>2 DEF Drained
  <2>3. Starting
    BY <1>12, <1>p, <1>q DEF Drained
  <2> QED BY <2>1, <2>2, <2>3
<1>13. ASSUME NEW s \in Stages, NestedRun(s) PROVE Closing /\ Opening /\ Starting
  <2>1. Closing
    BY <1>13, <1>a, <1>r, <1>n DEF NestedRun, groupVars
  <2>2. Opening
    <3>1. \A t \in Stages : t # s => drained'[t] = drained[t]
      <4>1. CASE drained' = drained
        BY <4>1
      <4>2. ASSUME NEW order, drained' = [drained EXCEPT ![s] = [p \in DOMAIN @ |-> @[order[p]]]]
            PROVE  \A t \in Stages : t # s => drained'[t] = drained[t]
        BY <1>t, <4>2
      <4> QED BY <1>13, <4>1, <4>2 DEF NestedRun
    <3>2. gate' = gate /\ gate[s] = "none"
      BY <1>13, <1>t DEF NestedRun
    <3> QED BY <3>1, <3>2 DEF Opening
  <2>3. Starting
    BY <1>13, <1>p, <1>q DEF NestedRun
  <2> QED BY <2>1, <2>2, <2>3
<1>14. ASSUME NEW s \in Stages, Emit(s) PROVE Closing /\ Opening /\ Starting
  <2>1. Closing
    BY <1>14, <1>a, <1>r, <1>n DEF Emit, groupVars
  <2> QED BY <1>14, <1>o, <1>p, <2>1 DEF Emit
<1>15. ASSUME NEW s \in Stages, StageReturns(s) PROVE Closing /\ Opening /\ Starting
  <2>1. Closing
    <3>1. (s \in stageErr) \in BOOLEAN /\ TRUE \in BOOLEAN /\ StageDone(s) /\ s \in Goroutines
      BY <1>15, <1>n DEF StageReturns, StageDone
    <3>2. CASE Returns(s, s \in stageErr)
      BY <1>r, <3>1, <3>2
    <3>3. CASE Returns(s, TRUE)
      BY <1>r, <3>1, <3>3
    <3> QED BY <1>15, <3>2, <3>3 DEF StageReturns
  <2> QED BY <1>15, <1>o, <1>p, <2>1 DEF StageReturns, stageVars
<1>16. ASSUME NEW w \in Workers, WorkerReceives(w) PROVE Closing /\ Opening /\ Starting
  BY <1>16, <1>a, <1>o, <1>p DEF WorkerReceives, groupVars
<1>17. ASSUME NEW w \in Workers, WorkerEnds(w) PROVE Closing /\ Opening /\ Starting
  BY <1>17, <1>a, <1>o, <1>p DEF WorkerEnds, groupVars, stageVars
<1>18. ASSUME NEW w \in Workers, Process(w) PROVE Closing /\ Opening /\ Starting
  BY <1>18, <1>a, <1>o, <1>p DEF Process, groupVars
<1>19. ASSUME NEW w \in Workers, Send(w) PROVE Closing /\ Opening /\ Starting
  BY <1>19, <1>a, <1>o, <1>p DEF Send, groupVars
<1>h. Closing /\ Opening /\ Starting
  <2>1. CASE UNCHANGED vars \/ FeederReturns \/ Collect \/ CollectorReturns \/ RunReturns
             \/ CallerCancels \/ ReporterFails
    BY <1>1, <1>2, <1>3, <1>4, <1>5, <1>6, <1>7, <2>1
  <2>2. CASE \E g \in Goroutines : Join(g)
    BY <2>2, <1>8
  <2>3. CASE \E s \in Stages : StageStep(s) \/ GateCloses(s)
    BY <2>3, <1>9, <1>10, <1>11, <1>12, <1>13, <1>14, <1>15 DEF StageStep
  <2>4. CASE \E w \in Workers : WorkerStep(w)
    BY <2>4, <1>16, <1>17, <1>18, <1>19 DEF WorkerStep
  <2> QED BY <2>1, <2>2, <2>3, <2>4, Zenon DEF Next
<1> QED BY <1>h DEF Closing, Opening, Starting

\* Every spot has a rank: the two spots and the hands inside a stage, and the
\* channels between the stages.
LEMMA RankCases ==
    ASSUME NEW x \in Spots, NEW s \in Stages
    PROVE  /\ Rank(x) \in Nat
           /\ Rank(x) < 2 * s =>
                \/ Rank(x) < 2 * (s - 1)
                \/ x = Source(s - 1)
                \/ x = <<"drain", s>>
                \/ \E w \in Workers : w[1] = s /\ x = <<"hand", w>>
<1>0. S \in Nat \ {0} /\ s \in Nat \ {0} /\ \A t \in Stages : t \in Nat \ {0}
  BY PipelineAssumption DEF Stages
<1>1. CASE x = <<"in", 0>>
  BY <1>0, <1>1, RankFacts DEF Source
<1>2. CASE x = <<"out", 0>>
  <2>1. Rank(x) = 2 * S + 1 /\ s <= S
    BY <1>2, RankFacts DEF Stages
  <2> QED BY <1>0, <2>1
<1>3. ASSUME NEW t \in Stages, x = <<"chan", t>>
      PROVE  Rank(x) \in Nat /\ (Rank(x) < 2 * s => Rank(x) < 2 * (s - 1) \/ x = Source(s - 1))
  <2>1. Rank(x) = 2 * t
    BY <1>3, RankFacts
  <2>2. t = s - 1 => x = Source(s - 1)
    BY <1>0, <1>3 DEF Source
  <2> QED BY <1>0, <2>1, <2>2
<1>4. ASSUME NEW t \in Stages, x = <<"drain", t>>
      PROVE  Rank(x) \in Nat /\ (Rank(x) < 2 * s => Rank(x) < 2 * (s - 1) \/ x = <<"drain", s>>)
  <2>1. Rank(x) = 2 * t - 1
    BY <1>4, RankFacts
  <2> QED BY <1>0, <1>4, <2>1
<1>5. ASSUME NEW w \in Workers, x = <<"hand", w>>
      PROVE  Rank(x) \in Nat /\ (Rank(x) < 2 * s => Rank(x) < 2 * (s - 1) \/ w[1] = s)
  <2>1. Rank(x) = 2 * w[1] - 1 /\ w[1] \in Nat \ {0}
    BY <1>0, <1>5, RankFacts, WorkerFacts
  <2> QED BY <1>0, <2>1
<1> QED BY <1>1, <1>2, <1>3, <1>4, <1>5, SpotFacts

\* When the channel before stage s is exhausted and nothing has failed, nothing
\* is left before the stage.
LEMMA NothingBefore ==
    ASSUME Inv, NEW s \in Stages, Exhausted(s - 1), ~Dropping, \A g \in erred : g > s - 1
    PROVE  /\ Holding(Source(s - 1)) = {}
           /\ \A x \in Spots : Rank(x) < 2 * (s - 1) => Holding(x) = {}
<1>0. s - 1 \in 0 .. S /\ s \in Nat \ {0} /\ Feeder = 0 /\ N \in Nat
  BY PipelineAssumption DEF Stages, Feeder
<1>1. \A x \in Spots : Rank(x) < 2 * (s - 1) => Holding(x) = {}
  <2>1. Settled(s - 1) /\ Closed(s - 1)
    BY <1>0 DEF Inv, Exhausted
  <2> QED BY <2>1 DEF Settled
<1>2. CASE s - 1 = 0
  <2>1. fed = N
    <3>1. Closed(Feeder) /\ Feeder \notin erred
      BY <1>0, <1>2 DEF Exhausted, Feeder
    <3> QED BY <3>1 DEF Inv, GroupOK
  <2>2. Holding(<<"in", 0>>) = {}
    BY <1>0, <2>1, HoldingFacts
  <2> QED BY <1>1, <1>2, <2>2 DEF Source
<1>3. CASE s - 1 # 0
  <2>1. s - 1 \in Stages /\ chan[s - 1] = <<>>
    BY <1>0, <1>3 DEF Exhausted, Stages
  <2>2. Source(s - 1) = <<"chan", s - 1>> /\ ToSet(chan[s - 1]) = {}
    BY <1>3, <2>1 DEF Source, ToSet
  <2>3. Holding(<<"chan", s - 1>>) = {}
    BY <2>1, <2>2, HoldingFacts
  <2> QED BY <1>1, <2>2, <2>3
<1> QED BY <1>2, <1>3

\* A stage that is done without an error leaves nothing behind.
LEMMA NothingInside ==
    ASSUME Inv, NEW s \in Stages, StageDone(s), s \notin stageErr, ~Dropping, \A g \in erred : g > s
    PROVE  \A x \in Spots : Rank(x) < 2 * s => Holding(x) = {}
<1>0. /\ StageOK(s) /\ SeqOK(s) /\ s \in Int /\ kind[s] \in {"stream", "barrier", "override"}
      /\ drained[s] \in Seq(Items) /\ sent[s] \in Nat
  <2>1. s \in Int /\ kind[s] \in {"stream", "barrier", "override"}
    BY PipelineAssumption DEF Inv, Types, Stages
  <2> QED BY <2>1 DEF Inv, Types
<1>1. ASSUME NEW w \in Workers, w[1] = s
      PROVE  /\ hold[w] = 0
             /\ phase[s] = "work" =>
                  IF kind[s] = "barrier" THEN gate[s] = "closed" ELSE Exhausted(s - 1)
  <2>1. WorkerOK(w)
    BY DEF Inv
  <2>2. CASE phase[s] = "work"
    <3>1. at[w] = "exit"
      BY <1>1, <2>2 DEF StageDone, Of
    <3> QED BY <1>1, <2>1, <3>1 DEF WorkerOK
  <2>3. CASE phase[s] # "work"
    BY <1>1, <2>1, <2>3 DEF WorkerOK
  <2> QED BY <2>2, <2>3
<1>2. PICK w \in Workers : w[1] = s
  BY WorkerFacts
<1>3. sent[s] = Len(drained[s]) /\ Exhausted(s - 1)
  <2>1. CASE phase[s] = "emit"
    BY <1>0, <2>1 DEF StageDone, StageOK
  <2>2. CASE phase[s] = "work" /\ kind[s] = "barrier"
    <3>1. ~Troubled
      BY <2>2 DEF Dropping, Barriers
    <3> QED BY <1>0, <1>1, <1>2, <2>2, <3>1 DEF StageOK
  <2>3. CASE phase[s] = "work" /\ kind[s] = "stream"
    <3>1. drained[s] = <<>> /\ Exhausted(s - 1)
      BY <1>0, <1>1, <1>2, <2>3 DEF StageOK
    <3> QED BY <1>0, <3>1 DEF SeqOK
  <2> QED BY <1>0, <2>1, <2>2, <2>3 DEF StageDone, StageOK
<1>4. Holding(<<"drain", s>>) = {}
  <2>1. sent[s] + 1 .. Len(drained[s]) = {}
    BY <1>0, <1>3
  <2>2. Pending(s) = {}
    BY <2>1 DEF Pending
  <2> QED BY <2>2, HoldingFacts
<1>5. \A v \in Workers : v[1] = s => Holding(<<"hand", v>>) = {}
  BY <1>1, HoldingFacts
<1>6. \A g \in erred : g > s - 1
  <2>1. erred \subseteq Int
    BY PipelineAssumption DEF Inv, Types, Goroutines
  <2> QED BY <1>0, <2>1
<1>7. /\ Holding(Source(s - 1)) = {}
      /\ \A x \in Spots : Rank(x) < 2 * (s - 1) => Holding(x) = {}
  BY <1>3, <1>6, NothingBefore
<1> QED BY <1>4, <1>5, <1>7, RankCases

\* Closed channels stay settled.
LEMMA SettledStep == ASSUME Inv, [Next]_vars, NEW c \in 0 .. S PROVE Settled(c)'
<1>0. Flow /\ Mono /\ Settled(c) /\ c \in Goroutines
  <2>1. c \in Goroutines
    BY PipelineAssumption DEF Goroutines
  <2> QED BY <2>1, FlowStep, MonoStep DEF Inv
<1>d. Dropping => Dropping'
  BY <1>0 DEF Mono, Dropping, Barriers
<1>1. CASE Closed(c)' => Closed(c)
  <2>1. erred \subseteq erred'
    BY <1>0 DEF Mono
  <2> QED BY <1>0, <1>d, <1>1, <2>1, SettledFlow
<1>2. CASE Closed(c)' /\ ~Closed(c)
  <2>1. Stays
    <3>1. ASSUME NEW i, NEW from, NEW to, Flows(i, from, to) PROVE FALSE
      BY <1>2, <3>1 DEF Flows, groupVars, Closed
    <3> QED BY <1>0, <3>1 DEF Flow
  <2>2. c = 0 \/ c \in erred' \/ (StageDone(c) /\ c \notin stageErr)
    BY <1>2, ChangeStep
  <2>3. CASE c = 0
    <3>1. S \in Stages
      BY PipelineAssumption DEF Stages
    <3>2. \A x \in Spots : ~(Rank(x) < 2 * c)
      BY <2>3, <3>1, RankCases
    <3> QED BY <3>2 DEF Settled, Rank
  <2>4. CASE c \in erred'
    <3>1. ~(c > c)
      BY PipelineAssumption
    <3> QED BY <2>4, <3>1 DEF Settled
  <2>5. CASE c # 0 /\ StageDone(c) /\ c \notin stageErr
    <3> SUFFICES ASSUME ~Dropping', \A g \in erred' : g > c
                 PROVE  \A x \in Spots : Rank(x) < 2 * c => Holding(x)' = {}
      BY DEF Settled, Rank
    <3>1. ~Dropping /\ (\A g \in erred : g > c) /\ c \in Stages
      BY <1>0, <1>d, <2>5, PipelineAssumption DEF Mono, Stages
    <3>2. \A x \in Spots : Rank(x) < 2 * c => Holding(x) = {}
      BY <2>5, <3>1, NothingInside
    <3> QED BY <2>1, <3>2 DEF Stays
  <2> QED BY <2>2, <2>3, <2>4, <2>5
<1> QED BY <1>1, <1>2

\* A barrier that opens has every item, unless a goroutine before it failed.
LEMMA WaitedStep == ASSUME Inv, [Next]_vars, NEW s \in Stages PROVE Waited(s)'
<1>1. SUFFICES ASSUME gate'[s] # "none", \A g \in erred : ~(g < s)
               PROVE  ToSet(drained[s]) = Items
  <2>1. gate'[s] # "none" => drained'[s] = drained[s]
    BY ChangeStep
  <2>2. erred \subseteq erred'
    BY MonoStep DEF Mono
  <2> QED BY <2>1, <2>2 DEF Waited, ToSet
<1>2. CASE gate[s] # "none"
  BY <1>1, <1>2 DEF Inv, Waited
<1>3. CASE gate[s] = "none"
  <2>1. phase[s] = "drain" /\ Exhausted(s - 1) /\ ~CtxDone
    BY <1>1, <1>3, ChangeStep
  <2>2. ~Dropping /\ s \in Int /\ \A g \in erred : g > s - 1
    <3>1. erred \subseteq Int /\ s \in Int
      BY PipelineAssumption DEF Inv, Types, Goroutines, Stages
    <3> QED BY <1>1, <2>1, <3>1 DEF CtxDone, Troubled, Dropping
  <2>3. /\ Holding(Source(s - 1)) = {}
        /\ \A x \in Spots : Rank(x) < 2 * (s - 1) => Holding(x) = {}
    BY <2>1, <2>2, NothingBefore
  <2>4. \A x \in Spots : Rank(x) >= 2 * s => Holding(x) = {}
    BY <2>1 DEF Inv, Ahead
  <2>5. \A w \in Workers : w[1] = s => Holding(<<"hand", w>>) = {}
    <3>1. \A w \in Workers : w[1] = s => hold[w] = 0
      BY <2>1 DEF Inv, WorkerOK
    <3> QED BY <3>1, HoldingFacts
  <2>6. Holding(<<"drain", s>>) = ToSet(drained[s]) /\ drained[s] \in Seq(Items)
    <3>1. sent[s] = 0 /\ drained[s] \in Seq(Items)
      BY <2>1 DEF Inv, Types, StageOK
    <3> QED BY <3>1, PendingAll, HoldingFacts
  <2>7. ASSUME NEW i \in Items PROVE i \in Holding(<<"drain", s>>)
    <3>1. PICK x \in Spots : i \in Holding(x)
      BY DEF Inv, OneSpot
    <3>2. Rank(x) < 2 * s
      BY <2>2, <2>4, <3>1, RankCases
    <3> QED BY <2>3, <2>5, <3>1, <3>2, RankCases
  <2>8. ToSet(drained[s]) \subseteq Items
    BY <2>6 DEF ToSet
  <2> QED BY <2>6, <2>7, <2>8
<1> QED BY <1>2, <1>3

------------------------------------------------------------------------------
(* The invariant                                                             *)

\* It holds at first: every item is with the feeder.
LEMMA InvInit == ASSUME Init PROVE Inv
<1>0. /\ N \in Nat /\ S \in Nat \ {0} /\ 0 \in 0 .. N
      /\ <<>> \in Seq(Items) /\ Len(<<>>) = 0 /\ ToSet(<<>>) = {}
      /\ \A s \in Stages : s \in Goroutines
      /\ \A w \in Workers : w[1] \in Stages
      /\ Feeder \in Goroutines /\ Collector \in Goroutines
      /\ \A c \in 0 .. S : c \in Goroutines
  <2>1. <<>> \in Seq(Items) /\ Len(<<>>) = 0 /\ ToSet(<<>>) = {}
    BY DEF ToSet
  <2>2. \A w \in Workers : w[1] \in Stages
    BY WorkerFacts
  <2> QED BY <2>1, <2>2, PipelineAssumption DEF Goroutines, Feeder, Collector, Stages
<1>1. Types
  BY <1>0 DEF Init, Types
<1>2. /\ Holding(<<"in", 0>>) = Items
      /\ \A x \in Spots : x # <<"in", 0>> => Holding(x) = {}
  <2>1. Holding(<<"in", 0>>) = Items
    <3>1. fed + 1 .. N = Items
      BY <1>0 DEF Init, Items
    <3> QED BY <3>1, HoldingFacts
  <2>2. Holding(<<"out", 0>>) = {}
    BY HoldingFacts DEF Init
  <2>3. ASSUME NEW s \in Stages PROVE Holding(<<"chan", s>>) = {} /\ Holding(<<"drain", s>>) = {}
    <3>1. chan[s] = <<>> /\ drained[s] = <<>> /\ sent[s] = 0
      BY DEF Init
    <3>2. Pending(s) = ToSet(drained[s])
      BY <1>0, <3>1, PendingAll
    <3> QED BY <1>0, <3>1, <3>2, HoldingFacts
  <2>4. ASSUME NEW w \in Workers PROVE Holding(<<"hand", w>>) = {}
    <3>1. hold[w] = 0
      BY DEF Init
    <3> QED BY <3>1, HoldingFacts
  <2> QED BY <2>1, <2>2, <2>3, <2>4, SpotFacts
<1>3. OneSpot
  BY <1>2, SpotFacts DEF OneSpot
<1>4. Progress
  <2> SUFFICES ASSUME NEW i \in Items PROVE Fits(i, <<"in", 0>>)
    BY <1>2 DEF Progress
  <2>1. done[i] = {}
    BY DEF Init
  <2> QED BY <2>1, FitsFacts
<1>5. ASSUME NEW s \in Stages PROVE SeqOK(s) /\ StageOK(s)
  <2>1. /\ chan[s] = <<>> /\ drained[s] = <<>> /\ sent[s] = 0 /\ phase[s] = "start"
        /\ gate[s] = "none" /\ s \notin stageErr /\ ~Closed(s)
    BY <1>0 DEF Init, Closed
  <2>2. SeqOK(s)
    BY <1>0, <2>1 DEF SeqOK, Injective
  <2> QED BY <2>1, <2>2 DEF StageOK
<1>6. ASSUME NEW w \in Workers PROVE WorkerOK(w)
  <2>1. at[w] = "idle" /\ hold[w] = 0 /\ phase[w[1]] = "start" /\ ~Closed(w[1])
    BY <1>0 DEF Init, Closed
  <2> QED BY <2>1 DEF WorkerOK
<1>7. GroupOK
  BY <1>0 DEF Init, GroupOK, Closed
<1>8. ASSUME NEW s \in Stages PROVE Ahead(s) /\ Waited(s)
  <2>1. gate[s] = "none" /\ s \in Nat \ {0}
    BY WorkerFacts DEF Init
  <2>2. \A x \in Spots : Rank(x) >= 2 * s => x # <<"in", 0>>
    BY <2>1, RankFacts
  <2> QED BY <1>2, <2>1, <2>2 DEF Ahead, Waited
<1>9. ASSUME NEW c \in 0 .. S PROVE Settled(c)
  BY <1>0 DEF Init, Settled, Closed
<1> QED BY <1>1, <1>3, <1>4, <1>5, <1>6, <1>7, <1>8, <1>9 DEF Inv

\* Every step preserves it.
LEMMA InvStep == ASSUME Inv, [Next]_vars PROVE Inv'
<1>1. Types' /\ Progress' /\ GroupOK'
  BY TypesStep, ProgressStep, GroupStep
<1>2. OneSpot'
  BY FlowStep, OneSpotFlow DEF Inv
<1>3. (\A s \in Stages : SeqOK(s)') /\ ControlOK'
  BY SeqStep, ControlStep
<1>4. \A s \in Stages : Ahead(s)'
  <2>1. Flow /\ \A s \in Stages : Ahead(s)
    BY FlowStep DEF Inv
  <2>2. \A s \in Stages : phase'[s] \in {"start", "drain", "nested"} =>
          phase[s] \in {"start", "drain", "nested"}
    BY ChangeStep
  <2> QED BY <2>1, <2>2, AheadFlow
<1>5. (\A s \in Stages : Waited(s)') /\ (\A c \in 0 .. S : Settled(c)')
  BY WaitedStep, SettledStep
<1> QED BY <1>1, <1>2, <1>3, <1>4, <1>5 DEF Inv, ControlOK

\* So the invariant holds in every reachable state.
LEMMA InvHolds == Spec => []Inv
BY InvInit, InvStep, PTL DEF Spec

------------------------------------------------------------------------------
(* The properties                                                            *)

\* No worker of a stage can send on the stage's channel once the driver has
\* closed it (runStages' deferred close).
THEOREM ChannelsCloseLast == Spec => []NoSendOnClosed
<1>1. Inv => NoSendOnClosed
  BY DEF Inv, NoSendOnClosed, WorkerOK, Of
<1> QED BY <1>1, InvHolds, PTL

\* A Barrier stage has every item when it processes the first, unless a goroutine
\* before it failed (typedRunner.run's drain and context check).
THEOREM BarriersWait == Spec => []BarrierWaits
<1>1. ASSUME Inv, NEW w \in Workers, w[1] \in Barriers, at[w] = "process"
      PROVE  ToSet(drained[w[1]]) = Items \/ \E g \in erred : g < w[1]
  <2>1. w[1] \in Stages /\ kind[w[1]] = "barrier" /\ WorkerOK(w) /\ StageOK(w[1]) /\ Waited(w[1])
    BY <1>1, WorkerFacts DEF Inv, Barriers
  <2>2. phase[w[1]] = "work"
    BY <1>1, <2>1 DEF WorkerOK
  <2>3. gate[w[1]] # "none"
    BY <2>1, <2>2 DEF StageOK
  <2> QED BY <2>1, <2>3 DEF Waited
<1>2. Inv => BarrierWaits
  BY <1>1 DEF BarrierWaits
<1> QED BY <1>2, InvHolds, PTL

\* Run reports success only with a result for every item, unless the caller
\* canceled a pipeline that has a Barrier stage.
THEOREM SuccessIsComplete == Spec => []LossOnlyByCancel
<1>1. ASSUME Inv, outcome = "ok", canceled => Barriers = {} PROVE Complete
  <2>0. S \in Stages /\ S \in 0 .. S /\ S \in Goroutines /\ Collector \in Goroutines
    BY PipelineAssumption DEF Stages, Goroutines, Collector
  <2>1. (\A g \in Goroutines : life[g] = "joined") /\ ~groupErr /\ reporter # "failed"
    BY <1>1 DEF Inv, GroupOK
  <2>2. erred = {}
    <3>1. \A g \in erred : g \in Goroutines /\ (life[g] = "joined" => groupErr)
      BY <1>1 DEF Inv, GroupOK, Types
    <3> QED BY <2>1, <3>1
  <2>3. ~Dropping
    BY <1>1, <2>1 DEF Dropping, Troubled
  <2>4. \A x \in Spots : Rank(x) < 2 * S => Holding(x) = {}
    <3>1. Settled(S) /\ Closed(S)
      BY <1>1, <2>0, <2>1 DEF Inv, Closed
    <3> QED BY <2>2, <2>3, <3>1 DEF Settled
  <2>5. Holding(<<"chan", S>>) = {}
    <3>1. Exhausted(S) /\ S # Feeder
      BY <1>1, <2>0, <2>1, PipelineAssumption DEF Inv, GroupOK, Closed, Collector, Feeder
    <3>2. ToSet(chan[S]) = {}
      BY <3>1 DEF Exhausted, ToSet
    <3> QED BY <2>0, <3>2, HoldingFacts
  <2>6. ASSUME NEW x \in Spots, Holding(x) # {} PROVE x = <<"out", 0>>
    <3>1. S \in Nat \ {0} /\ \A t \in Stages : t \in Nat \ {0} /\ t <= S
      BY PipelineAssumption DEF Stages
    <3>2. CASE x = <<"in", 0>>
      BY <2>4, <2>6, <3>1, <3>2, RankFacts
    <3>3. ASSUME NEW t \in Stages, x = <<"chan", t>> PROVE FALSE
      <4>1. Rank(x) = 2 * t /\ t # S
        BY <2>5, <2>6, <3>3, RankFacts
      <4> QED BY <2>4, <2>6, <3>1, <4>1
    <3>4. ASSUME NEW t \in Stages, x = <<"drain", t>> PROVE FALSE
      <4>1. Rank(x) = 2 * t - 1
        BY <3>4, RankFacts
      <4> QED BY <2>4, <2>6, <3>1, <4>1
    <3>5. ASSUME NEW w \in Workers, x = <<"hand", w>> PROVE FALSE
      <4>1. Rank(x) = 2 * w[1] - 1 /\ w[1] \in Stages
        BY <3>5, RankFacts, WorkerFacts
      <4> QED BY <2>4, <2>6, <3>1, <4>1
    <3> QED BY <3>2, <3>3, <3>4, <3>5, SpotFacts
  <2>7. ASSUME NEW i \in Items PROVE i \in collected /\ (i \in flagged \/ done[i] = Stages)
    <3>1. i \in Holding(<<"out", 0>>)
      BY <1>1, <2>6 DEF Inv, OneSpot
    <3>2. Fits(i, <<"out", 0>>)
      BY <1>1, <3>1, SpotFacts DEF Inv, Progress
    <3> QED BY <3>1, <3>2, HoldingFacts DEF Fits, Through, Stages
  <2> QED BY <2>7 DEF Complete
<1>2. Inv => LossOnlyByCancel
  BY <1>1 DEF LossOnlyByCancel
<1> QED BY <1>2, InvHolds, PTL

\* A set without two different elements has at most one.
LEMMA AtMostOne ==
    ASSUME NEW A, \A p, q \in A : p = q
    PROVE  Cardinality(A) \in {0, 1} /\ (A = {} => Cardinality(A) = 0)
<1>1. CASE A = {}
  BY <1>1, FS_EmptySet
<1>2. CASE A # {}
  <2>1. PICK e : A = {e}
    BY <1>2
  <2> QED BY <1>2, <2>1, FS_Singleton
<1> QED BY <1>1, <1>2

\* Every item is in at most one place, however stages fail and contexts are
\* canceled: one count for each place an item can be in (runStages' channels,
\* the drained items and the workers of typedRunner.run).
THEOREM NeverInTwoPlaces == Spec => []NoDuplicate
<1>1. ASSUME Inv, NEW i \in Items
      PROVE  Cardinality(Queued(i)) + Cardinality(Waiting(i)) + Cardinality(Holders(i))
               + Cardinality({i} \cap collected) + Cardinality({i} \cap (fed + 1 .. N)) <= 1
  <2>0. /\ \A s \in Stages : /\ chan[s] \in Seq(Items) /\ Injective(chan[s])
                             /\ drained[s] \in Seq(Items) /\ Injective(drained[s]) /\ sent[s] \in Nat
        /\ i # 0
    BY <1>1, PipelineAssumption DEF Inv, Types, SeqOK, Items
  <2>1. PICK x \in Spots : \A y \in Spots : i \in Holding(y) <=> y = x
    BY <1>1 DEF Inv, OneSpot
  <2>2. ASSUME NEW p \in Queued(i)
        PROVE  /\ p \in Stages \X (1 .. Capacity) /\ p[2] \in 1 .. Len(chan[p[1]]) /\ chan[p[1]][p[2]] = i
               /\ x = <<"chan", p[1]>>
    <3>1. p[1] \in Stages /\ p[2] \in 1 .. Capacity /\ p[2] <= Len(chan[p[1]]) /\ chan[p[1]][p[2]] = i
          /\ p \in Stages \X (1 .. Capacity)
      BY <2>2 DEF Queued
    <3>2. p[2] \in 1 .. Len(chan[p[1]]) /\ Len(chan[p[1]]) \in Nat
      BY <2>0, <3>1, PipelineAssumption
    <3>3. i \in ToSet(chan[p[1]])
      BY <2>0, <3>1, <3>2 DEF ToSet
    <3> QED BY <2>1, <3>1, <3>2, <3>3, HoldingFacts, SpotFacts
  <2>3. ASSUME NEW p \in Waiting(i)
        PROVE  /\ p \in Stages \X Items /\ p[2] \in 1 .. Len(drained[p[1]]) /\ drained[p[1]][p[2]] = i
               /\ x = <<"drain", p[1]>>
    <3>1. /\ p[1] \in Stages /\ p[2] \in Items /\ sent[p[1]] < p[2] /\ p[2] <= Len(drained[p[1]])
          /\ drained[p[1]][p[2]] = i /\ p \in Stages \X Items
      BY <2>3 DEF Waiting
    <3>2. /\ p[2] \in sent[p[1]] + 1 .. Len(drained[p[1]]) /\ p[2] \in 1 .. Len(drained[p[1]])
      BY <2>0, <3>1, PipelineAssumption DEF Items
    <3>3. i \in Pending(p[1])
      BY <3>1, <3>2 DEF Pending
    <3> QED BY <2>1, <3>1, <3>2, <3>3, HoldingFacts, SpotFacts
  <2>4. ASSUME NEW w \in Holders(i) PROVE w \in Workers /\ x = <<"hand", w>>
    <3>1. w \in Workers /\ hold[w] = i
      BY <2>4 DEF Holders
    <3>2. i \in Holding(<<"hand", w>>)
      BY <2>0, <3>1, HoldingFacts
    <3> QED BY <2>1, <3>1, <3>2, SpotFacts
  <2>5. /\ \A j \in {i} \cap collected : x = <<"out", 0>>
        /\ \A j \in {i} \cap (fed + 1 .. N) : x = <<"in", 0>>
    BY <2>1, HoldingFacts, SpotFacts
  <2>6. \A p, q \in Queued(i) : p = q
    <3> TAKE p, q \in Queued(i)
    <3>1. p[1] = q[1]
      BY <2>2
    <3>2. p[2] = q[2]
      BY <2>0, <2>2, <3>1 DEF Injective
    <3>3. p = <<p[1], p[2]>> /\ q = <<q[1], q[2]>>
      BY <2>2
    <3> QED BY <3>1, <3>2, <3>3
  <2>7. \A p, q \in Waiting(i) : p = q
    <3> TAKE p, q \in Waiting(i)
    <3>1. p[1] = q[1]
      BY <2>3
    <3>2. p[2] = q[2]
      BY <2>0, <2>3, <3>1 DEF Injective
    <3>3. p = <<p[1], p[2]>> /\ q = <<q[1], q[2]>>
      BY <2>3
    <3> QED BY <3>1, <3>2, <3>3
  <2>8. \A p, q \in Holders(i) : p = q
    BY <2>4
  <2> DEFINE a == Cardinality(Queued(i))
             b == Cardinality(Waiting(i))
             c == Cardinality(Holders(i))
             d == Cardinality({i} \cap collected)
             e == Cardinality({i} \cap (fed + 1 .. N))
  <2>9. /\ a \in {0, 1} /\ b \in {0, 1} /\ c \in {0, 1}
        /\ d \in {0, 1} /\ e \in {0, 1}
        /\ (Queued(i) = {} => a = 0) /\ (Waiting(i) = {} => b = 0) /\ (Holders(i) = {} => c = 0)
        /\ ({i} \cap collected = {} => d = 0) /\ ({i} \cap (fed + 1 .. N) = {} => e = 0)
    <3>1. a \in {0, 1} /\ (Queued(i) = {} => a = 0)
      BY <2>6, AtMostOne
    <3>2. b \in {0, 1} /\ (Waiting(i) = {} => b = 0)
      BY <2>7, AtMostOne
    <3>3. c \in {0, 1} /\ (Holders(i) = {} => c = 0)
      BY <2>8, AtMostOne
    <3>4. d \in {0, 1} /\ ({i} \cap collected = {} => d = 0)
      BY AtMostOne
    <3>5. e \in {0, 1} /\ ({i} \cap (fed + 1 .. N) = {} => e = 0)
      BY AtMostOne
    <3> QED BY <3>1, <3>2, <3>3, <3>4, <3>5
  <2>10. /\ (x[1] # "chan" => Queued(i) = {})
         /\ (x[1] # "drain" => Waiting(i) = {})
         /\ (x[1] # "hand" => Holders(i) = {})
         /\ (x[1] # "out" => {i} \cap collected = {})
         /\ (x[1] # "in" => {i} \cap (fed + 1 .. N) = {})
    BY <2>2, <2>3, <2>4, <2>5
  <2> HIDE DEF a, b, c, d, e
  <2>11. a + b + c + d + e <= 1
    BY <2>9, <2>10
  <2> QED BY <2>11 DEF a, b, c, d, e
<1>2. Inv => NoDuplicate
  BY <1>1 DEF NoDuplicate
<1> QED BY <1>2, InvHolds, PTL

\* A flagged item is left alone by every later stage, and a stage works only on
\* items that all the stages before it have worked on.
THEOREM FlaggedLeftAlone == Spec => FlaggedUntouched
<1> DEFINE Step == \A i \in Items : /\ i \in flagged => done'[i] = done[i] /\ i \in flagged'
                                    /\ \A s \in done'[i] \ done[i] : done[i] = 1 .. s - 1
<1>1. ASSUME Inv, Next PROVE Step
  <2>0. done \in [Items -> SUBSET Stages]
    BY <1>1 DEF Inv, Types
  <2>a. ASSUME UNCHANGED <<flagged, done>> PROVE Step
    BY <2>a
  <2>1. ASSUME NEW s \in Stages, NestedRun(s) PROVE Step
    <3>1. CASE UNCHANGED itemVars
      BY <2>a, <3>1 DEF itemVars
    <3>2. ASSUME NEW clean, clean = ToSet(drained[s]) \ flagged,
                 NEW bad \in SUBSET clean, flagged' = flagged \cup bad,
                 done' = [i \in Items |-> IF i \in clean \ bad THEN done[i] \cup {s} ELSE done[i]]
          PROVE  Step
      <4>1. ASSUME NEW i \in Items, i \in clean PROVE done[i] = 1 .. s - 1
        <5>1. phase[s] = "nested" /\ sent[s] = 0 /\ drained[s] \in Seq(Items)
          BY <1>1, <2>1 DEF NestedRun, Inv, Types, StageOK
        <5>2. i \in Holding(<<"drain", s>>) /\ i \notin flagged
          BY <3>2, <4>1, <5>1, PendingAll, HoldingFacts
        <5>3. Fits(i, <<"drain", s>>)
          BY <1>1, <5>2, SpotFacts DEF Inv, Progress
        <5> QED BY <5>1, <5>2, <5>3, FitsFacts
      <4>2. ASSUME NEW i \in Items
            PROVE  /\ i \in flagged => done'[i] = done[i] /\ i \in flagged'
                   /\ \A t \in done'[i] \ done[i] : t = s /\ i \in clean
        BY <3>2
      <4> QED BY <4>1, <4>2
    <3> QED BY <2>1, <3>1, <3>2, Zenon DEF NestedRun
  <2>2. ASSUME NEW w \in Workers, Process(w) PROVE Step
    <3> DEFINE k == hold[w]
    <3>1. at[w] = "process" /\ k # 0 /\ k \in Items /\ k \in Holding(<<"hand", w>>)
      <4>1. at[w] = "process" /\ k # 0 /\ k \in 0 .. N
        BY <1>1, <2>2 DEF Process, Inv, WorkerOK, Types
      <4>2. k \in Items
        BY <4>1, PipelineAssumption DEF Items
      <4> QED BY <4>1, <4>2, HoldingFacts
    <3>2. k \notin flagged /\ done[k] = 1 .. w[1] - 1
      <4>1. Fits(k, <<"hand", w>>)
        BY <1>1, <3>1, SpotFacts DEF Inv, Progress
      <4> QED BY <3>1, <4>1, FitsFacts
    <3>3. CASE done' = [done EXCEPT ![k] = @ \cup {w[1]}] /\ flagged' = flagged
      <4>1. ASSUME NEW i \in Items
            PROVE  /\ i # k => done'[i] = done[i]
                   /\ \A t \in done'[i] \ done[i] : t = w[1] /\ i = k
        BY <2>0, <3>1, <3>3
      <4> QED BY <3>2, <3>3, <4>1
    <3>4. CASE flagged' = flagged \cup {k} /\ done' = done
      BY <3>4
    <3>5. CASE UNCHANGED itemVars
      BY <2>a, <3>5 DEF itemVars
    <3> QED BY <2>2, <3>3, <3>4, <3>5 DEF Process
  <2>3. CASE FeederReturns \/ Collect \/ CollectorReturns \/ RunReturns \/ CallerCancels
             \/ ReporterFails \/ \E g \in Goroutines : Join(g)
    BY <2>a, <2>3 DEF FeederReturns, Collect, CollectorReturns, RunReturns, CallerCancels,
                      ReporterFails, Join, itemVars
  <2>4. ASSUME NEW s \in Stages,
               StageStarts(s) \/ Drain(s) \/ Drained(s) \/ Emit(s) \/ StageReturns(s) \/ GateCloses(s)
        PROVE  Step
    <3>1. UNCHANGED <<flagged, done>>
      BY <2>4 DEF StageStarts, Drain, Drained, Emit, StageReturns, GateCloses, itemVars
    <3> QED BY <2>a, <3>1
  <2>5. ASSUME NEW w \in Workers, WorkerReceives(w) \/ WorkerEnds(w) \/ Send(w) PROVE Step
    <3>1. UNCHANGED <<flagged, done>>
      BY <2>5 DEF WorkerReceives, WorkerEnds, Send, itemVars
    <3> QED BY <2>a, <3>1
  <2> HIDE DEF Step
  <2>6. CASE \E s \in Stages : StageStep(s) \/ GateCloses(s)
    BY <2>1, <2>4, <2>6 DEF StageStep
  <2>7. CASE \E w \in Workers : WorkerStep(w)
    BY <2>2, <2>5, <2>7 DEF WorkerStep
  <2> QED BY <1>1, <2>3, <2>6, <2>7, Zenon DEF Next
<1>2. Inv /\ [Next]_vars => [Step]_vars
  BY <1>1
<1> QED BY <1>2, InvHolds, PTL DEF Spec, FlaggedUntouched

\* What TypeOK adds to Types and SeqOK: above all, no channel holds more than its
\* capacity.
Bounds ==
    /\ canceled \in BOOLEAN /\ groupErr \in BOOLEAN
    /\ reporter \in {"up", "failed"}
    /\ outcome \in {"running", "ok", "failed"}
    /\ \A s \in Stages : Len(chan[s]) <= Capacity

\* Every step keeps within the bounds: a send waits for room.
LEMMA BoundsStep == ASSUME Inv, Bounds, [Next]_vars PROVE Bounds'
<1> DEFINE Flags == /\ canceled \in BOOLEAN /\ groupErr \in BOOLEAN /\ reporter \in {"up", "failed"}
                    /\ outcome \in {"running", "ok", "failed"}
<1>0. Flags
  BY DEF Bounds
<1>c. /\ chan \in [Stages -> Seq(Items)] /\ Capacity \in Nat \ {0}
      /\ \A s \in Stages : Len(chan[s]) <= Capacity
  BY PipelineAssumption DEF Bounds, Inv, Types
<1>a. ASSUME UNCHANGED <<canceled, reporter, groupErr, outcome>> PROVE Flags'
  BY <1>a, <1>0
<1>b. ASSUME Flags', chan' = chan PROVE Bounds'
  BY <1>b, <1>c DEF Bounds
<1>d. ASSUME Flags', NEW c \in 0 .. S, NEW i \in Items, Receive(c, i) PROVE Bounds'
  <2>1. CASE chan' = chan
    BY <1>b, <1>d, <2>1
  <2>2. CASE c \in Stages /\ 1 \in DOMAIN chan[c] /\ chan' = [chan EXCEPT ![c] = Tail(@)]
    <3>1. chan'[c] = Tail(chan[c]) /\ \A t \in Stages : t # c => chan'[t] = chan[t]
      BY <1>c, <2>2
    <3>2. Len(Tail(chan[c])) <= Len(chan[c]) /\ Len(Tail(chan[c])) \in Nat /\ Len(chan[c]) \in Nat
      BY <1>c, <2>2
    <3>3. Len(chan'[c]) <= Capacity
      BY <1>c, <2>2, <3>1, <3>2
    <3> QED BY <1>c, <1>d, <3>1, <3>3 DEF Bounds
  <2>3. c = Feeder \/ (c \in Stages /\ c # Feeder)
    BY PipelineAssumption DEF Feeder, Stages
  <2> QED BY <1>d, <2>1, <2>2, <2>3 DEF Receive, Offered
<1>e. ASSUME Flags', NEW s \in Stages, HasRoom(s), NEW i \in Items,
             chan' = [chan EXCEPT ![s] = Append(@, i)]
      PROVE  Bounds'
  <2>1. chan'[s] = Append(chan[s], i) /\ \A t \in Stages : t # s => chan'[t] = chan[t]
    BY <1>c, <1>e
  <2>2. Len(Append(chan[s], i)) = Len(chan[s]) + 1 /\ Len(chan[s]) \in Nat
    BY <1>c
  <2>3. Len(chan'[s]) <= Capacity
    BY <1>c, <1>e, <2>1, <2>2 DEF HasRoom
  <2> QED BY <1>c, <1>e, <2>1, <2>3 DEF Bounds
<1> HIDE DEF Flags
<1>1. CASE UNCHANGED vars
  BY <1>1, <1>a, <1>b DEF vars, groupVars
<1>2. CASE FeederReturns
  BY <1>2, <1>a, <1>b DEF FeederReturns, Returns
<1>3. CASE Collect
  <2>1. S \in 0 .. S
    BY PipelineAssumption
  <2> QED BY <1>3, <1>a, <1>d, <2>1 DEF Collect, groupVars
<1>4. CASE CollectorReturns
  BY <1>4, <1>a, <1>b DEF CollectorReturns, Returns
<1>5. CASE RunReturns
  <2>1. Flags'
    BY <1>0, <1>5 DEF RunReturns, Flags
  <2> QED BY <1>5, <1>b, <2>1 DEF RunReturns
<1>6. CASE CallerCancels
  <2>1. Flags'
    BY <1>0, <1>6 DEF CallerCancels, Flags
  <2> QED BY <1>6, <1>b, <2>1 DEF CallerCancels
<1>7. CASE ReporterFails
  <2>1. Flags'
    BY <1>0, <1>7 DEF ReporterFails, Flags
  <2> QED BY <1>7, <1>b, <2>1 DEF ReporterFails
<1>8. ASSUME NEW g \in Goroutines, Join(g) PROVE Bounds'
  <2>1. groupErr' \in BOOLEAN
    BY <1>8 DEF Join
  <2>2. Flags'
    BY <1>0, <1>8, <2>1 DEF Join, Flags
  <2> QED BY <1>8, <1>b, <2>2 DEF Join
<1>9. ASSUME NEW s \in Stages, StageStep(s) \/ GateCloses(s) PROVE Bounds'
  <2>1. Flags'
    BY <1>9, <1>a DEF StageStep, StageStarts, Drain, Drained, NestedRun, Emit, StageReturns,
                      GateCloses, Returns, groupVars
  <2>2. CASE chan' = chan
    BY <1>b, <2>1, <2>2
  <2>3. CASE Drain(s)
    <3>1. s - 1 \in 0 .. S
      BY PipelineAssumption DEF Stages
    <3> QED BY <1>d, <2>1, <2>3, <3>1 DEF Drain
  <2>4. ASSUME HasRoom(s), chan' = [chan EXCEPT ![s] = Append(@, drained[s][sent[s] + 1])],
               sent[s] < Len(drained[s])
        PROVE  Bounds'
    <3>1. drained[s][sent[s] + 1] \in Items
      <4>1. drained[s] \in Seq(Items) /\ sent[s] \in Nat
        BY DEF Inv, Types
      <4> QED BY <2>4, <4>1
    <3> QED BY <1>e, <2>1, <2>4, <3>1
  <2> QED BY <1>9, <2>2, <2>3, <2>4 DEF StageStep, StageStarts, Drained, NestedRun, Emit, StageReturns,
                                        GateCloses
<1>10. ASSUME NEW w \in Workers, WorkerStep(w) PROVE Bounds'
  <2>1. Flags' /\ w[1] \in Stages /\ w[1] - 1 \in 0 .. S
    <3>1. w[1] \in Stages /\ w[1] - 1 \in 0 .. S
      BY WorkerFacts, PipelineAssumption DEF Stages
    <3> QED BY <1>10, <1>a, <3>1 DEF WorkerStep, WorkerReceives, WorkerEnds, Process, Send, groupVars
  <2>2. CASE chan' = chan
    BY <1>b, <2>1, <2>2
  <2>3. CASE WorkerReceives(w)
    <3>1. chan' = chan \/ \E i \in Items : Receive(w[1] - 1, i)
      BY <2>3 DEF WorkerReceives
    <3> QED BY <1>d, <2>1, <2>2, <3>1
  <2>4. CASE at[w] = "send" /\ HasRoom(w[1]) /\ chan' = [chan EXCEPT ![w[1]] = Append(@, hold[w])]
    <3>1. hold[w] # 0 /\ hold[w] \in 0 .. N
      BY <2>4 DEF Inv, WorkerOK, Types
    <3>2. hold[w] \in Items
      BY <3>1, PipelineAssumption DEF Items
    <3> QED BY <1>e, <2>1, <2>4, <3>2
  <2> QED BY <1>10, <2>2, <2>3, <2>4 DEF WorkerStep, WorkerEnds, Process, Send
<1> QED BY <1>1, <1>2, <1>3, <1>4, <1>5, <1>6, <1>7, <1>8, <1>9, <1>10, Zenon DEF Next

\* Type correctness of the pipeline driver, with the bounds on its channels.
THEOREM PipelineTypes == Spec => []TypeOK
<1>1. Init => Bounds
  <2> SUFFICES ASSUME Init PROVE Bounds
    OBVIOUS
  <2>1. \A s \in Stages : Len(chan[s]) <= Capacity
    <3>1. Len(<<>>) = 0 /\ 0 <= Capacity
      BY PipelineAssumption
    <3> QED BY <3>1 DEF Init
  <2> QED BY <2>1 DEF Init, Bounds
<1>2. Inv /\ Bounds => TypeOK
  <2> SUFFICES ASSUME Inv, Bounds PROVE TypeOK
    OBVIOUS
  <2>1. \A s \in Stages : sent[s] \in 0 .. Len(drained[s])
    <3> TAKE s \in Stages
    <3>1. sent[s] \in Nat /\ drained[s] \in Seq(Items) /\ sent[s] <= Len(drained[s])
      BY DEF Inv, Types, SeqOK
    <3> QED BY <3>1
  <2> QED BY <2>1 DEF TypeOK, Inv, Types, Bounds
<1> QED BY <1>1, <1>2, BoundsStep, InvHolds, PTL DEF Spec
==============================================================================
