------------------------------ MODULE MapProofs ------------------------------
(***************************************************************************)
(* Proofs about MapEngines, for any items, keys, batch sizes, pools,       *)
(* attempts, faults and restarts.  The inductive invariant says which      *)
(* groups have been looked up and what became of them (Looking), which     *)
(* batches have been handed over (Feeding), and how much of a batch has    *)
(* been committed at each place of its worker (BatchOK).                   *)
(*                                                                         *)
(* A second invariant, Books, ties what the outcomes and the report tell   *)
(* to what happened: a group is untouched until it is found or committed,  *)
(* and that happens once, so that a counter and the set of items it counts *)
(* grow together.                                                          *)
(***************************************************************************)
EXTENDS MapEngines, WellFoundedInduction, FiniteSetTheorems, TLAPS

------------------------------------------------------------------------------
(* The inductive invariant                                                   *)

Labels == {"queued", "admit", "do", "backoff", "store", "observe", "ended", "failed"}
Unpaid == {"queued", "admit", "do", "backoff"}
Flags == {"none", "skipped", "quarantined"}

Types ==
    /\ engine \in EngineNames /\ run \in 1 .. MaxRuns
    /\ store \in [Keys -> Values \cup {None}]
    /\ outcome \in {"loading", "mapping", "ok", "failed"}
    /\ looked \in 0 .. N
    /\ misses \in Seq(Items)
    /\ fed \in Nat
    /\ feeder \in {"on", "done", "failed"}
    /\ pc \in [Items -> Labels]
    /\ place \in [Items -> Nat]
    /\ results \in [Items -> [kind : Flags \cup {"value"}, value : Values \cup {None}]]
    /\ outcomes \in [Items -> {"pending", "hit", "stored"}]

\* Every item of the group of i has a result.
Given(i) == \A j \in Indexes(i) : results[j].kind # "none"

\* The misses are groups in order.  A group that was looked up is among them or has
\* its results, and Map starts when all were looked up.
Looking ==
    /\ Len(misses) <= looked
    /\ \A p \in 1 .. Len(misses) : misses[p] \in Groups /\ misses[p] <= looked
    /\ \A p, q \in 1 .. Len(misses) : p < q => misses[p] < misses[q]
    /\ outcome \in {"mapping", "ok"} => \A i \in Groups : i <= looked
    /\ outcome # "failed" =>
         \A i \in Groups : i <= looked =>
           Given(i) \/ \E p \in 1 .. Len(misses) : i = misses[p]

\* Batches are handed over in order, once Map runs.
Feeding ==
    /\ outcome = "loading" => fed = 0 /\ feeder = "on" /\ paid = {}
    /\ \A b \in Items : pc[b] = "queued" <=> b > fed
    /\ \A b \in Items : pc[b] = "queued" => place[b] = 1
    /\ fed <= BatchCount
    /\ feeder = "done" => fed = BatchCount
    /\ Ended => Running = {}

\* The group at place p of batch b is stored, if there is a Store, and its items
\* have their results, which the map helpers hand out only when Map returns.
Kept(b, p) ==
    /\ Cached => store[KeyOf[Batch(b)[p]]] = <<run, Batch(b)[p]>>
    /\ IsBulk => Given(Batch(b)[p])

NotPaid(b) == \A p \in 1 .. Len(Batch(b)) : Batch(b)[p] \notin paid

\* What the worker of b has committed, and what it owes.
BatchOK(b) ==
    /\ pc[b] \in Unpaid => place[b] = 1 /\ NotPaid(b)
    /\ pc[b] \in {"store", "observe"} => place[b] \in 1 .. Len(Batch(b))
    /\ pc[b] = "store" => \A p \in 1 .. place[b] - 1 : Kept(b, p)
    /\ pc[b] = "observe" => \A p \in 1 .. place[b] : Kept(b, p)
    /\ pc[b] = "ended" =>
         \/ \A p \in 1 .. Len(Batch(b)) : Kept(b, p)
         \/ NotPaid(b) /\ IsBulk /\ \A p \in 1 .. Len(Batch(b)) : Given(Batch(b)[p])
    /\ pc[b] = "failed" =>
         \/ NotPaid(b)
         \/ b \in faulty /\ \A p \in 1 .. Len(Batch(b)) : p < place[b] => Kept(b, p)

\* Values lie where they belong; an item to be worked on or looked up is no hit.
Aligned ==
    /\ \A i \in Items : results[i].kind = "value" =>
         /\ results[i].value \in Values
         /\ i \in Indexes(results[i].value[2])
         /\ results[i].value[1] = run \/ outcomes[i] = "hit"
    /\ \A k \in Keys : store[k] # None => KeyOf[store[k][2]] = k
    /\ \A p \in 1 .. Len(misses) : \A j \in Indexes(misses[p]) : outcomes[j] # "hit"
    /\ \A i \in ToLook : \A j \in Indexes(i) : outcomes[j] # "hit"

Complete == outcome = "ok" => \A i \in Items : results[i].kind # "none"

Inv ==
    /\ Types
    /\ Looking
    /\ Feeding
    /\ \A b \in Batches : BatchOK(b)
    /\ Aligned
    /\ Complete

------------------------------------------------------------------------------
(* Groups and batches                                                        *)

\* A group is named by an item of its own, and two groups have no item in common.
LEMMA GroupFacts ==
    ASSUME NEW i \in Groups
    PROVE  /\ i \in Items /\ i \in Indexes(i) /\ Indexes(i) \subseteq Items
           /\ \A j \in Groups : \A k \in Items : k \in Indexes(i) /\ k \in Indexes(j) => i = j
           /\ \A j \in Groups : Cached /\ KeyOf[i] = KeyOf[j] => i = j
<1>1. i \in Items /\ i \in Nat /\ \A j \in Indexes(i) : i <= j
  BY ParallelMapAssumption DEF Groups, Items
<1>2. i \in Indexes(i) /\ Indexes(i) \subseteq Items
  BY <1>1 DEF Indexes
<1>3. ASSUME NEW j \in Groups, Cached, KeyOf[i] = KeyOf[j] PROVE i = j
  <2>1. j \in Items /\ j \in Nat /\ \A k \in Indexes(j) : j <= k
    BY ParallelMapAssumption DEF Groups, Items
  <2>2. i \in Indexes(j) /\ j \in Indexes(i)
    BY <1>1, <1>3, <2>1 DEF Indexes
  <2> QED BY <1>1, <2>1, <2>2
<1>4. ASSUME NEW j \in Groups, NEW k \in Items, k \in Indexes(i), k \in Indexes(j) PROVE i = j
  BY <1>3, <1>4 DEF Indexes
<1> QED BY <1>1, <1>2, <1>3, <1>4

\* Every nonempty set of natural numbers has a least element.
LEMMA LeastNatural ==
    ASSUME NEW T, T \subseteq Nat, T # {}
    PROVE  \E m \in T : \A n \in T : m <= n
<1> DEFINE R == {p \in Nat \X Nat : p[1] < p[2]}
<1>1. IsWellFoundedOn(R, Nat)
  BY NatLessThanWellFounded, Zenon DEF OpToRel
<1>2. PICK m \in T : \A n \in T : ~(<<n, m>> \in R)
  <2> HIDE DEF R
  <2> QED BY <1>1, WFMin
<1>3. \A n \in T : ~(n < m)
  BY <1>2
<1> QED BY <1>3

\* Every item belongs to a group.
LEMMA InGroup ==
    ASSUME NEW j \in Items
    PROVE  \E i \in Groups : j \in Indexes(i)
<1>1. Indexes(j) \subseteq Nat /\ j \in Indexes(j) /\ Indexes(j) \subseteq Items
  BY ParallelMapAssumption DEF Indexes, Items
<1>2. PICK i \in Indexes(j) : \A n \in Indexes(j) : i <= n
  BY <1>1, LeastNatural
<1>3. Indexes(i) = Indexes(j)
  BY <1>2 DEF Indexes
<1> QED BY <1>1, <1>2, <1>3 DEF Groups

\* The part of the misses that a batch is: after From, up to To.
From(b) == (b - 1) * Size
To(b) == IF From(b) + Size < Len(misses) THEN From(b) + Size ELSE Len(misses)

\* Products of a batch size, and the number of batches.
LEMMA SizeFacts ==
    Size \in Nat \ {0}
BY ParallelMapAssumption DEF Size

\* The first elements of batches are a batch size apart.
LEMMA ProductFacts ==
    ASSUME NEW s \in Nat \ {0}, NEW a \in Nat, NEW b \in Nat, a < b
    PROVE  a * s \in Nat /\ a * s + s <= b * s
<1>1. PICK d \in Nat : b = a + 1 + d
  <2>1. b - a - 1 \in Nat /\ b = a + 1 + (b - a - 1)
    OBVIOUS
  <2> QED BY <2>1
<1>2. b * s = a * s + s + d * s
  BY <1>1
<1>3. d * s \in Nat /\ a * s \in Nat
  OBVIOUS
<1> QED BY <1>2, <1>3

\* The number of batches is the length divided by the size, rounded up.
LEMMA CountFacts ==
    ASSUME NEW l \in Nat, NEW s \in Nat \ {0}
    PROVE  LET c == (l + s - 1) \div s
           IN  c \in Nat /\ c * s <= l + s - 1 /\ l <= c * s
<1> DEFINE x == l + s - 1
           c == x \div s
<1>1. x \in Nat
  OBVIOUS
<1>2. c \in Int /\ x % s \in 0 .. s - 1 /\ x = s * c + (x % s)
  BY <1>1
<1>3. c \in Nat
  BY <1>1
<1>4. s * c = c * s /\ c * s \in Int
  BY <1>2
<1> QED BY <1>1, <1>2, <1>3, <1>4

\* Batches are nonempty stretches of the misses.
LEMMA BatchFacts ==
    ASSUME misses \in Seq(Items), NEW b \in Batches
    PROVE  /\ b \in Nat \ {0} /\ From(b) \in Nat /\ To(b) \in Nat
           /\ From(b) < To(b) /\ To(b) <= Len(misses)
           /\ Len(Batch(b)) = To(b) - From(b) /\ Len(Batch(b)) \in Nat \ {0}
           /\ Batch(b) \in Seq(Items)
           /\ \A p \in 1 .. Len(Batch(b)) :
                /\ From(b) + p \in 1 .. Len(misses)
                /\ From(b) < From(b) + p /\ From(b) + p <= To(b)
                /\ Batch(b)[p] = misses[From(b) + p]
<1> DEFINE l == Len(misses)
           s == Size
           c == BatchCount
           f == From(b)
           t == To(b)
<1>1. l \in Nat /\ s \in Nat \ {0}
  BY SizeFacts
<1>2. c \in Nat /\ c * s <= l + s - 1 /\ b \in 1 .. c
  BY <1>1, CountFacts DEF Batches, BatchCount
<1>3. (b - 1) * s \in Nat /\ (b - 1) * s + s <= c * s
  <2>1. b - 1 \in Nat /\ b - 1 < c
    BY <1>2
  <2> QED BY <1>1, <1>2, <2>1, ProductFacts
<1>4. f \in Nat /\ f < l
  <2>1. f = (b - 1) * s
    BY DEF From
  <2>2. c * s \in Int
    BY <1>1, <1>2
  <2> QED BY <1>1, <1>2, <1>3, <2>1, <2>2
<1>5. t \in Nat /\ f < t /\ t <= l
  BY <1>1, <1>4 DEF To
<1>6. Batch(b) = SubSeq(misses, f + 1, t)
  BY DEF Batch, To, From
<1> HIDE DEF l, s, c, f, t
<1>7. /\ Len(Batch(b)) = t - f /\ Batch(b) \in Seq(Items)
      /\ \A p \in 1 .. t - f : Batch(b)[p] = misses[f + p]
  <2>1. f + 1 \in Nat /\ f + 1 >= 1 /\ t <= Len(misses)
    BY <1>4, <1>5 DEF l
  <2>2. \A p \in f + 1 .. t : misses[p] \in Items
    BY <1>4, <1>5, <2>1
  <2>3. SubSeq(misses, f + 1, t) = [p \in 1 .. t - f |-> misses[f + p]]
    BY <1>4, <1>5, <2>1
  <2>4. [p \in 1 .. t - f |-> misses[f + p]] \in Seq(Items) /\ t - f \in Nat
    BY <1>4, <1>5, <2>2
  <2>5. Len([p \in 1 .. t - f |-> misses[f + p]]) = t - f
    BY <2>4
  <2> QED BY <1>6, <2>3, <2>4, <2>5
<1>8. \A p \in 1 .. t - f : f + p \in 1 .. l /\ f < f + p /\ f + p <= t
  BY <1>1, <1>4, <1>5
<1>9. b \in Nat \ {0} /\ t - f \in Nat \ {0}
  BY <1>2, <1>4, <1>5
<1> QED BY <1>4, <1>5, <1>7, <1>8, <1>9 DEF f, t, l

\* They do not overlap.
LEMMA BatchesApart ==
    ASSUME misses \in Seq(Items), NEW b \in Batches, NEW c \in Batches, b < c
    PROVE  To(b) <= From(c)
<1>1. b \in Nat \ {0} /\ c \in Nat \ {0} /\ Size \in Nat \ {0} /\ Len(misses) \in Nat
      /\ From(b) \in Nat /\ From(c) \in Nat
  BY BatchFacts, SizeFacts
<1>2. b - 1 \in Nat /\ c - 1 \in Nat /\ b - 1 < c - 1
  BY <1>1
<1>3. From(b) + Size <= From(c)
  BY <1>1, <1>2, ProductFacts DEF From
<1> QED BY <1>1, <1>3 DEF To

\* Together they are all the misses.
LEMMA BatchOfMiss ==
    ASSUME misses \in Seq(Items), NEW m \in 1 .. Len(misses)
    PROVE  \E b \in Batches : \E p \in 1 .. Len(Batch(b)) : Batch(b)[p] = misses[m]
<1> DEFINE s == Size
           q == (m - 1) \div s
           r == (m - 1) % s
           c == BatchCount
           l == Len(misses)
<1>1. l \in Nat /\ s \in Nat \ {0} /\ m - 1 \in Nat /\ m \in Nat /\ m <= l
  BY SizeFacts
<1> HIDE DEF s
<1>2. q \in Nat /\ r \in 0 .. s - 1 /\ m - 1 = s * q + r
  BY <1>1
<1>3. c \in Nat /\ l <= c * s
  BY <1>1, CountFacts DEF BatchCount, s
<1> HIDE DEF q, r, c, l
<1>4. q < c
  <2>1. CASE c <= q
    <3>1. c * s <= q * s
      <4>1. CASE c = q
        BY <1>1, <1>2, <4>1
      <4>2. CASE c < q
        <5>1. c * s + s <= q * s /\ c * s \in Nat
          BY <1>1, <1>2, <1>3, <4>2, ProductFacts
        <5> QED BY <1>1, <1>2, <5>1
      <4> QED BY <1>2, <1>3, <2>1, <4>1, <4>2
    <3>2. s * q = q * s /\ q * s \in Nat /\ c * s \in Nat
      BY <1>1, <1>2, <1>3
    <3> QED BY <1>1, <1>2, <1>3, <3>1, <3>2
  <2> QED BY <1>2, <1>3, <2>1
<1>5. q + 1 \in Batches
  BY <1>2, <1>3, <1>4 DEF Batches, c
<1>6. From(q + 1) = q * s /\ q * s \in Nat /\ s * q = q * s
  BY <1>1, <1>2 DEF From, s
<1>7. r + 1 \in 1 .. Len(Batch(q + 1)) /\ From(q + 1) + (r + 1) = m
  <2>1. Len(Batch(q + 1)) = To(q + 1) - From(q + 1) /\ To(q + 1) \in Nat
    BY <1>5, BatchFacts
  <2>2. From(q + 1) + (r + 1) = m
    BY <1>1, <1>2, <1>6
  <2>3. m <= To(q + 1)
    BY <1>1, <1>2, <1>6, <2>2 DEF To, l, s
  <2> QED BY <1>1, <1>2, <1>6, <2>1, <2>2, <2>3
<1> QED BY <1>5, <1>7, BatchFacts

\* The groups in a batch: no group is in two places.
LEMMA BatchMembers ==
    ASSUME Types, Looking, NEW b \in Batches
    PROVE  /\ b \in Items
           /\ \A p \in 1 .. Len(Batch(b)) : Batch(b)[p] \in Groups /\ Batch(b)[p] \in Items
           /\ \A c \in Batches : \A p \in 1 .. Len(Batch(b)), q \in 1 .. Len(Batch(c)) :
                Batch(b)[p] = Batch(c)[q] => b = c /\ p = q
<1>0. misses \in Seq(Items) /\ Len(misses) \in Nat /\ looked \in 0 .. N /\ N \in Nat
  BY ParallelMapAssumption DEF Types
<1>1. b \in Items
  <2>1. b \in Nat \ {0} /\ From(b) < Len(misses) /\ From(b) \in Nat /\ Size \in Nat \ {0}
    BY <1>0, BatchFacts, SizeFacts
  <2>2. b - 1 <= (b - 1) * Size
    <3>1. b - 1 \in Nat /\ Size - 1 \in Nat
      BY <2>1
    <3>2. (b - 1) * (Size - 1) \in Nat
      BY <3>1
    <3>3. (b - 1) * Size = (b - 1) + (b - 1) * (Size - 1)
      BY <2>1, <3>1
    <3> QED BY <3>1, <3>2, <3>3
  <2>3. Len(misses) <= N
    BY <1>0 DEF Looking
  <2> QED BY <1>0, <2>1, <2>2, <2>3 DEF From, Items
<1>2. ASSUME NEW p \in 1 .. Len(Batch(b)) PROVE Batch(b)[p] \in Groups /\ Batch(b)[p] \in Items
  BY <1>0, BatchFacts, GroupFacts DEF Looking
<1>3. \A m, n \in 1 .. Len(misses) : misses[m] = misses[n] => m = n
  <2>1. \A m \in 1 .. Len(misses) : misses[m] \in Nat
    BY <1>0 DEF Items
  <2> QED BY <1>0, <2>1 DEF Looking
<1>4. ASSUME NEW c \in Batches, NEW p \in 1 .. Len(Batch(b)), NEW q \in 1 .. Len(Batch(c)),
             Batch(b)[p] = Batch(c)[q]
      PROVE  b = c /\ p = q
  <2>1. /\ From(b) + p \in 1 .. Len(misses) /\ From(b) + p <= To(b) /\ From(b) < From(b) + p
        /\ Batch(b)[p] = misses[From(b) + p] /\ From(b) \in Nat /\ To(b) \in Nat /\ b \in Nat
    BY <1>0, BatchFacts
  <2>2. /\ From(c) + q \in 1 .. Len(misses) /\ From(c) + q <= To(c) /\ From(c) < From(c) + q
        /\ Batch(c)[q] = misses[From(c) + q] /\ From(c) \in Nat /\ To(c) \in Nat /\ c \in Nat
    BY <1>0, BatchFacts
  <2>3. From(b) + p = From(c) + q
    BY <1>3, <1>4, <2>1, <2>2
  <2>4. ~(b < c)
    BY <1>0, <2>1, <2>2, <2>3, BatchesApart
  <2>5. ~(c < b)
    BY <1>0, <2>1, <2>2, <2>3, BatchesApart
  <2>6. b = c
    BY <2>1, <2>2, <2>4, <2>5
  <2>7. p \in Nat /\ q \in Nat /\ From(b) = From(c)
    BY <2>6
  <2> QED BY <2>1, <2>3, <2>6, <2>7
<1> QED BY <1>1, <1>2, <1>4

\* The items a loop over groups has visited belong to the groups.
LEMMA VisitedFacts ==
    ASSUME NEW groups \in Seq(Items), NEW seen \in Visited(groups)
    PROVE  \A j \in seen : \E p \in 1 .. Len(groups) : j \in Indexes(groups[p])
<1>1. PICK p \in DOMAIN groups, last \in Items :
        seen = (UNION {Indexes(groups[q]) : q \in 1 .. p - 1})
                 \cup {j \in Indexes(groups[p]) : j <= last}
  BY DEF Visited
<1>2. DOMAIN groups = 1 .. Len(groups) /\ Len(groups) \in Nat
  OBVIOUS
<1>3. \A q \in 1 .. p - 1 : q \in 1 .. Len(groups)
  BY <1>2
<1> QED BY <1>1, <1>2, <1>3

\* In one group these are items of that group.
LEMMA VisitedOne ==
    ASSUME NEW i \in Items, NEW seen \in Visited(<<i>>)
    PROVE  seen \in SUBSET Indexes(i)
<1>1. <<i>> \in Seq(Items) /\ Len(<<i>>) = 1 /\ <<i>>[1] = i
  OBVIOUS
<1>2. \A j \in seen : \E p \in 1 .. Len(<<i>>) : j \in Indexes(<<i>>[p])
  BY <1>1, VisitedFacts
<1>3. \A j \in seen : \E p \in 1 .. 1 : j \in Indexes(<<i>>[p])
  BY <1>1, <1>2
<1>4. \A p \in 1 .. 1 : p = 1
  OBVIOUS
<1> QED BY <1>1, <1>3, <1>4, Zenon

------------------------------------------------------------------------------
(* Frames                                                                    *)

\* What a step of the worker on batch b may do to everything but its batch.
Works(b) ==
    /\ UNCHANGED <<engine, run, misses, looked, outcome, fed, feeder>>
    /\ \A c \in Items \ {b} : pc'[c] = pc[c] /\ place'[c] = place[c]
    /\ pc[b] \notin {"queued", "ended", "failed"} /\ pc'[b] # "queued"
    /\ \A j \in Items : results[j].kind # "none" => results'[j].kind # "none"
    /\ \A k \in Keys : \/ store'[k] = store[k]
                       \/ Cached /\ pc[b] = "store" /\ k = KeyOf[Batch(b)[place[b]]]
    /\ paid' \subseteq paid \cup ToSet(Batch(b))
    /\ faulty \subseteq faulty'

\* Engine and misses determine groups and batches.
LEMMA SameBatches ==
    ASSUME UNCHANGED <<engine, misses>>
    PROVE  /\ Cached' = Cached /\ IsBulk' = IsBulk /\ Groups' = Groups
           /\ Batches' = Batches /\ BatchCount' = BatchCount
           /\ \A i : Indexes(i)' = Indexes(i)
           /\ \A b : Batch(b)' = Batch(b)
BY DEF Cached, IsBulk, Groups, Batches, BatchCount, Indexes, Batch, Size

\* A worker that is at work does so while Map runs.
LEMMA WorkingMeansMapping ==
    ASSUME Inv, NEW b \in Batches, pc[b] \notin {"queued", "ended", "failed"}
    PROVE  outcome = "mapping" /\ b \in Items
<1>1. b \in Items
  BY BatchMembers DEF Inv
<1>2. outcome # "loading"
  <2>1. outcome = "loading" => fed = 0 /\ pc[b] = "queued"
    BY <1>1 DEF Inv, Feeding, Items
  <2> QED BY <2>1
<1>3. ~Ended
  BY DEF Inv, Feeding, Running
<1> QED BY <1>1, <1>2, <1>3 DEF Inv, Types, Ended

\* It leaves the other batches alone: no group is in two batches, so no key is.
LEMMA OtherBatch ==
    ASSUME Inv, NEW b \in Batches, Works(b), NEW c \in Batches, c # b
    PROVE  BatchOK(c)'
<1>1. b \in Items /\ c \in Items /\ Types /\ Looking
  BY BatchMembers DEF Inv
<1>2. pc'[c] = pc[c] /\ place'[c] = place[c] /\ UNCHANGED <<run, engine, misses>>
  BY <1>1 DEF Works
<1>3. /\ Batch(c)' = Batch(c) /\ Cached' = Cached /\ IsBulk' = IsBulk
      /\ \A i : Indexes(i)' = Indexes(i)
  BY <1>2, SameBatches
<1>4. ASSUME NEW p \in 1 .. Len(Batch(c))
      PROVE  /\ Batch(c)[p] \notin paid => Batch(c)[p] \notin paid'
             /\ Given(Batch(c)[p]) => Given(Batch(c)[p])'
             /\ Kept(c, p) => Kept(c, p)'
  <2>1. Batch(c)[p] \in Groups /\ Batch(c)[p] \in Items /\ Batch(b) \in Seq(Items)
    BY <1>1, BatchMembers, BatchFacts DEF Types
  <2>2. \A q \in 1 .. Len(Batch(b)) : Batch(b)[q] \in Groups /\ Batch(c)[p] # Batch(b)[q]
    BY <1>1, BatchMembers
  <2>3. Batch(c)[p] \notin paid => Batch(c)[p] \notin paid'
    BY <2>1, <2>2 DEF Works, ToSet
  <2>4. Given(Batch(c)[p]) => Given(Batch(c)[p])'
    <3>1. \A j \in Indexes(Batch(c)[p]) : j \in Items
      BY <2>1, GroupFacts
    <3>2. Given(Batch(c)[p])' <=> \A j \in Indexes(Batch(c)[p]) : results'[j].kind # "none"
      BY <1>3 DEF Given
    <3> QED BY <3>1, <3>2 DEF Given, Works
  <2>5. Cached => store'[KeyOf[Batch(c)[p]]] = store[KeyOf[Batch(c)[p]]]
    <3> SUFFICES ASSUME Cached, pc[b] = "store", KeyOf[Batch(c)[p]] = KeyOf[Batch(b)[place[b]]]
                 PROVE  FALSE
      BY <2>1, ParallelMapAssumption DEF Works
    <3>1. place[b] \in 1 .. Len(Batch(b))
      BY DEF Inv, BatchOK
    <3> QED BY <2>1, <2>2, <3>1, GroupFacts
  <2> QED BY <1>2, <1>3, <2>3, <2>4, <2>5 DEF Kept
<1>5. NotPaid(c) => NotPaid(c)'
  BY <1>3, <1>4 DEF NotPaid
<1>6. BatchOK(c) /\ place[c] \in Nat /\ Len(Batch(c)) \in Nat
  BY <1>1, BatchFacts DEF Inv, Types
<1>7. /\ pc[c] \in {"store", "observe"} => \A p \in 1 .. place[c] : p \in 1 .. Len(Batch(c))
      /\ pc[c] = "store" => \A p \in 1 .. place[c] - 1 : p \in 1 .. Len(Batch(c))
  BY <1>6 DEF BatchOK
<1>8. faulty \subseteq faulty'
  BY DEF Works
<1> QED BY <1>2, <1>3, <1>4, <1>5, <1>6, <1>7, <1>8 DEF BatchOK

\* So the rest of the invariant follows from the batch's own part.
LEMMA WorksInv ==
    ASSUME Inv, NEW b \in Batches, Works(b), Types', BatchOK(b)', Aligned'
    PROVE  Inv'
<1>1. outcome = "mapping" /\ b \in Items
  BY WorkingMeansMapping DEF Works
<1>2. UNCHANGED <<engine, run, misses, looked, outcome, fed, feeder>>
  BY DEF Works
<1>3. /\ Groups' = Groups /\ Batches' = Batches /\ BatchCount' = BatchCount
      /\ \A i : Indexes(i)' = Indexes(i)
  BY <1>2, SameBatches
<1>4. Looking'
  <2>1. ASSUME NEW i \in Groups PROVE Given(i) => Given(i)'
    BY <1>3, GroupFacts DEF Given, Works
  <2> QED BY <1>2, <1>3, <2>1 DEF Inv, Looking
<1>5. Feeding'
  <2>1. \A c \in Items : /\ pc'[c] = "queued" <=> pc[c] = "queued"
                         /\ pc'[c] = "queued" => place'[c] = place[c]
    BY <1>1 DEF Works
  <2> QED BY <1>1, <1>2, <1>3, <2>1 DEF Inv, Feeding, Ended
<1>6. \A c \in Batches' : BatchOK(c)'
  BY <1>3, OtherBatch
<1>7. Complete'
  BY <1>1, <1>2 DEF Complete
<1> QED BY <1>4, <1>5, <1>6, <1>7 DEF Inv

\* A step that gives nobody a result.
LEMMA AlignedFrame ==
    ASSUME Inv, UNCHANGED <<engine, run, store, misses, looked, results, outcomes>>
    PROVE  Aligned'
<1>1. Groups' = Groups /\ \A i : Indexes(i)' = Indexes(i)
  BY SameBatches
<1>2. ToLook' = ToLook
  BY <1>1 DEF ToLook
<1> QED BY <1>1, <1>2 DEF Inv, Aligned

\* A worker that moves on before its batch is paid, or fails.
LEMMA RelabelInv ==
    ASSUME Inv, NEW b \in Batches, NEW label \in {"admit", "do", "backoff", "failed"},
           pc[b] \in {"admit", "do", "backoff"}, pc' = [pc EXCEPT ![b] = label],
           UNCHANGED <<engine, run, store, outcome, looked, misses, fed, feeder, place, faulty,
                       paid, results, outcomes>>
    PROVE  Inv'
<1>1. b \in Items /\ pc \in [Items -> Labels] /\ BatchOK(b)
  BY WorkingMeansMapping DEF Inv, Types
<1>2. pc' \in [Items -> Labels] /\ pc'[b] = label /\ \A c \in Items \ {b} : pc'[c] = pc[c]
  BY <1>1 DEF Labels
<1>3. Works(b)
  BY <1>2 DEF Works
<1>4. Types'
  BY <1>2 DEF Inv, Types
<1>5. BatchOK(b)'
  <2>1. Batch(b)' = Batch(b)
    BY SameBatches
  <2>2. place[b] = 1 /\ NotPaid(b)
    BY <1>1 DEF BatchOK, Unpaid
  <2>3. NotPaid(b)'
    BY <2>1, <2>2 DEF NotPaid
  <2> QED BY <1>2, <2>2, <2>3 DEF BatchOK, Unpaid
<1> QED BY <1>3, <1>4, <1>5, AlignedFrame, WorksInv

\* The provider has answered for the whole batch.
LEMMA PaysInv ==
    ASSUME Inv, NEW b \in Batches, pc[b] = "do", pc' = [pc EXCEPT ![b] = "store"],
           paid' = paid \cup ToSet(Batch(b)),
           UNCHANGED <<engine, run, store, outcome, looked, misses, fed, feeder, place, faulty,
                       results, outcomes>>
    PROVE  Inv'
<1>1. b \in Items /\ pc \in [Items -> Labels] /\ BatchOK(b)
  BY WorkingMeansMapping DEF Inv, Types
<1>2. pc' \in [Items -> Labels] /\ pc'[b] = "store" /\ \A c \in Items \ {b} : pc'[c] = pc[c]
  BY <1>1 DEF Labels
<1>3. Works(b)
  BY <1>2 DEF Works
<1>4. Types'
  BY <1>2 DEF Inv, Types
<1>5. BatchOK(b)'
  <2>1. Batch(b)' = Batch(b) /\ Len(Batch(b)) \in Nat \ {0}
    BY SameBatches, BatchFacts DEF Inv, Types
  <2>2. place[b] = 1
    BY <1>1 DEF BatchOK, Unpaid
  <2> QED BY <1>2, <2>1, <2>2 DEF BatchOK, Unpaid
<1> QED BY <1>3, <1>4, <1>5, AlignedFrame, WorksInv

\* The provider has answered, and the meter overflows before anything is stored.
LEMMA LosesInv ==
    ASSUME Inv, NEW b \in Batches, pc[b] = "do", pc' = [pc EXCEPT ![b] = "failed"],
           paid' = paid \cup ToSet(Batch(b)), faulty' = faulty \cup {b},
           UNCHANGED <<engine, run, store, outcome, looked, misses, fed, feeder, place, results,
                       outcomes>>
    PROVE  Inv'
<1>1. b \in Items /\ pc \in [Items -> Labels] /\ BatchOK(b)
  BY WorkingMeansMapping DEF Inv, Types
<1>2. pc' \in [Items -> Labels] /\ pc'[b] = "failed" /\ \A c \in Items \ {b} : pc'[c] = pc[c]
  BY <1>1 DEF Labels
<1>3. Works(b)
  BY <1>2 DEF Works
<1>4. Types'
  BY <1>2 DEF Inv, Types
<1>5. BatchOK(b)'
  <2>1. place'[b] = 1
    BY <1>1 DEF BatchOK, Unpaid
  <2> QED BY <1>2, <2>1 DEF BatchOK, Unpaid
<1> QED BY <1>3, <1>4, <1>5, AlignedFrame, WorksInv

\* Results of a flag change neither a value nor a hit.
LEMMA FlagInv ==
    ASSUME Inv, NEW b \in Batches, NEW label \in {"ended", "failed"}, NEW seen \in SUBSET Items,
           NEW flag \in {"skipped", "quarantined"}, IsBulk,
           pc[b] = "do", pc' = [pc EXCEPT ![b] = label], Give(seen, Result(flag, None)),
           label = "ended" => \A p \in 1 .. Len(Batch(b)) : Indexes(Batch(b)[p]) \subseteq seen,
           UNCHANGED <<engine, run, store, outcome, looked, misses, fed, feeder, place, faulty,
                       paid, outcomes>>
    PROVE  Inv'
<1>1. b \in Items /\ pc \in [Items -> Labels] /\ BatchOK(b)
  BY WorkingMeansMapping DEF Inv, Types
<1>2. pc' \in [Items -> Labels] /\ pc'[b] = label /\ \A c \in Items \ {b} : pc'[c] = pc[c]
  BY <1>1 DEF Labels
<1> DEFINE x == Result(flag, None)
<1>3. /\ x \in [kind : Flags \cup {"value"}, value : Values \cup {None}]
      /\ x.kind = flag /\ flag # "none" /\ flag # "value"
  BY DEF Result, Flags
<1> HIDE DEF x
<1>4. \A j \in Items : results'[j] = IF j \in seen THEN x ELSE results[j]
  BY DEF Give, x
<1>5. Works(b)
  BY <1>2, <1>3, <1>4 DEF Works
<1>6. Types'
  <2>1. results' \in [Items -> [kind : Flags \cup {"value"}, value : Values \cup {None}]]
    BY <1>3 DEF Give, Inv, Types, x
  <2> QED BY <1>2, <2>1 DEF Inv, Types
<1>7. BatchOK(b)'
  <2>1. Batch(b)' = Batch(b) /\ IsBulk' = IsBulk /\ \A i : Indexes(i)' = Indexes(i)
    BY SameBatches
  <2>2. NotPaid(b)'
    BY <1>1, <2>1 DEF BatchOK, NotPaid, Unpaid
  <2>3. label = "ended" => \A p \in 1 .. Len(Batch(b)) : Given(Batch(b)[p])'
    BY <1>3, <1>4, <2>1 DEF Given
  <2> QED BY <1>2, <2>1, <2>2, <2>3 DEF BatchOK, Unpaid
<1>8. Aligned'
  <2>1. Groups' = Groups /\ \A i : Indexes(i)' = Indexes(i)
    BY SameBatches
  <2>2. ToLook' = ToLook
    BY <2>1 DEF ToLook
  <2>3. \A i \in Items : results'[i].kind = "value" => results'[i] = results[i]
    BY <1>3, <1>4
  <2> QED BY <2>1, <2>2, <2>3 DEF Inv, Aligned
<1> QED BY <1>5, <1>6, <1>7, <1>8, WorksInv

------------------------------------------------------------------------------
(* Commits                                                                   *)

\* What committing the group i may do to the Store and the items.
Commits(i) ==
    /\ \A k \in Keys : \/ store'[k] = store[k]
                       \/ Cached /\ k = KeyOf[i] /\ store'[k] = <<run, i>>
    /\ \A j \in Items : \/ results'[j] = results[j]
                        \/ j \in Indexes(i) /\ results'[j] = Result("value", <<run, i>>)
    /\ \A j \in Items : \/ outcomes'[j] = outcomes[j]
                        \/ j \in Indexes(i) /\ outcomes'[j] # "hit"
    /\ store' \in [Keys -> Values \cup {None}]
    /\ results' \in [Items -> [kind : Flags \cup {"value"}, value : Values \cup {None}]]
    /\ outcomes' \in [Items -> {"pending", "hit", "stored"}]

\* The group a worker commits next.
LEMMA CommitFacts ==
    ASSUME Inv, NEW b \in Batches, pc[b] \in {"store", "observe"}
    PROVE  /\ b \in Items /\ place[b] \in 1 .. Len(Batch(b)) /\ place[b] \in Nat
           /\ Batch(b)[place[b]] \in Groups /\ Batch(b)[place[b]] \in Items
           /\ KeyOf[Batch(b)[place[b]]] \in Keys /\ <<run, Batch(b)[place[b]]>> \in Values
           /\ \E m \in 1 .. Len(misses) : Batch(b)[place[b]] = misses[m]
<1>1. b \in Items /\ place[b] \in 1 .. Len(Batch(b)) /\ place[b] \in Nat /\ misses \in Seq(Items)
      /\ run \in 1 .. MaxRuns
  BY WorkingMeansMapping DEF Inv, BatchOK, Types
<1>2. Batch(b)[place[b]] \in Groups /\ Batch(b)[place[b]] \in Items
  BY <1>1, BatchMembers DEF Inv
<1>3. \E m \in 1 .. Len(misses) : Batch(b)[place[b]] = misses[m]
  BY <1>1, BatchFacts
<1> QED BY <1>1, <1>2, <1>3, ParallelMapAssumption DEF Values

\* A commit puts the value where it belongs.
LEMMA CommitsAligned ==
    ASSUME Inv, NEW i \in Groups, <<run, i>> \in Values, Commits(i),
           \E m \in 1 .. Len(misses) : i = misses[m],
           UNCHANGED <<engine, run, misses, looked>>
    PROVE  Aligned'
<1>1. Groups' = Groups /\ Indexes(i) \subseteq Items /\ i \in Items
      /\ \A j : Indexes(j)' = Indexes(j)
  BY SameBatches, GroupFacts
<1>2. ToLook' = ToLook
  BY <1>1 DEF ToLook
<1>3. \A j \in Indexes(i) : outcomes[j] # "hit"
  BY DEF Inv, Aligned
<1>4. \A j \in Items : outcomes'[j] = "hit" <=> outcomes[j] = "hit"
  BY <1>3 DEF Commits
<1>5. ASSUME NEW j \in Items, results'[j].kind = "value"
      PROVE  /\ results'[j].value \in Values
             /\ j \in Indexes(results'[j].value[2])
             /\ results'[j].value[1] = run \/ outcomes'[j] = "hit"
  <2>1. CASE results'[j] = results[j]
    BY <1>4, <1>5, <2>1 DEF Inv, Aligned
  <2>2. CASE j \in Indexes(i) /\ results'[j] = Result("value", <<run, i>>)
    <3>1. results'[j].value = <<run, i>>
      BY <2>2 DEF Result
    <3> QED BY <2>2, <3>1
  <2> QED BY <2>1, <2>2 DEF Commits
<1>6. ASSUME NEW k \in Keys, store'[k] # None PROVE KeyOf[store'[k][2]] = k
  BY <1>6 DEF Commits, Inv, Aligned
<1>7. \A m \in 1 .. Len(misses) : Indexes(misses[m]) \subseteq Items
  BY GroupFacts DEF Inv, Looking
<1>8. \A j \in ToLook : Indexes(j) \subseteq Items
  BY GroupFacts DEF ToLook
<1>9. \A m \in 1 .. Len(misses) : \A j \in Indexes(misses[m]) : outcomes'[j] # "hit"
  BY <1>4, <1>7 DEF Inv, Aligned
<1>10. \A l \in ToLook : \A j \in Indexes(l) : outcomes'[j] # "hit"
  BY <1>4, <1>8 DEF Inv, Aligned
<1> QED BY <1>1, <1>2, <1>5, <1>6, <1>9, <1>10 DEF Aligned

\* What the batch has committed stays committed.
LEMMA KeptStays ==
    ASSUME Inv, NEW b \in Batches, pc[b] \in {"store", "observe"}, Commits(Batch(b)[place[b]]),
           UNCHANGED <<engine, run, misses>>, NEW p \in 1 .. Len(Batch(b))
    PROVE  Kept(b, p) => Kept(b, p)'
<1> DEFINE i == Batch(b)[place[b]]
           g == Batch(b)[p]
<1>1. /\ Batch(b)' = Batch(b) /\ Cached' = Cached /\ IsBulk' = IsBulk
      /\ \A j : Indexes(j)' = Indexes(j)
  BY SameBatches
<1>2. place[b] \in 1 .. Len(Batch(b)) /\ i \in Groups
  BY CommitFacts
<1>3. g \in Groups /\ g \in Items /\ KeyOf[g] \in Keys
  BY BatchMembers, ParallelMapAssumption DEF Inv
<1> HIDE DEF i, g
<1>5. Cached => \/ store'[KeyOf[g]] = store[KeyOf[g]]
                \/ store'[KeyOf[g]] = <<run, g>>
  <2>1. Cached /\ KeyOf[g] = KeyOf[i] => g = i
    BY <1>2, <1>3, GroupFacts
  <2> QED BY <1>3, <2>1 DEF Commits, i
<1>6. Given(g) => \A j \in Indexes(g) : results'[j].kind # "none"
  <2>1. Indexes(g) \subseteq Items /\ Result("value", <<run, i>>).kind # "none"
    BY <1>3, GroupFacts DEF Result
  <2>2. \A j \in Items : results[j].kind # "none" => results'[j].kind # "none"
    BY <2>1 DEF Commits, i
  <2> QED BY <2>1, <2>2 DEF Given
<1> QED BY <1>1, <1>5, <1>6 DEF Kept, Given, g

\* The worker goes on with a batch it commits, or fails with the batch marked.
LEMMA CommitsInv ==
    ASSUME Inv, NEW b \in Batches, pc[b] \in {"store", "observe"},
           Commits(Batch(b)[place[b]]), pc[b] = "observe" => store' = store,
           NEW label \in Labels \ {"queued"}, pc' = [pc EXCEPT ![b] = label],
           NEW next \in Nat, place' = [place EXCEPT ![b] = next], faulty \subseteq faulty',
           UNCHANGED <<engine, run, outcome, looked, misses, fed, feeder, paid>>, BatchOK(b)'
    PROVE  Inv'
<1>1. b \in Items /\ Types /\ Batch(b)[place[b]] \in Groups
  BY CommitFacts DEF Inv
<1>2. pc' \in [Items -> Labels] /\ pc'[b] = label /\ \A c \in Items \ {b} : pc'[c] = pc[c]
  BY <1>1 DEF Types
<1>3. place' \in [Items -> Nat] /\ \A c \in Items \ {b} : place'[c] = place[c]
  BY <1>1 DEF Types
<1>4. Types'
  BY <1>1, <1>2, <1>3 DEF Types, Commits
<1>5. \A j \in Items : results[j].kind # "none" => results'[j].kind # "none"
  BY DEF Commits, Result
<1>6. Works(b)
  BY <1>2, <1>3, <1>5 DEF Works, Commits
<1>7. Aligned'
  BY CommitFacts, CommitsAligned
<1> QED BY <1>4, <1>6, <1>7, WorksInv

\* A commit that fails marks its batch.
LEMMA FaultyInv ==
    ASSUME Inv, NEW b \in Batches, pc[b] \in {"store", "observe"},
           Commits(Batch(b)[place[b]]), pc[b] = "observe" => store' = store,
           pc' = [pc EXCEPT ![b] = "failed"], faulty' = faulty \cup {b},
           UNCHANGED <<engine, run, outcome, looked, misses, fed, feeder, paid, place>>
    PROVE  Inv'
<1>1. b \in Items /\ Types
  BY CommitFacts DEF Inv
<1>2. place' = [place EXCEPT ![b] = place[b]] /\ place[b] \in Nat
  BY <1>1 DEF Types
<1>3. pc'[b] = "failed"
  BY <1>1 DEF Types
<1>4. BatchOK(b)'
  <2>1. Batch(b)' = Batch(b) /\ place'[b] = place[b]
    BY SameBatches
  <2>2. \A p \in 1 .. Len(Batch(b)) : p < place[b] => Kept(b, p)
    BY <1>1, <1>2 DEF Inv, BatchOK
  <2>3. \A p \in 1 .. Len(Batch(b)) : p < place[b] => Kept(b, p)'
    BY <2>2, KeptStays
  <2> QED BY <1>3, <2>1, <2>3 DEF BatchOK, Unpaid
<1>5. "failed" \in Labels \ {"queued"}
  BY DEF Labels
<1> QED BY <1>2, <1>4, <1>5, CommitsInv

\* What the Store may hold after a commit.
LEMMA StoreAfter ==
    ASSUME Inv, NEW i \in Groups, <<run, i>> \in Values,
           store' \in {store, IF Cached THEN [store EXCEPT ![KeyOf[i]] = <<run, i>>] ELSE store}
    PROVE  /\ store' \in [Keys -> Values \cup {None}]
           /\ \A k \in Keys : \/ store'[k] = store[k]
                              \/ Cached /\ k = KeyOf[i] /\ store'[k] = <<run, i>>
<1>1. i \in Items /\ KeyOf[i] \in Keys /\ store \in [Keys -> Values \cup {None}]
  BY GroupFacts, ParallelMapAssumption DEF Inv, Types
<1> QED BY <1>1

\* runBulk stores a value and gives it to the items of its group.
LEMMA CommitCommits ==
    ASSUME Inv, NEW b \in Batches, Commit(b)
    PROVE  Commits(Batch(b)[place[b]])
<1> DEFINE i == Batch(b)[place[b]]
           stored == IF Cached THEN [store EXCEPT ![KeyOf[i]] = <<run, i>>] ELSE store
           x == Result("value", <<run, i>>)
<1>1. /\ i \in Groups /\ <<run, i>> \in Values /\ Indexes(i) \subseteq Items /\ Types
  BY CommitFacts, GroupFacts DEF Inv, Commit
<1>2. x \in [kind : Flags \cup {"value"}, value : Values \cup {None}]
  BY <1>1 DEF Result
<1>3. /\ store' \in [Keys -> Values \cup {None}]
      /\ \A k \in Keys : \/ store'[k] = store[k]
                         \/ Cached /\ k = KeyOf[i] /\ store'[k] = <<run, i>>
  <2>1. store' \in {store, stored}
    BY DEF Commit
  <2> HIDE DEF i
  <2> QED BY <1>1, <2>1, StoreAfter
<1>4. CASE Give(Indexes(i), x) /\ Mark(Indexes(i), IF Cached THEN "stored" ELSE "pending")
  <2>1. /\ results' \in [Items -> [kind : Flags \cup {"value"}, value : Values \cup {None}]]
        /\ \A j \in Items : results'[j] = IF j \in Indexes(i) THEN x ELSE results[j]
    <3> HIDE DEF i, x
    <3> QED BY <1>1, <1>2, <1>4 DEF Give, Types
  <2>2. /\ outcomes' \in [Items -> {"pending", "hit", "stored"}]
        /\ \A j \in Items : \/ outcomes'[j] = outcomes[j]
                            \/ j \in Indexes(i) /\ outcomes'[j] # "hit"
    <3> HIDE DEF i
    <3> QED BY <1>1, <1>4 DEF Mark, Types
  <2> QED BY <1>3, <2>1, <2>2 DEF Commits
<1>5. CASE UNCHANGED itemVars
  BY <1>1, <1>3, <1>5 DEF Commits, itemVars, Types
<1> QED BY <1>4, <1>5 DEF Commit

\* What it owes then is the rest of the batch.
LEMMA CommitInv ==
    ASSUME Inv, NEW b \in Batches, Commit(b)
    PROVE  Inv'
<1> DEFINE i == Batch(b)[place[b]]
           stored == IF Cached THEN [store EXCEPT ![KeyOf[i]] = <<run, i>>] ELSE store
           x == Result("value", <<run, i>>)
<1>1. pc[b] = "store" /\ IsBulk
      /\ UNCHANGED <<engine, run, outcome, looked, misses, fed, feeder, paid, place>>
  BY DEF Commit, mainVars, mapVars
<1>2. /\ b \in Items /\ place[b] \in 1 .. Len(Batch(b)) /\ place[b] \in Nat
      /\ i \in Groups /\ KeyOf[i] \in Keys /\ <<run, i>> \in Values
      /\ Indexes(i) \subseteq Items /\ Types /\ BatchOK(b)
  BY <1>1, CommitFacts, GroupFacts DEF Inv
<1>3. /\ x \in [kind : Flags \cup {"value"}, value : Values \cup {None}]
      /\ x.kind # "none"
  BY <1>2 DEF Result
<1>4. CASE /\ store' = stored
           /\ Give(Indexes(i), x)
           /\ Mark(Indexes(i), IF Cached THEN "stored" ELSE "pending")
           /\ Goto(b, "observe")
           /\ UNCHANGED faulty
  <2>1. Commits(i)
    BY CommitCommits
  <2>2. pc' = [pc EXCEPT ![b] = "observe"] /\ "observe" \in Labels \ {"queued"}
        /\ pc'[b] = "observe"
    BY <1>2, <1>4 DEF Goto, Labels, Types
  <2>3. place' = [place EXCEPT ![b] = place[b]]
    BY <1>1, <1>2 DEF Types
  <2>4. Batch(b)' = Batch(b) /\ Cached' = Cached /\ \A j : Indexes(j)' = Indexes(j)
    BY <1>1, SameBatches
  <2>5. \A p \in 1 .. place[b] : p = place[b] => Kept(b, p)'
    <3>1. Cached => store'[KeyOf[i]] = <<run, i>>
      <4> HIDE DEF i
      <4> QED BY <1>2, <1>4 DEF Types
    <3>2. \A j \in Indexes(i) : results'[j].kind # "none"
      <4> HIDE DEF i, x
      <4> QED BY <1>2, <1>3, <1>4 DEF Give
    <3> QED BY <1>1, <2>4, <3>1, <3>2 DEF Kept, Given
  <2>6. \A p \in 1 .. place[b] : Kept(b, p)'
    <3>1. \A p \in 1 .. place[b] - 1 : p \in 1 .. Len(Batch(b)) /\ Kept(b, p)
      BY <1>1, <1>2 DEF BatchOK
    <3>2. \A p \in 1 .. place[b] - 1 : Kept(b, p)'
      BY <1>1, <2>1, <3>1, KeptStays
    <3> QED BY <1>2, <2>5, <3>2
  <2>7. BatchOK(b)'
    <3>1. place'[b] = place[b]
      BY <1>1
    <3> QED BY <1>2, <2>2, <2>4, <2>6, <3>1 DEF BatchOK, Unpaid
  <2> QED BY <1>1, <1>2, <1>4, <2>1, <2>2, <2>3, <2>7, CommitsInv
<1>5. CASE /\ store' \in {store, stored}
           /\ Goto(b, "failed")
           /\ faulty' = faulty \cup {b}
           /\ UNCHANGED itemVars
  <2>1. Commits(i)
    BY CommitCommits
  <2> QED BY <1>1, <1>5, <2>1, FaultyInv DEF Goto
<1> QED BY <1>4, <1>5 DEF Commit

\* The items of a stored group have been observed.
LEMMA ObserveInv ==
    ASSUME Inv, NEW b \in Batches, Observe(b)
    PROVE  Inv'
<1> DEFINE i == Batch(b)[place[b]]
           label == IF place[b] = Len(Batch(b)) THEN "ended" ELSE "store"
<1>1. pc[b] = "observe"
      /\ UNCHANGED <<engine, run, store, outcome, looked, misses, fed, feeder, paid, results,
                     outcomes>>
  BY DEF Observe, mainVars, mapVars, itemVars
<1>2. /\ b \in Items /\ place[b] \in 1 .. Len(Batch(b)) /\ place[b] \in Nat
      /\ Len(Batch(b)) \in Nat /\ Types /\ BatchOK(b)
  BY <1>1, CommitFacts, BatchFacts DEF Inv, Types
<1>3. Commits(i)
  BY <1>1, <1>2 DEF Commits, Types
<1>4. CASE /\ place' = [place EXCEPT ![b] = @ + 1]
           /\ Goto(b, label)
           /\ UNCHANGED faulty
  <2>1. pc' = [pc EXCEPT ![b] = label] /\ label \in Labels \ {"queued"} /\ pc'[b] = label
    BY <1>2, <1>4 DEF Goto, Labels, Types
  <2>2. place' = [place EXCEPT ![b] = place[b] + 1] /\ place'[b] = place[b] + 1
        /\ place[b] + 1 \in Nat
    BY <1>2, <1>4 DEF Types
  <2>3. Batch(b)' = Batch(b)
    BY <1>1, SameBatches
  <2>4. \A p \in 1 .. place[b] : Kept(b, p)'
    <3>1. \A p \in 1 .. place[b] : p \in 1 .. Len(Batch(b)) /\ Kept(b, p)
      BY <1>1, <1>2 DEF BatchOK
    <3> QED BY <1>1, <1>3, <3>1, KeptStays
  <2>5. BatchOK(b)'
    BY <1>2, <2>1, <2>2, <2>3, <2>4 DEF BatchOK, Unpaid
  <2> HIDE DEF label
  <2> QED BY <1>1, <1>3, <1>4, <2>1, <2>2, <2>5, CommitsInv
<1>5. CASE Goto(b, "failed") /\ faulty' = faulty \cup {b} /\ UNCHANGED place
  BY <1>1, <1>3, <1>5, FaultyInv DEF Goto
<1> QED BY <1>4, <1>5 DEF Observe

\* The map helpers store a value and report its items, or some of them.
LEMMA CommitCachedCommits ==
    ASSUME Inv, NEW b \in Batches, CommitCached(b)
    PROVE  Commits(Batch(b)[place[b]])
<1> DEFINE i == Batch(b)[place[b]]
           stored == [store EXCEPT ![KeyOf[i]] = <<run, i>>]
<1>1. /\ pc[b] = "store" /\ results' = results /\ Cached
      /\ store' \in {store, stored}
      /\ \E seen : (seen = Indexes(i) \/ seen \in Visited(<<i>>) \/ seen = {})
                   /\ (Mark(seen, "stored") \/ outcomes' = outcomes)
  BY DEF CommitCached, IsCachedMap, Cached
<1>2. i \in Groups /\ i \in Items /\ <<run, i>> \in Values /\ Indexes(i) \subseteq Items /\ Types
  BY <1>1, CommitFacts, GroupFacts DEF Inv
<1>3. PICK seen \in SUBSET Indexes(i) : Mark(seen, "stored") \/ outcomes' = outcomes
  <2>1. \A seen \in Visited(<<i>>) : seen \in SUBSET Indexes(i)
    BY <1>2, VisitedOne
  <2> HIDE DEF i
  <2> QED BY <1>1, <2>1
<1>4. /\ store' \in [Keys -> Values \cup {None}]
      /\ \A k \in Keys : \/ store'[k] = store[k]
                         \/ Cached /\ k = KeyOf[i] /\ store'[k] = <<run, i>>
  <2> HIDE DEF i
  <2> QED BY <1>1, <1>2, StoreAfter
<1>5. /\ outcomes' \in [Items -> {"pending", "hit", "stored"}]
      /\ \A j \in Items : \/ outcomes'[j] = outcomes[j]
                          \/ j \in Indexes(i) /\ outcomes'[j] # "hit"
  <2> HIDE DEF i
  <2> QED BY <1>2, <1>3 DEF Mark, Types
<1> QED BY <1>1, <1>2, <1>4, <1>5 DEF Commits, Types

\* They go on with the batch, or fail with it marked.
LEMMA CommitCachedInv ==
    ASSUME Inv, NEW b \in Batches, CommitCached(b)
    PROVE  Inv'
<1> DEFINE i == Batch(b)[place[b]]
           stored == [store EXCEPT ![KeyOf[i]] = <<run, i>>]
           label == IF place[b] = Len(Batch(b)) THEN "ended" ELSE "store"
<1>1. pc[b] = "store" /\ IsCachedMap /\ results' = results
      /\ UNCHANGED <<engine, run, outcome, looked, misses, fed, feeder, paid>>
  BY DEF CommitCached, mainVars, mapVars
<1>2. /\ b \in Items /\ place[b] \in 1 .. Len(Batch(b)) /\ place[b] \in Nat
      /\ i \in Groups /\ i \in Items /\ KeyOf[i] \in Keys /\ <<run, i>> \in Values
      /\ Indexes(i) \subseteq Items /\ Types /\ BatchOK(b) /\ Len(Batch(b)) \in Nat
  BY <1>1, CommitFacts, GroupFacts, BatchFacts DEF Inv, Types
<1>3. Cached /\ ~IsBulk
  BY <1>1 DEF IsCachedMap, Cached, IsBulk
<1>4. Commits(i)
  BY CommitCachedCommits
<1>5. CASE /\ store' = stored
           /\ Mark(Indexes(i), "stored")
           /\ place' = [place EXCEPT ![b] = @ + 1]
           /\ Goto(b, label)
           /\ UNCHANGED faulty
  <2>2. pc' = [pc EXCEPT ![b] = label] /\ label \in Labels \ {"queued"} /\ pc'[b] = label
    BY <1>2, <1>5 DEF Goto, Labels, Types
  <2>3. place' = [place EXCEPT ![b] = place[b] + 1] /\ place'[b] = place[b] + 1
        /\ place[b] + 1 \in Nat
    BY <1>2, <1>5 DEF Types
  <2>4. Batch(b)' = Batch(b) /\ IsBulk' = IsBulk
    BY <1>1, SameBatches
  <2>5. \A p \in 1 .. place[b] : p = place[b] => Kept(b, p)'
    <3>1. store'[KeyOf[i]] = <<run, i>>
      <4> HIDE DEF i
      <4> QED BY <1>2, <1>5 DEF Types
    <3> QED BY <1>1, <1>3, <2>4, <3>1 DEF Kept
  <2>6. \A p \in 1 .. place[b] : Kept(b, p)'
    <3>1. \A p \in 1 .. place[b] - 1 : p \in 1 .. Len(Batch(b)) /\ Kept(b, p)
      BY <1>1, <1>2 DEF BatchOK
    <3>2. \A p \in 1 .. place[b] - 1 : Kept(b, p)'
      BY <1>1, <1>4, <3>1, KeptStays
    <3> QED BY <1>2, <2>5, <3>2
  <2>7. BatchOK(b)'
    <3>1. CASE place[b] = Len(Batch(b))
      <4>1. pc'[b] = "ended"
        BY <2>2, <3>1
      <4>2. \A p \in 1 .. Len(Batch(b)) : Kept(b, p)'
        BY <2>6, <3>1
      <4> QED BY <2>4, <4>1, <4>2 DEF BatchOK, Unpaid
    <3>2. CASE place[b] # Len(Batch(b))
      <4>1. pc'[b] = "store" /\ place'[b] \in 1 .. Len(Batch(b)) /\ place'[b] - 1 = place[b]
        BY <1>2, <2>2, <2>3, <3>2
      <4> QED BY <2>4, <2>6, <4>1 DEF BatchOK, Unpaid
    <3> QED BY <3>1, <3>2
  <2> HIDE DEF label
  <2> QED BY <1>1, <1>4, <1>5, <2>2, <2>3, <2>7, CommitsInv
<1>6. CASE Goto(b, "failed") /\ faulty' = faulty \cup {b} /\ UNCHANGED place
  BY <1>1, <1>4, <1>6, FaultyInv DEF Goto
<1> QED BY <1>5, <1>6 DEF CommitCached

\* Every step of a worker.
LEMMA BatchStepInv ==
    ASSUME Inv, NEW b \in Batches, BatchStep(b)
    PROVE  Inv'
<1>1. CASE Admit(b) \/ AdmitCached(b)
  <2>1. /\ pc[b] = "admit"
        /\ \E label \in {"do", "failed"} : pc' = [pc EXCEPT ![b] = label]
        /\ UNCHANGED <<engine, run, store, outcome, looked, misses, fed, feeder, place, faulty,
                       paid, results, outcomes>>
    BY <1>1 DEF Admit, AdmitCached, Goto, mainVars, mapVars, batchVars, itemVars
  <2> QED BY <2>1, RelabelInv
<1>2. CASE DoSucceeds(b) \/ WorkCached(b)
  <2>1. /\ pc[b] = "do"
        /\ \/ /\ pc' = [pc EXCEPT ![b] = "store"] /\ paid' = paid \cup ToSet(Batch(b))
              /\ faulty' = faulty
           \/ /\ pc' = [pc EXCEPT ![b] = "failed"] /\ paid' = paid \cup ToSet(Batch(b))
              /\ faulty' = faulty \cup {b}
           \/ pc' = [pc EXCEPT ![b] = "failed"] /\ paid' = paid /\ faulty' = faulty
        /\ UNCHANGED <<engine, run, store, outcome, looked, misses, fed, feeder, place, results,
                       outcomes>>
    BY <1>2 DEF DoSucceeds, WorkCached, Goto, mainVars, mapVars, batchVars, itemVars
  <2> QED BY <2>1, RelabelInv, PaysInv, LosesInv
<1>3. CASE DoRetries(b) \/ BackOff(b)
  <2>1. /\ pc[b] \in {"do", "backoff"}
        /\ \E label \in {"admit", "backoff", "failed"} : pc' = [pc EXCEPT ![b] = label]
        /\ UNCHANGED <<engine, run, store, outcome, looked, misses, fed, feeder, place, faulty,
                       paid, results, outcomes>>
    BY <1>3 DEF DoRetries, BackOff, Goto, mainVars, mapVars, batchVars, itemVars
  <2> QED BY <2>1, RelabelInv
<1>4. CASE DoFails(b)
  <2> DEFINE flag == IF OnError = "Skip" THEN "skipped" ELSE "quarantined"
             all == UNION {Indexes(i) : i \in ToSet(Batch(b))}
  <2>1. /\ pc[b] = "do" /\ IsBulk
        /\ UNCHANGED <<engine, run, store, outcome, looked, misses, fed, feeder, place, faulty,
                       paid, outcomes>>
    BY <1>4 DEF DoFails, mainVars, mapVars, batchVars
  <2>2. CASE pc' = [pc EXCEPT ![b] = "failed"] /\ UNCHANGED results
    BY <2>1, <2>2, RelabelInv
  <2>3. CASE \E seen \in Visited(Batch(b)) :
               /\ \/ seen = all /\ pc' = [pc EXCEPT ![b] = "ended"]
                  \/ pc' = [pc EXCEPT ![b] = "failed"]
               /\ Give(seen, Result(flag, None))
    <3>1. PICK seen \in Visited(Batch(b)) :
               /\ \/ seen = all /\ pc' = [pc EXCEPT ![b] = "ended"]
                  \/ pc' = [pc EXCEPT ![b] = "failed"]
               /\ Give(seen, Result(flag, None))
      BY <2>3
    <3>2. Batch(b) \in Seq(Items) /\ \A p \in 1 .. Len(Batch(b)) : Batch(b)[p] \in Groups
      BY BatchFacts, BatchMembers DEF Inv, Types
    <3>3. seen \in SUBSET Items
      <4>1. \A j \in seen : \E p \in 1 .. Len(Batch(b)) : j \in Indexes(Batch(b)[p])
        BY <3>2, VisitedFacts
      <4> QED BY <3>2, <4>1, GroupFacts
    <3>4. seen = all => \A p \in 1 .. Len(Batch(b)) : Indexes(Batch(b)[p]) \subseteq seen
      <4>1. \A p \in 1 .. Len(Batch(b)) : Batch(b)[p] \in ToSet(Batch(b))
        BY <3>2 DEF ToSet
      <4> QED BY <4>1
    <3>5. flag \in {"skipped", "quarantined"}
      OBVIOUS
    <3> HIDE DEF flag, all
    <3>6. CASE seen = all /\ pc' = [pc EXCEPT ![b] = "ended"]
      BY <2>1, <3>1, <3>3, <3>4, <3>5, <3>6, FlagInv
    <3>7. CASE pc' = [pc EXCEPT ![b] = "failed"]
      BY <2>1, <3>1, <3>3, <3>5, <3>7, FlagInv
    <3> QED BY <3>1, <3>6, <3>7
  <2> QED BY <1>4, <2>2, <2>3 DEF DoFails, Goto
<1> QED BY <1>1, <1>2, <1>3, <1>4, CommitInv, ObserveInv, CommitCachedInv
        DEF BatchStep, BulkStep, CachedStep

------------------------------------------------------------------------------
(* The caller of Map                                                         *)

\* There are no more batches than items.
LEMMA BatchesAreItems ==
    ASSUME NEW l \in 0 .. N, NEW s \in Nat \ {0}
    PROVE  (l + s - 1) \div s \in 0 .. N
<1> DEFINE c == (l + s - 1) \div s
<1>1. N \in Nat /\ l \in Nat
  BY ParallelMapAssumption
<1>2. c \in Nat /\ c * s <= l + s - 1
  BY <1>1, CountFacts
<1> HIDE DEF c
<1>3. c <= l
  <2>1. CASE l < c
    <3>1. l * s \in Nat /\ l * s + s <= c * s /\ c * s \in Int
      BY <1>1, <1>2, <2>1, ProductFacts
    <3>2. l <= l * s
      <4>1. s - 1 \in Nat /\ l * (s - 1) \in Nat
        BY <1>1
      <4>2. l * s = l + l * (s - 1)
        BY <1>1
      <4> QED BY <1>1, <4>1, <4>2
    <3> QED BY <1>1, <1>2, <3>1, <3>2
  <2> QED BY <1>1, <1>2, <2>1
<1> QED BY <1>1, <1>2, <1>3 DEF c

\* No batch has been handed over.
Quiet ==
    /\ fed = 0 /\ feeder = "on" /\ paid = {}
    /\ \A b \in Items : pc[b] = "queued" /\ place[b] = 1

\* Then nothing is owed for a batch.
LEMMA QuietInv ==
    Types /\ Looking /\ Quiet /\ Aligned /\ Complete => Inv
<1> SUFFICES ASSUME Types, Looking, Quiet, Aligned, Complete PROVE Inv
  OBVIOUS
<1>1. BatchCount \in 0 .. N /\ N \in Nat
  <2>1. Len(misses) \in 0 .. N /\ N \in Nat
    BY ParallelMapAssumption DEF Types, Looking
  <2> QED BY <2>1, SizeFacts, BatchesAreItems DEF BatchCount
<1>2. Batches \subseteq Items
  BY <1>1 DEF Batches, Items
<1>3. Feeding
  <2>1. \A b \in Items : b > fed
    BY <1>1 DEF Items, Quiet
  <2> QED BY <1>1, <1>2, <2>1 DEF Feeding, Quiet, Running
<1>4. ASSUME NEW b \in Batches PROVE BatchOK(b)
  BY <1>2 DEF BatchOK, Quiet, NotPaid, Unpaid
<1> QED BY <1>3, <1>4 DEF Inv

\* Nothing is handed over while the caller looks up its groups.
LEMMA LoadingIsQuiet ==
    ASSUME Inv, outcome = "loading"
    PROVE  Quiet
<1>1. \A b \in Items : b > 0
  BY ParallelMapAssumption DEF Items
<1> QED BY <1>1 DEF Inv, Feeding, Quiet

\* The program starts with nothing looked up.
LEMMA InvInit ==
    Init => Inv
<1> SUFFICES ASSUME Init PROVE Inv
  OBVIOUS
<1>1. NoResult \in [kind : Flags \cup {"value"}, value : Values \cup {None}]
      /\ NoResult.kind = "none"
  BY DEF NoResult, Result, Flags
<1>2. 1 \in 1 .. MaxRuns /\ N \in Nat /\ Engines \subseteq EngineNames
  BY ParallelMapAssumption
<1>3. Types
  BY <1>1, <1>2 DEF Init, Types, Labels
<1>4. Looking
  <2>1. misses = <<>> /\ Len(misses) = 0 /\ looked = 0 /\ outcome = "loading"
    BY DEF Init
  <2>2. \A i \in Groups : ~(i <= 0)
    BY <1>2 DEF Groups, Items
  <2> QED BY <2>1, <2>2 DEF Looking
<1>5. Quiet
  BY DEF Init, Quiet
<1>6. Aligned
  <2>1. misses = <<>> /\ Len(misses) = 0
    BY DEF Init
  <2>2. \A i \in Items : results[i].kind # "value" /\ outcomes[i] # "hit"
    BY <1>1 DEF Init
  <2>3. \A k \in Keys : store[k] = None
    BY DEF Init
  <2>4. \A i \in ToLook : Indexes(i) \subseteq Items
    BY GroupFacts DEF ToLook
  <2> QED BY <2>1, <2>2, <2>3, <2>4 DEF Aligned
<1>7. Complete
  BY DEF Init, Complete
<1> QED BY <1>3, <1>4, <1>5, <1>6, <1>7, QuietInv

\* A crash or a new start forgets everything but the Store.
LEMMA RestartInv ==
    ASSUME Inv, Restart
    PROVE  Inv'
<1>1. NoResult \in [kind : Flags \cup {"value"}, value : Values \cup {None}]
      /\ NoResult.kind = "none"
  BY DEF NoResult, Result, Flags
<1>2. run + 1 \in 1 .. MaxRuns /\ N \in Nat /\ UNCHANGED <<engine, store>>
  BY ParallelMapAssumption DEF Restart, Inv, Types
<1>3. Types'
  BY <1>1, <1>2 DEF Restart, Inv, Types, Labels
<1>4. Looking'
  <2>1. misses' = <<>> /\ Len(misses') = 0 /\ looked' = 0 /\ outcome' = "loading"
    BY DEF Restart
  <2>2. \A i \in Groups' : ~(i <= 0)
    BY <1>2 DEF Groups, Items
  <2> QED BY <2>1, <2>2 DEF Looking
<1>5. Quiet'
  BY DEF Restart, Quiet
<1>6. Aligned'
  <2>1. misses' = <<>> /\ Len(misses') = 0
    BY DEF Restart
  <2>2. \A i \in Items : results'[i].kind # "value" /\ outcomes'[i] # "hit"
    BY <1>1 DEF Restart
  <2>3. \A k \in Keys : store'[k] # None => KeyOf[store'[k][2]] = k
    BY <1>2 DEF Inv, Aligned
  <2>4. \A i \in ToLook' : Indexes(i)' \subseteq Items
    BY DEF ToLook, Groups, Indexes
  <2> QED BY <2>1, <2>2, <2>3, <2>4 DEF Aligned
<1>7. Complete'
  BY DEF Restart, Complete
<1> QED BY <1>3, <1>4, <1>5, <1>6, <1>7, QuietInv, PTL

\* What looking up group i may do: fail, hit, or miss.
LookUp(i) ==
    /\ outcome = "loading" /\ looked' = i
    /\ i \in ToLook /\ \A j \in ToLook : i <= j
    /\ \/ outcome' = "failed" /\ UNCHANGED <<misses, results, outcomes>>
       \/ /\ Cached /\ store[KeyOf[i]] # None /\ UNCHANGED misses
          /\ \E seen \in SUBSET Indexes(i) :
               /\ (seen = Indexes(i) /\ UNCHANGED outcome) \/ outcome' = "failed"
               /\ Give(seen, Result("value", store[KeyOf[i]]))
               /\ Mark(seen, "hit")
       \/ misses' = Append(misses, i) /\ UNCHANGED <<outcome, results, outcomes>>
    /\ UNCHANGED <<engine, run, store, fed, feeder, pc, place, faulty, paid>>

\* Both callers' loads are such a lookup.
LEMMA LoadsLookUp ==
    ASSUME Inv, NEW i \in Items, Load(i) \/ LoadCached(i)
    PROVE  LookUp(i)
<1>1. \A seen \in Visited(<<i>>) : seen \in SUBSET Indexes(i)
  BY VisitedOne
<1>2. CASE Load(i)
  BY <1>1, <1>2 DEF Load, LookUp, mapVars, batchVars, itemVars
<1>3. CASE LoadCached(i)
  <2>1. Cached
    BY <1>3 DEF LoadCached, IsCachedMap, Cached
  <2> QED BY <1>1, <1>3, <2>1 DEF LoadCached, LookUp, mapVars, batchVars, itemVars
<1> QED BY <1>2, <1>3

\* The group next to look up, and the groups looked up before it.
LEMMA LookUpFacts ==
    ASSUME Inv, NEW i, LookUp(i)
    PROVE  /\ i \in Groups /\ i \in Items /\ i \in Nat /\ looked \in Nat /\ looked < i
           /\ i \in 0 .. N /\ Indexes(i) \subseteq Items
           /\ Groups' = Groups /\ \A j : Indexes(j)' = Indexes(j)
           /\ \A j \in Groups : j <= i => j <= looked \/ j = i
           /\ \A j \in ToLook' : j \in ToLook /\ j # i
           /\ \A p \in 1 .. Len(misses) : misses[p] \in Nat /\ misses[p] < i
<1>1. i \in Groups /\ i > looked /\ looked \in 0 .. N /\ N \in Nat /\ looked' = i
      /\ engine' = engine
  BY ParallelMapAssumption DEF LookUp, ToLook, Inv, Types
<1>2. i \in Items /\ Indexes(i) \subseteq Items
  BY <1>1, GroupFacts
<1>3. \A j \in Groups : j \in Nat
  BY <1>1 DEF Groups, Items
<1>4. Groups' = Groups /\ \A j : Indexes(j)' = Indexes(j)
  BY <1>1 DEF Groups, Indexes, Cached
<1>5. \A j \in Groups : j <= i => j <= looked \/ j = i
  BY <1>1, <1>3 DEF LookUp, ToLook
<1>6. \A j \in ToLook' : j \in ToLook /\ j # i
  BY <1>1, <1>3, <1>4 DEF ToLook
<1>7. \A p \in 1 .. Len(misses) : misses[p] \in Nat /\ misses[p] < i
  BY <1>1, <1>3 DEF Inv, Looking
<1> QED BY <1>1, <1>2, <1>3, <1>4, <1>5, <1>6, <1>7 DEF Items

\* A lookup leaves its group with results, or among the misses, or ends the call.
LEMMA LookUpInv ==
    ASSUME Inv, NEW i, LookUp(i)
    PROVE  Inv'
<1> DEFINE value == store[KeyOf[i]]
           x == Result("value", value)
<1>1. /\ i \in Groups /\ i \in Items /\ i \in Nat /\ looked \in Nat /\ looked < i
      /\ i \in 0 .. N /\ Indexes(i) \subseteq Items
      /\ Groups' = Groups /\ \A j : Indexes(j)' = Indexes(j)
  BY LookUpFacts
<1>2. /\ \A j \in Groups : j <= i => j <= looked \/ j = i
      /\ \A j \in ToLook' : j \in ToLook /\ j # i
      /\ \A p \in 1 .. Len(misses) : misses[p] \in Nat /\ misses[p] < i
  BY LookUpFacts
<1>3. /\ Types /\ Looking /\ Aligned /\ outcome = "loading" /\ looked' = i
      /\ UNCHANGED <<engine, run, store, fed, feeder, pc, place, faulty, paid>>
  BY DEF LookUp, Inv
<1>4. Quiet'
  BY <1>3, LoadingIsQuiet DEF Quiet
<1>5. misses \in Seq(Items) /\ Len(misses) \in Nat /\ Len(misses) <= looked
  BY <1>3 DEF Types, Looking
<1>6. CASE outcome' = "failed" /\ UNCHANGED <<misses, results, outcomes>>
  <2>1. Types'
    BY <1>1, <1>3, <1>6 DEF Types
  <2>2. Looking'
    BY <1>1, <1>2, <1>3, <1>5, <1>6 DEF Looking
  <2>3. Aligned'
    BY <1>1, <1>2, <1>3, <1>6 DEF Aligned
  <2>4. Complete'
    BY <1>6 DEF Complete
  <2> QED BY <1>4, <2>1, <2>2, <2>3, <2>4, QuietInv, PTL
<1>7. CASE /\ Cached /\ value # None /\ UNCHANGED misses
           /\ \E seen \in SUBSET Indexes(i) :
                /\ (seen = Indexes(i) /\ UNCHANGED outcome) \/ outcome' = "failed"
                /\ Give(seen, x)
                /\ Mark(seen, "hit")
  <2>1. PICK seen \in SUBSET Indexes(i) :
                /\ (seen = Indexes(i) /\ UNCHANGED outcome) \/ outcome' = "failed"
                /\ Give(seen, x)
                /\ Mark(seen, "hit")
    BY <1>7
  <2>2. value \in Values /\ KeyOf[value[2]] = KeyOf[i] /\ value[2] \in Items
    <3>1. KeyOf[i] \in Keys
      BY <1>1, ParallelMapAssumption
    <3>2. value \in Values /\ KeyOf[value[2]] = KeyOf[i]
      BY <1>3, <1>7, <3>1 DEF Types, Aligned
    <3> QED BY <3>2 DEF Values
  <2>3. /\ x \in [kind : Flags \cup {"value"}, value : Values \cup {None}]
        /\ x.kind = "value" /\ x.value = value
    BY <2>2 DEF Result
  <2>4. Indexes(value[2]) = Indexes(i)
    BY <1>7, <2>2 DEF Indexes
  <2> HIDE DEF x, value
  <2>5. /\ results' \in [Items -> [kind : Flags \cup {"value"}, value : Values \cup {None}]]
        /\ outcomes' \in [Items -> {"pending", "hit", "stored"}]
        /\ \A j \in Items : results'[j] = IF j \in seen THEN x ELSE results[j]
        /\ \A j \in Items : outcomes'[j] = IF j \in seen THEN "hit" ELSE outcomes[j]
    BY <1>3, <2>1, <2>3 DEF Give, Mark, Types
  <2>6. Types'
    <3>1. outcome' \in {"loading", "failed"} /\ misses' = misses
      BY <1>3, <1>7, <2>1
    <3> QED BY <1>1, <1>3, <2>5, <3>1 DEF Types
  <2>7. Looking'
    <3>1. ASSUME NEW j \in Groups, Given(j) PROVE Given(j)'
      BY <1>1, <2>3, <2>5, <3>1, GroupFacts DEF Given
    <3>2. seen = Indexes(i) => Given(i)'
      BY <1>1, <2>3, <2>5 DEF Given
    <3>3. /\ misses' = misses
          /\ \/ outcome' = "failed"
             \/ outcome' = "loading" /\ seen = Indexes(i)
      BY <1>3, <1>7, <2>1
    <3>4. outcome' # "failed" =>
            \A j \in Groups : j <= i =>
              Given(j)' \/ \E p \in 1 .. Len(misses) : j = misses[p]
      BY <1>2, <1>3, <3>1, <3>2, <3>3 DEF Looking
    <3>5. /\ Len(misses) <= i
          /\ \A p \in 1 .. Len(misses) : misses[p] \in Groups /\ misses[p] <= i
          /\ \A p, q \in 1 .. Len(misses) : p < q => misses[p] < misses[q]
      BY <1>1, <1>2, <1>3, <1>5 DEF Looking
    <3> QED BY <1>1, <1>3, <3>3, <3>4, <3>5 DEF Looking
  <2>8. Aligned'
    <3>1. ASSUME NEW j \in Items, results'[j].kind = "value"
          PROVE  /\ results'[j].value \in Values
                 /\ j \in Indexes(results'[j].value[2])
                 /\ results'[j].value[1] = run \/ outcomes'[j] = "hit"
      <4>1. CASE j \in seen
        BY <2>1, <2>2, <2>3, <2>4, <2>5, <4>1
      <4>2. CASE j \notin seen
        BY <1>3, <2>5, <3>1, <4>2 DEF Aligned
      <4> QED BY <4>1, <4>2
    <3>2. ASSUME NEW g \in Groups, g # i, NEW j \in Indexes(g) PROVE outcomes'[j] = outcomes[j]
      <4>1. j \in Items /\ j \notin Indexes(i)
        BY <1>1, <3>2, GroupFacts
      <4> QED BY <2>1, <2>5, <4>1
    <3>3. \A p \in 1 .. Len(misses) : \A j \in Indexes(misses[p]) : outcomes'[j] # "hit"
      <4>1. \A p \in 1 .. Len(misses) : misses[p] \in Groups /\ misses[p] # i
        BY <1>1, <1>2, <1>3 DEF Looking
      <4> QED BY <1>3, <3>2, <4>1 DEF Aligned
    <3>4. \A g \in ToLook' : \A j \in Indexes(g) : outcomes'[j] # "hit"
      <4>1. \A g \in ToLook' : g \in Groups /\ g # i /\ g \in ToLook
        BY <1>2 DEF ToLook
      <4> QED BY <1>3, <3>2, <4>1 DEF Aligned
    <3> QED BY <1>1, <1>3, <1>7, <3>1, <3>3, <3>4 DEF Aligned
  <2>9. Complete'
    BY <1>3, <2>1 DEF Complete
  <2> QED BY <1>4, <2>6, <2>7, <2>8, <2>9, QuietInv, PTL
<1>8. CASE misses' = Append(misses, i) /\ UNCHANGED <<outcome, results, outcomes>>
  <2>1. /\ misses' \in Seq(Items) /\ Len(misses') = Len(misses) + 1
        /\ misses'[Len(misses) + 1] = i
        /\ \A p \in 1 .. Len(misses) : misses'[p] = misses[p]
    BY <1>1, <1>5, <1>8
  <2>2. \A p \in 1 .. Len(misses') : p \in 1 .. Len(misses) \/ p = Len(misses) + 1
    BY <1>5, <2>1
  <2>3. Types'
    BY <1>1, <1>3, <1>8, <2>1 DEF Types
  <2>4. Looking'
    <3>1. Len(misses') <= looked'
      BY <1>1, <1>3, <1>5, <2>1
    <3>2. \A p \in 1 .. Len(misses') : misses'[p] \in Groups /\ misses'[p] <= looked'
      BY <1>1, <1>2, <1>3, <2>1, <2>2 DEF Looking
    <3>3. ASSUME NEW p \in 1 .. Len(misses'), NEW q \in 1 .. Len(misses'), p < q
          PROVE  misses'[p] < misses'[q]
      <4>1. p \in 1 .. Len(misses)
        BY <1>5, <2>1, <3>3
      <4>2. CASE q \in 1 .. Len(misses)
        BY <1>3, <2>1, <3>3, <4>1, <4>2 DEF Looking
      <4>3. CASE q = Len(misses) + 1
        BY <1>2, <2>1, <4>1, <4>3
      <4> QED BY <2>2, <4>2, <4>3
    <3>4. ASSUME NEW j \in Groups, j <= i
          PROVE  Given(j)' \/ \E p \in 1 .. Len(misses') : j = misses'[p]
      <4>1. CASE j = i
        BY <1>5, <2>1, <4>1
      <4>2. CASE j <= looked /\ Given(j)
        BY <1>1, <1>8, <4>2 DEF Given
      <4>3. CASE \E p \in 1 .. Len(misses) : j = misses[p]
        <5>1. \A p \in 1 .. Len(misses) : p \in 1 .. Len(misses')
          BY <1>5, <2>1
        <5> QED BY <2>1, <4>3, <5>1
      <4> QED BY <1>2, <1>3, <3>4, <4>1, <4>2, <4>3 DEF Looking
    <3> QED BY <1>1, <1>3, <1>8, <3>1, <3>2, <3>3, <3>4 DEF Looking
  <2>5. Aligned'
    <3>1. \A j \in Indexes(i) : outcomes[j] # "hit"
      BY <1>3 DEF Aligned, LookUp
    <3>2. \A p \in 1 .. Len(misses') : \A j \in Indexes(misses'[p]) : outcomes'[j] # "hit"
      BY <1>3, <1>8, <2>1, <2>2, <3>1 DEF Aligned
    <3>3. \A g \in ToLook' : \A j \in Indexes(g) : outcomes'[j] # "hit"
      BY <1>2, <1>3, <1>8 DEF Aligned
    <3> QED BY <1>1, <1>3, <1>8, <3>2, <3>3 DEF Aligned
  <2>6. Complete'
    BY <1>3, <1>8 DEF Complete
  <2> QED BY <1>4, <2>3, <2>4, <2>5, <2>6, QuietInv, PTL
<1> QED BY <1>6, <1>7, <1>8 DEF LookUp

\* All groups were looked up: Map starts, or there is nothing to do.
LEMMA StartMapInv ==
    ASSUME Inv, StartMap \/ StartMapCached
    PROVE  Inv'
<1>1. /\ outcome = "loading" /\ ToLook = {}
      /\ outcome' \in {"mapping", "ok", "failed"}
      /\ outcome' = "ok" => misses = <<>>
      /\ UNCHANGED <<engine, run, store, looked, misses, fed, feeder, pc, place, faulty, paid,
                     results, outcomes>>
  BY DEF StartMap, StartMapCached, mapVars, batchVars, itemVars
<1>2. Types /\ Looking /\ looked \in Nat
  BY DEF Inv, Types
<1>3. \A i \in Groups : i \in Nat /\ i <= looked
  <2>1. \A i \in Groups : i \in Nat
    BY ParallelMapAssumption DEF Groups, Items
  <2> QED BY <1>1, <1>2, <2>1 DEF ToLook
<1>4. Groups' = Groups /\ \A j : Indexes(j)' = Indexes(j)
  BY <1>1, SameBatches
<1>5. \A i : Given(i)' <=> Given(i)
  BY <1>1, <1>4 DEF Given
<1>6. Types'
  BY <1>1, <1>2 DEF Types
<1>7. Looking'
  BY <1>1, <1>2, <1>3, <1>4, <1>5 DEF Looking
<1>8. Quiet'
  BY <1>1, LoadingIsQuiet DEF Quiet
<1>9. Complete'
  <2> SUFFICES ASSUME outcome' = "ok", NEW j \in Items PROVE results[j].kind # "none"
    BY <1>1 DEF Complete
  <2>1. Len(misses) = 0
    BY <1>1
  <2>2. PICK i \in Groups : j \in Indexes(i)
    BY InGroup
  <2> QED BY <1>1, <1>2, <1>3, <2>1, <2>2 DEF Looking, Given
<1>10. Aligned'
  BY <1>1, AlignedFrame
<1> QED BY <1>6, <1>7, <1>8, <1>9, <1>10, QuietInv, PTL

\* Batches are left alone by a step that takes no result away.
LEMMA BatchesFrame ==
    ASSUME Inv, UNCHANGED <<engine, run, store, misses, paid, pc, place, faulty>>,
           IsBulk => UNCHANGED results
    PROVE  \A b \in Batches' : BatchOK(b)'
<1>1. /\ Cached' = Cached /\ IsBulk' = IsBulk /\ Batches' = Batches
      /\ \A i : Indexes(i)' = Indexes(i)
      /\ \A b : Batch(b)' = Batch(b)
  BY SameBatches
<1>2. IsBulk => \A i : Given(i)' <=> Given(i)
  BY <1>1 DEF Given
<1>3. \A b, p : Kept(b, p) => Kept(b, p)'
  BY <1>1, <1>2 DEF Kept
<1>4. \A b : NotPaid(b) => NotPaid(b)'
  BY <1>1 DEF NotPaid
<1>5. ASSUME NEW b \in Batches PROVE BatchOK(b)'
  <2>1. BatchOK(b)
    BY DEF Inv
  <2> QED BY <1>1, <1>2, <1>3, <1>4, <2>1 DEF BatchOK
<1> QED BY <1>1, <1>5

\* When Map has returned without an error, every batch has ended.
LEMMA JoinedFacts ==
    ASSUME Inv, Joined
    PROVE  /\ outcome = "mapping" /\ outcome' \in {"ok", "failed"} /\ Running = {}
           /\ outcome' = "ok" => \A b \in Batches : pc[b] = "ended"
<1>1. outcome = "mapping" /\ outcome' \in {"ok", "failed"} /\ Running = {} /\ feeder # "on"
  BY DEF Joined
<1>2. ASSUME outcome' = "ok", NEW b \in Batches PROVE pc[b] = "ended"
  <2>1. Failed = {} /\ feeder = "done"
    BY <1>1, <1>2 DEF Joined, Inv, Types
  <2>2. fed = BatchCount /\ fed \in Nat /\ b \in Items /\ b \in 1 .. BatchCount
    BY <2>1, BatchMembers DEF Inv, Feeding, Types, Batches
  <2>3. ~(b > fed)
    BY <2>2
  <2>4. pc[b] # "queued"
    BY <2>2, <2>3 DEF Inv, Feeding
  <2>5. pc[b] # "failed"
    BY <2>1 DEF Failed
  <2> QED BY <1>1, <2>4, <2>5 DEF Running
<1> QED BY <1>1, <1>2

\* What remains of the invariant when Map returns.
LEMMA ReturnsInv ==
    ASSUME Inv, Joined, UNCHANGED <<engine, run, store, looked, misses, fed, feeder, pc, place,
                                    faulty, paid, outcomes>>,
           IsBulk => UNCHANGED results,
           results' \in [Items -> [kind : Flags \cup {"value"}, value : Values \cup {None}]],
           \A j \in Items : results[j].kind # "none" => results'[j].kind # "none",
           Aligned', Complete'
    PROVE  Inv'
<1>1. outcome = "mapping" /\ outcome' \in {"ok", "failed"} /\ Running = {}
  BY JoinedFacts
<1>2. /\ Batches' = Batches /\ BatchCount' = BatchCount /\ Groups' = Groups
      /\ \A i : Indexes(i)' = Indexes(i)
  BY SameBatches
<1>3. Types'
  BY <1>1 DEF Inv, Types
<1>4. Looking'
  <2>1. ASSUME NEW i \in Groups PROVE Given(i) => Given(i)'
    BY <1>2, GroupFacts DEF Given
  <2> QED BY <1>1, <1>2, <2>1 DEF Inv, Looking
<1>5. Running' = Running
  BY <1>2 DEF Running
<1>6. Feeding'
  BY <1>1, <1>2, <1>5 DEF Inv, Feeding
<1> QED BY <1>3, <1>4, <1>6, BatchesFrame DEF Inv

\* runBulk's items were given their results group by group.
LEMMA ReturnInv ==
    ASSUME Inv, Return
    PROVE  Inv'
<1>1. /\ IsBulk /\ Joined
      /\ UNCHANGED <<engine, run, store, looked, misses, fed, feeder, pc, place, faulty, paid,
                     results, outcomes>>
  BY DEF Return, mapVars, batchVars, itemVars
<1>2. Aligned'
  BY <1>1, AlignedFrame
<1>3. Complete'
  <2> SUFFICES ASSUME outcome' = "ok", NEW j \in Items PROVE results[j].kind # "none"
    BY <1>1 DEF Complete
  <2>1. outcome = "mapping" /\ \A b \in Batches : pc[b] = "ended"
    BY <1>1, JoinedFacts
  <2>2. PICK i \in Groups : j \in Indexes(i)
    BY InGroup
  <2>3. Given(i) \/ \E p \in 1 .. Len(misses) : i = misses[p]
    BY <2>1 DEF Inv, Looking
  <2>4. ASSUME NEW m \in 1 .. Len(misses), i = misses[m] PROVE Given(i)
    <3>1. PICK b \in Batches : \E p \in 1 .. Len(Batch(b)) : Batch(b)[p] = misses[m]
      BY BatchOfMiss DEF Inv, Types
    <3>2. PICK p \in 1 .. Len(Batch(b)) : Batch(b)[p] = misses[m]
      BY <3>1
    <3>3. pc[b] = "ended" /\ BatchOK(b)
      BY <2>1 DEF Inv
    <3> QED BY <1>1, <2>4, <3>2, <3>3 DEF BatchOK, Kept
  <2>5. Given(i)
    BY <2>3, <2>4
  <2> QED BY <2>2, <2>5 DEF Given
<1>4. results \in [Items -> [kind : Flags \cup {"value"}, value : Values \cup {None}]]
  BY DEF Inv, Types
<1> QED BY <1>1, <1>2, <1>3, <1>4, ReturnsInv

\* The map helpers give every miss its value at the end.
LEMMA ReturnCachedInv ==
    ASSUME Inv, ReturnCached
    PROVE  Inv'
<1> DEFINE R == [kind : Flags \cup {"value"}, value : Values \cup {None}]
           Of(j) == CHOOSE i \in ToSet(misses) : j \in Indexes(i)
           missed(j) == outcome' = "ok" /\ \E i \in ToSet(misses) : j \in Indexes(i)
           x(j) == Result("value", <<run, Of(j)>>)
<1>1. /\ IsCachedMap /\ Joined
      /\ UNCHANGED <<engine, run, store, looked, misses, fed, feeder, pc, place, faulty, paid,
                     outcomes>>
  BY DEF ReturnCached, mapVars, batchVars
<1>2. results' = [j \in Items |-> IF missed(j) THEN x(j) ELSE results[j]]
  BY DEF ReturnCached
<1>3. results \in [Items -> R] /\ run \in 1 .. MaxRuns /\ misses \in Seq(Items) /\ ~IsBulk
  BY <1>1 DEF Inv, Types, IsCachedMap, IsBulk
<1>4. ToSet(misses) \subseteq Items
  BY <1>3 DEF ToSet
<1>5. ASSUME NEW j \in Items, missed(j)
      PROVE  /\ <<run, Of(j)>> \in Values /\ j \in Indexes(Of(j))
             /\ x(j) \in R /\ x(j).kind = "value" /\ x(j).value = <<run, Of(j)>>
  <2>1. Of(j) \in ToSet(misses) /\ j \in Indexes(Of(j))
    BY <1>5
  <2> HIDE DEF Of
  <2>2. <<run, Of(j)>> \in Values
    BY <1>3, <1>4, <2>1 DEF Values
  <2> QED BY <2>1, <2>2 DEF Result
<1> HIDE DEF R, Of, missed, x
<1>6. /\ results' \in [Items -> R]
      /\ \A j \in Items : /\ missed(j) => results'[j] = x(j)
                          /\ ~missed(j) => results'[j] = results[j]
  BY <1>2, <1>3, <1>5
<1>7. \A j \in Items : results[j].kind # "none" => results'[j].kind # "none"
  BY <1>5, <1>6
<1>8. Aligned'
  <2>1. Groups' = Groups /\ \A i : Indexes(i)' = Indexes(i)
    BY <1>1, SameBatches
  <2>2. ToLook' = ToLook
    BY <1>1, <2>1 DEF ToLook
  <2>3. ASSUME NEW j \in Items, results'[j].kind = "value"
        PROVE  /\ results'[j].value \in Values
               /\ j \in Indexes(results'[j].value[2])
               /\ results'[j].value[1] = run \/ outcomes[j] = "hit"
    <3>1. CASE missed(j)
      <4>1. results'[j].value = <<run, Of(j)>> /\ <<run, Of(j)>> \in Values /\ j \in Indexes(Of(j))
        BY <1>5, <1>6, <3>1
      <4>2. <<run, Of(j)>>[1] = run /\ <<run, Of(j)>>[2] = Of(j)
        OBVIOUS
      <4> QED BY <4>1, <4>2
    <3>2. CASE ~missed(j)
      BY <1>6, <2>3, <3>2 DEF Inv, Aligned
    <3> QED BY <3>1, <3>2
  <2> QED BY <1>1, <2>1, <2>2, <2>3 DEF Inv, Aligned
<1>9. Complete'
  <2> SUFFICES ASSUME outcome' = "ok", NEW j \in Items PROVE results'[j].kind # "none"
    BY DEF Complete
  <2>1. outcome = "mapping"
    BY <1>1, JoinedFacts
  <2>2. PICK i \in Groups : j \in Indexes(i)
    BY InGroup
  <2>3. Given(i) \/ \E p \in 1 .. Len(misses) : i = misses[p]
    BY <2>1 DEF Inv, Looking
  <2>4. CASE Given(i)
    BY <1>7, <2>2, <2>4 DEF Given
  <2>5. CASE \E p \in 1 .. Len(misses) : i = misses[p]
    <3>1. i \in ToSet(misses)
      BY <1>3, <2>5 DEF ToSet
    <3>2. missed(j)
      BY <2>2, <3>1 DEF missed
    <3> QED BY <1>5, <1>6, <3>2
  <2> QED BY <2>3, <2>4, <2>5
<1> QED BY <1>1, <1>3, <1>6, <1>7, <1>8, <1>9, ReturnsInv DEF R

\* The feeder hands over a batch for which nothing is paid yet.
LEMMA FeedInv ==
    ASSUME Inv, Feed
    PROVE  Inv'
<1> DEFINE b == fed + 1
<1>1. /\ outcome = "mapping" /\ feeder = "on" /\ fed < BatchCount /\ fed' = fed + 1
      /\ pc' = [pc EXCEPT ![b] = "admit"]
      /\ UNCHANGED <<engine, run, store, outcome, looked, misses, feeder, place, faulty, paid,
                     results, outcomes>>
  BY DEF Feed, mainVars, batchVars, itemVars
<1>2. fed \in Nat /\ BatchCount \in Nat /\ Types /\ Looking /\ pc \in [Items -> Labels]
  <2>1. Len(misses) \in Nat
    BY DEF Inv, Types
  <2>2. BatchCount \in Nat
    BY <2>1, SizeFacts, CountFacts DEF BatchCount
  <2> QED BY <2>2 DEF Inv, Types
<1>3. b \in Batches /\ b \in Items
  <2>1. b \in Batches
    BY <1>1, <1>2 DEF Batches
  <2> QED BY <1>2, <2>1, BatchMembers
<1>4. pc[b] = "queued" /\ place[b] = 1 /\ NotPaid(b)
  <2>1. pc[b] = "queued"
    BY <1>2, <1>3 DEF Inv, Feeding
  <2> QED BY <1>3, <2>1 DEF Inv, BatchOK, Unpaid
<1>5. pc' \in [Items -> Labels] /\ pc'[b] = "admit" /\ \A c \in Items \ {b} : pc'[c] = pc[c]
  BY <1>1, <1>2, <1>3 DEF Labels
<1>6. /\ Batches' = Batches /\ BatchCount' = BatchCount /\ Groups' = Groups
      /\ Cached' = Cached /\ IsBulk' = IsBulk
      /\ \A i : Indexes(i)' = Indexes(i)
      /\ \A c : Batch(c)' = Batch(c)
  BY <1>1, SameBatches
<1>7. Types'
  BY <1>1, <1>2, <1>5 DEF Types
<1>8. \A i : Given(i)' <=> Given(i)
  BY <1>1, <1>6 DEF Given
<1>9. Looking'
  BY <1>1, <1>2, <1>6, <1>8 DEF Looking
<1>10. Feeding'
  <2>1. ASSUME NEW c \in Items PROVE pc'[c] = "queued" <=> c > fed + 1
    <3>1. c \in Nat
      BY ParallelMapAssumption DEF Items
    <3>2. CASE c = b
      BY <1>2, <1>5, <3>2
    <3>3. CASE c # b
      BY <1>2, <1>5, <3>1, <3>3 DEF Inv, Feeding
    <3> QED BY <3>2, <3>3
  <2>2. \A c \in Items : pc'[c] = "queued" => place'[c] = 1
    BY <1>1, <1>5 DEF Inv, Feeding
  <2> QED BY <1>1, <1>2, <1>6, <2>1, <2>2 DEF Feeding, Ended
<1>11. ASSUME NEW c \in Batches PROVE BatchOK(c)'
  <2>1. NotPaid(c) => NotPaid(c)'
    BY <1>1, <1>6 DEF NotPaid
  <2>2. CASE c = b
    BY <1>1, <1>4, <1>5, <2>1, <2>2 DEF BatchOK, Unpaid
  <2>3. CASE c # b
    <3>1. c \in Items /\ BatchOK(c)
      BY <1>2, BatchMembers DEF Inv
    <3>2. \A p : Kept(c, p) => Kept(c, p)'
      BY <1>1, <1>6, <1>8 DEF Kept
    <3> QED BY <1>1, <1>5, <1>6, <1>8, <2>1, <2>3, <3>1, <3>2 DEF BatchOK
  <2> QED BY <2>2, <2>3
<1>12. Complete'
  BY <1>1 DEF Complete
<1> QED BY <1>1, <1>6, <1>7, <1>9, <1>10, <1>11, <1>12, AlignedFrame DEF Inv

\* The feeder returns, or the caller cancels, or nothing happens.
LEMMA IdleInv ==
    ASSUME Inv, UNCHANGED <<engine, run, store, outcome, looked, misses, fed, pc, place, faulty,
                            paid, results, outcomes>>,
           \/ feeder' = feeder
           \/ /\ outcome = "mapping" /\ feeder' \in {"done", "failed"}
              /\ feeder' = "done" => fed = BatchCount
    PROVE  Inv'
<1>1. /\ Batches' = Batches /\ BatchCount' = BatchCount /\ Groups' = Groups
      /\ \A i : Indexes(i)' = Indexes(i)
  BY SameBatches
<1>2. Types'
  BY DEF Inv, Types
<1>3. \A i : Given(i)' <=> Given(i)
  BY <1>1 DEF Given
<1>4. Looking'
  BY <1>1, <1>3 DEF Inv, Looking
<1>5. Feeding'
  BY <1>1 DEF Inv, Feeding, Ended, Running
<1>6. Complete'
  BY DEF Inv, Complete
<1> QED BY <1>2, <1>4, <1>5, <1>6, BatchesFrame, AlignedFrame DEF Inv

------------------------------------------------------------------------------
(* The theorems                                                              *)

\* Every step of the callers, the feeder, the workers and the program keeps the invariant.
LEMMA InvStep ==
    Inv /\ [Next]_vars => Inv'
<1> SUFFICES ASSUME Inv, [Next]_vars PROVE Inv'
  OBVIOUS
<1>1. CASE MainStep
  <2>1. CASE \E i \in Items : Load(i) \/ LoadCached(i)
    BY <2>1, LoadsLookUp, LookUpInv
  <2>2. CASE StartMap \/ StartMapCached
    BY <2>2, StartMapInv
  <2>3. CASE Return
    BY <2>3, ReturnInv
  <2>4. CASE ReturnCached
    BY <2>4, ReturnCachedInv
  <2>5. CASE Feed
    BY <2>5, FeedInv
  <2>6. CASE FeederReturns
    BY <2>6, IdleInv DEF FeederReturns, mainVars, batchVars, itemVars
  <2> QED BY <1>1, <2>1, <2>2, <2>3, <2>4, <2>5, <2>6
          DEF MainStep, BulkMainStep, CachedMainStep, FeederStep
<1>2. CASE \E b \in Batches : BatchStep(b)
  BY <1>2, BatchStepInv
<1>3. CASE CallerCancels
  BY <1>3, IdleInv DEF CallerCancels, mapVars, batchVars, itemVars
<1>4. CASE Restart
  BY <1>4, RestartInv
<1>5. CASE UNCHANGED vars
  BY <1>5, IdleInv DEF vars
<1> QED BY <1>1, <1>2, <1>3, <1>4, <1>5 DEF Next

\* So it holds in every run.
LEMMA InvHolds ==
    Spec => []Inv
BY InvInit, InvStep, PTL DEF Spec

\* In every run of a caller that has a Store, when the call is over, every group whose
\* work succeeded is in the Store under its key, whatever its siblings, the feeder,
\* the caller or an earlier crash did.  A batch whose own commit was cut short (its
\* Store or its observer failed, the strict ledger of a canceled run among them, or
\* the meter overflowed) still keeps all that precedes the place of the failure.
THEOREM BatchWorkIsKept ==
    Spec => []PaidWorkIsKept
<1>1. Inv => PaidWorkIsKept
  <2> SUFFICES ASSUME Inv, Cached, Ended, NEW b \in Batches, NEW p \in DOMAIN Batch(b),
                      Batch(b)[p] \in paid, b \in faulty => p < place[b]
               PROVE  store[KeyOf[Batch(b)[p]]] = <<run, Batch(b)[p]>>
    BY DEF PaidWorkIsKept
  <2>1. BatchOK(b) /\ Running = {} /\ b \in Items /\ Batch(b) \in Seq(Items)
    BY BatchMembers, BatchFacts DEF Inv, Feeding, Types
  <2>2. p \in 1 .. Len(Batch(b)) /\ ~NotPaid(b)
    BY <2>1 DEF NotPaid
  <2>3. pc[b] \in {"ended", "failed"}
    <3>1. pc[b] \in {"queued", "ended", "failed"}
      BY <2>1 DEF Running
    <3> QED BY <2>1, <2>2, <3>1 DEF BatchOK, Unpaid
  <2>4. Kept(b, p)
    BY <2>1, <2>2, <2>3 DEF BatchOK
  <2> QED BY <2>4 DEF Kept
<1> QED BY <1>1, InvHolds, PTL

\* Work is bought batch by batch.
Bought == \A i \in paid : \E b \in Batches : \E p \in DOMAIN Batch(b) : i = Batch(b)[p]

\* The groups do not change between the first purchase and the end of the call.
LEMMA BoughtStep ==
    Inv /\ Bought /\ [Next]_vars => Bought'
<1> SUFFICES ASSUME Inv, Bought, [Next]_vars PROVE Bought'
  OBVIOUS
<1>1. CASE paid' = {}
  BY <1>1 DEF Bought
<1>2. CASE UNCHANGED <<engine, misses, paid>>
  BY <1>2, SameBatches DEF Bought
<1>3. ASSUME NEW b \in Batches, UNCHANGED <<engine, misses>>, paid' = paid \cup ToSet(Batch(b))
      PROVE  Bought'
  <2>1. /\ Batches' = Batches /\ \A c : Batch(c)' = Batch(c)
        /\ \A i \in ToSet(Batch(b)) : \E p \in DOMAIN Batch(b) : i = Batch(b)[p]
    BY <1>3, SameBatches, BatchFacts DEF Inv, Types, ToSet
  <2> QED BY <1>3, <2>1 DEF Bought
<1>4. CASE MainStep
  <2>1. CASE \E i \in Items : Load(i) \/ LoadCached(i)
    BY <1>1, <2>1 DEF Load, LoadCached, Inv, Feeding
  <2>2. CASE StartMap \/ Return \/ StartMapCached \/ ReturnCached \/ FeederStep
    BY <1>2, <2>2 DEF StartMap, Return, StartMapCached, ReturnCached, FeederStep, Feed,
                      FeederReturns, mainVars
  <2> QED BY <1>4, <2>1, <2>2 DEF MainStep, BulkMainStep, CachedMainStep
<1>5. ASSUME NEW b \in Batches, BatchStep(b) PROVE Bought'
  <2>1. UNCHANGED <<engine, misses>>
    BY <1>5 DEF BatchStep, BulkStep, CachedStep, Admit, DoSucceeds, DoRetries, BackOff, DoFails,
                Commit, Observe, AdmitCached, WorkCached, CommitCached, mainVars
  <2>2. paid' = paid \/ paid' = paid \cup ToSet(Batch(b))
    BY <1>5 DEF BatchStep, BulkStep, CachedStep, Admit, DoSucceeds, DoRetries, BackOff, DoFails,
                Commit, Observe, AdmitCached, WorkCached, CommitCached
  <2> QED BY <1>2, <1>3, <2>1, <2>2
<1>6. CASE CallerCancels
  BY <1>2, <1>6 DEF CallerCancels
<1>7. CASE Restart
  BY <1>1, <1>7 DEF Restart
<1>8. CASE UNCHANGED vars
  BY <1>2, <1>8 DEF vars
<1> QED BY <1>4, <1>5, <1>6, <1>7, <1>8 DEF Next

\* A batch is marked only by a Store, an observer, a strict ledger or a meter.
LEMMA MarkedStep ==
    ASSUME Faults \cap {"store", "observer", "strict", "meter"} = {}
    PROVE  faulty = {} /\ [Next]_vars => faulty' = {}
<1> SUFFICES ASSUME faulty = {}, [Next]_vars PROVE faulty' = {}
  OBVIOUS
<1>1. ~Fault("store") /\ ~ObserverFails /\ ~NotifyFails /\ ~MeterOverflows
  BY DEF Fault, ObserverFails, NotifyFails, MeterOverflows
<1>2. CASE MainStep
  BY <1>2 DEF MainStep, BulkMainStep, CachedMainStep, Load, LoadCached, StartMap, Return,
              StartMapCached, ReturnCached, FeederStep, Feed, FeederReturns, batchVars
<1>3. CASE \E b \in Batches : BatchStep(b)
  BY <1>1, <1>3 DEF BatchStep, BulkStep, CachedStep, Admit, DoSucceeds, DoRetries, BackOff,
                    DoFails, Commit, Observe, AdmitCached, WorkCached, CommitCached, batchVars
<1>4. CASE CallerCancels \/ Restart \/ UNCHANGED vars
  BY <1>4 DEF CallerCancels, Restart, vars, batchVars
<1> QED BY <1>2, <1>3, <1>4 DEF Next

\* The code's own claim, "completed provider work stays recoverable"
\* (src/flow/bulk.go:363), holds when no Store, no observer and no meter fails and
\* the ledger ignores the context it is given: then all the work that succeeded
\* is in the Store when the call is over, however batches fail or are canceled.
THEOREM CompletedWorkIsRecoverable ==
    ASSUME Faults \cap {"store", "observer", "strict", "meter"} = {}
    PROVE  Spec => []CompletedWorkRecoverable
<1> DEFINE Unmarked == faulty = {}
<1>1. Init => Bought /\ Unmarked
  BY DEF Init, Bought
<1>2. Bought /\ Unmarked /\ PaidWorkIsKept => CompletedWorkRecoverable
  BY DEF Bought, PaidWorkIsKept, CompletedWorkRecoverable
<1>3. Unmarked /\ [Next]_vars => Unmarked'
  BY MarkedStep
<1> HIDE DEF Unmarked
<1>4. Spec => []Bought /\ []Unmarked
  BY <1>1, <1>3, BoughtStep, InvHolds, PTL DEF Spec
<1> QED BY <1>2, <1>4, BatchWorkIsKept, PTL

\* A result in an item's slot was computed for its key, in this run or, for a hit, in
\* one before; the Store holds under a key what was computed for it; and a call
\* that succeeds leaves no slot empty, for any grouping of the items into batches.
THEOREM ResultsStayAligned ==
    Spec => []ResultsAligned
<1>1. Inv => ResultsAligned
  <2> SUFFICES ASSUME Inv PROVE ResultsAligned
    OBVIOUS
  <2>1. NoResult.kind = "none"
    BY DEF NoResult, Result
  <2>2. outcome = "ok" => \A i \in Items : results[i] # NoResult
    BY <2>1 DEF Inv, Complete
  <2> QED BY <2>2 DEF Inv, Aligned, ResultsAligned
<1> QED BY <1>1, InvHolds, PTL
------------------------------------------------------------------------------
(* The books: what the outcomes and the report tell                          *)

Reported(state) == {i \in Items : outcomes[i] = state}
Flagged(kind) == {i \in Items : results[i].kind = kind}
KeptNow == {i \in ToSet(misses) : store[KeyOf[i]] = <<run, i>>}
LookedUp == {j \in Items : \E g \in Groups : g <= looked /\ j \in Indexes(g)}

\* The batches of the bulk engine that have been admitted, or retried, and for which
\* the next work call is not counted yet; the batches whose call a map helper made.
Owing == {b \in Items : pc[b] \in {"do", "backoff"} \/ (pc[b] = "admit" /\ attempt[b] > 1)}
Begun == {b \in Items : pc[b] \notin {"queued", "admit"}}

\* A hit is older than this run and a stored item is of this run, because nothing is
\* stored before Map starts; and every hit is counted.
Told ==
    /\ \A k \in Keys : store[k] # None =>
         store[k][1] <= run /\ (outcome = "loading" => store[k][1] < run)
    /\ \A i \in Reported("hit") : store[KeyOf[i]] # None /\ store[KeyOf[i]][1] < run
    /\ \A i \in Reported("stored") : store[KeyOf[i]] # None /\ store[KeyOf[i]][1] = run
    /\ counts["Hits"] = Cardinality(Reported("hit"))

\* Group g has not been stored in this run, and its items have no result.
Untouched(g) ==
    /\ Cached => store[KeyOf[g]] # <<run, g>>
    /\ \A j \in Indexes(g) : results[j].kind = "none"

\* The worker on batch b has yet to come to place p.
Owes(b, p) ==
    \/ pc[b] \in Unpaid
    \/ pc[b] = "store" /\ place[b] <= p
    \/ pc[b] = "observe" /\ place[b] < p

\* Before Map starts that is so of all groups without a hit, then of what is owed.
Owed ==
    /\ outcome = "loading" => \A g \in ToLook \cup ToSet(misses) : Untouched(g)
    /\ outcome = "mapping" =>
         \A b \in Batches : \A p \in 1 .. Len(Batch(b)) : Owes(b, p) => Untouched(Batch(b)[p])

\* A Store that fails may keep what it does not count.
StoredCounted ==
    /\ Cached /\ faulty = {} => counts["Stored"] = Cardinality(KeptNow)
    /\ Cached => counts["Stored"] <= Cardinality(KeptNow)
    /\ ~Cached => counts["Stored"] = 0

\* Only the bulk engine flags items.
FlagsCounted ==
    /\ counts["Quarantined"] = Cardinality(Flagged("quarantined"))
    /\ counts["Skipped"] = Cardinality(Flagged("skipped"))
    /\ ~IsBulk => Flagged("quarantined") = {} /\ Flagged("skipped") = {}

\* A group that was looked up is counted as hits or as misses.
LookedCounted ==
    Cached /\ outcome # "failed" => counts["Hits"] + counts["Misses"] = Cardinality(LookedUp)

\* An item with a value has an outcome; the map helpers report before they return.
ValuesTold ==
    /\ Cached => \A i \in Flagged("value") : outcomes[i] # "pending"
    /\ ~IsBulk => \A b \in Batches : \A p \in 1 .. Len(Batch(b)) :
         pc[b] = "ended" \/ (pc[b] = "store" /\ p < place[b]) =>
           \A j \in Indexes(Batch(b)[p]) : outcomes[j] = "stored"

\* Work calls, made and owed, are first attempts and retries.
CallsBalanced ==
    IF IsBulk
      THEN counts["WorkCalls"] + Cardinality(Owing) = counts["StartedSequences"] + counts["Retries"]
      ELSE counts["WorkCalls"] = Cardinality(Begun) /\ counts["Retries"] = 0

CallsCounted ==
    /\ attempt \in [Items -> Nat \ {0}]
    /\ \A b \in Items : pc[b] = "queued" => attempt[b] = 1
    /\ (\A b \in Items : pc[b] # "failed") => CallsBalanced
    /\ outcome = "ok" => \A b \in Batches : pc[b] = "ended"

Books ==
    /\ counts \in [Counters -> Nat]
    /\ Told
    /\ Owed
    /\ StoredCounted
    /\ FlagsCounted
    /\ LookedCounted
    /\ ValuesTold
    /\ CallsCounted

------------------------------------------------------------------------------
(* Sizes of sets of items                                                    *)

\* Sets of items are finite.
LEMMA SizeOfItems ==
    /\ IsFiniteSet(Items) /\ Cardinality(Items) = N
    /\ \A S \in SUBSET Items : IsFiniteSet(S) /\ Cardinality(S) \in Nat
<1>1. N \in Nat
  BY ParallelMapAssumption
<1>2. IsFiniteSet(1 .. N) /\ Cardinality(1 .. N) = N
  BY <1>1, FS_Interval
<1>3. IsFiniteSet(Items) /\ Cardinality(Items) = N
  BY <1>2 DEF Items
<1>4. \A S \in SUBSET Items : IsFiniteSet(S)
  BY <1>3, FS_Subset
<1> QED BY <1>3, <1>4, FS_CardinalityType

\* Two sets of items with nothing in common are counted together.
LEMMA JoinedSize ==
    ASSUME NEW S \in SUBSET Items, NEW T \in SUBSET Items, S \cap T = {}, NEW U, U = S \cup T
    PROVE  Cardinality(U) = Cardinality(S) + Cardinality(T)
<1>1. IsFiniteSet(S) /\ IsFiniteSet(T) /\ Cardinality(S) \in Nat /\ Cardinality(T) \in Nat
  BY SizeOfItems
<1>2. Cardinality(S \cup T) = Cardinality(S) + Cardinality(T) - Cardinality(S \cap T)
  BY <1>1, FS_Union
<1>3. Cardinality(S \cap T) = 0
  BY FS_EmptySet
<1> QED BY <1>1, <1>2, <1>3

\* One item more, or one less.
LEMMA OneMore ==
    ASSUME NEW S \in SUBSET Items, NEW x \in Items, x \notin S, NEW U, U = S \cup {x}
    PROVE  Cardinality(U) = Cardinality(S) + 1
BY SizeOfItems, FS_AddElement

LEMMA OneLess ==
    ASSUME NEW S \in SUBSET Items, NEW x \in S, NEW U, U = S \ {x}
    PROVE  Cardinality(S) = Cardinality(U) + 1
<1>1. IsFiniteSet(S) /\ Cardinality(S) \in Nat
  BY SizeOfItems
<1>2. Cardinality(U) = Cardinality(S) - 1
  BY <1>1, FS_RemoveElement
<1> QED BY <1>1, <1>2

\* Add changes the counters it names.
LEMMA AddFacts ==
    ASSUME counts \in [Counters -> Nat], NEW names, NEW n \in Nat, Add(names, n)
    PROVE  /\ counts' \in [Counters -> Nat]
           /\ \A c \in Counters : c \in names => counts'[c] = counts[c] + n
           /\ \A c \in Counters : c \notin names => counts'[c] = counts[c]
BY DEF Add

------------------------------------------------------------------------------
(* What a step does to each part of the books                                *)

\* Nothing is stored or reported.
LEMMA ToldFrame ==
    ASSUME Told, UNCHANGED <<store, run, outcomes>>, counts'["Hits"] = counts["Hits"],
           outcome' = "loading" => outcome = "loading"
    PROVE  Told'
BY DEF Told, Reported

\* A group of misses is stored, or not, and its items are reported stored, or not.
LEMMA ToldCommits ==
    ASSUME Inv, Told, NEW i \in Groups, <<run, i>> \in Values, Commits(i),
           \E m \in 1 .. Len(misses) : i = misses[m],
           UNCHANGED run, outcome' # "loading", counts'["Hits"] = counts["Hits"],
           \A j \in Items : outcomes'[j] = "stored" =>
             \/ outcomes[j] = "stored"
             \/ Cached /\ j \in Indexes(i) /\ store'[KeyOf[i]] = <<run, i>>
    PROVE  Told'
<1>1. \A j \in Indexes(i) : outcomes[j] # "hit"
  BY DEF Inv, Aligned
<1>2. run \in Nat /\ <<run, i>>[1] = run /\ i \in Items /\ <<run, i>> # None
  <2>1. run \in Nat /\ i \in Items /\ <<run, i>>[1] = run
    BY GroupFacts, ParallelMapAssumption DEF Inv, Types
  <2>2. None \notin Values
    BY ParallelMapAssumption
  <2> QED BY <2>1, <2>2
<1>3. \A j \in Items : KeyOf[j] \in Keys
  BY ParallelMapAssumption
<1>4. \A k \in Keys : store[k] # None => store[k][1] \in Nat
  BY DEF Inv, Types, Values
<1>5. ASSUME NEW k \in Keys, store'[k] # None
      PROVE  store'[k][1] <= run /\ (store[k] # None => store[k][1] <= store'[k][1])
  BY <1>2, <1>4, <1>5 DEF Told, Commits
<1>6. ASSUME NEW j \in Items, outcomes'[j] = "hit"
      PROVE  store'[KeyOf[j]] # None /\ store'[KeyOf[j]][1] < run
  <2>1. outcomes[j] = "hit" /\ j \notin Indexes(i)
    BY <1>1, <1>6 DEF Commits
  <2>2. store'[KeyOf[j]] = store[KeyOf[j]]
    BY <1>3, <2>1 DEF Commits, Indexes
  <2> QED BY <2>1, <2>2 DEF Told, Reported
<1>7. ASSUME NEW j \in Items, outcomes'[j] = "stored"
      PROVE  store'[KeyOf[j]] # None /\ store'[KeyOf[j]][1] = run
  <2>1. CASE outcomes[j] = "stored"
    <3>1. store[KeyOf[j]] # None /\ store[KeyOf[j]][1] = run
      BY <2>1 DEF Told, Reported
    <3> QED BY <1>2, <1>3, <3>1 DEF Commits
  <2>2. CASE Cached /\ j \in Indexes(i) /\ store'[KeyOf[i]] = <<run, i>>
    <3>1. KeyOf[j] = KeyOf[i]
      BY <2>2 DEF Indexes
    <3> QED BY <1>2, <2>2, <3>1
  <2> QED BY <1>7, <2>1, <2>2
<1>8. Reported("hit")' = Reported("hit")
  <2>1. \A j \in Items : outcomes'[j] = "hit" <=> outcomes[j] = "hit"
    BY <1>1 DEF Commits
  <2> QED BY <2>1 DEF Reported
<1> QED BY <1>5, <1>6, <1>7, <1>8 DEF Told, Reported

\* The groups whose results or stored values a step may change.
Touches(G) ==
    /\ \A j \in Items : results'[j] = results[j] \/ \E g \in G : j \in Indexes(g)
    /\ \A k \in Keys : store'[k] = store[k] \/ (Cached /\ \E g \in G : k = KeyOf[g])

\* It leaves the other groups untouched.
LEMMA StaysUntouched ==
    ASSUME NEW G \in SUBSET Groups, Touches(G), UNCHANGED <<engine, run>>,
           NEW h \in Groups \ G, Untouched(h)
    PROVE  Untouched(h)'
<1>1. Cached' = Cached /\ (\A i : Indexes(i)' = Indexes(i)) /\ h \in Items /\ Indexes(h) \subseteq Items
  BY GroupFacts DEF Cached, Indexes
<1>2. \A j \in Indexes(h) : results'[j] = results[j]
  BY <1>1, GroupFacts DEF Touches
<1>3. Cached => store'[KeyOf[h]] = store[KeyOf[h]]
  <2>1. KeyOf[h] \in Keys
    BY <1>1, ParallelMapAssumption
  <2> QED BY <2>1, GroupFacts DEF Touches
<1> QED BY <1>1, <1>2, <1>3 DEF Untouched

\* While Map runs, a step touches only groups that nobody owes any more.
LEMMA OwedStep ==
    ASSUME Inv, Owed, outcome = "mapping", UNCHANGED <<engine, run, misses, outcome>>,
           NEW G \in SUBSET Groups, Touches(G),
           \A b \in Batches : \A p \in 1 .. Len(Batch(b)) :
             Owes(b, p)' => Owes(b, p) /\ Batch(b)[p] \notin G
    PROVE  Owed'
<1>1. Batches' = Batches /\ \A b : Batch(b)' = Batch(b)
  BY SameBatches
<1>2. ASSUME NEW b \in Batches, NEW p \in 1 .. Len(Batch(b)), Owes(b, p)'
      PROVE  Untouched(Batch(b)[p])'
  <2>1. PICK h \in Groups : h = Batch(b)[p]
    BY BatchMembers DEF Inv
  <2>2. h \in Groups \ G /\ Untouched(h)
    BY <1>2, <2>1 DEF Owed
  <2>3. Untouched(h)'
    BY <2>2, StaysUntouched
  <2> QED BY <1>1, <2>1, <2>3 DEF Untouched
<1> QED BY <1>1, <1>2 DEF Owed

\* Nothing is stored or counted as stored.
LEMMA StoredFrame ==
    ASSUME StoredCounted, UNCHANGED <<engine, store, run, misses>>, faulty \subseteq faulty',
           counts'["Stored"] = counts["Stored"]
    PROVE  StoredCounted'
<1>1. Cached' = Cached /\ KeptNow' = KeptNow
  BY DEF Cached, KeptNow
<1> QED BY <1>1 DEF StoredCounted

\* A group of misses is stored for the first time in this run.
LEMMA StoredOnce ==
    ASSUME Inv, StoredCounted, counts \in [Counters -> Nat], NEW i \in Groups, Cached, Untouched(i),
           \E m \in 1 .. Len(misses) : i = misses[m],
           UNCHANGED <<engine, run, misses>>,
           \A k \in Keys : store'[k] = store[k] \/ (k = KeyOf[i] /\ store'[k] = <<run, i>>),
           \/ /\ store'[KeyOf[i]] = <<run, i>> /\ counts'["Stored"] = counts["Stored"] + 1
              /\ faulty \subseteq faulty'
           \/ counts'["Stored"] = counts["Stored"] /\ faulty' # {}
    PROVE  StoredCounted'
<1>1. misses \in Seq(Items) /\ ToSet(misses) \in SUBSET Items /\ i \in ToSet(misses) /\ i \in Items
  BY GroupFacts DEF Inv, Types, ToSet
<1>2. \A g \in ToSet(misses) : g \in Groups /\ g \in Items /\ KeyOf[g] \in Keys
  BY <1>1, ParallelMapAssumption DEF ToSet, Inv, Looking
<1>3. \A g \in ToSet(misses) : g # i => KeyOf[g] # KeyOf[i]
  BY <1>2, GroupFacts
<1>4. i \notin KeptNow /\ KeptNow \in SUBSET Items
  BY <1>1 DEF Untouched, KeptNow
<1>5. \A g \in ToSet(misses) : g # i => store'[KeyOf[g]] = store[KeyOf[g]]
  BY <1>2, <1>3
<1>6. /\ store'[KeyOf[i]] = <<run, i>> => KeptNow' = KeptNow \cup {i}
      /\ store'[KeyOf[i]] # <<run, i>> => KeptNow' = KeptNow
  BY <1>1, <1>4, <1>5 DEF KeptNow
<1>7. store'[KeyOf[i]] = <<run, i>> => Cardinality(KeptNow') = Cardinality(KeptNow) + 1
  BY <1>1, <1>4, <1>6, OneMore
<1>8. Cardinality(KeptNow) \in Nat /\ counts["Stored"] \in Nat /\ Cached' = Cached
  BY <1>4, SizeOfItems DEF Counters, Cached
<1>9. store'[KeyOf[i]] # <<run, i>> => Cardinality(KeptNow') = Cardinality(KeptNow)
  BY <1>6
<1>10. Cardinality(KeptNow)' = Cardinality(KeptNow')
  OBVIOUS
<1>11. CASE /\ store'[KeyOf[i]] = <<run, i>> /\ counts'["Stored"] = counts["Stored"] + 1
            /\ faulty \subseteq faulty'
  BY <1>7, <1>8, <1>11 DEF StoredCounted
<1>12. CASE counts'["Stored"] = counts["Stored"] /\ faulty' # {}
  BY <1>7, <1>8, <1>9, <1>12 DEF StoredCounted
<1> QED BY <1>11, <1>12

\* No item is flagged.
LEMMA FlagsFrame ==
    ASSUME FlagsCounted, UNCHANGED engine,
           \A j \in Items : \A kind \in {"quarantined", "skipped"} :
             results'[j].kind = kind <=> results[j].kind = kind,
           counts'["Quarantined"] = counts["Quarantined"], counts'["Skipped"] = counts["Skipped"]
    PROVE  FlagsCounted'
<1>1. Flagged("quarantined")' = Flagged("quarantined") /\ Flagged("skipped")' = Flagged("skipped")
  BY DEF Flagged
<1>2. IsBulk' = IsBulk
  BY DEF IsBulk
<1> QED BY <1>1, <1>2 DEF FlagsCounted

\* Nothing is looked up.
LEMMA LookedFrame ==
    ASSUME LookedCounted, UNCHANGED <<engine, looked>>, counts'["Hits"] = counts["Hits"],
           counts'["Misses"] = counts["Misses"], outcome' # "failed" => outcome # "failed"
    PROVE  LookedCounted'
<1>1. LookedUp' = LookedUp /\ Cached' = Cached
  BY DEF LookedUp, Groups, Indexes, Cached
<1> QED BY <1>1 DEF LookedCounted

\* No item gets a value and no batch is committed further.
LEMMA ValuesFrame ==
    ASSUME ValuesTold, UNCHANGED <<engine, misses, outcomes>>,
           \A j \in Items : results'[j].kind = "value" => results[j].kind = "value",
           \A b \in Batches : \A p \in 1 .. Len(Batch(b)) : ~IsBulk =>
             (pc'[b] = "ended" \/ (pc'[b] = "store" /\ p < place'[b]) =>
                pc[b] = "ended" \/ (pc[b] = "store" /\ p < place[b]))
    PROVE  ValuesTold'
<1>1. /\ Cached' = Cached /\ IsBulk' = IsBulk /\ Batches' = Batches
      /\ \A i : Indexes(i)' = Indexes(i)
      /\ \A b : Batch(b)' = Batch(b)
  BY SameBatches
<1> QED BY <1>1 DEF ValuesTold, Flagged

\* No batch moves.
LEMMA CallsFrame ==
    ASSUME CallsCounted, UNCHANGED <<engine, pc, attempt>>,
           counts'["WorkCalls"] = counts["WorkCalls"], counts'["Retries"] = counts["Retries"],
           counts'["StartedSequences"] = counts["StartedSequences"],
           outcome' = "ok" => \A b \in Batches' : pc[b] = "ended"
    PROVE  CallsCounted'
<1>1. IsBulk' = IsBulk
  BY DEF IsBulk
<1>2. Owing' = Owing /\ Begun' = Begun
  BY DEF Owing, Begun
<1>3. CallsBalanced => CallsBalanced'
  BY <1>1, <1>2 DEF CallsBalanced
<1> QED BY <1>3 DEF CallsCounted

\* The worker on b moves: the call it begins to owe is a first attempt or a retry,
\* and the call it makes is one it owed.
MovesCalls(b) ==
    LET w == counts["WorkCalls"]
        x == counts'["WorkCalls"]
        s == counts["StartedSequences"] + counts["Retries"]
        t == counts'["StartedSequences"] + counts'["Retries"]
    IN  IF IsBulk
          THEN \/ b \notin Owing /\ b \in Owing' /\ x = w /\ t = s + 1
               \/ b \in Owing /\ b \notin Owing' /\ x = w + 1 /\ t = s
               \/ (b \in Owing <=> b \in Owing') /\ x = w /\ t = s
               \/ (b \in Owing <=> b \in Owing') /\ x = w + 1 /\ t = s + 1
          ELSE /\ counts'["Retries"] = counts["Retries"]
               /\ \/ b \notin Begun /\ b \in Begun' /\ x = w + 1
                  \/ (b \in Begun <=> b \in Begun') /\ x = w

\* The balance is kept, unless the worker fails.
LEMMA CallsStep ==
    ASSUME CallsCounted, counts \in [Counters -> Nat], counts' \in [Counters -> Nat],
           UNCHANGED engine, outcome' # "ok", NEW b \in Items, pc[b] # "failed", pc'[b] # "queued",
           \A c \in Items \ {b} : pc'[c] = pc[c] /\ attempt'[c] = attempt[c],
           attempt' \in [Items -> Nat \ {0}],
           pc'[b] # "failed" => MovesCalls(b)
    PROVE  CallsCounted'
<1> DEFINE w == counts["WorkCalls"]
           x == counts'["WorkCalls"]
           s == counts["StartedSequences"] + counts["Retries"]
           t == counts'["StartedSequences"] + counts'["Retries"]
<1>1. \A c \in Items : pc'[c] = "queued" => attempt'[c] = 1
  BY DEF CallsCounted
<1>2. ASSUME \A c \in Items : pc'[c] # "failed" PROVE CallsBalanced'
  <2>1. \A c \in Items : pc[c] # "failed"
    BY <1>2
  <2>2. CallsBalanced /\ IsBulk' = IsBulk
    BY <2>1 DEF CallsCounted, IsBulk
  <2>3. PICK O : O = Owing
    OBVIOUS
  <2>4. PICK P : P = Owing'
    OBVIOUS
  <2>5. PICK B : B = Begun
    OBVIOUS
  <2>6. PICK C : C = Begun'
    OBVIOUS
  <2>7. O \in SUBSET Items /\ P \in SUBSET Items /\ B \in SUBSET Items /\ C \in SUBSET Items
    BY <2>3, <2>4, <2>5, <2>6 DEF Owing, Begun
  <2>8. \A c \in Items \ {b} : (c \in O <=> c \in P) /\ (c \in B <=> c \in C)
    BY <2>3, <2>4, <2>5, <2>6 DEF Owing, Begun
  <2>9. /\ b \in O /\ b \notin P => Cardinality(O) = Cardinality(P) + 1
        /\ b \notin O /\ b \in P => Cardinality(P) = Cardinality(O) + 1
        /\ (b \in O <=> b \in P) => Cardinality(P) = Cardinality(O)
    <3>1. CASE b \in O /\ b \notin P
      <4>1. P = O \ {b}
        BY <2>7, <2>8, <3>1
      <4> QED BY <2>7, <3>1, <4>1, OneLess
    <3>2. CASE b \notin O /\ b \in P
      <4>1. P = O \cup {b}
        BY <2>7, <2>8, <3>2
      <4> QED BY <2>7, <3>2, <4>1, OneMore
    <3>3. CASE b \in O <=> b \in P
      <4>1. P = O
        BY <2>7, <2>8, <3>3
      <4> QED BY <3>3, <4>1
    <3> QED BY <3>1, <3>2, <3>3
  <2>10. /\ b \notin B /\ b \in C => Cardinality(C) = Cardinality(B) + 1
         /\ (b \in B <=> b \in C) => Cardinality(C) = Cardinality(B)
    <3>1. CASE b \notin B /\ b \in C
      <4>1. C = B \cup {b}
        BY <2>7, <2>8, <3>1
      <4> QED BY <2>7, <3>1, <4>1, OneMore
    <3>2. CASE b \in B <=> b \in C
      <4>1. \A c \in Items : c \in C <=> c \in B
        BY ONLY <2>8, <3>2
      <4>2. C = B
        BY <2>7, <4>1
      <4> QED BY <4>2, <3>2
    <3> QED BY <3>1, <3>2
  <2>11. Cardinality(O) \in Nat /\ Cardinality(P) \in Nat /\ Cardinality(B) \in Nat
    BY <2>7, SizeOfItems
  <2>12. w \in Nat /\ x \in Nat /\ s \in Nat /\ t \in Nat
    BY DEF Counters
  <2>13. MovesCalls(b)
    BY <1>2
  <2>14. CASE IsBulk
    <3>1. w + Cardinality(O) = s
      BY <2>2, <2>3, <2>14 DEF CallsBalanced
    <3>2. x + Cardinality(P) = t
      <4>1. \/ b \notin O /\ b \in P /\ x = w /\ t = s + 1
            \/ b \in O /\ b \notin P /\ x = w + 1 /\ t = s
            \/ (b \in O <=> b \in P) /\ x = w /\ t = s
            \/ (b \in O <=> b \in P) /\ x = w + 1 /\ t = s + 1
        BY <2>3, <2>4, <2>13, <2>14 DEF MovesCalls
      <4> HIDE DEF w, x, s, t
      <4> QED BY ONLY <2>9, <2>11, <2>12, <3>1, <4>1
    <3> QED BY <2>2, <2>4, <2>14, <3>2 DEF CallsBalanced
  <2>15. CASE ~IsBulk
    <3>1. w = Cardinality(B) /\ counts["Retries"] = 0
      BY <2>2, <2>5, <2>15 DEF CallsBalanced
    <3>2. x = Cardinality(C)
      <4>1. \/ b \notin B /\ b \in C /\ x = w + 1
            \/ (b \in B <=> b \in C) /\ x = w
        BY <2>5, <2>6, <2>13, <2>15 DEF MovesCalls
      <4> HIDE DEF w, x, s, t
      <4> QED BY ONLY <2>10, <2>11, <2>12, <3>1, <4>1
    <3>3. counts'["Retries"] = 0
      BY <2>13, <2>15, <3>1 DEF MovesCalls
    <3> QED BY <2>2, <2>6, <2>15, <3>2, <3>3 DEF CallsBalanced
  <2> QED BY <2>14, <2>15
<1> QED BY <1>1, <1>2 DEF CallsCounted

------------------------------------------------------------------------------
(* The books: workers                                                        *)

\* Nothing happens to items and batches.
LEMMA BooksIdle ==
    ASSUME Inv, Books,
           UNCHANGED <<engine, run, store, outcome, looked, misses, pc, attempt, place, faulty,
                       results, outcomes, counts>>
    PROVE  Books'
<1>1. /\ Cached' = Cached /\ Batches' = Batches /\ Groups' = Groups
      /\ \A i : Indexes(i)' = Indexes(i)
      /\ \A b : Batch(b)' = Batch(b)
  BY SameBatches
<1>2. ToLook' = ToLook /\ \A g : Untouched(g)' <=> Untouched(g)
  BY <1>1 DEF ToLook, Untouched
<1>3. \A b, p : Owes(b, p)' <=> Owes(b, p)
  BY DEF Owes
<1>4. Owed'
  BY <1>1, <1>2, <1>3 DEF Books, Owed
<1>5. Told' /\ StoredCounted' /\ FlagsCounted' /\ LookedCounted'
  BY ToldFrame, StoredFrame, FlagsFrame, LookedFrame DEF Books
<1>6. ValuesTold'
  BY ValuesFrame DEF Books
<1>7. CallsCounted'
  BY <1>1, CallsFrame DEF Books, CallsCounted
<1> QED BY <1>4, <1>5, <1>6, <1>7 DEF Books

\* Counters of calls.
CallCounters == {"WorkCalls", "StartedSequences", "Retries"}

\* A step that touches no group and is counted as a call, if at all.
LEMMA BooksCalls ==
    ASSUME Inv, Books, UNCHANGED <<engine, run, store, outcome, looked, misses, results, outcomes>>,
           outcome = "mapping", faulty \subseteq faulty', counts' \in [Counters -> Nat],
           \A c \in Counters \ CallCounters : counts'[c] = counts[c],
           \A b \in Batches : \A p \in 1 .. Len(Batch(b)) :
             /\ Owes(b, p)' => Owes(b, p)
             /\ ~IsBulk => (pc'[b] = "ended" \/ (pc'[b] = "store" /\ p < place'[b]) =>
                              pc[b] = "ended" \/ (pc[b] = "store" /\ p < place[b])),
           CallsCounted'
    PROVE  Books'
<1>1. /\ counts'["Hits"] = counts["Hits"] /\ counts'["Misses"] = counts["Misses"]
      /\ counts'["Stored"] = counts["Stored"] /\ counts'["Quarantined"] = counts["Quarantined"]
      /\ counts'["Skipped"] = counts["Skipped"]
  BY DEF Counters, CallCounters
<1>2. Touches({}) /\ {} \in SUBSET Groups
  <2>1. results' = results /\ store' = store
    OBVIOUS
  <2> QED BY ONLY <2>1 DEF Touches
<1>3. Owed'
  BY <1>2, OwedStep DEF Books
<1>4. Told' /\ StoredCounted' /\ FlagsCounted' /\ LookedCounted'
  BY <1>1, ToldFrame, StoredFrame, FlagsFrame, LookedFrame DEF Books
<1>5. ValuesTold'
  BY ValuesFrame DEF Books
<1> QED BY <1>3, <1>4, <1>5 DEF Books

\* A worker that moves on before its batch is paid, is paid, or fails.
LEMMA BooksRelabel ==
    ASSUME Inv, Books, NEW b \in Batches, pc[b] \in {"admit", "do", "backoff"},
           NEW label \in {"admit", "do", "backoff", "store", "failed"},
           pc' = [pc EXCEPT ![b] = label],
           UNCHANGED <<engine, run, store, outcome, looked, misses, place, results, outcomes>>,
           faulty \subseteq faulty', counts' \in [Counters -> Nat],
           \A c \in Counters \ CallCounters : counts'[c] = counts[c],
           \A c \in Items \ {b} : attempt'[c] = attempt[c], attempt' \in [Items -> Nat \ {0}],
           label # "failed" => MovesCalls(b)
    PROVE  Books'
<1>1. b \in Items /\ outcome = "mapping" /\ pc \in [Items -> Labels] /\ place[b] = 1
  BY WorkingMeansMapping DEF Inv, Types, BatchOK, Unpaid
<1>2. pc'[b] = label /\ \A c \in Items \ {b} : pc'[c] = pc[c]
  BY <1>1
<1>3. CallsCounted'
  BY <1>1, <1>2, CallsStep DEF Books
<1>4. ASSUME NEW c \in Batches, NEW p \in 1 .. Len(Batch(c))
      PROVE  /\ Owes(c, p)' => Owes(c, p)
             /\ ~IsBulk => (pc'[c] = "ended" \/ (pc'[c] = "store" /\ p < place'[c]) =>
                              pc[c] = "ended" \/ (pc[c] = "store" /\ p < place[c]))
  <2>1. c \in Items
    BY BatchMembers DEF Inv
  <2>2. CASE c = b
    <3>1. Owes(c, p)
      BY <2>2 DEF Owes, Unpaid
    <3>2. pc'[c] # "ended" /\ ~(p < place'[c])
      BY <1>1, <1>2, <2>2
    <3> QED BY <3>1, <3>2
  <2>3. CASE c # b
    <3>1. pc'[c] = pc[c] /\ place'[c] = place[c]
      BY <1>2, <2>1, <2>3
    <3> QED BY <3>1 DEF Owes
  <2> QED BY <2>2, <2>3
<1> QED BY <1>1, <1>3, <1>4, BooksCalls

\* Steps of the bulk engine around its work call.
LEMMA BooksBulkCalls ==
    ASSUME Inv, Books, NEW b \in Batches, Admit(b) \/ DoSucceeds(b) \/ DoRetries(b) \/ BackOff(b)
    PROVE  Books'
<1>1. /\ counts \in [Counters -> Nat] /\ attempt \in [Items -> Nat \ {0}]
      /\ \A c \in CallCounters : c \in Counters /\ counts[c] \in Nat
  BY DEF Books, CallsCounted, Counters, CallCounters
<1>2. /\ IsBulk /\ pc[b] \in {"admit", "do", "backoff"}
      /\ UNCHANGED <<engine, run, store, outcome, looked, misses, place, results, outcomes>>
      /\ faulty \subseteq faulty'
  BY DEF Admit, DoSucceeds, DoRetries, BackOff, mainVars, batchVars, itemVars
<1>3. b \in Items /\ pc \in [Items -> Labels]
  BY <1>2, WorkingMeansMapping DEF Inv, Types
<1>4. CASE Admit(b)
  <2>1. pc[b] = "admit" /\ attempt' = attempt
    BY <1>4 DEF Admit, batchVars
  <2>2. CASE Goto(b, "do") /\ Add({"StartedSequences"}, IF attempt[b] = 1 THEN 1 ELSE 0)
    <3>1. pc' = [pc EXCEPT ![b] = "do"] /\ pc'[b] = "do"
      BY <1>3, <2>2 DEF Goto
    <3> DEFINE n == IF attempt[b] = 1 THEN 1 ELSE 0
    <3>2. n \in Nat
      OBVIOUS
    <3>3. /\ counts' \in [Counters -> Nat]
          /\ \A c \in Counters : c \in {"StartedSequences"} => counts'[c] = counts[c] + n
          /\ \A c \in Counters : c \notin {"StartedSequences"} => counts'[c] = counts[c]
      <4> HIDE DEF n
      <4>1. Add({"StartedSequences"}, n)
        BY <2>2 DEF n
      <4> QED BY <1>1, <3>2, <4>1, AddFacts
    <3>4. /\ counts'["StartedSequences"] = counts["StartedSequences"] + n
          /\ counts'["WorkCalls"] = counts["WorkCalls"] /\ counts'["Retries"] = counts["Retries"]
      BY <1>1, <3>3 DEF CallCounters
    <3>5. /\ counts["StartedSequences"] \in Nat /\ counts["Retries"] \in Nat
          /\ attempt[b] \in Nat \ {0}
      BY <1>1, <1>3 DEF CallCounters
    <3>6. b \in Owing' /\ (b \in Owing <=> attempt[b] # 1)
      BY <1>3, <2>1, <3>1, <3>5 DEF Owing
    <3>7. MovesCalls(b)
      <4>1. CASE attempt[b] = 1
        BY <1>2, <3>4, <3>5, <3>6, <4>1 DEF MovesCalls
      <4>2. CASE attempt[b] # 1
        BY <1>2, <3>4, <3>5, <3>6, <4>2 DEF MovesCalls
      <4> QED BY <4>1, <4>2
    <3>8. \A c \in Counters \ CallCounters : counts'[c] = counts[c]
      BY <3>3 DEF CallCounters
    <3> QED BY <1>1, <1>2, <2>1, <3>1, <3>3, <3>7, <3>8, BooksRelabel
  <2>3. CASE Goto(b, "failed") /\ UNCHANGED counts
    BY <1>1, <1>2, <2>1, <2>3, BooksRelabel DEF Goto
  <2> QED BY <1>4, <2>2, <2>3 DEF Admit
<1>5. CASE DoSucceeds(b)
  <2>1. /\ pc[b] = "do" /\ attempt' = attempt /\ Add({"WorkCalls"}, 1)
        /\ \E label \in {"store", "failed"} : pc' = [pc EXCEPT ![b] = label]
    BY <1>5 DEF DoSucceeds, batchVars, Goto
  <2>2. PICK label \in {"store", "failed"} : pc' = [pc EXCEPT ![b] = label]
    BY <2>1
  <2>3. /\ counts' \in [Counters -> Nat]
        /\ \A c \in Counters : c \in {"WorkCalls"} => counts'[c] = counts[c] + 1
        /\ \A c \in Counters : c \notin {"WorkCalls"} => counts'[c] = counts[c]
    BY <1>1, <2>1, AddFacts
  <2>4. /\ counts'["WorkCalls"] = counts["WorkCalls"] + 1
        /\ counts'["StartedSequences"] = counts["StartedSequences"]
        /\ counts'["Retries"] = counts["Retries"]
    BY <1>1, <2>3 DEF CallCounters
  <2>5. b \in Owing /\ b \notin Owing'
    BY <1>3, <2>1, <2>2 DEF Owing
  <2>6. MovesCalls(b)
    BY <1>2, <2>4, <2>5 DEF MovesCalls
  <2>7. \A c \in Counters \ CallCounters : counts'[c] = counts[c]
    BY <2>3 DEF CallCounters
  <2> QED BY <1>1, <1>2, <2>1, <2>2, <2>3, <2>6, <2>7, BooksRelabel
<1>6. CASE DoRetries(b)
  <2>1. /\ pc[b] = "do" /\ attempt' = attempt /\ Add({"WorkCalls", "Retries"}, 1)
        /\ \E label \in {"backoff", "failed"} : pc' = [pc EXCEPT ![b] = label]
    BY <1>6 DEF DoRetries, batchVars, Goto
  <2>2. PICK label \in {"backoff", "failed"} : pc' = [pc EXCEPT ![b] = label]
    BY <2>1
  <2>3. /\ counts' \in [Counters -> Nat]
        /\ \A c \in Counters : c \in {"WorkCalls", "Retries"} => counts'[c] = counts[c] + 1
        /\ \A c \in Counters : c \notin {"WorkCalls", "Retries"} => counts'[c] = counts[c]
    BY <1>1, <2>1, AddFacts
  <2>4. /\ counts'["WorkCalls"] = counts["WorkCalls"] + 1
        /\ counts'["StartedSequences"] = counts["StartedSequences"]
        /\ counts'["Retries"] = counts["Retries"] + 1
        /\ counts["StartedSequences"] \in Nat /\ counts["Retries"] \in Nat
    BY <1>1, <2>3 DEF CallCounters
  <2>5. label # "failed" => b \in Owing /\ b \in Owing'
    BY <1>3, <2>1, <2>2 DEF Owing
  <2>6. label # "failed" => MovesCalls(b)
    BY <1>2, <2>4, <2>5 DEF MovesCalls
  <2>7. \A c \in Counters \ CallCounters : counts'[c] = counts[c]
    BY <2>3 DEF CallCounters
  <2> QED BY <1>1, <1>2, <2>1, <2>2, <2>3, <2>6, <2>7, BooksRelabel
<1>7. CASE BackOff(b)
  <2>1. pc[b] = "backoff" /\ counts' = counts
    BY <1>7 DEF BackOff
  <2>2. CASE Goto(b, "admit") /\ attempt' = [attempt EXCEPT ![b] = @ + 1]
    <3>1. pc' = [pc EXCEPT ![b] = "admit"] /\ pc'[b] = "admit"
      BY <1>3, <2>2 DEF Goto
    <3>2. /\ attempt' \in [Items -> Nat \ {0}] /\ attempt'[b] > 1
          /\ \A c \in Items \ {b} : attempt'[c] = attempt[c]
      BY <1>1, <1>3, <2>2
    <3>3. b \in Owing /\ b \in Owing'
      BY <1>3, <2>1, <3>1, <3>2 DEF Owing
    <3>4. MovesCalls(b)
      BY <1>2, <2>1, <3>3 DEF MovesCalls
    <3> QED BY <1>1, <1>2, <2>1, <3>1, <3>2, <3>4, BooksRelabel
  <2>3. CASE Goto(b, "failed") /\ UNCHANGED attempt
    BY <1>1, <1>2, <2>1, <2>3, BooksRelabel DEF Goto
  <2> QED BY <1>7, <2>2, <2>3 DEF BackOff
<1> QED BY <1>4, <1>5, <1>6, <1>7

\* Steps of the map helpers around their work call.
LEMMA BooksCachedCalls ==
    ASSUME Inv, Books, NEW b \in Batches, AdmitCached(b) \/ WorkCached(b)
    PROVE  Books'
<1>1. /\ counts \in [Counters -> Nat] /\ attempt \in [Items -> Nat \ {0}] /\ attempt' = attempt
      /\ \A c \in CallCounters : c \in Counters /\ counts[c] \in Nat
  BY DEF Books, CallsCounted, Counters, CallCounters, AdmitCached, WorkCached, batchVars
<1>2. /\ ~IsBulk /\ pc[b] \in {"admit", "do"}
      /\ UNCHANGED <<engine, run, store, outcome, looked, misses, place, faulty, results, outcomes>>
  BY DEF AdmitCached, WorkCached, IsCachedMap, IsBulk, mainVars, batchVars, itemVars
<1>3. b \in Items /\ pc \in [Items -> Labels]
  BY <1>2, WorkingMeansMapping DEF Inv, Types
<1>4. CASE AdmitCached(b)
  <2>1. CASE Goto(b, "do") /\ Add({"WorkCalls"}, 1)
    <3>1. pc' = [pc EXCEPT ![b] = "do"] /\ pc'[b] = "do" /\ pc[b] = "admit"
      BY <1>3, <1>4, <2>1 DEF Goto, AdmitCached
    <3>2. /\ counts' \in [Counters -> Nat]
          /\ \A c \in Counters : c \in {"WorkCalls"} => counts'[c] = counts[c] + 1
          /\ \A c \in Counters : c \notin {"WorkCalls"} => counts'[c] = counts[c]
      BY <1>1, <2>1, AddFacts
    <3>3. counts'["WorkCalls"] = counts["WorkCalls"] + 1 /\ counts'["Retries"] = counts["Retries"]
      BY <1>1, <3>2 DEF CallCounters
    <3>4. b \notin Begun /\ b \in Begun'
      BY <1>3, <3>1 DEF Begun
    <3>5. MovesCalls(b)
      BY <1>2, <3>3, <3>4 DEF MovesCalls
    <3>6. \A c \in Counters \ CallCounters : counts'[c] = counts[c]
      BY <3>2 DEF CallCounters
    <3> QED BY <1>1, <1>2, <3>1, <3>2, <3>5, <3>6, BooksRelabel
  <2>2. CASE Goto(b, "failed") /\ UNCHANGED counts
    BY <1>1, <1>2, <2>2, BooksRelabel DEF Goto
  <2> QED BY <1>4, <2>1, <2>2 DEF AdmitCached
<1>5. CASE WorkCached(b)
  <2>1. PICK label \in {"store", "failed"} : pc' = [pc EXCEPT ![b] = label]
    BY <1>5 DEF WorkCached, Goto
  <2>2. counts' = counts /\ pc[b] = "do" /\ pc'[b] = label
    BY <1>3, <1>5, <2>1 DEF WorkCached
  <2>3. b \in Begun /\ b \in Begun'
    BY <1>3, <2>1, <2>2 DEF Begun
  <2>4. MovesCalls(b)
    BY <1>2, <2>2, <2>3 DEF MovesCalls
  <2> QED BY <1>1, <1>2, <2>1, <2>2, <2>4, BooksRelabel
<1> QED BY <1>4, <1>5

\* The feeder hands over a batch.
LEMMA BooksFeed ==
    ASSUME Inv, Books, Feed
    PROVE  Books'
<1>1. PICK b : b = fed + 1
  OBVIOUS
<1>2. /\ outcome = "mapping" /\ fed < BatchCount /\ pc' = [pc EXCEPT ![b] = "admit"]
      /\ UNCHANGED <<engine, run, store, outcome, looked, misses, attempt, place, faulty, results,
                     outcomes, counts>>
  BY <1>1 DEF Feed, mainVars, batchVars, itemVars
<1>3. b \in Batches /\ b \in Items /\ pc[b] = "queued" /\ pc \in [Items -> Labels]
  <2>1. fed \in Nat /\ Len(misses) \in Nat
    BY DEF Inv, Types
  <2>2. BatchCount \in Nat
    BY <2>1, SizeFacts, CountFacts DEF BatchCount
  <2>3. b \in Batches /\ b > fed
    BY <1>1, <1>2, <2>1, <2>2 DEF Batches
  <2>4. b \in Items
    BY <2>3, BatchMembers DEF Inv
  <2> QED BY <2>3, <2>4 DEF Inv, Feeding, Types
<1>4. pc'[b] = "admit" /\ \A c \in Items \ {b} : pc'[c] = pc[c]
  BY <1>2, <1>3
<1>5. attempt \in [Items -> Nat \ {0}] /\ attempt[b] = 1
  BY <1>3 DEF Books, CallsCounted
<1>6. b \notin Owing /\ b \notin Owing' /\ b \notin Begun /\ b \notin Begun'
  BY <1>2, <1>3, <1>4, <1>5 DEF Owing, Begun
<1>7. MovesCalls(b)
  BY <1>2, <1>6 DEF MovesCalls
<1>8. CallsCounted'
  BY <1>2, <1>3, <1>4, <1>5, <1>7, CallsStep DEF Books
<1>9. ASSUME NEW c \in Batches, NEW p \in 1 .. Len(Batch(c))
      PROVE  /\ Owes(c, p)' => Owes(c, p)
             /\ ~IsBulk => (pc'[c] = "ended" \/ (pc'[c] = "store" /\ p < place'[c]) =>
                              pc[c] = "ended" \/ (pc[c] = "store" /\ p < place[c]))
  <2>1. c \in Items
    BY BatchMembers DEF Inv
  <2> QED BY <1>2, <1>3, <1>4, <2>1 DEF Owes, Unpaid
<1> QED BY <1>2, <1>8, <1>9, BooksCalls DEF Books

\* The items of a stored group have been observed.
LEMMA BooksObserve ==
    ASSUME Inv, Books, NEW b \in Batches, Observe(b)
    PROVE  Books'
<1>1. /\ IsBulk /\ pc[b] = "observe"
      /\ UNCHANGED <<engine, run, store, outcome, looked, misses, attempt, results, outcomes, counts>>
  BY DEF Observe, mainVars, itemVars
<1>2. /\ b \in Items /\ outcome = "mapping" /\ pc \in [Items -> Labels] /\ place \in [Items -> Nat]
      /\ attempt \in [Items -> Nat \ {0}]
  BY <1>1, WorkingMeansMapping DEF Inv, Types, Books, CallsCounted
<1>3. PICK label \in {"ended", "store", "failed"} : pc' = [pc EXCEPT ![b] = label]
  BY DEF Observe, Goto
<1>4. pc'[b] = label /\ \A c \in Items \ {b} : pc'[c] = pc[c]
  BY <1>2, <1>3
<1>5. /\ \A c \in Items \ {b} : place'[c] = place[c]
      /\ label = "store" => place'[b] = place[b] + 1
      /\ faulty \subseteq faulty'
  <2>1. CASE place' = [place EXCEPT ![b] = @ + 1] /\ UNCHANGED faulty
    BY <1>2, <2>1
  <2>2. CASE Goto(b, "failed") /\ faulty' = faulty \cup {b} /\ UNCHANGED place
    <3>1. label = "failed"
      BY <1>2, <1>4, <2>2 DEF Goto
    <3> QED BY <2>2, <3>1
  <2> QED BY <2>1, <2>2 DEF Observe
<1>6. b \notin Owing /\ b \notin Owing'
  BY <1>1, <1>2, <1>4 DEF Owing
<1>7. MovesCalls(b)
  BY <1>1, <1>6 DEF MovesCalls
<1>8. CallsCounted'
  BY <1>1, <1>2, <1>4, <1>7, CallsStep DEF Books
<1>9. ASSUME NEW c \in Batches, NEW p \in 1 .. Len(Batch(c))
      PROVE  Owes(c, p)' => Owes(c, p)
  <2>1. c \in Items /\ place[c] \in Nat
    BY <1>2, BatchMembers DEF Inv
  <2>2. CASE c = b
    BY <1>1, <1>4, <1>5, <2>1, <2>2 DEF Owes, Unpaid
  <2>3. CASE c # b
    BY <1>4, <1>5, <2>1, <2>3 DEF Owes
  <2> QED BY <2>2, <2>3
<1> QED BY <1>1, <1>2, <1>5, <1>8, <1>9, BooksCalls DEF Books

\* A group that its worker has yet to commit is in no other place of a batch.
LEMMA CommitsApart ==
    ASSUME Inv, NEW b \in Batches, pc[b] = "store", NEW i, i = Batch(b)[place[b]],
           NEW c \in Batches, NEW p \in 1 .. Len(Batch(c)), c # b \/ p # place[b]
    PROVE  /\ Batch(c)[p] \in Groups /\ Batch(c)[p] # i
           /\ \A j \in Indexes(Batch(c)[p]) : j \in Items /\ j \notin Indexes(i)
<1>1. place[b] \in 1 .. Len(Batch(b)) /\ i \in Groups
  BY CommitFacts
<1>2. Batch(c)[p] \in Groups /\ Batch(c)[p] # i
  BY <1>1, BatchMembers DEF Inv
<1> QED BY <1>1, <1>2, GroupFacts

\* The worker on b commits its next group i, completely or not.
LEMMA BooksCommits ==
    ASSUME Inv, Books, NEW b \in Batches, pc[b] = "store", NEW i, i = Batch(b)[place[b]],
           Commits(i), UNCHANGED <<engine, run, misses, looked, outcome, attempt>>,
           NEW label \in {"observe", "store", "ended", "failed"}, pc' = [pc EXCEPT ![b] = label],
           \A c \in Items \ {b} : place'[c] = place[c],
           label = "store" => place'[b] = place[b] + 1,
           label = "observe" => place'[b] = place[b],
           label = "ended" => place[b] = Len(Batch(b)),
           counts' \in [Counters -> Nat],
           \A c \in Counters \ {"Stored"} : counts'[c] = counts[c],
           \/ /\ Cached /\ store'[KeyOf[i]] = <<run, i>> /\ counts'["Stored"] = counts["Stored"] + 1
              /\ faulty \subseteq faulty'
           \/ Cached /\ counts'["Stored"] = counts["Stored"] /\ faulty' # {}
           \/ ~Cached /\ counts'["Stored"] = counts["Stored"],
           \A j \in Items : outcomes'[j] = "stored" =>
             \/ outcomes[j] = "stored"
             \/ Cached /\ j \in Indexes(i) /\ store'[KeyOf[i]] = <<run, i>>,
           \A j \in Items : Cached /\ results'[j].kind = "value" =>
             \/ results[j].kind = "value" /\ outcomes'[j] = outcomes[j]
             \/ outcomes'[j] # "pending",
           ~IsBulk /\ label # "failed" => \A j \in Indexes(i) : outcomes'[j] = "stored",
           ~IsBulk => label # "observe"
    PROVE  Books'
<1>1. /\ b \in Items /\ outcome = "mapping" /\ pc \in [Items -> Labels] /\ place \in [Items -> Nat]
      /\ attempt \in [Items -> Nat \ {0}]
  BY WorkingMeansMapping DEF Inv, Types, Books, CallsCounted
<1>2. /\ i \in Groups /\ i \in Items /\ <<run, i>> \in Values /\ place[b] \in 1 .. Len(Batch(b))
      /\ (\E m \in 1 .. Len(misses) : i = misses[m]) /\ Indexes(i) \subseteq Items
      /\ Len(Batch(b)) \in Nat
  BY CommitFacts, GroupFacts, BatchFacts DEF Inv, Types
<1>3. Untouched(i)
  <2>1. Owes(b, place[b])
    BY <1>1 DEF Owes
  <2> QED BY <1>1, <1>2, <2>1 DEF Books, Owed
<1>4. pc'[b] = label /\ \A c \in Items \ {b} : pc'[c] = pc[c]
  BY <1>1
<1>5. /\ counts'["Hits"] = counts["Hits"] /\ counts'["Misses"] = counts["Misses"]
      /\ counts'["Quarantined"] = counts["Quarantined"] /\ counts'["Skipped"] = counts["Skipped"]
      /\ counts'["WorkCalls"] = counts["WorkCalls"] /\ counts'["Retries"] = counts["Retries"]
      /\ counts'["StartedSequences"] = counts["StartedSequences"]
  BY DEF Counters
<1>6. /\ Cached' = Cached /\ IsBulk' = IsBulk /\ Batches' = Batches
      /\ \A j : Indexes(j)' = Indexes(j)
      /\ \A c : Batch(c)' = Batch(c)
  BY SameBatches
<1>7. Told'
  BY <1>1, <1>2, <1>5, ToldCommits DEF Books
<1>8. Owed'
  <2>1. Touches({i}) /\ {i} \in SUBSET Groups
    BY <1>2 DEF Commits, Touches
  <2>2. ASSUME NEW c \in Batches, NEW p \in 1 .. Len(Batch(c)), Owes(c, p)'
        PROVE  Owes(c, p) /\ Batch(c)[p] \notin {i}
    <3>1. c \in Items /\ p \in Nat /\ place[b] \in Nat
      BY <1>1, BatchMembers DEF Inv
    <3>2. CASE c = b
      <4>1. label \in {"store", "observe"} /\ place[b] < p
        BY <1>4, <2>2, <3>1, <3>2 DEF Owes, Unpaid
      <4>2. Owes(c, p) /\ p # place[b]
        BY <3>1, <3>2, <4>1 DEF Owes
      <4> QED BY <4>2, CommitsApart
    <3>3. CASE c # b
      <4>1. Owes(c, p)
        BY <1>4, <2>2, <3>1, <3>3 DEF Owes
      <4> QED BY <3>3, <4>1, CommitsApart
    <3> QED BY <3>2, <3>3
  <2> QED BY <1>1, <2>1, <2>2, OwedStep DEF Books
<1>9. StoredCounted'
  <2>1. CASE Cached
    BY <1>2, <1>3, <2>1, StoredOnce DEF Books, Commits
  <2>2. CASE ~Cached
    BY <1>6, <2>2 DEF Books, StoredCounted
  <2> QED BY <2>1, <2>2
<1>10. FlagsCounted'
  <2>1. Result("value", <<run, i>>).kind = "value"
    BY DEF Result
  <2>2. \A j \in Indexes(i) : results[j].kind = "none"
    BY <1>3 DEF Untouched
  <2>3. \A j \in Items : \A kind \in {"quarantined", "skipped"} :
          results'[j].kind = kind <=> results[j].kind = kind
    BY <2>1, <2>2 DEF Commits
  <2> QED BY <1>5, <2>3, FlagsFrame DEF Books
<1>11. LookedCounted'
  BY <1>5, LookedFrame DEF Books
<1>12. ValuesTold'
  <2>1. Cached => \A j \in Items : results'[j].kind = "value" => outcomes'[j] # "pending"
    BY DEF Books, ValuesTold, Flagged
  <2>2. ASSUME ~IsBulk, NEW c \in Batches, NEW p \in 1 .. Len(Batch(c)),
               pc'[c] = "ended" \/ (pc'[c] = "store" /\ p < place'[c]),
               NEW j \in Indexes(Batch(c)[p])
        PROVE  outcomes'[j] = "stored"
    <3>1. c \in Items /\ p \in Nat /\ place[b] \in Nat
      BY <1>1, BatchMembers DEF Inv
    <3>2. CASE c = b /\ p = place[b]
      <4>1. label # "failed"
        BY <1>4, <2>2, <3>2
      <4> QED BY <2>2, <3>2, <4>1
    <3>3. CASE c = b /\ p # place[b]
      <4>1. p < place[b]
        BY <1>2, <1>4, <2>2, <3>1, <3>3
      <4>2. outcomes[j] = "stored"
        BY <2>2, <3>3, <4>1 DEF Books, ValuesTold
      <4> QED BY <3>3, <4>2, CommitsApart DEF Commits
    <3>4. CASE c # b
      <4>1. pc'[c] = pc[c] /\ place'[c] = place[c]
        BY <1>4, <3>1, <3>4
      <4>2. outcomes[j] = "stored"
        BY <2>2, <4>1 DEF Books, ValuesTold
      <4> QED BY <3>4, <4>2, CommitsApart DEF Commits
    <3> QED BY <3>2, <3>3, <3>4
  <2> QED BY <1>6, <2>1, <2>2 DEF ValuesTold, Flagged
<1>13. CallsCounted'
  <2>1. label # "failed" => b \notin Owing /\ b \notin Owing' /\ b \in Begun /\ b \in Begun'
    BY <1>1, <1>4 DEF Owing, Begun
  <2>2. label # "failed" => MovesCalls(b)
    BY <1>5, <2>1 DEF MovesCalls
  <2> QED BY <1>1, <1>4, <2>2, CallsStep DEF Books
<1> QED BY <1>7, <1>8, <1>9, <1>10, <1>11, <1>12, <1>13 DEF Books

\* runBulk stores a value, counts it and gives it to its items; or the Store fails.
LEMMA BooksCommit ==
    ASSUME Inv, Books, NEW b \in Batches, Commit(b)
    PROVE  Books'
<1>1. PICK i : i = Batch(b)[place[b]]
  OBVIOUS
<1>2. /\ IsBulk /\ pc[b] = "store"
      /\ UNCHANGED <<engine, run, misses, looked, outcome, attempt, place>>
  BY DEF Commit, mainVars
<1>3. /\ Commits(i) /\ i \in Groups /\ KeyOf[i] \in Keys /\ Indexes(i) \subseteq Items
      /\ store \in [Keys -> Values \cup {None}] /\ counts \in [Counters -> Nat]
  BY <1>1, <1>2, CommitCommits, CommitFacts, GroupFacts DEF Inv, Types, Books
<1>4. CASE /\ store' = IF Cached THEN [store EXCEPT ![KeyOf[i]] = <<run, i>>] ELSE store
           /\ Add({"Stored"}, IF Cached THEN 1 ELSE 0)
           /\ Give(Indexes(i), Result("value", <<run, i>>))
           /\ Mark(Indexes(i), IF Cached THEN "stored" ELSE "pending")
           /\ Goto(b, "observe")
           /\ UNCHANGED faulty
  <2> DEFINE n == IF Cached THEN 1 ELSE 0
  <2>1. /\ counts' \in [Counters -> Nat]
        /\ \A c \in Counters : c \in {"Stored"} => counts'[c] = counts[c] + n
        /\ \A c \in Counters : c \notin {"Stored"} => counts'[c] = counts[c]
    <3>1. n \in Nat /\ Add({"Stored"}, n)
      BY <1>4
    <3> HIDE DEF n
    <3> QED BY <1>3, <3>1, AddFacts
  <2>2. counts'["Stored"] = counts["Stored"] + n /\ counts["Stored"] \in Nat
        /\ \A c \in Counters \ {"Stored"} : counts'[c] = counts[c]
    BY <1>3, <2>1 DEF Counters
  <2>3. /\ Cached => store'[KeyOf[i]] = <<run, i>> /\ counts'["Stored"] = counts["Stored"] + 1
        /\ ~Cached => counts'["Stored"] = counts["Stored"]
    <3>1. CASE Cached
      BY <1>3, <1>4, <2>2, <3>1
    <3>2. CASE ~Cached
      BY <2>2, <3>2
    <3> QED BY <3>1, <3>2
  <2>4. \A j \in Items : outcomes'[j] = IF j \in Indexes(i) THEN (IF Cached THEN "stored" ELSE "pending")
                                                           ELSE outcomes[j]
    BY <1>4 DEF Mark
  <2>5. \A j \in Items : j \notin Indexes(i) => results'[j] = results[j]
    BY <1>4 DEF Give
  <2>6. \A j \in Items : outcomes'[j] = "stored" =>
          \/ outcomes[j] = "stored"
          \/ Cached /\ j \in Indexes(i) /\ store'[KeyOf[i]] = <<run, i>>
    BY <2>3, <2>4
  <2>7. \A j \in Items : Cached /\ results'[j].kind = "value" =>
          \/ results[j].kind = "value" /\ outcomes'[j] = outcomes[j]
          \/ outcomes'[j] # "pending"
    BY <2>4, <2>5
  <2>8. pc' = [pc EXCEPT ![b] = "observe"]
    BY <1>4 DEF Goto
  <2> QED BY <1>1, <1>2, <1>3, <1>4, <2>1, <2>2, <2>3, <2>6, <2>7, <2>8, BooksCommits
<1>5. CASE /\ Cached /\ Goto(b, "failed") /\ faulty' = faulty \cup {b}
           /\ UNCHANGED <<itemVars, counts>>
  <2>1. /\ faulty' # {} /\ pc' = [pc EXCEPT ![b] = "failed"]
        /\ UNCHANGED <<results, outcomes, counts>>
    BY <1>5 DEF Goto, itemVars
  <2>2. \A j \in Items : results'[j].kind = "value" =>
          results[j].kind = "value" /\ outcomes'[j] = outcomes[j]
    BY <2>1
  <2> QED BY <1>1, <1>2, <1>3, <1>5, <2>1, <2>2, BooksCommits
<1> QED BY <1>1, <1>4, <1>5 DEF Commit

\* The map helpers store a value, count it and report its items; or callback or Store fail.
LEMMA BooksCommitCached ==
    ASSUME Inv, Books, NEW b \in Batches, CommitCached(b)
    PROVE  Books'
<1>1. PICK i : i = Batch(b)[place[b]]
  OBVIOUS
<1>2. /\ IsCachedMap /\ Cached /\ ~IsBulk /\ pc[b] = "store"
      /\ UNCHANGED <<engine, run, misses, looked, outcome, attempt, results>>
  BY DEF CommitCached, mainVars, IsCachedMap, Cached, IsBulk
<1>3. /\ Commits(i) /\ i \in Groups /\ i \in Items /\ KeyOf[i] \in Keys /\ Indexes(i) \subseteq Items
      /\ store \in [Keys -> Values \cup {None}] /\ counts \in [Counters -> Nat]
      /\ b \in Items /\ place \in [Items -> Nat]
  BY <1>1, <1>2, CommitCachedCommits, CommitFacts, GroupFacts DEF Inv, Types, Books
<1>4. ASSUME Add({"Stored"}, 1)
      PROVE  /\ counts' \in [Counters -> Nat] /\ counts'["Stored"] = counts["Stored"] + 1
             /\ \A c \in Counters \ {"Stored"} : counts'[c] = counts[c]
  BY <1>3, <1>4, AddFacts DEF Counters
<1>5. ASSUME store' = [store EXCEPT ![KeyOf[i]] = <<run, i>>]
      PROVE  store'[KeyOf[i]] = <<run, i>>
  BY <1>3, <1>5
<1>6. ASSUME NEW seen \in SUBSET Indexes(i), Mark(seen, "stored"), store'[KeyOf[i]] = <<run, i>>
      PROVE  /\ \A j \in Items : outcomes'[j] = "stored" =>
                  \/ outcomes[j] = "stored"
                  \/ Cached /\ j \in Indexes(i) /\ store'[KeyOf[i]] = <<run, i>>
             /\ \A j \in Items : Cached /\ results'[j].kind = "value" =>
                  \/ results[j].kind = "value" /\ outcomes'[j] = outcomes[j]
                  \/ outcomes'[j] # "pending"
  <2>1. \A j \in Items : outcomes'[j] = IF j \in seen THEN "stored" ELSE outcomes[j]
    BY <1>6 DEF Mark
  <2> QED BY <1>2, <1>6, <2>1
<1>7. CASE /\ store' = [store EXCEPT ![KeyOf[i]] = <<run, i>>]
           /\ Add({"Stored"}, 1)
           /\ Mark(Indexes(i), "stored")
           /\ place' = [place EXCEPT ![b] = @ + 1]
           /\ Goto(b, IF place[b] = Len(Batch(b)) THEN "ended" ELSE "store")
           /\ UNCHANGED faulty
  <2>1. PICK label \in {"ended", "store"} : /\ pc' = [pc EXCEPT ![b] = label]
                                            /\ label = "ended" => place[b] = Len(Batch(b))
    BY <1>7 DEF Goto
  <2>2. place'[b] = place[b] + 1 /\ \A c \in Items \ {b} : place'[c] = place[c]
    BY <1>3, <1>7
  <2>3. \A j \in Indexes(i) : outcomes'[j] = "stored"
    BY <1>3, <1>7 DEF Mark
  <2> QED BY <1>1, <1>2, <1>3, <1>4, <1>5, <1>6, <1>7, <2>1, <2>2, <2>3, BooksCommits
<1>8. CASE /\ store' = [store EXCEPT ![KeyOf[i]] = <<run, i>>]
           /\ Add({"Stored"}, 1)
           /\ \E seen \in Visited(<<i>>) : Mark(seen, "stored")
           /\ Goto(b, "failed")
           /\ faulty' = faulty \cup {b}
           /\ UNCHANGED place
  <2>1. PICK seen \in SUBSET Indexes(i) : Mark(seen, "stored")
    BY <1>3, <1>8, VisitedOne
  <2>2. pc' = [pc EXCEPT ![b] = "failed"] /\ faulty \subseteq faulty'
    BY <1>8 DEF Goto
  <2> QED BY <1>1, <1>2, <1>3, <1>4, <1>5, <1>6, <1>8, <2>1, <2>2, BooksCommits
<1>9. CASE /\ Goto(b, "failed") /\ faulty' = faulty \cup {b}
           /\ UNCHANGED <<place, outcomes, counts>>
  <2>1. pc' = [pc EXCEPT ![b] = "failed"] /\ faulty' # {}
    BY <1>9 DEF Goto
  <2> QED BY <1>1, <1>2, <1>3, <1>9, <2>1, BooksCommits
<1> QED BY <1>1, <1>7, <1>8, <1>9 DEF CommitCached

\* The work of a batch fails for good: the run fails, or items that had no result are
\* flagged and counted.
LEMMA BooksDoFails ==
    ASSUME Inv, Books, NEW b \in Batches, DoFails(b)
    PROVE  Books'
<1> DEFINE flag == IF OnError = "Skip" THEN "skipped" ELSE "quarantined"
           counter == IF OnError = "Skip" THEN "Skipped" ELSE "Quarantined"
<1>1. /\ IsBulk /\ pc[b] = "do"
      /\ UNCHANGED <<engine, run, store, outcome, looked, misses, attempt, place, faulty, outcomes>>
  BY DEF DoFails, mainVars, batchVars
<1>2. /\ b \in Items /\ outcome = "mapping" /\ pc \in [Items -> Labels]
      /\ attempt \in [Items -> Nat \ {0}] /\ counts \in [Counters -> Nat]
  BY <1>1, WorkingMeansMapping DEF Inv, Types, Books, CallsCounted
<1>3. CASE Goto(b, "failed") /\ Add({"WorkCalls"}, 1) /\ UNCHANGED results
  <2>1. /\ counts' \in [Counters -> Nat]
        /\ \A c \in Counters : c \notin {"WorkCalls"} => counts'[c] = counts[c]
    BY <1>2, <1>3, AddFacts
  <2>2. \A c \in Counters \ CallCounters : counts'[c] = counts[c]
    BY <2>1 DEF CallCounters
  <2> QED BY <1>1, <1>2, <1>3, <2>1, <2>2, BooksRelabel DEF Goto
<1>4. CASE \E seen \in Visited(Batch(b)) :
             /\ Goto(b, "ended") \/ Goto(b, "failed")
             /\ Give(seen, Result(flag, None))
             /\ counts' = [counts EXCEPT !["WorkCalls"] = @ + 1,
                                         ![counter] = @ + Cardinality(seen)]
  <2>1. PICK seen \in Visited(Batch(b)) :
             /\ Goto(b, "ended") \/ Goto(b, "failed")
             /\ Give(seen, Result(flag, None))
             /\ counts' = [counts EXCEPT !["WorkCalls"] = @ + 1,
                                         ![counter] = @ + Cardinality(seen)]
    BY <1>4
  <2>2. PICK label \in {"ended", "failed"} : pc' = [pc EXCEPT ![b] = label]
    BY <2>1 DEF Goto
  <2>3. pc'[b] = label /\ \A c \in Items \ {b} : pc'[c] = pc[c]
    BY <1>2, <2>2
  <2>4. Batch(b) \in Seq(Items) /\ ToSet(Batch(b)) \in SUBSET Groups
    BY BatchFacts, BatchMembers DEF Inv, Types, ToSet
  <2>5. \A j \in seen : \E g \in ToSet(Batch(b)) : j \in Indexes(g)
    <3>1. \A j \in seen : \E p \in 1 .. Len(Batch(b)) : j \in Indexes(Batch(b)[p])
      BY <2>4, VisitedFacts
    <3>2. \A p \in 1 .. Len(Batch(b)) : Batch(b)[p] \in ToSet(Batch(b))
      BY <2>4 DEF ToSet
    <3> QED BY <3>1, <3>2
  <2>6. seen \in SUBSET Items /\ \A j \in seen : results[j].kind = "none"
    <3>1. \A g \in ToSet(Batch(b)) : Untouched(g)
      <4>1. \A p : Owes(b, p)
        BY <1>1 DEF Owes, Unpaid
      <4>2. \A p \in 1 .. Len(Batch(b)) : Untouched(Batch(b)[p])
        BY <1>2, <4>1 DEF Books, Owed
      <4>3. \A g \in ToSet(Batch(b)) : \E p \in 1 .. Len(Batch(b)) : g = Batch(b)[p]
        BY <2>4 DEF ToSet
      <4> QED BY <4>2, <4>3
    <3> QED BY <2>4, <2>5, <3>1, GroupFacts DEF Untouched
  <2>7. /\ flag \in {"skipped", "quarantined"} /\ Result(flag, None).kind = flag
        /\ counter \in Counters /\ counter # "WorkCalls"
        /\ flag = "skipped" <=> counter = "Skipped"
        /\ flag = "quarantined" <=> counter = "Quarantined"
    BY DEF Result, Counters
  <2> DEFINE x == Result(flag, None)
  <2>8. Cardinality(seen) \in Nat
    BY <2>6, SizeOfItems
  <2> HIDE DEF flag, counter
  <2>9. \A j \in Items : results'[j] = IF j \in seen THEN x ELSE results[j]
    BY <2>1 DEF Give
  <2>10. x.kind = flag
    BY <2>7
  <2> HIDE DEF x
  <2>11. /\ counts' \in [Counters -> Nat]
         /\ counts'["WorkCalls"] = counts["WorkCalls"] + 1
         /\ counts'[counter] = counts[counter] + Cardinality(seen)
         /\ \A c \in Counters \ {"WorkCalls", counter} : counts'[c] = counts[c]
    <3>1. "WorkCalls" \in Counters
      BY DEF Counters
    <3> QED BY <1>2, <2>1, <2>7, <2>8, <3>1
  <2>12. /\ counts'["Hits"] = counts["Hits"] /\ counts'["Misses"] = counts["Misses"]
         /\ counts'["Stored"] = counts["Stored"] /\ counts'["Retries"] = counts["Retries"]
         /\ counts'["StartedSequences"] = counts["StartedSequences"]
    BY <2>7, <2>11 DEF Counters
  <2>13. FlagsCounted'
    <3>1. PICK F : F = Flagged(flag)
      OBVIOUS
    <3>2. PICK S : S = Flagged("skipped")'
      OBVIOUS
    <3>3. PICK Q : Q = Flagged("quarantined")'
      OBVIOUS
    <3>4. F \in SUBSET Items /\ F \cap seen = {}
      BY <2>6, <2>7, <3>1 DEF Flagged
    <3>5. Cardinality(F \cup seen) = Cardinality(F) + Cardinality(seen)
      BY <2>6, <3>4, JoinedSize
    <3>6. IsBulk'
      BY <1>1, SameBatches
    <3>7. CASE flag = "skipped"
      <4>1. S = F \cup seen /\ Q = Flagged("quarantined")
        BY <2>6, <2>9, <2>10, <3>1, <3>2, <3>3, <3>7 DEF Flagged
      <4>2. /\ counts'["Skipped"] = counts["Skipped"] + Cardinality(seen)
            /\ counts'["Quarantined"] = counts["Quarantined"]
        BY <2>7, <2>11, <3>7 DEF Counters
      <4>3. /\ counts["Skipped"] = Cardinality(F)
            /\ counts["Quarantined"] = Cardinality(Flagged("quarantined"))
        BY <3>1, <3>7 DEF Books, FlagsCounted
      <4> QED BY <3>2, <3>3, <3>5, <3>6, <4>1, <4>2, <4>3 DEF FlagsCounted
    <3>8. CASE flag = "quarantined"
      <4>1. Q = F \cup seen /\ S = Flagged("skipped")
        BY <2>6, <2>9, <2>10, <3>1, <3>2, <3>3, <3>8 DEF Flagged
      <4>2. /\ counts'["Quarantined"] = counts["Quarantined"] + Cardinality(seen)
            /\ counts'["Skipped"] = counts["Skipped"]
        BY <2>7, <2>11, <3>8 DEF Counters
      <4>3. /\ counts["Quarantined"] = Cardinality(F)
            /\ counts["Skipped"] = Cardinality(Flagged("skipped"))
        BY <3>1, <3>8 DEF Books, FlagsCounted
      <4> QED BY <3>2, <3>3, <3>5, <3>6, <4>1, <4>2, <4>3 DEF FlagsCounted
    <3> QED BY <2>7, <3>7, <3>8
  <2>14. Owed'
    <3>1. Touches(ToSet(Batch(b)))
      BY <1>1, <2>5, <2>9 DEF Touches
    <3>2. ASSUME NEW c \in Batches, NEW p \in 1 .. Len(Batch(c)), Owes(c, p)'
          PROVE  Owes(c, p) /\ Batch(c)[p] \notin ToSet(Batch(b))
      <4>1. c \in Items
        BY BatchMembers DEF Inv
      <4>2. c # b
        BY <2>3, <3>2 DEF Owes, Unpaid
      <4>3. Owes(c, p)
        BY <1>1, <2>3, <3>2, <4>1, <4>2 DEF Owes
      <4>4. \A q \in 1 .. Len(Batch(b)) : Batch(c)[p] # Batch(b)[q]
        BY <4>2, BatchMembers DEF Inv
      <4> QED BY <2>4, <4>3, <4>4 DEF ToSet
    <3> QED BY <1>1, <1>2, <2>4, <3>1, <3>2, OwedStep DEF Books
  <2>15. Told' /\ StoredCounted' /\ LookedCounted'
    BY <1>1, <2>12, ToldFrame, StoredFrame, LookedFrame DEF Books
  <2>16. ValuesTold'
    <3>1. \A j \in Items : results'[j].kind = "value" => results[j].kind = "value"
      BY <2>7, <2>9, <2>10
    <3> QED BY <1>1, <3>1, ValuesFrame DEF Books
  <2>17. CallsCounted'
    <3>1. b \in Owing /\ b \notin Owing'
      BY <1>1, <1>2, <2>3 DEF Owing
    <3>2. MovesCalls(b)
      BY <1>1, <2>11, <2>12, <3>1 DEF MovesCalls
    <3> QED BY <1>1, <1>2, <2>3, <2>11, <3>2, CallsStep DEF Books
  <2> QED BY <2>11, <2>13, <2>14, <2>15, <2>16, <2>17 DEF Books
<1> QED BY <1>3, <1>4 DEF DoFails

\* Every step of a worker.
LEMMA BooksBatchStep ==
    ASSUME Inv, Books, NEW b \in Batches, BatchStep(b)
    PROVE  Books'
BY BooksBulkCalls, BooksCachedCalls, BooksDoFails, BooksCommit, BooksCommitCached, BooksObserve
   DEF BatchStep, BulkStep, CachedStep

------------------------------------------------------------------------------
(* The books: the caller of Map                                              *)

\* Batches are numbered like items.
LEMMA BatchesWithin ==
    Types /\ Looking => Batches \subseteq Items
BY BatchMembers

\* A program that has just been started on a Store.
Blank ==
    /\ outcome = "loading" /\ looked = 0 /\ misses = <<>> /\ faulty = {}
    /\ \A b \in Items : pc[b] = "queued"
    /\ attempt = [b \in Items |-> 1]
    /\ \A j \in Items : results[j].kind = "none" /\ outcomes[j] = "pending"
    /\ counts = [c \in Counters |-> 0]
    /\ \A k \in Keys : store[k] # None => store[k][1] < run

\* It has nothing to report.
LEMMA BlankBooks ==
    Inv /\ Blank => Books
<1> SUFFICES ASSUME Inv, Blank PROVE Books
  OBVIOUS
<1>1. counts \in [Counters -> Nat] /\ \A c \in Counters : counts[c] = 0
  BY DEF Blank
<1>2. /\ counts["Hits"] = 0 /\ counts["Misses"] = 0 /\ counts["Stored"] = 0
      /\ counts["Quarantined"] = 0 /\ counts["Skipped"] = 0 /\ counts["WorkCalls"] = 0
      /\ counts["StartedSequences"] = 0 /\ counts["Retries"] = 0
  BY <1>1 DEF Counters
<1>3. Cardinality({}) = 0
  BY FS_EmptySet
<1>4. run \in Nat /\ \A k \in Keys : store[k] # None => store[k][1] \in Nat
  BY ParallelMapAssumption DEF Inv, Types, Values
<1>5. Told
  <2>1. Reported("hit") = {} /\ Reported("stored") = {}
    BY DEF Blank, Reported
  <2>2. \A k \in Keys : store[k] # None => store[k][1] <= run /\ store[k][1] < run
    BY <1>4 DEF Blank
  <2> QED BY <1>2, <1>3, <2>1, <2>2 DEF Told
<1>6. ToSet(misses) = {}
  BY DEF Blank, ToSet
<1>7. Owed
  <2>1. ASSUME NEW g \in ToLook PROVE Untouched(g)
    <3>1. g \in Groups /\ g \in Items /\ Indexes(g) \subseteq Items /\ KeyOf[g] \in Keys
      BY GroupFacts, ParallelMapAssumption DEF ToLook
    <3>2. <<run, g>> \in Values /\ None \notin Values /\ <<run, g>>[1] = run
      BY <3>1, ParallelMapAssumption DEF Inv, Types, Values
    <3>3. store[KeyOf[g]] # <<run, g>>
      <4>1. CASE store[KeyOf[g]] = None
        BY <3>2, <4>1
      <4>2. CASE store[KeyOf[g]] # None
        BY <1>4, <3>1, <3>2, <4>2 DEF Blank
      <4> QED BY <4>1, <4>2
    <3> QED BY <3>1, <3>3 DEF Untouched, Blank
  <2> QED BY <1>6, <2>1 DEF Owed, Blank
<1>8. StoredCounted
  <2>1. KeptNow = {}
    BY <1>6 DEF KeptNow
  <2> QED BY <1>2, <1>3, <2>1 DEF StoredCounted
<1>9. FlagsCounted
  <2>1. Flagged("quarantined") = {} /\ Flagged("skipped") = {}
    BY DEF Blank, Flagged
  <2> QED BY <1>2, <1>3, <2>1 DEF FlagsCounted
<1>10. LookedCounted
  <2>1. \A g \in Groups : ~(g <= 0)
    BY ParallelMapAssumption DEF Groups, Items
  <2>2. LookedUp = {}
    BY <2>1 DEF LookedUp, Blank
  <2> QED BY <1>2, <1>3, <2>2 DEF LookedCounted
<1>11. ValuesTold
  <2>1. \A b \in Batches : pc[b] = "queued"
    BY BatchesWithin DEF Inv, Blank
  <2>2. Flagged("value") = {}
    BY DEF Flagged, Blank
  <2> QED BY <2>1, <2>2 DEF ValuesTold
<1>12. CallsCounted
  <2>1. Owing = {} /\ Begun = {}
    BY DEF Owing, Begun, Blank
  <2>2. CallsBalanced
    BY <1>2, <1>3, <2>1 DEF CallsBalanced
  <2> QED BY <2>2 DEF CallsCounted, Blank
<1> QED BY <1>1, <1>5, <1>7, <1>8, <1>9, <1>10, <1>11, <1>12 DEF Books

\* The first program start, and the others, which find what earlier runs have stored.
LEMMA BooksInit ==
    Init => Books
<1> SUFFICES ASSUME Init PROVE Books
  OBVIOUS
<1>1. NoResult.kind = "none"
  BY DEF NoResult, Result
<1>2. Blank
  BY <1>1 DEF Init, Blank
<1> QED BY <1>2, InvInit, BlankBooks

LEMMA BooksRestart ==
    ASSUME Inv, Inv', Books, Restart
    PROVE  Books'
<1>1. NoResult.kind = "none"
  BY DEF NoResult, Result
<1>2. run' = run + 1 /\ store' = store
  BY DEF Restart
<1>3. run \in Nat /\ \A k \in Keys : store[k] # None => store[k][1] \in Nat
  BY ParallelMapAssumption DEF Inv, Types, Values
<1>4. \A k \in Keys : store'[k] # None => store'[k][1] < run'
  BY <1>2, <1>3 DEF Books, Told
<1>5. Blank'
  BY <1>1, <1>4 DEF Restart, Blank
<1> QED BY <1>5, BlankBooks, PTL

\* What looking up group i counts.
Counts(i) ==
    \/ outcome' = "failed" /\ UNCHANGED <<misses, results, outcomes, counts>>
    \/ /\ Cached /\ store[KeyOf[i]] # None /\ UNCHANGED misses
       /\ \E seen \in SUBSET Indexes(i) :
            /\ (seen = Indexes(i) /\ UNCHANGED outcome) \/ outcome' = "failed"
            /\ Give(seen, Result("value", store[KeyOf[i]]))
            /\ Mark(seen, "hit")
            /\ Add({"Hits"}, Cardinality(seen))
    \/ /\ misses' = Append(misses, i) /\ UNCHANGED <<outcome, results, outcomes>>
       /\ Add({"Misses"}, IF Cached THEN Cardinality(Indexes(i)) ELSE 0)

\* Both callers count alike.
LEMMA LoadsCount ==
    ASSUME Inv, NEW i \in Items, Load(i) \/ LoadCached(i)
    PROVE  LookUp(i) /\ Counts(i) /\ UNCHANGED attempt
<1>1. \A seen \in Visited(<<i>>) : seen \in SUBSET Indexes(i)
  BY VisitedOne
<1>2. CASE Load(i)
  BY <1>1, <1>2, LoadsLookUp DEF Load, Counts, batchVars, itemVars
<1>3. CASE LoadCached(i)
  <2>1. Cached
    BY <1>3 DEF LoadCached, IsCachedMap, Cached
  <2> QED BY <1>1, <1>3, <2>1, LoadsLookUp DEF LoadCached, Counts, batchVars, itemVars
<1> QED BY <1>2, <1>3

\* A group is looked up once: its items are counted as hits, one by one, or as misses.
LEMMA BooksLookUp ==
    ASSUME Inv, Inv', Books, NEW i, LookUp(i), Counts(i), UNCHANGED attempt
    PROVE  Books'
<1>1. /\ i \in Groups /\ i \in Items /\ i \in Nat /\ looked \in Nat /\ looked < i
      /\ Indexes(i) \subseteq Items /\ Groups' = Groups /\ \A j : Indexes(j)' = Indexes(j)
  BY LookUpFacts
<1>2. /\ \A j \in Groups : j <= i => j <= looked \/ j = i
      /\ \A j \in ToLook' : j \in ToLook /\ j # i
      /\ \A p \in 1 .. Len(misses) : misses[p] \in Nat /\ misses[p] < i
  BY LookUpFacts
<1>3. /\ outcome = "loading" /\ looked' = i /\ i \in ToLook
      /\ UNCHANGED <<engine, run, store, pc, place, faulty>>
  BY DEF LookUp
<1>4. \A b \in Items : pc'[b] = "queued"
  BY <1>3, LoadingIsQuiet DEF Quiet
<1>5. Batches' \subseteq Items
  <2>1. (Types /\ Looking)' => (Batches \subseteq Items)'
    BY BatchesWithin, PTL
  <2> QED BY <2>1 DEF Inv
<1>6. counts \in [Counters -> Nat] /\ misses \in Seq(Items)
      /\ Cached' = Cached /\ IsBulk' = IsBulk
  BY <1>3 DEF Books, Inv, Types, Cached, IsBulk
<1>7. /\ Untouched(i) /\ \A j \in Indexes(i) : results[j].kind = "none" /\ outcomes[j] # "hit"
  BY <1>3 DEF Books, Owed, Inv, Aligned, Untouched
<1>8. PICK D : D = Indexes(i)
  OBVIOUS
<1>9. PICK L : L = LookedUp
  OBVIOUS
<1>10. LookedUp' = L \cup D /\ L \cap D = {} /\ L \in SUBSET Items /\ D \in SUBSET Items
  <2>1. \A g \in Groups : g \in Nat
    BY ParallelMapAssumption DEF Groups, Items
  <2>2. ASSUME NEW j \in Items
        PROVE  (\E g \in Groups : g <= i /\ j \in Indexes(g)) <=> j \in L \/ j \in D
    <3>1. ASSUME NEW g \in Groups, g <= i, j \in Indexes(g) PROVE j \in L \/ j \in D
      BY <1>2, <1>8, <1>9, <3>1 DEF LookedUp
    <3>2. ASSUME j \in L PROVE \E g \in Groups : g <= i /\ j \in Indexes(g)
      <4>1. PICK g \in Groups : g <= looked /\ j \in Indexes(g)
        BY <1>9, <3>2 DEF LookedUp
      <4>2. g <= i
        BY <1>1, <2>1, <4>1
      <4> QED BY <4>1, <4>2
    <3>3. ASSUME j \in D PROVE \E g \in Groups : g <= i /\ j \in Indexes(g)
      BY <1>1, <1>8, <3>3
    <3> QED BY <3>1, <3>2, <3>3
  <2>3. LookedUp' = L \cup D
    <3>1. LookedUp' = {j \in Items : \E g \in Groups : g <= i /\ j \in Indexes(g)}
      BY <1>1, <1>3 DEF LookedUp
    <3>2. L \in SUBSET Items /\ D \in SUBSET Items
      BY <1>1, <1>8, <1>9 DEF LookedUp
    <3> QED BY <2>2, <3>1, <3>2
  <2>4. ASSUME NEW j \in L, j \in D PROVE FALSE
    <3>1. PICK g \in Groups : g <= looked /\ j \in Indexes(g)
      BY <1>9 DEF LookedUp
    <3>2. j \in Items
      BY <1>9 DEF LookedUp
    <3>3. g = i
      BY <1>1, <1>8, <2>4, <3>1, <3>2, GroupFacts
    <3> QED BY <1>1, <3>1, <3>3
  <2> QED BY <1>1, <1>8, <1>9, <2>3, <2>4 DEF LookedUp
<1>11. /\ Cardinality(L \cup D) = Cardinality(L) + Cardinality(D)
       /\ Cardinality(L) \in Nat /\ Cardinality(D) \in Nat
  BY <1>10, JoinedSize, SizeOfItems
<1>12. Cached => counts["Hits"] + counts["Misses"] = Cardinality(L)
  BY <1>3, <1>9 DEF Books, LookedCounted
<1>13. /\ counts["Hits"] \in Nat /\ counts["Misses"] \in Nat
       /\ {"Hits", "Misses", "Stored", "StartedSequences", "WorkCalls", "Retries", "Quarantined",
           "Skipped"} = Counters
  BY <1>6 DEF Counters
<1>14. ASSUME Cached => \A j \in Items : results'[j].kind = "value" => outcomes'[j] # "pending"
       PROVE  ValuesTold'
  BY <1>4, <1>5, <1>6, <1>14 DEF ValuesTold, Flagged
<1>15. ASSUME counts'["WorkCalls"] = counts["WorkCalls"], counts'["Retries"] = counts["Retries"],
              counts'["StartedSequences"] = counts["StartedSequences"], outcome' # "ok"
       PROVE  CallsCounted'
  BY <1>3, <1>15, CallsFrame DEF Books
<1>16. Cached => \A j \in Items : results[j].kind = "value" => outcomes[j] # "pending"
  BY DEF Books, ValuesTold, Flagged
<1>17. \A g \in ToSet(misses) : g \in Groups /\ g # i
  BY <1>1, <1>2, <1>6 DEF ToSet, Inv, Looking
<1>18. CASE outcome' = "failed" /\ UNCHANGED <<misses, results, outcomes, counts>>
  <2>1. Told' /\ StoredCounted' /\ FlagsCounted'
    BY <1>3, <1>18, ToldFrame, StoredFrame, FlagsFrame DEF Books
  <2>2. Owed' /\ LookedCounted'
    BY <1>18 DEF Owed, LookedCounted
  <2>3. ValuesTold' /\ CallsCounted'
    BY <1>14, <1>15, <1>16, <1>18
  <2> QED BY <1>6, <1>18, <2>1, <2>2, <2>3 DEF Books
<1>19. CASE /\ Cached /\ store[KeyOf[i]] # None /\ UNCHANGED misses
            /\ \E seen \in SUBSET Indexes(i) :
                 /\ (seen = Indexes(i) /\ UNCHANGED outcome) \/ outcome' = "failed"
                 /\ Give(seen, Result("value", store[KeyOf[i]]))
                 /\ Mark(seen, "hit")
                 /\ Add({"Hits"}, Cardinality(seen))
  <2>1. PICK seen \in SUBSET Indexes(i) :
                 /\ (seen = Indexes(i) /\ UNCHANGED outcome) \/ outcome' = "failed"
                 /\ Give(seen, Result("value", store[KeyOf[i]]))
                 /\ Mark(seen, "hit")
                 /\ Add({"Hits"}, Cardinality(seen))
    BY <1>19
  <2>2. seen \in SUBSET Items /\ Cardinality(seen) \in Nat
    BY <1>1, <2>1, SizeOfItems
  <2>3. /\ counts' \in [Counters -> Nat]
        /\ \A c \in Counters : c \in {"Hits"} => counts'[c] = counts[c] + Cardinality(seen)
        /\ \A c \in Counters : c \notin {"Hits"} => counts'[c] = counts[c]
    BY <1>6, <2>1, <2>2, AddFacts
  <2>4. /\ counts'["Hits"] = counts["Hits"] + Cardinality(seen)
        /\ counts'["Misses"] = counts["Misses"] /\ counts'["Stored"] = counts["Stored"]
        /\ counts'["Quarantined"] = counts["Quarantined"] /\ counts'["Skipped"] = counts["Skipped"]
        /\ counts'["WorkCalls"] = counts["WorkCalls"] /\ counts'["Retries"] = counts["Retries"]
        /\ counts'["StartedSequences"] = counts["StartedSequences"]
    BY <1>13, <2>3
  <2>5. PICK x : x = Result("value", store[KeyOf[i]])
    OBVIOUS
  <2>6. x.kind = "value"
    BY <2>5 DEF Result
  <2>7. /\ \A j \in Items : results'[j] = IF j \in seen THEN x ELSE results[j]
        /\ \A j \in Items : outcomes'[j] = IF j \in seen THEN "hit" ELSE outcomes[j]
    BY <2>1, <2>5 DEF Give, Mark
  <2>8. \A j \in seen : results[j].kind = "none" /\ outcomes[j] # "hit" /\ KeyOf[j] = KeyOf[i]
    BY <1>7, <1>19 DEF Indexes
  <2>9. Told'
    <3>1. PICK H : H = Reported("hit")
      OBVIOUS
    <3>2. H \in SUBSET Items /\ H \cap seen = {} /\ Reported("hit")' = H \cup seen
      BY <2>2, <2>7, <2>8, <3>1 DEF Reported
    <3>3. Cardinality(H \cup seen) = Cardinality(H) + Cardinality(seen)
      BY <2>2, <3>2, JoinedSize
    <3>4. counts'["Hits"] = Cardinality(Reported("hit")')
      BY <2>4, <3>1, <3>2, <3>3 DEF Books, Told
    <3>5. ASSUME NEW j \in Items, outcomes'[j] = "hit"
          PROVE  store[KeyOf[j]] # None /\ store[KeyOf[j]][1] < run
      <4>1. CASE j \in seen
        <5>1. KeyOf[i] \in Keys
          BY <1>1, ParallelMapAssumption
        <5> QED BY <1>3, <1>19, <2>8, <4>1, <5>1 DEF Books, Told
      <4>2. CASE j \notin seen
        BY <2>7, <3>5, <4>2 DEF Books, Told, Reported
      <4> QED BY <4>1, <4>2
    <3>6. ASSUME NEW j \in Items, outcomes'[j] = "stored"
          PROVE  store[KeyOf[j]] # None /\ store[KeyOf[j]][1] = run
      BY <2>7, <3>6 DEF Books, Told, Reported
    <3>7. \A k \in Keys : store[k] # None => store[k][1] <= run /\ store[k][1] < run
      BY <1>3 DEF Books, Told
    <3> QED BY <1>3, <3>4, <3>5, <3>6, <3>7 DEF Told, Reported
  <2>10. Owed'
    <3>1. Touches({i}) /\ {i} \in SUBSET Groups
      BY <1>1, <1>3, <2>1, <2>7 DEF Touches
    <3>2. ASSUME NEW g \in ToLook' \cup ToSet(misses) PROVE Untouched(g)'
      <4>1. g \in Groups \ {i} /\ Untouched(g)
        BY <1>2, <1>3, <1>17 DEF Books, Owed, ToLook
      <4> QED BY <1>3, <3>1, <4>1, StaysUntouched
    <3>3. outcome' # "mapping"
      BY <1>3, <2>1
    <3> QED BY <1>19, <3>2, <3>3 DEF Owed
  <2>11. StoredCounted'
    BY <1>3, <1>19, <2>4, StoredFrame DEF Books
  <2>12. FlagsCounted'
    <3>1. \A j \in Items : \A kind \in {"quarantined", "skipped"} :
            results'[j].kind = kind <=> results[j].kind = kind
      BY <2>6, <2>7, <2>8
    <3> QED BY <1>3, <2>4, <3>1, FlagsFrame DEF Books
  <2>13. LookedCounted'
    <3> SUFFICES ASSUME outcome' # "failed"
                 PROVE  counts'["Hits"] + counts'["Misses"] = Cardinality(LookedUp')
      BY DEF LookedCounted
    <3>1. seen = D
      BY <1>8, <2>1
    <3>2. counts'["Hits"] = counts["Hits"] + Cardinality(D) /\ counts'["Misses"] = counts["Misses"]
      BY <2>4, <3>1
    <3>3. counts["Hits"] + counts["Misses"] = Cardinality(L)
      BY <1>12, <1>19
    <3>4. Cardinality(LookedUp') = Cardinality(L) + Cardinality(D)
      BY <1>10, <1>11
    <3>5. /\ counts["Hits"] \in Nat /\ counts["Misses"] \in Nat /\ Cardinality(L) \in Nat
          /\ Cardinality(D) \in Nat
      BY <1>11, <1>13
    <3> QED BY ONLY <3>2, <3>3, <3>4, <3>5
  <2>14. ValuesTold'
    <3>1. \A j \in Items : results'[j].kind = "value" => outcomes'[j] # "pending"
      BY <1>16, <1>19, <2>7
    <3> QED BY <1>14, <3>1
  <2>15. CallsCounted'
    BY <1>3, <1>15, <2>1, <2>4
  <2> QED BY <2>3, <2>9, <2>10, <2>11, <2>12, <2>13, <2>14, <2>15 DEF Books
<1>20. CASE /\ misses' = Append(misses, i) /\ UNCHANGED <<outcome, results, outcomes>>
            /\ Add({"Misses"}, IF Cached THEN Cardinality(Indexes(i)) ELSE 0)
  <2> DEFINE n == IF Cached THEN Cardinality(D) ELSE 0
  <2>1. n \in Nat /\ Add({"Misses"}, n)
    BY <1>8, <1>11, <1>20
  <2>2. Cached => n = Cardinality(D)
    OBVIOUS
  <2> HIDE DEF n
  <2>3. /\ counts' \in [Counters -> Nat]
        /\ \A c \in Counters : c \in {"Misses"} => counts'[c] = counts[c] + n
        /\ \A c \in Counters : c \notin {"Misses"} => counts'[c] = counts[c]
    BY <1>6, <2>1, AddFacts
  <2>4. /\ counts'["Misses"] = counts["Misses"] + n
        /\ counts'["Hits"] = counts["Hits"] /\ counts'["Stored"] = counts["Stored"]
        /\ counts'["Quarantined"] = counts["Quarantined"] /\ counts'["Skipped"] = counts["Skipped"]
        /\ counts'["WorkCalls"] = counts["WorkCalls"] /\ counts'["Retries"] = counts["Retries"]
        /\ counts'["StartedSequences"] = counts["StartedSequences"]
    BY <1>13, <2>3
  <2>5. ToSet(misses') = ToSet(misses) \cup {i}
    <3>1. /\ misses' \in Seq(Items) /\ Len(misses') = Len(misses) + 1 /\ Len(misses) \in Nat
          /\ misses'[Len(misses) + 1] = i
          /\ \A p \in 1 .. Len(misses) : misses'[p] = misses[p]
      BY <1>1, <1>6, <1>20
    <3>2. /\ \A g : g \in ToSet(misses') <=> \E p \in 1 .. Len(misses') : g = misses'[p]
          /\ \A g : g \in ToSet(misses) <=> \E p \in 1 .. Len(misses) : g = misses[p]
      BY <1>6, <3>1 DEF ToSet
    <3>3. \A p \in 1 .. Len(misses') : p \in 1 .. Len(misses) \/ p = Len(misses) + 1
      BY <3>1
    <3>4. Len(misses) + 1 \in 1 .. Len(misses') /\ \A p \in 1 .. Len(misses) : p \in 1 .. Len(misses')
      BY <3>1
    <3>5. \A g : g \in ToSet(misses') <=> g \in ToSet(misses) \/ g = i
      BY <3>1, <3>2, <3>3, <3>4
    <3> QED BY <3>5
  <2>6. Told' /\ FlagsCounted'
    BY <1>3, <1>20, <2>4, ToldFrame, FlagsFrame DEF Books
  <2>7. Owed'
    <3>1. \A g : Untouched(g)' <=> Untouched(g)
      BY <1>1, <1>3, <1>6, <1>20 DEF Untouched
    <3>2. \A g \in ToLook \cup ToSet(misses) : Untouched(g)
      BY <1>3 DEF Books, Owed
    <3>3. ASSUME NEW g \in ToLook' \cup ToSet(misses)' PROVE Untouched(g)'
      BY <1>2, <1>7, <2>5, <3>1, <3>2
    <3>4. outcome' # "mapping"
      BY <1>3, <1>20
    <3> QED BY <3>3, <3>4 DEF Owed
  <2>8. StoredCounted'
    <3>1. CASE Cached
      <4>1. store[KeyOf[i]] # <<run, i>>
        BY <1>7, <3>1 DEF Untouched
      <4>2. KeptNow' = KeptNow
        BY <1>3, <2>5, <4>1 DEF KeptNow
      <4> QED BY <1>3, <1>6, <2>4, <3>1, <4>2 DEF Books, StoredCounted
    <3>2. CASE ~Cached
      BY <1>6, <2>4, <3>2 DEF Books, StoredCounted
    <3> QED BY <3>1, <3>2
  <2>9. LookedCounted'
    <3> SUFFICES ASSUME Cached PROVE counts'["Hits"] + counts'["Misses"] = Cardinality(LookedUp')
      BY <1>6 DEF LookedCounted
    <3>1. counts'["Hits"] = counts["Hits"] /\ counts'["Misses"] = counts["Misses"] + Cardinality(D)
      BY <2>2, <2>4
    <3>2. counts["Hits"] + counts["Misses"] = Cardinality(L)
      BY <1>12
    <3>3. Cardinality(LookedUp') = Cardinality(L) + Cardinality(D)
      BY <1>10, <1>11
    <3>4. /\ counts["Hits"] \in Nat /\ counts["Misses"] \in Nat /\ Cardinality(L) \in Nat
          /\ Cardinality(D) \in Nat
      BY <1>11, <1>13
    <3> QED BY ONLY <3>1, <3>2, <3>3, <3>4
  <2>10. ValuesTold'
    BY <1>14, <1>16, <1>20
  <2>11. CallsCounted'
    BY <1>3, <1>15, <1>20, <2>4
  <2> QED BY <2>3, <2>6, <2>7, <2>8, <2>9, <2>10, <2>11 DEF Books
<1> QED BY <1>18, <1>19, <1>20 DEF Counts

\* Map starts: what is owed is what was missed.
LEMMA BooksStartMap ==
    ASSUME Inv, Books, StartMap \/ StartMapCached
    PROVE  Books'
<1>1. /\ outcome = "loading" /\ outcome' \in {"mapping", "ok", "failed"}
      /\ outcome' = "ok" => misses = <<>>
      /\ UNCHANGED <<engine, run, store, looked, misses, pc, attempt, place, faulty, results,
                     outcomes, counts>>
  BY DEF StartMap, StartMapCached, batchVars, itemVars
<1>2. /\ Cached' = Cached /\ Batches' = Batches
      /\ \A i : Indexes(i)' = Indexes(i)
      /\ \A b : Batch(b)' = Batch(b)
  BY <1>1, SameBatches
<1>3. misses \in Seq(Items)
  BY DEF Inv, Types
<1>4. Owed'
  <2>1. ASSUME NEW b \in Batches, NEW p \in 1 .. Len(Batch(b)) PROVE Untouched(Batch(b)[p])
    <3>1. Batch(b)[p] \in ToSet(misses)
      BY <1>3, BatchFacts DEF ToSet
    <3> QED BY <1>1, <3>1 DEF Books, Owed
  <2>2. \A g : Untouched(g)' <=> Untouched(g)
    BY <1>1, <1>2 DEF Untouched
  <2>3. \A b \in Batches : \A p \in 1 .. Len(Batch(b)) : Untouched(Batch(b)[p])'
    BY <1>1, <1>2, <2>1 DEF Untouched
  <2> QED BY <1>1, <1>2, <2>3 DEF Owed
<1>5. CallsCounted'
  <2>1. ASSUME outcome' = "ok", NEW b \in Batches PROVE FALSE
    <3>1. Len(misses) = 0 /\ From(b) \in Nat /\ To(b) \in Nat /\ From(b) < To(b)
          /\ To(b) <= Len(misses)
      BY <1>1, <1>3, <2>1, BatchFacts
    <3> QED BY <3>1
  <2> QED BY <1>1, <1>2, <2>1, CallsFrame DEF Books
<1>6. Told' /\ StoredCounted' /\ FlagsCounted' /\ LookedCounted'
  BY <1>1, ToldFrame, StoredFrame, FlagsFrame, LookedFrame DEF Books
<1>7. ValuesTold'
  BY <1>1, ValuesFrame DEF Books
<1> QED BY <1>1, <1>4, <1>5, <1>6, <1>7 DEF Books

\* Map returns; the map helpers then give the values of what they have reported stored.
LEMMA BooksReturn ==
    ASSUME Inv, Books, Return \/ ReturnCached
    PROVE  Books'
<1>1. /\ Joined /\ UNCHANGED <<engine, run, store, looked, misses, pc, attempt, place, faulty,
                               outcomes, counts>>
  BY DEF Return, ReturnCached, batchVars, itemVars
<1>2. /\ outcome = "mapping" /\ outcome' \in {"ok", "failed"}
      /\ outcome' = "ok" => \A b \in Batches : pc[b] = "ended"
  BY <1>1, JoinedFacts
<1>3. /\ Cached' = Cached /\ IsBulk' = IsBulk /\ Batches' = Batches
      /\ \A i : Indexes(i)' = Indexes(i)
      /\ \A b : Batch(b)' = Batch(b)
  BY <1>1, SameBatches
<1>4. Owed'
  BY <1>2 DEF Owed
<1>5. Told' /\ StoredCounted' /\ LookedCounted'
  BY <1>1, <1>2, ToldFrame, StoredFrame, LookedFrame DEF Books
<1>6. CallsCounted'
  BY <1>1, <1>2, <1>3, CallsFrame DEF Books
<1>7. CASE Return
  <2>1. results' = results
    BY <1>7 DEF Return, itemVars
  <2>2. FlagsCounted' /\ ValuesTold'
    BY <1>1, <2>1, FlagsFrame, ValuesFrame DEF Books
  <2> QED BY <1>1, <1>4, <1>5, <1>6, <2>2 DEF Books
<1>8. CASE ReturnCached
  <2>1. ~IsBulk
    BY <1>8 DEF ReturnCached, IsCachedMap, IsBulk
  <2>2. ASSUME NEW j \in Items
        PROVE  \/ results'[j] = results[j]
               \/ /\ results'[j].kind = "value" /\ outcome' = "ok"
                  /\ \E i \in ToSet(misses) : j \in Indexes(i)
    BY <1>8 DEF ReturnCached, Result
  <2>3. ASSUME NEW i \in ToSet(misses), outcome' = "ok", NEW j \in Indexes(i)
        PROVE  outcomes[j] = "stored"
    <3>1. misses \in Seq(Items)
      BY DEF Inv, Types
    <3>2. PICK m \in 1 .. Len(misses) : i = misses[m]
      BY <3>1 DEF ToSet
    <3>3. PICK b \in Batches : \E p \in 1 .. Len(Batch(b)) : Batch(b)[p] = misses[m]
      BY <3>1, BatchOfMiss
    <3>4. PICK p \in 1 .. Len(Batch(b)) : Batch(b)[p] = misses[m]
      BY <3>3
    <3> QED BY <1>2, <2>1, <2>3, <3>2, <3>4 DEF Books, ValuesTold
  <2>4. FlagsCounted'
    <3>1. \A j \in Items : \A kind \in {"quarantined", "skipped"} :
            results'[j].kind = kind <=> results[j].kind = kind
      <4>1. \A j \in Items : results[j].kind # "quarantined" /\ results[j].kind # "skipped"
        BY <2>1 DEF Books, FlagsCounted, Flagged
      <4> QED BY <2>2, <4>1
    <3> QED BY <1>1, <3>1, FlagsFrame DEF Books
  <2>5. ValuesTold'
    <3>1. Cached => \A j \in Items : results'[j].kind = "value" => outcomes[j] # "pending"
      BY <2>2, <2>3 DEF Books, ValuesTold, Flagged
    <3>2. \A b \in Batches : \A p \in 1 .. Len(Batch(b)) :
            pc[b] = "ended" \/ (pc[b] = "store" /\ p < place[b]) =>
              \A j \in Indexes(Batch(b)[p]) : outcomes[j] = "stored"
      BY <2>1 DEF Books, ValuesTold
    <3> QED BY <1>1, <1>3, <3>1, <3>2 DEF ValuesTold, Flagged
  <2> QED BY <1>1, <1>4, <1>5, <1>6, <2>4, <2>5 DEF Books
<1> QED BY <1>7, <1>8

\* Every step keeps the books.
LEMMA BooksStep ==
    Inv /\ Inv' /\ Books /\ [Next]_vars => Books'
<1> SUFFICES ASSUME Inv, Inv', Books, [Next]_vars PROVE Books'
  OBVIOUS
<1>1. CASE MainStep
  <2>1. CASE \E i \in Items : Load(i) \/ LoadCached(i)
    BY <2>1, LoadsCount, BooksLookUp
  <2>2. CASE StartMap \/ StartMapCached
    BY <2>2, BooksStartMap
  <2>3. CASE Return \/ ReturnCached
    BY <2>3, BooksReturn
  <2>4. CASE Feed
    BY <2>4, BooksFeed
  <2>5. CASE FeederReturns
    BY <2>5, BooksIdle DEF FeederReturns, mainVars, batchVars, itemVars
  <2> QED BY <1>1, <2>1, <2>2, <2>3, <2>4, <2>5
          DEF MainStep, BulkMainStep, CachedMainStep, FeederStep
<1>2. CASE \E b \in Batches : BatchStep(b)
  BY <1>2, BooksBatchStep
<1>3. CASE CallerCancels
  BY <1>3, BooksIdle DEF CallerCancels, mapVars, batchVars, itemVars
<1>4. CASE Restart
  BY <1>4, BooksRestart
<1>5. CASE UNCHANGED vars
  BY <1>5, BooksIdle DEF vars
<1> QED BY <1>1, <1>2, <1>3, <1>4, <1>5 DEF Next

\* When a call has succeeded, no work call is owed, and the map helpers have made one per batch.
LEMMA CallsSettled ==
    ASSUME Inv, Books, outcome = "ok"
    PROVE  counts["WorkCalls"] = (IF IsBulk THEN counts["StartedSequences"] ELSE BatchCount)
                                 + counts["Retries"]
<1>1. \A b \in Batches : pc[b] = "ended"
  BY DEF Books, CallsCounted
<1>2. BatchCount \in Nat /\ Batches = 1 .. BatchCount /\ Batches \subseteq Items
  <2>1. Len(misses) \in Nat
    BY DEF Inv, Types
  <2>2. BatchCount \in Nat
    BY <2>1, SizeFacts, CountFacts DEF BatchCount
  <2> QED BY <2>2, BatchesWithin DEF Batches, Inv
<1>3. \A b \in Items : b \notin Batches => pc[b] = "queued"
  <2>1. fed \in Nat /\ fed <= BatchCount /\ \A b \in Items : pc[b] = "queued" <=> b > fed
    BY DEF Inv, Feeding, Types
  <2>2. \A b \in Items : b \in Nat /\ b >= 1
    BY ParallelMapAssumption DEF Items
  <2> QED BY <1>2, <2>1, <2>2
<1>4. CallsBalanced
  BY <1>1, <1>3 DEF Books, CallsCounted
<1>5. /\ counts["WorkCalls"] \in Nat /\ counts["StartedSequences"] \in Nat
      /\ counts["Retries"] \in Nat
  BY DEF Books, Counters
<1>6. Owing = {} /\ Begun = Batches
  BY <1>1, <1>2, <1>3 DEF Owing, Begun
<1>7. Cardinality({}) = 0
  BY FS_EmptySet
<1>8. Cardinality(1 .. BatchCount) = BatchCount
  BY <1>2, FS_Interval
<1>9. CASE IsBulk
  <2>1. counts["WorkCalls"] + 0 = counts["StartedSequences"] + counts["Retries"]
    BY <1>4, <1>6, <1>7, <1>9 DEF CallsBalanced
  <2> QED BY <1>5, <1>9, <2>1
<1>10. CASE ~IsBulk
  <2>1. counts["WorkCalls"] = BatchCount /\ counts["Retries"] = 0
    BY <1>2, <1>4, <1>6, <1>8, <1>10 DEF CallsBalanced
  <2> QED BY <1>2, <1>10, <2>1
<1> QED BY <1>9, <1>10

\* At every moment of every call, also one that fails or follows a crash: an item
\* reported as a hit was stored by an earlier run and one reported stored can be loaded;
\* hits, stored groups and flagged items are counted once each; and a call that succeeds
\* counts every item as hit or miss and every work call as a first attempt or a retry.
THEOREM ReportsAreTruthful ==
    Spec => []OutcomesTruthful
<1>1. Inv /\ Books => OutcomesTruthful
  <2> SUFFICES ASSUME Inv, Books PROVE OutcomesTruthful
    OBVIOUS
  <2>1. Told /\ StoredCounted /\ FlagsCounted /\ LookedCounted /\ ValuesTold
    BY DEF Books
  <2>2. Cardinality(KeptNow) \in Nat
    <3>1. ToSet(misses) \subseteq Items
      BY DEF Inv, Types, ToSet
    <3>2. KeptNow \in SUBSET Items
      BY <3>1 DEF KeptNow
    <3> QED BY <3>2, SizeOfItems
  <2>3. outcome = "ok" /\ Cached => counts["Hits"] + counts["Misses"] = N
    <3> SUFFICES ASSUME outcome = "ok" PROVE Cardinality(LookedUp) = N
      BY <2>1 DEF LookedCounted
    <3>1. \A i \in Groups : i <= looked
      BY DEF Inv, Looking
    <3>2. LookedUp = Items
      BY <3>1, InGroup DEF LookedUp
    <3> QED BY <3>2, SizeOfItems
  <2>4. IF faulty = {} /\ Cached THEN counts["Stored"] = Cardinality(KeptNow)
                                 ELSE counts["Stored"] <= Cardinality(KeptNow)
    BY <2>1, <2>2 DEF StoredCounted
  <2>5. outcome = "ok" =>
          counts["WorkCalls"] = (IF IsBulk THEN counts["StartedSequences"] ELSE BatchCount)
                                + counts["Retries"]
    BY CallsSettled
  <2> QED BY <2>1, <2>3, <2>4, <2>5
          DEF OutcomesTruthful, Told, FlagsCounted, ValuesTold, Reported, Flagged, KeptNow
<1>2. Spec => []Books
  BY BooksInit, BooksStep, InvHolds, PTL DEF Spec
<1> QED BY <1>1, <1>2, InvHolds, PTL
==============================================================================
