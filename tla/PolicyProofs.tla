---------------------------- MODULE PolicyProofs ----------------------------
(***************************************************************************)
(* What a step's policy promises: the waits between its attempts (Backoff) *)
(* and the admission of its resource plans (Preflight).                    *)
(*                                                                         *)
(* Backoff, for every width of a duration: no delay wraps around, and      *)
(* every wait lies between the base delay and the cap.  The inductive      *)
(* invariant Delays adds to TypeOK that the delay of the loop never falls  *)
(* below the smaller of base and cap: without it a retry could wait less   *)
(* than the base.                                                          *)
(*                                                                         *)
(* Preflight, for all names, declarations, requests and gates: Ledger says *)
(* what is registered, and Walked what an ensure that holds the mutex has  *)
(* established for the declarations behind it.                             *)
(***************************************************************************)
EXTENDS Backoff, Preflight, FiniteSetTheorems, TLAPS

------------------------------------------------------------------------------
(* Backoff                                                                   *)

Delays ==
    /\ TypeOK
    /\ Least(base, cap) <= delay
    /\ WaitWithinPolicy

\* retryDelay never wraps around and stays between its clamped delay and the
\* cap, for every jitter it may draw.
LEMMA RetryDelayBounds ==
    ASSUME NEW d \in 1 .. MaxDuration, NEW maximum \in 1 .. MaxDuration,
           NEW jitter \in Jitters(d, maximum)
    PROVE  /\ RetryDelay(d, maximum, jitter) \in 1 .. MaxDuration
           /\ Least(d, maximum) <= RetryDelay(d, maximum, jitter)
           /\ RetryDelay(d, maximum, jitter) <= maximum
<1>1. Clamped(d, maximum) \in 1 .. MaxDuration /\ Clamped(d, maximum) = Least(d, maximum)
  BY BackoffAssumption DEF Clamped, Least
<1>2. jitter \in Int /\ 0 <= jitter /\ 2 * jitter <= Clamped(d, maximum)
  BY <1>1, BackoffAssumption DEF Jitters
<1>3. Clamped(d, maximum) <= maximum
  BY <1>1, BackoffAssumption DEF Clamped
<1>4. Wrap(maximum - jitter) = maximum - jitter
  BY <1>1, <1>2, <1>3, BackoffAssumption DEF Wrap
<1>5. CASE Clamped(d, maximum) >= maximum - jitter
  <2>1. RetryDelay(d, maximum, jitter) = maximum
    BY <1>4, <1>5, BackoffAssumption DEF RetryDelay
  <2> QED  BY <2>1, <1>1, <1>3
<1>6. CASE ~(Clamped(d, maximum) >= maximum - jitter)
  <2>1. Wrap(Clamped(d, maximum) + jitter) = Clamped(d, maximum) + jitter
    BY <1>1, <1>2, <1>6, BackoffAssumption DEF Wrap
  <2>2. RetryDelay(d, maximum, jitter) = Clamped(d, maximum) + jitter
    BY <1>4, <1>6, <2>1, BackoffAssumption DEF RetryDelay
  <2> QED  BY <2>2, <1>1, <1>2, <1>6, BackoffAssumption
<1> QED  BY <1>5, <1>6

\* nextRetryDelay never wraps around, and a delay that is not below the cap or
\* the base stays so.
LEMMA NextRetryDelayBounds ==
    ASSUME NEW d \in 1 .. MaxDuration, NEW maximum \in 1 .. MaxDuration
    PROVE  /\ NextRetryDelay(d, maximum) \in 1 .. MaxDuration
           /\ Least(d, maximum) <= NextRetryDelay(d, maximum)
<1>1. CASE d >= maximum
  BY <1>1, BackoffAssumption DEF NextRetryDelay, Least
<1>2. CASE d < maximum
  <2>1. Wrap(maximum - d) = maximum - d
    BY <1>2, BackoffAssumption DEF Wrap
  <2>2. CASE d > maximum - d
    BY <1>2, <2>1, <2>2, BackoffAssumption DEF NextRetryDelay, Least
  <2>3. CASE ~(d > maximum - d)
    <3>1. Wrap(2 * d) = 2 * d
      BY <2>3, BackoffAssumption DEF Wrap
    <3> QED  BY <1>2, <2>1, <2>3, <3>1, BackoffAssumption DEF NextRetryDelay, Least
  <2> QED  BY <2>2, <2>3
<1> QED  BY <1>1, <1>2, BackoffAssumption

\* Delays is inductive (withDefaults establishes it, work's loop keeps it).
THEOREM BackoffInvariant == BackoffSpec => []Delays
<1>1. BackoffInit => Delays
  BY BackoffAssumption DEF BackoffInit, Delays, TypeOK, WaitWithinPolicy, Least, OrDefault
<1>2. Delays /\ [BackoffNext]_backoffVars => Delays'
  <2> SUFFICES ASSUME Delays, [BackoffNext]_backoffVars PROVE Delays'
    OBVIOUS
  <2>1. CASE Retry
    <3>1. base \in 1 .. MaxDuration /\ cap \in 1 .. MaxDuration /\ delay \in 1 .. MaxDuration
      BY DEF Delays, TypeOK
    <3>2. PICK jitter \in Jitters(delay, cap) : wait' = RetryDelay(delay, cap, jitter)
      BY <2>1 DEF Retry
    <3>3. /\ wait' \in 1 .. MaxDuration
          /\ Least(delay, cap) <= wait' /\ wait' <= cap
      BY <3>1, <3>2, RetryDelayBounds
    <3>4. delay' \in 1 .. MaxDuration /\ Least(delay, cap) <= delay'
      BY <2>1, <3>1, NextRetryDelayBounds DEF Retry
    <3>5. base' = base /\ cap' = cap /\ retries' = retries + 1 /\ retries < MaxRetries
      BY <2>1 DEF Retry
    <3>6. Least(base, cap) <= Least(delay, cap)
      BY <3>1 DEF Delays, Least
    <3>7. /\ Least(base, cap) \in Int /\ Least(delay, cap) \in Int
          /\ Least(base', cap') = Least(base, cap)
      BY <3>1, <3>5, BackoffAssumption DEF Least
    <3>8. TypeOK'
      BY <3>1, <3>3, <3>4, <3>5, BackoffAssumption DEF Delays, TypeOK
    <3>9. Least(base', cap') <= delay' /\ Least(base', cap') <= wait' /\ wait' <= cap'
      BY <3>1, <3>3, <3>4, <3>5, <3>6, <3>7, BackoffAssumption
    <3> QED  BY <3>8, <3>9 DEF Delays, WaitWithinPolicy, Least
  <2>2. CASE UNCHANGED backoffVars
    BY <2>2 DEF backoffVars, Delays, TypeOK, WaitWithinPolicy, Least
  <2> QED  BY <2>1, <2>2 DEF BackoffNext
<1> QED  BY <1>1, <1>2, PTL DEF BackoffSpec

\* No delay ever wraps around, for every width of a duration and every policy
\* (retryDelay, nextRetryDelay).
THEOREM BackoffTypeCorrect == BackoffSpec => []TypeOK
<1>1. Delays => TypeOK
  BY DEF Delays
<1> QED  BY <1>1, BackoffInvariant, PTL

\* Every retry waits between the base delay and the cap (the select on
\* time.After in typedRunner.work and runBulk).
THEOREM BackoffWaits == BackoffSpec => []WaitWithinPolicy
<1>1. Delays => WaitWithinPolicy
  BY DEF Delays
<1> QED  BY <1>1, BackoffInvariant, PTL

------------------------------------------------------------------------------
(* Preflight: the inductive invariant                                        *)

Planned(ps) == {n \in Names : ps[n] # None}

\* Every plan is under its own name and has passed the checks.
Sound(ps) ==
    /\ ps \in [Names -> Resources \cup {None}]
    /\ \A n \in Names : ps[n] # None => ps[n].name = n /\ Admissible(ps[n])

\* The estimate and the unpriced names are those of the plans.
Priced(ps, cost, missing) ==
    /\ IsFiniteSet(Dollars(ps, Planned(ps)))
    /\ cost = Cardinality(Dollars(ps, Planned(ps)))
    /\ missing = {n \in Planned(ps) : IsUnpriced(ps[n])}

\* What is registered was accepted and passed the gate, and a budget is what is left
\* of it and what was spent.
Ledger ==
    /\ gate \in Gates \cup {None}
    /\ Sound(plans) /\ Priced(plans, usd, unpriced)
    /\ Planned(plans) = accepted
    /\ remaining \in [Names -> Int] /\ spent \in [Names -> Int]
    /\ \A n \in Names :
         IF plans[n] = None THEN spent[n] = 0
         ELSE remaining[n] >= 0 /\ remaining[n] + spent[n] = plans[n].budget
    /\ gate # None /\ Planned(plans) # {} =>
         usd <= gate.maxUSD /\ (gate.allowUnpriced \/ unpriced = {})

\* What lies behind the loop of the ensure that holds the mutex: the registered plans
\* are kept, and exactly the names it has come by are added to them.
Walked ==
    request # None =>
      /\ request \in Requests /\ at \in 1 .. Len(request) + 1
      /\ Sound(prospectivePlans)
      /\ Priced(prospectivePlans, prospectiveUSD, prospectiveUnpriced)
      /\ \A n \in Names : plans[n] # None => prospectivePlans[n] = plans[n]
      /\ Planned(prospectivePlans) = Planned(plans) \cup {request[i].name : i \in 1 .. at - 1}

\* In a new runEnv, a list without repetitions is entered declaration by declaration.
Listed ==
    request # None /\ Distinct(request) /\ Planned(plans) = {} =>
      /\ \A i \in 1 .. at - 1 : prospectivePlans[request[i].name] = request[i]
      /\ IsFiniteSet(Dollars(request, 1 .. at - 1))
      /\ prospectiveUSD = Cardinality(Dollars(request, 1 .. at - 1))

Preflights == Ledger /\ Walked /\ Listed

------------------------------------------------------------------------------
(* Lemmas about plans                                                        *)

\* A list of declarations is indexed from 1, and its members are declarations.
LEMMA RequestFacts ==
    ASSUME NEW list \in Requests
    PROVE  /\ list # None /\ Len(list) \in Nat /\ DOMAIN list = 1 .. Len(list)
           /\ \A i \in 1 .. Len(list) : list[i] \in Resources
<1>1. list \in Seq(Resources) /\ list # None
  BY PreflightAssumption
<1> QED BY <1>1

\* The fields of a declaration.
LEMMA ResourceFacts ==
    ASSUME NEW d \in Resources
    PROVE  /\ d # None /\ d.name \in Names \cup {Blank} /\ d.ceiling \in Int /\ d.budget \in Int
           /\ d.price \in Int \cup {None}
<1>1. /\ d \in [name : Names \cup {Blank}, ceiling : Int, budget : Int, price : Int \cup {None}]
      /\ d # None
  BY PreflightAssumption
<1> QED BY <1>1

\* A declaration that passed the checks has a natural cost.
LEMMA CostNat ==
    ASSUME NEW d \in Resources, Admissible(d)
    PROVE  Cost(d) \in Nat
<1>1. d.ceiling \in Int /\ d.price \in Int \cup {None}
  BY ResourceFacts
<1>2. CASE d.price = None
  BY <1>2 DEF Cost
<1>3. CASE d.price # None
  <2>1. d.price \in Nat /\ d.ceiling \in Nat
    BY <1>1, <1>3 DEF Admissible
  <2>2. d.ceiling * d.price \in Nat
    BY <2>1
  <2> QED BY <1>3, <2>2 DEF Cost
<1> QED BY <1>2, <1>3

\* A block of c dollars.
LEMMA BlockSize ==
    ASSUME NEW x, NEW c \in Nat
    PROVE  IsFiniteSet({x} \X (1 .. c)) /\ Cardinality({x} \X (1 .. c)) = c
<1>1. IsFiniteSet(1 .. c) /\ Cardinality(1 .. c) = c
  BY FS_Interval
<1>2. IsFiniteSet({x}) /\ Cardinality({x}) = 1
  BY FS_Singleton
<1>3. Cardinality({x} \X (1 .. c)) = 1 * c
  BY <1>1, <1>2, FS_Product
<1>4. IsFiniteSet({x} \X (1 .. c))
  BY <1>1, <1>2, FS_Product
<1> QED BY <1>3, <1>4

\* One more plan adds exactly its cost.
LEMMA OneMorePlan ==
    ASSUME NEW f, NEW g, NEW S, NEW T, NEW x, x \notin S, T = S \cup {x},
           \A y \in S : g[y] = f[y],
           Cost(g[x]) \in Nat,
           IsFiniteSet(Dollars(f, S))
    PROVE  /\ IsFiniteSet(Dollars(g, T))
           /\ Cardinality(Dollars(g, T)) = Cardinality(Dollars(f, S)) + Cost(g[x])
<1> DEFINE block == {x} \X (1 .. Cost(g[x]))
<1>1. \A y \in S : Cost(g[y]) = Cost(f[y])
  BY DEF Cost
<1>2. Dollars(g, T) = Dollars(f, S) \cup block
  <2>1. ASSUME NEW e \in Dollars(g, T) PROVE e \in Dollars(f, S) \cup block
    <3>1. PICK y \in S \cup {x} : e \in {y} \X (1 .. Cost(g[y]))
      BY <2>1 DEF Dollars
    <3>2. CASE y = x
      BY <3>1, <3>2
    <3>3. CASE y \in S
      BY <3>1, <3>3, <1>1 DEF Dollars
    <3> QED BY <3>1, <3>2, <3>3
  <2>2. ASSUME NEW e \in Dollars(f, S) PROVE e \in Dollars(g, T)
    <3>1. PICK y \in S : e \in {y} \X (1 .. Cost(f[y]))
      BY <2>2 DEF Dollars
    <3> QED BY <3>1, <1>1 DEF Dollars
  <2>3. block \subseteq Dollars(g, T)
    BY DEF Dollars
  <2> QED BY <2>1, <2>2, <2>3
<1>3. Dollars(f, S) \cap block = {}
  BY DEF Dollars
<1>6. IsFiniteSet(block)
  BY BlockSize
<1>7. Cardinality(block) = Cost(g[x])
  BY BlockSize
<1>8. IsFiniteSet(Dollars(f, S) \cup block)
  BY <1>6, FS_Union
<1>9. /\ Cardinality(Dollars(f, S) \cup block)
           = Cardinality(Dollars(f, S)) + Cardinality(block) - Cardinality(Dollars(f, S) \cap block)
      /\ Cardinality(Dollars(f, S)) \in Nat
  BY <1>6, FS_Union, FS_CardinalityType
<1>10. Cardinality(Dollars(f, S) \cap block) = 0
  BY <1>3, FS_EmptySet
<1>11. Cardinality(Dollars(f, S) \cup block) = Cardinality(Dollars(f, S)) + Cost(g[x])
  <2> HIDE DEF block
  <2> QED BY <1>7, <1>9, <1>10
<1> QED BY <1>2, <1>8, <1>11

\* No plan costs nothing.
LEMMA NothingPlanned ==
    ASSUME NEW f
    PROVE  IsFiniteSet(Dollars(f, {})) /\ Cardinality(Dollars(f, {})) = 0
<1>1. Dollars(f, {}) = {}
  BY DEF Dollars
<1> QED BY <1>1, FS_EmptySet

\* A pending plan keeps the estimate and the unpriced names right (ensure's loop).
LEMMA PendPrices ==
    ASSUME NEW ps, NEW cost, NEW missing, NEW d \in Resources,
           Sound(ps), Priced(ps, cost, missing), Admissible(d), ps[d.name] = None
    PROVE  LET more == [ps EXCEPT ![d.name] = d] IN
           /\ Sound(more)
           /\ Planned(more) = Planned(ps) \cup {d.name}
           /\ Priced(more, cost + Cost(d),
                     IF IsUnpriced(d) THEN missing \cup {d.name} ELSE missing)
<1> DEFINE more == [ps EXCEPT ![d.name] = d]
<1>1. d.name \in Names /\ d # None
  BY ResourceFacts DEF Admissible
<1>2. ps \in [Names -> Resources \cup {None}]
  BY DEF Sound
<1>3. /\ more \in [Names -> Resources \cup {None}] /\ more[d.name] = d
      /\ \A n \in Names : n # d.name => more[n] = ps[n]
  BY <1>1, <1>2
<1> HIDE DEF more
<1>4. Sound(more)
  BY <1>1, <1>3 DEF Sound
<1>5. Planned(more) = Planned(ps) \cup {d.name} /\ d.name \notin Planned(ps)
  BY <1>1, <1>3 DEF Planned
<1>6. \A n \in Planned(ps) : more[n] = ps[n]
  BY <1>3, <1>5 DEF Planned
<1>7. IsFiniteSet(Dollars(ps, Planned(ps))) /\ cost = Cardinality(Dollars(ps, Planned(ps)))
  BY DEF Priced
<1>8. Cost(more[d.name]) \in Nat /\ Cost(more[d.name]) = Cost(d)
  BY <1>3, CostNat
<1>9. /\ IsFiniteSet(Dollars(more, Planned(ps) \cup {d.name}))
      /\ Cardinality(Dollars(more, Planned(ps) \cup {d.name})) = cost + Cost(d)
  <2>1. d.name \notin Planned(ps) /\ IsFiniteSet(Dollars(ps, Planned(ps)))
    BY <1>5, <1>7
  <2>2. /\ IsFiniteSet(Dollars(more, Planned(ps) \cup {d.name}))
        /\ Cardinality(Dollars(more, Planned(ps) \cup {d.name}))
             = Cardinality(Dollars(ps, Planned(ps))) + Cost(more[d.name])
    <3> HIDE DEF Dollars, Planned, Cost
    <3>1. PICK g, S, T, x :
            g = more /\ S = Planned(ps) /\ T = Planned(ps) \cup {d.name} /\ x = d.name
      OBVIOUS
    <3>2. x \notin S /\ T = S \cup {x}
      BY <2>1, <3>1
    <3>3. \A y \in S : g[y] = ps[y]
      BY <1>6, <3>1
    <3>4. IsFiniteSet(Dollars(ps, S)) /\ Cost(g[x]) \in Nat
      BY <1>8, <2>1, <3>1
    <3>5. /\ IsFiniteSet(Dollars(g, T))
          /\ Cardinality(Dollars(g, T)) = Cardinality(Dollars(ps, S)) + Cost(g[x])
      BY <3>2, <3>3, <3>4, OneMorePlan
    <3> QED BY <3>1, <3>5
  <2> QED BY <1>7, <1>8, <2>2
<1>10. (IF IsUnpriced(d) THEN missing \cup {d.name} ELSE missing)
         = {n \in Planned(ps) \cup {d.name} : IsUnpriced(more[n])}
  <2>1. missing = {n \in Planned(ps) : IsUnpriced(ps[n])}
    BY DEF Priced
  <2>2. \A n \in Planned(ps) : IsUnpriced(more[n]) <=> IsUnpriced(ps[n])
    BY <1>6
  <2>3. IsUnpriced(more[d.name]) <=> IsUnpriced(d)
    BY <1>3
  <2> QED BY <2>1, <2>2, <2>3
<1>11. Priced(more, cost + Cost(d), IF IsUnpriced(d) THEN missing \cup {d.name} ELSE missing)
  BY <1>5, <1>9, <1>10 DEF Priced
<1> QED BY <1>4, <1>5, <1>11 DEF more

------------------------------------------------------------------------------
(* Preflight: the steps                                                      *)

\* What is registered stays as it is while ensure runs.
LEMMA LedgerStays ==
    ASSUME Ledger, UNCHANGED <<gate, env, remaining, spent, accepted>>
    PROVE  Ledger'
<1>1. /\ gate' = gate /\ plans' = plans /\ usd' = usd /\ unpriced' = unpriced
      /\ remaining' = remaining /\ spent' = spent /\ accepted' = accepted
  BY DEF env
<1>2. Sound(plans)'
  BY <1>1 DEF Ledger, Sound, Admissible
<1>3. Priced(plans, usd, unpriced)'
  BY <1>1 DEF Ledger, Priced, Planned, Dollars
<1>4. Planned(plans)' = Planned(plans)
  BY <1>1 DEF Planned
<1> QED BY <1>1, <1>2, <1>3, <1>4 DEF Ledger

\* What lies behind the loop stays as it is when work spends a budget.
LEMMA CallStays ==
    ASSUME Walked, Listed, UNCHANGED <<gate, plans>>, UNCHANGED locals
    PROVE  Walked' /\ Listed'
<1>1. /\ gate' = gate /\ plans' = plans
      /\ request' = request /\ at' = at /\ prospectivePlans' = prospectivePlans
      /\ prospectiveUSD' = prospectiveUSD /\ prospectiveUnpriced' = prospectiveUnpriced
  BY DEF locals
<1>2. /\ Planned(plans)' = Planned(plans)
      /\ Planned(prospectivePlans)' = Planned(prospectivePlans)
      /\ Dollars(request, 1 .. at - 1)' = Dollars(request, 1 .. at - 1)
      /\ Distinct(request)' = Distinct(request)
  BY <1>1 DEF Planned, Dollars, Cost, Distinct
<1>3. Sound(prospectivePlans)' = Sound(prospectivePlans)
  BY <1>1 DEF Sound, Admissible
<1>4. Priced(prospectivePlans, prospectiveUSD, prospectiveUnpriced)'
        = Priced(prospectivePlans, prospectiveUSD, prospectiveUnpriced)
  BY <1>1 DEF Priced, Planned, Dollars
<1>5. Walked'
  BY <1>1, <1>2, <1>3, <1>4 DEF Walked
<1>6. Listed'
  BY <1>1, <1>2 DEF Listed
<1> QED BY <1>5, <1>6

\* ensure starts from what is registered.
LEMMA LockStep ==
    ASSUME Preflights, NEW list \in Requests, Lock(list)
    PROVE  Preflights'
<1>1. /\ request' = list /\ at' = 1 /\ gate' = gate /\ plans' = plans
      /\ prospectivePlans' = plans /\ prospectiveUSD' = usd /\ prospectiveUnpriced' = unpriced
  BY DEF Lock, env
<1>2. Ledger'
  BY LedgerStays DEF Lock, Preflights
<1>3. 1 .. at' - 1 = {}
  BY <1>1
<1>4. Walked'
  <2>1. request' \in Requests /\ at' \in 1 .. Len(request') + 1
    BY <1>1, RequestFacts
  <2>2. Sound(prospectivePlans)'
    BY <1>1 DEF Preflights, Ledger, Sound, Admissible
  <2>3. Priced(prospectivePlans, prospectiveUSD, prospectiveUnpriced)'
    BY <1>1 DEF Preflights, Ledger, Priced, Planned, Dollars
  <2>4. Planned(prospectivePlans)' = Planned(plans)' \cup {request'[i].name : i \in 1 .. at' - 1}
    BY <1>1, <1>3 DEF Planned
  <2> QED BY <1>1, <2>1, <2>2, <2>3, <2>4 DEF Walked
<1>5. Listed'
  <2>1. IsFiniteSet(Dollars(list, {})) /\ Cardinality(Dollars(list, {})) = 0
    BY NothingPlanned
  <2>2. Planned(plans) = {} => usd = 0
    BY NothingPlanned DEF Preflights, Ledger, Priced
  <2>3. Planned(plans)' = Planned(plans) /\ Dollars(request, 1 .. at - 1)' = Dollars(list, {})
    BY <1>1, <1>3 DEF Planned, Dollars, Cost
  <2> QED BY <1>1, <1>3, <2>1, <2>2, <2>3 DEF Listed
<1> QED BY <1>2, <1>4, <1>5 DEF Preflights

\* The positions behind the loop grow by the one it looked at.
LEMMA OneFurther ==
    ASSUME NEW list \in Requests, NEW k \in 1 .. Len(list)
    PROVE  /\ 1 .. (k + 1) - 1 = (1 .. k - 1) \cup {k} /\ k \notin 1 .. k - 1
           /\ {list[i].name : i \in 1 .. (k + 1) - 1}
                = {list[i].name : i \in 1 .. k - 1} \cup {list[k].name}
<1>1. 1 .. (k + 1) - 1 = (1 .. k - 1) \cup {k} /\ k \notin 1 .. k - 1
  BY RequestFacts
<1> QED BY <1>1

\* In a new runEnv only a name that the list repeats is known already.
LEMMA KnownIsRepeated ==
    ASSUME Walked, request # None, at \in 1 .. Len(request), Known(request[at]),
           Planned(plans) = {}
    PROVE  ~Distinct(request)
<1>1. /\ request \in Requests
      /\ Planned(prospectivePlans) = Planned(plans) \cup {request[i].name : i \in 1 .. at - 1}
  BY DEF Walked
<1>2. request[at] \in Resources
  BY <1>1, RequestFacts
<1>3. request[at].name \in Planned(prospectivePlans)
  BY <1>2, ResourceFacts DEF Known, Planned
<1>4. PICK i \in 1 .. at - 1 : request[i].name = request[at].name
  BY <1>1, <1>3
<1>5. i \in DOMAIN request /\ at \in DOMAIN request /\ i # at
  BY <1>1, RequestFacts
<1> QED BY <1>4, <1>5 DEF Distinct

\* A declaration that is known already changes nothing.
LEMMA ConsiderKnown ==
    ASSUME Preflights, Consider, Known(request[at])
    PROVE  Walked' /\ Listed'
<1>1. /\ request # None /\ at <= Len(request) /\ at' = at + 1 /\ request' = request
      /\ gate' = gate /\ plans' = plans
      /\ prospectivePlans' = prospectivePlans /\ prospectiveUSD' = prospectiveUSD
      /\ prospectiveUnpriced' = prospectiveUnpriced
  BY DEF Consider, Looking, env
<1>2. /\ request \in Requests /\ at \in 1 .. Len(request) + 1
      /\ Sound(prospectivePlans)
      /\ Priced(prospectivePlans, prospectiveUSD, prospectiveUnpriced)
      /\ \A n \in Names : plans[n] # None => prospectivePlans[n] = plans[n]
      /\ Planned(prospectivePlans) = Planned(plans) \cup {request[i].name : i \in 1 .. at - 1}
  BY <1>1 DEF Preflights, Walked
<1>3. at \in 1 .. Len(request) /\ request[at] \in Resources /\ Len(request) \in Nat
  BY <1>1, <1>2, RequestFacts
<1>4. request[at].name \in Planned(prospectivePlans)
  BY <1>3, ResourceFacts DEF Known, Planned
<1>5. {request[i].name : i \in 1 .. (at + 1) - 1}
        = {request[i].name : i \in 1 .. at - 1} \cup {request[at].name}
  BY <1>2, <1>3, OneFurther
<1>6. Walked'
  <2>1. request' \in Requests /\ at' \in 1 .. Len(request') + 1
    BY <1>1, <1>2, <1>3
  <2>2. Sound(prospectivePlans)'
    BY <1>1, <1>2 DEF Sound, Admissible
  <2>3. Priced(prospectivePlans, prospectiveUSD, prospectiveUnpriced)'
    BY <1>1, <1>2 DEF Priced, Planned, Dollars
  <2>4. Planned(prospectivePlans)' = Planned(plans)' \cup {request'[i].name : i \in 1 .. at' - 1}
    BY <1>1, <1>2, <1>4, <1>5 DEF Planned
  <2> QED BY <1>1, <1>2, <2>1, <2>2, <2>3, <2>4 DEF Walked
<1>7. Planned(plans) = {} => ~Distinct(request)
  BY <1>1, <1>3, KnownIsRepeated DEF Preflights
<1>8. Listed'
  <2>1. Distinct(request)' = Distinct(request) /\ Planned(plans)' = Planned(plans)
    BY <1>1 DEF Distinct, Planned
  <2> QED BY <1>7, <2>1 DEF Listed
<1> QED BY <1>6, <1>8

\* A new declaration becomes pending.
LEMMA ConsiderNew ==
    ASSUME Preflights, Consider, ~Known(request[at])
    PROVE  Walked' /\ Listed'
<1> DEFINE d == request[at]
<1> DEFINE more == [prospectivePlans EXCEPT ![d.name] = d]
<1>1. /\ request # None /\ at <= Len(request) /\ at' = at + 1 /\ request' = request
      /\ gate' = gate /\ plans' = plans /\ Admissible(d)
      /\ prospectivePlans' = more /\ prospectiveUSD' = prospectiveUSD + Cost(d)
      /\ prospectiveUnpriced' = IF IsUnpriced(d) THEN prospectiveUnpriced \cup {d.name}
                                                 ELSE prospectiveUnpriced
  BY DEF Consider, Looking, env, Fits, Pend
<1>2. /\ request \in Requests /\ at \in 1 .. Len(request) + 1
      /\ Sound(prospectivePlans)
      /\ Priced(prospectivePlans, prospectiveUSD, prospectiveUnpriced)
      /\ \A n \in Names : plans[n] # None => prospectivePlans[n] = plans[n]
      /\ Planned(prospectivePlans) = Planned(plans) \cup {request[i].name : i \in 1 .. at - 1}
  BY <1>1 DEF Preflights, Walked
<1>3. at \in 1 .. Len(request) /\ d \in Resources /\ Len(request) \in Nat
  BY <1>1, <1>2, RequestFacts
<1>4. d.name \in Names /\ prospectivePlans[d.name] = None /\ Cost(d) \in Nat
  BY <1>1, <1>3, ResourceFacts, CostNat DEF Known, Admissible
<1> HIDE DEF d
<1>5. /\ Sound(more)
      /\ Planned(more) = Planned(prospectivePlans) \cup {d.name}
      /\ Priced(more, prospectiveUSD', prospectiveUnpriced')
  <2>1. PICK ps, cost, missing : /\ ps = prospectivePlans /\ cost = prospectiveUSD
                                 /\ missing = prospectiveUnpriced
    OBVIOUS
  <2>2. Sound(ps) /\ Priced(ps, cost, missing) /\ ps[d.name] = None
    BY <1>2, <1>4, <2>1
  <2>3. /\ Sound([ps EXCEPT ![d.name] = d])
        /\ Planned([ps EXCEPT ![d.name] = d]) = Planned(ps) \cup {d.name}
        /\ Priced([ps EXCEPT ![d.name] = d], cost + Cost(d),
                  IF IsUnpriced(d) THEN missing \cup {d.name} ELSE missing)
    BY <1>1, <1>3, <2>2, PendPrices
  <2> QED BY <1>1, <2>1, <2>3
<1>6. more[d.name] = d /\ \A n \in Names : n # d.name => more[n] = prospectivePlans[n]
  BY <1>2, <1>4 DEF Sound
<1> HIDE DEF more
<1>7. /\ 1 .. (at + 1) - 1 = (1 .. at - 1) \cup {at} /\ at \notin 1 .. at - 1
      /\ {request[i].name : i \in 1 .. (at + 1) - 1}
           = {request[i].name : i \in 1 .. at - 1} \cup {d.name}
  BY <1>2, <1>3, OneFurther DEF d
<1>8. Walked'
  <2>1. request' \in Requests /\ at' \in 1 .. Len(request') + 1
    BY <1>1, <1>2, <1>3
  <2>2. Sound(prospectivePlans)'
    BY <1>1, <1>5 DEF Sound, Admissible
  <2>3. Priced(prospectivePlans, prospectiveUSD, prospectiveUnpriced)'
    BY <1>1, <1>5 DEF Priced, Planned, Dollars
  <2>4. \A n \in Names : plans'[n] # None => prospectivePlans'[n] = plans'[n]
    BY <1>1, <1>2, <1>4, <1>6
  <2>5. Planned(prospectivePlans)' = Planned(plans)' \cup {request'[i].name : i \in 1 .. at' - 1}
    <3>1. Planned(prospectivePlans)' = Planned(more) /\ Planned(plans)' = Planned(plans)
      BY <1>1 DEF Planned
    <3>2. {request'[i].name : i \in 1 .. at' - 1} = {request[i].name : i \in 1 .. (at + 1) - 1}
      BY <1>1
    <3>3. Planned(more) = Planned(plans) \cup {request[i].name : i \in 1 .. (at + 1) - 1}
      BY <1>2, <1>5, <1>7
    <3> QED BY <3>1, <3>2, <3>3
  <2> QED BY <2>1, <2>2, <2>3, <2>4, <2>5 DEF Walked
<1>9. Listed'
  <2>1. Distinct(request)' = Distinct(request) /\ Planned(plans)' = Planned(plans)
    BY <1>1 DEF Distinct, Planned
  <2>2. SUFFICES ASSUME Distinct(request), Planned(plans) = {}
                 PROVE  /\ \A i \in 1 .. at' - 1 : prospectivePlans'[request'[i].name] = request'[i]
                        /\ IsFiniteSet(Dollars(request, 1 .. at - 1))'
                        /\ prospectiveUSD' = Cardinality(Dollars(request, 1 .. at - 1))'
    BY <2>1 DEF Listed
  <2>3. /\ \A i \in 1 .. at - 1 : prospectivePlans[request[i].name] = request[i]
        /\ IsFiniteSet(Dollars(request, 1 .. at - 1))
        /\ prospectiveUSD = Cardinality(Dollars(request, 1 .. at - 1))
    BY <1>1, <2>2 DEF Preflights, Listed
  <2>4. ASSUME NEW i \in 1 .. at' - 1 PROVE prospectivePlans'[request'[i].name] = request'[i]
    <3>1. CASE i = at
      BY <1>1, <1>6, <3>1 DEF d
    <3>2. CASE i \in 1 .. at - 1
      <4>1. request[i].name \in Planned(prospectivePlans)
        BY <1>2, <3>2
      <4>2. request[i].name \in Names /\ request[i].name # d.name
        BY <1>4, <4>1 DEF Planned
      <4> QED BY <1>1, <1>6, <2>3, <3>2, <4>2
    <3> QED BY <1>1, <1>7, <2>4, <3>1, <3>2
  <2>5. /\ IsFiniteSet(Dollars(request, 1 .. at'- 1))
        /\ Cardinality(Dollars(request, 1 .. at' - 1)) = prospectiveUSD + Cost(d)
    <3>1. PICK f, S, T, x : /\ f = request /\ S = 1 .. at - 1 /\ T = 1 .. at' - 1 /\ x = at
      OBVIOUS
    <3>2. x \notin S /\ T = S \cup {x} /\ f[x] = d
      BY <1>1, <1>7, <3>1 DEF d
    <3>3. IsFiniteSet(Dollars(f, S)) /\ Cost(f[x]) \in Nat
      BY <1>4, <2>3, <3>1, <3>2
    <3>4. /\ IsFiniteSet(Dollars(f, T))
          /\ Cardinality(Dollars(f, T)) = Cardinality(Dollars(f, S)) + Cost(f[x])
      BY <3>2, <3>3, OneMorePlan
    <3> QED BY <2>3, <3>1, <3>2, <3>4
  <2>6. Dollars(request, 1 .. at - 1)' = Dollars(request, 1 .. at' - 1)
    BY <1>1 DEF Dollars, Cost
  <2> QED BY <1>1, <2>4, <2>5, <2>6
<1> QED BY <1>8, <1>9

\* Everything behind the loop is registered, and nothing else.
LEMMA RegisterStep ==
    ASSUME Preflights, Register
    PROVE  Preflights'
<1>1. /\ request # None /\ ~(at <= Len(request)) /\ GateOpens
      /\ plans' = prospectivePlans /\ usd' = prospectiveUSD /\ unpriced' = prospectiveUnpriced
      /\ remaining' = [n \in Names |-> IF plans[n] = None /\ prospectivePlans[n] # None
                                         THEN prospectivePlans[n].budget ELSE remaining[n]]
      /\ accepted' = accepted \cup NamedIn(request)
      /\ request' = None /\ gate' = gate /\ spent' = spent
  <2>1. request \in Requests /\ at \in 1 .. Len(request) + 1 /\ request # None
    BY DEF Preflights, Walked, Register, Grants
  <2>2. ~(at <= Len(request))
    BY <2>1, RequestFacts DEF Register, Grants
  <2> QED BY <2>1, <2>2 DEF Register, Grants, Unlock
<1>2. /\ request \in Requests /\ at \in 1 .. Len(request) + 1
      /\ Sound(prospectivePlans)
      /\ Priced(prospectivePlans, prospectiveUSD, prospectiveUnpriced)
      /\ \A n \in Names : plans[n] # None => prospectivePlans[n] = plans[n]
      /\ Planned(prospectivePlans) = Planned(plans) \cup {request[i].name : i \in 1 .. at - 1}
  BY <1>1 DEF Preflights, Walked
<1>3. /\ remaining \in [Names -> Int] /\ spent \in [Names -> Int]
      /\ Planned(plans) = accepted /\ gate \in Gates \cup {None}
      /\ \A n \in Names :
           IF plans[n] = None THEN spent[n] = 0
           ELSE remaining[n] >= 0 /\ remaining[n] + spent[n] = plans[n].budget
  BY DEF Preflights, Ledger
<1>4. {request[i].name : i \in 1 .. at - 1} = NamedIn(request)
  <2>1. 1 .. at - 1 = DOMAIN request
    BY <1>1, <1>2, RequestFacts
  <2> QED BY <2>1 DEF NamedIn
<1>5. Planned(plans)' = Planned(prospectivePlans)
  BY <1>1 DEF Planned
<1>6. Sound(plans)'
  BY <1>1, <1>2 DEF Sound, Admissible
<1>7. Priced(plans, usd, unpriced)'
  BY <1>1, <1>2 DEF Priced, Planned, Dollars
<1>8. \A n \in Names : prospectivePlans[n] # None =>
        prospectivePlans[n].budget \in Int /\ prospectivePlans[n].budget >= 0
  <2>1. ASSUME NEW n \in Names, prospectivePlans[n] # None
        PROVE  prospectivePlans[n].budget \in Int /\ prospectivePlans[n].budget >= 0
    <3>1. prospectivePlans[n] \in Resources /\ Admissible(prospectivePlans[n])
      BY <1>2, <2>1 DEF Sound
    <3> QED BY <3>1, ResourceFacts DEF Admissible
  <2> QED BY <2>1
<1>9. remaining' \in [Names -> Int]
  BY <1>1, <1>3, <1>8
<1>10. ASSUME NEW n \in Names
       PROVE  IF plans'[n] = None THEN spent'[n] = 0
              ELSE remaining'[n] >= 0 /\ remaining'[n] + spent'[n] = plans'[n].budget
  <2>1. CASE plans[n] # None
    <3>1. plans'[n] = plans[n] /\ remaining'[n] = remaining[n]
      BY <1>1, <1>2, <2>1
    <3> QED BY <1>1, <1>3, <2>1, <3>1
  <2>2. CASE plans[n] = None
    <3>1. spent'[n] = 0
      BY <1>1, <1>3, <2>2
    <3>2. plans'[n] # None => remaining'[n] = plans'[n].budget
      BY <1>1, <2>2
    <3>3. plans'[n] # None => plans'[n].budget \in Int /\ plans'[n].budget >= 0
      BY <1>1, <1>8
    <3> QED BY <3>1, <3>2, <3>3
  <2> QED BY <2>1, <2>2
<1>11. gate' # None => usd' <= gate'.maxUSD /\ (gate'.allowUnpriced \/ unpriced' = {})
  BY <1>1 DEF GateOpens
<1>12. Ledger'
  <2>1. Planned(plans)' = accepted'
    BY <1>1, <1>2, <1>3, <1>4, <1>5
  <2>2. gate' \in Gates \cup {None} /\ spent' \in [Names -> Int]
    BY <1>1, <1>3
  <2> QED BY <1>6, <1>7, <1>9, <1>10, <1>11, <2>1, <2>2 DEF Ledger
<1>13. Walked' /\ Listed'
  BY <1>1 DEF Walked, Listed
<1> QED BY <1>12, <1>13 DEF Preflights

\* Work moves a unit of a registered budget from what is left to what is spent; an
\* ensure under way does not notice.
LEMMA SpendStep ==
    ASSUME Preflights, NEW m \in Names, Spend(m)
    PROVE  Preflights'
<1>1. /\ plans[m] # None /\ remaining[m] > 0
      /\ remaining' = [remaining EXCEPT ![m] = @ - 1] /\ spent' = [spent EXCEPT ![m] = @ + 1]
      /\ gate' = gate /\ plans' = plans /\ usd' = usd /\ unpriced' = unpriced
      /\ accepted' = accepted
  BY DEF Spend, env
<1>2. /\ request' = request /\ at' = at /\ prospectivePlans' = prospectivePlans
      /\ prospectiveUSD' = prospectiveUSD /\ prospectiveUnpriced' = prospectiveUnpriced
  BY DEF Spend, locals
<1>3. /\ remaining \in [Names -> Int] /\ spent \in [Names -> Int]
      /\ \A n \in Names :
           IF plans[n] = None THEN spent[n] = 0
           ELSE remaining[n] >= 0 /\ remaining[n] + spent[n] = plans[n].budget
  BY DEF Preflights, Ledger
<1>4. remaining' \in [Names -> Int] /\ spent' \in [Names -> Int]
  BY <1>1, <1>3
<1>5. ASSUME NEW n \in Names
      PROVE  IF plans'[n] = None THEN spent'[n] = 0
             ELSE remaining'[n] >= 0 /\ remaining'[n] + spent'[n] = plans'[n].budget
  <2>1. CASE n = m
    <3>1. /\ remaining'[n] = remaining[n] - 1 /\ spent'[n] = spent[n] + 1
          /\ plans'[n] = plans[n] /\ remaining[n] > 0 /\ plans[n] # None
      BY <1>1, <1>3, <2>1
    <3>2. remaining[n] \in Int /\ spent[n] \in Int /\ remaining[n] + spent[n] = plans[n].budget
      BY <1>3, <3>1
    <3>3. remaining'[n] >= 0 /\ remaining'[n] + spent'[n] = remaining[n] + spent[n]
      BY <3>1, <3>2
    <3> QED BY <3>1, <3>2, <3>3
  <2>2. CASE n # m
    <3>1. remaining'[n] = remaining[n] /\ spent'[n] = spent[n] /\ plans'[n] = plans[n]
      BY <1>1, <1>3, <2>2
    <3> QED BY <1>3, <3>1
  <2> QED BY <2>1, <2>2
<1>6. Ledger'
  <2>1. Sound(plans)'
    BY <1>1 DEF Preflights, Ledger, Sound, Admissible
  <2>2. Priced(plans, usd, unpriced)'
    BY <1>1 DEF Preflights, Ledger, Priced, Planned, Dollars
  <2>3. Planned(plans)' = Planned(plans)
    BY <1>1 DEF Planned
  <2>4. /\ Planned(plans)' = accepted' /\ gate' \in Gates \cup {None}
        /\ gate' # None /\ Planned(plans)' # {} =>
             usd' <= gate'.maxUSD /\ (gate'.allowUnpriced \/ unpriced' = {})
    BY <1>1, <2>3 DEF Preflights, Ledger
  <2> QED BY <1>4, <1>5, <2>1, <2>2, <2>4 DEF Ledger
<1>7. Walked' /\ Listed'
  BY <1>1, <1>2, CallStays DEF Preflights, locals
<1> QED BY <1>6, <1>7 DEF Preflights

\* Preflights is inductive.
THEOREM PreflightInvariant == Spec => []Preflights
<1>1. Init => Preflights
  <2> SUFFICES ASSUME Init PROVE Preflights
    OBVIOUS
  <2>1. /\ gate \in Gates \cup {None} /\ plans = [n \in Names |-> None] /\ usd = 0 /\ unpriced = {}
        /\ accepted = {} /\ request = None
        /\ remaining = [n \in Names |-> 0] /\ spent = [n \in Names |-> 0]
    BY DEF Init, NoPlans
  <2>2. Planned(plans) = {}
    BY <2>1 DEF Planned
  <2>3. Sound(plans)
    BY <2>1 DEF Sound
  <2>4. Priced(plans, usd, unpriced)
    BY <2>1, <2>2, NothingPlanned DEF Priced
  <2>5. Ledger
    BY <2>1, <2>2, <2>3, <2>4 DEF Ledger
  <2>6. Walked /\ Listed
    BY <2>1 DEF Walked, Listed
  <2> QED BY <2>5, <2>6 DEF Preflights
<1>2. Preflights /\ [Next]_vars => Preflights'
  <2> SUFFICES ASSUME Preflights, [Next]_vars PROVE Preflights'
    OBVIOUS
  <2>1. ASSUME NEW list \in Requests, Lock(list) PROVE Preflights'
    BY <2>1, LockStep
  <2>2. CASE Consider
    <3>1. Ledger'
      BY <2>2, LedgerStays DEF Consider, Preflights
    <3>2. Walked' /\ Listed'
      BY <2>2, ConsiderKnown, ConsiderNew
    <3> QED BY <3>1, <3>2 DEF Preflights
  <2>3. CASE Refuse
    <3>1. Ledger'
      BY <2>3, LedgerStays DEF Refuse, Preflights
    <3>2. request' = None
      BY <2>3 DEF Refuse, Unlock
    <3> QED BY <3>1, <3>2 DEF Preflights, Walked, Listed
  <2>4. CASE Register
    BY <2>4, RegisterStep
  <2>5. ASSUME NEW n \in Names, Spend(n) PROVE Preflights'
    BY <2>5, SpendStep
  <2>6. CASE UNCHANGED vars
    <3>1. UNCHANGED <<gate, env, remaining, spent, accepted>> /\ UNCHANGED locals
      BY <2>6 DEF vars
    <3>2. Ledger'
      BY <3>1, LedgerStays DEF Preflights
    <3>3. Walked' /\ Listed'
      BY <3>1, CallStays DEF Preflights, env, locals
    <3> QED BY <3>2, <3>3 DEF Preflights
  <2> QED BY <2>1, <2>2, <2>3, <2>4, <2>5, <2>6 DEF Next
<1> QED BY <1>1, <1>2, PTL DEF Spec

\* The registered names are those of the accepted requests, at every moment of an
\* ensure (runEnv.ensure).
THEOREM RequestsAreAtomic == Spec => []AllOrNothing
<1>1. Preflights => AllOrNothing
  BY DEF Preflights, Ledger, AllOrNothing, Registered, Planned
<1> QED BY <1>1, PreflightInvariant, PTL

\* One budget per name, whatever is declared again or referred to while work spends
\* it (runEnv.ensure, Budget.Reserve).
THEOREM BudgetsAreNeverRefilled == Spec => []BudgetNeverRefilled
<1>1. Preflights => BudgetNeverRefilled
  BY DEF Preflights, Ledger, BudgetNeverRefilled, Registered
<1> QED BY <1>1, PreflightInvariant, PTL

\* All requests together stay within the gate, and the estimate is the cost of the
\* registered plans (runEnv.ensure).
THEOREM GateIsCumulative == Spec => []GateHolds
<1>1. Preflights => GateHolds
  <2> SUFFICES ASSUME Preflights PROVE GateHolds
    OBVIOUS
  <2>1. Registered = Planned(plans)
    BY DEF Registered, Planned
  <2>2. /\ usd = Cardinality(Dollars(plans, Registered))
        /\ unpriced = {n \in Registered : IsUnpriced(plans[n])}
    BY <2>1 DEF Preflights, Ledger, Priced
  <2>3. gate # None /\ Registered # {} =>
          usd <= gate.maxUSD /\ (gate.allowUnpriced \/ unpriced = {})
    BY <2>1 DEF Preflights, Ledger
  <2>4. gate # None /\ ~gate.allowPartial =>
          \A n \in Registered : plans[n].budget >= plans[n].ceiling
    BY DEF Preflights, Ledger, Sound, Admissible, Registered
  <2> QED BY <2>2, <2>3, <2>4 DEF GateHolds
<1> QED BY <1>1, PreflightInvariant, PTL

------------------------------------------------------------------------------
(* The two copies of the arithmetic                                          *)

\* ensure's checks of a new declaration under a gate are those of
\* ValidateResourcePlans.
LEMMA SameChecks ==
    ASSUME gate # None, NEW d
    PROVE  Admissible(d) <=> ValidPlan(d)
BY DEF Admissible, ValidPlan

\* When the loop has ended in a new runEnv, the plans are the declarations of the list.
LEMMA AllListed ==
    ASSUME Preflights, request # None, Distinct(request), Planned(plans) = {},
           ~(at <= Len(request))
    PROVE  /\ \A i \in DOMAIN request : /\ Admissible(request[i])
                                        /\ request[i].name \in Planned(prospectivePlans)
                                        /\ prospectivePlans[request[i].name] = request[i]
           /\ \A n \in Planned(prospectivePlans) :
                \E i \in DOMAIN request : prospectivePlans[n] = request[i]
           /\ IsFiniteSet(Dollars(request, DOMAIN request))
           /\ prospectiveUSD = Cardinality(Dollars(request, DOMAIN request))
<1>1. /\ request \in Requests /\ at \in 1 .. Len(request) + 1
      /\ Sound(prospectivePlans)
      /\ Planned(prospectivePlans) = Planned(plans) \cup {request[i].name : i \in 1 .. at - 1}
  BY DEF Preflights, Walked
<1>2. DOMAIN request = 1 .. at - 1
  BY <1>1, RequestFacts
<1>3. /\ \A i \in DOMAIN request : prospectivePlans[request[i].name] = request[i]
      /\ IsFiniteSet(Dollars(request, DOMAIN request))
      /\ prospectiveUSD = Cardinality(Dollars(request, DOMAIN request))
  BY <1>2 DEF Preflights, Listed
<1>4. ASSUME NEW i \in DOMAIN request
      PROVE  Admissible(request[i]) /\ request[i].name \in Planned(prospectivePlans)
  <2>1. request[i].name \in Planned(prospectivePlans)
    BY <1>1, <1>2
  <2>2. Admissible(prospectivePlans[request[i].name])
    BY <1>1, <2>1 DEF Sound, Planned
  <2> QED BY <1>3, <2>1, <2>2
<1>5. ASSUME NEW n \in Planned(prospectivePlans)
      PROVE  \E i \in DOMAIN request : prospectivePlans[n] = request[i]
  <2>1. PICK i \in DOMAIN request : n = request[i].name
    BY <1>1, <1>2
  <2> QED BY <1>3, <2>1
<1> QED BY <1>3, <1>4, <1>5

\* What ensure grants in a new runEnv, ValidateResourcePlans accepts.
LEMMA GrantedIsValid ==
    ASSUME Preflights, gate # None, request # None, Distinct(request), Planned(plans) = {}, Grants
    PROVE  Validated(request) /\ prospectiveUSD = Cardinality(Dollars(request, DOMAIN request))
<1>1. /\ gate \in Gates /\ request \in Requests /\ at \in 1 .. Len(request) + 1
      /\ prospectiveUnpriced = {n \in Planned(prospectivePlans) : IsUnpriced(prospectivePlans[n])}
  BY DEF Preflights, Ledger, Walked, Priced
<1>2. ~(at <= Len(request)) /\ gate.maxUSD \in Int
  <2>1. gate \in [maxUSD : Int, allowUnpriced : BOOLEAN, allowPartial : BOOLEAN]
    BY <1>1, PreflightAssumption
  <2>2. Len(request) \in Nat /\ at > Len(request)
    BY <1>1, RequestFacts DEF Grants
  <2> QED BY <1>1, <2>1, <2>2
<1>3. gate.maxUSD >= 0
  BY <1>2 DEF Grants, Malformed
<1>4. \A i \in DOMAIN request : ValidPlan(request[i])
  BY <1>2, AllListed, SameChecks
<1>5. gate.allowUnpriced \/ \A i \in DOMAIN request : ~IsUnpriced(request[i])
  <2>1. SUFFICES ASSUME ~gate.allowUnpriced, NEW i \in DOMAIN request, IsUnpriced(request[i])
                 PROVE  FALSE
    OBVIOUS
  <2>2. request[i].name \in prospectiveUnpriced
    BY <1>1, <1>2, <2>1, AllListed
  <2> QED BY <2>1, <2>2 DEF Grants, GateOpens
<1>6. prospectiveUSD = Cardinality(Dollars(request, DOMAIN request)) /\ prospectiveUSD <= gate.maxUSD
  BY <1>2, AllListed DEF Grants, GateOpens
<1> QED BY <1>3, <1>4, <1>5, <1>6 DEF Validated

\* What ensure refuses in a new runEnv, ValidateResourcePlans refuses.
LEMMA RefusedIsInvalid ==
    ASSUME Preflights, gate # None, request # None, Distinct(request), Planned(plans) = {}, Refuses
    PROVE  ~Validated(request)
<1>1. /\ gate \in Gates /\ request \in Requests /\ at \in 1 .. Len(request) + 1
      /\ prospectiveUnpriced = {n \in Planned(prospectivePlans) : IsUnpriced(prospectivePlans[n])}
  BY DEF Preflights, Ledger, Walked, Priced
<1>2. gate.maxUSD \in Int
  <2>1. gate \in [maxUSD : Int, allowUnpriced : BOOLEAN, allowPartial : BOOLEAN]
    BY <1>1, PreflightAssumption
  <2> QED BY <2>1
<1>3. CASE Malformed
  BY <1>2, <1>3 DEF Malformed, Validated
<1>4. CASE Looking /\ ~Fits(request[at])
  <2>1. at \in 1 .. Len(request) /\ at \in DOMAIN request
    BY <1>1, <1>4, RequestFacts DEF Looking
  <2>2. ~Known(request[at])
    BY <2>1, KnownIsRepeated DEF Preflights
  <2>3. ~Admissible(request[at])
    BY <1>4, <2>2 DEF Fits
  <2>4. ~ValidPlan(request[at])
    BY <2>3, SameChecks
  <2> QED BY <2>1, <2>4 DEF Validated
<1>5. CASE at > Len(request) /\ ~GateOpens
  <2>1. ~(at <= Len(request))
    BY <1>1, <1>5, RequestFacts
  <2>2. CASE prospectiveUnpriced # {} /\ ~gate.allowUnpriced
    <3>1. PICK n \in Planned(prospectivePlans) : IsUnpriced(prospectivePlans[n])
      BY <1>1, <2>2
    <3>2. PICK i \in DOMAIN request : prospectivePlans[n] = request[i]
      BY <2>1, <3>1, AllListed
    <3> QED BY <2>2, <3>1, <3>2 DEF Validated
  <2>3. CASE ~(prospectiveUSD <= gate.maxUSD)
    <3>1. prospectiveUSD = Cardinality(Dollars(request, DOMAIN request))
      BY <2>1, AllListed
    <3> QED BY <2>3, <3>1 DEF Validated
  <2> QED BY <1>5, <2>2, <2>3 DEF GateOpens
<1> QED BY <1>3, <1>4, <1>5 DEF Refuses

\* ensure in a new runEnv and ValidateResourcePlans decide alike about every list of
\* differently named plans, and estimate the same cost.
THEOREM TwoCopiesAgree == Spec => []AgreesWithValidate
<1>1. Preflights => AgreesWithValidate
  <2>1. Registered = Planned(plans)
    BY DEF Registered, Planned
  <2> QED BY <2>1, GrantedIsValid, RefusedIsInvalid DEF AgreesWithValidate
<1> QED BY <1>1, PreflightInvariant, PTL
==============================================================================
