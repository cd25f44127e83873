------------------------------ MODULE Preflight ------------------------------
(***************************************************************************)
(* The runEnv that Runs share (Options.Share, Batched): its fail-closed    *)
(* preflight registers the resource plans of each Run or Declare under one *)
(* mutex and gives every resource name one budget, from which admitted     *)
(* work is paid (src/flow/run.go: ensure, Declare).  The same arithmetic   *)
(* exists a second time, for one list of plans, as ValidateResourcePlans   *)
(* (src/execution/resource_plan.go).                                       *)
(*                                                                         *)
(* ensure is one step per declaration that its loop looks at: the mutex    *)
(* keeps other declarations out, but not the work that spends a budget     *)
(* meanwhile.                                                              *)
(*                                                                         *)
(* A price is an integer, or None for a missing UnitUSD; a negative one    *)
(* stands for everything that is not finite and non-negative.  The owners  *)
(* map, which only words the refusals, is left out.                        *)
(***************************************************************************)
EXTENDS Integers, Sequences, FiniteSets

CONSTANTS Names,          \* resource names
          Blank,          \* a name of white space only
          Resources,      \* the declarations: [name, ceiling, budget, price]
          Requests,       \* the lists of declarations that Runs or Declares make
          Gates,          \* the Preflights: [maxUSD, allowUnpriced, allowPartial]
          None            \* no price, no plan, no Preflight, no request

ASSUME PreflightAssumption ==
    /\ Blank \notin Names
    /\ Resources \subseteq [name : Names \cup {Blank}, ceiling : Int, budget : Int,
                            price : Int \cup {None}]
    /\ Requests \subseteq Seq(Resources)
    /\ Gates \subseteq [maxUSD : Int, allowUnpriced : BOOLEAN, allowPartial : BOOLEAN]
    /\ None \notin Int /\ None \notin Resources /\ None \notin Gates /\ None \notin Requests

VARIABLES
    gate,       \* runEnv.gate: Options.Preflight, or None
    plans,      \* plans[n]: the registered plan of n, or None
    remaining,  \* remaining[n]: what is left of its Budget
    usd,        \* runEnv.estimatedUSD
    unpriced,   \* the names in runEnv.unpriced
    request,    \* the plans of the ensure that holds the mutex, or None
    at,         \* the declaration its loop has come to
    prospectivePlans, prospectiveUSD, prospectiveUnpriced,  \* its locals
    spent,      \* spent[n]: the units that admitted work has paid (history)
    accepted    \* the names in requests that were not refused (history)

env == <<plans, usd, unpriced>>
locals == <<request, at, prospectivePlans, prospectiveUSD, prospectiveUnpriced>>
vars == <<gate, env, remaining, locals, spent, accepted>>

------------------------------------------------------------------------------
(* The checks of ensure                                                      *)

NamedIn(list) == {list[i].name : i \in DOMAIN list}

Malformed == gate # None /\ gate.maxUSD < 0

IsReference(d) == d.ceiling = 0 /\ d.budget = 0 /\ d.price = None

IsUnpriced(d) == d.ceiling > 0 /\ d.price = None
Cost(d) == IF d.price = None THEN 0 ELSE d.ceiling * d.price

\* The checks of a declaration on its own.
Admissible(d) ==
    /\ d.name # Blank
    /\ d.ceiling >= 0 /\ d.budget >= 0
    /\ d.price # None => d.price >= 0
    /\ gate # None /\ ~gate.allowPartial => d.budget >= d.ceiling

\* A name that is known already must be referred to or declared identically; a
\* new one is checked.
Known(d) == d.name # Blank /\ prospectivePlans[d.name] # None
Fits(d) ==
    IF Known(d) THEN IsReference(d) \/ prospectivePlans[d.name] = d ELSE Admissible(d)

\* Mutation of GateOpens: only what the request adds is compared.
GateOpensForNew ==
    gate # None =>
        /\ prospectiveUnpriced \subseteq unpriced \/ gate.allowUnpriced
        /\ prospectiveUSD - usd <= gate.maxUSD

\* The gate's check of everything that would be registered.
GateOpens ==
    gate # None =>
        /\ prospectiveUnpriced = {} \/ gate.allowUnpriced
        /\ prospectiveUSD <= gate.maxUSD

\* Where the ensure that holds the mutex stands: it looks at a declaration, it has
\* looked at all and grants the request, or it refuses it.
Looking == request # None /\ ~Malformed /\ at <= Len(request)
Grants == request # None /\ ~Malformed /\ at > Len(request) /\ GateOpens
Refuses ==
    /\ request # None
    /\ \/ Malformed
       \/ Looking /\ ~Fits(request[at])
       \/ at > Len(request) /\ ~GateOpens

------------------------------------------------------------------------------
(* ensure, on behalf of a Run or a Declare                                   *)

NoPlans == [n \in Names |-> None]

\* It takes the mutex and starts from what is registered.
Lock(list) ==
    /\ request = None
    /\ request' = list /\ at' = 1
    /\ prospectivePlans' = plans
    /\ prospectiveUSD' = usd
    /\ prospectiveUnpriced' = unpriced
    /\ UNCHANGED <<gate, env, remaining, spent, accepted>>

\* The deferred Unlock; the locals are gone.
Unlock ==
    /\ request' = None /\ at' = 0
    /\ prospectivePlans' = NoPlans
    /\ prospectiveUSD' = 0
    /\ prospectiveUnpriced' = {}

\* Declaration d becomes pending.
Pend(d) ==
    /\ prospectivePlans' = [prospectivePlans EXCEPT ![d.name] = d]
    /\ prospectiveUSD' = prospectiveUSD + Cost(d)
    /\ prospectiveUnpriced' = IF IsUnpriced(d) THEN prospectiveUnpriced \cup {d.name}
                                              ELSE prospectiveUnpriced

\* Mutation of Consider: a plan is registered when it is looked at.
ConsiderAndRegister ==
    /\ Looking /\ Fits(request[at])
    /\ at' = at + 1
    /\ IF Known(request[at])
         THEN UNCHANGED <<env, prospectivePlans, prospectiveUSD, prospectiveUnpriced>>
         ELSE /\ Pend(request[at])
              /\ plans' = prospectivePlans'
              /\ UNCHANGED <<usd, unpriced>>
    /\ UNCHANGED <<gate, remaining, request, spent, accepted>>

\* One round of the loop.
Consider ==
    /\ Looking /\ Fits(request[at])
    /\ at' = at + 1
    /\ IF Known(request[at])
         THEN UNCHANGED <<prospectivePlans, prospectiveUSD, prospectiveUnpriced>>
         ELSE Pend(request[at])
    /\ UNCHANGED <<gate, env, remaining, request, spent, accepted>>

\* An early return with an error.
Refuse ==
    /\ Refuses
    /\ Unlock
    /\ UNCHANGED <<gate, env, remaining, spent, accepted>>

\* Mutation of Register: a name gets a new Budget each time it is declared.
RegisterAnew ==
    /\ Grants
    /\ plans' = prospectivePlans
    /\ usd' = prospectiveUSD
    /\ unpriced' = prospectiveUnpriced
    /\ remaining' = [n \in Names |->
                       IF n \in NamedIn(request)
                         THEN prospectivePlans[n].budget ELSE remaining[n]]
    /\ accepted' = accepted \cup NamedIn(request)
    /\ Unlock
    /\ UNCHANGED <<gate, spent>>

\* The pending plans are registered, each with a new Budget.
Register ==
    /\ Grants
    /\ plans' = prospectivePlans
    /\ usd' = prospectiveUSD
    /\ unpriced' = prospectiveUnpriced
    /\ remaining' = [n \in Names |->
                       IF plans[n] = None /\ prospectivePlans[n] # None
                         THEN prospectivePlans[n].budget ELSE remaining[n]]
    /\ accepted' = accepted \cup NamedIn(request)
    /\ Unlock
    /\ UNCHANGED <<gate, spent>>

\* A work call of any Run on this runEnv pays a unit of n (module Admission).
Spend(n) ==
    /\ plans[n] # None
    /\ remaining[n] > 0
    /\ remaining' = [remaining EXCEPT ![n] = @ - 1]
    /\ spent' = [spent EXCEPT ![n] = @ + 1]
    /\ UNCHANGED <<gate, env, locals, accepted>>

Init ==
    /\ gate \in Gates \cup {None}
    /\ plans = NoPlans
    /\ remaining = [n \in Names |-> 0]
    /\ usd = 0
    /\ unpriced = {}
    /\ request = None /\ at = 0
    /\ prospectivePlans = NoPlans
    /\ prospectiveUSD = 0
    /\ prospectiveUnpriced = {}
    /\ spent = [n \in Names |-> 0]
    /\ accepted = {}

Next ==
    \/ \E list \in Requests : Lock(list)
    \/ Consider \/ Refuse \/ Register
    \/ \E n \in Names : Spend(n)

Spec == Init /\ [][Next]_vars
------------------------------------------------------------------------------
(* ValidateResourcePlans                                                     *)

\* What the plans f[i] cost together, for i in S: one element for each dollar.
Dollars(f, S) == UNION {{i} \X (1 .. Cost(f[i])) : i \in S}

Distinct(list) == \A i, j \in DOMAIN list : list[i].name = list[j].name => i = j

\* The checks of a plan in ValidateResourcePlans.
ValidPlan(d) ==
    /\ d.name # Blank
    /\ d.ceiling >= 0 /\ d.budget >= 0
    /\ gate.allowPartial \/ d.budget >= d.ceiling
    /\ d.price # None => d.price >= 0

\* Mutation of Validated: a cost equal to the maximum is refused.
ValidatedBelow(list) ==
    /\ gate.maxUSD >= 0
    /\ Distinct(list)
    /\ \A i \in DOMAIN list : ValidPlan(list[i])
    /\ gate.allowUnpriced \/ \A i \in DOMAIN list : ~IsUnpriced(list[i])
    /\ Cardinality(Dollars(list, DOMAIN list)) < gate.maxUSD

\* Whether ValidateResourcePlans accepts a list of plans.
Validated(list) ==
    /\ gate.maxUSD >= 0
    /\ Distinct(list)
    /\ \A i \in DOMAIN list : ValidPlan(list[i])
    /\ gate.allowUnpriced \/ \A i \in DOMAIN list : ~IsUnpriced(list[i])
    /\ Cardinality(Dollars(list, DOMAIN list)) <= gate.maxUSD

------------------------------------------------------------------------------
(* Properties                                                                *)

Registered == {n \in Names : plans[n] # None}

\* A refused request leaves no trace and an accepted one is registered whole:
\* the registered names are those of the accepted requests (ensure commits its
\* pending plans after the last check).
AllOrNothing == Registered = accepted

\* Declaring a name again, or referring to it, never refills its budget and never
\* changes the plan under which work was admitted: Runs that share a name draw
\* from one allowance ("creating one budget per resource name. A resource
\* declared by two steps must be declared identically", src/flow/run.go:159).
BudgetNeverRefilled ==
    \A n \in Registered : /\ remaining[n] >= 0
                          /\ remaining[n] + spent[n] = plans[n].budget

\* What several requests register together stays within the gate, although each
\* is checked on its own ("refusals happen here, before item one"); the estimate
\* prices every registered plan once, however often it was declared.
GateHolds ==
    /\ usd = Cardinality(Dollars(plans, Registered))
    /\ unpriced = {n \in Registered : IsUnpriced(plans[n])}
    /\ gate # None /\ Registered # {} =>
        /\ usd <= gate.maxUSD
        /\ gate.allowUnpriced \/ unpriced = {}
        /\ gate.allowPartial \/ \A n \in Registered : plans[n].budget >= plans[n].ceiling

\* A new runEnv grants exactly the lists of differently named plans that
\* ValidateResourcePlans accepts, with the same estimate: "keep the two paths
\* behaviorally in sync" (docs/guides/01-flowkit-intern-onboarding-and-
\* implementation-guide.md:380).
AgreesWithValidate ==
    gate # None /\ Registered = {} /\ request # None /\ Distinct(request) =>
        /\ Grants => /\ Validated(request)
                     /\ prospectiveUSD = Cardinality(Dollars(request, DOMAIN request))
        /\ Refuses => ~Validated(request)
==============================================================================
