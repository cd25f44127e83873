------------------------------ MODULE Admission ------------------------------
(***************************************************************************)
(* Resource admission as flowkit runs it: concurrent workers reserve the   *)
(* resources of one work call from a shared runEnv.  Each resource has a   *)
(* limiter chain, a finite Budget followed, for the rated resources, by a  *)
(* TokenBucket.  A refusal anywhere rolls back everything reserved so far, *)
(* latest first; only a call that got everything commits and starts work.  *)
(*                                                                         *)
(* Sources: src/flow/run.go (runEnv.admit), src/execution/budget.go,       *)
(* rate.go, chain.go and reservation.go.                                   *)
(*                                                                         *)
(* A worker's step is one lock or channel operation.  Budget.Reserve's     *)
(* context check is merged with its critical section, and the successive   *)
(* closed.Load() checks of TokenBucket.Reserve with each other: nothing    *)
(* another goroutine can observe happens between them.                     *)
(*                                                                         *)
(* Two branches of admit and limiterChain.Reserve are left out.  A name    *)
(* without a limiter is refused like an exhausted budget; ensure registers *)
(* a limiter for every name.  A limiter that is not a ReservableLimiter is *)
(* only waited for, so a later refusal could not return what it took; the  *)
(* limiters of this repository (Budget, TokenBucket, Chain) are all        *)
(* reservable.                                                             *)
(***************************************************************************)
EXTENDS AdmissionParams

CONSTANTS Rated,      \* the resources that also have a token bucket
          Burst,      \* Burst[r]: the bucket's capacity
          MaxMinted   \* bound on the tokens one replenisher adds

ASSUME RateAssumption ==
    /\ Rated \subseteq Resources
    /\ Burst \in [Rated -> Nat \ {0}]
    /\ MaxMinted \in Nat

VARIABLES
    remaining,  \* remaining[r]: Budget.remaining
    tokens,     \* tokens[r]: length of TokenBucket.tokens
    phase,      \* phase[r]: how far TokenBucket.Close has come
    minted,     \* minted[r]: tokens the replenisher has added
    canceled,   \* the workers whose context is done
    pc,         \* pc[w]: where w stands in admit
    pos,        \* pos[w]: the name of Names[w] that admit is working on
    acquired,   \* acquired[w]: tokens taken from (or still to refund to) its bucket
    calls,      \* calls[w]: number of w's current work call
    units,      \* units[w]: the units that call asks for
    started     \* the work calls whose Do has been invoked

vars == <<remaining, tokens, phase, minted, canceled, pc, pos, acquired, calls, units, started>>

bucketVars == <<tokens, phase, minted>>

\* "budget": about to reserve the budget of Names[w][pos]; "check": testing
\* the closed flag of its bucket; "select": waiting for a token; "refund" and
\* "unbudget": undoing the bucket and the budget of Names[w][pos]; "commit":
\* everything reserved; "work": Do is running; "failed": admission refused,
\* which is fatal to the run.
PC == {"idle", "budget", "check", "select", "refund", "unbudget", "commit",
       "work", "failed"}

Current(w) == Names[w][pos[w]]

Call(w) == <<w, calls[w], units[w]>>

Goto(w, label) == pc' = [pc EXCEPT ![w] = label]

------------------------------------------------------------------------------
(* Where a worker goes when one limiter has granted or has been undone.      *)

\* Mutation of Advance: admit's loop stops one name early.
AdvanceOneShort(w) ==
    /\ pos' = [pos EXCEPT ![w] = @ + 1]
    /\ Goto(w, IF pos[w] >= Len(Names[w]) - 1 THEN "commit" ELSE "budget")

\* The limiter chain of the current name granted: admit's loop goes on.
Advance(w) ==
    /\ pos' = [pos EXCEPT ![w] = @ + 1]
    /\ Goto(w, IF pos[w] = Len(Names[w]) THEN "commit" ELSE "budget")

\* Nothing is reserved for the current name any more: admit's rollback goes
\* on with the previous name, its bucket before its budget.
Retreat(w) ==
    LET previous == pos[w] - 1
        rated == previous > 0 /\ Names[w][previous] \in Rated
    IN  /\ pos' = [pos EXCEPT ![w] = previous]
        /\ acquired' = [acquired EXCEPT ![w] = IF rated THEN units[w] ELSE 0]
        /\ Goto(w, IF previous = 0 THEN "failed"
                    ELSE IF rated THEN "refund" ELSE "unbudget")

------------------------------------------------------------------------------
(* Budget                                                                    *)

\* Mutation of BudgetReserve: it only asks whether the budget is used up, not
\* whether it has all the units.
BudgetReserveOverdraws(w) ==
    /\ pc[w] = "budget"
    /\ w \notin canceled
    /\ remaining[Current(w)] > 0
    /\ remaining' = [remaining EXCEPT ![Current(w)] = @ - units[w]]
    /\ IF Current(w) \in Rated
         THEN Goto(w, "check") /\ UNCHANGED pos
         ELSE Advance(w)
    /\ UNCHANGED <<bucketVars, canceled, acquired, calls, units, started>>

\* Budget.Reserve on the first limiter of the chain: all units or none.
BudgetReserve(w) ==
    /\ pc[w] = "budget"
    /\ w \notin canceled
    /\ units[w] <= remaining[Current(w)]
    /\ remaining' = [remaining EXCEPT ![Current(w)] = @ - units[w]]
    /\ IF Current(w) \in Rated
         THEN Goto(w, "check") /\ UNCHANGED pos
         ELSE Advance(w)
    /\ UNCHANGED <<bucketVars, canceled, acquired, calls, units, started>>

\* Budget.Reserve refuses: done context or ErrBudgetExceeded.
BudgetRefuse(w) ==
    /\ pc[w] = "budget"
    /\ w \in canceled \/ units[w] > remaining[Current(w)]
    /\ Retreat(w)
    /\ UNCHANGED <<remaining, bucketVars, canceled, calls, units, started>>

\* Rollback of the current name's budget reservation.
BudgetRollback(w) ==
    /\ pc[w] = "unbudget"
    /\ remaining' = [remaining EXCEPT ![Current(w)] = @ + units[w]]
    /\ Retreat(w)
    /\ UNCHANGED <<bucketVars, canceled, calls, units, started>>

------------------------------------------------------------------------------
(* TokenBucket                                                               *)

\* TokenBucket.Reserve between two channel operations: refuse a request the
\* bucket can never hold or a closed bucket, grant a complete one, else wait.
BucketCheck(w) ==
    /\ pc[w] = "check"
    /\ IF units[w] > Burst[Current(w)] \/ phase[Current(w)] # "open"
         THEN Goto(w, "refund") /\ UNCHANGED <<pos, acquired>>
         ELSE IF acquired[w] = units[w]
                THEN Advance(w) /\ acquired' = [acquired EXCEPT ![w] = 0]
                ELSE Goto(w, "select") /\ UNCHANGED <<pos, acquired>>
    /\ UNCHANGED <<remaining, bucketVars, canceled, calls, units, started>>

\* The select of TokenBucket.Reserve receives a token.
TakeToken(w) ==
    /\ pc[w] = "select"
    /\ tokens[Current(w)] > 0
    /\ tokens' = [tokens EXCEPT ![Current(w)] = @ - 1]
    /\ acquired' = [acquired EXCEPT ![w] = @ + 1]
    /\ Goto(w, "check")
    /\ UNCHANGED <<remaining, phase, minted, canceled, pos, calls, units, started>>

\* Mutation of SelectRefuse: the waiter does not watch the bucket's done channel.
SelectRefuseIgnoresClose(w) ==
    /\ pc[w] = "select"
    /\ w \in canceled
    /\ Goto(w, "refund")
    /\ UNCHANGED <<remaining, bucketVars, canceled, pos, acquired, calls, units, started>>

\* Mutation of SelectRefuse: refund(units) instead of refund(acquired).
SelectRefuseRefundsAll(w) ==
    /\ pc[w] = "select"
    /\ w \in canceled \/ phase[Current(w)] \in {"done", "closed"}
    /\ acquired' = [acquired EXCEPT ![w] = units[w]]
    /\ Goto(w, "refund")
    /\ UNCHANGED <<remaining, bucketVars, canceled, pos, calls, units, started>>

\* The select of TokenBucket.Reserve sees its context or the bucket done.
SelectRefuse(w) ==
    /\ pc[w] = "select"
    /\ w \in canceled \/ phase[Current(w)] \in {"done", "closed"}
    /\ Goto(w, "refund")
    /\ UNCHANGED <<remaining, bucketVars, canceled, pos, acquired, calls, units, started>>

\* TokenBucket.refund returns one token; a full bucket drops all the rest.
Refund(w) ==
    /\ pc[w] = "refund"
    /\ acquired[w] > 0
    /\ IF tokens[Current(w)] < Burst[Current(w)]
         THEN /\ tokens' = [tokens EXCEPT ![Current(w)] = @ + 1]
              /\ acquired' = [acquired EXCEPT ![w] = @ - 1]
         ELSE /\ acquired' = [acquired EXCEPT ![w] = 0]
              /\ UNCHANGED tokens
    /\ UNCHANGED <<remaining, phase, minted, canceled, pc, pos, calls, units, started>>

\* Mutation of RefundDone: the chain forgets the budget before the bucket.
RefundDoneLeaksBudget(w) ==
    /\ pc[w] = "refund"
    /\ acquired[w] = 0
    /\ Retreat(w)
    /\ UNCHANGED <<remaining, bucketVars, canceled, calls, units, started>>

\* The bucket is undone; the chain's rollback goes on to the budget before it.
RefundDone(w) ==
    /\ pc[w] = "refund"
    /\ acquired[w] = 0
    /\ Goto(w, "unbudget")
    /\ UNCHANGED <<remaining, bucketVars, canceled, pos, acquired, calls, units, started>>

\* The replenisher's tick adds a token to a bucket that has room.
Replenish(r) ==
    /\ phase[r] # "closed"
    /\ tokens[r] < Burst[r]
    /\ minted[r] < MaxMinted
    /\ tokens' = [tokens EXCEPT ![r] = @ + 1]
    /\ minted' = [minted EXCEPT ![r] = @ + 1]
    /\ UNCHANGED <<remaining, phase, canceled, pc, pos, acquired, calls, units, started>>

\* Close, one step each: store the closed flag, close the done channel, and
\* join the replenisher once its select has seen that channel.
Close(r) ==
    /\ phase[r] # "closed"
    /\ phase' = [phase EXCEPT ![r] = IF @ = "open" THEN "flagged"
                                    ELSE IF @ = "flagged" THEN "done" ELSE "closed"]
    /\ UNCHANGED <<remaining, tokens, minted, canceled, pc, pos, acquired, calls, units, started>>

------------------------------------------------------------------------------
(* admit and its caller                                                      *)

\* work or runBulk asks admission for its next call (an item or a retry).
Admit(w) ==
    /\ pc[w] = "idle"
    /\ calls[w] < MaxCalls
    /\ calls' = [calls EXCEPT ![w] = @ + 1]
    /\ \E u \in Sizes[w] : units' = [units EXCEPT ![w] = u]
    /\ pos' = [pos EXCEPT ![w] = 1]
    /\ Goto(w, IF Names[w] = <<>> THEN "commit" ELSE "budget")
    /\ UNCHANGED <<remaining, bucketVars, canceled, acquired, started>>

\* admit commits every reservation and returns; the caller invokes Do.
Commit(w) ==
    /\ pc[w] = "commit"
    /\ started' = started \cup {Call(w)}
    /\ pos' = [pos EXCEPT ![w] = 0]
    /\ Goto(w, "work")
    /\ UNCHANGED <<remaining, bucketVars, canceled, acquired, calls, units>>

\* Do returns; what it paid stays paid, whatever its outcome.
WorkReturns(w) ==
    /\ pc[w] = "work"
    /\ Goto(w, "idle")
    /\ UNCHANGED <<remaining, bucketVars, canceled, pos, acquired, calls, units, started>>

\* The worker's group context is canceled (a sibling's error or the caller).
Cancel(w) ==
    /\ w \notin canceled
    /\ canceled' = canceled \cup {w}
    /\ UNCHANGED <<remaining, bucketVars, pc, pos, acquired, calls, units, started>>

------------------------------------------------------------------------------

Init ==
    /\ remaining = Limit
    /\ tokens = Burst
    /\ phase = [r \in Rated |-> "open"]
    /\ minted = [r \in Rated |-> 0]
    /\ canceled = {}
    /\ pc = [w \in Workers |-> "idle"]
    /\ pos = [w \in Workers |-> 0]
    /\ acquired = [w \in Workers |-> 0]
    /\ calls = [w \in Workers |-> 0]
    /\ units = [w \in Workers |-> 0]
    /\ started = {}

\* The steps of w's goroutine inside admit.
AdmitStep(w) ==
    \/ BudgetReserve(w) \/ BudgetRefuse(w) \/ BudgetRollback(w)
    \/ BucketCheck(w) \/ TakeToken(w) \/ SelectRefuse(w)
    \/ Refund(w) \/ RefundDone(w) \/ Commit(w)

Next ==
    \/ \E w \in Workers : AdmitStep(w) \/ Admit(w) \/ WorkReturns(w) \/ Cancel(w)
    \/ \E r \in Rated : Replenish(r) \/ Close(r)

\* A goroutine inside admit keeps running and an open bucket's ticker keeps
\* ticking; nobody has to cancel, to close, or to ask for another call.
Fairness ==
    /\ \A w \in Workers : WF_vars(AdmitStep(w))
    /\ \A r \in Rated : WF_vars(Replenish(r))

Spec == Init /\ [][Next]_vars

FairSpec == Spec /\ Fairness

------------------------------------------------------------------------------
(* Properties                                                                *)

\* Every variable keeps its type; in particular a budget is never negative and
\* a bucket never holds more than its capacity.
TypeOK ==
    /\ remaining \in [Resources -> Nat]
    /\ tokens \in [Rated -> Nat]
    /\ \A r \in Rated : tokens[r] <= Burst[r]
    /\ phase \in [Rated -> {"open", "flagged", "done", "closed"}]
    /\ minted \in [Rated -> 0 .. MaxMinted]
    /\ canceled \subseteq Workers
    /\ pc \in [Workers -> PC]
    /\ pos \in [Workers -> Nat]
    /\ acquired \in [Workers -> 0 .. MaxUnits]
    /\ calls \in [Workers -> 0 .. MaxCalls]
    /\ units \in [Workers -> 0 .. MaxUnits]
    /\ started \subseteq Calls

\* The names of w whose budget its unfinished call has reserved: the ones
\* before pos, and pos itself while its chain is being acquired or undone.
HeldNames(w) ==
    {Names[w][i] : i \in {j \in 1 .. Len(Names[w]) :
        \/ j < pos[w]
        \/ j = pos[w] /\ pc[w] \in {"check", "select", "refund", "unbudget"}}}

\* The units of r charged at this moment: by calls that started and by the
\* reservations of calls that are still being admitted.
Charged(r) ==
    {p \in Calls \X (1 .. MaxUnits) :
        /\ p[2] <= p[1][3]
        /\ \/ p[1] \in started /\ r \in NamedBy(p[1][1])
           \/ p[1] = Call(p[1][1]) /\ r \in HeldNames(p[1][1])}

\* A budget is exactly its limit less the units of started work calls and of
\* reservations in progress: a refused call, however far it had come, has given
\* everything back, and a retry pays again (Budget.Reserve and its rollback,
\* driven by runEnv.admit's transaction).
BudgetConserved ==
    \A r \in Resources : remaining[r] + Cardinality(Charged(r)) = Limit[r]

\* Work is never started beyond a budget: for each resource, the units of all
\* started calls together stay within the limit, whatever the interleaving.
WorkWithinBudget ==
    \A r \in Resources : Cardinality(Paid(started, r)) <= Limit[r]

\* Tokens of r that w's unfinished call has taken out of the bucket.
HeldTokens(w, r) ==
    IF pos[w] \in 1 .. Len(Names[w]) /\ Current(w) = r
      THEN acquired[w]
      ELSE IF r \in HeldNames(w) THEN units[w] ELSE 0

\* The tokens of r drawn by started calls and by calls being admitted.
Drawn(r) ==
    {p \in Calls \X (1 .. MaxUnits) :
        \/ p[1] \in started /\ r \in NamedBy(p[1][1]) /\ p[2] <= p[1][3]
        \/ p[1] = Call(p[1][1]) /\ p[2] <= HeldTokens(p[1][1], r)}

\* A token bucket never lets through more than its burst and what was minted
\* since: refunds of refused, canceled or closed-out reservations cannot
\* multiply tokens (TokenBucket.Reserve and refund).
RateNeverExceeded ==
    \A r \in Rated : tokens[r] + Cardinality(Drawn(r)) <= Burst[r] + minted[r]

\* Admission implements the indivisible one (runEnv.admit "reserves every named
\* resource as one transaction").
Atomic == INSTANCE AtomicAdmission
ImplementsAtomic == Atomic!Spec

\* A call that asks for admission is admitted or refused.  Workers that name
\* two buckets in opposite orders hold tokens of one while they wait for the
\* other, and nobody gives way; still none is blocked for good, because the
\* replenisher of a live bucket, a done context or a closed bucket lets the
\* select of TokenBucket.Reserve go on.
AdmissionEnds ==
    \A w \in Workers : pc[w] = "budget" ~> pc[w] \in {"work", "failed"}
==============================================================================
