---------------------------- MODULE MCRunControl ----------------------------
(***************************************************************************)
(* What a Run does around its engines: the preflight of its plans, its     *)
(* life cycle before observers, and the delays of its retries.  The three  *)
(* share no state.  A behaviour is about one of them, chosen at the start  *)
(* as "part"; the variables of the others keep their initial values.       *)
(*                                                                         *)
(* Preflight: two names; for the first two different plans, a reference    *)
(* and an unpriced plan, for the second a plan that fits with one of the   *)
(* first but not with the other, one that exceeds its budget, and          *)
(* malformed ones.  Requests are all lists of at most two declarations;    *)
(* the gate may be absent, strict, permissive or malformed.                *)
(***************************************************************************)
EXTENDS Preflight, RunLifecycle, Backoff

CONSTANTS a, b

MCNames == {a, b}
Plan(name, ceiling, budget, price) ==
    [name |-> name, ceiling |-> ceiling, budget |-> budget, price |-> price]
MCResources ==
    {Plan(a, 2, 2, 1), Plan(a, 2, 3, 2), Plan(a, 0, 0, None), Plan(a, 1, 1, None),
     Plan(b, 1, 2, 3), Plan(b, 2, 1, 0), Plan(b, 0, 0, None), Plan(b, -1, 1, None),
     Plan(b, 1, 1, -1), Plan(b, 1, -1, None), Plan(Blank, 1, 1, 1)}
MCRequests ==
    {<<>>} \cup {<<c>> : c \in MCResources} \cup {<<c, d>> : c \in MCResources, d \in MCResources}
MCGates ==
    [maxUSD : {5}, allowUnpriced : BOOLEAN, allowPartial : BOOLEAN]
      \cup [maxUSD : {-1, 0}, allowUnpriced : {TRUE}, allowPartial : {FALSE}]
------------------------------------------------------------------------------

VARIABLE part  \* "preflight", "lifecycle" or "backoff"

allVars == <<part, vars, lifecycleVars, backoffVars>>

\* The parts that a behaviour is not about start in one state each.
ControlInit ==
    /\ part \in {"preflight", "lifecycle", "backoff"}
    /\ Init /\ (part = "preflight" \/ gate = None)
    /\ LifecycleInit /\ (part = "lifecycle" \/ mode = {})
    /\ BackoffInit /\ (part = "backoff" \/ (base = DefaultBase /\ cap = DefaultCap))

ControlNext ==
    \/ part = "preflight" /\ Next /\ UNCHANGED <<part, lifecycleVars, backoffVars>>
    \/ part = "lifecycle" /\ LifecycleNext /\ UNCHANGED <<part, vars, backoffVars>>
    \/ part = "backoff" /\ BackoffNext /\ UNCHANGED <<part, vars, lifecycleVars>>

\* LifecycleFairness, in the behaviours in which its actions are steps.
ControlFairness ==
    \A step \in {"run", "deliver", "quit"} :
        WF_lifecycleVars(/\ part = "lifecycle"
                         /\ \/ step = "run" /\ RunStep
                            \/ step = "deliver" /\ Deliver
                            \/ step = "quit" /\ Quit)

ControlSpec == ControlInit /\ [][ControlNext]_allVars /\ ControlFairness
==============================================================================
