--------------------------- MODULE AdmissionParams ---------------------------
(***************************************************************************)
(* The parameters of resource admission, shared by the abstract and the    *)
(* detailed specification: who asks, for which resources, for how much.    *)
(***************************************************************************)
EXTENDS Integers, Sequences, FiniteSets

CONSTANTS Workers,    \* goroutines that call admit on one runEnv
          Resources,  \* resource names registered by runEnv.ensure
          Names,      \* Names[w]: the resource names of w's step, in order
          Sizes,      \* Sizes[w]: the unit counts w's calls ask for: 1 for a
                      \* plain step, the size of each batch for a bulk step
          Limit,      \* Limit[r]: the total given to NewBudget for r
          MaxUnits,   \* bound on Sizes
          MaxCalls    \* bound on the work calls one worker attempts

\* NewBudget refuses a negative total; a work call asks for at least one unit.
ASSUME AdmissionAssumption ==
    /\ MaxUnits \in Nat
    /\ MaxCalls \in Nat
    /\ Names \in [Workers -> Seq(Resources)]
    /\ Sizes \in [Workers -> SUBSET (1 .. MaxUnits)]
    /\ Limit \in [Resources -> Nat]

\* validatePolicy refuses a step that names one resource twice.
ASSUME NamesDistinct ==
    \A w \in Workers : \A i, j \in 1 .. Len(Names[w]) :
        Names[w][i] = Names[w][j] => i = j

\* Work calls: <<w, n, u>> is the n-th call that w asks admission for, u units.
Calls == Workers \X (1 .. MaxCalls) \X (1 .. MaxUnits)

NamedBy(w) == {Names[w][i] : i \in 1 .. Len(Names[w])}

\* The units of r that the calls in S pay for, one element per unit.
Paid(S, r) ==
    {p \in Calls \X (1 .. MaxUnits) :
        /\ p[1] \in S
        /\ r \in NamedBy(p[1][1])
        /\ p[2] <= p[1][3]}
==============================================================================
