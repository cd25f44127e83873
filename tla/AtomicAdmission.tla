--------------------------- MODULE AtomicAdmission ---------------------------
(***************************************************************************)
(* What resource admission promises to the engine, with the limiters left  *)
(* out: a work call either pays for every resource it names in one         *)
(* indivisible step or does not start (src/flow/run.go, runEnv.admit:      *)
(* "admit reserves every named resource as one transaction").  Admission   *)
(* is the detailed specification that is shown to implement this one.      *)
(***************************************************************************)
EXTENDS AdmissionParams

VARIABLE started   \* the work calls whose Do has been invoked

Affordable(S) == \A r \in Resources : Cardinality(Paid(S, r)) <= Limit[r]

Init == started = {}

Start(call) ==
    /\ call \notin started
    /\ started' = started \cup {call}
    /\ Affordable(started \cup {call})

Next == \E call \in Calls : Start(call)

Spec == Init /\ [][Next]_started
==============================================================================
