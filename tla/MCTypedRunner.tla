---------------------------- MODULE MCTypedRunner ----------------------------
(***************************************************************************)
(* Either a cached step that quarantines, with three items of which two    *)
(* have the same key, or an uncached step that skips, with two items.      *)
(***************************************************************************)
EXTENDS TypedRunner

CONSTANTS a, b, k1, k2

MCRunners == {a, b}
MCCached == {a}
MCItems == 1 .. 5
MCInputs == {1 .. 3, 4 .. 5}
MCRunnerOf == [i \in Items |-> IF i < 4 THEN a ELSE b]
MCKeys == {k1, k2}
MCKeyOf == [i \in Items |-> IF i < 3 THEN k1 ELSE k2]
MCOnError == [r \in Runners |-> IF r = a THEN "Quarantine" ELSE "Skip"]
==============================================================================
