---------------------------- MODULE MCMapEngines ----------------------------
(***************************************************************************)
(* Items with keys k1 k2 k1 k3 k4 k5: five unique misses make three        *)
(* batches of at most two, the last one short, for two workers, and one    *)
(* key stands for two items.                                               *)
(***************************************************************************)
EXTENDS MapEngines

CONSTANTS k1, k2, k3, k4, k5

MCKeys == {k1, k2, k3, k4, k5}
MCKeyOf == <<k1, k2, k1, k3, k4, k5>>
==============================================================================
