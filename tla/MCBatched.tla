------------------------------ MODULE MCBatched ------------------------------
(***************************************************************************)
(* Three items, of which a stage may see fewer: groups in and out of       *)
(* order, an uncovered item, an index in two groups.  A grouping for three *)
(* items is out of range when one is flagged before.                       *)
(***************************************************************************)
EXTENDS Batched

MCGroupings == {<<<<2>>, <<3, 1>>>>, <<<<2, 1>>>>, <<<<1>>, <<2, 1>>>>}
==============================================================================
