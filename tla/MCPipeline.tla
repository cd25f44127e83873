----------------------------- MODULE MCPipeline -----------------------------
(***************************************************************************)
(* Two-stage pipelines whose second stage streams, is a Barrier, or is an  *)
(* override (Bulk or Batched).  Two items and two workers in a stage make  *)
(* completion orders differ; channels of capacity one fill up.             *)
(***************************************************************************)
EXTENDS Pipeline

EveryKind == {<<"stream", k>> : k \in {"stream", "barrier", "override"}}
WithBarrier == {<<"stream", "barrier">>}
MCPool == <<2, 2>>
=============================================================================
