---------------------------- MODULE GraphAllocMC ----------------------------
(* Every graph of a few tensors of two sizes. *)
EXTENDS GraphAlloc
=============================================================================
