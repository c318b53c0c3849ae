----------------------------- MODULE MCAuditChain -----------------------------
(***************************************************************************)
(* Small instances of AuditChain: four events, two retention requests and  *)
(* one verification over three units of time.                              *)
(***************************************************************************)
EXTENDS AuditChain, TLC

Symmetry == Permutations(Events) \cup Permutations(Retentions)
=============================================================================
