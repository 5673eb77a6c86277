-------------------------- MODULE MCSWTPGPipeline --------------------------
(***************************************************************************)
(* SWTPGPipeline for TLC: the buffers are interchangeable, and the halves. *)
(***************************************************************************)
EXTENDS SWTPGPipeline, TLC

Symmetry == Permutations(Buffers) \cup Permutations(Halves)
============================================================================
