------------------------------ MODULE MCPipeline ------------------------------
(***************************************************************************)
(* Small batches for TLC: sizes below, at and above the capacity of 2, an  *)
(* empty object, and one invalid (negative) advertised size.               *)
(***************************************************************************)
EXTENDS Pipeline, TLC

MixedSize == <<1, 3, 0>>       \* fits, oversized, empty
RefusedSize == <<2, -1, 1, 3>> \* fills the budget, refused, fits, oversized

ThreadSymmetry == Permutations(Downloaders) \cup Permutations(Processors)
=============================================================================
