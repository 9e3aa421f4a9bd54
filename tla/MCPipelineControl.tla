------------------------- MODULE MCPipelineControl -------------------------
(* PipelineControl with interchangeable runs and calls.                     *)
EXTENDS ControlProofs, TLC

Symmetry == Permutations(Runs) \cup Permutations(Calls)
=============================================================================
