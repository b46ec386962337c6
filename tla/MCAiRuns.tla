------------------------------ MODULE MCAiRuns ------------------------------
(* Model checking AiRuns: the instance is in the configuration.              *)
EXTENDS AiRuns, TLC

=============================================================================
