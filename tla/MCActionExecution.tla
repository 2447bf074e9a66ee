--------------------------- MODULE MCActionExecution ---------------------------
(* Instances of ActionExecution for TLC. *)
EXTENDS ActionExecution, TLC

\* Actions, repositories and workers are interchangeable; safety only.
Symmetry == Permutations(ActionNames) \cup Permutations(Urls) \cup Permutations(Executions)
=============================================================================
