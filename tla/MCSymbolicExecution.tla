-------------------------- MODULE MCSymbolicExecution --------------------------
(* Instances of SymbolicExecution for TLC. *)
EXTENDS SymbolicExecution

CalleeEnds == {"callee_failure", "callee_off_code", "selfdestruct", "solver_timeout"}
Failures == {"callee_failure", "create_timeout", "execution_timeout", "loop_bound", "unimplemented"}
===============================================================================
