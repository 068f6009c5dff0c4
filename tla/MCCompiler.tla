------------------------------ MODULE MCCompiler ------------------------------
(* The compiler's passes for TLC, each on programs of its own: a behaviour   *)
(* is one of the checks on resources, of the optimizer, or of the emission.  *)
EXTENDS ResourceChecks, IrOptimizer, CodegenScopes

VARIABLE pass

MCInit ==
  /\ ResourceInit /\ Init
  /\ \/ pass \in {"check", "emit"} /\ program = <<>>
     \/ pass = "optimize" /\ WrittenProgram(3)
MCNext ==
  \/ pass = "check" /\ ResourceNext /\ UNCHANGED <<program, vars, pass>>
  \/ pass = "optimize" /\ Optimize /\ UNCHANGED <<resourceVars, vars, pass>>
  \/ pass = "emit" /\ Next /\ UNCHANGED <<resourceVars, program, pass>>
MCSpec == MCInit /\ [][MCNext]_<<resourceVars, program, vars, pass>>
=============================================================================
