---------------------------- MODULE MCIrOptimizer ----------------------------
(* One program after the other through the optimizer. *)
EXTENDS IrOptimizer

Init == WrittenProgram(2)
Spec == Init /\ [][Optimize]_program
=============================================================================
