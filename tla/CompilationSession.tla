------------------------ MODULE CompilationSession --------------------------
(***************************************************************************)
(* The phases of a compile, src/src/StyioSession/CompilationSession.hpp.   *)
(* An operation takes the session's phase to the next one, or to Illegal   *)
(* where the code throws std::logic_error.  What the session owns (tokens, *)
(* context, AST, IR) is freed by its destructor, whatever the phase.       *)
(***************************************************************************)
EXTENDS Naturals

Illegal == "Illegal"

\* phase_rank
Rank == [Empty |-> 0, Tokenized |-> 1, Parsed |-> 2, Typed |-> 3,
         Lowered |-> 4, CodegenReady |-> 5, Executed |-> 6, Failed |-> 7]

CanTransition(current, next) ==
  \/ current = next
  \/ next = "Failed" /\ current # "Empty"
  \/ next # "Failed" /\ current # "Failed" /\ Rank[next] >= Rank[current]

TransitionTo(current, next) == IF CanTransition(current, next) THEN next ELSE Illegal

\* An operation that asks for one phase and leads to another.
Advance(current, from, next) == IF current = from THEN TransitionTo(current, next) ELSE Illegal

AdoptTokens(phase) == Advance(phase, "Empty", "Tokenized")
AttachContext(phase) == Advance(phase, "Tokenized", "Tokenized")
AttachAst(phase) == Advance(phase, "Tokenized", "Parsed")
MarkTypeChecked(phase) == Advance(phase, "Parsed", "Typed")
AttachIr(phase) == Advance(phase, "Typed", "Lowered")
MarkCodegenReady(phase) == Advance(phase, "Lowered", "CodegenReady")
MarkExecuted(phase) == Advance(phase, "CodegenReady", "Executed")
MarkFailed(phase) == IF phase = "Empty" THEN phase ELSE TransitionTo(phase, "Failed")
=============================================================================
