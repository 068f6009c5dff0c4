----------------------------- MODULE CompileRun -----------------------------
(***************************************************************************)
(* One compile plan, main of src/src/main.cpp from the creation of its     *)
(* output directories to its receipt.  Plans may share their directories.  *)
(* The run takes a CompilationSession through its phases; it appends       *)
(* events, a diagnostic being one of them, to runtime-events.jsonl (tagged *)
(* with the run's session id), and writes receipt.json at the end.         *)
(* An @extern block is compiled and loaded by NativeCache in the middle of *)
(* code generation.                                                        *)
(***************************************************************************)
EXTENDS Processes, CompilationSession

CONSTANT MaxCompiles  \* bound on the compile plans among the commands

ASSUME CompilesAssumption == MaxCompiles \in Nat

VARIABLES memory,   \* process -> what it keeps of the plan it runs
          log,      \* run -> the events it has appended
          receipt   \* receipt.json

compileVars == <<memory, log, receipt>>

Intents == {"build", "run", "test"}

\* The phase of the session, compile_plan_test_runtime_started and
\* compile_plan_runtime_success.
Plan(i) == [phase |-> "Empty", intent |-> i, testing |-> FALSE, success |-> FALSE]
NoPlan == Plan("none")

CompileInit ==
  /\ memory = [p \in Procs |-> NoPlan]
  /\ log = [r \in 1 .. MaxCompiles |-> << >>] /\ receipt = Absent

\* styio_emit_runtime_event_latest
Emit(p, events) == log' = [log EXCEPT ![run[p]] = @ \o events]

\* emit_compile_plan_session_transition: nothing is said of a phase that stays.
Transition(p, before, new, after) ==
  /\ memory' = [memory EXCEPT ![p].phase = new, ![p].testing = FALSE]
  /\ Emit(p, before \o (IF new = memory[p].phase THEN << >> ELSE <<new>>) \o after)

StartCompile(p) ==
  /\ runs < MaxCompiles
  /\ Begin(p, "setup")
  /\ \E i \in Intents : memory' = [memory EXCEPT ![p] = Plan(i)]
  /\ UNCHANGED <<log, receipt>>

\* The process ends; what it knew of the plan is gone.
Forget(p) == memory' = [memory EXCEPT ![p] = NoPlan]

\* The directories and the two sinks; without them there is no event, and
\* not even for the diagnostic.
Setup(p) ==
  /\ pc[p] = "setup"
  /\ \/ Goto(p, "idle") /\ Forget(p) /\ UNCHANGED log
     \/ Goto(p, "source") /\ Emit(p, <<"started">>) /\ UNCHANGED memory
  /\ UNCHANGED receipt

\* A source that cannot be read is reported as a phase the session, which does
\* not exist yet, never has.
ReadSource(p) ==
  /\ pc[p] = "source"
  /\ \/ Goto(p, "tokenize") /\ UNCHANGED log
     \/ Goto(p, "exit") /\ Emit(p, <<"Failed", "diagnostic">>)
  /\ UNCHANGED <<memory, receipt>>

\* A step that leads the session to a new phase.
Advances(p, from, to, new) ==
  /\ Step(p, from, to)
  /\ Transition(p, << >>, new, << >>)
  /\ UNCHANGED receipt

\* A step that is given up with a diagnostic, or an artifact that cannot be
\* written before it; the session keeps its phase.
Refused(p) ==
  /\ pc[p] \in {"tokenize", "parse", "shadow", "lower", "jit", "artifact"}
  /\ Goto(p, "exit")
  /\ Emit(p, <<"diagnostic">>)
  /\ UNCHANGED <<memory, receipt>>

TestFinished(p) == IF memory[p].testing THEN <<"test.finished">> ELSE << >>

\* Mutant of Throws: the test is left open.
ThrowsInTest(p) ==
  /\ pc[p] \in {"typecheck", "lower", "jit", "codegen", "block failed", "dlopen failed", "artifact", "execute"}
  /\ Goto(p, "exit")
  /\ Transition(p, << >>, MarkFailed(memory[p].phase), <<"diagnostic">>)
  /\ UNCHANGED receipt

\* A step that throws where the session is marked failed: type inference,
\* lowering, and everything from the JIT to the end of the execution, where a
\* test that has started is finished first.
Throws(p) ==
  /\ pc[p] \in {"typecheck", "lower", "jit", "codegen", "block failed", "dlopen failed", "artifact", "execute"}
  /\ Goto(p, "exit")
  /\ Transition(p, TestFinished(p), MarkFailed(memory[p].phase), <<"diagnostic">>)
  /\ UNCHANGED receipt

Tokenize(p) == Advances(p, "tokenize", "parse", AttachContext(AdoptTokens(memory[p].phase)))
Parse(p) == Advances(p, "parse", "shadow", AttachAst(memory[p].phase))

\* The other parser agrees, or was not asked.
ShadowCompare(p) == Step(p, "shadow", "typecheck") /\ UNCHANGED compileVars
TypeInfer(p) == Advances(p, "typecheck", "lower", MarkTypeChecked(memory[p].phase))
Lower(p) == Advances(p, "lower", "jit", AttachIr(memory[p].phase))
RuntimeInit(p) == Step(p, "jit", "codegen") /\ UNCHANGED compileVars

\* toLLVMIR may meet an @extern block.
Codegen(p) ==
  /\ pc[p] = "codegen"
  /\ Goto(p, "block") \/ Goto(p, "codegen ready")
  /\ UNCHANGED compileVars

CodegenReady(p) ==
  /\ pc[p] \in {"codegen ready", "block loaded"}
  /\ Goto(p, "artifact")
  /\ Transition(p, << >>, MarkCodegenReady(memory[p].phase), << >>)
  /\ UNCHANGED receipt

\* The artifact is written; a build is then done.
WriteArtifact(p) ==
  /\ pc[p] = "artifact"
  /\ \/ memory[p].intent = "build" /\ Goto(p, "receipt") /\ UNCHANGED <<memory, log>>
     \/ /\ memory[p].intent = "run"
        /\ Goto(p, "execute") /\ Emit(p, <<"run.started">>) /\ UNCHANGED memory
     \/ /\ memory[p].intent = "test"
        /\ Goto(p, "execute") /\ Emit(p, <<"test.started", "run.started">>)
        /\ memory' = [memory EXCEPT ![p].testing = TRUE]
  /\ UNCHANGED receipt

\* What both ends of an execution log.
RunFinished(p) == TestFinished(p) \o <<"run.finished">>

Executed(p) ==
  /\ Step(p, "execute", "receipt")
  /\ Transition(p, RunFinished(p), MarkExecuted(memory[p].phase), << >>)
  /\ UNCHANGED receipt

\* Mutant of RuntimeError: it does not return, and the session is marked executed.
RuntimeErrorIgnored(p) ==
  /\ Step(p, "execute", "receipt")
  /\ Transition(p, RunFinished(p) \o <<"diagnostic">>, MarkExecuted(MarkFailed(memory[p].phase)), << >>)
  /\ UNCHANGED receipt

\* styio_runtime_has_error
RuntimeError(p) ==
  /\ Step(p, "execute", "exit")
  /\ Transition(p, RunFinished(p) \o <<"diagnostic">>, MarkFailed(memory[p].phase), << >>)
  /\ UNCHANGED receipt

\* styio_write_text_file_latest truncates, writes into a buffer, and looks at the
\* stream before its destructor flushes: what becomes of the flush, and what it
\* makes of a receipt that another run wrote meanwhile, is not seen.
OpenReceipt(p) ==
  /\ pc[p] = "receipt"
  /\ \/ Goto(p, "flush receipt") /\ receipt' = Torn /\ UNCHANGED log
     \/ Goto(p, "exit") /\ receipt' \in {Torn, receipt} /\ Emit(p, <<"diagnostic">>)
  /\ UNCHANGED memory

\* Mutant of FlushReceipt: what was asked for is reported, not what happened.
FlushIntent(p) ==
  /\ Step(p, "flush receipt", "exit")
  /\ receipt' = [run |-> run[p], executed |-> memory[p].intent = "run"]
  /\ memory' = [memory EXCEPT ![p].success = TRUE]
  /\ UNCHANGED log

FlushReceipt(p) ==
  /\ Step(p, "flush receipt", "exit")
  /\ receipt' \in {[run |-> run[p], executed |-> memory[p].phase = "Executed"], Torn, receipt}
  /\ memory' = [memory EXCEPT ![p].success = TRUE]
  /\ UNCHANGED log

\* The destructor of the event scope; the session's frees what it owns.
EndScope(p) ==
  /\ Step(p, "exit", "idle")
  /\ Emit(p, IF memory[p].success THEN <<"finished">> ELSE <<"failed">>)
  /\ Forget(p)
  /\ UNCHANGED receipt

CompileStep(p) ==
  \/ StartCompile(p) \/ Setup(p) \/ ReadSource(p) \/ Refused(p) \/ Throws(p)
  \/ Tokenize(p) \/ Parse(p) \/ ShadowCompare(p) \/ TypeInfer(p) \/ Lower(p) \/ RuntimeInit(p)
  \/ Codegen(p) \/ CodegenReady(p) \/ WriteArtifact(p) \/ Executed(p) \/ RuntimeError(p)
  \/ OpenReceipt(p) \/ FlushReceipt(p) \/ EndScope(p)
-----------------------------------------------------------------------------
\* The session is never asked for a step its phase forbids, on any path through
\* main with any of its steps failing (CompilationSession.hpp:105).
SessionCallsAreLegal == \A p \in Procs : memory[p].phase # Illegal

Logged(r) == { log[r][i] : i \in DOMAIN log[r] }

\* What a run leaves tells one story: an event log is closed at most once, by the
\* last event, as finished exactly when it holds no diagnostic, and
\* with every test it opened closed before (main.cpp:4885, 5380).
LogsAgree ==
  \A r \in 1 .. MaxCompiles :
    /\ \A i \in DOMAIN log[r] : log[r][i] \in {"finished", "failed"} => i = Len(log[r])
    /\ "finished" \in Logged(r) => "diagnostic" \notin Logged(r)
    /\ "failed" \in Logged(r) => "diagnostic" \in Logged(r)
    /\ {"finished", "failed"} \cap Logged(r) # {} /\ "test.started" \in Logged(r)
         => "test.finished" \in Logged(r)

\* A receipt that can be read is the receipt of a run that did not fail, that
\* generated code, and that executed exactly if the receipt says so (main.cpp:5443).
ReceiptIsTrue ==
  receipt \notin {Absent, Torn} =>
    /\ Logged(receipt.run) \cap {"failed", "diagnostic"} = {}
    /\ "CodegenReady" \in Logged(receipt.run)
    /\ receipt.executed <=> "Executed" \in Logged(receipt.run)
=============================================================================
