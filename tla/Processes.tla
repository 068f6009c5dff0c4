----------------------------- MODULE Processes ------------------------------
(***************************************************************************)
(* The processes of the styio command (src/src/main.cpp), which share      *)
(* nothing but files.  A process runs one command at a time and may be     *)
(* killed between any two of its steps.  A file is written in two steps:   *)
(* opening it truncates what it held, and only the last write completes    *)
(* it; in between, and for ever if the process is killed, it is torn.      *)
(* A finished file is its content.                                         *)
(***************************************************************************)
EXTENDS Naturals, Sequences, FiniteSets

CONSTANTS Procs,    \* processes
          MaxRuns,  \* bound on the commands run in all
          Absent,   \* no such file
          Torn      \* a file that is not complete

ASSUME ProcessesAssumption == MaxRuns \in Nat \ {0} /\ Absent # Torn

VARIABLES pc,   \* process -> where it is, "idle" between commands
          run,  \* process -> the number of its command
          runs  \* commands started

procVars == <<pc, run, runs>>

Runs == 1 .. MaxRuns

ProcInit == pc = [p \in Procs |-> "idle"] /\ run = [p \in Procs |-> 0] /\ runs = 0

\* A command starts at a place of its own.
Begin(p, place) ==
  /\ pc[p] = "idle" /\ runs < MaxRuns
  /\ runs' = runs + 1
  /\ run' = [run EXCEPT ![p] = runs + 1]
  /\ pc' = [pc EXCEPT ![p] = place]

Goto(p, place) == pc' = [pc EXCEPT ![p] = place] /\ UNCHANGED <<run, runs>>

Step(p, from, to) == pc[p] = from /\ Goto(p, to)

\* The process is killed: signal, power, out of memory, a crash of native code.
Kill(p) == pc[p] # "idle" /\ Goto(p, "idle")
=============================================================================
