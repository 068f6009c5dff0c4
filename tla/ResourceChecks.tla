--------------------------- MODULE ResourceChecks ---------------------------
(***************************************************************************)
(* What the compiler checks about resources: type inference keeps the      *)
(* names a program owns and has destroyed and the tasks it has pulled      *)
(* (src/src/StyioSema/TypeInfer.cpp), and the resource topology collects   *)
(* who accesses what, to find bodies that may not run in either order      *)
(* (src/src/StyioResourceTopology/ResourceTopology.cpp).                   *)
(*                                                                         *)
(* Two machines, one after the other.  While checking, an action is the    *)
(* visit of one statement, which is refused when its visitor throws, so    *)
(* that every program of MaxStmts statements that type inference accepts is *)
(* checked by some behaviour.  Accept is the validation of the topology.   *)
(* Then the program runs, its tasks on threads of their own.               *)
(***************************************************************************)
EXTENDS Integers, Sequences, FiniteSets, SequencesExt

CONSTANTS Resources,   \* names bound to files
          Bodies,      \* names bound to a task or to a block
          MaxStmts,    \* bound on the statements of a program
          MaxNest,     \* bound on the nesting of its blocks
          MaxThreads,  \* bound on its threads
          MaxObjects   \* bound on the files it opens

ASSUME ResourceAssumption ==
  /\ {MaxStmts, MaxNest, MaxThreads, MaxObjects} \subseteq Nat
  /\ Resources \cap Bodies = {}

Main == 1   \* the program's node in the topology, and its thread

VARIABLES code,     \* the statements so far, [op, name, to, slot]: to is where a block
                    \* ends, slot the statement that bound what name stands for
          sema,     \* what type inference knows
          graph,    \* what the topology has collected
          nest,     \* the blocks that are open
          threads,  \* the running program: the task each thread runs, where it is, what
                    \* its slots hold, and which threads it has pulled, and where
          files     \* the opened files: the statement that opened it, the thread that
                    \* destroyed it, and where

resourceVars == <<code, sema, graph, nest, threads, files>>

Checking == threads = <<>>

-----------------------------------------------------------------------------
(* Checking.                                                               *)

\* owned_resource_names_ and the other sets, binding_info_, and the names a
\* task may not consume, task_outer_resource_names_stack_.back().  slot is the
\* emission's mutable_variables, which the same statements bind and restore.
ResourceInit ==
  /\ code = <<>>
  /\ sema = [bound |-> {}, owned |-> {}, consumed |-> {}, pulled |-> {}, outer |-> {},
             slot |-> [n \in Resources \cup Bodies |-> 0]]
  /\ graph = [nodes |-> Main, node |-> [n \in Resources \cup Bodies |-> 0],
              accesses |-> {}, unordered |-> {}, order |-> {}]
  /\ nest = <<>>
  /\ threads = <<>> /\ files = <<>>

Room == Len(code) < MaxStmts

Here == Len(code) + 1
Stmt(op, name) == [op |-> op, name |-> name, to |-> 0, slot |-> 0]

\* A statement about what a name stands for
Refer(op, name) == [Stmt(op, name) EXCEPT !.slot = sema.slot[name]]

\* The node that owns what the visited statement does.
Owner == IF nest = <<>> THEN Main ELSE Last(nest).node

\* Loops and conditions are no nodes: the topology does not look into them.
Seen == \A i \in DOMAIN nest : nest[i].op \in {"task", "block"}

\* record_access, for a name in handle_bindings_
Accessed(g, name, exclusive) ==
  IF ~Seen \/ g.node[name] = 0 THEN g
  ELSE [g EXCEPT !.accesses = @ \cup {[what |-> g.node[name], owner |-> Owner, excl |-> exclusive]}]

\* A binding of a name to a file: f := @("..."), f <- @("...")
BindFile(f) ==
  /\ Checking /\ Room
  /\ code' = Append(code, Stmt("open", f))
  /\ sema' = [sema EXCEPT !.bound = @ \cup {f}, !.owned = @ \cup {f}, !.slot[f] = Here]
  /\ graph' = IF Seen THEN [graph EXCEPT !.nodes = @ + 1, !.node[f] = graph.nodes + 1] ELSE graph
  /\ UNCHANGED <<nest, threads, files>>

\* typeInfer(NameAST) lets a name through.
Usable(s, f) == f \in s.bound /\ f \notin s.consumed

\* A statement that reads f, or writes to it.
Use(f, op) ==
  /\ Checking /\ Room
  /\ Usable(sema, f)
  /\ code' = Append(code, Refer(op, f))
  /\ graph' = Accessed(graph, f, op = "write")
  /\ UNCHANGED <<sema, nest, threads, files>>

\* f -> @(), f.close()
Destroy(f) ==
  /\ Checking /\ Room
  /\ Usable(sema, f) /\ f \notin sema.outer
  /\ code' = Append(code, Refer("destroy", f))
  /\ sema' = [sema EXCEPT !.consumed = @ \cup {f}]
  /\ graph' = Accessed(graph, f, TRUE)
  /\ UNCHANGED <<nest, threads, files>>

\* v <- t, t ?| -> v
Pull(t) ==
  /\ Checking /\ Room
  /\ t \in sema.bound \ sema.pulled
  /\ code' = Append(code, Refer("pull", t))
  /\ sema' = [sema EXCEPT !.pulled = @ \cup {t}]
  /\ UNCHANGED <<graph, nest, threads, files>>

\* a => b
Order(a, b) ==
  /\ Checking /\ Room
  /\ {a, b} \subseteq sema.bound
  /\ code' = Append(code, Stmt("order", a))
  /\ graph' = IF Seen THEN [graph EXCEPT !.order = @ \cup {<<graph.node[a], graph.node[b]>>}] ELSE graph
  /\ UNCHANGED <<sema, nest, threads, files>>

\* A block begins.  node is the block's own; a task has one of its own besides.
\* A name is bound to one body only.
Enter(op, name) ==
  LET seen == Seen /\ op \in {"task", "block"}
      task == IF op = "task" THEN 1 ELSE 0
  IN  /\ Checking /\ Room /\ Len(nest) < MaxNest
      /\ \A i \in DOMAIN code : code[i].op \in {"task", "block"} => code[i].name # name
      /\ code' = Append(code, Stmt(op, name))
      /\ nest' = Append(nest, [op |-> op, name |-> name, at |-> Here, saved |-> sema, then |-> {},
                               node |-> IF seen THEN graph.nodes + task + 1 ELSE 0])
      /\ graph' = IF seen THEN [graph EXCEPT !.nodes = @ + task + 1] ELSE graph
      /\ UNCHANGED <<threads, files>>

\* n = ||> { ... }: the body may not consume what is owned so far.
EnterTask(n) == Enter("task", n) /\ sema' = [sema EXCEPT !.outer = sema.owned]

EnterBlock(n) == Enter("block", n) /\ UNCHANGED sema

EnterIf == Enter("if", "") /\ UNCHANGED sema

EnterLoop == Enter("loop", "") /\ UNCHANGED sema

\* The end of the innermost block: its beginning learns where it is.
Leave(op) ==
  /\ Checking /\ nest # <<>> /\ Last(nest).op = op
  /\ code' = Append([code EXCEPT ![Last(nest).at].to = Here],
                    [Stmt("end", Last(nest).name) EXCEPT !.to = Last(nest).at])
  /\ nest' = Front(nest)
  /\ UNCHANGED <<threads, files>>

\* After the body, typeInfer(TaskBlockAST) restores all that it found; the name
\* is bound to a task, which is a resource too.
LeaveTask ==
  /\ Leave("task")
  /\ LET n == Last(nest).name
     IN  /\ sema' = [Last(nest).saved EXCEPT !.bound = @ \cup {n}, !.owned = @ \cup {n},
                                          !.slot[n] = Last(nest).at]
         /\ graph' = IF Last(nest).node = 0 THEN graph
                     ELSE [graph EXCEPT !.node[n] = Last(nest).node - 1,
                                        !.unordered = @ \cup {Last(nest).node - 1}]

LeaveBlock ==
  /\ Leave("block")
  /\ sema' = [sema EXCEPT !.bound = @ \cup {Last(nest).name}]
  /\ graph' = IF Last(nest).node = 0 THEN graph
              ELSE [graph EXCEPT !.node[Last(nest).name] = Last(nest).node,
                                 !.unordered = @ \cup {Last(nest).node}]

LeaveLoop == Leave("loop") /\ UNCHANGED <<sema, graph>>

\* Mutant of AfterBranch: what a branch destroyed and pulled is forgotten too.
AfterBranchForgotten(s, saved) == saved

\* typeInfer(CondFlowAST): bindings are restored after a branch, nothing else is.
AfterBranch(s, saved) == [s EXCEPT !.bound = saved.bound]

\* The end of the first branch, and the beginning of the second
Else ==
  /\ Checking /\ nest # <<>> /\ Last(nest).op = "if"
  /\ code' = Append([code EXCEPT ![Last(nest).at].to = Here], Stmt("else", Last(nest).name))
  /\ sema' = AfterBranch(sema, Last(nest).saved)
  /\ nest' = Append(Front(nest), [Last(nest) EXCEPT !.op = "else", !.at = Here, !.then = sema.bound])
  /\ UNCHANGED <<graph, threads, files>>

LeaveIf ==
  /\ Leave("if")
  /\ sema' = AfterBranch(sema, Last(nest).saved)
  /\ UNCHANGED graph

\* What both branches bind is bound.
LeaveElse ==
  /\ Leave("else")
  /\ sema' = [AfterBranch(sema, Last(nest).saved) EXCEPT !.bound = @ \cup (Last(nest).then \cap sema.bound)]
  /\ UNCHANGED graph

-----------------------------------------------------------------------------
(* The validation of the topology, and the program's first thread.         *)

\* happens_before
HappensBefore(g, a, b) ==
  \E path \in BoundedSeq(1..g.nodes, Cardinality(Bodies)) :
    /\ Len(path) > 1 /\ path[1] = a /\ Last(path) = b
    /\ \A i \in 1..(Len(path) - 1) : <<path[i], path[i + 1]>> \in g.order

\* finalize
Conflict(g, a, b) ==
  /\ a.what = b.what /\ (a.excl \/ b.excl)
  /\ a.owner # b.owner /\ {a.owner, b.owner} \subseteq g.unordered
  /\ ~HappensBefore(g, a.owner, b.owner) /\ ~HappensBefore(g, b.owner, a.owner)

Thread(task, slots) == [from |-> task, pc |-> task + 1, slots |-> slots, got |-> {}]

\* validate_or_throw
Accept ==
  /\ Checking /\ nest = <<>> /\ code # <<>>
  /\ \A a, b \in graph.accesses : ~Conflict(graph, a, b)
  /\ threads' = << Thread(0, [q \in 0..Len(code) |-> 0]) >>
  /\ UNCHANGED <<code, sema, graph, nest, files>>

-----------------------------------------------------------------------------
(* Running.  Conditions are arbitrary.                                     *)

Before(i, op) == threads[i].pc \in DOMAIN code /\ code[threads[i].pc].op = op
Current(i) == code[threads[i].pc]
Object(i) == threads[i].slots[Current(i).slot]

Goto(i, pc) == threads' = [threads EXCEPT ![i].pc = pc]
Proceed(i) == Goto(i, threads[i].pc + 1)

Running == UNCHANGED <<code, sema, graph, nest>>

RunOpen(i) ==
  /\ Before(i, "open") /\ Len(files) < MaxObjects
  /\ files' = Append(files, [from |-> threads[i].pc, closer |-> 0, at |-> 0])
  /\ threads' = [threads EXCEPT ![i].pc = @ + 1, ![i].slots[threads[i].pc] = Len(files) + 1]
  /\ Running

RunUse(i) ==
  /\ Before(i, "use") \/ Before(i, "write")
  /\ Proceed(i)
  /\ Running /\ UNCHANGED files

\* close_slot empties the slot; here it keeps the file, so that what comes to use
\* the slot once more is seen.
RunDestroy(i) ==
  /\ Before(i, "destroy")
  /\ files' = IF Object(i) = 0 THEN files
              ELSE [files EXCEPT ![Object(i)].closer = i, ![Object(i)].at = threads[i].pc]
  /\ Proceed(i)
  /\ Running

\* A task is launched: a thread with what the slots hold now.
RunTask(i) ==
  /\ Before(i, "task") /\ Len(threads) < MaxThreads
  /\ threads' = Append([threads EXCEPT ![i].pc = Current(i).to + 1, ![i].slots[threads[i].pc] = Len(threads) + 1],
                       Thread(threads[i].pc, threads[i].slots))
  /\ Running /\ UNCHANGED files

\* Its end is the end of its thread; the end of a loop leads back.
RunEnd(i) ==
  /\ Before(i, "end")
  /\ CASE code[Current(i).to].op = "task" -> Goto(i, 0)
       [] code[Current(i).to].op = "loop" -> Goto(i, Current(i).to)
       [] OTHER -> Proceed(i)
  /\ Running /\ UNCHANGED files

RunPull(i) ==
  LET t == Object(i)
  IN  /\ Before(i, "pull") /\ t # 0 /\ threads[t].pc = 0
      /\ threads' = [threads EXCEPT ![i].pc = @ + 1, ![i].got = @ \cup {<<t, threads[i].pc>>}]
      /\ Running /\ UNCHANGED files

RunBranch(i) ==
  /\ Before(i, "if") \/ Before(i, "loop")
  /\ Proceed(i) \/ Goto(i, Current(i).to + 1)
  /\ Running /\ UNCHANGED files

RunElse(i) ==
  /\ Before(i, "else")
  /\ Goto(i, Current(i).to + 1)
  /\ Running /\ UNCHANGED files

RunBlock(i) ==
  /\ Before(i, "block") \/ Before(i, "order")
  /\ Proceed(i)
  /\ Running /\ UNCHANGED files

Step(i) ==
  \/ RunOpen(i) \/ RunUse(i) \/ RunDestroy(i) \/ RunTask(i) \/ RunEnd(i)
  \/ RunPull(i) \/ RunBranch(i) \/ RunElse(i) \/ RunBlock(i)

CheckNext ==
  \/ \E f \in Resources : BindFile(f) \/ Use(f, "use") \/ Use(f, "write") \/ Destroy(f)
  \/ \E n \in Bodies : EnterTask(n) \/ EnterBlock(n) \/ Pull(n) \/ \E m \in Bodies : Order(n, m)
  \/ EnterIf \/ EnterLoop
  \/ LeaveTask \/ LeaveBlock \/ LeaveLoop \/ Else \/ LeaveIf \/ LeaveElse
  \/ Accept

ResourceNext == CheckNext \/ \E i \in DOMAIN threads : Step(i)

ResourceSpec == ResourceInit /\ [][ResourceNext]_resourceVars

-----------------------------------------------------------------------------
Accesses == {"use", "write", "destroy"}
Accessing(i) == threads[i].pc \in DOMAIN code /\ Current(i).op \in Accesses /\ Object(i) # 0

\* On no path does a statement find destroyed what a statement before it in the
\* program has destroyed: branches, tasks and blocks that end, and names that
\* are bound again, leave the compiler's set of destroyed names such that what
\* follows is refused.  (A loop's body is visited once, so what it destroys is
\* destroyed again by its next turn.)  Nor does a thread pull a task it has
\* pulled by a statement before: the handle is used up on every path.
NoUseAfterDestroy ==
  \A i \in DOMAIN threads :
    /\ Accessing(i) => files[Object(i)].closer = 0 \/ threads[i].pc <= files[Object(i)].at
    /\ Before(i, "pull") =>
         \A got \in threads[i].got : got[1] = Object(i) => threads[i].pc <= got[2]

\* docs/teams/SEMA-IR-RUNBOOK.md:54: named task bodies that take exclusive access
\* to a resource are refused unless an explicit order stands between them.
TasksAreOrdered ==
  \A i, j \in DOMAIN threads :
    /\ i # j /\ Main \notin {i, j}
    /\ Accessing(i) /\ Accessing(j) /\ Object(i) = Object(j)
    => {Current(i).op, Current(j).op} = {"use"}
=============================================================================
