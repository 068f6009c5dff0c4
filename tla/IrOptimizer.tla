----------------------------- MODULE IrOptimizer -----------------------------
(***************************************************************************)
(* optimize_styio_ir (src/src/StyioLowering/StyioIROptimizer.cpp): a match *)
(* whose default arm binds the scrutinee to a name,                        *)
(*     e ?= { 1 => { A }  _ => { x = e ; B } }                             *)
(* becomes { x = e ; x ?= { 1 => { A }  _ => { B } } }, so that this       *)
(* spelling and the one with the binding in front generate the same code.  *)
(* The tests that decide whether the binding may move are translated one   *)
(* by one; Meaning says what a program does, by running it.                *)
(*                                                                         *)
(* Expressions and statements are records.  Names, constants and           *)
(* differences stand for the expressions without effects, Get for an       *)
(* element access, which may fail; Show stands for the statements the      *)
(* optimizer knows nothing about (print, calls, writes to streams).        *)
(***************************************************************************)
EXTENDS Integers, Sequences, SequencesExt

Name(n) == [name |-> n]
Const(v) == [int |-> v]
Minus(l, r) == [lhs |-> l, rhs |-> r]
Get(i) == [index |-> i]

Set(n, e) == [to |-> n, value |-> e]
Show(e) == [shown |-> e]
Match(e, arm, default) == [scrutinee |-> e, one |-> arm, default |-> default]
Block(stmts) == [stmts |-> stmts]
Twice(stmts) == [body |-> stmts]                      \* SGRangeFor, SGLoop, SGForEach
When(e, stmts) == [cond |-> e, then |-> stmts]        \* SGIf

Has(node, field) == field \in DOMAIN node

-----------------------------------------------------------------------------
(* The tests on expressions.                                               *)

\* ir_expr_is_speculatable
RECURSIVE Speculatable(_)
Speculatable(e) ==
  Has(e, "name") \/ Has(e, "int") \/ (Has(e, "lhs") /\ Speculatable(e.lhs) /\ Speculatable(e.rhs))

\* ir_expr_has_no_runtime_effects
RECURSIVE NoEffects(_)
NoEffects(e) ==
  \/ Has(e, "name") \/ Has(e, "int")
  \/ Has(e, "lhs") /\ NoEffects(e.lhs) /\ NoEffects(e.rhs)
  \/ Has(e, "index") /\ NoEffects(e.index)

\* collect_expr_reads
RECURSIVE Reads(_)
Reads(e) ==
  CASE Has(e, "name") -> {e.name}
    [] Has(e, "lhs") -> Reads(e.lhs) \cup Reads(e.rhs)
    [] Has(e, "index") -> Reads(e.index)
    [] OTHER -> {}

-----------------------------------------------------------------------------
(* The tests on statements: the names they write and read, as far as the   *)
(* optimizer looks.                                                        *)

\* The blocks of a statement
Blocks(s) ==
  CASE Has(s, "stmts") -> << s.stmts >>
    [] Has(s, "scrutinee") -> << s.one, s.default >>
    [] Has(s, "body") -> << s.body >>
    [] Has(s, "then") -> << s.then >>
    [] OTHER -> << >>

\* stmt_writes_name: the names for which it is true
RECURSIVE Written(_)
Written(s) ==
  (IF Has(s, "to") THEN {s.to} ELSE {})
    \cup UNION {UNION {Written(b[i]) : i \in DOMAIN b} : b \in ToSet(Blocks(s))}

\* stmt_reads_name.  A statement of another kind is looked at as if it were an
\* expression: what it prints or passes on does not count.
RECURSIVE Mentioned(_)
Mentioned(s) ==
  (CASE Has(s, "to") -> Reads(s.value)
     [] Has(s, "scrutinee") -> Reads(s.scrutinee)
     [] Has(s, "cond") -> Reads(s.cond)
     [] OTHER -> {})
    \cup UNION {UNION {Mentioned(b[i]) : i \in DOMAIN b} : b \in ToSet(Blocks(s))}

\* stmt_is_rebind_hoist_transparent
RECURSIVE Transparent(_)
Transparent(s) ==
  \/ Has(s, "to") /\ NoEffects(s.value)
  \/ Has(s, "stmts") /\ \A i \in DOMAIN s.stmts : Transparent(s.stmts[i])

\* Mutant of MayMove: what stands before is not looked at.
MayMoveOver(m, i) ==
  LET arm == m.default
  IN /\ Has(arm[i], "to") /\ arm[i].value = m.scrutinee
     /\ \E j \in i+1..Len(arm) : arm[i].to \in Mentioned(arm[j])

\* The i-th statement of the default arm binds the scrutinee, is read later, and
\* can stand in front of what comes before it.
MayMove(m, i) ==
  LET arm == m.default
  IN /\ Has(arm[i], "to") /\ arm[i].value = m.scrutinee
     /\ \E j \in i+1..Len(arm) : arm[i].to \in Mentioned(arm[j])
     /\ \A j \in 1..i-1 :
          /\ arm[i].to \notin Mentioned(arm[j]) \cup Written(arm[j])
          /\ Written(arm[j]) \cap Reads(m.scrutinee) = {}
          /\ Transparent(arm[j])

\* find_repeated_default_rebind; 0 when there is none
FindRebind(m) ==
  IF Speculatable(m.scrutinee)
    THEN SelectInSeq([i \in DOMAIN m.default |-> MayMove(m, i)], LAMBDA may : may)
    ELSE 0

\* canonicalize_match_in_sequence
Canonical(owner, at) ==
  LET m      == owner[at]
      index  == FindRebind(m)
      bind   == m.default[index]
      inner  == [m EXCEPT !.scrutinee = Name(bind.to), !.default = RemoveAt(@, index)]
  IN IF \/ index = 0
        \/ \E i \in 1..at-1 : bind.to \in Written(owner[i])
        \/ \E i \in at+1..Len(owner) : bind.to \in Mentioned(owner[i]) \cup Written(owner[i])
       THEN m
       ELSE Block(<< bind, inner >>)

RECURSIVE Optimized(_)
\* Optimizer::optimize
OptimizedStmt(s) ==
  CASE Has(s, "stmts") -> [s EXCEPT !.stmts = Optimized(@)]
    [] Has(s, "scrutinee") -> [s EXCEPT !.one = Optimized(@), !.default = Optimized(@)]
    [] Has(s, "body") -> [s EXCEPT !.body = Optimized(@)]
    [] Has(s, "then") -> [s EXCEPT !.then = Optimized(@)]
    [] OTHER -> s

RECURSIVE Rewritten(_, _)
Rewritten(stmts, at) ==
  IF at > Len(stmts) THEN stmts
  ELSE IF Has(stmts[at], "scrutinee")
         THEN Rewritten([stmts EXCEPT ![at] = Canonical(stmts, at)], at + 1)
         ELSE Rewritten(stmts, at + 1)

\* Optimizer::optimize_sequence: the statements first, then the matches in order.
Optimized(stmts) == Rewritten([i \in DOMAIN stmts |-> OptimizedStmt(stmts[i])], 1)

-----------------------------------------------------------------------------
(* What a program does.  A name has one value from its first binding on,   *)
(* in whatever block that stands (mutable_variables).                      *)

Unbound == 99

RECURSIVE Value(_, _)
Value(e, env) ==
  CASE Has(e, "name") -> env[e.name]
    [] Has(e, "int") -> e.int
    [] Has(e, "lhs") ->
         LET l == Value(e.lhs, env)
             r == Value(e.rhs, env)
         IN IF Unbound \in {l, r} THEN Unbound ELSE l - r
    [] OTHER -> Value(e.index, env)

\* A state is what the names hold, what was shown, and whether all was bound.
RECURSIVE After(_, _)
Perform(s, st) ==
  LET v == Value(IF Has(s, "to") THEN s.value
                 ELSE IF Has(s, "shown") THEN s.shown
                 ELSE IF Has(s, "scrutinee") THEN s.scrutinee
                 ELSE IF Has(s, "cond") THEN s.cond ELSE Const(0), st.env)
  IN IF v = Unbound THEN [st EXCEPT !.ok = FALSE]
     ELSE CASE Has(s, "to") -> [st EXCEPT !.env[s.to] = v]
            [] Has(s, "shown") -> [st EXCEPT !.out = Append(@, v)]
            [] Has(s, "scrutinee") -> After(IF v = 1 THEN s.one ELSE s.default, st)
            [] Has(s, "cond") -> IF v = 0 THEN st ELSE After(s.then, st)
            [] Has(s, "body") -> After(s.body, After(s.body, st))
            [] OTHER -> After(s.stmts, st)
After(stmts, st) ==
  IF stmts = <<>> \/ ~st.ok THEN st ELSE After(Tail(stmts), Perform(Head(stmts), st))

-----------------------------------------------------------------------------
(* The programs: k is given, y is shown at the end.                        *)

Given == 0..2
Begin(k) == [env |-> [n \in {"k", "x", "y"} |-> IF n = "k" THEN k ELSE Unbound], out |-> <<>>, ok |-> TRUE]

K == Name("k")
Scrutinees == {K, Minus(K, Const(1))}
Simple == {Set("x", e) : e \in Scrutinees}
            \cup {Set("y", Name("x")), Set("y", Get(K)), Set("k", Const(2)), Show(Name("x"))}
Arms(n) == UNION {[1..i -> Simple] : i \in 0..n}
Openings == {<< Set("y", Const(5)) >>, << Set("y", Const(5)), Set("x", Const(6)) >>}
Endings == {<<>>, << Set("x", Const(7)) >>, << Show(Name("x")) >>}

\* The match stands in the program itself, in a loop, or under a condition.
Placed(m) == {m, Twice(<< m >>), When(K, << m >>)}

\* Optimizing: any program, with at most size statements in its default arm.
VARIABLE program

WrittenProgram(size) ==
  \E e \in Scrutinees, one \in Arms(1), default \in Arms(size) :
    \E held \in Placed(Match(e, one, default)), opening \in Openings, ending \in Endings :
      program = opening \o << held >> \o ending \o << Show(Name("y")) >>

Optimize == program' = Optimized(program)

\* A program in which every name is bound before it is used, as type inference
\* requires.
Valid(p) == \A k \in Given : After(p, Begin(k)).ok

SameMeaning(p) ==
  Optimized(p) = p \/ ~Valid(p) \/
    \A k \in Given :
      LET done == After(Optimized(p), Begin(k))
      IN done.ok /\ done.out = After(p, Begin(k)).out

\* The match of p stands in the sequence of the program, or no statement outside
\* its sequence binds x, the name its default arm may rebind.
Local(p) ==
  \A i \in DOMAIN p : Has(p[i], "body") \/ Has(p[i], "cond") =>
    "x" \notin UNION {Written(p[j]) : j \in DOMAIN p \ {i}}

\* Optimizing a program does not change what it shows, if what a default arm
\* rebinds does not exist outside the sequence of the match: the tests see the
\* reads, writes and effects in that sequence and inside the arm.
OptimizerKeepsMeaning == Local(program) => SameMeaning(program)

\* docs/teams/SEMA-IR-RUNBOOK.md:48: the rewrites of sequences keep what
\* programs do.  They do not see the arms and the names outside the sequence.
EveryProgramKeepsMeaning == SameMeaning(program)
=============================================================================
