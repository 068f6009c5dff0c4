---------------------------- MODULE CodegenScopes ----------------------------
(***************************************************************************)
(* The scopes by which StyioToLLVM (src/src/StyioCodeGen/CodeGenG.cpp)     *)
(* makes a program release what it owns.  Two machines, one after the      *)
(* other.  While emitting, an action is the visit of one statement: it     *)
(* appends instructions to basic blocks and keeps the compiler's own       *)
(* bookkeeping, the stacks of slots to be released, mutable_variables, the *)
(* singleton paths and the loop stack.  Every program of MaxSize           *)
(* statements is emitted by some behaviour.  Then one of its functions     *)
(* runs, one instruction at a time, with every outcome of its conditions   *)
(* and of its run-time checks.                                             *)
(*                                                                         *)
(* A slot holds nothing (0), a handle, or Garbage: an alloca no store has  *)
(* reached.  Releasing Garbage is undefined; here it releases nothing, and *)
(* NoWildRelease says that it does not happen.                             *)
(***************************************************************************)
EXTENDS Integers, Sequences, FiniteSets, SequencesExt

CONSTANTS Dynamics,    \* names bound to lists, dicts, matrices or tasks
          Strings,     \* names bound to strings in plain slots
          Files,       \* names bound to file handles
          Paths,       \* constant paths
          Computed,    \* a path that is not a constant
          MaxSize,     \* bound on the statements of a program
          MaxDepth,    \* bound on the nesting of its blocks
          MaxHandles   \* bound on the handles it holds at a time

\* A name is bound in slots of one kind.
ASSUME CodegenAssumption ==
  /\ {MaxSize, MaxDepth, MaxHandles} \subseteq Nat
  /\ Computed \notin Paths
  /\ Dynamics \cap Strings = {} /\ Dynamics \cap Files = {} /\ Strings \cap Files = {}

Names == Dynamics \cup Strings \cup Files
Garbage == -1

VARIABLES em,     \* the compiler: see Start
          pc,     \* <<block, index>> of the next instruction; <<0, 0>> while emitting
          cell,   \* what the slots hold
          live    \* the handles that are open

vars == <<em, pc, cell, live>>

Emitting == pc = <<0, 0>>

-----------------------------------------------------------------------------
(* What the visitors do to the compiler e.                                 *)

EmptyScope == [files |-> <<>>, strings |-> <<>>, dynamics |-> <<>>]

\* code, fnOf: the basic blocks, and the function each belongs to; here: the
\* insert point.  owner, iters: the function of each slot; the slots that hold
\* what a loop goes through.  plain: so far no statement was an early exit,
\* replaced a string, or gave a slot to a name or path that had one out of scope.
Start ==
  [code |-> << <<>> >>, fnOf |-> <<1>>, here |-> 1, owner |-> <<>>, iters |-> {},
   scopes |-> << EmptyScope >>, slotOf |-> [n \in Names |-> 0], pathSlot |-> [p \in Paths |-> 0],
   loops |-> <<>>, nest |-> <<>>, size |-> 0, plain |-> TRUE]

Fn(e) == Last(e.fnOf)

Emit(e, instrs) == [e EXCEPT !.code[e.here] = @ \o instrs]
At(e, block) == [e EXCEPT !.here = block]

\* n new basic blocks; they are numbered from NextBlock(e).
NextBlock(e) == Len(e.code) + 1
NewBlocks(e, n) ==
  [e EXCEPT !.code = @ \o [i \in 1..n |-> <<>>], !.fnOf = @ \o [i \in 1..n |-> Fn(e)]]

\* BasicBlock::getTerminator
Terminated(e) ==
  LET block == e.code[e.here] IN block # <<>> /\ Last(block)[1] \in {"br", "cond", "ret"}

EmitOpen(e, instrs) == IF Terminated(e) THEN e ELSE Emit(e, instrs)

\* push_file_handle_scope: the three stacks grow and shrink together.
Push(e) == [e EXCEPT !.scopes = Append(@, EmptyScope)]

\* register_*_for_raii
Register(e, stack, entry) == [e EXCEPT !.scopes[Len(e.scopes)][stack] = Append(@, entry)]

Calls(op, slots) == [i \in 1..Cardinality(slots) |-> <<op, SetToSeq(slots)[i]>>]

\* The releases of some scopes: a file by what its name stands for now, once
\* per slot.
Cleanup(e, scopes) ==
  Calls("close", {e.slotOf[n] : n \in UNION {ToSet(s.files) : s \in scopes}} \ {0})
    \o Calls("close", UNION {ToSet(s.strings) : s \in scopes})
    \o Calls("free", UNION {ToSet(s.dynamics) : s \in scopes})

\* pop_file_handle_scope
Pop(e) == [Emit(e, Cleanup(e, {Last(e.scopes)})) EXCEPT !.scopes = Front(@)]

\* Mutant of ActiveCleanup: only the innermost scope.
ActiveCleanupInner(e) == Cleanup(e, {Last(e.scopes)})

\* emit_active_scope_cleanup
ActiveCleanup(e) == Cleanup(e, ToSet(e.scopes))

\* emit_runtime_error_guard_return, when the statement has a checked operation
Guarded(e, checked) ==
  LET abort == NextBlock(e)
      cont  == abort + 1
      split == Emit(NewBlocks(e, 2), << <<"cond", abort, cont>> >>)
  IN IF ~checked THEN e
     ELSE At(Emit(At(split, abort), Append(ActiveCleanup(e), <<"ret">>)), cont)

NewSlot(e) == Len(e.owner) + 1
AddSlot(e) == [e EXCEPT !.owner = Append(@, Fn(e))]

\* Is the slot one that an open scope will release?
InScope(e, slot) ==
  \E s \in ToSet(e.scopes) :
    \/ slot \in ToSet(s.dynamics) \cup ToSet(s.strings)
    \/ \E n \in ToSet(s.files) : e.slotOf[n] = slot
Named(e, n) == \E s \in ToSet(e.scopes) : n \in ToSet(s.files)

\* The visit counts as a statement, and keeps the program plain or not.
Visited(e, plain) == [e EXCEPT !.size = @ + 1, !.plain = @ /\ plain]

-----------------------------------------------------------------------------
(* The visits of statements.                                               *)

\* SGFlexBind of a dynamic slot: a name keeps its slot for the rest of the
\* function; only a new slot is initialised, here, and registered.
FlexBind(e, x, checked) ==
  LET old  == e.slotOf[x]
      slot == NewSlot(e)
      new  == Register([Emit(AddSlot(e), << <<"init", slot>> >>) EXCEPT !.slotOf[x] = slot],
                       "dynamics", slot)
  IN IF old # 0
       THEN Visited(Emit(Guarded(e, checked), << <<"free", old>>, <<"own", old>> >>), InScope(e, old))
       ELSE Visited(Emit(Guarded(new, checked), << <<"own", slot>> >>), TRUE)

\* SGFinalBind of a dynamic slot: always a new one.
FinalBind(e, x, checked) ==
  LET slot == NewSlot(e)
      init == Emit(AddSlot(e), << <<"init", slot>> >>)
      held == Emit(Guarded(init, checked), << <<"own", slot>> >>)
  IN Visited(Register([held EXCEPT !.slotOf[x] = slot], "dynamics", slot), TRUE)

\* SGFlexBind of a string in a plain slot: the string before is not freed.
StringBind(e, x, checked) ==
  LET slot == NewSlot(e)
      new  == Emit(Guarded([AddSlot(e) EXCEPT !.slotOf[x] = slot], checked), << <<"own", slot>> >>)
  IN IF e.slotOf[x] # 0
       THEN Visited(Emit(Guarded(e, checked), << <<"own", e.slotOf[x]>> >>), FALSE)
       ELSE Visited(Register(new, "strings", slot), TRUE)

\* SIOHandleAcquire: a constant path is opened where it is met first.
AcquireHandle(e, x, path) ==
  LET known == path # Computed /\ e.pathSlot[path] # 0
      slot  == IF known THEN e.pathSlot[path] ELSE NewSlot(e)
      fresh == Emit(AddSlot(e), << <<"own", slot>> >>)
  IN IF known
       THEN Visited([e EXCEPT !.slotOf[x] = slot],
                    InScope(e, slot) /\ (Named(e, x) => e.slotOf[x] = slot))
       ELSE Visited(Register([fresh EXCEPT !.slotOf[x] = slot,
                                           !.pathSlot = IF path = Computed THEN @
                                                        ELSE [@ EXCEPT ![path] = slot]],
                             "files", x),
                    ~Named(e, x))

\* Mutant of ReleaseHandle: the slot is not cleared.
ReleaseHandleKept(e, x) ==
  Visited(IF e.slotOf[x] = 0 THEN e ELSE Emit(e, << <<"close", e.slotOf[x]>> >>),
          e.slotOf[x] # 0 => InScope(e, e.slotOf[x]))

\* SIOHandleRelease by name: close, and clear the slot.
ReleaseHandle(e, x) ==
  Visited(IF e.slotOf[x] = 0 THEN e
          ELSE Emit(e, << <<"close", e.slotOf[x]>>, <<"init", e.slotOf[x]>> >>),
          e.slotOf[x] # 0 => InScope(e, e.slotOf[x]))

\* SGIf, SGMatch: the block of one arm, with or without another one.
OpenBranch(e, withElse) ==
  LET then  == NextBlock(e)
      exit  == then + 1
      other == IF withElse THEN then + 2 ELSE exit
      split == Emit(NewBlocks(e, IF withElse THEN 3 ELSE 2), << <<"cond", then, other>> >>)
      open  == [kind |-> "branch", next |-> other, exit |-> exit, slot |-> 0]
  IN Visited(Push([At(split, then) EXCEPT !.nest = Append(@, open)]), TRUE)

\* A loop with a header; the statements inside see the loop stack.
Loop(e, kind, slot) ==
  LET head == NextBlock(e)
      body == head + 1
      exit == head + 2
      top  == Emit(NewBlocks(e, 3), << <<"br", head>> >>)
      open == [kind |-> kind, next |-> head, exit |-> exit, slot |-> slot]
  IN Push([At(Emit(At(top, head), << <<"cond", body, exit>> >>), body) EXCEPT
             !.nest = Append(@, open),
             !.loops = IF kind = "file" THEN @ ELSE Append(@, open)])

\* SGLoop, SGRangeFor, SGForEach over a literal
OpenLoop(e) == Visited(Loop(e, "loop", 0), TRUE)

\* SGForEach over a temporary list, SIOFileLineIter from a path: what the loop
\* goes through is held by a slot of no scope.
OpenIter(e, kind) ==
  LET slot == NewSlot(e)
      held == [Emit(AddSlot(e), << <<"own", slot>> >>) EXCEPT !.iters = @ \cup {slot}]
  IN Visited(Loop(held, kind, slot), TRUE)

\* SGBreak, SGContinue, SGReturn: a terminator, and no cleanup.
Break(e) == Visited(Emit(e, << <<"br", Last(e.loops).exit>> >>), FALSE)
Continue(e, depth) ==
  Visited(Emit(e, << <<"br", e.loops[Len(e.loops) + 1 - depth].next>> >>), FALSE)
Return(e, checked) == Visited(Emit(Guarded(e, checked), << <<"ret">> >>), FALSE)

\* The end of an SGBlock: the scope is popped if control gets there.
EndBlock(e) == IF Terminated(e) THEN e ELSE Pop(e)

\* ... and the statement goes on: the other arm, the header, or the exit.
CloseBlock(e) ==
  LET c     == Last(e.nest)
      ended == EndBlock(e)
      out   == [At(EmitOpen(ended, << <<"br", IF c.kind = "branch" THEN c.exit ELSE c.next>> >>), c.exit)
                  EXCEPT !.nest = Front(@)]
  IN CASE c.kind = "branch" /\ c.next # c.exit ->
            Push([At(out, c.next) EXCEPT !.nest = Append(@, [c EXCEPT !.next = c.exit])])
       [] c.kind = "branch" /\ c.next = c.exit -> out
       [] c.kind = "loop" -> [out EXCEPT !.loops = Front(@)]
       [] c.kind = "list" -> Emit([out EXCEPT !.loops = Front(@)], << <<"close", c.slot>> >>)
       [] OTHER -> Emit(out, << <<"close", c.slot>> >>)

\* Mutant of EndBody: the scope is released, but stays on the stack.
EndBodyUnpopped(e) == EmitOpen(e, Append(Cleanup(e, {Last(e.scopes)}), <<"ret">>))

\* The end of define_sgfunc_body and of SGMainEntry
EndBody(e) == IF Terminated(e) THEN e ELSE Emit(Pop(e), << <<"ret">> >>)

\* main is emitted after the functions; mutable_variables starts empty again,
\* the stacks of scopes and the singleton paths do not.
BeginMain(e) ==
  LET block == NextBlock(e)
  IN Push([At(e, block) EXCEPT !.code = Append(@, <<>>), !.fnOf = Append(@, 2),
                               !.slotOf = [n \in Names |-> 0]])

-----------------------------------------------------------------------------
Init == em = Start /\ pc = <<0, 0>> /\ cell = <<>> /\ live = {}

Visit(e) == em' = e /\ UNCHANGED <<pc, cell, live>>

\* The visitors stop at a terminator.
Open == Emitting /\ ~Terminated(em) /\ em.size < MaxSize
Shallow == Open /\ Len(em.nest) < MaxDepth

Bind == Open /\ \E checked \in BOOLEAN :
  \/ \E x \in Dynamics : Visit(FlexBind(em, x, checked))
  \/ \E x \in Dynamics : Visit(FinalBind(em, x, checked))
  \/ \E x \in Strings : Visit(StringBind(em, x, checked))
Handle == Open /\ \E x \in Files :
  \/ \E path \in Paths \cup {Computed} : Visit(AcquireHandle(em, x, path))
  \/ Visit(ReleaseHandle(em, x))
Nest == Shallow /\
  \/ \E withElse \in BOOLEAN : Visit(OpenBranch(em, withElse))
  \/ Visit(OpenLoop(em))
  \/ \E kind \in {"list", "file"} : Visit(OpenIter(em, kind))
Exit == Open /\
  \/ em.loops # <<>> /\ Visit(Break(em))
  \/ \E depth \in 1..Len(em.loops) : Visit(Continue(em, depth))
  \/ \E checked \in BOOLEAN : Visit(Return(em, checked))
Close == Emitting /\ em.nest # <<>> /\ Visit(CloseBlock(em))
EndFunction == Emitting /\ em.nest = <<>> /\ Fn(em) = 1 /\ Visit(BeginMain(EndBody(em)))

\* main ends, and one of the two functions is called.
Run ==
  /\ Emitting /\ em.nest = <<>> /\ Fn(em) = 2
  /\ em' = EndBody(em)
  /\ \E f \in 1..2 : pc' = <<SelectInSeq(em.fnOf, LAMBDA g : g = f), 1>>
  /\ cell' = [s \in DOMAIN em.owner |-> Garbage]
  /\ UNCHANGED live

-----------------------------------------------------------------------------
(* The emitted code.                                                       *)
Instr == em.code[pc[1]][pc[2]]
Slot == Instr[2]

Advance == pc' = <<pc[1], pc[2] + 1>>

\* A fresh object is stored; what the slot held is forgotten.
Own ==
  /\ Instr[1] = "own" /\ Cardinality(live) < MaxHandles
  /\ LET h == CHOOSE h \in (1..MaxHandles) \ live : \A g \in (1..MaxHandles) \ live : h <= g
     IN live' = live \cup {h} /\ cell' = [cell EXCEPT ![Slot] = h]
  /\ Advance

\* init_dynamic_slot_undef, a store of 0
Clear == Instr[1] = "init" /\ cell' = [cell EXCEPT ![Slot] = 0] /\ Advance /\ UNCHANGED live

\* styio_file_close, free_cstr: the slot keeps the number.
CloseHandle == Instr[1] = "close" /\ live' = live \ {cell[Slot]} /\ Advance /\ UNCHANGED cell

\* release_dynamic_slot_contents
FreeSlot ==
  /\ Instr[1] = "free"
  /\ live' = live \ {cell[Slot]}
  /\ cell' = [cell EXCEPT ![Slot] = 0]
  /\ Advance

Jump ==
  /\ Instr[1] \in {"br", "cond"}
  /\ \E i \in 2..Len(Instr) : pc' = <<Instr[i], 1>>
  /\ UNCHANGED <<cell, live>>

Execute == ~Emitting /\ (Own \/ Clear \/ CloseHandle \/ FreeSlot \/ Jump) /\ UNCHANGED em

Next == Bind \/ Handle \/ Nest \/ Exit \/ Close \/ EndFunction \/ Run \/ Execute

Spec == Init /\ [][Next]_vars

-----------------------------------------------------------------------------
AtReturn == ~Emitting /\ Instr = <<"ret">>

\* The types; in particular every stack of scopes fits the nesting.
TypeOK ==
  /\ em.here \in DOMAIN em.code /\ DOMAIN em.fnOf = DOMAIN em.code
  /\ em.size \in 0..MaxSize /\ Len(em.nest) <= MaxDepth
  /\ em.slotOf \in [Names -> 0..Len(em.owner)]
  /\ live \subseteq 1..MaxHandles
  /\ ~Emitting => /\ cell \in [DOMAIN em.owner -> {Garbage} \cup 0..MaxHandles]
                  /\ pc[2] \in DOMAIN em.code[pc[1]]
  /\ Emitting /\ em.plain => Len(em.scopes) = Len(em.nest) + 1

\* In a plain program a slot is released only after a store has reached it, and
\* never while it still names an object that was released before, whichever
\* branches, iterations and failed checks led there.
NoWildRelease ==
  ~Emitting /\ em.plain /\ Instr[1] \in {"free", "close"} => cell[Slot] \in live \cup {0}

\* When a function of a plain program returns, at its end or because a check
\* failed, everything that a name held is released.
ReleasedAtReturn ==
  AtReturn /\ em.plain => live \subseteq {cell[s] : s \in em.iters}

\* The code of a function touches slots of that function only; LLVM has no
\* meaning for the rest.
OwnSlotsOnly ==
  ~Emitting /\ em.plain =>
    \A b \in DOMAIN em.code : \A i \in DOMAIN em.code[b] :
      em.code[b][i][1] \in {"own", "init", "close", "free"} =>
        em.owner[em.code[b][i][2]] = em.fnOf[b]

\* docs/design/Styio-Language-Design.md:417: cleanup code is inserted at every
\* exit path, breaks and returns included.  The code inserts none there.
ReleasedOnEveryExit == AtReturn => live \subseteq {cell[s] : s \in em.iters}
=============================================================================
