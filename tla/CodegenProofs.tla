---------------------------- MODULE CodegenProofs ----------------------------
(***************************************************************************)
(* Proofs about CodegenScopes, for every set of names and paths, programs  *)
(* of any size, nested to any depth.  The code of a plain program is typed *)
(* as it is emitted: before each instruction stands which slots own what   *)
(* they hold.  The program, when it runs, keeps to the types.              *)
(***************************************************************************)
EXTENDS CodegenScopes, FoldTheorems, SequenceTheorems

-----------------------------------------------------------------------------
(* The emitted code and its types.                                         *)

Ops == {"own", "init", "close", "free"}
Instrs == (Ops \X Nat) \cup ({"br"} \X Nat) \cup ({"cond"} \X Nat \X Nat) \cup {<<"ret">>}
Scopes == [files : Seq(Files), strings : Seq(Nat), dynamics : Seq(Nat)]
Nested == [kind : {"branch", "loop", "list", "file"}, next : Nat, exit : Nat, slot : Nat]

\* What the compiler keeps.
Compilers ==
  [code : Seq(Seq(Instrs)), fnOf : Seq(Nat), here : Nat, owner : Seq(Nat), iters : SUBSET Nat,
   scopes : Seq(Scopes), slotOf : [Names -> Nat], pathSlot : [Paths -> Nat],
   loops : Seq(Nested), nest : Seq(Nested), size : Nat, plain : BOOLEAN]

\* The slots in h own what they hold, an open handle or nothing, and no other
\* slot does; those in z hold nothing.
Types == [h : SUBSET Nat, z : SUBSET Nat]
Nil == [h |-> {}, z |-> {}]

\* A slot that holds nothing may count as an owner; emptiness may be forgotten.
Weaker(t, u) == t.h \subseteq u.h /\ u.h \subseteq t.h \cup t.z /\ u.z \subseteq t.z

\* What an instruction on slot s needs and makes of the types: nothing owned is
\* overwritten, nothing is released that is not owned or empty.
Flow(op, s, t, u) ==
  \/ op = "own" /\ s \notin t.h /\ Weaker([h |-> t.h \cup {s}, z |-> t.z \ {s}], u)
  \/ op = "init" /\ s \notin t.h /\ Weaker([h |-> t.h, z |-> t.z \cup {s}], u)
  \/ op = "close" /\ s \in t.h \cup t.z /\ Weaker([h |-> t.h \ {s}, z |-> t.z], u)
  \/ op = "free" /\ s \in t.h \cup t.z /\ Weaker([h |-> t.h \ {s}, z |-> t.z \cup {s}], u)

\* An instruction on a slot of function f that leads from type t to type u.
Moves(e, f, instr, t, u) ==
  \E op \in Ops, s \in DOMAIN e.owner :
    instr = <<op, s>> /\ e.owner[s] = f /\ Flow(op, s, t, u)

\* ty[b][i] is the type before instruction i of block b.  The first n
\* instructions of a block work on slots.
Straight(e, ty, b, n) == \A i \in 1 .. n : Moves(e, e.fnOf[b], e.code[b][i], ty[b][i], ty[b][i + 1])

\* A block of the same function that a jump finds as it expects it.
Meets(e, ty, b, t, c) == c \in DOMAIN e.code /\ e.fnOf[c] = e.fnOf[b] /\ Weaker(t, ty[c][1])

\* A terminator; a function returns with nothing but what its loops go through.
Terminates(e, ty, b, instr, t) ==
  \/ instr = <<"ret">> /\ t.h \subseteq e.iters
  \/ \E c \in Nat : instr = <<"br", c>> /\ Meets(e, ty, b, t, c)
  \/ \E c, d \in Nat : instr = <<"cond", c, d>> /\ Meets(e, ty, b, t, c) /\ Meets(e, ty, b, t, d)

\* A block that is complete.
Ended(e, ty, b) ==
  LET n == Len(e.code[b])
  IN n > 0 /\ Straight(e, ty, b, n - 1) /\ Terminates(e, ty, b, e.code[b][n], ty[b][n])

\* A function starts with nothing.
Starts(e, ty) == \A b \in DOMAIN e.code : (\A c \in 1 .. b - 1 : e.fnOf[c] # e.fnOf[b]) => ty[b][1] = Nil

Typings == [Nat -> [Nat -> Types]]

\* The code so far: t is the type at the insert point, P the type that is
\* expected at the beginning of some blocks, O those that are still empty.
Coded(e, ty, t, P, O) ==
  /\ ty \in Typings /\ Starts(e, ty)
  /\ Straight(e, ty, e.here, Len(e.code[e.here])) /\ ty[e.here][Len(e.code[e.here]) + 1] = t
  /\ \A b \in DOMAIN P : ty[b][1] = P[b]
  /\ \A b \in DOMAIN e.code : b # e.here /\ b \notin O => Ended(e, ty, b)

Shaped(e) ==
  /\ e \in Compilers
  /\ Len(e.fnOf) = Len(e.code) /\ e.here \in DOMAIN e.code
  /\ e.fnOf[1] = 1 /\ e.fnOf[e.here] = Fn(e)

Ready(e, t, P, O) ==
  /\ Shaped(e)
  /\ O \subseteq DOMAIN P /\ DOMAIN P \subseteq DOMAIN e.code /\ e.here \notin O
  /\ \A b \in DOMAIN P : e.fnOf[b] = Fn(e)
  /\ \A b \in O : e.code[b] = <<>>
  /\ \E ty \in Typings : Coded(e, ty, t, P, O)

-----------------------------------------------------------------------------
(* Emission of code.                                                       *)

\* Emit appends to the block at the insert point.
LEMMA EmitFields ==
  ASSUME NEW e \in Compilers, e.here \in DOMAIN e.code, NEW cs \in Seq(Instrs)
  PROVE  LET new == Emit(e, cs)
         IN /\ new \in Compilers
            /\ new.code = [e.code EXCEPT ![e.here] = @ \o cs]
            /\ new.fnOf = e.fnOf /\ new.here = e.here /\ new.owner = e.owner /\ new.iters = e.iters
            /\ new.scopes = e.scopes /\ new.slotOf = e.slotOf /\ new.pathSlot = e.pathSlot
            /\ new.loops = e.loops /\ new.nest = e.nest /\ new.size = e.size /\ new.plain = e.plain
<1>1. e.code \in Seq(Seq(Instrs))
  BY DEF Compilers
<1>2. e.code[e.here] \o cs \in Seq(Instrs)
  BY <1>1
<1>3. [e.code EXCEPT ![e.here] = e.code[e.here] \o cs] \in Seq(Seq(Instrs))
  BY <1>1, <1>2
<1> QED BY <1>3 DEF Emit, Compilers

\* Code grows: blocks, slots and what loops go through stay, and so do the types
\* at the beginnings of blocks.
Grows(e, new, ty, ty2) ==
  /\ DOMAIN e.code \subseteq DOMAIN new.code
  /\ \A c \in DOMAIN e.code : new.fnOf[c] = e.fnOf[c] /\ ty2[c][1] = ty[c][1]
  /\ \A s \in DOMAIN e.owner : s \in DOMAIN new.owner /\ new.owner[s] = e.owner[s]
  /\ e.iters \subseteq new.iters

\* Slot instructions stay typed when code grows.
LEMMA StraightKept ==
  ASSUME NEW e, NEW new, NEW ty, NEW ty2, Grows(e, new, ty, ty2),
         NEW b \in DOMAIN e.code, NEW n \in Nat, Straight(e, ty, b, n),
         \A i \in 1 .. n : new.code[b][i] = e.code[b][i],
         \A i \in 1 .. n + 1 : ty2[b][i] = ty[b][i]
  PROVE  Straight(new, ty2, b, n)
<1> SUFFICES ASSUME NEW i \in 1 .. n
             PROVE  Moves(new, new.fnOf[b], new.code[b][i], ty2[b][i], ty2[b][i + 1])
  BY DEF Straight
<1>1. Moves(e, e.fnOf[b], e.code[b][i], ty[b][i], ty[b][i + 1])
  BY DEF Straight
<1>2. new.fnOf[b] = e.fnOf[b] /\ \A s \in DOMAIN e.owner : s \in DOMAIN new.owner /\ new.owner[s] = e.owner[s]
  BY DEF Grows
<1>3. i \in 1 .. n + 1 /\ i + 1 \in 1 .. n + 1
  OBVIOUS
<1>4. ty2[b][i] = ty[b][i] /\ ty2[b][i + 1] = ty[b][i + 1]
  BY <1>3
<1> QED BY <1>1, <1>2, <1>4 DEF Moves

\* A terminator stays typed when code grows.
LEMMA TerminatesKept ==
  ASSUME NEW e, NEW new, NEW ty, NEW ty2, Grows(e, new, ty, ty2),
         NEW b \in DOMAIN e.code, NEW instr, NEW t, Terminates(e, ty, b, instr, t)
  PROVE  Terminates(new, ty2, b, instr, t)
<1>1. \A c : Meets(e, ty, b, t, c) => Meets(new, ty2, b, t, c)
  BY DEF Meets, Grows
<1>2. e.iters \subseteq new.iters
  BY DEF Grows
<1> QED BY <1>1, <1>2 DEF Terminates

\* A complete block stays complete when code grows.
LEMMA EndedKept ==
  ASSUME NEW e, NEW new, NEW ty, NEW ty2, Grows(e, new, ty, ty2),
         NEW b \in DOMAIN e.code, Len(e.code[b]) \in Nat, new.code[b] = e.code[b], ty2[b] = ty[b],
         Ended(e, ty, b)
  PROVE  Ended(new, ty2, b)
<1> DEFINE n == Len(e.code[b])
<1>1. n > 0 /\ Straight(e, ty, b, n - 1) /\ Terminates(e, ty, b, e.code[b][n], ty[b][n])
  BY DEF Ended
<1>2. n - 1 \in Nat
  BY <1>1
<1>3. Straight(new, ty2, b, n - 1)
  BY <1>1, <1>2, StraightKept
<1>4. Terminates(new, ty2, b, e.code[b][n], ty[b][n])
  BY <1>1, TerminatesKept
<1> QED BY <1>1, <1>3, <1>4 DEF Ended

\* A run of slot instructions is appended, tt being the types along it.
LEMMA EmitReady ==
  ASSUME NEW e, NEW t, NEW P, NEW O, Ready(e, t, P, O), NEW cs \in Seq(Instrs),
         NEW tt \in [Nat -> Types], tt[1] = t,
         \A i \in 1 .. Len(cs) : Moves(e, Fn(e), cs[i], tt[i], tt[i + 1])
  PROVE  Ready(Emit(e, cs), tt[Len(cs) + 1], P, O)
<1> DEFINE new == Emit(e, cs)
           k == e.here
           n == Len(e.code[k])
           m == Len(cs)
<1>1. Shaped(e) /\ e \in Compilers /\ k \in DOMAIN e.code /\ e.fnOf[k] = Fn(e) /\ Len(e.fnOf) = Len(e.code)
  BY DEF Ready, Shaped
<1>2. PICK ty \in Typings : Coded(e, ty, t, P, O)
  BY DEF Ready
<1>3. /\ new \in Compilers /\ new.code = [e.code EXCEPT ![k] = @ \o cs]
      /\ new.fnOf = e.fnOf /\ new.here = k /\ new.owner = e.owner /\ new.iters = e.iters
  BY <1>1, EmitFields
<1>4. e.code \in Seq(Seq(Instrs)) /\ \A b \in DOMAIN e.code : e.code[b] \in Seq(Instrs) /\ Len(e.code[b]) \in Nat
  BY <1>1 DEF Compilers
<1>5. n \in Nat /\ m \in Nat /\ e.code[k] \in Seq(Instrs) /\ k \in 1 .. Len(e.code)
  BY <1>1, <1>4
<1> DEFINE ty2 == [ty EXCEPT ![k] = [i \in Nat |-> IF i <= n + 1 THEN ty[k][i] ELSE tt[i - n]]]
<1>6. ty \in [Nat -> [Nat -> Types]] /\ k \in Nat
  BY <1>1 DEF Typings, Compilers
<1>7. \A i \in Nat : i > n + 1 => tt[i - n] \in Types
  BY <1>5
<1>8. [i \in Nat |-> IF i <= n + 1 THEN ty[k][i] ELSE tt[i - n]] \in [Nat -> Types]
  BY <1>6, <1>7
<1>9. ty2 \in Typings
  BY <1>6, <1>8 DEF Typings
<1>10. /\ \A b \in Nat : b # k => ty2[b] = ty[b]
       /\ \A i \in Nat : ty2[k][i] = IF i <= n + 1 THEN ty[k][i] ELSE tt[i - n]
  BY <1>6
<1>11. \A b \in Nat : ty2[b][1] = ty[b][1]
  BY <1>5, <1>10
<1>12. new.code[k] = e.code[k] \o cs /\ \A b \in DOMAIN e.code : b # k => new.code[b] = e.code[b]
  BY <1>1, <1>3
<1>13. DOMAIN new.code = DOMAIN e.code /\ Len(new.code) = Len(e.code) /\ DOMAIN e.code \subseteq Nat
  BY <1>3, <1>4, <1>5
<1>14. ty[k][n + 1] = t /\ Straight(e, ty, k, n) /\ Starts(e, ty)
  BY <1>2 DEF Coded
<1> HIDE DEF new, ty2, n, m
<1>15. Grows(e, new, ty, ty2)
  BY <1>3, <1>11, <1>13 DEF Grows
<1>16. Len(new.code[k]) = n + m /\ \A i \in 1 .. n + m : new.code[k][i] = IF i <= n THEN e.code[k][i] ELSE cs[i - n]
  BY <1>5, <1>12 DEF n, m
<1>17. Straight(new, ty2, k, n)
  <2>1. \A i \in 1 .. n : new.code[k][i] = e.code[k][i]
    BY <1>5, <1>16
  <2>2. \A i \in 1 .. n + 1 : ty2[k][i] = ty[k][i]
    BY <1>5, <1>10
  <2> QED BY <1>1, <1>5, <1>14, <1>15, <2>1, <2>2, StraightKept
<1>18. Straight(new, ty2, k, n + m)
  <2> SUFFICES ASSUME NEW i \in 1 .. n + m
               PROVE  Moves(new, new.fnOf[k], new.code[k][i], ty2[k][i], ty2[k][i + 1])
    BY DEF Straight
  <2>1. CASE i <= n
    <3>1. i \in 1 .. n
      BY <1>5, <2>1
    <3> QED BY <1>17, <3>1 DEF Straight
  <2>2. CASE i > n
    <3>1. i - n \in 1 .. m /\ (i + 1) - n = (i - n) + 1
      BY <1>5, <2>2
    <3>2. Moves(e, Fn(e), cs[i - n], tt[i - n], tt[(i - n) + 1])
      BY <3>1 DEF m
    <3>3. ty2[k][i + 1] = tt[(i - n) + 1]
      <4>1. i + 1 \in Nat /\ ~(i + 1 <= n + 1)
        BY <1>5, <2>2
      <4>2. ty2[k][i + 1] = tt[(i + 1) - n]
        BY <1>10, <4>1
      <4> QED BY <3>1, <4>2
    <3>4. ty2[k][i] = tt[i - n]
      <4>1. CASE i = n + 1
        BY <1>5, <1>10, <1>14, <4>1
      <4>2. CASE i > n + 1
        BY <1>5, <1>10, <4>2
      <4> QED BY <1>5, <2>2, <4>1, <4>2
    <3>5. new.code[k][i] = cs[i - n]
      BY <1>5, <1>16, <2>2
    <3>6. PICK op \in Ops, s \in DOMAIN e.owner :
            cs[i - n] = <<op, s>> /\ e.owner[s] = Fn(e) /\ Flow(op, s, tt[i - n], tt[(i - n) + 1])
      BY <3>2 DEF Moves
    <3>7. new.owner = e.owner /\ new.fnOf[k] = Fn(e)
      BY <1>1, <1>3
    <3>8. /\ s \in DOMAIN new.owner /\ new.code[k][i] = <<op, s>> /\ new.owner[s] = new.fnOf[k]
          /\ Flow(op, s, ty2[k][i], ty2[k][i + 1])
      BY <3>3, <3>4, <3>5, <3>6, <3>7
    <3> QED BY <3>8 DEF Moves
  <2> QED BY <1>5, <2>1, <2>2
<1>19. ty2[k][n + m + 1] = tt[m + 1]
  <2>1. CASE m = 0
    BY <1>5, <1>10, <1>14, <2>1
  <2>2. CASE m > 0
    BY <1>5, <1>10, <2>2
  <2> QED BY <1>5, <2>1, <2>2
<1>20. \A b \in DOMAIN e.code : b # k /\ b \notin O => Ended(new, ty2, b)
  <2> SUFFICES ASSUME NEW b \in DOMAIN e.code, b # k, b \notin O
               PROVE  Ended(new, ty2, b)
    OBVIOUS
  <2>1. Ended(e, ty, b)
    BY <1>2 DEF Coded
  <2>2. new.code[b] = e.code[b] /\ ty2[b] = ty[b]
    BY <1>10, <1>12, <1>13
  <2> QED BY <1>4, <1>15, <2>1, <2>2, EndedKept
<1>21. Starts(new, ty2)
  <2> SUFFICES ASSUME NEW b \in DOMAIN e.code, \A c \in 1 .. b - 1 : e.fnOf[c] # e.fnOf[b]
               PROVE  ty2[b][1] = Nil
    BY <1>3, <1>13 DEF Starts
  <2>1. ty[b][1] = Nil
    BY <1>14 DEF Starts
  <2> QED BY <1>11, <1>13, <2>1
<1>22. DOMAIN P \subseteq DOMAIN e.code /\ (\A b \in DOMAIN P : ty2[b][1] = P[b])
  BY <1>2, <1>11, <1>13 DEF Coded, Ready
<1>23. Coded(new, ty2, tt[m + 1], P, O)
  BY <1>3, <1>9, <1>13, <1>16, <1>18, <1>19, <1>20, <1>21, <1>22 DEF Coded
<1>24. Shaped(new) /\ Fn(new) = Fn(e)
  BY <1>1, <1>3, <1>13 DEF Shaped, Fn
<1>25. \A b \in O : new.code[b] = <<>>
  BY <1>12, <1>22 DEF Ready
<1>26. O \subseteq DOMAIN P /\ new.here \notin O /\ \A b \in DOMAIN P : new.fnOf[b] = Fn(new)
  BY <1>3, <1>24 DEF Ready
<1> QED BY <1>9, <1>13, <1>22, <1>23, <1>24, <1>25, <1>26 DEF Ready, new, m
\* A terminator that leads where type t is expected, or returns.
Leads(e, P, instr, t) ==
  \/ instr = <<"ret">> /\ t.h \subseteq e.iters
  \/ \E c \in DOMAIN P : instr = <<"br", c>> /\ Weaker(t, P[c])
  \/ \E c, d \in DOMAIN P : instr = <<"cond", c, d>> /\ Weaker(t, P[c]) /\ Weaker(t, P[d])

\* Every block but those in O is complete.
Written(e, ty, O) == Starts(e, ty) /\ \A b \in DOMAIN e.code : b \notin O => Ended(e, ty, b)

\* A terminator completes the block at the insert point.
LEMMA EndWritten ==
  ASSUME NEW e, NEW t, NEW P, NEW O, Ready(e, t, P, O), NEW instr, Leads(e, P, instr, t)
  PROVE  LET new == Emit(e, <<instr>>)
         IN /\ new \in Compilers
            /\ new.code = [e.code EXCEPT ![e.here] = Append(@, instr)]
            /\ new.fnOf = e.fnOf /\ new.here = e.here /\ new.owner = e.owner /\ new.iters = e.iters
            /\ new.scopes = e.scopes /\ new.slotOf = e.slotOf /\ new.pathSlot = e.pathSlot
            /\ new.loops = e.loops /\ new.nest = e.nest /\ new.size = e.size /\ new.plain = e.plain
            /\ \E ty \in Typings : Written(new, ty, O) /\ \A b \in DOMAIN P : ty[b][1] = P[b]
<1> DEFINE new == Emit(e, <<instr>>)
           k == e.here
           n == Len(e.code[k])
<1>1. Shaped(e) /\ e \in Compilers /\ k \in DOMAIN e.code /\ Len(e.fnOf) = Len(e.code)
  BY DEF Ready, Shaped
<1>2. PICK ty \in Typings : Coded(e, ty, t, P, O)
  BY DEF Ready
<1>3. e.code \in Seq(Seq(Instrs)) /\ \A b \in DOMAIN e.code : e.code[b] \in Seq(Instrs) /\ Len(e.code[b]) \in Nat
  BY <1>1 DEF Compilers
<1>4. DOMAIN P \subseteq DOMAIN e.code /\ DOMAIN e.code \subseteq Nat /\ k \notin O
      /\ \A b \in DOMAIN P : e.fnOf[b] = e.fnOf[k]
  BY <1>3 DEF Ready, Shaped
<1>5. instr \in Instrs
  BY <1>4 DEF Leads, Instrs
<1>6. <<instr>> \in Seq(Instrs) /\ e.code[k] \o <<instr>> = Append(e.code[k], instr)
  BY <1>1, <1>3, <1>5
<1>7. /\ new \in Compilers /\ new.code = [e.code EXCEPT ![k] = Append(@, instr)]
      /\ new.fnOf = e.fnOf /\ new.here = k /\ new.owner = e.owner /\ new.iters = e.iters
      /\ new.scopes = e.scopes /\ new.slotOf = e.slotOf /\ new.pathSlot = e.pathSlot
      /\ new.loops = e.loops /\ new.nest = e.nest /\ new.size = e.size /\ new.plain = e.plain
  BY ZenonT(60), <1>1, <1>6, EmitFields
<1>8. new.code[k] = Append(e.code[k], instr) /\ \A b \in DOMAIN e.code : b # k => new.code[b] = e.code[b]
  BY <1>1, <1>7
<1>9. DOMAIN new.code = DOMAIN e.code /\ n \in Nat
  BY <1>1, <1>3, <1>7
<1>10. Starts(e, ty) /\ Straight(e, ty, k, n) /\ ty[k][n + 1] = t /\ \A b \in DOMAIN P : ty[b][1] = P[b]
  BY <1>2 DEF Coded
<1> HIDE DEF new, n
<1>11. Len(new.code[k]) = n + 1 /\ new.code[k][n + 1] = instr /\ \A i \in 1 .. n : new.code[k][i] = e.code[k][i]
  BY <1>1, <1>3, <1>5, <1>8 DEF n
<1>12. Grows(e, new, ty, ty)
  BY <1>7, <1>9 DEF Grows
<1>13. Straight(new, ty, k, n)
  BY <1>1, <1>9, <1>10, <1>11, <1>12, StraightKept
<1>14. Terminates(new, ty, k, instr, t)
  <2>1. \A c \in DOMAIN P : Weaker(t, P[c]) => c \in Nat /\ Meets(new, ty, k, t, c)
    BY <1>4, <1>7, <1>9, <1>10 DEF Meets
  <2> QED BY <1>7, <2>1 DEF Leads, Terminates
<1>15. Ended(new, ty, k)
  <2>1. (n + 1) - 1 = n /\ n + 1 > 0
    BY <1>9
  <2> QED BY <1>10, <1>11, <1>13, <1>14, <2>1 DEF Ended
<1>16. \A b \in DOMAIN e.code : b # k /\ b \notin O => Ended(new, ty, b)
  <2> SUFFICES ASSUME NEW b \in DOMAIN e.code, b # k, b \notin O
               PROVE  Ended(new, ty, b)
    OBVIOUS
  <2>1. Ended(e, ty, b)
    BY <1>2 DEF Coded
  <2> QED BY <1>3, <1>8, <1>12, <2>1, EndedKept
<1>17. Starts(new, ty)
  BY <1>7, <1>9, <1>10 DEF Starts
<1>18. Written(new, ty, O)
  BY <1>9, <1>15, <1>16, <1>17 DEF Written
<1> QED BY <1>7, <1>10, <1>18 DEF new

\* ... and emission goes on in an empty block.
LEMMA EndReady ==
  ASSUME NEW e, NEW t, NEW P, NEW O, Ready(e, t, P, O), NEW instr, Leads(e, P, instr, t), NEW b \in O
  PROVE  Ready(At(Emit(e, <<instr>>), b), P[b], P, O \ {b})
<1> DEFINE mid == Emit(e, <<instr>>)
           new == At(mid, b)
<1>1. /\ mid \in Compilers /\ mid.code = [e.code EXCEPT ![e.here] = Append(@, instr)]
      /\ mid.fnOf = e.fnOf /\ mid.owner = e.owner /\ mid.iters = e.iters
      /\ \E ty \in Typings : Written(mid, ty, O) /\ \A c \in DOMAIN P : ty[c][1] = P[c]
  BY EndWritten
<1>2. PICK ty \in Typings : Written(mid, ty, O) /\ \A c \in DOMAIN P : ty[c][1] = P[c]
  BY <1>1
<1>3. /\ Shaped(e) /\ O \subseteq DOMAIN P /\ DOMAIN P \subseteq DOMAIN e.code /\ e.here \notin O
      /\ (\A c \in DOMAIN P : e.fnOf[c] = Fn(e)) /\ (\A c \in O : e.code[c] = <<>>)
  BY DEF Ready
<1>4. e \in Compilers /\ e.here \in DOMAIN e.code /\ Len(e.fnOf) = Len(e.code) /\ e.fnOf[1] = 1 /\ e.code \in Seq(Seq(Instrs))
  BY <1>3 DEF Shaped, Compilers
<1>5. b \in Nat /\ b # e.here /\ b \in DOMAIN e.code /\ b \in DOMAIN P
  BY <1>3, <1>4
<1> HIDE DEF mid
<1>6. /\ new \in Compilers /\ new.code = mid.code /\ new.fnOf = mid.fnOf /\ new.here = b
      /\ new.owner = mid.owner /\ new.iters = mid.iters
  BY <1>1, <1>5 DEF At, Compilers
<1>7. DOMAIN new.code = DOMAIN e.code /\ Len(new.code) = Len(e.code) /\ \A c \in O : new.code[c] = <<>>
  BY <1>1, <1>3, <1>4, <1>6
<1> HIDE DEF new
<1>8. Shaped(new) /\ Fn(new) = Fn(e)
  BY <1>1, <1>3, <1>4, <1>5, <1>6, <1>7 DEF Shaped, Fn
<1>9. Starts(new, ty) /\ \A c \in DOMAIN e.code : c \notin O => Ended(new, ty, c)
  <2>1. Starts(mid, ty) /\ \A c \in DOMAIN mid.code : c \notin O => Ended(mid, ty, c)
    BY <1>2 DEF Written
  <2> QED BY <1>6, <1>7, <2>1 DEF Starts, Ended, Straight, Terminates, Moves, Meets
<1>10. Len(new.code[b]) = 0 /\ ty[b][0 + 1] = P[b] /\ Straight(new, ty, b, 0)
  BY <1>2, <1>5, <1>7 DEF Straight
<1>11. Coded(new, ty, P[b], P, O \ {b})
  BY <1>2, <1>6, <1>7, <1>9, <1>10 DEF Coded
<1> QED BY <1>1, <1>3, <1>6, <1>7, <1>8, <1>11 DEF Ready, new, mid
\* NewBlocks adds empty blocks, of the function at hand.
LEMMA NewBlocksFields ==
  ASSUME NEW e, Shaped(e), NEW n \in Nat
  PROVE  LET new == NewBlocks(e, n)
         IN /\ new \in Compilers
            /\ Len(new.code) = Len(e.code) + n /\ Len(new.fnOf) = Len(e.code) + n
            /\ \A b \in DOMAIN e.code : new.code[b] = e.code[b] /\ new.fnOf[b] = e.fnOf[b]
            /\ \A b \in Len(e.code) + 1 .. Len(e.code) + n : new.code[b] = <<>> /\ new.fnOf[b] = Fn(e)
            /\ Fn(new) = Fn(e)
            /\ new.here = e.here /\ new.owner = e.owner /\ new.iters = e.iters
            /\ new.scopes = e.scopes /\ new.slotOf = e.slotOf /\ new.pathSlot = e.pathSlot
            /\ new.loops = e.loops /\ new.nest = e.nest /\ new.size = e.size /\ new.plain = e.plain
<1> DEFINE new == NewBlocks(e, n)
           cs == [i \in 1 .. n |-> <<>>]
           fs == [i \in 1 .. n |-> Fn(e)]
<1>1. e \in Compilers /\ e.code \in Seq(Seq(Instrs)) /\ e.fnOf \in Seq(Nat) /\ Len(e.fnOf) = Len(e.code) /\ Len(e.code) \in Nat
  BY DEF Shaped, Compilers
<1>2. Fn(e) \in Nat
  BY <1>1 DEF Shaped
<1>3. cs \in Seq(Seq(Instrs)) /\ Len(cs) = n /\ fs \in Seq(Nat) /\ Len(fs) = n
  <2>1. <<>> \in Seq(Instrs)
    OBVIOUS
  <2>2. cs \in [1 .. n -> Seq(Instrs)] /\ fs \in [1 .. n -> Nat]
    BY <1>2, <2>1
  <2> QED BY <2>2
<1>4. /\ new = [e EXCEPT !.code = e.code \o cs, !.fnOf = e.fnOf \o fs]
      /\ \A i \in 1 .. n : cs[i] = <<>> /\ fs[i] = Fn(e)
  BY DEF NewBlocks
<1> HIDE DEF cs, fs
<1>5. e.code \o cs \in Seq(Seq(Instrs)) /\ e.fnOf \o fs \in Seq(Nat)
  BY <1>1, <1>3
<1>6. new \in Compilers /\ new.code = e.code \o cs /\ new.fnOf = e.fnOf \o fs
  BY <1>1, <1>4, <1>5 DEF Compilers
<1>7. /\ new.here = e.here /\ new.owner = e.owner /\ new.iters = e.iters
      /\ new.scopes = e.scopes /\ new.slotOf = e.slotOf /\ new.pathSlot = e.pathSlot
      /\ new.loops = e.loops /\ new.nest = e.nest /\ new.size = e.size /\ new.plain = e.plain
  BY <1>1, <1>4 DEF Compilers
<1> HIDE DEF new
<1>8. /\ Len(new.code) = Len(e.code) + n
      /\ \A b \in 1 .. Len(e.code) + n : new.code[b] = IF b <= Len(e.code) THEN e.code[b] ELSE cs[b - Len(e.code)]
  <2>1. Len(e.code \o cs) = Len(e.code) + Len(cs)
    BY <1>1, <1>3, ConcatProperties
  <2>2. \A b \in 1 .. Len(e.code) + Len(cs) : (e.code \o cs)[b] = IF b <= Len(e.code) THEN e.code[b] ELSE cs[b - Len(e.code)]
    BY <1>1, <1>3, ConcatProperties
  <2> QED BY <1>3, <1>6, <2>1, <2>2
<1>11. /\ Len(new.fnOf) = Len(e.code) + n
       /\ \A b \in 1 .. Len(e.code) + n : new.fnOf[b] = IF b <= Len(e.code) THEN e.fnOf[b] ELSE fs[b - Len(e.code)]
  <2>1. Len(e.fnOf \o fs) = Len(e.fnOf) + Len(fs)
    BY <1>1, <1>3, ConcatProperties
  <2>2. \A b \in 1 .. Len(e.fnOf) + Len(fs) : (e.fnOf \o fs)[b] = IF b <= Len(e.fnOf) THEN e.fnOf[b] ELSE fs[b - Len(e.fnOf)]
    BY <1>1, <1>3, ConcatProperties
  <2> QED BY <1>1, <1>3, <1>6, <2>1, <2>2
<1>9. \A b \in DOMAIN e.code : new.code[b] = e.code[b] /\ new.fnOf[b] = e.fnOf[b]
  <2>1. \A b \in DOMAIN e.code : b \in 1 .. Len(e.code) + n /\ b <= Len(e.code)
    BY <1>1
  <2> QED BY <1>8, <1>11, <2>1
<1>10. ASSUME NEW b \in Len(e.code) + 1 .. Len(e.code) + n
       PROVE  new.code[b] = <<>> /\ new.fnOf[b] = Fn(e)
  <2>1. b - Len(e.code) \in 1 .. n
    BY <1>1
  <2>2. new.code[b] = cs[b - Len(e.code)] /\ new.fnOf[b] = fs[b - Len(e.code)]
    <3>1. b \in 1 .. Len(e.code) + n /\ ~(b <= Len(e.code))
      BY <1>1
    <3> QED BY <1>8, <1>11, <3>1
  <2> QED BY <1>4, <2>1, <2>2
<1>12. Fn(new) = Fn(e)
  <2>1. CASE n = 0
    <3>1. Len(new.fnOf) = Len(e.fnOf) /\ Len(e.fnOf) \in DOMAIN e.code
      BY <1>1, <1>11, <2>1 DEF Shaped
    <3> QED BY <1>9, <3>1 DEF Fn, Last
  <2>2. CASE n > 0
    <3>1. Len(e.code) + n \in Len(e.code) + 1 .. Len(e.code) + n
      BY <1>1, <2>2
    <3> QED BY <1>10, <1>11, <3>1 DEF Fn, Last
  <2> QED BY <2>1, <2>2
<1> QED BY <1>6, <1>7, <1>8, <1>9, <1>10, <1>11, <1>12 DEF new

\* The expected types of some more blocks.
And(P, Q) == [b \in DOMAIN P \cup DOMAIN Q |-> IF b \in DOMAIN Q THEN Q[b] ELSE P[b]]

\* New blocks may expect any type at their beginnings.
LEMMA NewBlocksReady ==
  ASSUME NEW e, NEW t, NEW P, NEW O, Ready(e, t, P, O), NEW n \in Nat,
         NEW Q \in [Len(e.code) + 1 .. Len(e.code) + n -> Types]
  PROVE  Ready(NewBlocks(e, n), t, And(P, Q), O \cup DOMAIN Q)
<1> DEFINE new == NewBlocks(e, n)
           N == Len(e.code) + 1 .. Len(e.code) + n
<1>1. /\ Shaped(e) /\ O \subseteq DOMAIN P /\ DOMAIN P \subseteq DOMAIN e.code /\ e.here \notin O
      /\ (\A c \in DOMAIN P : e.fnOf[c] = Fn(e)) /\ (\A c \in O : e.code[c] = <<>>)
  BY DEF Ready
<1>2. PICK ty \in Typings : Coded(e, ty, t, P, O)
  BY DEF Ready
<1>3. /\ new \in Compilers
      /\ Len(new.code) = Len(e.code) + n /\ Len(new.fnOf) = Len(e.code) + n
      /\ \A b \in DOMAIN e.code : new.code[b] = e.code[b] /\ new.fnOf[b] = e.fnOf[b]
      /\ \A b \in N : new.code[b] = <<>> /\ new.fnOf[b] = Fn(e)
      /\ new.here = e.here /\ new.owner = e.owner /\ new.iters = e.iters
  BY <1>1, NewBlocksFields
<1>4. /\ e \in Compilers /\ e.here \in DOMAIN e.code /\ Len(e.fnOf) = Len(e.code) /\ e.fnOf[1] = 1 /\ e.fnOf[e.here] = Fn(e)
      /\ e.code \in Seq(Seq(Instrs)) /\ e.fnOf \in Seq(Nat) /\ new.code \in Seq(Seq(Instrs)) /\ new.fnOf \in Seq(Nat)
  BY <1>1, <1>3 DEF Shaped, Compilers
<1> HIDE DEF new
<1>5. DOMAIN e.code = 1 .. Len(e.code) /\ DOMAIN new.code = 1 .. Len(e.code) + n /\ Len(e.code) \in Nat /\ 1 \in DOMAIN e.code
  BY <1>3, <1>4
<1>6. DOMAIN new.code = DOMAIN e.code \cup N /\ DOMAIN e.code \cap N = {} /\ DOMAIN new.code \subseteq Nat
  BY <1>5
<1>7. Fn(new) = Fn(e)
  BY <1>1, NewBlocksFields DEF new
<1> DEFINE ty2 == [b \in Nat |-> IF b \in N THEN [i \in Nat |-> Q[b]] ELSE ty[b]]
<1>8. ty2 \in Typings /\ \A b \in Nat : ty2[b] = IF b \in N THEN [i \in Nat |-> Q[b]] ELSE ty[b]
  BY DEF Typings
<1>9. (\A b \in DOMAIN e.code : ty2[b] = ty[b]) /\ (\A b \in N : ty2[b][1] = Q[b])
  BY <1>5, <1>6, <1>8
<1>10. \A b \in DOMAIN e.code : Len(e.code[b]) \in Nat
  BY <1>4
<1> HIDE DEF ty2, N
<1>11. Grows(e, new, ty, ty2)
  BY <1>3, <1>6, <1>9 DEF Grows
<1>12. Starts(new, ty2)
  <2> SUFFICES ASSUME NEW b \in DOMAIN new.code, \A c \in 1 .. b - 1 : new.fnOf[c] # new.fnOf[b]
               PROVE  ty2[b][1] = Nil
    BY DEF Starts
  <2>1. CASE b \in DOMAIN e.code
    <3>1. \A c \in 1 .. b - 1 : c \in DOMAIN e.code
      BY <1>5, <2>1
    <3>2. \A c \in 1 .. b - 1 : e.fnOf[c] # e.fnOf[b]
      BY <1>3, <2>1, <3>1
    <3> QED BY <1>2, <1>9, <2>1, <3>2 DEF Coded, Starts
  <2>2. CASE b \in N
    <3>1. e.here \in 1 .. b - 1
      <4>1. e.here \in 1 .. Len(e.code) /\ Len(e.code) \in Nat
        BY <1>4, <1>5
      <4> QED BY <2>2, <4>1 DEF N
    <3>2. new.fnOf[e.here] = new.fnOf[b]
      BY <1>3, <1>4, <2>2
    <3> QED BY <3>1, <3>2
  <2> QED BY <1>6, <2>1, <2>2
<1>13. Straight(new, ty2, new.here, Len(new.code[new.here])) /\ ty2[new.here][Len(new.code[new.here]) + 1] = t
  <2>1. Straight(e, ty, e.here, Len(e.code[e.here])) /\ ty[e.here][Len(e.code[e.here]) + 1] = t
    BY <1>2 DEF Coded
  <2>2. Straight(new, ty2, e.here, Len(e.code[e.here]))
    <3>1. new.code[e.here] = e.code[e.here] /\ ty2[e.here] = ty[e.here] /\ Len(e.code[e.here]) \in Nat
      BY <1>3, <1>4, <1>9, <1>10
    <3>2. \A i \in 1 .. Len(e.code[e.here]) : new.code[e.here][i] = e.code[e.here][i]
      BY <3>1
    <3>3. \A i \in 1 .. Len(e.code[e.here]) + 1 : ty2[e.here][i] = ty[e.here][i]
      BY <3>1
    <3>4. e.here \in DOMAIN e.code /\ Len(e.code[e.here]) \in Nat
      BY <1>4, <3>1
    <3> QED BY <1>11, <2>1, <3>2, <3>3, <3>4, StraightKept
  <2>3. new.here = e.here /\ e.here \in DOMAIN e.code
    BY <1>3, <1>4
  <2>4. new.code[new.here] = e.code[e.here] /\ ty2[e.here] = ty[e.here]
    BY <1>3, <1>9, <2>3
  <2> QED BY <2>1, <2>2, <2>3, <2>4
<1>14. \A b \in DOMAIN And(P, Q) : ty2[b][1] = And(P, Q)[b]
  BY <1>1, <1>2, <1>6, <1>9 DEF And, Coded, N
<1>15. \A b \in DOMAIN new.code : b # new.here /\ b \notin O \cup DOMAIN Q => Ended(new, ty2, b)
  <2> SUFFICES ASSUME NEW b \in DOMAIN e.code, b # e.here, b \notin O
               PROVE  Ended(new, ty2, b)
    BY <1>3, <1>6 DEF N
  <2>1. Ended(e, ty, b)
    BY <1>2 DEF Coded
  <2> QED BY <1>3, <1>9, <1>10, <1>11, <2>1, EndedKept
<1>16. Coded(new, ty2, t, And(P, Q), O \cup DOMAIN Q)
  BY <1>8, <1>12, <1>13, <1>14, <1>15 DEF Coded
<1>17. DOMAIN Q = N /\ DOMAIN And(P, Q) = DOMAIN P \cup N
  BY DEF And, N
<1>18. O \cup DOMAIN Q \subseteq DOMAIN And(P, Q) /\ DOMAIN And(P, Q) \subseteq DOMAIN new.code /\ new.here \notin O \cup DOMAIN Q
  BY <1>1, <1>3, <1>4, <1>6, <1>17
<1>19. (\A b \in DOMAIN And(P, Q) : new.fnOf[b] = Fn(new)) /\ (\A b \in O \cup DOMAIN Q : new.code[b] = <<>>)
  BY <1>1, <1>3, <1>6, <1>7, <1>17
<1>20. Shaped(new)
  BY <1>3, <1>4, <1>5, <1>6, <1>7 DEF Shaped
<1> QED BY <1>8, <1>16, <1>18, <1>19, <1>20 DEF Ready, new

\* What else the compiler keeps does not matter to the code; slots are added.
LEMMA SameCodeReady ==
  ASSUME NEW e, NEW t, NEW P, NEW O, Ready(e, t, P, O), NEW new \in Compilers,
         new.code = e.code, new.fnOf = e.fnOf, new.here = e.here, e.iters \subseteq new.iters,
         \A s \in DOMAIN e.owner : s \in DOMAIN new.owner /\ new.owner[s] = e.owner[s]
  PROVE  Ready(new, t, P, O)
<1>1. /\ Shaped(e) /\ O \subseteq DOMAIN P /\ DOMAIN P \subseteq DOMAIN e.code /\ e.here \notin O
      /\ (\A c \in DOMAIN P : e.fnOf[c] = Fn(e)) /\ (\A c \in O : e.code[c] = <<>>)
  BY DEF Ready
<1>2. PICK ty \in Typings : Coded(e, ty, t, P, O)
  BY DEF Ready
<1>3. Shaped(new) /\ Fn(new) = Fn(e)
  BY <1>1 DEF Shaped, Fn
<1>4. e.here \in DOMAIN e.code /\ \A b \in DOMAIN e.code : Len(e.code[b]) \in Nat
  BY <1>1 DEF Shaped, Compilers
<1>5. Grows(e, new, ty, ty)
  BY DEF Grows
<1>6. Straight(new, ty, e.here, Len(e.code[e.here]))
  BY <1>2, <1>4, <1>5, StraightKept DEF Coded
<1>7. \A b \in DOMAIN e.code : b # e.here /\ b \notin O => Ended(new, ty, b)
  BY <1>2, <1>4, <1>5, EndedKept DEF Coded
<1>8. Coded(new, ty, t, P, O)
  BY <1>2, <1>6, <1>7 DEF Coded, Starts
<1> QED BY <1>1, <1>2, <1>3, <1>8 DEF Ready
-----------------------------------------------------------------------------
(* Releases: a call for each slot of a set, in any order.                  *)

Releases(cs, A) ==
  /\ cs \in Seq({"close", "free"} \X A)
  /\ \A i, j \in 1 .. Len(cs) : cs[i][2] = cs[j][2] => i = j
  /\ \A s \in A : \E i \in 1 .. Len(cs) : cs[i][2] = s

\* SetToSeq lists a finite set without repetition.
LEMMA SetListed ==
  ASSUME NEW A, IsFiniteSet(A)
  PROVE  /\ Cardinality(A) \in Nat /\ SetToSeq(A) \in [1 .. Cardinality(A) -> A]
         /\ \A i, j \in 1 .. Cardinality(A) : SetToSeq(A)[i] = SetToSeq(A)[j] => i = j
         /\ \A s \in A : \E i \in 1 .. Cardinality(A) : SetToSeq(A)[i] = s
<1> DEFINE n == Cardinality(A)
           f == SetToSeq(A)
<1>1. n \in Nat /\ ExistsBijection(1 .. n, A)
  BY FS_CardinalityType
<1>2. \E g \in [1 .. n -> A] : IsInjective(g)
  BY <1>1 DEF ExistsBijection, Bijection, Injection, IsInjective
<1>3. f \in [1 .. n -> A] /\ IsInjective(f)
  BY <1>2 DEF SetToSeq
<1> HIDE DEF n, f
<1>4. \A i, j \in 1 .. n : f[i] = f[j] => i = j
  BY <1>3 DEF IsInjective
<1>5. f \in Injection(1 .. n, A)
  BY <1>3 DEF IsInjective, Injection
<1>6. Cardinality(1 .. n) = n
  BY <1>1, FS_Interval
<1>7. f \in Surjection(1 .. n, A)
  BY <1>5, <1>6, FS_Injection DEF n
<1>8. \A s \in A : \E i \in 1 .. n : f[i] = s
  BY <1>7 DEF Surjection
<1> QED BY <1>1, <1>3, <1>4, <1>8 DEF n, f

\* Calls makes one call for each slot.
LEMMA CallsRelease ==
  ASSUME NEW A, IsFiniteSet(A), NEW op \in {"close", "free"}
  PROVE  Releases(Calls(op, A), A)
<1> DEFINE n == Cardinality(A)
           f == SetToSeq(A)
<1>1. /\ n \in Nat /\ f \in [1 .. n -> A]
      /\ \A i, j \in 1 .. n : f[i] = f[j] => i = j
      /\ \A s \in A : \E i \in 1 .. n : f[i] = s
  BY SetListed
<1> HIDE DEF n, f
<1>2. Calls(op, A) = [i \in 1 .. n |-> <<op, f[i]>>]
  BY DEF Calls, n, f
<1>3. [i \in 1 .. n |-> <<op, f[i]>>] \in Seq({"close", "free"} \X A)
  <2>1. [i \in 1 .. n |-> <<op, f[i]>>] \in [1 .. n -> {"close", "free"} \X A]
    BY <1>1
  <2> QED BY <1>1, <2>1
<1>4. Len(Calls(op, A)) = n /\ \A i \in 1 .. n : Calls(op, A)[i][2] = f[i]
  BY <1>1, <1>2
<1> QED BY <1>1, <1>2, <1>3, <1>4 DEF Releases

\* Two lists of calls for different slots are one.
LEMMA ReleasesConcat ==
  ASSUME NEW A, NEW B, NEW as, NEW bs, Releases(as, A), Releases(bs, B), A \cap B = {}
  PROVE  Releases(as \o bs, A \cup B)
<1> DEFINE U == {"close", "free"} \X (A \cup B)
           n == Len(as)
           m == Len(bs)
           cs == as \o bs
<1>1. as \in Seq({"close", "free"} \X A) /\ bs \in Seq({"close", "free"} \X B)
  BY DEF Releases
<1>2. as \in Seq(U) /\ bs \in Seq(U)
  <2>1. {"close", "free"} \X A \subseteq U /\ {"close", "free"} \X B \subseteq U
    OBVIOUS
  <2> QED BY <1>1, <2>1, SeqMonotonic
<1>3. n \in Nat /\ m \in Nat /\ (\A i \in 1 .. n : as[i][2] \in A) /\ (\A i \in 1 .. m : bs[i][2] \in B)
  <2>1. \A i \in 1 .. n : as[i] \in {"close", "free"} \X A
    BY <1>1, ElementOfSeq
  <2>2. \A i \in 1 .. m : bs[i] \in {"close", "free"} \X B
    BY <1>1, ElementOfSeq
  <2>3. n \in Nat /\ m \in Nat
    BY <1>1, LenProperties
  <2> QED BY <2>1, <2>2, <2>3
<1>4. /\ cs \in Seq(U) /\ Len(cs) = n + m
      /\ \A i \in 1 .. n + m : cs[i] = IF i <= n THEN as[i] ELSE bs[i - n]
  BY <1>2, ConcatProperties
<1> HIDE DEF n, m, cs
<1>5. ASSUME NEW i \in 1 .. n + m, i <= n
      PROVE  i \in 1 .. n /\ cs[i] = as[i] /\ cs[i][2] \in A
  <2>1. i \in 1 .. n
    BY <1>3, <1>5
  <2>2. cs[i] = as[i]
    BY <1>4, <1>5
  <2> QED BY <1>3, <2>1, <2>2
<1>6. ASSUME NEW i \in 1 .. n + m, ~(i <= n)
      PROVE  i - n \in 1 .. m /\ cs[i] = bs[i - n] /\ cs[i][2] \in B
  <2>1. i - n \in 1 .. m
    BY <1>3, <1>6
  <2>2. cs[i] = bs[i - n]
    BY <1>4, <1>6
  <2> QED BY <1>3, <2>1, <2>2
<1>7. ASSUME NEW i \in 1 .. n + m, NEW j \in 1 .. n + m, cs[i][2] = cs[j][2]
      PROVE  i = j
  <2>1. CASE i <= n /\ j <= n
    BY ZenonT(60), <1>5, <1>7, <2>1 DEF Releases, n
  <2>2. CASE ~(i <= n) /\ ~(j <= n)
    <3>1. i - n \in 1 .. m /\ j - n \in 1 .. m /\ bs[i - n][2] = bs[j - n][2]
      BY <1>6, <1>7, <2>2
    <3>2. i - n = j - n
      BY <3>1 DEF Releases, m
    <3> QED BY <1>3, <3>2
  <2> QED BY <1>5, <1>6, <1>7, <2>1, <2>2
<1>8. ASSUME NEW s \in A \cup B
      PROVE  \E i \in 1 .. n + m : cs[i][2] = s
  <2>1. CASE s \in A
    <3>1. PICK i \in 1 .. n : as[i][2] = s
      BY <2>1 DEF Releases, n
    <3>2. i \in 1 .. n + m /\ i <= n
      BY <1>3
    <3> QED BY <1>5, <3>1, <3>2
  <2>2. CASE s \in B
    <3>1. PICK i \in 1 .. m : bs[i][2] = s
      BY <2>2 DEF Releases, m
    <3>2. i + n \in 1 .. n + m /\ ~(i + n <= n) /\ (i + n) - n = i
      BY <1>3
    <3> QED BY <1>6, <3>1, <3>2
  <2> QED BY <2>1, <2>2
<1> QED BY <1>4, <1>7, <1>8 DEF Releases, cs

\* After its releases a set of slots owns nothing.
LEMMA ReleaseReady ==
  ASSUME NEW e, NEW t \in Types, NEW P, NEW O, Ready(e, t, P, O), NEW A, NEW cs, Releases(cs, A),
         A \subseteq t.h \cup t.z, A \subseteq DOMAIN e.owner, \A s \in A : e.owner[s] = Fn(e)
  PROVE  Ready(Emit(e, cs), [h |-> t.h \ A, z |-> t.z], P, O)
<1> DEFINE n == Len(cs)
           done(i) == {cs[j][2] : j \in {k \in 1 .. n : k < i}}
           tt == [i \in Nat |-> [h |-> t.h \ done(i), z |-> t.z]]
<1>1. cs \in Seq({"close", "free"} \X A) /\ A \subseteq Nat
  BY DEF Releases, Types
<1>2. n \in Nat /\ \A i \in 1 .. n : \E op \in {"close", "free"}, s \in A : cs[i] = <<op, s>>
  BY <1>1
<1>3. cs \in Seq(Instrs)
  <2>1. {"close", "free"} \X A \subseteq Instrs
    BY <1>1 DEF Instrs, Ops
  <2> QED BY <1>1, <2>1, SeqMonotonic
<1>4. t.h \subseteq Nat /\ t.z \subseteq Nat
  BY DEF Types
<1>5. \A i \in Nat : tt[i] = [h |-> t.h \ done(i), z |-> t.z]
  OBVIOUS
<1>6. tt \in [Nat -> Types]
  BY <1>4 DEF Types
<1>7. tt[1] = t
  <2>1. done(1) = {}
    BY <1>2
  <2>2. t = [h |-> t.h, z |-> t.z]
    BY DEF Types
  <2>3. t.h \ done(1) = t.h
    BY <2>1
  <2> HIDE DEF done
  <2> QED BY <1>5, <2>2, <2>3
<1>8. n + 1 \in Nat /\ done(n + 1) = A
  <2>1. {k \in 1 .. n : k < n + 1} = 1 .. n
    BY <1>2
  <2>2. \A i \in 1 .. n : cs[i][2] \in A
    BY <1>2
  <2>3. \A s \in A : \E i \in 1 .. n : cs[i][2] = s
    BY DEF Releases
  <2> QED BY <1>2, <2>1, <2>2, <2>3
<1>9. ASSUME NEW i \in 1 .. n
      PROVE  Moves(e, Fn(e), cs[i], tt[i], tt[i + 1])
  <2>1. PICK op \in {"close", "free"}, s \in A : cs[i] = <<op, s>>
    BY <1>2
  <2>2. cs[i][2] = s
    BY <2>1
  <2>3. i \in Nat /\ i + 1 \in Nat
    BY <1>2
  <2>4. \A k \in 1 .. n : k < i + 1 <=> k < i \/ k = i
    BY <1>2
  <2>5. done(i + 1) = done(i) \cup {s}
    BY <2>2, <2>4
  <2>6. s \notin done(i)
    <3> SUFFICES ASSUME NEW k \in 1 .. n, k < i, cs[k][2] = s
                 PROVE  FALSE
      OBVIOUS
    <3>1. k = i
      BY <2>2 DEF Releases
    <3> QED BY <2>3, <3>1
  <2> HIDE DEF done
  <2>7. tt[i] = [h |-> t.h \ done(i), z |-> t.z] /\ tt[i + 1] = [h |-> t.h \ done(i + 1), z |-> t.z]
    BY <1>5, <2>3
  <2> HIDE DEF tt
  <2>8. (t.h \ done(i)) \ {s} = t.h \ done(i + 1)
    BY <2>5
  <2>9. s \in tt[i].h \cup tt[i].z
    BY <2>6, <2>7
  <2>10. Flow(op, s, tt[i], tt[i + 1])
    BY <2>7, <2>8, <2>9 DEF Flow, Weaker
  <2> QED BY <2>1, <2>10 DEF Moves, Ops
<1> HIDE DEF done
<1>10. tt[n + 1] = [h |-> t.h \ A, z |-> t.z]
  BY <1>5, <1>8
<1> HIDE DEF tt
<1>11. Ready(Emit(e, cs), tt[n + 1], P, O)
  BY <1>3, <1>6, <1>7, <1>9, EmitReady
<1> QED BY <1>10, <1>11
-----------------------------------------------------------------------------
(* The scopes.  What the slots of a scope are is read off the compiler.    *)

FilesOf(e, i) == {e.slotOf[n] : n \in ToSet(e.scopes[i].files)}
StringsOf(e, i) == ToSet(e.scopes[i].strings)
DynamicsOf(e, i) == ToSet(e.scopes[i].dynamics)
Regs(e, i) == FilesOf(e, i) \cup StringsOf(e, i) \cup DynamicsOf(e, i)

\* The slots of the function at hand.
Mine(e) == {s \in DOMAIN e.owner : e.owner[s] = Fn(e)}

\* A slot is released as one kind of thing.
Kinds(e, i) ==
  /\ FilesOf(e, i) \cap StringsOf(e, i) = {}
  /\ FilesOf(e, i) \cap DynamicsOf(e, i) = {}
  /\ StringsOf(e, i) \cap DynamicsOf(e, i) = {}

\* A scope for the function and one for each open block; a slot is in one scope,
\* or it holds what one open loop goes through.
Scoped(e) ==
  /\ Len(e.scopes) = Len(e.nest) + 1 /\ e.iters \subseteq DOMAIN e.owner
  /\ \A i \in DOMAIN e.scopes : Regs(e, i) \subseteq Mine(e) \ e.iters /\ Kinds(e, i)
  /\ \A i, j \in DOMAIN e.scopes : i # j => Regs(e, i) \cap Regs(e, j) = {}
  /\ \A i \in DOMAIN e.nest : e.nest[i].slot \in {0} \cup (Mine(e) \cap e.iters)
  /\ \A i, j \in DOMAIN e.nest : i # j /\ e.nest[i].slot # 0 => e.nest[i].slot # e.nest[j].slot

\* What is owned outside of block i, and at the insert point.
Level(e, i) == (UNION {Regs(e, j) : j \in 1 .. i}) \cup ({e.nest[j].slot : j \in 1 .. i} \ {0})
Held(e) == Level(e, Len(e.nest)) \cup Regs(e, Len(e.nest) + 1)

Owns(A) == [h |-> A, z |-> {}]

\* The shapes that the definitions above read.
LEMMA ScopeShapes ==
  ASSUME NEW e \in Compilers, Scoped(e)
  PROVE  /\ e.scopes \in Seq(Scopes) /\ DOMAIN e.scopes = 1 .. Len(e.nest) + 1 /\ Len(e.nest) \in Nat
         /\ DOMAIN e.nest = 1 .. Len(e.nest) /\ e.nest \in Seq(Nested)
         /\ DOMAIN e.owner = 1 .. Len(e.owner) /\ Len(e.owner) \in Nat
         /\ \A i \in DOMAIN e.scopes : e.scopes[i] \in Scopes
BY DEF Compilers, Scoped

\* Cleanup releases the slots of some scopes, each once.
LEMMA CleanupReleases ==
  ASSUME NEW e \in Compilers, Scoped(e), NEW I \in SUBSET DOMAIN e.scopes
  PROVE  Releases(Cleanup(e, {e.scopes[i] : i \in I}), UNION {Regs(e, i) : i \in I})
<1> DEFINE S == {e.scopes[i] : i \in I}
           F == UNION {FilesOf(e, i) : i \in I}
           G == UNION {StringsOf(e, i) : i \in I}
           D == UNION {DynamicsOf(e, i) : i \in I}
<1>1. \A i \in I : Regs(e, i) \subseteq DOMAIN e.owner /\ Kinds(e, i)
  BY DEF Scoped, Mine
<1>2. DOMAIN e.owner = 1 .. Len(e.owner) /\ Len(e.owner) \in Nat
  BY ScopeShapes
<1>3. F \subseteq DOMAIN e.owner /\ G \subseteq DOMAIN e.owner /\ D \subseteq DOMAIN e.owner
  BY <1>1 DEF Regs
<1>4. IsFiniteSet(F) /\ IsFiniteSet(G) /\ IsFiniteSet(D)
  <2>1. IsFiniteSet(1 .. Len(e.owner))
    <3>1. Len(e.owner) \in Int /\ 1 \in Int
      BY <1>2
    <3> QED BY <3>1, FS_Interval, Zenon
  <2> HIDE DEF F, G, D
  <2> QED BY <1>2, <1>3, <2>1, FS_Subset
<1>5. \A i, j \in I : i # j => Regs(e, i) \cap Regs(e, j) = {}
  BY DEF Scoped
<1>6. F \cap G = {} /\ (F \cup G) \cap D = {}
  <2>1. \A i, j \in I : /\ FilesOf(e, i) \cap StringsOf(e, j) = {}
                        /\ FilesOf(e, i) \cap DynamicsOf(e, j) = {}
                        /\ StringsOf(e, i) \cap DynamicsOf(e, j) = {}
    BY <1>1, <1>5 DEF Kinds, Regs
  <2> QED BY <2>1
<1>7. {e.slotOf[n] : n \in UNION {ToSet(s.files) : s \in S}} \ {0} = F
  <2>1. {e.slotOf[n] : n \in UNION {ToSet(s.files) : s \in S}} = F
    BY DEF FilesOf
  <2>2. 0 \notin F
    BY <1>2, <1>3
  <2> QED BY <2>1, <2>2
<1>8. UNION {ToSet(s.strings) : s \in S} = G /\ UNION {ToSet(s.dynamics) : s \in S} = D
  BY DEF StringsOf, DynamicsOf
<1>9. Cleanup(e, S) = (Calls("close", F) \o Calls("close", G)) \o Calls("free", D)
  BY <1>7, <1>8 DEF Cleanup
<1>10. UNION {Regs(e, i) : i \in I} = (F \cup G) \cup D
  BY DEF Regs
<1> HIDE DEF F, G, D, S
<1>11. Releases(Calls("close", F) \o Calls("close", G), F \cup G)
  BY <1>4, <1>6, CallsRelease, ReleasesConcat
<1>12. Releases((Calls("close", F) \o Calls("close", G)) \o Calls("free", D), (F \cup G) \cup D)
  BY <1>4, <1>6, <1>11, CallsRelease, ReleasesConcat
<1> QED BY <1>9, <1>10, <1>12 DEF S
\* A wider view of what is expected may be narrowed.
LEMMA ReadyForget ==
  ASSUME NEW e, NEW t, NEW P, NEW O, Ready(e, t, P, O), NEW P2,
         O \subseteq DOMAIN P2, DOMAIN P2 \subseteq DOMAIN P, \A b \in DOMAIN P2 : P2[b] = P[b]
  PROVE  Ready(e, t, P2, O)
<1>1. PICK ty \in Typings : Coded(e, ty, t, P, O)
  BY DEF Ready
<1>2. Coded(e, ty, t, P2, O)
  BY <1>1 DEF Coded
<1> QED BY <1>1, <1>2 DEF Ready

\* The insert point is in a block that goes on.
LEMMA ReadyOpen ==
  ASSUME NEW e, NEW t, NEW P, NEW O, Ready(e, t, P, O)
  PROVE  ~Terminated(e)
<1> DEFINE n == Len(e.code[e.here])
<1>1. e.here \in DOMAIN e.code /\ e.code[e.here] \in Seq(Instrs) /\ n \in Nat
  BY DEF Ready, Shaped, Compilers
<1>2. PICK ty \in Typings : Straight(e, ty, e.here, n)
  BY DEF Ready, Coded
<1>3. CASE n > 0
  <2>1. n \in 1 .. n
    BY <1>1, <1>3
  <2>2. PICK op \in Ops, s \in DOMAIN e.owner : e.code[e.here][n] = <<op, s>>
    BY <1>2, <2>1 DEF Straight, Moves
  <2>3. e.code[e.here][n][1] \notin {"br", "cond", "ret"}
    BY <2>2 DEF Ops
  <2> QED BY <2>3 DEF Terminated, Last
<1>4. CASE n = 0
  BY <1>1, <1>4 DEF Terminated
<1> QED BY <1>1, <1>3, <1>4

\* Two compilers that have the same scopes, and more.
SameScopes(e, new) ==
  /\ new.scopes = e.scopes /\ new.slotOf = e.slotOf /\ new.nest = e.nest
  /\ new.owner = e.owner /\ new.iters = e.iters /\ Fn(new) = Fn(e)
Same(e, new) ==
  /\ new \in Compilers /\ SameScopes(e, new)
  /\ new.pathSlot = e.pathSlot /\ new.loops = e.loops /\ new.size = e.size /\ new.plain = e.plain

\* What changes the code only.
LEMMA CodeOnly ==
  ASSUME NEW e, Shaped(e)
  PROVE  /\ Same(e, e)
         /\ \A cs \in Seq(Instrs) : Same(e, Emit(e, cs))
         /\ \A n \in Nat : Same(e, NewBlocks(e, n))
         /\ \A b \in Nat : Same(e, At(e, b))
<1>1. e \in Compilers /\ e.here \in DOMAIN e.code
  BY DEF Shaped
<1>2. \A cs \in Seq(Instrs) : Same(e, Emit(e, cs))
  BY <1>1, EmitFields DEF Same, SameScopes, Fn
<1>3. \A n \in Nat : Same(e, NewBlocks(e, n))
  BY NewBlocksFields DEF Same, SameScopes
<1>4. \A b \in Nat : Same(e, At(e, b))
  BY <1>1 DEF Same, SameScopes, Fn, At, Compilers
<1> QED BY <1>1, <1>2, <1>3, <1>4 DEF Same, SameScopes

\* One after the other.
LEMMA SameTransitive ==
  ASSUME NEW e, NEW mid, NEW new, Same(e, mid), Same(mid, new)
  PROVE  Same(e, new)
BY DEF Same, SameScopes

\* A block is completed, and emission goes on elsewhere.
LEMMA EndSame ==
  ASSUME NEW e, NEW t, NEW P, NEW O, Ready(e, t, P, O), NEW instr, Leads(e, P, instr, t), NEW b \in Nat
  PROVE  Same(e, At(Emit(e, <<instr>>), b)) /\ Same(e, Emit(e, <<instr>>))
<1>1. Shaped(e) /\ DOMAIN P \subseteq Nat
  <2>1. Shaped(e) /\ e \in Compilers /\ DOMAIN P \subseteq DOMAIN e.code
    BY DEF Ready, Shaped
  <2>2. e.code \in Seq(Seq(Instrs))
    BY <2>1 DEF Compilers
  <2> QED BY <2>1, <2>2
<1>2. <<instr>> \in Seq(Instrs)
  <2>1. instr \in Instrs
    BY <1>1 DEF Leads, Instrs
  <2> QED BY <2>1
<1>3. Same(e, Emit(e, <<instr>>))
  BY <1>1, <1>2, CodeOnly
<1> DEFINE mid == Emit(e, <<instr>>)
<1> HIDE DEF mid
<1>4. Same(e, mid)
  BY <1>3 DEF mid
<1>5. Same(e, At(mid, b))
  BY <1>4 DEF Same, SameScopes, At, Fn, Compilers
<1> QED BY <1>4, <1>5 DEF mid

\* To emit twice is to emit both.
LEMMA EmitTwice ==
  ASSUME NEW e, Shaped(e), NEW as \in Seq(Instrs), NEW bs \in Seq(Instrs)
  PROVE  Emit(Emit(e, as), bs) = Emit(e, as \o bs)
<1>1. e \in Compilers /\ e.here \in DOMAIN e.code /\ e.code \in Seq(Seq(Instrs)) /\ e.code[e.here] \in Seq(Instrs)
  BY DEF Shaped, Compilers
<1>2. (e.code[e.here] \o as) \o bs = e.code[e.here] \o (as \o bs)
  <2>1. \A a, b, c \in Seq(Instrs) : (a \o b) \o c = a \o (b \o c)
    BY ConcatAssociative
  <2> QED BY <1>1, <2>1
<1> QED BY <1>1, <1>2 DEF Emit, Compilers

\* They own the same.
LEMMA SameHeld ==
  ASSUME NEW e, NEW new, SameScopes(e, new)
  PROVE  /\ Scoped(e) => Scoped(new)
         /\ \A i : Regs(new, i) = Regs(e, i) /\ Level(new, i) = Level(e, i)
         /\ Held(new) = Held(e)
<1>1. \A i : FilesOf(new, i) = FilesOf(e, i) /\ StringsOf(new, i) = StringsOf(e, i) /\ DynamicsOf(new, i) = DynamicsOf(e, i)
  BY DEF SameScopes, FilesOf, StringsOf, DynamicsOf
<1>2. \A i : Regs(new, i) = Regs(e, i)
  BY <1>1 DEF Regs
<1>3. \A i : Level(new, i) = Level(e, i)
  BY <1>2 DEF Level, SameScopes
<1>4. Scoped(e) => Scoped(new)
  BY <1>1, <1>2 DEF Scoped, SameScopes, Mine, Kinds
<1> QED BY <1>2, <1>3, <1>4 DEF Held, SameScopes

Registered(e) == UNION {Regs(e, i) : i \in DOMAIN e.scopes}

\* A check that fails releases everything that is registered, and returns with
\* nothing but what the loops go through.
LEMMA GuardedReady ==
  ASSUME NEW e, NEW t \in Types, NEW P, NEW O, Ready(e, t, P, O), Scoped(e),
         Registered(e) \subseteq t.h \cup t.z, t.h \subseteq Registered(e) \cup e.iters,
         NEW checked \in BOOLEAN
  PROVE  Ready(Guarded(e, checked), t, P, O) /\ Same(e, Guarded(e, checked))
<1> DEFINE N == Len(e.code)
           abort == NextBlock(e)
           cont == abort + 1
           Q == [b \in N + 1 .. N + 2 |-> t]
           PQ == And(P, Q)
           split == <<"cond", abort, cont>>
           wide == NewBlocks(e, 2)
           inside == At(Emit(wide, <<split>>), abort)
           clean == ActiveCleanup(e)
           done == Emit(inside, clean)
           new == At(Emit(done, << <<"ret">> >>), cont)
<1>1. Shaped(e) /\ e \in Compilers /\ N \in Nat /\ abort = N + 1 /\ cont = N + 2
  BY DEF Ready, Shaped, Compilers, NextBlock
<1>2. CASE ~checked
  BY <1>1, <1>2, CodeOnly DEF Guarded
<1>3. CASE checked
  <2>1. /\ DOMAIN Q = {abort, cont} /\ DOMAIN PQ = DOMAIN P \cup {abort, cont} /\ abort # cont
        /\ DOMAIN P \cap {abort, cont} = {} /\ O \subseteq DOMAIN P /\ abort \in Nat /\ cont \in Nat
    <3>1. N + 1 .. N + 2 = {N + 1, N + 2}
      BY <1>1
    <3>2. DOMAIN Q = {abort, cont}
      BY <1>1, <3>1
    <3>3. DOMAIN PQ = DOMAIN P \cup {abort, cont}
      BY <3>2 DEF And
    <3>4. DOMAIN P \subseteq 1 .. N /\ O \subseteq DOMAIN P
      BY DEF Ready, Shaped, Compilers
    <3> HIDE DEF Q, PQ, abort
    <3> QED BY <1>1, <3>2, <3>3, <3>4
  <2>2. PQ[abort] = t /\ PQ[cont] = t /\ \A b \in DOMAIN P : PQ[b] = P[b]
    BY <2>1 DEF And
  <2>3. Ready(wide, t, PQ, O \cup {abort, cont})
    <3>1. Q \in [N + 1 .. N + 2 -> Types]
      OBVIOUS
    <3> HIDE DEF Q
    <3> QED BY <2>1, <3>1, NewBlocksReady
  <2>4. Same(e, wide)
    BY <1>1, CodeOnly
  <2> HIDE DEF Q, PQ, abort, cont, wide
  <2>5. Weaker(t, t)
    BY DEF Weaker
  <2>6. Leads(wide, PQ, split, t)
    BY <2>1, <2>2, <2>5 DEF Leads
  <2>7. Ready(inside, t, PQ, (O \cup {abort, cont}) \ {abort})
    BY <2>2, <2>3, <2>6, EndReady
  <2>8. Same(wide, inside)
    BY <2>1, <2>3, <2>6, EndSame
  <2>9. Same(e, inside)
    BY <2>4, <2>8, SameTransitive
  <2> HIDE DEF inside
  <2>10. Releases(clean, Registered(e))
    <3>1. ToSet(e.scopes) = {e.scopes[i] : i \in DOMAIN e.scopes}
      BY DEF ToSet
    <3> QED BY <1>1, <3>1, CleanupReleases DEF ActiveCleanup, Registered
  <2>11. Registered(e) \subseteq DOMAIN inside.owner /\ \A s \in Registered(e) : inside.owner[s] = Fn(inside)
    BY <2>9 DEF Registered, Scoped, Mine, Same, SameScopes
  <2> DEFINE u == [h |-> t.h \ Registered(e), z |-> t.z]
  <2>12. Ready(done, u, PQ, (O \cup {abort, cont}) \ {abort})
    BY <2>7, <2>10, <2>11, ReleaseReady
  <2>13. clean \in Seq(Instrs)
    <3>1. Registered(e) \subseteq Nat
      BY DEF Types
    <3>2. {"close", "free"} \X Registered(e) \subseteq Instrs
      BY <3>1 DEF Instrs, Ops
    <3> HIDE DEF clean
    <3> QED BY <2>10, <3>2, SeqMonotonic DEF Releases
  <2>14. Shaped(inside) /\ Same(inside, done)
    BY <2>7, <2>13, CodeOnly DEF Ready
  <2>15. done.iters = e.iters
    BY <2>9, <2>14 DEF Same, SameScopes
  <2> HIDE DEF clean, done
  <2>16. Leads(done, PQ, <<"ret">>, u)
    BY <2>15 DEF Leads
  <2> HIDE DEF u
  <2>17. Ready(new, t, PQ, ((O \cup {abort, cont}) \ {abort}) \ {cont})
    BY <2>1, <2>2, <2>12, <2>16, EndReady
  <2>18. Same(done, new)
    BY <2>1, <2>12, <2>16, EndSame
  <2>19. ((O \cup {abort, cont}) \ {abort}) \ {cont} = O
    BY <2>1
  <2>20. Ready(new, t, P, O)
    BY <2>1, <2>2, <2>17, <2>19, ReadyForget
  <2>21. Same(e, new)
    BY <2>9, <2>14, <2>18, SameTransitive
  <2>22. <<"ret">> \in Instrs /\ << <<"ret">> >> \in Seq(Instrs) /\ Append(clean, <<"ret">>) = clean \o << <<"ret">> >>
    BY <2>13 DEF Instrs
  <2>23. Guarded(e, checked) = At(Emit(inside, Append(clean, <<"ret">>)), cont)
    BY <1>3 DEF Guarded, inside, clean, cont, wide, abort
  <2>24. Guarded(e, checked) = new
    <3>1. Emit(Emit(inside, clean), << <<"ret">> >>) = Emit(inside, clean \o << <<"ret">> >>)
      BY <2>13, <2>14, <2>22, EmitTwice
    <3> QED BY <2>22, <2>23, <3>1 DEF done
  <2> QED BY <2>20, <2>21, <2>24
<1> QED BY <1>2, <1>3

-----------------------------------------------------------------------------
(* The invariant of the emission.                                          *)

\* The blocks that an open block goes on to, and those of them that are empty.
Blocks(e, i) == {e.nest[i].next, e.nest[i].exit}
Pending(e) ==
  {e.nest[i].exit : i \in DOMAIN e.nest}
    \cup {e.nest[i].next : i \in {j \in DOMAIN e.nest : e.nest[j].kind = "branch"}}

\* They expect what is owned outside.  Branches and loops over nothing have no slot.
Expects(e, P) ==
  \A i \in DOMAIN e.nest :
    /\ e.nest[i].slot = 0 <=> e.nest[i].kind \in {"branch", "loop"}
    /\ Blocks(e, i) \subseteq DOMAIN P
    /\ \A b \in Blocks(e, i) : P[b] = Owns(Level(e, i))
    /\ \A j \in DOMAIN e.nest : i # j => Blocks(e, i) \cap Blocks(e, j) = {}

Sound(e) == Scoped(e) /\ \E P : Expects(e, P) /\ Ready(e, Owns(Held(e)), P, Pending(e))

\* What is in them.
LEMMA InLevel ==
  ASSUME NEW e, NEW i
  PROVE  \A s : s \in Level(e, i) <=> \E j \in 1 .. i : s \in Regs(e, j) \/ (s # 0 /\ s = e.nest[j].slot)
BY DEF Level

\* ... and the same of all scopes.
LEMMA InRegistered ==
  ASSUME NEW e
  PROVE  \A s : s \in Registered(e) <=> \E i \in DOMAIN e.scopes : s \in Regs(e, i)
BY DEF Registered

\* What is owned is the function's.
LEMMA HeldMine ==
  ASSUME NEW e \in Compilers, Scoped(e)
  PROVE  /\ Held(e) \subseteq Mine(e) /\ \A i \in 0 .. Len(e.nest) : Level(e, i) \subseteq Mine(e)
         /\ Mine(e) \subseteq Nat /\ 0 \notin Mine(e)
         /\ Registered(e) \subseteq Held(e) /\ Held(e) \subseteq Registered(e) \cup e.iters
<1> DEFINE n == Len(e.nest)
<1>1. /\ DOMAIN e.scopes = 1 .. n + 1 /\ n \in Nat /\ DOMAIN e.nest = 1 .. n
      /\ DOMAIN e.owner = 1 .. Len(e.owner) /\ Len(e.owner) \in Nat
  BY ScopeShapes
<1>2. \A i \in 1 .. n + 1 : Regs(e, i) \subseteq Mine(e)
  BY <1>1 DEF Scoped
<1>3. \A i \in 1 .. n : e.nest[i].slot \in {0} \cup (Mine(e) \cap e.iters)
  BY <1>1 DEF Scoped
<1> HIDE DEF n
<1>4. \A i \in 0 .. n : \A j \in 1 .. i : j \in 1 .. n /\ j \in 1 .. n + 1
  BY <1>1
<1>5. ASSUME NEW i \in 0 .. n
      PROVE  Level(e, i) \subseteq Mine(e)
  <2>1. \A j \in 1 .. i : Regs(e, j) \subseteq Mine(e)
    BY <1>2, <1>4
  <2>2. \A j \in 1 .. i : e.nest[j].slot # 0 => e.nest[j].slot \in Mine(e)
    BY <1>3, <1>4
  <2> QED BY <2>1, <2>2, InLevel
<1>6. n \in 0 .. n /\ n + 1 \in 1 .. n + 1 /\ 1 .. n + 1 = 1 .. n \cup {n + 1}
  BY <1>1
<1>7. Held(e) \subseteq Mine(e)
  BY <1>2, <1>5, <1>6 DEF Held, n
<1>8. DOMAIN e.scopes = 1 .. n \cup {n + 1} /\ Held(e) = Level(e, n) \cup Regs(e, n + 1)
  BY <1>1, <1>6 DEF Held, n
<1>9. Registered(e) \subseteq Held(e) /\ Held(e) \subseteq Registered(e) \cup e.iters
  BY <1>3, <1>8, InLevel, InRegistered
<1>10. Mine(e) \subseteq Nat /\ 0 \notin Mine(e)
  BY <1>1 DEF Mine
<1> QED BY <1>5, <1>7, <1>9, <1>10 DEF n

\* A statement registers some new slots, or none, in the innermost scope, for
\* files (F), strings (G) and dynamic values (D).
Registering(e, new, F, G, D) ==
  LET n == Len(e.nest)
  IN /\ F \cap G = {} /\ F \cap D = {} /\ G \cap D = {}
     /\ \A s \in F \cup G \cup D : s \notin DOMAIN e.owner /\ s \in Mine(new)
     /\ \A i \in 1 .. n : /\ FilesOf(new, i) = FilesOf(e, i)
                          /\ StringsOf(new, i) = StringsOf(e, i)
                          /\ DynamicsOf(new, i) = DynamicsOf(e, i)
     /\ FilesOf(new, n + 1) = FilesOf(e, n + 1) \cup F
     /\ StringsOf(new, n + 1) = StringsOf(e, n + 1) \cup G
     /\ DynamicsOf(new, n + 1) = DynamicsOf(e, n + 1) \cup D

\* They belong to what is owned.
LEMMA ScopedMore ==
  ASSUME NEW e \in Compilers, Scoped(e), NEW new \in Compilers, NEW F, NEW G, NEW D,
         Registering(e, new, F, G, D),
         new.nest = e.nest, Len(new.scopes) = Len(e.scopes), Fn(new) = Fn(e), new.iters = e.iters,
         \A s \in DOMAIN e.owner : s \in DOMAIN new.owner /\ new.owner[s] = e.owner[s]
  PROVE  /\ Scoped(new) /\ Held(new) = Held(e) \cup F \cup G \cup D
         /\ \A i \in 0 .. Len(e.nest) : Level(new, i) = Level(e, i)
<1> DEFINE n == Len(e.nest)
           A == F \cup G \cup D
<1>1. /\ DOMAIN e.scopes = 1 .. n + 1 /\ DOMAIN new.scopes = 1 .. n + 1 /\ n \in Nat
      /\ DOMAIN e.nest = 1 .. n /\ Len(new.scopes) = n + 1
  BY ScopeShapes DEF Compilers, Scoped
<1>2. (\A i \in 1 .. n : Regs(new, i) = Regs(e, i)) /\ Regs(new, n + 1) = Regs(e, n + 1) \cup A
  BY DEF Regs, Registering
<1>3. \A i \in 1 .. n + 1 : Regs(e, i) \subseteq DOMAIN e.owner /\ Regs(e, i) \subseteq Mine(e) \ e.iters /\ Kinds(e, i)
  BY <1>1 DEF Scoped, Mine
<1>4. \A i \in 1 .. n : Kinds(new, i)
  <2>1. \A i \in 1 .. n : i \in 1 .. n + 1
    BY <1>1
  <2> QED BY <1>3, <2>1 DEF Kinds, Registering
<1>5. Kinds(new, n + 1)
  <2>1. Kinds(e, n + 1) /\ Regs(e, n + 1) \cap A = {}
    BY <1>1, <1>3 DEF Registering
  <2> QED BY <2>1 DEF Kinds, Regs, Registering
<1> HIDE DEF n, A
<1>6. e.iters \subseteq DOMAIN e.owner /\ A \cap e.iters = {}
  BY DEF Scoped, A, Registering
<1>7. Mine(e) \subseteq Mine(new) /\ A \subseteq Mine(new)
  BY DEF Mine, A, Registering
<1>8. \A i \in 1 .. n + 1 : i \in 1 .. n \/ i = n + 1
  BY <1>1
<1>9. \A i \in 1 .. n + 1 : Regs(new, i) \subseteq Mine(new) \ new.iters /\ Kinds(new, i)
  BY <1>1, <1>2, <1>3, <1>4, <1>5, <1>6, <1>7, <1>8
<1>10. \A i, j \in 1 .. n + 1 : i # j => Regs(new, i) \cap Regs(new, j) = {}
  <2>1. \A i, j \in 1 .. n + 1 : i # j => Regs(e, i) \cap Regs(e, j) = {}
    BY <1>1 DEF Scoped
  <2>2. \A i \in 1 .. n + 1 : Regs(e, i) \cap A = {}
    BY <1>3 DEF A, Registering
  <2> QED BY <1>1, <1>2, <1>8, <2>1, <2>2
<1>11. Scoped(new)
  <2>1. /\ new.iters \subseteq DOMAIN new.owner
        /\ \A i \in DOMAIN new.nest : new.nest[i].slot \in {0} \cup (Mine(new) \cap new.iters)
        /\ \A i, j \in DOMAIN new.nest : i # j /\ new.nest[i].slot # 0 => new.nest[i].slot # new.nest[j].slot
    BY <1>6, <1>7 DEF Scoped
  <2> QED BY <1>1, <1>9, <1>10, <2>1 DEF Scoped, n
<1>12. \A i \in 0 .. n : Level(new, i) = Level(e, i)
  <2>1. \A i \in 0 .. n : \A j \in 1 .. i : j \in 1 .. n
    BY <1>1
  <2> QED BY <1>2, <2>1 DEF Level
<1>13. n \in 0 .. n
  BY <1>1
<1>14. Held(new) = Held(e) \cup A
  BY <1>2, <1>12, <1>13 DEF Held, n
<1> QED BY <1>11, <1>12, <1>14 DEF n, A

\* The invariant after such a statement.
LEMMA SoundMore ==
  ASSUME NEW e, NEW P, Expects(e, P), e \in Compilers, NEW new, NEW A,
         Scoped(new), new.nest = e.nest, Held(new) = A,
         \A i \in 0 .. Len(e.nest) : Level(new, i) = Level(e, i),
         Ready(new, Owns(A), P, Pending(e))
  PROVE  Sound(new)
<1>1. \A i \in DOMAIN e.nest : i \in 0 .. Len(e.nest)
  BY DEF Compilers
<1>2. Pending(new) = Pending(e) /\ \A i : Blocks(new, i) = Blocks(e, i)
  BY DEF Pending, Blocks
<1>3. Expects(new, P)
  BY <1>1, <1>2 DEF Expects
<1> QED BY <1>2, <1>3 DEF Sound
-----------------------------------------------------------------------------
(* Statements that bind a name.                                            *)

\* One instruction on a slot.
LEMMA EmitOne ==
  ASSUME NEW e, NEW t \in Types, NEW P, NEW O, Ready(e, t, P, O), NEW u \in Types,
         NEW op \in Ops, NEW s \in Mine(e), Flow(op, s, t, u)
  PROVE  /\ Ready(Emit(e, << <<op, s>> >>), u, P, O) /\ Same(e, Emit(e, << <<op, s>> >>))
         /\ << <<op, s>> >> \in Seq(Instrs)
<1> DEFINE cs == << <<op, s>> >>
           tt == [i \in Nat |-> IF i = 1 THEN t ELSE u]
<1>1. Shaped(e) /\ s \in Nat
  <2>1. Shaped(e) /\ e \in Compilers /\ s \in DOMAIN e.owner
    BY DEF Ready, Shaped, Mine
  <2>2. e.owner \in Seq(Nat)
    BY <2>1 DEF Compilers
  <2> QED BY <2>1, <2>2
<1>2. cs \in Seq(Instrs)
  BY <1>1 DEF Instrs
<1>3. tt \in [Nat -> Types] /\ tt[1] = t /\ tt[2] = u
  OBVIOUS
<1>4. Len(cs) = 1 /\ cs[1] = <<op, s>>
  OBVIOUS
<1>5. Moves(e, Fn(e), <<op, s>>, t, u)
  BY DEF Moves, Mine
<1> HIDE DEF cs, tt
<1>6. \A i \in 1 .. Len(cs) : Moves(e, Fn(e), cs[i], tt[i], tt[i + 1])
  BY <1>3, <1>4, <1>5
<1>7. Ready(Emit(e, cs), tt[Len(cs) + 1], P, O)
  BY <1>2, <1>3, <1>6, EmitReady
<1>8. Len(cs) + 1 = 2
  BY <1>4
<1> QED BY <1>1, <1>2, <1>3, <1>7, <1>8, CodeOnly DEF cs

\* Two of them.
LEMMA EmitPair ==
  ASSUME NEW e, Shaped(e), NEW a, NEW b, <<a>> \in Seq(Instrs), <<b>> \in Seq(Instrs)
  PROVE  Emit(e, <<a, b>>) = Emit(Emit(e, <<a>>), <<b>>)
<1>1. <<a, b>> \in Seq(Instrs) /\ Len(<<a, b>>) = 2 /\ <<a, b>>[1] = a /\ <<a, b>>[2] = b
  <2>1. <<a>>[1] \in Instrs /\ <<b>>[1] \in Instrs
    BY ElementOfSeq
  <2> QED BY <2>1
<1>2. <<a>> \o <<b>> \in Seq(Instrs) /\ Len(<<a>> \o <<b>>) = 2 /\ (<<a>> \o <<b>>)[1] = a /\ (<<a>> \o <<b>>)[2] = b
  BY ConcatProperties
<1>3. <<a>> \o <<b>> = <<a, b>>
  <2> DEFINE as == <<a, b>>
             bs == <<a>> \o <<b>>
  <2> HIDE DEF as, bs
  <2>1. as \in Seq(Instrs) /\ bs \in Seq(Instrs) /\ Len(as) = 2 /\ Len(bs) = 2 /\ as[1] = bs[1] /\ as[2] = bs[2]
    BY <1>1, <1>2 DEF as, bs
  <2>2. \A i \in 1 .. 2 : i = 1 \/ i = 2
    OBVIOUS
  <2>3. \A i \in 1 .. Len(as) : as[i] = bs[i]
    BY <2>1, <2>2
  <2>4. as = bs
    BY <2>1, <2>3, SeqEqual
  <2> QED BY <2>4 DEF as, bs
<1> DEFINE as == <<a>>
           bs == <<b>>
<1> HIDE DEF as, bs
<1>4. Emit(Emit(e, as), bs) = Emit(e, as \o bs)
  BY EmitTwice DEF as, bs
<1>5. as \o bs = <<a, b>>
  BY <1>3 DEF as, bs
<1>6. Emit(Emit(e, as), bs) = Emit(e, <<a, b>>)
  BY <1>4, <1>5
<1> QED BY <1>6 DEF as, bs

\* The invariant of the emission depends on nothing else.
LEMMA SoundSame ==
  ASSUME NEW e \in Compilers, NEW P, Scoped(e), Expects(e, P), NEW new, SameScopes(e, new),
         Ready(new, Owns(Held(e)), P, Pending(e))
  PROVE  Sound(new)
<1>1. Scoped(new) /\ (\A i : Level(new, i) = Level(e, i)) /\ Held(new) = Held(e)
  BY SameHeld
<1> QED BY <1>1, SoundMore DEF SameScopes

\* A statement is counted.
LEMMA VisitedSound ==
  ASSUME NEW e \in Compilers, Sound(e), NEW p \in BOOLEAN
  PROVE  Visited(e, p) \in Compilers /\ Sound(Visited(e, p))
<1> DEFINE new == Visited(e, p)
<1>1. /\ new \in Compilers /\ SameScopes(e, new)
      /\ new.code = e.code /\ new.fnOf = e.fnOf /\ new.here = e.here /\ new.owner = e.owner /\ new.iters = e.iters
  <2> DEFINE q == e.plain /\ p
  <2>1. q \in BOOLEAN
    OBVIOUS
  <2>2. new = [e EXCEPT !.size = @ + 1, !.plain = q]
    BY DEF Visited
  <2> HIDE DEF q, new
  <2>3. e.size + 1 \in Nat
    BY DEF Compilers
  <2>4. new \in Compilers
    BY <2>1, <2>2, <2>3 DEF Compilers
  <2>5. /\ new.code = e.code /\ new.fnOf = e.fnOf /\ new.here = e.here /\ new.owner = e.owner /\ new.iters = e.iters
        /\ new.scopes = e.scopes /\ new.slotOf = e.slotOf /\ new.nest = e.nest
    BY <2>2 DEF Compilers
  <2> QED BY <2>4, <2>5 DEF SameScopes, Fn
<1>2. PICK P : Expects(e, P) /\ Ready(e, Owns(Held(e)), P, Pending(e))
  BY DEF Sound
<1> HIDE DEF new
<1>3. Ready(new, Owns(Held(e)), P, Pending(e))
  BY <1>1, <1>2, SameCodeReady
<1>4. Sound(new)
  BY <1>1, <1>2, <1>3, SoundSame DEF Sound
<1> QED BY <1>1, <1>4 DEF new

\* A slot that a scope will release is owned.
LEMMA InScopeHeld ==
  ASSUME NEW e \in Compilers, Scoped(e), NEW slot, InScope(e, slot)
  PROVE  slot \in Held(e) /\ slot \in Registered(e)
<1>1. PICK i \in DOMAIN e.scopes : \/ slot \in ToSet(e.scopes[i].dynamics) \cup ToSet(e.scopes[i].strings)
                                  \/ \E n \in ToSet(e.scopes[i].files) : e.slotOf[n] = slot
  BY DEF InScope, ToSet
<1>2. slot \in Regs(e, i)
  BY <1>1 DEF Regs, FilesOf, StringsOf, DynamicsOf
<1>3. slot \in Registered(e)
  BY <1>2, InRegistered
<1> QED BY <1>3, HeldMine

\* What ToSet says of a stack with one more entry.
LEMMA ToSetAppend ==
  ASSUME NEW S, NEW s \in Seq(S), NEW a \in S
  PROVE  ToSet(Append(s, a)) = ToSet(s) \cup {a}
<1> DEFINE n == Len(s)
<1>1. n \in Nat /\ DOMAIN s = 1 .. n /\ DOMAIN Append(s, a) = 1 .. n + 1
  OBVIOUS
<1>2. Append(s, a)[n + 1] = a /\ \A i \in 1 .. n : Append(s, a)[i] = s[i]
  OBVIOUS
<1>3. \A i : i \in 1 .. n + 1 <=> i \in 1 .. n \/ i = n + 1
  BY <1>1
<1> HIDE DEF n
<1> QED BY <1>1, <1>2, <1>3 DEF ToSet

\* A new slot for name x is registered in the innermost scope.
Registers(e, new, x, slot) ==
  LET m == Len(e.scopes)
  IN \/ x \in Dynamics /\ new.scopes = [e.scopes EXCEPT ![m].dynamics = Append(@, slot)]
     \/ x \in Strings /\ new.scopes = [e.scopes EXCEPT ![m].strings = Append(@, slot)]
     \/ x \in Files /\ ~Named(e, x) /\ new.scopes = [e.scopes EXCEPT ![m].files = Append(@, x)]

\* It belongs to what is owned.
LEMMA RegisteredMore ==
  ASSUME NEW e \in Compilers, Scoped(e), NEW new \in Compilers, NEW x \in Names,
         Registers(e, new, x, NewSlot(e)), new.slotOf = [e.slotOf EXCEPT ![x] = NewSlot(e)],
         new.owner = Append(e.owner, Fn(e)), new.nest = e.nest, new.iters = e.iters, Fn(new) = Fn(e)
  PROVE  /\ Scoped(new) /\ Held(new) = Held(e) \cup {NewSlot(e)}
         /\ \A i \in 0 .. Len(e.nest) : Level(new, i) = Level(e, i)
<1> DEFINE n == Len(e.nest)
           slot == NewSlot(e)
<1>1. /\ e.scopes \in Seq(Scopes) /\ Len(e.scopes) = n + 1 /\ DOMAIN e.scopes = 1 .. n + 1 /\ n \in Nat
      /\ DOMAIN e.owner = 1 .. Len(e.owner) /\ Len(e.owner) \in Nat
      /\ e.slotOf \in [Names -> Nat] /\ e.owner \in Seq(Nat)
  BY ScopeShapes DEF Scoped, Compilers
<1>2. \A i \in 1 .. n + 1 : e.scopes[i] \in Scopes
  BY <1>1
<1>3. \A i \in 1 .. n + 1 : \A y \in ToSet(e.scopes[i].files) : y \in Files
  BY <1>2 DEF Scopes, ToSet
<1>4. \A i \in 1 .. n + 1 : x \notin ToSet(e.scopes[i].files)
  <2>1. CASE x \in Dynamics \cup Strings
    BY <1>3, <2>1, CodegenAssumption
  <2>2. CASE ~Named(e, x)
    <3>1. \A i \in 1 .. n + 1 : e.scopes[i] \in ToSet(e.scopes)
      BY <1>1 DEF ToSet
    <3> QED BY <2>2, <3>1 DEF Named
  <2> QED BY <2>1, <2>2 DEF Registers
<1>5. \A i \in 1 .. n + 1 : \A y \in ToSet(e.scopes[i].files) : new.slotOf[y] = e.slotOf[y]
  BY <1>1, <1>3, <1>4 DEF Names
<1>6. new.slotOf[x] = slot /\ slot \in Nat /\ slot \notin DOMAIN e.owner
  BY <1>1 DEF NewSlot
<1>7. \A i \in 1 .. n + 1 : {new.slotOf[y] : y \in ToSet(e.scopes[i].files)} = FilesOf(e, i)
  BY <1>5 DEF FilesOf
<1>8. /\ \A s \in DOMAIN e.owner : s \in DOMAIN new.owner /\ new.owner[s] = e.owner[s]
      /\ slot \in Mine(new)
  <2>2. Len(new.owner) = Len(e.owner) + 1 /\ DOMAIN new.owner = 1 .. Len(e.owner) + 1
    BY <1>1 DEF Compilers
  <2>3. new.owner[slot] = Fn(e) /\ \A s \in 1 .. Len(e.owner) : new.owner[s] = e.owner[s]
    BY <1>1 DEF NewSlot
  <2> QED BY <1>1, <2>2, <2>3 DEF Mine, NewSlot
<1> HIDE DEF slot, n
<1>9. CASE x \in Dynamics /\ new.scopes = [e.scopes EXCEPT ![Len(e.scopes)].dynamics = Append(@, slot)]
  <2>1. /\ Len(new.scopes) = Len(e.scopes)
        /\ \A i \in 1 .. n + 1 : new.scopes[i] = IF i = n + 1 THEN [e.scopes[n + 1] EXCEPT !.dynamics = Append(@, slot)]
                                                 ELSE e.scopes[i]
    BY <1>1, <1>9
  <2>2. \A i \in 1 .. n + 1 : /\ new.scopes[i].files = e.scopes[i].files /\ new.scopes[i].strings = e.scopes[i].strings
                              /\ i # n + 1 => new.scopes[i].dynamics = e.scopes[i].dynamics
                              /\ i = n + 1 => new.scopes[i].dynamics = Append(e.scopes[i].dynamics, slot)
    <3>1. \A i \in 1 .. n + 1 : i # n + 1 => new.scopes[i] = e.scopes[i]
      BY <2>1
    <3>2. /\ e.scopes[n + 1] \in Scopes
          /\ new.scopes[n + 1] = [e.scopes[n + 1] EXCEPT !.dynamics = Append(@, slot)]
      <4>1. n + 1 \in 1 .. n + 1
        BY <1>1
      <4> QED BY <1>2, <2>1, <4>1
    <3>3. /\ new.scopes[n + 1].files = e.scopes[n + 1].files
          /\ new.scopes[n + 1].strings = e.scopes[n + 1].strings
          /\ new.scopes[n + 1].dynamics = Append(e.scopes[n + 1].dynamics, slot)
      BY <3>2 DEF Scopes
    <3> QED BY <3>1, <3>3
  <2>3. \A i \in 1 .. n + 1 : /\ FilesOf(new, i) = FilesOf(e, i) /\ StringsOf(new, i) = StringsOf(e, i)
                              /\ i # n + 1 => DynamicsOf(new, i) = DynamicsOf(e, i)
    BY <1>7, <2>2 DEF FilesOf, StringsOf, DynamicsOf
  <2>4. n + 1 \in 1 .. n + 1 /\ \A i \in 1 .. n : i \in 1 .. n + 1 /\ i # n + 1
    BY <1>1
  <2>5. DynamicsOf(new, n + 1) = DynamicsOf(e, n + 1) \cup {slot}
    <3>1. e.scopes[n + 1].dynamics \in Seq(Nat)
      <4>1. e.scopes[n + 1] \in Scopes
        BY <1>2, <2>4
      <4> QED BY <4>1 DEF Scopes
    <3>2. ToSet(Append(e.scopes[n + 1].dynamics, slot)) = ToSet(e.scopes[n + 1].dynamics) \cup {slot}
      BY <1>6, <3>1, ToSetAppend
    <3> QED BY <2>2, <2>4, <3>2 DEF DynamicsOf
  <2>7. Registering(e, new, {}, {}, {slot})
    BY <1>6, <1>8, <2>3, <2>4, <2>5 DEF Registering, n
  <2>8. {} \cup {} \cup {slot} = {slot} /\ {} \cup {slot} \cup {} = {slot} /\ {slot} \cup {} \cup {} = {slot}
    OBVIOUS
  <2> QED BY <1>8, <2>1, <2>7, <2>8, ScopedMore DEF n, slot
<1>10. CASE x \in Strings /\ new.scopes = [e.scopes EXCEPT ![Len(e.scopes)].strings = Append(@, slot)]
  <2>1. /\ Len(new.scopes) = Len(e.scopes)
        /\ \A i \in 1 .. n + 1 : new.scopes[i] = IF i = n + 1 THEN [e.scopes[n + 1] EXCEPT !.strings = Append(@, slot)]
                                                 ELSE e.scopes[i]
    BY <1>1, <1>10
  <2>2. \A i \in 1 .. n + 1 : /\ new.scopes[i].files = e.scopes[i].files /\ new.scopes[i].dynamics = e.scopes[i].dynamics
                              /\ i # n + 1 => new.scopes[i].strings = e.scopes[i].strings
                              /\ i = n + 1 => new.scopes[i].strings = Append(e.scopes[i].strings, slot)
    <3>1. \A i \in 1 .. n + 1 : i # n + 1 => new.scopes[i] = e.scopes[i]
      BY <2>1
    <3>2. /\ e.scopes[n + 1] \in Scopes
          /\ new.scopes[n + 1] = [e.scopes[n + 1] EXCEPT !.strings = Append(@, slot)]
      <4>1. n + 1 \in 1 .. n + 1
        BY <1>1
      <4> QED BY <1>2, <2>1, <4>1
    <3>3. /\ new.scopes[n + 1].files = e.scopes[n + 1].files
          /\ new.scopes[n + 1].dynamics = e.scopes[n + 1].dynamics
          /\ new.scopes[n + 1].strings = Append(e.scopes[n + 1].strings, slot)
      BY <3>2 DEF Scopes
    <3> QED BY <3>1, <3>3
  <2>3. \A i \in 1 .. n + 1 : /\ FilesOf(new, i) = FilesOf(e, i) /\ DynamicsOf(new, i) = DynamicsOf(e, i)
                              /\ i # n + 1 => StringsOf(new, i) = StringsOf(e, i)
    BY <1>7, <2>2 DEF FilesOf, StringsOf, DynamicsOf
  <2>4. n + 1 \in 1 .. n + 1 /\ \A i \in 1 .. n : i \in 1 .. n + 1 /\ i # n + 1
    BY <1>1
  <2>5. StringsOf(new, n + 1) = StringsOf(e, n + 1) \cup {slot}
    <3>1. e.scopes[n + 1].strings \in Seq(Nat)
      <4>1. e.scopes[n + 1] \in Scopes
        BY <1>2, <2>4
      <4> QED BY <4>1 DEF Scopes
    <3>2. ToSet(Append(e.scopes[n + 1].strings, slot)) = ToSet(e.scopes[n + 1].strings) \cup {slot}
      BY <1>6, <3>1, ToSetAppend
    <3> QED BY <2>2, <2>4, <3>2 DEF StringsOf
  <2>7. Registering(e, new, {}, {slot}, {})
    BY <1>6, <1>8, <2>3, <2>4, <2>5 DEF Registering, n
  <2>8. {} \cup {} \cup {slot} = {slot} /\ {} \cup {slot} \cup {} = {slot} /\ {slot} \cup {} \cup {} = {slot}
    OBVIOUS
  <2> QED BY <1>8, <2>1, <2>7, <2>8, ScopedMore DEF n, slot
<1>11. CASE x \in Files /\ new.scopes = [e.scopes EXCEPT ![Len(e.scopes)].files = Append(@, x)]
  <2>1. /\ Len(new.scopes) = Len(e.scopes)
        /\ \A i \in 1 .. n + 1 : new.scopes[i] = IF i = n + 1 THEN [e.scopes[n + 1] EXCEPT !.files = Append(@, x)]
                                                 ELSE e.scopes[i]
    BY <1>1, <1>11
  <2>2. \A i \in 1 .. n + 1 : /\ new.scopes[i].strings = e.scopes[i].strings /\ new.scopes[i].dynamics = e.scopes[i].dynamics
                              /\ i # n + 1 => new.scopes[i].files = e.scopes[i].files
                              /\ i = n + 1 => new.scopes[i].files = Append(e.scopes[i].files, x)
    <3>1. \A i \in 1 .. n + 1 : i # n + 1 => new.scopes[i] = e.scopes[i]
      BY <2>1
    <3>2. /\ e.scopes[n + 1] \in Scopes
          /\ new.scopes[n + 1] = [e.scopes[n + 1] EXCEPT !.files = Append(@, x)]
      <4>1. n + 1 \in 1 .. n + 1
        BY <1>1
      <4> QED BY <1>2, <2>1, <4>1
    <3>3. /\ new.scopes[n + 1].strings = e.scopes[n + 1].strings
          /\ new.scopes[n + 1].dynamics = e.scopes[n + 1].dynamics
          /\ new.scopes[n + 1].files = Append(e.scopes[n + 1].files, x)
      BY <3>2 DEF Scopes
    <3> QED BY <3>1, <3>3
  <2>3. \A i \in 1 .. n + 1 : /\ StringsOf(new, i) = StringsOf(e, i) /\ DynamicsOf(new, i) = DynamicsOf(e, i)
                              /\ i # n + 1 => FilesOf(new, i) = FilesOf(e, i)
    BY <1>7, <2>2 DEF FilesOf, StringsOf, DynamicsOf
  <2>4. n + 1 \in 1 .. n + 1 /\ \A i \in 1 .. n : i \in 1 .. n + 1 /\ i # n + 1
    BY <1>1
  <2>5. ToSet(new.scopes[n + 1].files) = ToSet(e.scopes[n + 1].files) \cup {x}
    <3>1. e.scopes[n + 1].files \in Seq(Files)
      <4>1. e.scopes[n + 1] \in Scopes
        BY <1>2, <2>4
      <4> QED BY <4>1 DEF Scopes
    <3>2. ToSet(Append(e.scopes[n + 1].files, x)) = ToSet(e.scopes[n + 1].files) \cup {x}
      BY <1>11, <3>1, ToSetAppend
    <3> QED BY <2>2, <2>4, <3>2
  <2>6. FilesOf(new, n + 1) = FilesOf(e, n + 1) \cup {slot}
    <3> DEFINE T == ToSet(e.scopes[n + 1].files)
    <3>1. {new.slotOf[y] : y \in T} = FilesOf(e, n + 1)
      BY <1>7, <2>4
    <3>2. FilesOf(new, n + 1) = {new.slotOf[y] : y \in T \cup {x}}
      BY <2>5 DEF FilesOf
    <3> HIDE DEF T
    <3>3. {new.slotOf[y] : y \in T \cup {x}} = {new.slotOf[y] : y \in T} \cup {new.slotOf[x]}
      OBVIOUS
    <3> QED BY <1>6, <3>1, <3>2, <3>3
  <2>7. Registering(e, new, {slot}, {}, {})
    BY <1>6, <1>8, <2>3, <2>4, <2>6 DEF Registering, n
  <2>8. {} \cup {} \cup {slot} = {slot} /\ {} \cup {slot} \cup {} = {slot} /\ {slot} \cup {} \cup {} = {slot}
    OBVIOUS
  <2> QED BY <1>8, <2>1, <2>7, <2>8, ScopedMore DEF n, slot
<1> QED BY <1>9, <1>10, <1>11 DEF Registers, slot

-----------------------------------------------------------------------------
(* The visits, one by one.                                                 *)

\* AddSlot gives the function a slot that nothing speaks of yet.
LEMMA AddSlotReady ==
  ASSUME NEW e, NEW t, NEW P, NEW O, Ready(e, t, P, O), Scoped(e)
  PROVE  LET new == AddSlot(e)
         IN /\ Ready(new, t, P, O) /\ new \in Compilers
            /\ new.scopes = e.scopes /\ new.slotOf = e.slotOf /\ new.nest = e.nest /\ new.iters = e.iters
            /\ new.owner = Append(e.owner, Fn(e)) /\ Fn(new) = Fn(e)
            /\ new.pathSlot = e.pathSlot /\ new.loops = e.loops /\ new.size = e.size /\ new.plain = e.plain
            /\ NewSlot(e) \in Mine(new) /\ NewSlot(e) \notin Held(e) /\ NewSlot(e) \in Nat
            /\ \A s \in DOMAIN e.owner : s \in DOMAIN new.owner /\ new.owner[s] = e.owner[s]
            /\ Mine(e) \subseteq Mine(new)
<1> DEFINE new == AddSlot(e)
           slot == NewSlot(e)
<1>1. Shaped(e) /\ e \in Compilers /\ e.owner \in Seq(Nat) /\ Len(e.owner) \in Nat /\ DOMAIN e.owner = 1 .. Len(e.owner)
  <2>1. Shaped(e) /\ e \in Compilers
    BY DEF Ready, Shaped
  <2>2. e.owner \in Seq(Nat)
    BY <2>1 DEF Compilers
  <2> QED BY <2>1, <2>2
<1>2. Fn(e) \in Nat
  BY <1>1 DEF Shaped, Compilers, Fn
<1>3. Append(e.owner, Fn(e)) \in Seq(Nat)
  BY <1>1, <1>2
<1>4. /\ new \in Compilers /\ new.scopes = e.scopes /\ new.slotOf = e.slotOf /\ new.nest = e.nest /\ new.iters = e.iters
      /\ new.owner = Append(e.owner, Fn(e)) /\ new.code = e.code /\ new.fnOf = e.fnOf /\ new.here = e.here
      /\ new.pathSlot = e.pathSlot /\ new.loops = e.loops /\ new.size = e.size /\ new.plain = e.plain
  BY <1>1, <1>3 DEF AddSlot, Compilers
<1> HIDE DEF new
<1>5. \A s \in DOMAIN e.owner : s \in DOMAIN new.owner /\ new.owner[s] = e.owner[s]
  BY <1>1, <1>2, <1>4
<1>6. Fn(new) = Fn(e)
  BY <1>4 DEF Fn
<1>7. slot \in Nat /\ slot \in DOMAIN new.owner /\ new.owner[slot] = Fn(e) /\ slot \notin DOMAIN e.owner
  BY <1>1, <1>2, <1>4 DEF NewSlot
<1>8. Ready(new, t, P, O)
  BY <1>4, <1>5, SameCodeReady
<1>9. slot \notin Held(e)
  BY <1>1, <1>7, HeldMine DEF Mine
<1>10. slot \in Mine(new) /\ Mine(e) \subseteq Mine(new)
  BY <1>5, <1>6, <1>7 DEF Mine
<1> QED BY <1>4, <1>5, <1>6, <1>7, <1>8, <1>9, <1>10 DEF new

\* What is owned makes a type.
LEMMA OwnsType ==
  ASSUME NEW e \in Compilers, Scoped(e)
  PROVE  Owns(Held(e)) \in Types /\ Held(e) \subseteq Nat
BY HeldMine DEF Owns, Types

\* FlexBind of a name that has a slot: it is released, and owns again.
LEMMA FlexBindOld ==
  ASSUME NEW e \in Compilers, Sound(e), NEW x \in Dynamics, NEW checked \in BOOLEAN,
         e.slotOf[x] # 0, InScope(e, e.slotOf[x])
  PROVE  FlexBind(e, x, checked) \in Compilers /\ Sound(FlexBind(e, x, checked))
<1> DEFINE s == e.slotOf[x]
           H == Held(e)
           g == Guarded(e, checked)
           f == Emit(g, << <<"free", s>> >>)
           o == Emit(f, << <<"own", s>> >>)
<1>1. PICK P : Expects(e, P) /\ Ready(e, Owns(H), P, Pending(e))
  BY DEF Sound
<1>2. Scoped(e) /\ s \in H /\ Owns(H) \in Types /\ H \subseteq Nat /\ H \subseteq Mine(e)
  BY InScopeHeld, OwnsType, HeldMine DEF Sound
<1>3. Registered(e) \subseteq H /\ H \subseteq Registered(e) \cup e.iters
  BY <1>2, HeldMine
<1> HIDE DEF H, s
<1>4. Ready(g, Owns(H), P, Pending(e)) /\ Same(e, g)
  BY <1>1, <1>2, <1>3, GuardedReady DEF Owns
<1>5. s \in Mine(g)
  BY <1>2, <1>4 DEF Mine, Same, SameScopes
<1> DEFINE u == [h |-> H \ {s}, z |-> {}]
<1>6. u \in Types /\ Flow("free", s, Owns(H), u) /\ Flow("own", s, u, Owns(H))
  BY <1>2 DEF Types, Flow, Weaker, Owns
<1> HIDE DEF g, u
<1>7. /\ Ready(f, u, P, Pending(e)) /\ Same(g, f) /\ << <<"free", s>> >> \in Seq(Instrs)
  BY <1>2, <1>4, <1>5, <1>6, EmitOne DEF Ops
<1>8. s \in Mine(f)
  BY <1>5, <1>7 DEF Mine, Same, SameScopes
<1> HIDE DEF f
<1>9. Ready(o, Owns(H), P, Pending(e)) /\ Same(f, o) /\ << <<"own", s>> >> \in Seq(Instrs)
  BY <1>2, <1>6, <1>7, <1>8, EmitOne DEF Ops
<1>10. Same(e, o)
  BY <1>4, <1>7, <1>9, SameTransitive
<1>11. o = Emit(g, << <<"free", s>>, <<"own", s>> >>)
  BY SMTT(60), <1>4, <1>7, <1>9, EmitPair DEF f, Ready
<1> HIDE DEF o
<1>12. o \in Compilers /\ Sound(o)
  BY <1>1, <1>2, <1>9, <1>10, SoundSame DEF Same, H
<1>13. FlexBind(e, x, checked) = Visited(o, InScope(e, s))
  BY <1>11 DEF FlexBind, s, g
<1>14. InScope(e, s) \in BOOLEAN
  BY DEF InScope
<1> QED BY <1>12, <1>13, <1>14, VisitedSound
\* What a statement leaves alone while it registers.
Kept(e, new) ==
  /\ new \in Compilers
  /\ new.code = e.code /\ new.fnOf = e.fnOf /\ new.here = e.here
  /\ new.slotOf = e.slotOf /\ new.nest = e.nest /\ new.iters = e.iters /\ new.owner = e.owner

\* Only the scopes are others.
LEMMA ScopesFields ==
  ASSUME NEW e \in Compilers, NEW all \in Seq(Scopes)
  PROVE  Kept(e, [e EXCEPT !.scopes = all]) /\ [e EXCEPT !.scopes = all].scopes = all
<1>1. [e EXCEPT !.scopes = all] \in Compilers
  BY DEF Compilers
<1> QED BY <1>1 DEF Compilers, Kept

\* What Register does to each of the three stacks.
LEMMA RegisterDynamic ==
  ASSUME NEW e \in Compilers, Len(e.scopes) > 0, NEW entry \in Nat
  PROVE  /\ Kept(e, Register(e, "dynamics", entry))
         /\ Register(e, "dynamics", entry).scopes = [e.scopes EXCEPT ![Len(e.scopes)].dynamics = Append(@, entry)]
<1> DEFINE m == Len(e.scopes)
           all == [e.scopes EXCEPT ![m].dynamics = Append(@, entry)]
           r == [e.scopes[m] EXCEPT !.dynamics = Append(@, entry)]
<1>1. e.scopes \in Seq(Scopes) /\ m \in DOMAIN e.scopes /\ e.scopes[m] \in Scopes
  BY DEF Compilers
<1>2. Append(e.scopes[m].dynamics, entry) \in Seq(Nat)
  BY <1>1 DEF Scopes
<1>3. \A a \in Seq(Nat) : [e.scopes[m] EXCEPT !.dynamics = a] \in Scopes
  BY <1>1 DEF Scopes
<1>4. all \in Seq(Scopes)
  <2>1. r \in Scopes
    BY <1>2, <1>3
  <2>2. all = [e.scopes EXCEPT ![m] = r]
    BY <1>1
  <2> HIDE DEF all, r, m
  <2> QED BY <1>1, <2>1, <2>2
<1>5. Register(e, "dynamics", entry) = [e EXCEPT !.scopes = all]
  BY DEF Register
<1> HIDE DEF all
<1> QED BY <1>4, <1>5, ScopesFields DEF all

\* ... strings ...
LEMMA RegisterString ==
  ASSUME NEW e \in Compilers, Len(e.scopes) > 0, NEW entry \in Nat
  PROVE  /\ Kept(e, Register(e, "strings", entry))
         /\ Register(e, "strings", entry).scopes = [e.scopes EXCEPT ![Len(e.scopes)].strings = Append(@, entry)]
<1> DEFINE m == Len(e.scopes)
           all == [e.scopes EXCEPT ![m].strings = Append(@, entry)]
           r == [e.scopes[m] EXCEPT !.strings = Append(@, entry)]
<1>1. e.scopes \in Seq(Scopes) /\ m \in DOMAIN e.scopes /\ e.scopes[m] \in Scopes
  BY DEF Compilers
<1>2. Append(e.scopes[m].strings, entry) \in Seq(Nat)
  BY <1>1 DEF Scopes
<1>3. \A a \in Seq(Nat) : [e.scopes[m] EXCEPT !.strings = a] \in Scopes
  BY <1>1 DEF Scopes
<1>4. all \in Seq(Scopes)
  <2>1. r \in Scopes
    BY <1>2, <1>3
  <2>2. all = [e.scopes EXCEPT ![m] = r]
    BY <1>1
  <2> HIDE DEF all, r, m
  <2> QED BY <1>1, <2>1, <2>2
<1>5. Register(e, "strings", entry) = [e EXCEPT !.scopes = all]
  BY DEF Register
<1> HIDE DEF all
<1> QED BY <1>4, <1>5, ScopesFields DEF all

\* ... and files.
LEMMA RegisterFile ==
  ASSUME NEW e \in Compilers, Len(e.scopes) > 0, NEW entry \in Files
  PROVE  /\ Kept(e, Register(e, "files", entry))
         /\ Register(e, "files", entry).scopes = [e.scopes EXCEPT ![Len(e.scopes)].files = Append(@, entry)]
<1> DEFINE m == Len(e.scopes)
           all == [e.scopes EXCEPT ![m].files = Append(@, entry)]
           r == [e.scopes[m] EXCEPT !.files = Append(@, entry)]
<1>1. e.scopes \in Seq(Scopes) /\ m \in DOMAIN e.scopes /\ e.scopes[m] \in Scopes
  BY DEF Compilers
<1>2. Append(e.scopes[m].files, entry) \in Seq(Files)
  BY <1>1 DEF Scopes
<1>3. \A a \in Seq(Files) : [e.scopes[m] EXCEPT !.files = a] \in Scopes
  BY <1>1 DEF Scopes
<1>4. all \in Seq(Scopes)
  <2>1. r \in Scopes
    BY <1>2, <1>3
  <2>2. all = [e.scopes EXCEPT ![m] = r]
    BY <1>1
  <2> HIDE DEF all, r, m
  <2> QED BY <1>1, <2>1, <2>2
<1>5. Register(e, "files", entry) = [e EXCEPT !.scopes = all]
  BY DEF Register
<1> HIDE DEF all
<1> QED BY <1>4, <1>5, ScopesFields DEF all

\* A name is given a slot.
LEMMA SlotOfFields ==
  ASSUME NEW e \in Compilers, NEW x \in Names, NEW s \in Nat
  PROVE  LET new == [e EXCEPT !.slotOf[x] = s]
         IN /\ new \in Compilers /\ new.slotOf = [e.slotOf EXCEPT ![x] = s]
            /\ new.code = e.code /\ new.fnOf = e.fnOf /\ new.here = e.here
            /\ new.scopes = e.scopes /\ new.nest = e.nest /\ new.iters = e.iters /\ new.owner = e.owner
            /\ new.plain = e.plain
<1>1. [e.slotOf EXCEPT ![x] = s] \in [Names -> Nat]
  BY DEF Compilers
<1> QED BY <1>1 DEF Compilers

\* Slots are added, and names that are not registered are given others.
LEMMA ScopedStill ==
  ASSUME NEW e \in Compilers, Scoped(e), NEW new \in Compilers,
         new.scopes = e.scopes, new.nest = e.nest, new.iters = e.iters, Fn(new) = Fn(e),
         \A s \in DOMAIN e.owner : s \in DOMAIN new.owner /\ new.owner[s] = e.owner[s],
         \A i \in DOMAIN e.scopes : \A y \in ToSet(e.scopes[i].files) : new.slotOf[y] = e.slotOf[y]
  PROVE  /\ Scoped(new) /\ Held(new) = Held(e)
         /\ \A i \in 0 .. Len(e.nest) : Level(new, i) = Level(e, i)
<1>1. DOMAIN e.scopes = 1 .. Len(e.nest) + 1 /\ Len(e.nest) \in Nat
  BY ScopeShapes
<1>2. \A i \in 1 .. Len(e.nest) + 1 : FilesOf(new, i) = FilesOf(e, i) /\ StringsOf(new, i) = StringsOf(e, i) /\ DynamicsOf(new, i) = DynamicsOf(e, i)
  BY <1>1 DEF FilesOf, StringsOf, DynamicsOf
<1>3. Len(e.nest) + 1 \in 1 .. Len(e.nest) + 1 /\ \A i \in 1 .. Len(e.nest) : i \in 1 .. Len(e.nest) + 1
  BY <1>1
<1>4. Registering(e, new, {}, {}, {})
  BY <1>2, <1>3 DEF Registering
<1>5. /\ Scoped(new) /\ Held(new) = Held(e) \cup {} \cup {} \cup {}
      /\ \A i \in 0 .. Len(e.nest) : Level(new, i) = Level(e, i)
  BY <1>4, ScopedMore
<1> QED BY <1>5

\* A name that is not a file's is in no stack of files.
LEMMA NotAFile ==
  ASSUME NEW e \in Compilers, NEW x \in Dynamics \cup Strings
  PROVE  \A i \in DOMAIN e.scopes : \A y \in ToSet(e.scopes[i].files) : y # x /\ y \in Names
<1>1. \A i \in DOMAIN e.scopes : e.scopes[i].files \in Seq(Files)
  <2>1. \A i \in DOMAIN e.scopes : e.scopes[i] \in Scopes
    BY DEF Compilers
  <2> QED BY <2>1 DEF Scopes
<1>2. \A i \in DOMAIN e.scopes : \A y \in ToSet(e.scopes[i].files) : y \in Files
  BY <1>1 DEF ToSet
<1> QED BY <1>2, CodegenAssumption DEF Names

\* FlexBind of a new name: its slot holds nothing until the check has succeeded.
LEMMA FlexBindNew ==
  ASSUME NEW e \in Compilers, Sound(e), NEW x \in Dynamics, NEW checked \in BOOLEAN, e.slotOf[x] = 0
  PROVE  FlexBind(e, x, checked) \in Compilers /\ Sound(FlexBind(e, x, checked))
<1> DEFINE s == NewSlot(e)
           H == Held(e)
           a == AddSlot(e)
           i == Emit(a, << <<"init", s>> >>)
           n == [i EXCEPT !.slotOf[x] = s]
           r == Register(n, "dynamics", s)
           g == Guarded(r, checked)
           o == Emit(g, << <<"own", s>> >>)
           t == [h |-> H, z |-> {s}]
           K == H \cup {s}
<1>1. PICK P : Expects(e, P) /\ Ready(e, Owns(H), P, Pending(e))
  BY DEF Sound
<1>2. Scoped(e) /\ Owns(H) \in Types /\ H \subseteq Nat /\ x \in Names
  BY OwnsType DEF Sound, Names
<1>3. /\ Ready(a, Owns(H), P, Pending(e)) /\ a \in Compilers
      /\ a.scopes = e.scopes /\ a.slotOf = e.slotOf /\ a.nest = e.nest /\ a.iters = e.iters
      /\ a.owner = Append(e.owner, Fn(e)) /\ Fn(a) = Fn(e)
      /\ s \in Mine(a) /\ s \notin H /\ s \in Nat
  BY <1>1, <1>2, AddSlotReady
<1> HIDE DEF s, H, a
<1>4. t \in Types /\ Flow("init", s, Owns(H), t) /\ Flow("own", s, t, Owns(K)) /\ Owns(K) \in Types
  BY <1>2, <1>3 DEF Types, Flow, Weaker, Owns
<1>5. Ready(i, t, P, Pending(e)) /\ Same(a, i)
  BY <1>2, <1>3, <1>4, EmitOne DEF Ops
<1> HIDE DEF i, t
<1>6. /\ n \in Compilers /\ n.slotOf = [i.slotOf EXCEPT ![x] = s] /\ n.code = i.code /\ n.fnOf = i.fnOf /\ n.here = i.here
      /\ n.scopes = i.scopes /\ n.nest = i.nest /\ n.iters = i.iters /\ n.owner = i.owner
  BY <1>2, <1>3, <1>5, SlotOfFields DEF Same
<1> HIDE DEF n
<1>7. Len(n.scopes) = Len(e.scopes) /\ Len(n.scopes) > 0
  BY <1>2, <1>3, <1>5, <1>6, ScopeShapes DEF Same, SameScopes, Scoped
<1>8. /\ r \in Compilers /\ r.scopes = [n.scopes EXCEPT ![Len(n.scopes)].dynamics = Append(@, s)]
      /\ r.code = n.code /\ r.fnOf = n.fnOf /\ r.here = n.here
      /\ r.slotOf = n.slotOf /\ r.nest = n.nest /\ r.iters = n.iters /\ r.owner = n.owner
  <2>1. Kept(n, r) /\ r.scopes = [n.scopes EXCEPT ![Len(n.scopes)].dynamics = Append(@, s)]
    BY <1>3, <1>6, <1>7, RegisterDynamic
  <2> QED BY <2>1 DEF Kept
<1> HIDE DEF r
<1>9. /\ r.scopes = [e.scopes EXCEPT ![Len(e.scopes)].dynamics = Append(@, s)]
      /\ r.slotOf = [e.slotOf EXCEPT ![x] = s] /\ r.owner = Append(e.owner, Fn(e))
      /\ r.nest = e.nest /\ r.iters = e.iters /\ Fn(r) = Fn(e)
  BY <1>3, <1>5, <1>6, <1>8 DEF Same, SameScopes, Fn
<1>10. Scoped(r) /\ Held(r) = K /\ \A j \in 0 .. Len(e.nest) : Level(r, j) = Level(e, j)
  BY <1>2, <1>8, <1>9, RegisteredMore DEF Registers, s, H
<1>11. Ready(r, t, P, Pending(e))
  BY <1>5, <1>6, <1>8, SameCodeReady
<1>12. Registered(r) \subseteq t.h \cup t.z /\ t.h \subseteq Registered(r) \cup r.iters
  BY <1>8, <1>10, HeldMine DEF t
<1>13. Ready(g, t, P, Pending(e)) /\ Same(r, g)
  BY <1>4, <1>10, <1>11, <1>12, GuardedReady
<1>14. s \in Mine(g)
  BY <1>3, <1>5, <1>6, <1>8, <1>9, <1>13 DEF Mine, Same, SameScopes
<1> HIDE DEF g, K
<1>15. Ready(o, Owns(K), P, Pending(e)) /\ Same(g, o)
  BY <1>4, <1>13, <1>14, EmitOne DEF Ops
<1>16. SameScopes(r, o) /\ o \in Compilers
  BY <1>13, <1>15 DEF Same, SameScopes
<1> HIDE DEF o
<1>17. Scoped(o) /\ Held(o) = K /\ o.nest = e.nest /\ \A j \in 0 .. Len(e.nest) : Level(o, j) = Level(e, j)
  <2>1. Scoped(o) /\ Held(o) = Held(r) /\ \A j : Level(o, j) = Level(r, j)
    BY <1>10, <1>16, SameHeld
  <2>2. o.nest = e.nest
    BY <1>9, <1>16 DEF SameScopes
  <2> QED BY <1>10, <2>1, <2>2
<1>18. Sound(o)
  BY <1>1, <1>15, <1>17, SoundMore
<1>19. FlexBind(e, x, checked) = Visited(o, TRUE)
  BY DEF FlexBind, s, a, i, n, r, g, o
<1> QED BY <1>16, <1>18, <1>19, VisitedSound

\* AddSlot changes nothing of what is owned.
LEMMA AddSlotScoped ==
  ASSUME NEW e \in Compilers, Scoped(e), NEW new \in Compilers,
         new.scopes = e.scopes, new.slotOf = e.slotOf, new.nest = e.nest, new.iters = e.iters,
         Fn(new) = Fn(e), \A s \in DOMAIN e.owner : s \in DOMAIN new.owner /\ new.owner[s] = e.owner[s]
  PROVE  /\ Scoped(new) /\ Held(new) = Held(e)
         /\ \A i \in 0 .. Len(e.nest) : Level(new, i) = Level(e, i)
<1>1. \A i \in DOMAIN e.scopes : \A y \in ToSet(e.scopes[i].files) : new.slotOf[y] = e.slotOf[y]
  OBVIOUS
<1> QED BY <1>1, ScopedStill

\* FinalBind: the new slot holds nothing until the check has succeeded.
LEMMA FinalBindSound ==
  ASSUME NEW e \in Compilers, Sound(e), NEW x \in Dynamics, NEW checked \in BOOLEAN
  PROVE  FinalBind(e, x, checked) \in Compilers /\ Sound(FinalBind(e, x, checked))
<1> DEFINE s == NewSlot(e)
           H == Held(e)
           a == AddSlot(e)
           i == Emit(a, << <<"init", s>> >>)
           g == Guarded(i, checked)
           o == Emit(g, << <<"own", s>> >>)
           n == [o EXCEPT !.slotOf[x] = s]
           r == Register(n, "dynamics", s)
           t == [h |-> H, z |-> {s}]
           K == H \cup {s}
<1>1. PICK P : Expects(e, P) /\ Ready(e, Owns(H), P, Pending(e))
  BY DEF Sound
<1>2. Scoped(e) /\ Owns(H) \in Types /\ H \subseteq Nat /\ x \in Names
  BY OwnsType DEF Sound, Names
<1>3. /\ Ready(a, Owns(H), P, Pending(e)) /\ a \in Compilers
      /\ a.scopes = e.scopes /\ a.slotOf = e.slotOf /\ a.nest = e.nest /\ a.iters = e.iters
      /\ a.owner = Append(e.owner, Fn(e)) /\ Fn(a) = Fn(e)
      /\ s \in Mine(a) /\ s \notin H /\ s \in Nat
      /\ \A j \in DOMAIN e.owner : j \in DOMAIN a.owner /\ a.owner[j] = e.owner[j]
  BY <1>1, <1>2, AddSlotReady
<1> HIDE DEF s, H, a
<1>4. t \in Types /\ Flow("init", s, Owns(H), t) /\ Flow("own", s, t, Owns(K)) /\ Owns(K) \in Types
  BY <1>2, <1>3 DEF Types, Flow, Weaker, Owns
<1>5. Ready(i, t, P, Pending(e)) /\ Same(a, i)
  BY <1>2, <1>3, <1>4, EmitOne DEF Ops
<1> HIDE DEF i
<1>6. Scoped(i) /\ Held(i) = H
  <2>1. Scoped(a) /\ Held(a) = H
    BY <1>2, <1>3, AddSlotScoped DEF H
  <2> QED BY <1>5, <2>1, SameHeld DEF Same
<1>7. Registered(i) \subseteq t.h \cup t.z /\ t.h \subseteq Registered(i) \cup i.iters
  BY <1>5, <1>6, HeldMine DEF t, Same
<1> HIDE DEF t
<1>8. Ready(g, t, P, Pending(e)) /\ Same(i, g)
  BY <1>4, <1>5, <1>6, <1>7, GuardedReady
<1>9. s \in Mine(g)
  BY <1>3, <1>5, <1>8 DEF Mine, Same, SameScopes
<1> HIDE DEF g, K
<1>10. Ready(o, Owns(K), P, Pending(e)) /\ Same(g, o)
  BY <1>4, <1>8, <1>9, EmitOne DEF Ops
<1> HIDE DEF o
<1>11. Same(a, o) /\ o \in Compilers
  BY <1>5, <1>8, <1>10, SameTransitive DEF Same
<1>12. /\ n \in Compilers /\ n.slotOf = [o.slotOf EXCEPT ![x] = s] /\ n.code = o.code /\ n.fnOf = o.fnOf /\ n.here = o.here
       /\ n.scopes = o.scopes /\ n.nest = o.nest /\ n.iters = o.iters /\ n.owner = o.owner
  BY <1>2, <1>3, <1>11, SlotOfFields
<1> HIDE DEF n
<1>13. Len(n.scopes) = Len(e.scopes) /\ Len(n.scopes) > 0
  BY <1>2, <1>3, <1>11, <1>12, ScopeShapes DEF Same, SameScopes, Scoped
<1>14. Kept(n, r) /\ r.scopes = [n.scopes EXCEPT ![Len(n.scopes)].dynamics = Append(@, s)]
  BY <1>3, <1>12, <1>13, RegisterDynamic
<1> HIDE DEF r
<1>15. /\ r \in Compilers /\ r.scopes = [e.scopes EXCEPT ![Len(e.scopes)].dynamics = Append(@, s)]
       /\ r.slotOf = [e.slotOf EXCEPT ![x] = s] /\ r.owner = Append(e.owner, Fn(e))
       /\ r.nest = e.nest /\ r.iters = e.iters /\ Fn(r) = Fn(e)
  BY <1>3, <1>11, <1>12, <1>14 DEF Same, SameScopes, Fn, Kept
<1>16. Scoped(r) /\ Held(r) = K /\ \A j \in 0 .. Len(e.nest) : Level(r, j) = Level(e, j)
  BY <1>2, <1>15, RegisteredMore DEF Registers, s, H, K
<1>17. Ready(r, Owns(K), P, Pending(e))
  BY <1>10, <1>12, <1>14, SameCodeReady DEF Kept
<1>18. Sound(r)
  BY <1>1, <1>15, <1>16, <1>17, SoundMore
<1>19. FinalBind(e, x, checked) = Visited(r, TRUE)
  BY DEF FinalBind, s, a, i, n, r, g, o
<1> QED BY <1>15, <1>18, <1>19, VisitedSound

\* StringBind of a new name: the store comes before the registration.
LEMMA StringBindSound ==
  ASSUME NEW e \in Compilers, Sound(e), NEW x \in Strings, NEW checked \in BOOLEAN, e.slotOf[x] = 0
  PROVE  StringBind(e, x, checked) \in Compilers /\ Sound(StringBind(e, x, checked))
<1> DEFINE s == NewSlot(e)
           H == Held(e)
           a == AddSlot(e)
           n == [a EXCEPT !.slotOf[x] = s]
           g == Guarded(n, checked)
           o == Emit(g, << <<"own", s>> >>)
           r == Register(o, "strings", s)
           K == H \cup {s}
<1>1. PICK P : Expects(e, P) /\ Ready(e, Owns(H), P, Pending(e))
  BY DEF Sound
<1>2. Scoped(e) /\ Owns(H) \in Types /\ H \subseteq Nat /\ x \in Names
  BY OwnsType DEF Sound, Names
<1>3. /\ Ready(a, Owns(H), P, Pending(e)) /\ a \in Compilers
      /\ a.scopes = e.scopes /\ a.slotOf = e.slotOf /\ a.nest = e.nest /\ a.iters = e.iters
      /\ a.owner = Append(e.owner, Fn(e)) /\ Fn(a) = Fn(e)
      /\ s \in Mine(a) /\ s \notin H /\ s \in Nat
      /\ \A j \in DOMAIN e.owner : j \in DOMAIN a.owner /\ a.owner[j] = e.owner[j]
  BY <1>1, <1>2, AddSlotReady
<1> HIDE DEF s, H, a
<1>4. Flow("own", s, Owns(H), Owns(K)) /\ Owns(K) \in Types
  BY <1>2, <1>3 DEF Types, Flow, Weaker, Owns
<1>5. /\ n \in Compilers /\ n.slotOf = [e.slotOf EXCEPT ![x] = s] /\ n.code = a.code /\ n.fnOf = a.fnOf /\ n.here = a.here
      /\ n.scopes = e.scopes /\ n.nest = e.nest /\ n.iters = a.iters /\ n.owner = a.owner
  BY <1>2, <1>3, SlotOfFields
<1> HIDE DEF n
<1>6. Fn(n) = Fn(e)
  BY <1>3, <1>5 DEF Fn
<1>7. Scoped(n) /\ Held(n) = H
  <2>1. \A j \in DOMAIN e.scopes : \A y \in ToSet(e.scopes[j].files) : n.slotOf[y] = e.slotOf[y]
    <3>1. \A j \in DOMAIN e.scopes : \A y \in ToSet(e.scopes[j].files) : y # x /\ y \in Names
      BY NotAFile
    <3>2. \A y \in Names : y # x => n.slotOf[y] = e.slotOf[y]
      BY <1>2, <1>5 DEF Compilers
    <3> QED BY <3>1, <3>2
  <2>2. \A j \in DOMAIN e.owner : j \in DOMAIN n.owner /\ n.owner[j] = e.owner[j]
    BY <1>3, <1>5
  <2> QED BY <1>2, <1>3, <1>5, <1>6, <2>1, <2>2, ScopedStill DEF H
<1>8. Ready(n, Owns(H), P, Pending(e))
  BY <1>3, <1>5, SameCodeReady
<1>9. Registered(n) \subseteq Owns(H).h \cup Owns(H).z /\ Owns(H).h \subseteq Registered(n) \cup n.iters
  BY <1>5, <1>7, HeldMine DEF Owns
<1>10. Ready(g, Owns(H), P, Pending(e)) /\ Same(n, g)
  BY <1>2, <1>7, <1>8, <1>9, GuardedReady
<1>11. s \in Mine(g)
  BY <1>3, <1>5, <1>6, <1>10 DEF Mine, Same, SameScopes
<1> HIDE DEF g, K
<1>12. Ready(o, Owns(K), P, Pending(e)) /\ Same(g, o)
  BY <1>2, <1>4, <1>10, <1>11, EmitOne DEF Ops
<1> HIDE DEF o
<1>13. Same(n, o) /\ o \in Compilers
  BY <1>10, <1>12, SameTransitive DEF Same
<1>14. Len(o.scopes) = Len(e.scopes) /\ Len(o.scopes) > 0
  BY <1>2, <1>5, <1>13, ScopeShapes DEF Same, SameScopes, Scoped
<1>15. Kept(o, r) /\ r.scopes = [o.scopes EXCEPT ![Len(o.scopes)].strings = Append(@, s)]
  BY <1>3, <1>13, <1>14, RegisterString
<1> HIDE DEF r
<1>16. /\ r \in Compilers /\ r.scopes = [e.scopes EXCEPT ![Len(e.scopes)].strings = Append(@, s)]
       /\ r.slotOf = [e.slotOf EXCEPT ![x] = s] /\ r.owner = Append(e.owner, Fn(e))
       /\ r.nest = e.nest /\ r.iters = e.iters /\ Fn(r) = Fn(e)
  BY <1>3, <1>5, <1>6, <1>13, <1>15 DEF Same, SameScopes, Fn, Kept
<1>17. Scoped(r) /\ Held(r) = K /\ \A j \in 0 .. Len(e.nest) : Level(r, j) = Level(e, j)
  BY <1>2, <1>16, RegisteredMore DEF Registers, s, H, K
<1>18. Ready(r, Owns(K), P, Pending(e))
  BY <1>12, <1>15, SameCodeReady DEF Kept
<1>19. Sound(r)
  BY <1>1, <1>16, <1>17, <1>18, SoundMore
<1>20. StringBind(e, x, checked) = Visited(r, TRUE)
  BY DEF StringBind, s, a, n, r, g, o
<1> QED BY <1>16, <1>19, <1>20, VisitedSound

\* A path that is opened: the store, the registration, and the path's slot.
LEMMA AcquireNewSound ==
  ASSUME NEW e \in Compilers, Sound(e), NEW x \in Files, NEW path \in Paths \cup {Computed},
         ~(path # Computed /\ e.pathSlot[path] # 0), ~Named(e, x)
  PROVE  AcquireHandle(e, x, path) \in Compilers /\ Sound(AcquireHandle(e, x, path))
<1> DEFINE s == NewSlot(e)
           H == Held(e)
           a == AddSlot(e)
           o == Emit(a, << <<"own", s>> >>)
           n == [o EXCEPT !.slotOf[x] = s,
                          !.pathSlot = IF path = Computed THEN @ ELSE [@ EXCEPT ![path] = s]]
           r == Register(n, "files", x)
           K == H \cup {s}
<1>1. PICK P : Expects(e, P) /\ Ready(e, Owns(H), P, Pending(e))
  BY DEF Sound
<1>2. Scoped(e) /\ Owns(H) \in Types /\ H \subseteq Nat /\ x \in Names
  BY OwnsType DEF Sound, Names
<1>3. /\ Ready(a, Owns(H), P, Pending(e)) /\ a \in Compilers
      /\ a.scopes = e.scopes /\ a.slotOf = e.slotOf /\ a.nest = e.nest /\ a.iters = e.iters
      /\ a.owner = Append(e.owner, Fn(e)) /\ Fn(a) = Fn(e)
      /\ s \in Mine(a) /\ s \notin H /\ s \in Nat
  BY <1>1, <1>2, AddSlotReady
<1> HIDE DEF s, H, a
<1>4. Flow("own", s, Owns(H), Owns(K)) /\ Owns(K) \in Types
  BY <1>2, <1>3 DEF Types, Flow, Weaker, Owns
<1> HIDE DEF K
<1>5. Ready(o, Owns(K), P, Pending(e)) /\ Same(a, o)
  BY <1>2, <1>3, <1>4, EmitOne DEF Ops
<1> HIDE DEF o
<1>6. /\ n \in Compilers /\ n.slotOf = [o.slotOf EXCEPT ![x] = s]
      /\ n.code = o.code /\ n.fnOf = o.fnOf /\ n.here = o.here
      /\ n.scopes = o.scopes /\ n.nest = o.nest /\ n.iters = o.iters /\ n.owner = o.owner
  <2> DEFINE q == IF path = Computed THEN o.pathSlot ELSE [o.pathSlot EXCEPT ![path] = s]
             v == [o.slotOf EXCEPT ![x] = s]
  <2>1. o \in Compilers
    BY <1>5 DEF Same
  <2>2. v \in [Names -> Nat] /\ q \in [Paths -> Nat]
    BY <1>2, <1>3, <2>1 DEF Compilers
  <2>3. n = [o EXCEPT !.slotOf = v, !.pathSlot = q]
    BY <2>1 DEF Compilers
  <2> HIDE DEF q, v, n
  <2>4. n \in Compilers
    BY <2>1, <2>2, <2>3 DEF Compilers
  <2>5. /\ n.slotOf = v
        /\ n.code = o.code /\ n.fnOf = o.fnOf /\ n.here = o.here
        /\ n.scopes = o.scopes /\ n.nest = o.nest /\ n.iters = o.iters /\ n.owner = o.owner
    BY <2>1, <2>3 DEF Compilers
  <2> QED BY <2>4, <2>5 DEF v
<1> HIDE DEF n
<1>7. Len(n.scopes) = Len(e.scopes) /\ Len(n.scopes) > 0
  BY <1>2, <1>3, <1>5, <1>6, ScopeShapes DEF Same, SameScopes, Scoped
<1>8. Kept(n, r) /\ r.scopes = [n.scopes EXCEPT ![Len(n.scopes)].files = Append(@, x)]
  BY <1>6, <1>7, RegisterFile
<1> HIDE DEF r
<1>9. /\ r \in Compilers /\ r.scopes = [e.scopes EXCEPT ![Len(e.scopes)].files = Append(@, x)]
      /\ r.slotOf = [e.slotOf EXCEPT ![x] = s] /\ r.owner = Append(e.owner, Fn(e))
      /\ r.nest = e.nest /\ r.iters = e.iters /\ Fn(r) = Fn(e)
  BY <1>3, <1>5, <1>6, <1>8 DEF Same, SameScopes, Fn, Kept
<1>10. Scoped(r) /\ Held(r) = K /\ \A j \in 0 .. Len(e.nest) : Level(r, j) = Level(e, j)
  BY <1>2, <1>9, RegisteredMore DEF Registers, s, H, K
<1>11. Ready(r, Owns(K), P, Pending(e))
  BY <1>5, <1>6, <1>8, SameCodeReady DEF Kept
<1>12. Sound(r)
  BY <1>1, <1>9, <1>10, <1>11, SoundMore
<1>13. AcquireHandle(e, x, path) = Visited(r, TRUE)
  BY DEF AcquireHandle, s, a, o, n, r
<1> QED BY <1>9, <1>12, <1>13, VisitedSound

\* A path that is open already: its slot is still in scope, and a name that a
\* scope releases stands for the same slot.
LEMMA AcquireKnownSound ==
  ASSUME NEW e \in Compilers, Sound(e), NEW x \in Files, NEW path \in Paths \cup {Computed},
         path # Computed, e.pathSlot[path] # 0, Named(e, x) => e.slotOf[x] = e.pathSlot[path],
         InScope(e, e.pathSlot[path])
  PROVE  AcquireHandle(e, x, path) \in Compilers /\ Sound(AcquireHandle(e, x, path))
<1> DEFINE s == e.pathSlot[path]
           n == [e EXCEPT !.slotOf[x] = s]
<1>1. PICK P : Expects(e, P) /\ Ready(e, Owns(Held(e)), P, Pending(e))
  BY DEF Sound
<1>2. Scoped(e) /\ x \in Names /\ s \in Nat
  BY DEF Sound, Names, Compilers
<1>3. /\ n \in Compilers /\ n.slotOf = [e.slotOf EXCEPT ![x] = s] /\ n.code = e.code /\ n.fnOf = e.fnOf /\ n.here = e.here
      /\ n.scopes = e.scopes /\ n.nest = e.nest /\ n.iters = e.iters /\ n.owner = e.owner
  BY <1>2, SlotOfFields
<1>4. \A j \in DOMAIN e.scopes : \A y \in ToSet(e.scopes[j].files) : y = x => e.slotOf[x] = s
  BY DEF Named, ToSet
<1>5. AcquireHandle(e, x, path) = Visited(n, TRUE)
  BY DEF AcquireHandle
<1> HIDE DEF n, s
<1>6. Fn(n) = Fn(e)
  BY <1>3 DEF Fn
<1>7. \A j \in DOMAIN e.scopes : \A y \in ToSet(e.scopes[j].files) : n.slotOf[y] = e.slotOf[y]
  BY <1>2, <1>3, <1>4 DEF Compilers
<1>8. Scoped(n) /\ Held(n) = Held(e) /\ \A j \in 0 .. Len(e.nest) : Level(n, j) = Level(e, j)
  BY <1>2, <1>3, <1>6, <1>7, ScopedStill
<1>9. Ready(n, Owns(Held(e)), P, Pending(e))
  BY <1>1, <1>3, SameCodeReady
<1>10. Sound(n)
  BY <1>1, <1>3, <1>8, <1>9, SoundMore
<1> QED BY <1>3, <1>5, <1>10, VisitedSound

\* A release by name: closed, and empty until its scope ends.
LEMMA ReleaseSound ==
  ASSUME NEW e \in Compilers, Sound(e), NEW x \in Files, e.slotOf[x] # 0 => InScope(e, e.slotOf[x])
  PROVE  ReleaseHandle(e, x) \in Compilers /\ Sound(ReleaseHandle(e, x))
<1> DEFINE s == e.slotOf[x]
           H == Held(e)
           c == Emit(e, << <<"close", s>> >>)
           o == Emit(c, << <<"init", s>> >>)
           t == [h |-> H \ {s}, z |-> {}]
<1>1. PICK P : Expects(e, P) /\ Ready(e, Owns(H), P, Pending(e))
  BY DEF Sound
<1>2. Scoped(e) /\ Owns(H) \in Types /\ H \subseteq Nat /\ H \subseteq Mine(e)
  BY OwnsType, HeldMine DEF Sound
<1>3. CASE s = 0
  <2>1. ReleaseHandle(e, x) = Visited(e, TRUE)
    BY <1>3 DEF ReleaseHandle
  <2> QED BY <2>1, VisitedSound
<1>4. CASE s # 0
  <2>1. s \in H /\ InScope(e, s)
    BY <1>2, <1>4, InScopeHeld
  <2>2. ReleaseHandle(e, x) = Visited(Emit(e, << <<"close", s>>, <<"init", s>> >>), TRUE)
    BY <1>4, <2>1 DEF ReleaseHandle
  <2> HIDE DEF s, H
  <2>3. t \in Types /\ Flow("close", s, Owns(H), t) /\ Flow("init", s, t, Owns(H))
    BY <1>2, <2>1 DEF Types, Flow, Weaker, Owns
  <2> HIDE DEF t
  <2>4. Ready(c, t, P, Pending(e)) /\ Same(e, c) /\ << <<"close", s>> >> \in Seq(Instrs)
    BY <1>1, <1>2, <2>1, <2>3, EmitOne DEF Ops
  <2>5. s \in Mine(c)
    BY <1>2, <2>1, <2>4 DEF Mine, Same, SameScopes
  <2>6. << <<"init", s>> >> \in Seq(Instrs)
    BY <1>1, <1>2, <2>1, <2>4 DEF Instrs, Ops
  <2>7. Ready(o, Owns(H), P, Pending(e)) /\ Same(c, o)
    <3> HIDE DEF c
    <3> QED BY <1>2, <2>3, <2>4, <2>5, EmitOne DEF Ops
  <2>8. Shaped(e)
    BY <1>1 DEF Ready
  <2>9. o = Emit(e, << <<"close", s>>, <<"init", s>> >>)
    BY <2>4, <2>6, <2>8, EmitPair
  <2> HIDE DEF o, c
  <2>10. SameScopes(e, o) /\ o \in Compilers
    BY <2>4, <2>7, SameTransitive DEF Same
  <2>11. Sound(o)
    BY <1>1, <1>2, <2>7, <2>10, SoundSame DEF H
  <2> QED BY <2>2, <2>9, <2>10, <2>11, VisitedSound
<1> QED BY <1>3, <1>4

-----------------------------------------------------------------------------
(* Which programs stay plain.                                              *)

\* A program is plain or not.
Counted(e) == "plain" \in DOMAIN e /\ e.plain \in BOOLEAN

\* Nothing has been said about it.
Plainly(e, d) == "plain" \in DOMAIN d /\ d.plain = e.plain

\* The parts of a visit say nothing about it.
LEMMA PlainSteps ==
  ASSUME NEW e, NEW d, Plainly(e, d)
  PROVE  /\ \A cs : Plainly(e, Emit(d, cs))
         /\ \A b : Plainly(e, At(d, b))
         /\ \A n : Plainly(e, NewBlocks(d, n))
         /\ Plainly(e, AddSlot(d)) /\ Plainly(e, Push(d)) /\ Plainly(e, Pop(d))
         /\ \A st, en : Plainly(e, Register(d, st, en))
         /\ \A x, y : Plainly(e, [d EXCEPT !.slotOf[x] = y])
         /\ \A y : Plainly(e, [d EXCEPT !.slotOf = y])
         /\ \A y : Plainly(e, [d EXCEPT !.nest = y])
         /\ \A y : Plainly(e, [d EXCEPT !.loops = y])
         /\ \A y : Plainly(e, [d EXCEPT !.iters = y])
         /\ \A y : Plainly(e, [d EXCEPT !.pathSlot = y])
         /\ \A y : Plainly(e, [d EXCEPT !.scopes = y])
         /\ \A y : Plainly(e, [d EXCEPT !.code = y])
         /\ \A y : Plainly(e, [d EXCEPT !.fnOf = y])
<1>1. "plain" \in DOMAIN d /\ d.plain = e.plain
  BY DEF Plainly
<1>2. \A cs : Plainly(e, Emit(d, cs))
  BY <1>1 DEF Plainly, Emit
<1>3. \A b : Plainly(e, At(d, b))
  BY <1>1 DEF Plainly, At
<1>4. \A n : Plainly(e, NewBlocks(d, n))
  BY <1>1 DEF Plainly, NewBlocks
<1>5. Plainly(e, AddSlot(d))
  BY <1>1 DEF Plainly, AddSlot
<1>6. Plainly(e, Push(d))
  BY <1>1 DEF Plainly, Push
<1>7. \A y : Plainly(e, [d EXCEPT !.scopes = y])
  BY <1>1 DEF Plainly
<1>8. Plainly(e, Pop(d))
  <2> DEFINE c == Emit(d, Cleanup(d, {Last(d.scopes)}))
  <2>1. "plain" \in DOMAIN c /\ c.plain = e.plain
    BY <1>2 DEF Plainly
  <2>2. Pop(d) = [c EXCEPT !.scopes = Front(@)]
    BY DEF Pop
  <2> HIDE DEF c
  <2> QED BY <2>1, <2>2 DEF Plainly
<1>9. \A st, en : Plainly(e, Register(d, st, en))
  BY <1>1 DEF Plainly, Register
<1>10. \A x, y : Plainly(e, [d EXCEPT !.slotOf[x] = y])
  BY <1>1 DEF Plainly
<1>11. /\ \A y : Plainly(e, [d EXCEPT !.slotOf = y])
       /\ \A y : Plainly(e, [d EXCEPT !.nest = y])
       /\ \A y : Plainly(e, [d EXCEPT !.loops = y])
       /\ \A y : Plainly(e, [d EXCEPT !.iters = y])
  BY <1>1 DEF Plainly
<1>12. /\ \A y : Plainly(e, [d EXCEPT !.pathSlot = y])
       /\ \A y : Plainly(e, [d EXCEPT !.code = y])
       /\ \A y : Plainly(e, [d EXCEPT !.fnOf = y])
  BY <1>1 DEF Plainly
<1> QED BY <1>2, <1>3, <1>4, <1>5, <1>6, <1>7, <1>8, <1>9, <1>10, <1>11, <1>12

\* ... and neither does a check.
LEMMA PlainGuarded ==
  ASSUME NEW e, NEW d, Plainly(e, d), NEW checked
  PROVE  Plainly(e, Guarded(d, checked))
<1> DEFINE n == NewBlocks(d, 2)
           c == Emit(n, << <<"cond", NextBlock(d), NextBlock(d) + 1>> >>)
           b == At(c, NextBlock(d))
           r == Emit(b, Append(ActiveCleanup(d), <<"ret">>))
           f == At(r, NextBlock(d) + 1)
<1>1. Guarded(d, checked) = IF ~checked THEN d ELSE f
  BY DEF Guarded
<1>2. Plainly(e, n)
  BY PlainSteps
<1> HIDE DEF n
<1>3. Plainly(e, c)
  BY <1>2, PlainSteps
<1> HIDE DEF c
<1>4. Plainly(e, b)
  BY <1>3, PlainSteps
<1> HIDE DEF b
<1>5. Plainly(e, r)
  BY <1>4, PlainSteps
<1> HIDE DEF r
<1>6. Plainly(e, f)
  BY <1>5, PlainSteps
<1> QED BY <1>1, <1>6

\* A program that is plain after a visit was plain before.
LEMMA PlainVisited ==
  ASSUME NEW e, Counted(e), NEW d, Plainly(e, d), NEW p \in BOOLEAN
  PROVE  /\ Counted(Visited(d, p))
         /\ Visited(d, p).plain => e.plain /\ p
<1>1. Visited(d, p).plain = (d.plain /\ p) /\ d.plain \in BOOLEAN /\ "plain" \in DOMAIN Visited(d, p)
  BY DEF Visited, Plainly, Counted
<1> QED BY <1>1 DEF Plainly, Counted

\* e itself.
LEMMA PlainSelf ==
  ASSUME NEW e, Counted(e)
  PROVE  Plainly(e, e)
BY DEF Plainly, Counted

\* The visits of the statements that are not about blocks.
LEMMA PlainFlexBind ==
  ASSUME NEW e, Counted(e), NEW x, NEW checked
  PROVE  /\ Counted(FlexBind(e, x, checked))
         /\ FlexBind(e, x, checked).plain => e.plain /\ (e.slotOf[x] # 0 => InScope(e, e.slotOf[x]))
<1> DEFINE s == NewSlot(e)
           old == e.slotOf[x]
           g == Guarded(e, checked)
           i == Emit(AddSlot(e), << <<"init", s>> >>)
           n == [i EXCEPT !.slotOf[x] = s]
           r == Register(n, "dynamics", s)
           h == Guarded(r, checked)
<1>1. CASE old # 0
  <2>1. FlexBind(e, x, checked) = Visited(Emit(g, << <<"free", old>>, <<"own", old>> >>), InScope(e, old))
    BY <1>1 DEF FlexBind
  <2>2. Plainly(e, g)
    BY PlainSelf, PlainGuarded
  <2> HIDE DEF g
  <2>3. Plainly(e, Emit(g, << <<"free", old>>, <<"own", old>> >>))
    BY <2>2, PlainSteps
  <2>4. InScope(e, old) \in BOOLEAN
    BY DEF InScope
  <2> HIDE DEF old
  <2> QED BY <2>1, <2>3, <2>4, PlainVisited DEF old
<1>2. CASE old = 0
  <2>1. FlexBind(e, x, checked) = Visited(Emit(h, << <<"own", s>> >>), TRUE)
    BY <1>2 DEF FlexBind
  <2>2. Plainly(e, AddSlot(e))
    BY PlainSelf, PlainSteps
  <2>3. Plainly(e, i)
    BY <2>2, PlainSteps
  <2> HIDE DEF i
  <2>4. Plainly(e, n)
    BY <2>3, PlainSteps
  <2> HIDE DEF n
  <2>5. Plainly(e, r)
    BY <2>4, PlainSteps
  <2> HIDE DEF r
  <2>6. Plainly(e, h)
    BY <2>5, PlainGuarded
  <2> HIDE DEF h
  <2>7. Plainly(e, Emit(h, << <<"own", s>> >>))
    BY <2>6, PlainSteps
  <2> HIDE DEF s
  <2> QED BY <1>2, <2>1, <2>7, PlainVisited
<1> QED BY <1>1, <1>2

\* A final binding says nothing about plainness.
LEMMA PlainFinalBind ==
  ASSUME NEW e, Counted(e), NEW x, NEW checked
  PROVE  /\ Counted(FinalBind(e, x, checked))
         /\ FinalBind(e, x, checked).plain => e.plain
<1> DEFINE s == NewSlot(e)
           i == Emit(AddSlot(e), << <<"init", s>> >>)
           g == Guarded(i, checked)
           o == Emit(g, << <<"own", s>> >>)
           n == [o EXCEPT !.slotOf[x] = s]
           r == Register(n, "dynamics", s)
<1>1. FinalBind(e, x, checked) = Visited(r, TRUE)
  BY DEF FinalBind
<1>2. Plainly(e, AddSlot(e))
  BY PlainSelf, PlainSteps
<1>3. Plainly(e, i)
  BY <1>2, PlainSteps
<1> HIDE DEF i
<1>4. Plainly(e, g)
  BY <1>3, PlainGuarded
<1> HIDE DEF g
<1>5. Plainly(e, o)
  BY <1>4, PlainSteps
<1> HIDE DEF o
<1>6. Plainly(e, n)
  BY <1>5, PlainSteps
<1> HIDE DEF n
<1>7. Plainly(e, r)
  BY <1>6, PlainSteps
<1> HIDE DEF r
<1> QED BY <1>1, <1>7, PlainVisited

\* A string binding keeps the program plain only if it is the first of its name.
LEMMA PlainStringBind ==
  ASSUME NEW e, Counted(e), NEW x, NEW checked
  PROVE  /\ Counted(StringBind(e, x, checked))
         /\ StringBind(e, x, checked).plain => e.plain /\ e.slotOf[x] = 0
<1> DEFINE s == NewSlot(e)
           old == e.slotOf[x]
           g == Guarded(e, checked)
           n == [AddSlot(e) EXCEPT !.slotOf[x] = s]
           h == Guarded(n, checked)
           o == Emit(h, << <<"own", s>> >>)
           r == Register(o, "strings", s)
<1>1. CASE old # 0
  <2>1. StringBind(e, x, checked) = Visited(Emit(g, << <<"own", old>> >>), FALSE)
    BY <1>1 DEF StringBind
  <2>2. Plainly(e, g)
    BY PlainSelf, PlainGuarded
  <2> HIDE DEF g
  <2>3. Plainly(e, Emit(g, << <<"own", old>> >>))
    BY <2>2, PlainSteps
  <2> HIDE DEF old
  <2> QED BY <2>1, <2>3, PlainVisited
<1>2. CASE old = 0
  <2>1. StringBind(e, x, checked) = Visited(r, TRUE)
    BY <1>2 DEF StringBind
  <2>2. Plainly(e, AddSlot(e))
    BY PlainSelf, PlainSteps
  <2>3. Plainly(e, n)
    BY <2>2, PlainSteps
  <2> HIDE DEF n
  <2>4. Plainly(e, h)
    BY <2>3, PlainGuarded
  <2> HIDE DEF h
  <2>5. Plainly(e, o)
    BY <2>4, PlainSteps
  <2> HIDE DEF o
  <2>6. Plainly(e, r)
    BY <2>5, PlainSteps
  <2> HIDE DEF r
  <2> QED BY <1>2, <2>1, <2>6, PlainVisited
<1> QED BY <1>1, <1>2

\* An acquisition, and what must hold for the program to stay plain.
LEMMA PlainAcquire ==
  ASSUME NEW e, Counted(e), NEW x, NEW path
  PROVE  /\ Counted(AcquireHandle(e, x, path))
         /\ AcquireHandle(e, x, path).plain =>
              /\ e.plain
              /\ IF path # Computed /\ e.pathSlot[path] # 0
                   THEN InScope(e, e.pathSlot[path]) /\ (Named(e, x) => e.slotOf[x] = e.pathSlot[path])
                   ELSE ~Named(e, x)
<1> DEFINE s == NewSlot(e)
           k == e.pathSlot[path]
           o == Emit(AddSlot(e), << <<"own", s>> >>)
           m == [o EXCEPT !.slotOf[x] = s]
           q == IF path = Computed THEN o.pathSlot ELSE [o.pathSlot EXCEPT ![path] = s]
           n == [m EXCEPT !.pathSlot = q]
           r == Register(n, "files", x)
           p == InScope(e, k) /\ (Named(e, x) => e.slotOf[x] = k)
<1>1. InScope(e, k) \in BOOLEAN /\ Named(e, x) \in BOOLEAN
  BY DEF InScope, Named
<1>2. CASE path # Computed /\ k # 0
  <2>1. AcquireHandle(e, x, path) = Visited([e EXCEPT !.slotOf[x] = k], p)
    BY <1>2 DEF AcquireHandle
  <2>2. Plainly(e, [e EXCEPT !.slotOf[x] = k])
    BY PlainSelf, PlainSteps
  <2>3. p \in BOOLEAN
    BY <1>1
  <2> HIDE DEF p, k
  <2>4. Counted(AcquireHandle(e, x, path)) /\ (AcquireHandle(e, x, path).plain => e.plain /\ p)
    BY <2>1, <2>2, <2>3, PlainVisited
  <2> QED BY <1>2, <2>4 DEF p, k
<1>3. CASE ~(path # Computed /\ k # 0)
  <2>1. Plainly(e, AddSlot(e))
    BY PlainSelf, PlainSteps
  <2>2. Plainly(e, o)
    BY <2>1, PlainSteps
  <2>3. AcquireHandle(e, x, path) =
          Visited(Register([o EXCEPT !.slotOf[x] = s,
                                     !.pathSlot = IF path = Computed THEN @ ELSE [@ EXCEPT ![path] = s]],
                           "files", x), ~Named(e, x))
    BY <1>3 DEF AcquireHandle
  <2> HIDE DEF o
  <2>4. Plainly(e, [o EXCEPT !.slotOf[x] = s,
                             !.pathSlot = IF path = Computed THEN @ ELSE [@ EXCEPT ![path] = s]])
    BY <2>2 DEF Plainly
  <2>5. ASSUME NEW w, Plainly(e, w)
        PROVE  Plainly(e, Register(w, "files", x))
    BY <2>5, PlainSteps
  <2>6. Plainly(e, Register([o EXCEPT !.slotOf[x] = s,
                             !.pathSlot = IF path = Computed THEN @ ELSE [@ EXCEPT ![path] = s]], "files", x))
    BY <2>4, <2>5
  <2>7. Counted(AcquireHandle(e, x, path)) /\ (AcquireHandle(e, x, path).plain => e.plain /\ ~Named(e, x))
    <3>1. PICK w, v : /\ AcquireHandle(e, x, path) = Visited(w, v)
                      /\ v = ~Named(e, x) /\ Plainly(e, w)
      BY <2>3, <2>6
    <3> QED BY <1>1, <3>1, PlainVisited
  <2> QED BY <1>3, <2>7
<1> QED BY <1>2, <1>3

\* A release keeps the program plain only if the handle's slot is in scope.
LEMMA PlainRelease ==
  ASSUME NEW e, Counted(e), NEW x
  PROVE  /\ Counted(ReleaseHandle(e, x))
         /\ ReleaseHandle(e, x).plain => e.plain /\ (e.slotOf[x] # 0 => InScope(e, e.slotOf[x]))
<1> DEFINE s == e.slotOf[x]
           d == IF s = 0 THEN e ELSE Emit(e, << <<"close", s>>, <<"init", s>> >>)
           p == s # 0 => InScope(e, s)
<1>1. ReleaseHandle(e, x) = Visited(d, p)
  BY DEF ReleaseHandle
<1>2. Plainly(e, d)
  <2>1. Plainly(e, Emit(e, << <<"close", s>>, <<"init", s>> >>))
    BY PlainSelf, PlainSteps
  <2> QED BY <2>1, PlainSelf
<1>3. p \in BOOLEAN
  BY DEF InScope
<1> HIDE DEF d, p
<1>4. Counted(ReleaseHandle(e, x)) /\ (ReleaseHandle(e, x).plain => e.plain /\ p)
  BY <1>1, <1>2, <1>3, PlainVisited
<1> QED BY <1>4 DEF p

-----------------------------------------------------------------------------
(* The statements that are not about blocks, while the program is plain.   *)

\* What a visit keeps.
Emitted(e, new) == Counted(new) /\ (new.plain => e.plain /\ new \in Compilers /\ Sound(new))

\* A binding that leaves the program plain leaves the code typed.
LEMMA BindSound ==
  ASSUME NEW e, Counted(e), e.plain => e \in Compilers /\ Sound(e), NEW new, NEW checked \in BOOLEAN,
         \/ \E x \in Dynamics : new = FlexBind(e, x, checked)
         \/ \E x \in Dynamics : new = FinalBind(e, x, checked)
         \/ \E x \in Strings : new = StringBind(e, x, checked)
  PROVE  Emitted(e, new)
<1>1. CASE \E x \in Dynamics : new = FlexBind(e, x, checked)
  <2>1. PICK x \in Dynamics : new = FlexBind(e, x, checked)
    BY <1>1
  <2>2. Counted(new) /\ (new.plain => e.plain /\ (e.slotOf[x] # 0 => InScope(e, e.slotOf[x])))
    BY <2>1, PlainFlexBind
  <2>3. CASE e.slotOf[x] # 0
    BY <2>1, <2>2, <2>3, FlexBindOld DEF Emitted
  <2>4. CASE e.slotOf[x] = 0
    BY <2>1, <2>2, <2>4, FlexBindNew DEF Emitted
  <2> QED BY <2>3, <2>4
<1>2. CASE \E x \in Dynamics : new = FinalBind(e, x, checked)
  BY <1>2, PlainFinalBind, FinalBindSound DEF Emitted
<1>3. CASE \E x \in Strings : new = StringBind(e, x, checked)
  BY <1>3, PlainStringBind, StringBindSound DEF Emitted
<1> QED BY <1>1, <1>2, <1>3

\* So does an acquisition or a release of a handle.
LEMMA HandleSound ==
  ASSUME NEW e, Counted(e), e.plain => e \in Compilers /\ Sound(e), NEW new, NEW x \in Files,
         \/ \E path \in Paths \cup {Computed} : new = AcquireHandle(e, x, path)
         \/ new = ReleaseHandle(e, x)
  PROVE  Emitted(e, new)
<1>1. CASE \E path \in Paths \cup {Computed} : new = AcquireHandle(e, x, path)
  <2>1. PICK path \in Paths \cup {Computed} : new = AcquireHandle(e, x, path)
    BY <1>1
  <2>2. Counted(new) /\ (new.plain =>
          /\ e.plain
          /\ IF path # Computed /\ e.pathSlot[path] # 0
               THEN InScope(e, e.pathSlot[path]) /\ (Named(e, x) => e.slotOf[x] = e.pathSlot[path])
               ELSE ~Named(e, x))
    BY <2>1, PlainAcquire
  <2>3. CASE path # Computed /\ e.pathSlot[path] # 0
    BY <2>1, <2>2, <2>3, AcquireKnownSound DEF Emitted
  <2>4. CASE ~(path # Computed /\ e.pathSlot[path] # 0)
    BY <2>1, <2>2, <2>4, AcquireNewSound DEF Emitted
  <2> QED BY <2>3, <2>4
<1>2. CASE new = ReleaseHandle(e, x)
  BY <1>2, PlainRelease, ReleaseSound DEF Emitted
<1> QED BY <1>1, <1>2

-----------------------------------------------------------------------------
(* Blocks are opened.                                                      *)

\* A block is open in new that is not in e; its scope is empty, and what it goes
\* through, if anything, is in a new slot.
Opens(e, new, open) ==
  /\ open \in Nested /\ new.nest = Append(e.nest, open) /\ new.scopes = Append(e.scopes, EmptyScope)
  /\ new.slotOf = e.slotOf /\ Fn(new) = Fn(e)
  /\ \/ open.slot = 0 /\ new.owner = e.owner /\ new.iters = e.iters
     \/ /\ open.slot = NewSlot(e) /\ new.owner = Append(e.owner, Fn(e))
        /\ new.iters = e.iters \cup {open.slot}

\* The slots of the scopes that were open stay the same.
LEMMA OpenRegs ==
  ASSUME NEW e \in Compilers, Scoped(e), NEW new \in Compilers, NEW open, Opens(e, new, open)
  PROVE  LET n == Len(e.nest)
         IN /\ DOMAIN new.nest = 1 .. n + 1 /\ DOMAIN new.scopes = 1 .. n + 2 /\ Len(new.nest) = n + 1
            /\ Len(new.scopes) = n + 2
            /\ \A i \in 1 .. n + 1 : Regs(new, i) = Regs(e, i) /\ (Kinds(new, i) <=> Kinds(e, i))
            /\ Regs(new, n + 2) = {} /\ Kinds(new, n + 2)
            /\ \A i \in 1 .. n : new.nest[i] = e.nest[i]
            /\ new.nest[n + 1] = open
<1> DEFINE n == Len(e.nest)
<1>1. /\ e.scopes \in Seq(Scopes) /\ Len(e.scopes) = n + 1 /\ e.nest \in Seq(Nested) /\ n \in Nat
      /\ new.nest = Append(e.nest, open) /\ new.scopes = Append(e.scopes, EmptyScope)
      /\ new.slotOf = e.slotOf
  BY ScopeShapes DEF Opens, Scoped
<1>2. \A i \in 1 .. n + 1 : new.scopes[i] = e.scopes[i]
  BY <1>1
<1>3. \A i \in 1 .. n + 1 : /\ FilesOf(new, i) = FilesOf(e, i) /\ StringsOf(new, i) = StringsOf(e, i)
                            /\ DynamicsOf(new, i) = DynamicsOf(e, i)
  BY <1>1, <1>2 DEF FilesOf, StringsOf, DynamicsOf
<1>4. new.scopes[n + 2] = EmptyScope
  BY <1>1
<1>5. FilesOf(new, n + 2) = {} /\ StringsOf(new, n + 2) = {} /\ DynamicsOf(new, n + 2) = {}
  BY <1>4 DEF FilesOf, StringsOf, DynamicsOf, EmptyScope, ToSet
<1>6. /\ DOMAIN new.nest = 1 .. n + 1 /\ DOMAIN new.scopes = 1 .. n + 2 /\ Len(new.nest) = n + 1
      /\ Len(new.scopes) = n + 2
      /\ \A i \in 1 .. n : new.nest[i] = e.nest[i]
      /\ new.nest[n + 1] = open
  BY <1>1
<1>7. \A i \in 1 .. n + 1 : Regs(new, i) = Regs(e, i) /\ (Kinds(new, i) <=> Kinds(e, i))
  BY <1>3 DEF Regs, Kinds
<1>8. Regs(new, n + 2) = {} /\ Kinds(new, n + 2)
  BY <1>5 DEF Regs, Kinds
<1> QED BY <1>6, <1>7, <1>8

\* What is owned outside of the new block is what was owned, and its slot.
LEMMA OpenScoped ==
  ASSUME NEW e \in Compilers, Scoped(e), NEW new \in Compilers, NEW open, Opens(e, new, open)
  PROVE  /\ Scoped(new) /\ Held(new) = Held(e) \cup ({open.slot} \ {0})
         /\ Level(new, Len(e.nest) + 1) = Held(new)
         /\ \A i \in 0 .. Len(e.nest) : Level(new, i) = Level(e, i)
<1> DEFINE n == Len(e.nest)
<1>1. /\ n \in Nat /\ DOMAIN e.scopes = 1 .. n + 1 /\ DOMAIN e.nest = 1 .. n
      /\ DOMAIN e.owner = 1 .. Len(e.owner) /\ Len(e.owner) \in Nat /\ e.owner \in Seq(Nat)
  BY ScopeShapes DEF Compilers
<1>2. /\ DOMAIN new.nest = 1 .. n + 1 /\ DOMAIN new.scopes = 1 .. n + 2 /\ Len(new.nest) = n + 1
      /\ Len(new.scopes) = n + 2
      /\ \A i \in 1 .. n + 1 : Regs(new, i) = Regs(e, i) /\ (Kinds(new, i) <=> Kinds(e, i))
      /\ Regs(new, n + 2) = {} /\ Kinds(new, n + 2)
      /\ \A i \in 1 .. n : new.nest[i] = e.nest[i]
      /\ new.nest[n + 1] = open
  BY OpenRegs
<1> DEFINE z == open.slot
<1>3. /\ \A s \in DOMAIN e.owner : s \in DOMAIN new.owner /\ new.owner[s] = e.owner[s]
      /\ e.iters \subseteq new.iters /\ new.iters \subseteq e.iters \cup ({z} \ {0})
      /\ z # 0 => z \notin DOMAIN e.owner /\ z \in new.iters /\ z \in Mine(new)
      /\ Fn(new) = Fn(e)
  <2>1. CASE z = 0 /\ new.owner = e.owner /\ new.iters = e.iters
    BY <2>1 DEF Opens
  <2>2. CASE z = NewSlot(e) /\ new.owner = Append(e.owner, Fn(e)) /\ new.iters = e.iters \cup {z}
    <3>1. z = Len(e.owner) + 1 /\ DOMAIN new.owner = 1 .. Len(e.owner) + 1
      BY <1>1, <2>2 DEF NewSlot
    <3>2. \A s \in 1 .. Len(e.owner) : new.owner[s] = e.owner[s]
      BY <1>1, <2>2
    <3>3. new.owner[Len(e.owner) + 1] = Fn(e)
      BY <1>1, <2>2
    <3>4. Fn(new) = Fn(e)
      BY DEF Opens
    <3> QED BY <1>1, <2>2, <3>1, <3>2, <3>3, <3>4 DEF Mine
  <2> QED BY <2>1, <2>2 DEF Opens
<1>4. /\ e.iters \subseteq DOMAIN e.owner
      /\ \A i \in 1 .. n + 1 : Regs(e, i) \subseteq Mine(e) \ e.iters /\ Kinds(e, i)
      /\ \A i, j \in 1 .. n + 1 : i # j => Regs(e, i) \cap Regs(e, j) = {}
      /\ \A i \in 1 .. n : e.nest[i].slot \in {0} \cup (Mine(e) \cap e.iters)
      /\ \A i, j \in 1 .. n : i # j /\ e.nest[i].slot # 0 => e.nest[i].slot # e.nest[j].slot
  BY <1>1 DEF Scoped
<1>5. Mine(e) \subseteq Mine(new) /\ Mine(e) \subseteq DOMAIN e.owner
  BY <1>3 DEF Mine
<1>6. z \in Nat /\ 0 \notin DOMAIN e.owner
  BY <1>1 DEF Opens, Nested
<1> HIDE DEF n, z
<1>7. Scoped(new)
  <2>1. Len(new.scopes) = Len(new.nest) + 1
    BY <1>1, <1>2
  <2>2. new.iters \subseteq DOMAIN new.owner
    BY <1>3, <1>4 DEF Mine
  <2>3. \A i \in DOMAIN new.scopes : Regs(new, i) \subseteq Mine(new) \ new.iters /\ Kinds(new, i)
    <3>1. \A i \in 1 .. n + 2 : i \in 1 .. n + 1 \/ i = n + 2
      BY <1>1
    <3>2. \A i \in 1 .. n + 1 : Regs(new, i) \subseteq Mine(new) \ new.iters /\ Kinds(new, i)
      BY <1>2, <1>3, <1>4, <1>5
    <3> QED BY <1>2, <3>1, <3>2
  <2>4. \A i, j \in DOMAIN new.scopes : i # j => Regs(new, i) \cap Regs(new, j) = {}
    <3>1. \A i \in 1 .. n + 2 : i \in 1 .. n + 1 \/ i = n + 2
      BY <1>1
    <3> QED BY <1>2, <1>4, <3>1
  <2>5. \A i \in 1 .. n + 1 : i \in 1 .. n \/ i = n + 1
    BY <1>1
  <2>z. new.nest[n + 1].slot = z /\ \A i \in 1 .. n : new.nest[i].slot = e.nest[i].slot
    BY <1>2 DEF z
  <2>6. \A i \in DOMAIN new.nest : new.nest[i].slot \in {0} \cup (Mine(new) \cap new.iters)
    <3>1. z \in {0} \cup (Mine(new) \cap new.iters)
      BY <1>3
    <3>2. \A i \in 1 .. n : e.nest[i].slot \in {0} \cup (Mine(new) \cap new.iters)
      BY <1>3, <1>4, <1>5
    <3> QED BY <1>2, <2>5, <2>z, <3>1, <3>2
  <2>7. \A i, j \in DOMAIN new.nest : i # j /\ new.nest[i].slot # 0 => new.nest[i].slot # new.nest[j].slot
    <3>1. \A i \in 1 .. n : z # 0 => e.nest[i].slot # z
      BY <1>3, <1>4, <1>5, <1>6
    <3> QED BY <1>2, <1>4, <2>5, <2>z, <3>1
  <2> QED BY <2>1, <2>2, <2>3, <2>4, <2>6, <2>7 DEF Scoped
<1>8. \A i \in 0 .. n : Level(new, i) = Level(e, i)
  <2> SUFFICES ASSUME NEW i \in 0 .. n, NEW s
               PROVE  s \in Level(new, i) <=> s \in Level(e, i)
    OBVIOUS
  <2>1. \A j \in 1 .. i : j \in 1 .. n /\ j \in 1 .. n + 1
    BY <1>1
  <2> QED BY <1>2, <2>1, InLevel
<1>9. Level(new, n + 1) = Held(e) \cup ({z} \ {0})
  <2> SUFFICES ASSUME NEW s
               PROVE  s \in Level(new, n + 1) <=> s \in Level(e, n) \/ s \in Regs(e, n + 1) \/ (s # 0 /\ s = z)
    BY <1>1 DEF Held, n
  <2>1. \A j \in 1 .. n + 1 : j \in 1 .. n \/ j = n + 1
    BY <1>1
  <2>2. n + 1 \in 1 .. n + 1 /\ \A j \in 1 .. n : j \in 1 .. n + 1
    BY <1>1
  <2> QED BY <1>2, <2>1, <2>2, InLevel DEF z
<1>10. Held(new) = Level(new, n + 1)
  <2>1. (n + 1) + 1 = n + 2
    BY <1>1
  <2> QED BY <1>2, <2>1 DEF Held
<1> QED BY <1>7, <1>8, <1>9, <1>10 DEF n, z

\* The blocks that the new one goes on to are new, and expect what it owns.
LEMMA OpenSound ==
  ASSUME NEW e \in Compilers, Scoped(e), NEW new \in Compilers, NEW open, Opens(e, new, open),
         NEW P, Expects(e, P), NEW PQ, NEW O, Ready(new, Owns(Held(new)), PQ, O),
         O = Pending(e) \cup {open.exit} \cup (IF open.kind = "branch" THEN {open.next} ELSE {}),
         open.slot = 0 <=> open.kind \in {"branch", "loop"},
         \A b \in DOMAIN P : b \in DOMAIN PQ /\ PQ[b] = P[b],
         \A b \in {open.next, open.exit} :
           /\ b \in DOMAIN PQ /\ PQ[b] = Owns(Held(new))
           /\ \A i \in DOMAIN e.nest : b \notin Blocks(e, i)
  PROVE  Sound(new)
<1> DEFINE n == Len(e.nest)
<1>1. n \in Nat /\ DOMAIN e.nest = 1 .. n
  BY ScopeShapes
<1>2. /\ DOMAIN new.nest = 1 .. n + 1 /\ Len(new.nest) = n + 1
      /\ \A i \in 1 .. n : new.nest[i] = e.nest[i]
      /\ new.nest[n + 1] = open
  BY OpenRegs
<1>3. /\ Scoped(new) /\ Level(new, n + 1) = Held(new)
      /\ \A i \in 0 .. n : Level(new, i) = Level(e, i)
  BY OpenScoped
<1> HIDE DEF n
<1>4. \A i \in 1 .. n + 1 : (i \in 1 .. n /\ i \in 0 .. n) \/ i = n + 1
  BY <1>1
<1>5. \A i \in 1 .. n : Blocks(new, i) = Blocks(e, i) /\ i \in 1 .. n + 1
  BY <1>1, <1>2 DEF Blocks
<1>6. Blocks(new, n + 1) = {open.next, open.exit} /\ n + 1 \in 1 .. n + 1
  BY <1>1, <1>2 DEF Blocks
<1>7. Pending(new) = O
  <2> SUFFICES ASSUME NEW b
               PROVE  b \in Pending(new) <=> b \in O
    OBVIOUS
  <2>1. b \in Pending(new) <=> \E i \in 1 .. n + 1 : b = new.nest[i].exit \/ (new.nest[i].kind = "branch" /\ b = new.nest[i].next)
    BY <1>2 DEF Pending
  <2>2. b \in Pending(e) <=> \E i \in 1 .. n : b = e.nest[i].exit \/ (e.nest[i].kind = "branch" /\ b = e.nest[i].next)
    BY <1>1 DEF Pending
  <2>3. (\E i \in 1 .. n + 1 : b = new.nest[i].exit \/ (new.nest[i].kind = "branch" /\ b = new.nest[i].next))
        <=> \/ \E i \in 1 .. n : b = e.nest[i].exit \/ (e.nest[i].kind = "branch" /\ b = e.nest[i].next)
            \/ b = open.exit \/ (open.kind = "branch" /\ b = open.next)
    <3> DEFINE G(c) == b = c.exit \/ (c.kind = "branch" /\ b = c.next)
    <3>1. (\E i \in 1 .. n + 1 : G(new.nest[i])) => (\E i \in 1 .. n : G(e.nest[i])) \/ G(open)
      <4> HIDE DEF G
      <4> QED BY <1>2, <1>4
    <3>2. ASSUME NEW i \in 1 .. n, G(e.nest[i])
          PROVE  \E j \in 1 .. n + 1 : G(new.nest[j])
      <4>1. i \in 1 .. n + 1 /\ new.nest[i] = e.nest[i]
        BY <1>2, <1>5
      <4> HIDE DEF G
      <4> QED BY <3>2, <4>1
    <3>3. G(open) => G(new.nest[n + 1])
      BY <1>2
    <3>4. n + 1 \in 1 .. n + 1
      BY <1>6
    <3>5. (\E i \in 1 .. n + 1 : G(new.nest[i])) <=> (\E i \in 1 .. n : G(e.nest[i])) \/ G(open)
      <4> HIDE DEF G
      <4> QED BY <3>1, <3>2, <3>3, <3>4
    <3> QED BY <3>5
  <2> QED BY <2>1, <2>2, <2>3
<1>8. Expects(new, PQ)
  <2>1. \A i \in 1 .. n : new.nest[i].slot = 0 <=> new.nest[i].kind \in {"branch", "loop"}
    BY <1>1, <1>2 DEF Expects
  <2>2. \A i \in 1 .. n : /\ Blocks(new, i) \subseteq DOMAIN PQ
                          /\ \A b \in Blocks(new, i) : PQ[b] = Owns(Level(new, i))
    BY <1>1, <1>3, <1>4, <1>5 DEF Expects
  <2>3. \A i, j \in 1 .. n : i # j => Blocks(new, i) \cap Blocks(new, j) = {}
    BY <1>1, <1>5 DEF Expects
  <2>4. /\ Blocks(new, n + 1) \subseteq DOMAIN PQ
        /\ \A b \in Blocks(new, n + 1) : PQ[b] = Owns(Level(new, n + 1))
    BY <1>3, <1>6
  <2>5. \A i \in 1 .. n : Blocks(new, i) \cap Blocks(new, n + 1) = {}
    BY <1>1, <1>5, <1>6
  <2> QED BY <1>2, <1>4, <2>1, <2>2, <2>3, <2>4, <2>5 DEF Expects
<1> QED BY <1>3, <1>7, <1>8 DEF Sound

\* What the visits of blocks do besides code.
PushNest(d, open, new) ==
  /\ new \in Compilers /\ new.code = d.code /\ new.fnOf = d.fnOf /\ new.here = d.here
  /\ new.owner = d.owner /\ new.iters = d.iters /\ new.slotOf = d.slotOf
  /\ new.nest = Append(d.nest, open) /\ new.scopes = Append(d.scopes, EmptyScope)

\* A block is opened: its scope is pushed with it.
LEMMA PushFields ==
  ASSUME NEW d \in Compilers, NEW open \in Nested, NEW ls \in Seq(Nested)
  PROVE  /\ PushNest(d, open, Push([d EXCEPT !.nest = Append(@, open)]))
         /\ PushNest(d, open, Push([d EXCEPT !.nest = Append(@, open), !.loops = ls]))
<1>1. d.nest \in Seq(Nested) /\ d.scopes \in Seq(Scopes)
  BY DEF Compilers
<1>2. EmptyScope \in Scopes
  BY DEF EmptyScope, Scopes
<1>3. Append(d.nest, open) \in Seq(Nested) /\ Append(d.scopes, EmptyScope) \in Seq(Scopes)
  BY <1>1, <1>2
<1>4. d.loops \in Seq(Nested)
  BY DEF Compilers
<1>5. Push([d EXCEPT !.nest = Append(@, open)])
        = [d EXCEPT !.nest = Append(d.nest, open), !.loops = d.loops, !.scopes = Append(d.scopes, EmptyScope)]
  BY DEF Push, Compilers
<1>6. Push([d EXCEPT !.nest = Append(@, open), !.loops = ls])
        = [d EXCEPT !.nest = Append(d.nest, open), !.loops = ls, !.scopes = Append(d.scopes, EmptyScope)]
  BY DEF Push, Compilers
<1>7. PICK ns \in Seq(Nested), ss \in Seq(Scopes) : ns = Append(d.nest, open) /\ ss = Append(d.scopes, EmptyScope)
  BY <1>3
<1>8. /\ PushNest(d, open, [d EXCEPT !.nest = ns, !.loops = d.loops, !.scopes = ss])
      /\ PushNest(d, open, [d EXCEPT !.nest = ns, !.loops = ls, !.scopes = ss])
  <2>1. \A l2 \in Seq(Nested) : PushNest(d, open, [d EXCEPT !.nest = ns, !.loops = l2, !.scopes = ss])
    <3> SUFFICES ASSUME NEW l2 \in Seq(Nested)
                 PROVE  PushNest(d, open, [d EXCEPT !.nest = ns, !.loops = l2, !.scopes = ss])
      OBVIOUS
    <3> DEFINE new == [d EXCEPT !.nest = ns, !.loops = l2, !.scopes = ss]
    <3>1. /\ new \in Compilers /\ new.code = d.code /\ new.fnOf = d.fnOf /\ new.here = d.here
          /\ new.owner = d.owner /\ new.iters = d.iters /\ new.slotOf = d.slotOf
          /\ new.nest = ns /\ new.scopes = ss
      BY DEF Compilers
    <3> HIDE DEF new
    <3>2. PushNest(d, open, new)
      BY <1>7, <3>1 DEF PushNest
    <3> QED BY <3>2 DEF new
  <2> QED BY <1>4, <2>1
<1> QED BY <1>5, <1>6, <1>7, <1>8

\* The blocks that a visit adds expect what is owned.
Fresh(e, P, k, K) == And(P, [b \in Len(e.code) + 1 .. Len(e.code) + k |-> Owns(K)])

\* The code with k more blocks, all empty.
FreshReady(e, P, O, k, K) ==
  /\ Ready(NewBlocks(e, k), Owns(K), Fresh(e, P, k, K), O \cup (Len(e.code) + 1 .. Len(e.code) + k))
  /\ DOMAIN Fresh(e, P, k, K) = DOMAIN P \cup (Len(e.code) + 1 .. Len(e.code) + k)
  /\ \A b \in Len(e.code) + 1 .. Len(e.code) + k : Fresh(e, P, k, K)[b] = Owns(K) /\ b \notin DOMAIN P
  /\ \A b \in DOMAIN P : Fresh(e, P, k, K)[b] = P[b]
  /\ Len(e.code) \in Nat

\* New blocks, all of which expect the slots in K.
LEMMA FreshBlocks ==
  ASSUME NEW e, NEW K, Owns(K) \in Types, NEW P, NEW O, Ready(e, Owns(K), P, O), NEW k \in Nat
  PROVE  FreshReady(e, P, O, k, K)
<1> DEFINE N == Len(e.code)
           Q == [b \in N + 1 .. N + k |-> Owns(K)]
<1>1. Q \in [N + 1 .. N + k -> Types] /\ DOMAIN Q = N + 1 .. N + k
  OBVIOUS
<1>2. Ready(NewBlocks(e, k), Owns(K), And(P, Q), O \cup DOMAIN Q)
  <2> HIDE DEF Q
  <2> QED BY <1>1, NewBlocksReady
<1>3. DOMAIN P \subseteq 1 .. N /\ N \in Nat
  <2>1. e.code \in Seq(Seq(Instrs)) /\ DOMAIN P \subseteq DOMAIN e.code
    BY DEF Ready, Shaped, Compilers
  <2> QED BY <2>1
<1>4. \A b \in N + 1 .. N + k : b \notin DOMAIN P
  BY <1>3
<1>5. /\ DOMAIN And(P, Q) = DOMAIN P \cup DOMAIN Q
      /\ \A b \in DOMAIN Q : And(P, Q)[b] = Q[b]
      /\ \A b \in DOMAIN P : b \notin DOMAIN Q => And(P, Q)[b] = P[b]
  BY DEF And
<1>6. \A b \in N + 1 .. N + k : Q[b] = Owns(K)
  OBVIOUS
<1>7. Fresh(e, P, k, K) = And(P, Q)
  BY DEF Fresh
<1> HIDE DEF Q, N
<1> QED BY <1>1, <1>2, <1>3, <1>4, <1>5, <1>6, <1>7 DEF N, FreshReady

\* The blocks of an open block are in the domain of what is expected.
LEMMA BlocksExpected ==
  ASSUME NEW e, NEW P, Expects(e, P), NEW b, b \notin DOMAIN P
  PROVE  \A i \in DOMAIN e.nest : b \notin Blocks(e, i)
BY DEF Expects

\* OpenBranch: both ways expect what is owned before the condition.
LEMMA BranchSound ==
  ASSUME NEW e \in Compilers, Sound(e), NEW withElse \in BOOLEAN
  PROVE  OpenBranch(e, withElse) \in Compilers /\ Sound(OpenBranch(e, withElse))
<1> DEFINE N == Len(e.code)
           k == IF withElse THEN 3 ELSE 2
           then == N + 1
           exit == N + 2
           other == IF withElse THEN N + 3 ELSE exit
           W == N + 1 .. N + k
           H == Held(e)
           instr == <<"cond", then, other>>
           nb == NewBlocks(e, k)
           at == At(Emit(nb, <<instr>>), then)
           open == [kind |-> "branch", next |-> other, exit |-> exit, slot |-> 0]
           new == Push([at EXCEPT !.nest = Append(@, open)])
<1>1. PICK P : Expects(e, P) /\ Ready(e, Owns(H), P, Pending(e))
  BY DEF Sound
<1>2. Scoped(e) /\ Owns(H) \in Types /\ k \in Nat /\ Shaped(e)
  BY <1>1, OwnsType DEF Sound, Ready
<1> DEFINE PQ == Fresh(e, P, k, H)
<1>3. /\ Ready(nb, Owns(H), PQ, Pending(e) \cup W)
      /\ DOMAIN PQ = DOMAIN P \cup W /\ N \in Nat
      /\ \A b \in W : PQ[b] = Owns(H) /\ b \notin DOMAIN P
      /\ \A b \in DOMAIN P : PQ[b] = P[b]
  <2> HIDE DEF k, H
  <2>1. FreshReady(e, P, Pending(e), k, H)
    BY <1>1, <1>2, FreshBlocks
  <2> QED BY <2>1 DEF FreshReady
<1>4. Same(e, nb)
  BY <1>2, CodeOnly
<1>5. then \in W /\ other \in W /\ exit \in W /\ W = {then, other, exit} /\ then # other /\ then # exit
      /\ open \in Nested
  <2>1. /\ then \in W /\ other \in W /\ exit \in W /\ W = {then, other, exit}
        /\ then # other /\ then # exit
    <3>1. CASE withElse
      BY <1>3, <3>1
    <3>2. CASE ~withElse
      BY <1>3, <3>2
    <3> QED BY <3>1, <3>2
  <2>2. other \in Nat /\ exit \in Nat
    BY <1>3
  <2>3. open \in Nested
    <3> HIDE DEF other, exit
    <3> QED BY <2>2 DEF Nested
  <2> QED BY <2>1, <2>3
<1>6. OpenBranch(e, withElse) = Visited(new, TRUE)
  <2>1. (then + 1) = exit /\ then + 2 = N + 3
    BY <1>3
  <2> QED BY <2>1 DEF OpenBranch, NextBlock
<1>7. Pending(e) \cap W = {}
  <2>1. Pending(e) \subseteq DOMAIN P
    BY <1>1 DEF Ready
  <2> QED BY <1>3, <2>1
<1> HIDE DEF nb, H, PQ, W, then, other, exit, new
<1>8. Leads(nb, PQ, instr, Owns(H))
  BY <1>3, <1>5 DEF Leads, Weaker
<1> HIDE DEF instr
<1>9. Ready(at, PQ[then], PQ, (Pending(e) \cup W) \ {then})
  BY <1>3, <1>5, <1>8, EndReady
<1>10. Same(nb, at)
  BY <1>3, <1>5, <1>8, EndSame DEF W
<1> HIDE DEF at
<1>11. Same(e, at)
  BY <1>4, <1>10, SameTransitive
<1>12. PushNest(at, open, new)
  <2> HIDE DEF open
  <2>1. at.loops \in Seq(Nested) /\ at \in Compilers
    BY <1>11 DEF Same, Compilers
  <2> QED BY <1>5, <2>1, PushFields DEF new
<1>13. Opens(e, new, open)
  <2>1. open.slot = 0
    OBVIOUS
  <2> HIDE DEF open
  <2> QED BY <1>5, <1>11, <1>12, <2>1 DEF Opens, PushNest, Same, SameScopes, Fn
<1>14. new \in Compilers /\ Held(new) = H
  <2>1. open.slot = 0
    OBVIOUS
  <2> HIDE DEF open
  <2>2. new \in Compilers
    BY <1>12 DEF PushNest
  <2>3. Held(new) = Held(e) \cup ({open.slot} \ {0})
    BY <1>2, <1>13, <2>2, OpenScoped
  <2> QED BY <2>1, <2>2, <2>3 DEF H
<1>15. Ready(new, Owns(Held(new)), PQ, (Pending(e) \cup W) \ {then})
  BY <1>3, <1>5, <1>9, <1>12, <1>14, SameCodeReady DEF PushNest
<1>16. (Pending(e) \cup W) \ {then} = Pending(e) \cup {open.exit} \cup (IF open.kind = "branch" THEN {open.next} ELSE {})
  <2>1. then \notin Pending(e)
    BY <1>5, <1>7
  <2>2. open.exit = exit /\ open.next = other /\ open.kind = "branch"
    OBVIOUS
  <2> HIDE DEF open
  <2> QED BY <1>5, <2>1, <2>2
<1>17. \A b \in {open.next, open.exit} :
         /\ b \in DOMAIN PQ /\ PQ[b] = Owns(Held(new))
         /\ \A i \in DOMAIN e.nest : b \notin Blocks(e, i)
  <2>1. \A b \in W : \A i \in DOMAIN e.nest : b \notin Blocks(e, i)
    BY <1>1, <1>3, BlocksExpected
  <2>2. open.exit = exit /\ open.next = other
    OBVIOUS
  <2> HIDE DEF open
  <2> QED BY <1>3, <1>5, <1>14, <2>1, <2>2
<1>18. open.slot = 0 <=> open.kind \in {"branch", "loop"}
  OBVIOUS
<1> HIDE DEF open
<1>19. \A b \in DOMAIN P : b \in DOMAIN PQ /\ PQ[b] = P[b]
  BY <1>3
<1>20. Sound(new)
  BY <1>1, <1>2, <1>13, <1>14, <1>15, <1>16, <1>17, <1>18, <1>19, OpenSound
<1> QED BY <1>6, <1>14, <1>20, VisitedSound

\* h is e, or e with one more slot that holds what a loop goes through.
Prepared(e, h, slot) ==
  /\ h \in Compilers /\ h.nest = e.nest /\ h.scopes = e.scopes /\ h.slotOf = e.slotOf /\ Fn(h) = Fn(e)
  /\ \/ slot = 0 /\ h.owner = e.owner /\ h.iters = e.iters
     \/ slot = NewSlot(e) /\ h.owner = Append(e.owner, Fn(e)) /\ h.iters = e.iters \cup {slot}

\* Loop: header, body and exit expect what is owned before, and the new slot.
LEMMA LoopSound ==
  ASSUME NEW e \in Compilers, Scoped(e), NEW P, Expects(e, P), NEW h, NEW slot \in Nat, NEW kind,
         Prepared(e, h, slot), Ready(h, Owns(Held(e) \cup ({slot} \ {0})), P, Pending(e)),
         kind \in {"loop", "list", "file"}, slot = 0 <=> kind = "loop"
  PROVE  Loop(h, kind, slot) \in Compilers /\ Sound(Loop(h, kind, slot))
<1> DEFINE N == Len(h.code)
           head == N + 1
           body == N + 2
           exit == N + 3
           W == N + 1 .. N + 3
           K == Held(e) \cup ({slot} \ {0})
           down == <<"br", head>>
           test == <<"cond", body, exit>>
           nb == NewBlocks(h, 3)
           top == At(Emit(nb, <<down>>), head)
           at == At(Emit(top, <<test>>), body)
           open == [kind |-> kind, next |-> head, exit |-> exit, slot |-> slot]
           ls == IF kind = "file" THEN at.loops ELSE Append(at.loops, open)
           new == Push([at EXCEPT !.nest = Append(@, open), !.loops = ls])
           PQ == Fresh(h, P, 3, K)
           O == Pending(e) \cup W
<1>1. Owns(K) \in Types /\ Shaped(h) /\ h \in Compilers
  <2>1. K \subseteq Nat
    BY OwnsType
  <2> HIDE DEF K
  <2> QED BY <2>1 DEF Owns, Types, Ready, Shaped
<1>2. /\ Ready(nb, Owns(K), PQ, O)
      /\ DOMAIN PQ = DOMAIN P \cup W /\ N \in Nat
      /\ \A b \in W : PQ[b] = Owns(K) /\ b \notin DOMAIN P
      /\ \A b \in DOMAIN P : PQ[b] = P[b]
  <2> HIDE DEF K
  <2>1. FreshReady(h, P, Pending(e), 3, K)
    BY <1>1, FreshBlocks DEF K
  <2> QED BY <2>1 DEF FreshReady
<1>3. Same(h, nb)
  BY <1>1, CodeOnly
<1>4. W = {head, body, exit} /\ head # body /\ head # exit /\ body # exit /\ {head, body, exit} \subseteq Nat
  BY <1>2
<1>5. Loop(h, kind, slot) = new
  <2>1. head + 1 = body /\ head + 2 = exit
    BY <1>2
  <2> QED BY <2>1 DEF Loop, NextBlock
<1>6. Pending(e) \cap W = {}
  <2>1. Pending(e) \subseteq DOMAIN P
    BY DEF Ready
  <2> QED BY <1>2, <2>1
<1>7. open \in Nested
  BY <1>4 DEF Nested
<1>8. /\ open.exit = exit /\ open.next = head /\ open.kind = kind /\ open.slot = slot
  OBVIOUS
<1> HIDE DEF nb, K, PQ, W, head, body, exit, new, open
<1>9. Leads(nb, PQ, down, Owns(K))
  BY <1>2, <1>4 DEF Leads, Weaker
<1> HIDE DEF down
<1>10. Ready(top, PQ[head], PQ, O \ {head}) /\ PQ[head] = Owns(K)
  BY <1>2, <1>4, <1>9, EndReady
<1>11. Same(nb, top)
  BY <1>2, <1>4, <1>9, EndSame
<1> HIDE DEF top
<1>12. Leads(top, PQ, test, Owns(K))
  BY <1>2, <1>4 DEF Leads, Weaker
<1> HIDE DEF test
<1>13. body \in O \ {head} /\ PQ[body] = Owns(K) /\ Ready(top, Owns(K), PQ, O \ {head})
  BY <1>2, <1>4, <1>10
<1>14. Ready(at, PQ[body], PQ, (O \ {head}) \ {body})
  BY <1>12, <1>13, EndReady
<1>15. Same(top, at)
  BY <1>4, <1>12, <1>13, EndSame
<1> HIDE DEF at
<1>16. Same(h, at)
  BY <1>3, <1>11, <1>15, SameTransitive
<1>17. PushNest(at, open, new)
  <2>1. at.loops \in Seq(Nested) /\ at \in Compilers
    BY <1>16 DEF Same, Compilers
  <2>2. ls \in Seq(Nested)
    BY <1>7, <2>1
  <2> HIDE DEF ls
  <2> QED BY <1>7, <2>1, <2>2, PushFields DEF new
<1>18. Opens(e, new, open)
  BY <1>7, <1>8, <1>16, <1>17 DEF Opens, PushNest, Same, SameScopes, Fn, Prepared
<1>19. new \in Compilers /\ Held(new) = K
  <2>1. new \in Compilers
    BY <1>17 DEF PushNest
  <2>2. Held(new) = Held(e) \cup ({open.slot} \ {0})
    BY <1>18, <2>1, OpenScoped
  <2> QED BY <1>8, <2>1, <2>2 DEF K
<1>20. Ready(new, Owns(Held(new)), PQ, (O \ {head}) \ {body})
  BY <1>13, <1>14, <1>17, <1>19, SameCodeReady DEF PushNest
<1>21. (O \ {head}) \ {body} = Pending(e) \cup {open.exit} \cup (IF open.kind = "branch" THEN {open.next} ELSE {})
  <2>1. head \notin Pending(e) /\ body \notin Pending(e)
    BY <1>4, <1>6
  <2>2. open.kind # "branch"
    BY <1>8
  <2> QED BY <1>4, <1>8, <2>1, <2>2
<1>22. \A b \in {open.next, open.exit} :
         /\ b \in DOMAIN PQ /\ PQ[b] = Owns(Held(new))
         /\ \A i \in DOMAIN e.nest : b \notin Blocks(e, i)
  <2>1. \A b \in W : \A i \in DOMAIN e.nest : b \notin Blocks(e, i)
    BY <1>2, BlocksExpected
  <2> QED BY <1>2, <1>4, <1>8, <1>19, <2>1
<1>23. open.slot = 0 <=> open.kind \in {"branch", "loop"}
  BY <1>8
<1>24. \A b \in DOMAIN P : b \in DOMAIN PQ /\ PQ[b] = P[b]
  BY <1>2
<1> HIDE DEF O
<1>25. Sound(new)
  BY <1>18, <1>19, <1>20, <1>21, <1>22, <1>23, <1>24, OpenSound
<1> QED BY <1>5, <1>19, <1>25

\* A loop over nothing that has to be released.
LEMMA OpenLoopSound ==
  ASSUME NEW e \in Compilers, Sound(e)
  PROVE  OpenLoop(e) \in Compilers /\ Sound(OpenLoop(e))
<1>1. PICK P : Expects(e, P) /\ Ready(e, Owns(Held(e)), P, Pending(e))
  BY DEF Sound
<1>2. Scoped(e) /\ Prepared(e, e, 0)
  BY DEF Sound, Prepared
<1>3. Held(e) \cup ({0} \ {0}) = Held(e)
  OBVIOUS
<1> DEFINE kind == "loop"
           slot == 0
<1>4. Loop(e, kind, slot) \in Compilers /\ Sound(Loop(e, kind, slot))
  <2>1. slot \in Nat /\ Prepared(e, e, slot) /\ Ready(e, Owns(Held(e) \cup ({slot} \ {0})), P, Pending(e))
        /\ kind \in {"loop", "list", "file"} /\ (slot = 0 <=> kind = "loop")
    BY <1>1, <1>2, <1>3
  <2> HIDE DEF kind, slot
  <2> QED BY <1>1, <1>2, <2>1, LoopSound
<1> QED BY <1>4, VisitedSound DEF OpenLoop

\* What a loop goes through is owned by its slot, which is in no scope.
LEMMA OpenIterSound ==
  ASSUME NEW e \in Compilers, Sound(e), NEW kind \in {"list", "file"}
  PROVE  OpenIter(e, kind) \in Compilers /\ Sound(OpenIter(e, kind))
<1> DEFINE s == NewSlot(e)
           H == Held(e)
           a == AddSlot(e)
           o == Emit(a, << <<"own", s>> >>)
           h == [o EXCEPT !.iters = @ \cup {s}]
           K == H \cup ({s} \ {0})
<1>1. PICK P : Expects(e, P) /\ Ready(e, Owns(H), P, Pending(e))
  BY DEF Sound
<1>2. Scoped(e) /\ Owns(H) \in Types /\ H \subseteq Nat
  BY OwnsType DEF Sound
<1>3. /\ Ready(a, Owns(H), P, Pending(e)) /\ a \in Compilers
      /\ a.scopes = e.scopes /\ a.slotOf = e.slotOf /\ a.nest = e.nest /\ a.iters = e.iters
      /\ a.owner = Append(e.owner, Fn(e)) /\ Fn(a) = Fn(e)
      /\ s \in Mine(a) /\ s \notin H /\ s \in Nat
  BY <1>1, <1>2, AddSlotReady
<1>4. s # 0
  BY <1>2, ScopeShapes DEF NewSlot
<1>5. OpenIter(e, kind) = Visited(Loop(h, kind, s), TRUE)
  BY DEF OpenIter
<1> HIDE DEF s, H, a
<1>6. Flow("own", s, Owns(H), Owns(K)) /\ Owns(K) \in Types
  BY <1>2, <1>3, <1>4 DEF Types, Flow, Weaker, Owns
<1> HIDE DEF K
<1>7. Ready(o, Owns(K), P, Pending(e)) /\ Same(a, o)
  BY <1>2, <1>3, <1>6, EmitOne DEF Ops
<1> HIDE DEF o
<1>8. /\ h \in Compilers /\ h.iters = o.iters \cup {s} /\ h.code = o.code /\ h.fnOf = o.fnOf /\ h.here = o.here
      /\ h.owner = o.owner /\ h.nest = o.nest /\ h.scopes = o.scopes /\ h.slotOf = o.slotOf
  <2>1. o \in Compilers
    BY <1>7 DEF Same
  <2>2. o.iters \cup {s} \in SUBSET Nat
    BY <1>3, <2>1 DEF Compilers
  <2> QED BY <2>1, <2>2 DEF Compilers
<1> HIDE DEF h
<1>9. Ready(h, Owns(K), P, Pending(e))
  BY <1>7, <1>8, SameCodeReady
<1>10. Prepared(e, h, s)
  BY <1>3, <1>7, <1>8 DEF Prepared, Same, SameScopes, Fn, s
<1>11. kind \in {"loop", "list", "file"} /\ (s = 0 <=> kind = "loop")
  BY <1>4
<1>12. Loop(h, kind, s) \in Compilers /\ Sound(Loop(h, kind, s))
  BY <1>1, <1>2, <1>3, <1>9, <1>10, <1>11, LoopSound DEF K, H
<1> QED BY <1>5, <1>12, VisitedSound

-----------------------------------------------------------------------------
(* Blocks end.                                                             *)

\* The innermost block is no longer open in new.
Closes(e, new) ==
  /\ Len(e.nest) > 0 /\ new.nest = Front(e.nest) /\ new.scopes = Front(e.scopes)
  /\ new.slotOf = e.slotOf /\ new.owner = e.owner /\ new.iters = e.iters /\ Fn(new) = Fn(e)

\* What is left of a sequence.
LEMMA FrontFields ==
  ASSUME NEW S, NEW s \in Seq(S), Len(s) > 0
  PROVE  /\ Front(s) \in Seq(S) /\ Len(Front(s)) = Len(s) - 1
         /\ \A i \in 1 .. Len(s) - 1 : Front(s)[i] = s[i]
         /\ Last(s) = s[Len(s)]
<1> DEFINE n == Len(s) - 1
<1>1. n \in Nat /\ \A i \in 1 .. n : s[i] \in S
  OBVIOUS
<1> HIDE DEF n
<1>2. 1 \in Int /\ n \in Int /\ n - 1 + 1 = n /\ (1 <= n \/ n = 0) /\ \A i \in 1 .. n : 1 + i - 1 = i
  BY <1>1
<1>3. /\ SubSeq(s, 1, n) \in Seq(S) /\ Len(SubSeq(s, 1, n)) = n
      /\ \A i \in 1 .. n : SubSeq(s, 1, n)[i] = s[i]
  BY <1>1, <1>2, SubSeqProperties
<1> QED BY <1>3 DEF Front, Last, n

\* What was owned outside is left, without what the block went through.
LEMMA CloseScoped ==
  ASSUME NEW e \in Compilers, Scoped(e), NEW new \in Compilers, Closes(e, new)
  PROVE  LET n == Len(e.nest)
         IN /\ Scoped(new) /\ Len(new.nest) = n - 1 /\ DOMAIN new.nest = 1 .. n - 1
            /\ \A i \in 1 .. n - 1 : new.nest[i] = e.nest[i]
            /\ \A i \in 0 .. n - 1 : Level(new, i) = Level(e, i)
            /\ Held(new) = Level(e, n) \ {e.nest[n].slot}
            /\ Held(e) \ Regs(e, n + 1) = Level(e, n)
            /\ e.nest[n].slot # 0 => e.nest[n].slot \in Level(e, n)
<1> DEFINE n == Len(e.nest)
           z == e.nest[n].slot
<1>1. /\ n \in Nat /\ n > 0 /\ DOMAIN e.scopes = 1 .. n + 1 /\ DOMAIN e.nest = 1 .. n
      /\ e.scopes \in Seq(Scopes) /\ Len(e.scopes) = n + 1 /\ e.nest \in Seq(Nested)
  BY ScopeShapes DEF Scoped, Closes
<1>2. /\ new.nest \in Seq(Nested) /\ Len(new.nest) = n - 1 /\ \A i \in 1 .. n - 1 : new.nest[i] = e.nest[i]
  <2>1. new.nest = Front(e.nest)
    BY DEF Closes
  <2> QED BY <1>1, <2>1, FrontFields
<1>3. /\ new.scopes \in Seq(Scopes) /\ Len(new.scopes) = n /\ \A i \in 1 .. n : new.scopes[i] = e.scopes[i]
  <2>1. new.scopes = Front(e.scopes) /\ Len(e.scopes) - 1 = n /\ Len(e.scopes) > 0
    BY <1>1 DEF Closes
  <2> QED BY <1>1, <2>1, FrontFields
<1>4. DOMAIN new.nest = 1 .. n - 1 /\ DOMAIN new.scopes = 1 .. n
  BY <1>1, <1>2, <1>3
<1>5. \A i \in 1 .. n : /\ FilesOf(new, i) = FilesOf(e, i) /\ StringsOf(new, i) = StringsOf(e, i)
                        /\ DynamicsOf(new, i) = DynamicsOf(e, i)
  BY <1>3 DEF FilesOf, StringsOf, DynamicsOf, Closes
<1>6. \A i \in 1 .. n : Regs(new, i) = Regs(e, i) /\ (Kinds(new, i) <=> Kinds(e, i))
  BY <1>5 DEF Regs, Kinds
<1>7. /\ e.iters \subseteq DOMAIN e.owner
      /\ \A i \in 1 .. n + 1 : Regs(e, i) \subseteq Mine(e) \ e.iters /\ Kinds(e, i)
      /\ \A i, j \in 1 .. n + 1 : i # j => Regs(e, i) \cap Regs(e, j) = {}
      /\ \A i \in 1 .. n : e.nest[i].slot \in {0} \cup (Mine(e) \cap e.iters)
      /\ \A i, j \in 1 .. n : i # j /\ e.nest[i].slot # 0 => e.nest[i].slot # e.nest[j].slot
  BY <1>1 DEF Scoped
<1>8. Mine(new) = Mine(e) /\ new.iters = e.iters /\ DOMAIN new.owner = DOMAIN e.owner
  BY DEF Mine, Closes
<1> HIDE DEF n
<1>9. \A i \in 1 .. n - 1 : i \in 1 .. n
  BY <1>1
<1>10. \A i \in 1 .. n : i \in 1 .. n + 1
  BY <1>1
<1>11. Scoped(new)
  <2>1. Len(new.scopes) = Len(new.nest) + 1
    BY <1>1, <1>2, <1>3
  <2>2. \A i \in DOMAIN new.scopes : Regs(new, i) \subseteq Mine(new) \ new.iters /\ Kinds(new, i)
    BY <1>4, <1>6, <1>7, <1>8, <1>10
  <2>3. \A i, j \in DOMAIN new.scopes : i # j => Regs(new, i) \cap Regs(new, j) = {}
    BY <1>4, <1>6, <1>7, <1>10
  <2>4. \A i \in DOMAIN new.nest : new.nest[i].slot \in {0} \cup (Mine(new) \cap new.iters)
    BY <1>2, <1>4, <1>7, <1>8, <1>9
  <2>5. \A i, j \in DOMAIN new.nest : i # j /\ new.nest[i].slot # 0 => new.nest[i].slot # new.nest[j].slot
    BY <1>2, <1>4, <1>7, <1>9
  <2> QED BY <1>7, <1>8, <2>1, <2>2, <2>3, <2>4, <2>5 DEF Scoped
<1>12. \A i \in 0 .. n - 1 : Level(new, i) = Level(e, i)
  <2> SUFFICES ASSUME NEW i \in 0 .. n - 1, NEW s
               PROVE  s \in Level(new, i) <=> s \in Level(e, i)
    OBVIOUS
  <2>1. \A j \in 1 .. i : j \in 1 .. n - 1 /\ j \in 1 .. n
    BY <1>1
  <2> QED BY <1>2, <1>6, <2>1, InLevel
<1>13. n \in 1 .. n /\ n \in 1 .. n + 1 /\ n + 1 \in 1 .. n + 1 /\ (n - 1) + 1 = n /\ n - 1 \in 0 .. n - 1
       /\ \A j \in 1 .. n : (j \in 1 .. n - 1 /\ j # n) \/ j = n
  BY <1>1
<1>14. 0 \notin Mine(e)
  BY HeldMine
<1>15. Held(new) = Level(e, n) \ {z}
  <2>1. Held(new) = Level(e, n - 1) \cup Regs(e, n)
    BY <1>2, <1>6, <1>12, <1>13 DEF Held
  <2> SUFFICES ASSUME NEW s
               PROVE  s \in Level(e, n - 1) \/ s \in Regs(e, n) <=> s \in Level(e, n) /\ s # z
    BY <2>1
  <2>2. s \in Level(e, n) <=> s \in Level(e, n - 1) \/ s \in Regs(e, n) \/ (s # 0 /\ s = z)
    BY <1>9, <1>13, InLevel
  <2>3. s \in Regs(e, n) => s # z
    BY <1>7, <1>13, <1>14
  <2>4. s \in Level(e, n - 1) => s # z
    <3>1. ASSUME NEW j \in 1 .. n - 1, s \in Regs(e, j) \/ (s # 0 /\ s = e.nest[j].slot)
          PROVE  s # z
      <4>1. j \in 1 .. n /\ j \in 1 .. n + 1 /\ j # n
        BY <1>1, <3>1
      <4>2. s \in Regs(e, j) => s # z
        BY <1>7, <1>13, <1>14, <4>1
      <4>3. s # 0 /\ s = e.nest[j].slot => s # z
        BY <1>7, <1>13, <4>1
      <4> QED BY <3>1, <4>2, <4>3
    <3> QED BY <3>1, InLevel
  <2> QED BY <2>2, <2>3, <2>4
<1>16. Held(e) \ Regs(e, n + 1) = Level(e, n)
  <2>1. Held(e) = Level(e, n) \cup Regs(e, n + 1)
    BY DEF Held, n
  <2> SUFFICES ASSUME NEW s, s \in Level(e, n), s \in Regs(e, n + 1)
               PROVE  FALSE
    BY <2>1
  <2>2. PICK j \in 1 .. n : s \in Regs(e, j) \/ (s # 0 /\ s = e.nest[j].slot)
    BY InLevel
  <2>3. j \in 1 .. n + 1 /\ j # n + 1
    BY <1>1
  <2>4. s \notin Regs(e, j)
    BY <1>7, <1>13, <2>3
  <2>5. s \notin e.iters
    BY <1>7, <1>13
  <2> QED BY <1>7, <2>2, <2>4, <2>5
<1>17. z # 0 => z \in Level(e, n)
  BY <1>13, InLevel
<1> QED BY <1>2, <1>4, <1>11, <1>12, <1>15, <1>16, <1>17 DEF n

\* The blocks that are still open expect what they did.
LEMMA CloseExpects ==
  ASSUME NEW e \in Compilers, Scoped(e), NEW P, Expects(e, P), NEW new \in Compilers, Closes(e, new)
  PROVE  LET c == e.nest[Len(e.nest)]
         IN /\ Expects(new, P)
            /\ Pending(new) = Pending(e) \ ({c.exit} \cup (IF c.kind = "branch" THEN {c.next} ELSE {}))
            /\ Pending(e) = Pending(new) \cup {c.exit} \cup (IF c.kind = "branch" THEN {c.next} ELSE {})
            /\ \A b \in {c.next, c.exit} : /\ b \in DOMAIN P /\ P[b] = Owns(Level(e, Len(e.nest)))
                                           /\ \A i \in DOMAIN new.nest : b \notin Blocks(new, i)
            /\ c.slot = 0 <=> c.kind \in {"branch", "loop"}
<1> DEFINE n == Len(e.nest)
           c == e.nest[n]
<1>1. n \in Nat /\ n > 0 /\ DOMAIN e.nest = 1 .. n /\ n \in 1 .. n
  BY ScopeShapes DEF Closes
<1>2. /\ DOMAIN new.nest = 1 .. n - 1
      /\ \A i \in 1 .. n - 1 : new.nest[i] = e.nest[i]
      /\ \A i \in 0 .. n - 1 : Level(new, i) = Level(e, i)
  BY CloseScoped
<1>3. \A i \in 1 .. n - 1 : /\ i \in 1 .. n /\ i # n /\ i \in 0 .. n - 1
                            /\ Blocks(new, i) = Blocks(e, i)
  BY <1>1, <1>2 DEF Blocks
<1>4. \A i \in 1 .. n :
        /\ e.nest[i].slot = 0 <=> e.nest[i].kind \in {"branch", "loop"}
        /\ Blocks(e, i) \subseteq DOMAIN P
        /\ \A b \in Blocks(e, i) : P[b] = Owns(Level(e, i))
        /\ \A j \in 1 .. n : i # j => Blocks(e, i) \cap Blocks(e, j) = {}
  BY <1>1 DEF Expects
<1>5. Blocks(e, n) = {c.next, c.exit}
  BY DEF Blocks
<1>6. \A i \in 1 .. n : i \in 1 .. n - 1 \/ i = n
  BY <1>1
<1> DEFINE G(b, d) == b = d.exit \/ (d.kind = "branch" /\ b = d.next)
<1>7. \A b : (b \in Pending(new) <=> \E i \in 1 .. n - 1 : G(b, new.nest[i]))
  BY <1>2 DEF Pending
<1>8. \A b : (b \in Pending(e) <=> \E i \in 1 .. n : G(b, e.nest[i]))
  BY <1>1 DEF Pending
<1>9. \A b : (b \in {c.exit} \cup (IF c.kind = "branch" THEN {c.next} ELSE {}) <=> G(b, c))
  OBVIOUS
<1>10. \A b : G(b, c) => b \in Blocks(e, n)
  BY <1>5
<1>11. \A b : \A i \in 1 .. n - 1 : G(b, new.nest[i]) => b \in Blocks(e, i)
  BY <1>2 DEF Blocks
<1>12. \A i \in 1 .. n - 1 : Blocks(e, i) \cap Blocks(e, n) = {}
  BY <1>1, <1>3, <1>4
<1> HIDE DEF G, n, c
<1>13. \A b : (b \in Pending(e) <=> b \in Pending(new) \/ G(b, c))
  <2> SUFFICES ASSUME NEW b
               PROVE  (\E i \in 1 .. n : G(b, e.nest[i])) <=> (\E i \in 1 .. n - 1 : G(b, new.nest[i])) \/ G(b, c)
    BY <1>7, <1>8
  <2>1. ASSUME NEW i \in 1 .. n, G(b, e.nest[i])
        PROVE  (\E j \in 1 .. n - 1 : G(b, new.nest[j])) \/ G(b, c)
    <3>1. CASE i = n
      BY <2>1, <3>1 DEF c
    <3>2. CASE i \in 1 .. n - 1
      BY <1>2, <2>1, <3>2
    <3> QED BY <1>6, <3>1, <3>2
  <2>2. ASSUME NEW i \in 1 .. n - 1, G(b, new.nest[i])
        PROVE  \E j \in 1 .. n : G(b, e.nest[j])
    BY <1>2, <1>3, <2>2
  <2>3. G(b, c) => G(b, e.nest[n])
    BY DEF c
  <2> QED BY <1>1, <2>1, <2>2, <2>3
<1>14. \A b : b \in Pending(new) => ~G(b, c)
  BY <1>7, <1>10, <1>11, <1>12
<1>15. Expects(new, P)
  BY <1>2, <1>3, <1>4 DEF Expects
<1>16. \A b \in {c.next, c.exit} : /\ b \in DOMAIN P /\ P[b] = Owns(Level(e, n))
                                   /\ \A i \in DOMAIN new.nest : b \notin Blocks(new, i)
  BY <1>1, <1>2, <1>3, <1>4, <1>5, <1>12
<1>17. c.slot = 0 <=> c.kind \in {"branch", "loop"}
  BY <1>1, <1>4 DEF c
<1>18. Pending(new) = Pending(e) \ ({c.exit} \cup (IF c.kind = "branch" THEN {c.next} ELSE {}))
  BY <1>9, <1>13, <1>14
<1>19. Pending(e) = Pending(new) \cup {c.exit} \cup (IF c.kind = "branch" THEN {c.next} ELSE {})
  BY <1>9, <1>13
<1> QED BY <1>15, <1>16, <1>17, <1>18, <1>19 DEF n, c

\* Pop releases the innermost scope, and what is owned outside is left.
LEMMA PopReady ==
  ASSUME NEW e \in Compilers, Scoped(e), NEW P, NEW O, Ready(e, Owns(Held(e)), P, O)
  PROVE  LET n == Len(e.nest)
             new == Pop(e)
         IN /\ Ready(new, Owns(Held(e) \ Regs(e, n + 1)), P, O)
            /\ new \in Compilers /\ new.scopes = Front(e.scopes)
            /\ new.slotOf = e.slotOf /\ new.nest = e.nest /\ new.loops = e.loops /\ new.fnOf = e.fnOf
            /\ new.owner = e.owner /\ new.iters = e.iters /\ Fn(new) = Fn(e)
<1> DEFINE n == Len(e.nest)
           A == Regs(e, n + 1)
           cs == Cleanup(e, {Last(e.scopes)})
           o == Emit(e, cs)
           new == [o EXCEPT !.scopes = Front(@)]
<1>1. /\ n \in Nat /\ Len(e.scopes) = n + 1 /\ n + 1 \in DOMAIN e.scopes /\ e.scopes \in Seq(Scopes)
      /\ Len(e.scopes) > 0
  BY ScopeShapes DEF Scoped
<1>2. Releases(cs, A)
  <2>1. {n + 1} \in SUBSET DOMAIN e.scopes
    BY <1>1
  <2>2. {e.scopes[i] : i \in {n + 1}} = {Last(e.scopes)} /\ UNION {Regs(e, i) : i \in {n + 1}} = A
    BY <1>1 DEF Last
  <2>3. Releases(Cleanup(e, {e.scopes[i] : i \in {n + 1}}), UNION {Regs(e, i) : i \in {n + 1}})
    BY <2>1, CleanupReleases
  <2> QED BY <2>2, <2>3
<1>3. A \subseteq Held(e) /\ A \subseteq Mine(e) /\ Held(e) \subseteq Nat
  BY HeldMine DEF Held
<1>4. Owns(Held(e)) \in Types
  BY OwnsType
<1>5. Pop(e) = new
  BY DEF Pop
<1>6. Shaped(e)
  BY DEF Ready
<1> HIDE DEF A, cs
<1>7. Ready(o, [h |-> Held(e) \ A, z |-> {}], P, O)
  <2>1. A \subseteq Owns(Held(e)).h \cup Owns(Held(e)).z /\ A \subseteq DOMAIN e.owner /\ \A s \in A : e.owner[s] = Fn(e)
    BY <1>3 DEF Owns, Mine
  <2>2. Ready(o, [h |-> Owns(Held(e)).h \ A, z |-> Owns(Held(e)).z], P, O)
    BY <1>2, <1>4, <2>1, ReleaseReady
  <2> QED BY <2>2 DEF Owns
<1>8. cs \in Seq(Instrs)
  <2>1. cs \in Seq({"close", "free"} \X A)
    BY <1>2 DEF Releases
  <2>2. ({"close", "free"} \X A) \subseteq Instrs
    BY <1>3 DEF Instrs, Ops
  <2> QED BY <2>1, <2>2
<1>9. /\ o \in Compilers /\ o.scopes = e.scopes /\ o.slotOf = e.slotOf /\ o.nest = e.nest
      /\ o.loops = e.loops /\ o.fnOf = e.fnOf /\ o.owner = e.owner /\ o.iters = e.iters
  <2>1. e.here \in DOMAIN e.code
    BY <1>6 DEF Shaped
  <2> QED BY <1>8, <2>1, EmitFields
<1> HIDE DEF o
<1>10. Front(e.scopes) \in Seq(Scopes)
  BY <1>1, FrontFields
<1>11. /\ new \in Compilers /\ new.scopes = Front(e.scopes) /\ new.code = o.code /\ new.fnOf = o.fnOf /\ new.here = o.here
       /\ new.slotOf = e.slotOf /\ new.nest = e.nest /\ new.loops = e.loops
       /\ new.owner = e.owner /\ new.iters = e.iters
  BY <1>9, <1>10 DEF Compilers
<1> HIDE DEF new
<1>12. Fn(new) = Fn(e)
  BY <1>9, <1>11 DEF Fn
<1>13. Ready(new, Owns(Held(e) \ A), P, O)
  BY <1>7, <1>9, <1>11, SameCodeReady DEF Owns
<1> QED BY <1>5, <1>9, <1>11, <1>12, <1>13 DEF n, A

\* The end of a block: its scope is released and control goes on.
LEMMA CloseBlockSound ==
  ASSUME NEW e \in Compilers, Sound(e), e.nest # <<>>
  PROVE  CloseBlock(e) \in Compilers /\ Sound(CloseBlock(e))
<1> DEFINE n == Len(e.nest)
           c == Last(e.nest)
           p == Pop(e)
           to == IF c.kind = "branch" THEN c.exit ELSE c.next
           instr == <<"br", to>>
           w == Emit(p, <<instr>>)
           L == Level(e, n)
           d(b) == [At(w, b) EXCEPT !.nest = Front(@)]
           loops(x) == [x EXCEPT !.loops = Front(@)]
           again == [c EXCEPT !.next = c.exit]
<1>1. PICK P : Expects(e, P) /\ Ready(e, Owns(Held(e)), P, Pending(e))
  BY DEF Sound
<1>2. /\ Scoped(e) /\ n \in Nat /\ n > 0 /\ e.nest \in Seq(Nested) /\ c = e.nest[n] /\ c \in Nested
      /\ n \in DOMAIN e.nest
  BY ScopeShapes DEF Sound, Last
<1>3. /\ Ready(p, Owns(Held(e) \ Regs(e, n + 1)), P, Pending(e))
      /\ p \in Compilers /\ p.scopes = Front(e.scopes)
      /\ p.slotOf = e.slotOf /\ p.nest = e.nest /\ p.loops = e.loops
      /\ p.owner = e.owner /\ p.iters = e.iters /\ Fn(p) = Fn(e)
  BY <1>1, <1>2, PopReady
<1>4. EndBlock(e) = p
  BY <1>1, ReadyOpen DEF EndBlock
<1>5. EmitOpen(p, <<instr>>) = w
  BY <1>3, ReadyOpen DEF EmitOpen
<1>6. CloseBlock(e) =
        CASE c.kind = "branch" /\ c.next # c.exit ->
                Push([At(d(c.exit), c.next) EXCEPT !.nest = Append(@, again)])
          [] c.kind = "branch" /\ c.next = c.exit -> d(c.exit)
          [] c.kind = "loop" -> loops(d(c.exit))
          [] c.kind = "list" -> Emit(loops(d(c.exit)), << <<"close", c.slot>> >>)
          [] OTHER -> Emit(d(c.exit), << <<"close", c.slot>> >>)
  BY <1>4, <1>5 DEF CloseBlock
<1>7. /\ P[c.next] = Owns(L) /\ P[c.exit] = Owns(L) /\ c.next \in DOMAIN P /\ c.exit \in DOMAIN P
      /\ c.exit \in Pending(e) /\ (c.kind = "branch" => c.next \in Pending(e))
      /\ c.kind \in {"branch", "loop", "list", "file"} /\ c.slot \in Nat /\ c.exit \in Nat /\ c.next \in Nat
  <2>1. c.next \in Blocks(e, n) /\ c.exit \in Blocks(e, n)
    BY <1>2 DEF Blocks
  <2>2. c.exit \in Pending(e) /\ (c.kind = "branch" => c.next \in Pending(e))
    BY <1>2 DEF Pending
  <2> QED BY <1>1, <1>2, <2>1, <2>2 DEF Expects, Nested
<1> HIDE DEF p, c, n
<1>8. Held(e) \ Regs(e, n + 1) = L /\ L \subseteq Mine(e) /\ L \subseteq Nat /\ 0 \notin L
  <2> DEFINE f == [e EXCEPT !.nest = Front(@), !.scopes = Front(@)]
  <2>1. Front(e.nest) \in Seq(Nested) /\ Front(e.scopes) \in Seq(Scopes)
    <3>1. Len(e.nest) > 0 /\ e.scopes \in Seq(Scopes) /\ Len(e.scopes) > 0
      BY <1>2, ScopeShapes DEF n, Scoped
    <3> QED BY <1>2, <3>1, FrontFields
  <2>2. f \in Compilers /\ Closes(e, f)
    BY <1>2, <2>1 DEF Compilers, Closes, Fn, n
  <2> HIDE DEF f
  <2>3. Held(e) \ Regs(e, n + 1) = L
    BY <1>2, <2>2, CloseScoped DEF n
  <2>4. n \in 0 .. Len(e.nest)
    BY <1>2 DEF n
  <2> QED BY <1>2, <2>3, <2>4, HeldMine
<1>9. Ready(p, Owns(L), P, Pending(e)) /\ Owns(L) \in Types
  BY <1>3, <1>8 DEF Owns, Types
<1> HIDE DEF L
<1>10. Leads(p, P, instr, Owns(L))
  <2>1. to \in DOMAIN P /\ P[to] = Owns(L)
    BY <1>7
  <2> HIDE DEF to
  <2> QED BY <2>1 DEF Leads, Weaker
<1> HIDE DEF instr
<1>11. ASSUME NEW b \in Pending(e), b \in {c.next, c.exit}
       PROVE  /\ Ready(At(w, b), Owns(L), P, Pending(e) \ {b}) /\ Same(p, At(w, b))
  <2>1. P[b] = Owns(L) /\ b \in Nat
    BY <1>7, <1>11
  <2>2. Ready(At(w, b), P[b], P, Pending(e) \ {b})
    BY <1>9, <1>10, <1>11, EndReady
  <2>3. Same(p, At(w, b))
    BY <1>9, <1>10, <2>1, EndSame
  <2> QED BY <2>1, <2>2, <2>3
<1> HIDE DEF w
<1>12. ASSUME NEW b \in Pending(e), b \in {c.next, c.exit}
       PROVE  /\ d(b) \in Compilers /\ Closes(e, d(b)) /\ d(b).loops \in Seq(Nested)
              /\ Ready(d(b), Owns(L), P, Pending(e) \ {b})
  <2> DEFINE a == At(w, b)
             f == [a EXCEPT !.nest = Front(@)]
  <2>1. Ready(a, Owns(L), P, Pending(e) \ {b}) /\ Same(p, a)
    BY <1>11, <1>12
  <2> HIDE DEF a
  <2>2. Len(e.nest) > 0 /\ Front(e.nest) \in Seq(Nested)
    BY <1>2, FrontFields DEF n
  <2>3. a \in Compilers /\ a.nest = e.nest /\ Fn(a) = Fn(p)
    BY <1>3, <2>1 DEF Same, SameScopes
  <2>4. /\ f \in Compilers /\ f.nest = Front(e.nest) /\ f.code = a.code /\ f.fnOf = a.fnOf /\ f.here = a.here
        /\ f.scopes = a.scopes /\ f.slotOf = a.slotOf /\ f.owner = a.owner /\ f.iters = a.iters
    BY <2>2, <2>3 DEF Compilers
  <2>5. f = d(b)
    BY DEF a
  <2> HIDE DEF f, d
  <2>6. Fn(f) = Fn(e)
    BY <1>3, <2>3, <2>4 DEF Fn
  <2>7. Closes(e, f)
    BY <1>3, <2>1, <2>2, <2>4, <2>6 DEF Closes, Same, SameScopes
  <2>8. Ready(f, Owns(L), P, Pending(e) \ {b})
    BY <2>1, <2>4, SameCodeReady
  <2>9. f.loops \in Seq(Nested)
    BY <2>4 DEF Compilers
  <2> QED BY <2>4, <2>5, <2>7, <2>8, <2>9
<1>13. c.kind = "branch" => At(d(c.exit), c.next) = d(c.next)
  <2>1. SUFFICES ASSUME c.kind = "branch"
                 PROVE  At(d(c.exit), c.next) = d(c.next)
    OBVIOUS
  <2>2. At(w, c.exit) \in Compilers /\ At(w, c.next) \in Compilers
    BY <1>7, <1>11, <2>1 DEF Same
  <2> QED BY <2>2 DEF At, Compilers
<1> HIDE DEF d
<1>14. ASSUME NEW f \in Compilers, Closes(e, f)
       PROVE  /\ Scoped(f) /\ Held(f) = L \ {c.slot} /\ Expects(f, P)
              /\ Pending(f) = Pending(e) \ ({c.exit} \cup (IF c.kind = "branch" THEN {c.next} ELSE {}))
              /\ \A b \in {c.next, c.exit} : \A i \in DOMAIN f.nest : b \notin Blocks(f, i)
              /\ c.slot = 0 <=> c.kind \in {"branch", "loop"}
              /\ c.slot # 0 => c.slot \in L
  <2>1. c = e.nest[n]
    BY <1>2
  <2>2. Scoped(f) /\ Held(f) = Level(e, n) \ {e.nest[n].slot} /\ (e.nest[n].slot # 0 => e.nest[n].slot \in Level(e, n))
    BY <1>2, <1>14, CloseScoped DEF n
  <2>3. /\ Expects(f, P)
        /\ Pending(f) = Pending(e) \ ({e.nest[n].exit} \cup (IF e.nest[n].kind = "branch" THEN {e.nest[n].next} ELSE {}))
        /\ \A b \in {e.nest[n].next, e.nest[n].exit} : \A i \in DOMAIN f.nest : b \notin Blocks(f, i)
        /\ e.nest[n].slot = 0 <=> e.nest[n].kind \in {"branch", "loop"}
    BY <1>1, <1>2, <1>14, CloseExpects DEF n
  <2> QED BY <2>1, <2>2, <2>3 DEF L
<1>15. /\ d(c.exit) \in Compilers /\ Closes(e, d(c.exit)) /\ d(c.exit).loops \in Seq(Nested)
       /\ Ready(d(c.exit), Owns(L), P, Pending(e) \ {c.exit})
  BY <1>7, <1>12
<1>16. ASSUME c.kind = "branch", c.next # c.exit
       PROVE  CloseBlock(e) \in Compilers /\ Sound(CloseBlock(e))
  <2> DEFINE f == d(c.next)
             new == Push([f EXCEPT !.nest = Append(@, again)])
             O == Pending(e) \ {c.next}
  <2>1. f \in Compilers /\ Closes(e, f) /\ Ready(f, Owns(L), P, O) /\ f.loops \in Seq(Nested)
    BY <1>7, <1>12, <1>16
  <2>2. CloseBlock(e) = new
    BY <1>6, <1>13, <1>16
  <2>3. again \in Nested /\ again.kind = "branch" /\ again.next = c.exit /\ again.exit = c.exit /\ again.slot = c.slot
    BY <1>2, <1>7, <1>16 DEF Nested
  <2>4. c.slot = 0 /\ Scoped(f) /\ Expects(f, P) /\ Held(f) = L \ {0}
    BY <1>14, <1>16, <2>1
  <2>5. /\ Pending(f) = Pending(e) \ ({c.exit} \cup {c.next})
        /\ \A i \in DOMAIN f.nest : c.exit \notin Blocks(f, i)
    BY <1>14, <1>16, <2>1
  <2> HIDE DEF f, again
  <2>6. PushNest(f, again, new)
    BY <2>1, <2>3, PushFields
  <2> HIDE DEF new
  <2>7. new \in Compilers /\ Opens(f, new, again)
    BY <2>3, <2>4, <2>6 DEF PushNest, Opens, Fn
  <2>8. Held(new) = Held(f) \cup ({again.slot} \ {0})
    BY <2>1, <2>4, <2>7, OpenScoped
  <2>9. Held(new) = L
    BY <1>8, <2>3, <2>4, <2>8
  <2>10. Ready(new, Owns(Held(new)), P, O)
    BY <2>1, <2>6, <2>7, <2>9, SameCodeReady DEF PushNest
  <2>11. O = Pending(f) \cup {again.exit} \cup (IF again.kind = "branch" THEN {again.next} ELSE {})
    BY <1>7, <1>16, <2>3, <2>5
  <2>12. again.slot = 0 <=> again.kind \in {"branch", "loop"}
    BY <2>3, <2>4
  <2>13. \A b \in {again.next, again.exit} :
           /\ b \in DOMAIN P /\ P[b] = Owns(Held(new))
           /\ \A i \in DOMAIN f.nest : b \notin Blocks(f, i)
    BY <1>7, <2>3, <2>5, <2>9
  <2> HIDE DEF O
  <2>14. Sound(new)
    BY <2>1, <2>4, <2>7, <2>10, <2>11, <2>12, <2>13, OpenSound
  <2> QED BY <2>2, <2>7, <2>14
<1>17. ASSUME ~(c.kind = "branch" /\ c.next # c.exit)
       PROVE  Pending(d(c.exit)) = Pending(e) \ {c.exit}
  BY <1>14, <1>15, <1>17
<1>18. ASSUME NEW f, f \in {d(c.exit), loops(d(c.exit))}
       PROVE  /\ f \in Compilers /\ Closes(e, f) /\ Ready(f, Owns(L), P, Pending(e) \ {c.exit})
  <2> DEFINE x == d(c.exit)
             g == [x EXCEPT !.loops = Front(@)]
  <2>1. x \in Compilers /\ Closes(e, x) /\ x.loops \in Seq(Nested) /\ Ready(x, Owns(L), P, Pending(e) \ {c.exit})
    BY <1>15
  <2> HIDE DEF x
  <2>2. Front(x.loops) \in Seq(Nested)
    <3>1. CASE Len(x.loops) > 0
      BY <2>1, <3>1, FrontFields
    <3>2. CASE Len(x.loops) = 0
      BY <2>1, <3>2, SubSeqEmpty DEF Front
    <3> QED BY <2>1, <3>1, <3>2
  <2>3. /\ g \in Compilers /\ g.nest = x.nest /\ g.code = x.code /\ g.fnOf = x.fnOf /\ g.here = x.here
        /\ g.scopes = x.scopes /\ g.slotOf = x.slotOf /\ g.owner = x.owner /\ g.iters = x.iters
    BY <2>1, <2>2 DEF Compilers
  <2>4. f = x \/ f = g
    BY <1>18 DEF x
  <2> HIDE DEF g
  <2>5. Closes(e, g)
    BY <2>1, <2>3 DEF Closes, Fn
  <2>6. Ready(g, Owns(L), P, Pending(e) \ {c.exit})
    BY <2>1, <2>3, SameCodeReady
  <2> QED BY <2>1, <2>3, <2>4, <2>5, <2>6
<1>19. ASSUME c.slot = 0, ~(c.kind = "branch" /\ c.next # c.exit)
       PROVE  CloseBlock(e) \in Compilers /\ Sound(CloseBlock(e))
  <2>1. c.kind \in {"branch", "loop"}
    BY <1>14, <1>15, <1>19
  <2>2. PICK f \in {d(c.exit), loops(d(c.exit))} : CloseBlock(e) = f
    BY <1>6, <1>19, <2>1
  <2>3. f \in Compilers /\ Closes(e, f) /\ Ready(f, Owns(L), P, Pending(e) \ {c.exit})
    BY <1>18
  <2>4. Scoped(f) /\ Held(f) = L \ {0} /\ Expects(f, P) /\ Pending(f) = Pending(e) \ {c.exit}
    BY <1>14, <1>19, <2>3
  <2>5. Held(f) = L
    BY <1>8, <2>4
  <2> QED BY <2>2, <2>3, <2>4, <2>5 DEF Sound
<1>20. ASSUME c.slot # 0
       PROVE  CloseBlock(e) \in Compilers /\ Sound(CloseBlock(e))
  <2>1. c.kind \in {"list", "file"} /\ c.slot \in L
    BY <1>7, <1>14, <1>15, <1>20
  <2>2. PICK f \in {d(c.exit), loops(d(c.exit))} : CloseBlock(e) = Emit(f, << <<"close", c.slot>> >>)
    BY <1>6, <2>1
  <2>3. f \in Compilers /\ Closes(e, f) /\ Ready(f, Owns(L), P, Pending(e) \ {c.exit})
    BY <1>18
  <2>4. Scoped(f) /\ Held(f) = L \ {c.slot} /\ Expects(f, P) /\ Pending(f) = Pending(e) \ {c.exit}
    BY <1>14, <2>1, <2>3
  <2>5. c.slot \in Mine(f)
    BY <1>8, <2>1, <2>3 DEF Closes, Mine
  <2>6. Flow("close", c.slot, Owns(L), Owns(L \ {c.slot})) /\ Owns(L \ {c.slot}) \in Types
    BY <1>8, <2>1 DEF Flow, Weaker, Owns, Types
  <2> DEFINE o == Emit(f, << <<"close", c.slot>> >>)
  <2>7. Ready(o, Owns(L \ {c.slot}), P, Pending(e) \ {c.exit}) /\ Same(f, o)
    BY <1>9, <2>3, <2>5, <2>6, EmitOne DEF Ops
  <2> HIDE DEF o
  <2>8. o \in Compilers /\ SameScopes(f, o) /\ Ready(o, Owns(Held(f)), P, Pending(f))
    BY <2>4, <2>7 DEF Same
  <2>9. Sound(o)
    BY <2>3, <2>4, <2>8, SoundSame
  <2> QED BY <2>2, <2>8, <2>9 DEF o
<1> QED BY <1>16, <1>19, <1>20, <1>14, <1>15

-----------------------------------------------------------------------------
(* Functions end.                                                          *)

\* A program whose functions are complete but for what follows.
Complete(e) ==
  /\ e \in Compilers /\ Len(e.fnOf) = Len(e.code) /\ Len(e.code) > 0 /\ e.fnOf[1] = 1
  /\ \E ty \in Typings : Written(e, ty, {})

\* EndBody: the scope of the function is released, and the function returns.
LEMMA EndBodyComplete ==
  ASSUME NEW e \in Compilers, Sound(e), e.nest = <<>>
  PROVE  LET new == EndBody(e)
         IN /\ Complete(new) /\ new.scopes = <<>> /\ new.nest = <<>> /\ Fn(new) = Fn(e)
            /\ new.iters \subseteq DOMAIN new.owner /\ new.owner = e.owner /\ new.fnOf = e.fnOf
<1> DEFINE p == Pop(e)
           ret == <<"ret">>
           new == Emit(p, <<ret>>)
<1>1. PICK P : Expects(e, P) /\ Ready(e, Owns(Held(e)), P, Pending(e))
  BY DEF Sound
<1>2. Scoped(e) /\ Len(e.nest) = 0 /\ Pending(e) = {} /\ Held(e) \ Regs(e, 1) = {}
  <2>1. Scoped(e) /\ Len(e.nest) = 0 /\ Pending(e) = {}
    BY DEF Sound, Pending
  <2>2. Level(e, 0) = {}
    BY DEF Level
  <2> QED BY <2>1, <2>2 DEF Held
<1>3. /\ Ready(p, Owns({}), P, {})
      /\ p \in Compilers /\ p.scopes = Front(e.scopes) /\ p.nest = e.nest
      /\ p.owner = e.owner /\ p.iters = e.iters /\ p.fnOf = e.fnOf
  <2>1. /\ Ready(p, Owns(Held(e) \ Regs(e, Len(e.nest) + 1)), P, Pending(e))
        /\ p \in Compilers /\ p.scopes = Front(e.scopes) /\ p.nest = e.nest
        /\ p.owner = e.owner /\ p.iters = e.iters /\ p.fnOf = e.fnOf
    BY <1>1, <1>2, PopReady
  <2>2. Len(e.nest) + 1 = 1
    BY <1>2
  <2>3. Owns(Held(e) \ Regs(e, Len(e.nest) + 1)) = Owns({})
    BY <1>2, <2>2
  <2> HIDE DEF p
  <2> QED BY <1>2, <2>1, <2>3
<1>4. EndBody(e) = new
  BY <1>1, ReadyOpen DEF EndBody
<1> HIDE DEF p
<1>5. Leads(p, P, ret, Owns({}))
  BY DEF Leads, Owns
<1> HIDE DEF ret
<1>6. /\ new \in Compilers
      /\ new.code = [p.code EXCEPT ![p.here] = Append(@, ret)]
      /\ new.fnOf = p.fnOf /\ new.owner = p.owner /\ new.iters = p.iters
      /\ new.scopes = p.scopes /\ new.nest = p.nest
      /\ \E ty \in Typings : Written(new, ty, {}) /\ \A b \in DOMAIN P : ty[b][1] = P[b]
  BY <1>3, <1>5, EndWritten
<1> HIDE DEF new
<1>7. Len(p.fnOf) = Len(p.code) /\ p.fnOf[1] = 1 /\ p.here \in DOMAIN p.code /\ p.code \in Seq(Seq(Instrs))
  BY <1>3 DEF Ready, Shaped, Compilers
<1>8. Len(new.code) = Len(p.code) /\ Len(new.code) > 0
  BY <1>6, <1>7
<1>9. Front(e.scopes) = <<>>
  <2>1. Len(e.scopes) = 1 /\ e.scopes \in Seq(Scopes)
    <3>1. e.scopes \in Seq(Scopes)
      BY <1>2, ScopeShapes
    <3>2. Len(e.scopes) = Len(e.nest) + 1
      BY <1>2 DEF Scoped
    <3> QED BY <1>2, <3>1, <3>2
  <2> QED BY <2>1, SubSeqEmpty DEF Front
<1>10. Complete(new)
  BY <1>6, <1>7, <1>8 DEF Complete
<1>11. e.iters \subseteq DOMAIN e.owner
  BY <1>2 DEF Scoped
<1> QED BY <1>3, <1>4, <1>6, <1>9, <1>10, <1>11 DEF Fn

\* BeginMain: a function more, with nothing open.
LEMMA BeginMainSound ==
  ASSUME NEW e, Complete(e), e.scopes = <<>>, e.nest = <<>>, e.iters \subseteq DOMAIN e.owner
  PROVE  BeginMain(e) \in Compilers /\ Sound(BeginMain(e))
<1> DEFINE N == Len(e.code)
           k == N + 1
           code == Append(e.code, <<>>)
           fnOf == Append(e.fnOf, 2)
           slots == [n \in Names |-> 0]
           scopes == << EmptyScope >>
           new == [e EXCEPT !.here = k, !.code = code, !.fnOf = fnOf, !.slotOf = slots, !.scopes = scopes]
<1>1. e \in Compilers /\ Len(e.fnOf) = N /\ N > 0 /\ e.fnOf[1] = 1 /\ N \in Nat
      /\ e.code \in Seq(Seq(Instrs)) /\ e.fnOf \in Seq(Nat)
  <2>1. e \in Compilers /\ Len(e.fnOf) = N /\ N > 0 /\ e.fnOf[1] = 1
    BY DEF Complete
  <2>2. e.code \in Seq(Seq(Instrs)) /\ e.fnOf \in Seq(Nat)
    BY <2>1 DEF Compilers
  <2> QED BY <2>1, <2>2
<1>2. PICK ty \in Typings : Written(e, ty, {})
  BY DEF Complete
<1>3. BeginMain(e) = new
  <2>1. Append(e.scopes, EmptyScope) = scopes
    OBVIOUS
  <2> QED BY <1>1, <2>1 DEF BeginMain, Push, At, NextBlock, Compilers
<1>4. code \in Seq(Seq(Instrs)) /\ fnOf \in Seq(Nat) /\ k \in Nat /\ slots \in [Names -> Nat] /\ scopes \in Seq(Scopes)
  <2>1. EmptyScope \in Scopes
    BY DEF EmptyScope, Scopes
  <2>2. <<>> \in Seq(Instrs)
    OBVIOUS
  <2> QED BY <1>1, <2>1, <2>2
<1>5. /\ Len(code) = k /\ Len(fnOf) = k /\ DOMAIN code = 1 .. k /\ DOMAIN e.code = 1 .. N
      /\ code[k] = <<>> /\ fnOf[k] = 2 /\ fnOf[1] = 1 /\ Last(fnOf) = 2
      /\ \A b \in 1 .. N : code[b] = e.code[b] /\ fnOf[b] = e.fnOf[b]
  <2>1. /\ Len(code) = k /\ DOMAIN code = 1 .. k /\ DOMAIN e.code = 1 .. N /\ code[k] = <<>>
        /\ \A b \in 1 .. N : code[b] = e.code[b]
    BY <1>1
  <2>2. Len(fnOf) = k /\ fnOf[k] = 2 /\ \A b \in 1 .. N : fnOf[b] = e.fnOf[b]
    BY <1>1
  <2>3. fnOf[1] = 1
    BY <1>1, <2>2
  <2> HIDE DEF fnOf
  <2>4. Last(fnOf) = 2
    BY <2>2 DEF Last
  <2> QED BY <2>1, <2>2, <2>3, <2>4
<1>6. Len(scopes) = 1 /\ scopes[1] = EmptyScope /\ DOMAIN scopes = {1}
  OBVIOUS
<1> HIDE DEF code, fnOf, slots, scopes
<1>7. /\ new \in Compilers /\ new.code = code /\ new.fnOf = fnOf /\ new.here = k /\ new.scopes = scopes
      /\ new.nest = e.nest /\ new.owner = e.owner /\ new.iters = e.iters
  BY <1>1, <1>4 DEF Compilers
<1> HIDE DEF new
<1>8. Scoped(new) /\ Held(new) = {}
  <2>1. FilesOf(new, 1) = {} /\ StringsOf(new, 1) = {} /\ DynamicsOf(new, 1) = {}
    BY <1>6, <1>7 DEF FilesOf, StringsOf, DynamicsOf, EmptyScope, ToSet
  <2>2. Regs(new, 1) = {} /\ Kinds(new, 1)
    BY <2>1 DEF Regs, Kinds
  <2>3. Len(new.nest) = 0 /\ DOMAIN new.nest = {}
    BY <1>7
  <2>4. Level(new, 0) = {}
    BY DEF Level
  <2>5. Held(new) = {}
    BY <2>2, <2>3, <2>4 DEF Held
  <2> QED BY <1>6, <1>7, <2>2, <2>3, <2>5 DEF Scoped
<1> DEFINE nil == [i \in Nat |-> Nil]
           ty2 == [ty EXCEPT ![k] = nil]
           P == [b \in {} |-> Nil]
<1>9. Nil \in Types
  BY DEF Nil, Types
<1>10. ty2 \in Typings /\ ty2[k][1] = Nil /\ \A b \in 1 .. N : ty2[b] = ty[b]
  <2>1. nil \in [Nat -> Types] /\ nil[1] = Nil
    BY <1>9
  <2>2. k \in Nat /\ \A b \in 1 .. N : b \in Nat /\ b # k
    BY <1>1
  <2>3. ty \in [Nat -> [Nat -> Types]]
    BY DEF Typings
  <2> HIDE DEF nil, k
  <2>4. ty2 \in [Nat -> [Nat -> Types]]
    BY <2>1, <2>2, <2>3
  <2>5. ty2[k] = nil /\ \A b \in 1 .. N : ty2[b] = ty[b]
    BY <2>2, <2>3
  <2> QED BY <2>1, <2>4, <2>5 DEF Typings
<1> HIDE DEF ty2
<1>11. Grows(e, new, ty, ty2)
  <2>1. DOMAIN e.code \subseteq DOMAIN new.code
    BY <1>1, <1>5, <1>7
  <2>2. \A c \in DOMAIN e.code : new.fnOf[c] = e.fnOf[c] /\ ty2[c] = ty[c]
    BY <1>5, <1>7, <1>10
  <2> QED BY <1>7, <2>1, <2>2 DEF Grows
<1>12. \A b \in 1 .. N : Ended(new, ty2, b)
  <2> SUFFICES ASSUME NEW b \in 1 .. N
               PROVE  Ended(new, ty2, b)
    OBVIOUS
  <2>1. Ended(e, ty, b)
    BY <1>2, <1>5 DEF Written
  <2>2. Len(e.code[b]) \in Nat
    BY <1>1
  <2> QED BY <1>5, <1>7, <1>10, <1>11, <2>1, <2>2, EndedKept
<1>13. Starts(new, ty2)
  <2> SUFFICES ASSUME NEW b \in 1 .. k, \A c \in 1 .. b - 1 : fnOf[c] # fnOf[b]
               PROVE  ty2[b][1] = Nil
    BY <1>5, <1>7 DEF Starts
  <2>1. CASE b = k
    BY <1>10, <2>1
  <2>2. CASE b \in 1 .. N
    <3>1. \A c \in 1 .. b - 1 : c \in 1 .. N
      BY <1>1, <2>2
    <3>2. \A c \in 1 .. b - 1 : e.fnOf[c] # e.fnOf[b]
      BY <1>5, <2>2, <3>1
    <3> QED BY <1>2, <1>5, <1>10, <2>2, <3>2 DEF Written, Starts
  <2> QED BY <1>1, <2>1, <2>2
<1>14. Coded(new, ty2, Owns({}), P, {})
  <2>1. Len(new.code[new.here]) = 0
    BY <1>5, <1>7
  <2>2. Straight(new, ty2, new.here, 0)
    BY DEF Straight
  <2>3. \A b \in DOMAIN new.code : b # new.here => b \in 1 .. N
    BY <1>1, <1>5, <1>7
  <2>4. Owns({}) = Nil
    BY DEF Owns, Nil
  <2> QED BY <1>7, <1>10, <1>12, <1>13, <2>1, <2>2, <2>3, <2>4 DEF Coded
<1>15. Shaped(new)
  BY <1>1, <1>5, <1>7 DEF Shaped, Fn
<1>16. Ready(new, Owns({}), P, {})
  BY <1>10, <1>14, <1>15 DEF Ready
<1>17. Pending(new) = {} /\ Expects(new, P)
  BY <1>7 DEF Pending, Expects
<1> QED BY <1>3, <1>7, <1>8, <1>16, <1>17 DEF Sound

\* The machine before anything is emitted.
LEMMA StartSound == Start \in Compilers /\ Sound(Start)
<1> DEFINE new == Start
<1>1. /\ new.code = << <<>> >> /\ new.fnOf = <<1>> /\ new.here = 1 /\ new.owner = <<>> /\ new.iters = {}
      /\ new.scopes = << EmptyScope >> /\ new.nest = <<>>
  BY DEF Start
<1>2. new \in Compilers
  <2>1. EmptyScope \in Scopes
    BY DEF EmptyScope, Scopes
  <2>2. << <<>> >> \in Seq(Seq(Instrs)) /\ <<1>> \in Seq(Nat) /\ << EmptyScope >> \in Seq(Scopes)
        /\ <<>> \in Seq(Nat) /\ <<>> \in Seq(Nested) /\ {} \in SUBSET Nat
    BY <2>1
  <2> QED BY <2>2 DEF Start, Compilers
<1> HIDE DEF new
<1>3. Scoped(new) /\ Held(new) = {}
  <2>1. FilesOf(new, 1) = {} /\ StringsOf(new, 1) = {} /\ DynamicsOf(new, 1) = {}
    BY <1>1 DEF FilesOf, StringsOf, DynamicsOf, EmptyScope, ToSet
  <2>2. Regs(new, 1) = {} /\ Kinds(new, 1)
    BY <2>1 DEF Regs, Kinds
  <2>3. Len(new.nest) = 0 /\ DOMAIN new.nest = {} /\ DOMAIN new.scopes = {1} /\ Len(new.scopes) = 1
    BY <1>1
  <2>4. Level(new, 0) = {}
    BY DEF Level
  <2>5. Held(new) = {}
    BY <2>2, <2>3, <2>4 DEF Held
  <2> QED BY <1>1, <2>2, <2>3, <2>5 DEF Scoped
<1> DEFINE ty == [b \in Nat |-> [i \in Nat |-> Nil]]
           P == [b \in {} |-> Nil]
<1>4. Nil \in Types /\ Owns({}) = Nil
  BY DEF Nil, Types, Owns
<1>5. ty \in Typings /\ \A b \in Nat : ty[b][1] = Nil
  BY <1>4 DEF Typings
<1> HIDE DEF ty
<1>6. DOMAIN new.code = {1} /\ new.code[1] = <<>> /\ Len(new.code) = 1 /\ Len(new.fnOf) = 1 /\ new.fnOf[1] = 1
  BY <1>1
<1>7. Straight(new, ty, 1, 0)
  BY DEF Straight
<1>8. Starts(new, ty)
  BY <1>5, <1>6 DEF Starts
<1>9. Coded(new, ty, Owns({}), P, {})
  BY <1>1, <1>4, <1>5, <1>6, <1>7, <1>8 DEF Coded
<1>10. Shaped(new)
  BY <1>1, <1>2, <1>6 DEF Shaped, Fn, Last
<1>11. Ready(new, Owns({}), P, {})
  BY <1>1, <1>5, <1>9, <1>10 DEF Ready
<1>12. Pending(new) = {} /\ Expects(new, P)
  BY <1>1 DEF Pending, Expects
<1> QED BY <1>2, <1>3, <1>11, <1>12 DEF Sound, new

-----------------------------------------------------------------------------
(* Visits of blocks and of exits, and what they say about plainness.       *)

\* A branch says nothing about plainness.
LEMMA PlainOpenBranch ==
  ASSUME NEW e, Counted(e), NEW withElse
  PROVE  /\ Counted(OpenBranch(e, withElse))
         /\ OpenBranch(e, withElse).plain => e.plain
<1> DEFINE k == IF withElse THEN 3 ELSE 2
           then == NextBlock(e)
           exit == then + 1
           other == IF withElse THEN then + 2 ELSE exit
           open == [kind |-> "branch", next |-> other, exit |-> exit, slot |-> 0]
           nb == NewBlocks(e, k)
           split == Emit(nb, << <<"cond", then, other>> >>)
           at == At(split, then)
           nest == [at EXCEPT !.nest = Append(@, open)]
           new == Push(nest)
<1>1. OpenBranch(e, withElse) = Visited(new, TRUE)
  BY DEF OpenBranch
<1>2. Plainly(e, nb)
  BY PlainSelf, PlainSteps
<1> HIDE DEF nb
<1>3. Plainly(e, split)
  BY <1>2, PlainSteps
<1> HIDE DEF split
<1>4. Plainly(e, at)
  BY <1>3, PlainSteps
<1> HIDE DEF at
<1>5. Plainly(e, nest)
  BY <1>4, PlainSteps
<1> HIDE DEF nest
<1>6. Plainly(e, new)
  BY <1>5, PlainSteps
<1> HIDE DEF new
<1> QED BY <1>1, <1>6, PlainVisited

\* The blocks of a loop say nothing about plainness.
LEMMA PlainLoop ==
  ASSUME NEW e, NEW d, Plainly(e, d), NEW kind, NEW slot
  PROVE  Plainly(e, Loop(d, kind, slot))
<1> DEFINE head == NextBlock(d)
           body == head + 1
           exit == head + 2
           open == [kind |-> kind, next |-> head, exit |-> exit, slot |-> slot]
           nb == NewBlocks(d, 3)
           top == Emit(nb, << <<"br", head>> >>)
           a == At(top, head)
           t == Emit(a, << <<"cond", body, exit>> >>)
           at == At(t, body)
           nest == [at EXCEPT !.nest = Append(@, open),
                              !.loops = IF kind = "file" THEN @ ELSE Append(@, open)]
<1>1. Loop(d, kind, slot) = Push(nest)
  BY DEF Loop
<1>2. Plainly(e, nb)
  BY PlainSteps
<1> HIDE DEF nb
<1>3. Plainly(e, top)
  BY <1>2, PlainSteps
<1> HIDE DEF top
<1>4. Plainly(e, a)
  BY <1>3, PlainSteps
<1> HIDE DEF a
<1>5. Plainly(e, t)
  BY <1>4, PlainSteps
<1> HIDE DEF t
<1>6. Plainly(e, at)
  BY <1>5, PlainSteps
<1> HIDE DEF at, open
<1>7. Plainly(e, nest)
  BY <1>6 DEF Plainly
<1> HIDE DEF nest
<1>8. Plainly(e, Push(nest))
  BY <1>7, PlainSteps
<1> QED BY <1>1, <1>8

\* A loop that is opened says nothing about plainness.
LEMMA PlainOpenLoop ==
  ASSUME NEW e, Counted(e)
  PROVE  /\ Counted(OpenLoop(e)) /\ (OpenLoop(e).plain => e.plain)
         /\ \A kind : Counted(OpenIter(e, kind)) /\ (OpenIter(e, kind).plain => e.plain)
<1>1. Plainly(e, e)
  BY PlainSelf
<1>2. Plainly(e, Loop(e, "loop", 0))
  BY <1>1, PlainLoop
<1>3. Counted(OpenLoop(e)) /\ (OpenLoop(e).plain => e.plain)
  BY <1>2, PlainVisited DEF OpenLoop
<1>4. ASSUME NEW kind
      PROVE  Counted(OpenIter(e, kind)) /\ (OpenIter(e, kind).plain => e.plain)
  <2> DEFINE s == NewSlot(e)
             o == Emit(AddSlot(e), << <<"own", s>> >>)
             h == [o EXCEPT !.iters = @ \cup {s}]
  <2>1. Plainly(e, AddSlot(e))
    BY <1>1, PlainSteps
  <2>2. Plainly(e, o)
    BY <2>1, PlainSteps
  <2>3. OpenIter(e, kind) = Visited(Loop(h, kind, s), TRUE)
    BY DEF OpenIter
  <2> HIDE DEF o, s
  <2>4. Plainly(e, h)
    BY <2>2, PlainSteps
  <2> HIDE DEF h
  <2>5. Plainly(e, Loop(h, kind, s))
    BY <2>4, PlainLoop
  <2> QED BY <2>3, <2>5, PlainVisited
<1> QED BY <1>3, <1>4

\* After a break, a continue or a return the program is not plain.
LEMMA PlainExit ==
  ASSUME NEW e, Counted(e)
  PROVE  /\ Counted(Break(e)) /\ ~Break(e).plain
         /\ \A depth : Counted(Continue(e, depth)) /\ ~Continue(e, depth).plain
         /\ \A checked : Counted(Return(e, checked)) /\ ~Return(e, checked).plain
<1>1. Plainly(e, e)
  BY PlainSelf
<1>2. ASSUME NEW d, NEW cs, Plainly(e, d)
      PROVE  Counted(Visited(Emit(d, cs), FALSE)) /\ ~Visited(Emit(d, cs), FALSE).plain
  <2>1. Plainly(e, Emit(d, cs))
    BY <1>2, PlainSteps
  <2>2. FALSE \in BOOLEAN
    OBVIOUS
  <2> QED BY <2>1, <2>2, PlainVisited
<1>3. \A checked : Plainly(e, Guarded(e, checked))
  BY <1>1, PlainGuarded
<1> QED BY <1>1, <1>2, <1>3 DEF Break, Continue, Return

\* The end of a function says nothing about plainness.
LEMMA PlainEndBody ==
  ASSUME NEW e, Counted(e)
  PROVE  Plainly(e, EndBody(e)) /\ Plainly(e, BeginMain(EndBody(e)))
<1> DEFINE p == Pop(e)
           o == Emit(p, << <<"ret">> >>)
           f == EndBody(e)
           at == At(f, NextBlock(f))
           new == [at EXCEPT !.code = Append(@, <<>>), !.fnOf = Append(@, 2), !.slotOf = [n \in Names |-> 0]]
<1>1. Plainly(e, e)
  BY PlainSelf
<1>2. Plainly(e, p)
  BY <1>1, PlainSteps
<1>3. EndBody(e) = IF Terminated(e) THEN e ELSE o
  BY DEF EndBody
<1> HIDE DEF p
<1>4. Plainly(e, o)
  BY <1>2, PlainSteps
<1>5. Plainly(e, f)
  BY <1>1, <1>3, <1>4
<1>6. BeginMain(f) = Push(new)
  BY DEF BeginMain
<1> HIDE DEF f
<1>7. Plainly(e, at)
  BY <1>5, PlainSteps
<1> HIDE DEF at
<1>8. Plainly(e, new)
  BY <1>7 DEF Plainly
<1> HIDE DEF new
<1>9. Plainly(e, Push(new))
  BY <1>8, PlainSteps
<1> QED BY <1>5, <1>6, <1>9 DEF f

\* The end of a block says nothing about plainness.
LEMMA PlainCloseBlock ==
  ASSUME NEW e, Counted(e)
  PROVE  Plainly(e, CloseBlock(e))
<1> DEFINE c == Last(e.nest)
           p == EndBlock(e)
           instr == <<"br", IF c.kind = "branch" THEN c.exit ELSE c.next>>
           w == EmitOpen(p, <<instr>>)
           at == At(w, c.exit)
           out == [at EXCEPT !.nest = Front(@)]
           again == [c EXCEPT !.next = c.exit]
           close == << <<"close", c.slot>> >>
<1>1. Plainly(e, p)
  BY PlainSelf, PlainSteps DEF EndBlock
<1> HIDE DEF p, instr
<1>2. Plainly(e, w)
  BY <1>1, PlainSteps DEF EmitOpen
<1> HIDE DEF w, c
<1>3. Plainly(e, at)
  BY <1>2, PlainSteps
<1> HIDE DEF at
<1>4. Plainly(e, out)
  BY <1>3, PlainSteps
<1>5. CloseBlock(e) =
        CASE c.kind = "branch" /\ c.next # c.exit -> Push([At(out, c.next) EXCEPT !.nest = Append(@, again)])
          [] c.kind = "branch" /\ c.next = c.exit -> out
          [] c.kind = "loop" -> [out EXCEPT !.loops = Front(@)]
          [] c.kind = "list" -> Emit([out EXCEPT !.loops = Front(@)], close)
          [] OTHER -> Emit(out, close)
  BY DEF CloseBlock, at, w, p, c, instr
<1> HIDE DEF out, again, close
<1>6. Plainly(e, [out EXCEPT !.loops = Front(@)])
  BY <1>4, PlainSteps
<1>7. Plainly(e, Emit([out EXCEPT !.loops = Front(@)], close)) /\ Plainly(e, Emit(out, close))
  <2> DEFINE l == [out EXCEPT !.loops = Front(@)]
  <2>1. Plainly(e, l)
    BY <1>6
  <2> HIDE DEF l
  <2>2. Plainly(e, Emit(l, close)) /\ Plainly(e, Emit(out, close))
    BY <1>4, <2>1, PlainSteps
  <2> QED BY <2>2 DEF l
<1>8. Plainly(e, Push([At(out, c.next) EXCEPT !.nest = Append(@, again)]))
  <2> DEFINE a == At(out, c.next)
             n == [a EXCEPT !.nest = Append(@, again)]
  <2>1. Plainly(e, a)
    BY <1>4, PlainSteps
  <2> HIDE DEF a
  <2>2. Plainly(e, n)
    BY <2>1, PlainSteps
  <2> HIDE DEF n
  <2>3. Plainly(e, Push(n))
    BY <2>2, PlainSteps
  <2> QED BY <2>3 DEF n, a
<1> DEFINE reopened == Push([At(out, c.next) EXCEPT !.nest = Append(@, again)])
           left == [out EXCEPT !.loops = Front(@)]
           closed == Emit([out EXCEPT !.loops = Front(@)], close)
           closed2 == Emit(out, close)
<1>9. CloseBlock(e) \in {reopened, out, left, closed, closed2}
  <2> HIDE DEF reopened, left, closed, closed2
  <2>1. CloseBlock(e) =
        CASE c.kind = "branch" /\ c.next # c.exit -> reopened
          [] c.kind = "branch" /\ c.next = c.exit -> out
          [] c.kind = "loop" -> left
          [] c.kind = "list" -> closed
          [] OTHER -> closed2
    BY <1>5 DEF reopened, left, closed, closed2
  <2> QED BY <2>1
<1> QED BY <1>4, <1>6, <1>7, <1>8, <1>9

-----------------------------------------------------------------------------
(* The emitted program runs.                                               *)

\* The slots and the open handles are of type t.
Fits(t, c, lv) ==
  /\ t.h \cup t.z \subseteq DOMAIN c /\ lv \subseteq 1 .. MaxHandles
  /\ \A s \in t.z : c[s] = 0
  /\ \A s \in t.h : c[s] \in lv \cup {0}
  /\ \A r, s \in t.h : r # s /\ c[s] # 0 => c[r] # c[s]
  /\ lv \subseteq {c[s] : s \in t.h}

\* They are of every weaker type.
LEMMA FitsWeaker ==
  ASSUME NEW t, NEW u, Weaker(t, u), NEW c, NEW lv, Fits(t, c, lv)
  PROVE  Fits(u, c, lv)
BY DEF Weaker, Fits

\* The least handle that is free.
LEMMA FreeHandle ==
  ASSUME NEW lv, lv \subseteq 1 .. MaxHandles, Cardinality(lv) < MaxHandles
  PROVE  LET h == CHOOSE h \in (1 .. MaxHandles) \ lv : \A g \in (1 .. MaxHandles) \ lv : h <= g
         IN h \in (1 .. MaxHandles) \ lv
<1> DEFINE A == (1 .. MaxHandles) \ lv
<1>1. MaxHandles \in Nat
  BY CodegenAssumption
<1>2. IsFiniteSet(1 .. MaxHandles) /\ Cardinality(1 .. MaxHandles) = MaxHandles
  BY <1>1, FS_Interval
<1>3. A # {}
  <2>1. CASE A = {}
    <3>1. lv = 1 .. MaxHandles
      BY <2>1
    <3> QED BY <1>1, <1>2, <3>1
  <2> QED BY <2>1
<1>4. A \subseteq Nat
  BY <1>1
<1> HIDE DEF A
<1>5. \E h \in A : \A g \in A : h <= g
  BY <1>3, <1>4, LeastNumber
<1>6. (CHOOSE h \in A : \A g \in A : h <= g) \in A
  BY <1>5
<1> QED BY <1>6 DEF A

\* Each instruction does what its type says.
LEMMA OwnFits ==
  ASSUME NEW t \in Types, NEW u, NEW s, Flow("own", s, t, u), NEW c, NEW lv, Fits(t, c, lv), s \in DOMAIN c,
         NEW h \in (1 .. MaxHandles) \ lv
  PROVE  Fits(u, [c EXCEPT ![s] = h], lv \cup {h})
<1> DEFINE d == [c EXCEPT ![s] = h]
           w == [h |-> t.h \cup {s}, z |-> t.z \ {s}]
<1>1. s \notin t.h /\ Weaker(w, u)
  BY DEF Flow
<1>2. DOMAIN d = DOMAIN c /\ d[s] = h /\ \A r \in DOMAIN c : r # s => d[r] = c[r]
  OBVIOUS
<1>3. MaxHandles \in Nat /\ h # 0 /\ h \notin lv
  BY CodegenAssumption
<1>4. w.h = t.h \cup {s} /\ w.z = t.z \ {s}
  OBVIOUS
<1> HIDE DEF d, w
<1>5. Fits(w, d, lv \cup {h})
  <2>1. w.h \cup w.z \subseteq DOMAIN d /\ lv \cup {h} \subseteq 1 .. MaxHandles
    BY <1>2, <1>4 DEF Fits
  <2>2. \A r \in w.z : d[r] = 0
    BY <1>2, <1>4 DEF Fits
  <2>3. \A r \in t.h : r # s /\ r \in DOMAIN c /\ d[r] = c[r] /\ c[r] \in lv \cup {0}
    BY <1>1, <1>2 DEF Fits
  <2>4. \A r \in w.h : d[r] \in (lv \cup {h}) \cup {0}
    BY <1>2, <1>4, <2>3
  <2>5. \A q, r \in w.h : q # r /\ d[r] # 0 => d[q] # d[r]
    BY <1>2, <1>3, <1>4, <2>3 DEF Fits
  <2>6. lv \cup {h} \subseteq {d[r] : r \in w.h}
    <3>1. h \in {d[r] : r \in w.h}
      BY <1>2, <1>4
    <3>2. ASSUME NEW g \in lv
          PROVE  g \in {d[r] : r \in w.h}
      <4>1. PICK r \in t.h : g = c[r]
        BY DEF Fits
      <4> QED BY <1>4, <2>3, <4>1
    <3> QED BY <3>1, <3>2
  <2> QED BY <2>1, <2>2, <2>4, <2>5, <2>6 DEF Fits
<1> QED BY <1>1, <1>5, FitsWeaker DEF d

\* A slot that owns nothing is set to zero.
LEMMA ClearFits ==
  ASSUME NEW t \in Types, NEW u, NEW s, Flow("init", s, t, u), NEW c, NEW lv, Fits(t, c, lv), s \in DOMAIN c
  PROVE  Fits(u, [c EXCEPT ![s] = 0], lv)
<1> DEFINE d == [c EXCEPT ![s] = 0]
           w == [h |-> t.h, z |-> t.z \cup {s}]
<1>1. s \notin t.h /\ Weaker(w, u)
  BY DEF Flow
<1>2. DOMAIN d = DOMAIN c /\ d[s] = 0 /\ \A r \in DOMAIN c : r # s => d[r] = c[r]
  OBVIOUS
<1>3. w.h = t.h /\ w.z = t.z \cup {s}
  OBVIOUS
<1> HIDE DEF d, w
<1>4. Fits(w, d, lv)
  <2>1. \A r \in t.h : r # s /\ r \in DOMAIN c /\ d[r] = c[r]
    BY <1>1, <1>2 DEF Fits
  <2>2. \A r \in w.z : d[r] = 0
    BY <1>2, <1>3 DEF Fits
  <2>3. w.h \cup w.z \subseteq DOMAIN d /\ lv \subseteq 1 .. MaxHandles
    BY <1>2, <1>3 DEF Fits
  <2>4. lv \subseteq {d[r] : r \in w.h}
    BY <1>3, <2>1 DEF Fits
  <2>5. /\ \A r \in w.h : d[r] \in lv \cup {0}
        /\ \A q, r \in w.h : q # r /\ d[r] # 0 => d[q] # d[r]
    BY <1>3, <2>1 DEF Fits
  <2> QED BY <2>2, <2>3, <2>4, <2>5 DEF Fits
<1> QED BY <1>1, <1>4, FitsWeaker DEF d

\* What a release of slot s leaves.
LEMMA ReleaseFits ==
  ASSUME NEW t \in Types, NEW s \in t.h \cup t.z, NEW c, NEW lv, Fits(t, c, lv)
  PROVE  /\ Fits([h |-> t.h \ {s}, z |-> t.z], c, lv \ {c[s]})
         /\ Fits([h |-> t.h \ {s}, z |-> t.z \cup {s}], [c EXCEPT ![s] = 0], lv \ {c[s]})
<1> DEFINE w == [h |-> t.h \ {s}, z |-> t.z]
           x == [h |-> t.h \ {s}, z |-> t.z \cup {s}]
           d == [c EXCEPT ![s] = 0]
           l == lv \ {c[s]}
<1>1. w.h = t.h \ {s} /\ w.z = t.z /\ x.h = t.h \ {s} /\ x.z = t.z \cup {s}
  OBVIOUS
<1>2. s \in DOMAIN c /\ DOMAIN d = DOMAIN c /\ d[s] = 0 /\ \A r \in DOMAIN c : r # s => d[r] = c[r]
  BY DEF Fits
<1>3. MaxHandles \in Nat /\ 0 \notin lv
  BY CodegenAssumption DEF Fits
<1> HIDE DEF w, x, d
<1>4. \A r \in t.h \ {s} : c[r] \in l \cup {0}
  <2> SUFFICES ASSUME NEW r \in t.h, r # s
               PROVE  c[r] \in l \cup {0}
    OBVIOUS
  <2>1. c[r] \in lv \cup {0}
    BY DEF Fits
  <2>2. CASE s \in t.h
    BY <2>1, <2>2 DEF Fits
  <2>3. CASE s \in t.z
    BY <1>3, <2>1, <2>3 DEF Fits
  <2> QED BY <2>2, <2>3
<1>5. l \subseteq {c[r] : r \in t.h \ {s}} /\ l \subseteq 1 .. MaxHandles
  BY DEF Fits
<1> HIDE DEF l
<1>6. Fits(w, c, l)
  BY <1>1, <1>4, <1>5 DEF Fits
<1>7. Fits(x, d, l)
  <2>1. \A r \in t.h \ {s} : r # s /\ r \in DOMAIN c /\ d[r] = c[r]
    BY <1>2 DEF Fits
  <2>2. \A r \in x.z : d[r] = 0
    BY <1>1, <1>2 DEF Fits
  <2>3. x.h \cup x.z \subseteq DOMAIN d
    BY <1>1, <1>2 DEF Fits
  <2>4. l \subseteq {d[r] : r \in x.h}
    BY <1>1, <1>5, <2>1
  <2>5. \A r \in x.h : d[r] \in l \cup {0}
    BY <1>1, <1>4, <2>1
  <2>6. \A q, r \in x.h : q # r /\ d[r] # 0 => d[q] # d[r]
    BY <1>1, <2>1 DEF Fits
  <2> QED BY <1>5, <2>2, <2>3, <2>4, <2>5, <2>6 DEF Fits
<1> QED BY <1>6, <1>7 DEF w, x, d, l

\* The instruction at hand is typed, and so is what follows it.
LEMMA InstrTyped ==
  ASSUME NEW e, Complete(e), NEW ty \in Typings, Written(e, ty, {}),
         NEW b \in DOMAIN e.code, NEW i \in 1 .. Len(e.code[b])
  PROVE  LET instr == e.code[b][i]
             t == ty[b][i]
         IN \/ /\ i + 1 \in 1 .. Len(e.code[b])
               /\ Moves(e, e.fnOf[b], instr, t, ty[b][i + 1])
            \/ Terminates(e, ty, b, instr, t)
<1> DEFINE n == Len(e.code[b])
<1>1. Ended(e, ty, b)
  BY DEF Written
<1>2. n \in Nat
  BY DEF Complete, Compilers
<1>3. n > 0 /\ Straight(e, ty, b, n - 1) /\ Terminates(e, ty, b, e.code[b][n], ty[b][n])
  BY <1>1 DEF Ended
<1> HIDE DEF n
<1>4. CASE i = n
  BY <1>3, <1>4
<1>5. CASE i # n
  <2>1. i \in 1 .. n - 1 /\ i + 1 \in 1 .. n
    BY <1>2, <1>5 DEF n
  <2> QED BY <1>3, <2>1 DEF Straight, n
<1> QED BY <1>4, <1>5

\* No block is empty.
LEMMA BlocksFilled ==
  ASSUME NEW e, Complete(e), NEW ty, Written(e, ty, {}), NEW b \in DOMAIN e.code
  PROVE  1 \in 1 .. Len(e.code[b])
<1>1. Ended(e, ty, b) /\ Len(e.code[b]) \in Nat
  BY DEF Written, Complete, Compilers
<1> QED BY <1>1 DEF Ended

-----------------------------------------------------------------------------
(* The inductive invariant.                                                *)

\* The program runs as its types say.
Running ==
  /\ Complete(em) /\ DOMAIN cell = DOMAIN em.owner
  /\ pc \in (DOMAIN em.code) \X Nat /\ pc[2] \in 1 .. Len(em.code[pc[1]])
  /\ \E ty \in Typings : Written(em, ty, {}) /\ Fits(ty[pc[1]][pc[2]], cell, live)

IInv ==
  /\ Counted(em)
  /\ em.plain /\ Emitting => em \in Compilers /\ Sound(em) /\ live = {}
  /\ em.plain /\ ~Emitting => Running

\* The visit of a statement keeps the invariant.
LEMMA VisitStep ==
  ASSUME IInv, Emitting, NEW new, Visit(new), Emitted(em, new)
  PROVE  IInv'
<1>1. em' = new /\ pc' = pc /\ cell' = cell /\ live' = live
  BY DEF Visit
<1>2. Emitting'
  BY <1>1 DEF Emitting
<1>3. Counted(em')
  BY <1>1 DEF Emitted
<1>4. em'.plain => em' \in Compilers /\ Sound(em') /\ live' = {}
  BY <1>1 DEF Emitted, IInv
<1> QED BY <1>2, <1>3, <1>4 DEF IInv

\* A binding keeps the invariant.
LEMMA BindStep == IInv /\ Bind => IInv'
<1> SUFFICES ASSUME IInv, Bind
             PROVE  IInv'
  OBVIOUS
<1>1. Emitting /\ Counted(em) /\ (em.plain => em \in Compilers /\ Sound(em))
  BY DEF Bind, Open, IInv
<1>2. PICK checked \in BOOLEAN :
        \/ \E x \in Dynamics : Visit(FlexBind(em, x, checked))
        \/ \E x \in Dynamics : Visit(FinalBind(em, x, checked))
        \/ \E x \in Strings : Visit(StringBind(em, x, checked))
  BY DEF Bind
<1>3. PICK new : /\ Visit(new)
                 /\ \/ \E x \in Dynamics : new = FlexBind(em, x, checked)
                    \/ \E x \in Dynamics : new = FinalBind(em, x, checked)
                    \/ \E x \in Strings : new = StringBind(em, x, checked)
  BY <1>2
<1>4. Emitted(em, new)
  BY <1>1, <1>3, BindSound
<1> QED BY <1>1, <1>3, <1>4, VisitStep

\* An acquisition or a release keeps it.
LEMMA HandleStep == IInv /\ Handle => IInv'
<1> SUFFICES ASSUME IInv, Handle
             PROVE  IInv'
  OBVIOUS
<1>1. Emitting /\ Counted(em) /\ (em.plain => em \in Compilers /\ Sound(em))
  BY DEF Handle, Open, IInv
<1>2. PICK x \in Files : \/ \E path \in Paths \cup {Computed} : Visit(AcquireHandle(em, x, path))
                         \/ Visit(ReleaseHandle(em, x))
  BY DEF Handle
<1>3. PICK new : /\ Visit(new)
                 /\ \/ \E path \in Paths \cup {Computed} : new = AcquireHandle(em, x, path)
                    \/ new = ReleaseHandle(em, x)
  BY <1>2
<1>4. Emitted(em, new)
  BY <1>1, <1>3, HandleSound
<1> QED BY <1>1, <1>3, <1>4, VisitStep

\* A block that opens keeps it.
LEMMA NestStep == IInv /\ Nest => IInv'
<1> SUFFICES ASSUME IInv, Nest
             PROVE  IInv'
  OBVIOUS
<1>1. Emitting /\ Counted(em) /\ (em.plain => em \in Compilers /\ Sound(em))
  BY DEF Nest, Shallow, Open, IInv
<1>2. ASSUME NEW withElse \in BOOLEAN
      PROVE  Emitted(em, OpenBranch(em, withElse))
  BY <1>1, PlainOpenBranch, BranchSound DEF Emitted
<1>3. Emitted(em, OpenLoop(em))
  BY <1>1, PlainOpenLoop, OpenLoopSound DEF Emitted
<1>4. ASSUME NEW kind \in {"list", "file"}
      PROVE  Emitted(em, OpenIter(em, kind))
  BY <1>1, PlainOpenLoop, OpenIterSound DEF Emitted
<1>5. \/ \E withElse \in BOOLEAN : Visit(OpenBranch(em, withElse))
      \/ Visit(OpenLoop(em))
      \/ \E kind \in {"list", "file"} : Visit(OpenIter(em, kind))
  BY DEF Nest
<1> QED BY <1>1, <1>2, <1>3, <1>4, <1>5, VisitStep

\* An early exit keeps it: the program is not plain any more.
LEMMA ExitStep == IInv /\ Exit => IInv'
<1> SUFFICES ASSUME IInv, Exit
             PROVE  IInv'
  OBVIOUS
<1>1. Emitting /\ Counted(em)
  BY DEF Exit, Open, IInv
<1>2. PICK new : /\ Visit(new)
                 /\ \/ new = Break(em)
                    \/ \E depth : new = Continue(em, depth)
                    \/ \E checked : new = Return(em, checked)
  BY DEF Exit
<1>3. Emitted(em, new)
  BY <1>1, <1>2, PlainExit DEF Emitted
<1> QED BY <1>1, <1>2, <1>3, VisitStep

\* A block that ends keeps it.
LEMMA CloseStep == IInv /\ Close => IInv'
<1> SUFFICES ASSUME IInv, Close
             PROVE  IInv'
  OBVIOUS
<1>1. Emitting /\ Counted(em) /\ (em.plain => em \in Compilers /\ Sound(em)) /\ em.nest # <<>>
      /\ Visit(CloseBlock(em))
  BY DEF Close, IInv
<1>2. Plainly(em, CloseBlock(em))
  BY <1>1, PlainCloseBlock
<1>3. em.plain => CloseBlock(em) \in Compilers /\ Sound(CloseBlock(em))
  BY <1>1, CloseBlockSound
<1>4. Emitted(em, CloseBlock(em))
  BY <1>1, <1>2, <1>3 DEF Emitted, Plainly, Counted
<1> QED BY <1>1, <1>4, VisitStep

\* The end of the first function, and the beginning of main, keep it.
LEMMA EndFunctionStep == IInv /\ EndFunction => IInv'
<1> SUFFICES ASSUME IInv, EndFunction
             PROVE  IInv'
  OBVIOUS
<1> DEFINE new == BeginMain(EndBody(em))
<1>1. Emitting /\ Counted(em) /\ (em.plain => em \in Compilers /\ Sound(em)) /\ em.nest = <<>> /\ Visit(new)
  BY DEF EndFunction, IInv
<1>2. Plainly(em, new)
  BY <1>1, PlainEndBody
<1>3. em.plain => new \in Compilers /\ Sound(new)
  <2> SUFFICES ASSUME em.plain
               PROVE  new \in Compilers /\ Sound(new)
    OBVIOUS
  <2>1. /\ Complete(EndBody(em)) /\ EndBody(em).scopes = <<>> /\ EndBody(em).nest = <<>>
        /\ EndBody(em).iters \subseteq DOMAIN EndBody(em).owner
    BY <1>1, EndBodyComplete
  <2> QED BY <2>1, BeginMainSound
<1> HIDE DEF new
<1>4. Emitted(em, new)
  BY <1>1, <1>2, <1>3 DEF Emitted, Plainly, Counted
<1> QED BY <1>1, <1>4, VisitStep

\* The first block of a function.
LEMMA FirstBlock ==
  ASSUME NEW fnOf \in Seq(Nat), NEW f, \E i \in 1 .. Len(fnOf) : fnOf[i] = f
  PROVE  LET b == SelectInSeq(fnOf, LAMBDA g : g = f)
         IN b \in 1 .. Len(fnOf) /\ fnOf[b] = f /\ \A c \in 1 .. b - 1 : fnOf[c] # f
<1> DEFINE I == {i \in 1 .. Len(fnOf) : fnOf[i] = f}
           b == CHOOSE x \in I : \A y \in I : x <= y
<1>1. SelectInSeq(fnOf, LAMBDA g : g = f) = IF I # {} THEN b ELSE 0
  BY DEF SelectInSeq, Min
<1>2. I # {} /\ I \subseteq Nat
  OBVIOUS
<1>3. \A i : i \in I <=> i \in 1 .. Len(fnOf) /\ fnOf[i] = f
  OBVIOUS
<1> HIDE DEF I
<1>4. \E x \in I : \A y \in I : x <= y
  BY <1>2, LeastNumber
<1>5. b \in I /\ \A y \in I : b <= y
  BY <1>4
<1> HIDE DEF b
<1>6. ASSUME NEW c \in 1 .. b - 1
      PROVE  fnOf[c] # f
  <2>1. b \in Nat /\ b <= Len(fnOf) /\ Len(fnOf) \in Nat
    BY <1>3, <1>5
  <2>2. c \in 1 .. Len(fnOf) /\ ~(b <= c)
    BY <2>1
  <2>3. c \notin I
    BY <1>5, <2>2
  <2> QED BY <1>3, <2>2, <2>3
<1> QED BY <1>1, <1>2, <1>3, <1>5, <1>6

\* A function of the program is called: it expects nothing.
LEMMA RunStep == IInv /\ Run => IInv'
<1> SUFFICES ASSUME IInv, Run
             PROVE  IInv'
  OBVIOUS
<1>1. Emitting /\ em.nest = <<>> /\ Fn(em) = 2 /\ em' = EndBody(em) /\ live' = live
      /\ cell' = [s \in DOMAIN em.owner |-> Garbage] /\ Counted(em)
  BY DEF Run, IInv
<1>2. Counted(em') /\ em'.plain = em.plain
  BY <1>1, PlainEndBody DEF Plainly, Counted
<1>3. PICK f \in 1 .. 2 : pc' = <<SelectInSeq(em.fnOf, LAMBDA g : g = f), 1>>
  BY DEF Run
<1>4. ~Emitting'
  BY <1>3 DEF Emitting
<1>5. ASSUME em.plain
      PROVE  Running'
  <2> DEFINE b == SelectInSeq(em.fnOf, LAMBDA g : g = f)
             c == [s \in DOMAIN em.owner |-> Garbage]
  <2>1. em \in Compilers /\ Sound(em) /\ live = {}
    BY <1>1, <1>5 DEF IInv
  <2>2. Complete(em') /\ em'.owner = em.owner /\ em'.fnOf = em.fnOf
    BY <1>1, <2>1, EndBodyComplete
  <2>3. /\ em.fnOf \in Seq(Nat) /\ Len(em.fnOf) > 0 /\ em.fnOf[1] = 1 /\ em.fnOf[Len(em.fnOf)] = 2
        /\ DOMAIN em'.code = 1 .. Len(em.fnOf)
    BY <1>1, <2>1, <2>2 DEF Complete, Compilers, Fn, Last
  <2>4. \E i \in 1 .. Len(em.fnOf) : em.fnOf[i] = f
    BY <2>3
  <2>5. b \in 1 .. Len(em.fnOf) /\ em.fnOf[b] = f /\ \A i \in 1 .. b - 1 : em.fnOf[i] # f
    BY <2>3, <2>4, FirstBlock
  <2>6. pc' = <<b, 1>>
    BY <1>3
  <2> HIDE DEF b
  <2>7. PICK ty \in Typings : Written(em', ty, {})
    BY <2>2 DEF Complete
  <2>8. ty[b][1] = Nil
    BY <2>2, <2>3, <2>5, <2>7 DEF Written, Starts
  <2>9. 1 \in 1 .. Len(em'.code[b])
    BY <2>2, <2>3, <2>5, <2>7, BlocksFilled
  <2>10. Fits(Nil, c, {})
    BY DEF Fits, Nil
  <2>11. DOMAIN c = DOMAIN em.owner
    OBVIOUS
  <2> HIDE DEF c
  <2>12. cell' = c /\ live' = {}
    BY <1>1, <2>1 DEF c
  <2>13. pc'[1] = b /\ pc'[2] = 1 /\ pc' \in (DOMAIN em'.code) \X Nat
    <3>1. b \in DOMAIN em'.code
      BY <2>3, <2>5
    <3>2. <<b, 1>> \in (DOMAIN em'.code) \X Nat /\ <<b, 1>>[1] = b /\ <<b, 1>>[2] = 1
      BY <3>1
    <3> QED BY <2>6, <3>2
  <2>14. Fits(ty[pc'[1]][pc'[2]], cell', live')
    BY <2>8, <2>10, <2>12, <2>13
  <2> QED BY <2>2, <2>7, <2>9, <2>11, <2>12, <2>13, <2>14 DEF Running
<1> QED BY <1>2, <1>4, <1>5 DEF IInv

\* The program takes a step.
LEMMA ExecuteStep == IInv /\ Execute => IInv'
<1> SUFFICES ASSUME IInv, Execute
             PROVE  IInv'
  OBVIOUS
<1>1. em' = em /\ ~Emitting /\ Counted(em) /\ (em.plain => Running)
  BY DEF Execute, IInv
<1>2. ASSUME em.plain
      PROVE  Running' /\ ~Emitting'
  <2> DEFINE b == pc[1]
             i == pc[2]
  <2>1. Complete(em) /\ b \in DOMAIN em.code /\ i \in 1 .. Len(em.code[b]) /\ DOMAIN cell = DOMAIN em.owner
    <3>1. /\ Complete(em) /\ i \in 1 .. Len(em.code[b]) /\ DOMAIN cell = DOMAIN em.owner
          /\ pc \in (DOMAIN em.code) \X Nat
      BY <1>1, <1>2 DEF Running
    <3>2. pc[1] \in DOMAIN em.code
      BY <3>1
    <3> QED BY <3>1, <3>2
  <2>2. PICK ty \in Typings : Written(em, ty, {}) /\ Fits(ty[b][i], cell, live)
    BY <1>1, <1>2 DEF Running
  <2>3. /\ DOMAIN em.code \subseteq Nat /\ \A c \in DOMAIN em.code : Len(em.code[c]) \in Nat
    <3>1. em \in Compilers
      BY <2>1 DEF Complete
    <3>2. em.code \in Seq(Seq(Instrs))
      BY <3>1 DEF Compilers
    <3> QED BY <3>2
  <2>4. \A c, j \in Nat : ty[c][j] \in Types
    BY DEF Typings
  <2>5. Instr = em.code[b][i] /\ Slot = Instr[2]
    BY DEF Instr, Slot
  <2> DEFINE t == ty[b][i]
  <2>6. t \in Types
    BY <2>1, <2>3, <2>4
  <2>7. \/ i + 1 \in 1 .. Len(em.code[b]) /\ Moves(em, em.fnOf[b], Instr, t, ty[b][i + 1])
        \/ Terminates(em, ty, b, Instr, t)
    BY <2>1, <2>2, <2>5, InstrTyped
  <2>8. ASSUME NEW c \in DOMAIN em.code, NEW j \in 1 .. Len(em.code[c]), pc' = <<c, j>>,
               DOMAIN cell' = DOMAIN em.owner, Fits(ty[c][j], cell', live')
        PROVE  Running' /\ ~Emitting'
    <3>1. pc'[1] = c /\ pc'[2] = j /\ pc' \in (DOMAIN em.code) \X Nat /\ pc' # <<0, 0>>
      <4>1. j \in Nat /\ j # 0
        BY <2>3, <2>8
      <4>2. <<c, j>> \in (DOMAIN em.code) \X Nat /\ <<c, j>>[1] = c /\ <<c, j>>[2] = j
        BY <4>1
      <4>3. <<0, 0>>[2] = 0
        OBVIOUS
      <4> QED BY <2>8, <4>1, <4>2, <4>3
    <3>2. Fits(ty[pc'[1]][pc'[2]], cell', live')
      BY <2>8, <3>1
    <3> QED BY <1>1, <2>1, <2>2, <2>8, <3>1, <3>2 DEF Running, Emitting
  <2>9. CASE i + 1 \in 1 .. Len(em.code[b]) /\ Moves(em, em.fnOf[b], Instr, t, ty[b][i + 1])
    <3> DEFINE u == ty[b][i + 1]
    <3>1. PICK op \in Ops, s \in DOMAIN em.owner : Instr = <<op, s>> /\ Flow(op, s, t, u)
      BY <2>9 DEF Moves
    <3>2. Instr[1] = op /\ Slot = s /\ s \in DOMAIN cell
      BY <2>1, <2>5, <3>1
    <3>3. Fits(t, cell, live)
      BY <2>2
    <3> HIDE DEF t, u
    <3>4. CASE Own
      <4> DEFINE h == CHOOSE h \in (1 .. MaxHandles) \ live : \A g \in (1 .. MaxHandles) \ live : h <= g
      <4>1. op = "own" /\ live' = live \cup {h} /\ cell' = [cell EXCEPT ![s] = h] /\ Advance
        BY <3>2, <3>4 DEF Own
      <4>2. h \in (1 .. MaxHandles) \ live
        <5>1. live \subseteq 1 .. MaxHandles /\ Cardinality(live) < MaxHandles
          BY <3>3, <3>4 DEF Fits, Own
        <5> QED BY <5>1, FreeHandle
      <4> HIDE DEF h
      <4>3. Fits(u, cell', live') /\ DOMAIN cell' = DOMAIN em.owner
        BY <2>1, <2>6, <3>1, <3>2, <3>3, <4>1, <4>2, OwnFits
      <4> QED BY <2>1, <2>8, <2>9, <4>1, <4>3 DEF Advance, u
    <3>5. CASE Clear
      <4>1. op = "init" /\ live' = live /\ cell' = [cell EXCEPT ![s] = 0] /\ Advance
        BY <3>2, <3>5 DEF Clear
      <4>2. Fits(u, cell', live') /\ DOMAIN cell' = DOMAIN em.owner
        BY <2>1, <2>6, <3>1, <3>2, <3>3, <4>1, ClearFits
      <4> QED BY <2>1, <2>8, <2>9, <4>1, <4>2 DEF Advance, u
    <3>6. CASE CloseHandle
      <4>1. op = "close" /\ live' = live \ {cell[s]} /\ cell' = cell /\ Advance
        BY <3>2, <3>6 DEF CloseHandle
      <4>2. s \in t.h \cup t.z /\ Weaker([h |-> t.h \ {s}, z |-> t.z], u)
        BY <3>1, <4>1 DEF Flow
      <4>3. Fits([h |-> t.h \ {s}, z |-> t.z], cell, live \ {cell[s]})
        BY <2>6, <3>3, <4>2, ReleaseFits
      <4>4. Fits(u, cell', live') /\ DOMAIN cell' = DOMAIN em.owner
        BY <2>1, <4>1, <4>2, <4>3, FitsWeaker
      <4> QED BY <2>1, <2>8, <2>9, <4>1, <4>4 DEF Advance, u
    <3>7. CASE FreeSlot
      <4>1. op = "free" /\ live' = live \ {cell[s]} /\ cell' = [cell EXCEPT ![s] = 0] /\ Advance
        BY <3>2, <3>7 DEF FreeSlot
      <4>2. s \in t.h \cup t.z /\ Weaker([h |-> t.h \ {s}, z |-> t.z \cup {s}], u)
        BY <3>1, <4>1 DEF Flow
      <4>3. Fits([h |-> t.h \ {s}, z |-> t.z \cup {s}], [cell EXCEPT ![s] = 0], live \ {cell[s]})
        BY <2>6, <3>3, <4>2, ReleaseFits
      <4>4. Fits(u, cell', live') /\ DOMAIN cell' = DOMAIN em.owner
        BY <2>1, <4>1, <4>2, <4>3, FitsWeaker
      <4> QED BY <2>1, <2>8, <2>9, <4>1, <4>4 DEF Advance, u
    <3>8. ~Jump
      BY <3>2 DEF Jump, Ops
    <3> QED BY <3>4, <3>5, <3>6, <3>7, <3>8 DEF Execute
  <2>10. CASE Terminates(em, ty, b, Instr, t)
    <3>1. Instr[1] \in {"br", "cond", "ret"}
      BY <2>10 DEF Terminates
    <3>2. Jump
      BY <3>1 DEF Execute, Own, Clear, CloseHandle, FreeSlot
    <3>3. PICK j \in 2 .. Len(Instr) : pc' = <<Instr[j], 1>>
      BY <3>2 DEF Jump
    <3>4. cell' = cell /\ live' = live /\ Instr # <<"ret">>
      BY <3>2 DEF Jump
    <3>5. Meets(em, ty, b, t, Instr[j])
      <4>1. CASE \E c \in Nat : Instr = <<"br", c>> /\ Meets(em, ty, b, t, c)
        <5>1. PICK c \in Nat : Instr = <<"br", c>> /\ Meets(em, ty, b, t, c)
          BY <4>1
        <5>2. Len(Instr) = 2 /\ Instr[2] = c
          BY <5>1
        <5> QED BY <5>1, <5>2
      <4>2. CASE \E c, d \in Nat : Instr = <<"cond", c, d>> /\ Meets(em, ty, b, t, c) /\ Meets(em, ty, b, t, d)
        <5>1. PICK c, d \in Nat : Instr = <<"cond", c, d>> /\ Meets(em, ty, b, t, c) /\ Meets(em, ty, b, t, d)
          BY <4>2
        <5>2. Len(Instr) = 3 /\ Instr[2] = c /\ Instr[3] = d
          BY <5>1
        <5>3. j = 2 \/ j = 3
          BY <5>2
        <5> QED BY <5>1, <5>2, <5>3
      <4> QED BY <2>10, <3>4, <4>1, <4>2 DEF Terminates
    <3> DEFINE c == Instr[j]
    <3>6. c \in DOMAIN em.code /\ Weaker(t, ty[c][1])
      BY <3>5 DEF Meets
    <3>7. 1 \in 1 .. Len(em.code[c])
      BY <2>1, <2>2, <3>6, BlocksFilled
    <3> HIDE DEF c
    <3>8. Fits(ty[c][1], cell', live')
      BY <2>2, <3>4, <3>6, FitsWeaker
    <3>9. pc' = <<c, 1>>
      BY <3>3 DEF c
    <3> QED BY <2>1, <2>8, <3>4, <3>6, <3>7, <3>8, <3>9
  <2> QED BY <2>7, <2>9, <2>10
<1> QED BY <1>1, <1>2 DEF IInv

\* The invariant holds.
THEOREM SlotsTyped == Spec => []IInv
<1>1. Init => IInv
  <2> SUFFICES ASSUME Init
               PROVE  IInv
    OBVIOUS
  <2>1. em = Start /\ Emitting /\ live = {}
    BY DEF Init, Emitting
  <2>2. Counted(Start)
    BY DEF Counted, Start
  <2> QED BY <2>1, <2>2, StartSound DEF IInv
<1>2. IInv /\ [Next]_vars => IInv'
  <2>1. IInv /\ UNCHANGED vars => IInv'
    BY DEF IInv, vars, Counted, Emitting, Running, Sound, Scoped, Expects, Ready, Complete
  <2> QED BY <2>1, BindStep, HandleStep, NestStep, ExitStep, CloseStep, EndFunctionStep, RunStep, ExecuteStep DEF Next
<1> QED BY <1>1, <1>2, PTL DEF Spec

\* What the types say of the instruction at hand.
LEMMA AtHand ==
  ASSUME IInv, ~Emitting, em.plain
  PROVE  \E ty \in Typings, t \in Types :
           /\ Complete(em) /\ Written(em, ty, {}) /\ Fits(t, cell, live)
           /\ \/ \E u : Moves(em, em.fnOf[pc[1]], Instr, t, u)
              \/ Terminates(em, ty, pc[1], Instr, t)
<1> DEFINE b == pc[1]
           i == pc[2]
<1>1. Running
  BY DEF IInv
<1>2. Complete(em) /\ b \in DOMAIN em.code /\ i \in 1 .. Len(em.code[b])
  <2>1. Complete(em) /\ i \in 1 .. Len(em.code[b]) /\ pc \in (DOMAIN em.code) \X Nat
    BY <1>1 DEF Running
  <2>2. pc[1] \in DOMAIN em.code
    BY <2>1
  <2> QED BY <2>1, <2>2
<1>3. PICK ty \in Typings : Written(em, ty, {}) /\ Fits(ty[b][i], cell, live)
  BY <1>1 DEF Running
<1>4. DOMAIN em.code \subseteq Nat /\ \A c \in DOMAIN em.code : Len(em.code[c]) \in Nat
  <2>1. em \in Compilers
    BY <1>2 DEF Complete
  <2>2. em.code \in Seq(Seq(Instrs))
    BY <2>1 DEF Compilers
  <2> QED BY <2>2
<1>5. \A c, j \in Nat : ty[c][j] \in Types
  BY DEF Typings
<1>6. ty[b][i] \in Types
  BY <1>2, <1>4, <1>5
<1>7. Instr = em.code[b][i]
  BY DEF Instr
<1>8. \/ Moves(em, em.fnOf[b], Instr, ty[b][i], ty[b][i + 1])
      \/ Terminates(em, ty, b, Instr, ty[b][i])
  BY <1>2, <1>3, <1>7, InstrTyped
<1> HIDE DEF b, i
<1>9. \/ \E u : Moves(em, em.fnOf[b], Instr, ty[b][i], u)
      \/ Terminates(em, ty, b, Instr, ty[b][i])
  BY <1>8
<1> QED BY <1>2, <1>3, <1>6, <1>9 DEF b

\* A release finds an open handle or nothing.
LEMMA IInvNoWildRelease == IInv => NoWildRelease
<1> SUFFICES ASSUME IInv, ~Emitting, em.plain, Instr[1] \in {"free", "close"}
             PROVE  cell[Slot] \in live \cup {0}
  BY DEF NoWildRelease
<1>1. PICK ty \in Typings, t \in Types :
        /\ Fits(t, cell, live)
        /\ \/ \E u : Moves(em, em.fnOf[pc[1]], Instr, t, u)
           \/ Terminates(em, ty, pc[1], Instr, t)
  BY AtHand
<1>2. ~Terminates(em, ty, pc[1], Instr, t)
  BY DEF Terminates
<1>3. PICK u : Moves(em, em.fnOf[pc[1]], Instr, t, u)
  BY <1>1, <1>2
<1>4. PICK op \in Ops, s \in DOMAIN em.owner : Instr = <<op, s>> /\ Flow(op, s, t, u)
  BY <1>3 DEF Moves
<1>5. op \in {"free", "close"} /\ Slot = s
  BY <1>4 DEF Slot
<1>6. s \in t.h \cup t.z
  BY <1>4, <1>5 DEF Flow
<1> QED BY <1>1, <1>5, <1>6 DEF Fits

\* A function that returns owns nothing but what its loops go through.
LEMMA IInvReleasedAtReturn == IInv => ReleasedAtReturn
<1> SUFFICES ASSUME IInv, ~Emitting, em.plain, Instr = <<"ret">>
             PROVE  live \subseteq {cell[s] : s \in em.iters}
  BY DEF ReleasedAtReturn, AtReturn
<1>1. PICK ty \in Typings, t \in Types :
        /\ Fits(t, cell, live)
        /\ \/ \E u : Moves(em, em.fnOf[pc[1]], Instr, t, u)
           \/ Terminates(em, ty, pc[1], Instr, t)
  BY AtHand
<1>2. \A op, s : Instr # <<op, s>>
  OBVIOUS
<1>3. Terminates(em, ty, pc[1], Instr, t)
  BY <1>1, <1>2 DEF Moves
<1>4. \A c, d : Instr # <<"cond", c, d>>
  OBVIOUS
<1>5. t.h \subseteq em.iters
  BY <1>2, <1>3, <1>4 DEF Terminates
<1> QED BY <1>1, <1>5 DEF Fits

\* The instructions of a block work on slots of its function.
LEMMA IInvOwnSlotsOnly == IInv => OwnSlotsOnly
<1> SUFFICES ASSUME IInv, ~Emitting, em.plain,
                    NEW b \in DOMAIN em.code, NEW i \in DOMAIN em.code[b], em.code[b][i][1] \in Ops
             PROVE  em.owner[em.code[b][i][2]] = em.fnOf[b]
  BY DEF OwnSlotsOnly, Ops
<1> DEFINE instr == em.code[b][i]
<1>1. Running
  BY DEF IInv
<1>2. PICK ty \in Typings : Complete(em) /\ Written(em, ty, {})
  BY <1>1 DEF Running
<1>3. em.code \in Seq(Seq(Instrs))
  BY <1>2 DEF Complete, Compilers
<1>4. i \in 1 .. Len(em.code[b])
  BY <1>3
<1>5. \/ Moves(em, em.fnOf[b], instr, ty[b][i], ty[b][i + 1])
      \/ Terminates(em, ty, b, instr, ty[b][i])
  BY <1>2, <1>4, InstrTyped
<1>6. instr[1] \in Ops
  OBVIOUS
<1> HIDE DEF instr
<1>7. ~Terminates(em, ty, b, instr, ty[b][i])
  BY <1>6 DEF Terminates, Ops
<1>8. PICK op \in Ops, s \in DOMAIN em.owner : instr = <<op, s>> /\ em.owner[s] = em.fnOf[b]
  BY <1>5, <1>7 DEF Moves
<1>9. instr[2] = s
  BY <1>8
<1> QED BY <1>8, <1>9 DEF instr

\* In a plain program nothing is released that the program does not own.
THEOREM NeverWildRelease == Spec => []NoWildRelease
BY SlotsTyped, IInvNoWildRelease, PTL

\* A function of a plain program that returns has released what its names held.
THEOREM ReturnsReleased == Spec => []ReleasedAtReturn
BY SlotsTyped, IInvReleasedAtReturn, PTL

\* The code of a function of a plain program keeps to the slots of that function.
THEOREM SlotsKeptApart == Spec => []OwnSlotsOnly
BY SlotsTyped, IInvOwnSlotsOnly, PTL
=============================================================================
