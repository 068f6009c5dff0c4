---------------------------- MODULE ResourceProofs ----------------------------
(***************************************************************************)
(* What the compiler's checks on resources give to every program, of any   *)
(* length and nesting, however its threads run.                            *)
(***************************************************************************)
EXTENDS ResourceChecks, TLAPS, SequenceTheorems

Names == Resources \cup Bodies

Labels == Names \cup {""}   \* loops and branches have no name

Opening == {"task", "block", "if", "loop", "else"}

Operations == Opening \cup {"open", "use", "write", "destroy", "pull", "order", "end"}

Knowledge ==
  [bound : SUBSET Names, owned : SUBSET Names, consumed : SUBSET Names,
   pulled : SUBSET Names, outer : SUBSET Names, slot : [Names -> Nat]]

Statements == [op : Operations, name : Labels, to : Nat, slot : Nat]

Levels ==
  [op : Opening, name : Labels, at : Nat, saved : Knowledge,
   then : SUBSET Names, node : Nat]

Graphs ==
  [nodes : Nat, node : [Names -> Nat],
   accesses : SUBSET [what : Nat, owner : Nat, excl : BOOLEAN],
   unordered : SUBSET Nat, order : SUBSET (Nat \X Nat)]

Threads == [from : Nat, pc : Nat, slots : [0 .. Len(code) -> Nat], got : SUBSET (Nat \X Nat)]

ResourceTypeOK ==
  /\ code \in Seq(Statements)
  /\ sema \in Knowledge
  /\ graph \in Graphs
  /\ nest \in Seq(Levels)
  /\ threads \in Seq(Threads)
  /\ files \in Seq([from : Nat, closer : Nat, at : Nat])

-----------------------------------------------------------------------------
(* The blocks of a program c are nested; those still open are on the stack *)
(* n, outermost first.                                                     *)

Opens(c, a) == a \in DOMAIN c /\ c[a].op \in Opening

\* A block that has ended leads to its end, or to its else; and back.
EndsMatch(c) ==
  /\ \A a \in DOMAIN c :
       Opens(c, a) /\ c[a].to # 0 =>
         /\ c[a].to \in DOMAIN c /\ a < c[a].to
         /\ \/ c[c[a].to].op = "end" /\ c[c[a].to].to = a
            \/ c[c[a].to].op = "else" /\ c[a].op = "if"
  /\ \A b \in DOMAIN c :
       c[b].op = "end" => Opens(c, c[b].to) /\ c[c[b].to].to = b

\* A block that begins inside another ends inside it.
Nested(c) ==
  \A a, b \in DOMAIN c :
    Opens(c, a) /\ Opens(c, b) /\ a < b /\ b < c[a].to =>
      c[b].to # 0 /\ c[b].to < c[a].to

OnStack(c, n) ==
  /\ \A k \in DOMAIN n :
       /\ Opens(c, n[k].at)
       /\ c[n[k].at].to = 0 /\ c[n[k].at].op = n[k].op /\ c[n[k].at].name = n[k].name
       /\ n[k].op \in {"task", "block"} => n[k].name \in Bodies
  /\ \A k, l \in DOMAIN n : k < l => n[k].at < n[l].at
  /\ \A a \in DOMAIN c : Opens(c, a) /\ c[a].to = 0 => \E k \in DOMAIN n : n[k].at = a

BlockInv(c, n) == EndsMatch(c) /\ Nested(c) /\ OnStack(c, n)

-----------------------------------------------------------------------------
(* What type inference knows.                                              *)

IsTask(c, t) == t \in DOMAIN c /\ c[t].op = "task"

\* Statement q is in the body of a task that has ended before p.
InTaskBefore(c, q, p) ==
  \E t \in DOMAIN c : IsTask(c, t) /\ t < q /\ q < c[t].to /\ c[t].to < p

Binder(n) == IF n \in Resources THEN "open" ELSE "task"

\* A name stands for what the last statement that bound it has bound, and is owned.
SlotsKnown(c, s, p) ==
  \A n \in Names :
    s.slot[n] # 0 =>
      /\ s.slot[n] \in DOMAIN c /\ s.slot[n] < p
      /\ c[s.slot[n]].name = n /\ c[s.slot[n]].op = Binder(n)
      /\ n \in s.owned

\* What has been destroyed, the name consumed with it: nothing else destroys it.
DestroyedKnown(c, s) ==
  \A n \in Names \ s.consumed, q \in DOMAIN c :
    s.slot[n] # 0 /\ c[q].op = "destroy" => c[q].slot # s.slot[n]

\* The pulls before p are known but for those inside tasks.
PullsKnown(c, s, p) ==
  \A q \in DOMAIN c :
    q < p /\ c[q].op = "pull" => c[q].name \in s.pulled \/ InTaskBefore(c, q, p)

\* s is what is known before statement p.
Knows(c, s, p) == SlotsKnown(c, s, p) /\ DestroyedKnown(c, s) /\ PullsKnown(c, s, p)

\* What was owned when a task began is out of reach of the destructions inside.
OuterKept(s, n) ==
  /\ \A k \in DOMAIN n :
       n[k].op = "task" => n[k].saved.owned \subseteq s.owned \cap s.outer
  /\ \A k, l \in DOMAIN n :
       k < l /\ n[k].op = "task" /\ n[l].op = "task" =>
         n[k].saved.owned \subseteq n[l].saved.owned \cap n[l].saved.outer

SavedKnown(c, n) == \A k \in DOMAIN n : n[k].op = "task" => Knows(c, n[k].saved, n[k].at)

KnowledgeInv(c, s, n) == Knows(c, s, Len(c) + 1) /\ SavedKnown(c, n) /\ OuterKept(s, n)

\* A statement refers to a binding of its name.
RefersWell(c) ==
  \A p \in DOMAIN c :
    c[p].slot # 0 =>
      /\ c[p].slot \in DOMAIN c /\ c[p].slot < p
      /\ c[c[p].slot].name = c[p].name
      /\ c[c[p].slot].op = IF c[p].op = "pull" THEN "task" ELSE "open"

\* No statement refers to what a statement before it destroys.
DestroyedOnce(c) ==
  \A p, q \in DOMAIN c :
    q < p /\ c[q].op = "destroy" /\ c[p].op \in Accesses /\ c[q].slot = c[p].slot => c[p].slot = 0

\* A task is pulled again only after the end of the task that pulled it.
PulledOnce(c) ==
  \A p, q \in DOMAIN c :
    q < p /\ c[q].op = "pull" /\ c[p].op = "pull" /\ c[q].name = c[p].name => InTaskBefore(c, q, p)

CodeInv(c) == RefersWell(c) /\ DestroyedOnce(c) /\ PulledOnce(c)

CheckInv == BlockInv(code, nest) /\ KnowledgeInv(code, sema, nest) /\ CodeInv(code)

-----------------------------------------------------------------------------
(* What the threads of the program keep to.                                *)

\* Position p of program c belongs to the body of task h: it is in h, and in the
\* tasks that h is in.
InBody(c, h, p) ==
  \A t \in DOMAIN c : IsTask(c, t) => (t < p /\ p <= c[t].to <=> t <= h /\ h < c[t].to)

\* The slots hold files and threads (fs and ts) that their statements have opened.
SlotsFilled(c, ts, fs, slots) ==
  /\ slots[0] = 0
  /\ \A q \in DOMAIN c :
       slots[q] # 0 =>
         /\ c[q].op = "open" => slots[q] \in DOMAIN fs /\ fs[slots[q]].from = q
         /\ c[q].op = "task" => slots[q] \in DOMAIN ts /\ ts[slots[q]].from = q

\* What a thread of task h has pulled, its pulls are about, and they are its own.
GotKnown(c, ts, h, got) ==
  \A g \in got :
    /\ g[1] \in DOMAIN ts /\ g[2] \in DOMAIN c
    /\ c[g[2]].op = "pull" /\ c[g[2]].slot = ts[g[1]].from
    /\ InBody(c, h, g[2])

ThreadKnown(c, ts, fs, thread) ==
  /\ thread.pc # 0 => InBody(c, thread.from, thread.pc)
  /\ SlotsFilled(c, ts, fs, thread.slots)
  /\ GotKnown(c, ts, thread.from, thread.got)

ThreadInv == \A i \in DOMAIN threads : ThreadKnown(code, threads, files, threads[i])

FileInv ==
  \A o \in DOMAIN files :
    files[o].closer # 0 =>
      /\ files[o].at \in DOMAIN code
      /\ code[files[o].at].op = "destroy" /\ code[files[o].at].slot = files[o].from

RunInv ==
  /\ threads = <<>> => files = <<>>
  /\ threads # <<>> => nest = <<>>
  /\ ThreadInv
  /\ FileInv

ResourceInv == ResourceTypeOK /\ CheckInv /\ RunInv

-----------------------------------------------------------------------------
(* Sequences.                                                              *)

\* A sequence with one element more
LEMMA AppendFacts ==
  ASSUME NEW S, NEW s \in Seq(S), NEW x \in S
  PROVE  /\ Append(s, x) \in Seq(S)
         /\ Len(Append(s, x)) = Len(s) + 1
         /\ DOMAIN Append(s, x) = 1 .. Len(s) + 1
         /\ DOMAIN s = 1 .. Len(s) /\ Len(s) \in Nat
         /\ \A q \in DOMAIN s : Append(s, x)[q] = s[q]
         /\ Append(s, x)[Len(s) + 1] = x
  OBVIOUS

\* A sequence without its last element
LEMMA FrontFacts ==
  ASSUME NEW S, NEW s \in Seq(S), s # <<>>
  PROVE  /\ Len(s) \in Nat \ {0} /\ Len(s) \in DOMAIN s /\ Last(s) = s[Len(s)] /\ Last(s) \in S
         /\ Front(s) \in Seq(S)
         /\ Len(Front(s)) = Len(s) - 1
         /\ DOMAIN Front(s) = 1 .. Len(s) - 1
         /\ \A k \in 1 .. Len(s) - 1 : k \in DOMAIN s /\ k # Len(s) /\ Front(s)[k] = s[k]
<1> DEFINE n == Len(s) - 1
<1>1. Len(s) \in Nat /\ Len(s) # 0 /\ n \in Nat /\ \A i \in 1 .. n : s[i] \in S
  OBVIOUS
<1> HIDE DEF n
<1>2. 1 \in Int /\ n \in Int /\ n - 1 + 1 = n /\ (1 <= n \/ n = 0) /\ \A i \in 1 .. n : 1 + i - 1 = i
  BY <1>1
<1>3. /\ SubSeq(s, 1, n) \in Seq(S) /\ Len(SubSeq(s, 1, n)) = n
      /\ \A i \in 1 .. n : SubSeq(s, 1, n)[i] = s[i]
  BY <1>1, <1>2, SubSeqProperties
<1>4. Front(s) = SubSeq(s, 1, n) /\ Last(s) = s[Len(s)]
  BY DEF Front, Last, n
<1>5. DOMAIN Front(s) = 1 .. n
  BY <1>3, <1>4
<1> QED BY <1>1, <1>3, <1>4, <1>5 DEF n

\* The element at a place is replaced.
LEMMA ExceptFacts ==
  ASSUME NEW S, NEW s \in Seq(S), NEW a \in DOMAIN s, NEW x \in S
  PROVE  /\ [s EXCEPT ![a] = x] \in Seq(S)
         /\ Len([s EXCEPT ![a] = x]) = Len(s)
         /\ DOMAIN [s EXCEPT ![a] = x] = DOMAIN s
         /\ [s EXCEPT ![a] = x][a] = x
         /\ \A q \in DOMAIN s : q # a => [s EXCEPT ![a] = x][q] = s[q]
  OBVIOUS

-----------------------------------------------------------------------------
(* Types.                                                                  *)

\* The statements that the visitors add
LEMMA StatementTypes ==
  ASSUME ResourceTypeOK, NEW op \in Operations
  PROVE  /\ \A name \in Labels : Stmt(op, name) \in Statements
         /\ \A name \in Names : Refer(op, name) \in Statements
<1>1. \A name \in Labels : Stmt(op, name) \in Statements
  BY DEF Stmt, Statements
<1>2. \A name \in Names : sema.slot[name] \in Nat
  BY DEF ResourceTypeOK, Knowledge
<1>3. ASSUME NEW name \in Names PROVE Refer(op, name) \in Statements
  <2>1. Stmt(op, name) \in Statements /\ sema.slot[name] \in Nat
    BY <1>1, <1>2 DEF Labels
  <2> QED BY <2>1 DEF Refer, Statements
<1> QED BY <1>1, <1>3

\* The topology's node of a statement
LEMMA NodeTypes ==
  ASSUME ResourceTypeOK
  PROVE  /\ Owner \in Nat
         /\ \A name \in Names, excl \in BOOLEAN : Accessed(graph, name, excl) \in Graphs
<1>1. Owner \in Nat
  <2>1. CASE nest = <<>>
    BY <2>1 DEF Owner, Main
  <2>2. CASE nest # <<>>
    <3>1. Last(nest) \in Levels
      BY <2>2, FrontFacts DEF ResourceTypeOK
    <3> QED BY <3>1, <2>2 DEF Owner, Levels
  <2> QED BY <2>1, <2>2
<1>2. ASSUME NEW name \in Names, NEW excl \in BOOLEAN
      PROVE  Accessed(graph, name, excl) \in Graphs
  <2> DEFINE access == [what |-> graph.node[name], owner |-> Owner, excl |-> excl]
  <2>1. graph \in Graphs
    BY DEF ResourceTypeOK
  <2>2. access \in [what : Nat, owner : Nat, excl : BOOLEAN]
    BY <1>1, <2>1 DEF Graphs
  <2> HIDE DEF access
  <2>3. [graph EXCEPT !.accesses = @ \cup {access}] \in Graphs
    BY <2>1, <2>2 DEF Graphs
  <2> QED BY <2>1, <2>3 DEF Accessed, access
<1> QED BY <1>1, <1>2

\* While the program is checked, nothing runs.
LEMMA CheckTypes ==
  ASSUME ResourceTypeOK, Checking, UNCHANGED <<threads, files>>,
         code' \in Seq(Statements), sema' \in Knowledge, graph' \in Graphs, nest' \in Seq(Levels)
  PROVE  ResourceTypeOK'
<1>1. threads' \in Seq(Threads')
  BY DEF Checking
<1> QED BY <1>1 DEF ResourceTypeOK

\* While it runs, the program is what it is.
LEMMA RunTypes ==
  ASSUME ResourceTypeOK, Running,
         threads' \in Seq(Threads), files' \in Seq([from : Nat, closer : Nat, at : Nat])
  PROVE  ResourceTypeOK'
<1>1. Threads' = Threads
  BY DEF Threads, Running
<1> QED BY <1>1 DEF ResourceTypeOK, Running

\* What the visits of simple statements leave
LEMMA VisitTypes ==
  ASSUME ResourceTypeOK, NEW n \in Names
  PROVE  /\ [sema EXCEPT !.bound = @ \cup {n}, !.owned = @ \cup {n}, !.slot[n] = Here] \in Knowledge
         /\ [sema EXCEPT !.consumed = @ \cup {n}] \in Knowledge
         /\ [sema EXCEPT !.pulled = @ \cup {n}] \in Knowledge
         /\ [sema EXCEPT !.outer = sema.owned] \in Knowledge
         /\ \A a, b \in Names : [graph EXCEPT !.order = @ \cup {<<graph.node[a], graph.node[b]>>}] \in Graphs
         /\ [graph EXCEPT !.nodes = @ + 1, !.node[n] = graph.nodes + 1] \in Graphs
         /\ \A k \in Nat : [graph EXCEPT !.nodes = @ + k + 1] \in Graphs
<1>1. sema \in Knowledge /\ Here \in Nat
  BY DEF ResourceTypeOK, Here
<1>2. graph \in Graphs
  BY DEF ResourceTypeOK
<1>3. [sema EXCEPT !.bound = @ \cup {n}, !.owned = @ \cup {n}, !.slot[n] = Here] \in Knowledge
  BY <1>1 DEF Knowledge
<1>4. [sema EXCEPT !.consumed = @ \cup {n}] \in Knowledge
  BY <1>1 DEF Knowledge
<1>5. [sema EXCEPT !.pulled = @ \cup {n}] \in Knowledge
  BY <1>1 DEF Knowledge
<1>6. [sema EXCEPT !.outer = sema.owned] \in Knowledge
  BY <1>1 DEF Knowledge
<1>7. ASSUME NEW a \in Names, NEW b \in Names
      PROVE  [graph EXCEPT !.order = @ \cup {<<graph.node[a], graph.node[b]>>}] \in Graphs
  BY <1>2 DEF Graphs
<1>8. [graph EXCEPT !.nodes = @ + 1, !.node[n] = graph.nodes + 1] \in Graphs
  <2>1. graph.nodes + 1 \in Nat /\ graph.node \in [Names -> Nat]
    BY <1>2 DEF Graphs
  <2> DEFINE k == graph.nodes + 1
             node == [graph.node EXCEPT ![n] = k]
  <2>2. node \in [Names -> Nat]
    BY <2>1
  <2> DEFINE counted == [graph EXCEPT !.nodes = k]
  <2>3. counted \in Graphs /\ counted.node = graph.node
    BY <1>2, <2>1 DEF Graphs
  <2>4. [graph EXCEPT !.nodes = @ + 1, !.node[n] = graph.nodes + 1] = [counted EXCEPT !.node[n] = k]
    OBVIOUS
  <2>5. [counted EXCEPT !.node[n] = k] = [counted EXCEPT !.node = node]
    BY <2>3
  <2> HIDE DEF node, counted, k
  <2>6. [counted EXCEPT !.node = node] \in Graphs
    BY <2>2, <2>3 DEF Graphs
  <2> QED BY <2>4, <2>5, <2>6
<1>9. ASSUME NEW k \in Nat PROVE [graph EXCEPT !.nodes = @ + k + 1] \in Graphs
  BY <1>2 DEF Graphs
<1> QED BY <1>3, <1>4, <1>5, <1>6, <1>7, <1>8, <1>9

\* What the ends of a task and of a block leave
LEMMA EndTypes ==
  ASSUME ResourceTypeOK, NEW level \in Levels, level.name \in Names
  PROVE  LET n == level.name
         IN  /\ [level.saved EXCEPT !.bound = @ \cup {n}, !.owned = @ \cup {n}, !.slot[n] = level.at]
                  \in Knowledge
             /\ [sema EXCEPT !.bound = @ \cup {n}] \in Knowledge
             /\ \A k \in Nat : [graph EXCEPT !.node[n] = k, !.unordered = @ \cup {k}] \in Graphs
<1> DEFINE n == level.name
<1>1. level.saved \in Knowledge /\ level.at \in Nat /\ sema \in Knowledge /\ graph \in Graphs
  BY DEF Levels, ResourceTypeOK
<1>2. n \in Names
  OBVIOUS
<1> HIDE DEF n
<1>3. [level.saved EXCEPT !.bound = @ \cup {n}, !.owned = @ \cup {n}, !.slot[n] = level.at] \in Knowledge
  BY <1>1, <1>2 DEF Knowledge
<1>4. [sema EXCEPT !.bound = @ \cup {n}] \in Knowledge
  BY <1>1, <1>2 DEF Knowledge
<1>5. ASSUME NEW k \in Nat PROVE [graph EXCEPT !.node[n] = k, !.unordered = @ \cup {k}] \in Graphs
  BY <1>1, <1>2 DEF Graphs
<1> QED BY <1>3, <1>4, <1>5 DEF n

\* A block begins: its statement and its level are typed.
LEMMA EnterTypes ==
  ASSUME ResourceTypeOK, NEW op \in Opening, NEW name \in Labels, Enter(op, name)
  PROVE  /\ code' \in Seq(Statements) /\ nest' \in Seq(Levels) /\ graph' \in Graphs
         /\ Checking /\ UNCHANGED <<threads, files>>
<1> DEFINE seen == Seen /\ op \in {"task", "block"}
           task == IF op = "task" THEN 1 ELSE 0
           level == [op |-> op, name |-> name, at |-> Here, saved |-> sema, then |-> {},
                     node |-> IF seen THEN graph.nodes + task + 1 ELSE 0]
<1>1. Stmt(op, name) \in Statements
  BY StatementTypes DEF Operations
<1>2. code' \in Seq(Statements)
  BY <1>1, AppendFacts DEF Enter, ResourceTypeOK
<1>3. task \in Nat /\ graph \in Graphs /\ graph.nodes \in Nat /\ Here \in Nat /\ sema \in Knowledge
  <2>1. graph \in Graphs /\ sema \in Knowledge /\ code \in Seq(Statements)
    BY DEF ResourceTypeOK
  <2>2. graph.nodes \in Nat
    BY <2>1 DEF Graphs
  <2>3. Here \in Nat
    BY <2>1 DEF Here
  <2> QED BY <2>1, <2>2, <2>3
<1>4. level \in Levels
  <2> DEFINE node == IF seen THEN graph.nodes + task + 1 ELSE 0
  <2> HIDE DEF seen, task
  <2>1. node \in Nat
    BY <1>3
  <2> HIDE DEF node
  <2>2. [op |-> op, name |-> name, at |-> Here, saved |-> sema, then |-> {}, node |-> node] \in Levels
    BY <1>3, <2>1 DEF Levels
  <2> QED BY <2>2 DEF node
<1>5. nest' = Append(nest, level)
  BY DEF Enter
<1> HIDE DEF level
<1>6. nest' \in Seq(Levels)
  BY <1>4, <1>5, AppendFacts DEF ResourceTypeOK
<1>7. graph' = IF seen THEN [graph EXCEPT !.nodes = @ + task + 1] ELSE graph
  BY DEF Enter
<1> HIDE DEF seen, task
<1>8. [graph EXCEPT !.nodes = @ + task + 1] \in Graphs
  <2> DEFINE k == graph.nodes + task + 1
  <2>1. k \in Nat
    BY <1>3
  <2> HIDE DEF k
  <2>2. [graph EXCEPT !.nodes = k] \in Graphs
    BY <1>3, <2>1 DEF Graphs
  <2> QED BY <2>2 DEF k
<1> QED BY <1>2, <1>3, <1>6, <1>7, <1>8 DEF Enter

\* A block ends.
LEMMA LeaveTypes ==
  ASSUME ResourceTypeOK, OnStack(code, nest), NEW op \in Opening, Leave(op)
  PROVE  /\ code' \in Seq(Statements) /\ nest' \in Seq(Levels)
         /\ Last(nest) \in Levels /\ Last(nest).at \in DOMAIN code
         /\ Checking /\ UNCHANGED <<threads, files>>
<1>1. nest \in Seq(Levels) /\ nest # <<>> /\ code \in Seq(Statements)
  BY DEF Leave, ResourceTypeOK
<1>2. Last(nest) \in Levels /\ Last(nest) = nest[Len(nest)] /\ Len(nest) \in DOMAIN nest /\ Front(nest) \in Seq(Levels)
  BY <1>1, FrontFacts
<1>3. Last(nest).at \in DOMAIN code
  BY <1>2 DEF OnStack, Opens
<1> DEFINE a == Last(nest).at
           ended == [code[a] EXCEPT !.to = Here]
           closed == [code EXCEPT ![a] = ended]
           end == [Stmt("end", Last(nest).name) EXCEPT !.to = a]
<1>4. Here \in Nat /\ a \in Nat /\ Last(nest).name \in Labels
  <2>1. Here \in Nat
    BY <1>1 DEF Here
  <2> QED BY <1>2, <2>1 DEF Levels
<1>5. ended \in Statements
  <2>1. code[a] \in Statements
    BY <1>1, <1>3
  <2> HIDE DEF a
  <2> QED BY <1>4, <2>1 DEF Statements
<1>6. Stmt("end", Last(nest).name) \in Statements
  BY <1>4, StatementTypes DEF Operations
<1>7. end \in Statements
  BY <1>4, <1>6 DEF Statements
<1>8. code' = Append(closed, end)
  BY DEF Leave
<1> HIDE DEF ended, end
<1>9. closed \in Seq(Statements)
  BY <1>1, <1>3, <1>5, ExceptFacts
<1> HIDE DEF closed
<1>10. code' \in Seq(Statements)
  BY <1>7, <1>8, <1>9, AppendFacts
<1> QED BY <1>2, <1>3, <1>10 DEF Leave

\* A visit keeps the types.
LEMMA CheckStepTypes ==
  ASSUME ResourceTypeOK, OnStack(code, nest), CheckNext
  PROVE  ResourceTypeOK'
<1> USE DEF Names
<1>1. graph \in Graphs /\ sema \in Knowledge /\ code \in Seq(Statements) /\ nest \in Seq(Levels)
  BY DEF ResourceTypeOK
<1>2. ASSUME NEW f \in Resources, BindFile(f) PROVE ResourceTypeOK'
  <2>1. f \in Names /\ f \in Labels
    BY DEF Labels
  <2>2. Stmt("open", f) \in Statements
    BY <2>1, StatementTypes DEF Operations
  <2>3. code' \in Seq(Statements) /\ sema' \in Knowledge /\ graph' \in Graphs
    BY <1>1, <1>2, <2>1, <2>2, AppendFacts, VisitTypes DEF BindFile
  <2> QED BY <1>1, <1>2, <2>3, CheckTypes DEF BindFile
<1>3. ASSUME NEW f \in Resources, NEW op \in {"use", "write"}, Use(f, op) PROVE ResourceTypeOK'
  <2>1. Refer(op, f) \in Statements
    BY StatementTypes DEF Operations
  <2>2. code' \in Seq(Statements) /\ graph' \in Graphs
    BY <1>1, <1>3, <2>1, AppendFacts, NodeTypes DEF Use
  <2> QED BY <1>1, <1>3, <2>2, CheckTypes DEF Use
<1>4. ASSUME NEW f \in Resources, Destroy(f) PROVE ResourceTypeOK'
  <2>1. Refer("destroy", f) \in Statements
    BY StatementTypes DEF Operations
  <2>2. code' \in Seq(Statements) /\ graph' \in Graphs /\ sema' \in Knowledge
    BY <1>1, <1>4, <2>1, AppendFacts, NodeTypes, VisitTypes DEF Destroy
  <2> QED BY <1>1, <1>4, <2>2, CheckTypes DEF Destroy
<1>5. ASSUME NEW t \in Bodies, Pull(t) PROVE ResourceTypeOK'
  <2>1. Refer("pull", t) \in Statements
    BY StatementTypes DEF Operations
  <2>2. code' \in Seq(Statements) /\ sema' \in Knowledge
    BY <1>1, <1>5, <2>1, AppendFacts, VisitTypes DEF Pull
  <2> QED BY <1>1, <1>5, <2>2, CheckTypes DEF Pull
<1>6. ASSUME NEW a \in Bodies, NEW b \in Bodies, Order(a, b) PROVE ResourceTypeOK'
  <2>1. Stmt("order", a) \in Statements
    BY StatementTypes DEF Operations, Labels
  <2>2. code' \in Seq(Statements) /\ graph' \in Graphs
    BY <1>1, <1>6, <2>1, AppendFacts, VisitTypes DEF Order
  <2> QED BY <1>1, <1>6, <2>2, CheckTypes DEF Order
<1>7. ASSUME NEW op \in Opening, NEW name \in Labels, Enter(op, name), sema' \in Knowledge
      PROVE  ResourceTypeOK'
  BY <1>7, EnterTypes, CheckTypes
<1>8. ASSUME NEW n \in Bodies, EnterTask(n) PROVE ResourceTypeOK'
  <2>1. sema' \in Knowledge
    BY <1>8, VisitTypes DEF EnterTask
  <2> QED BY <1>7, <1>8, <2>1 DEF EnterTask, Opening, Labels
<1>9. ASSUME NEW n \in Bodies, EnterBlock(n) PROVE ResourceTypeOK'
  BY <1>1, <1>7, <1>9 DEF EnterBlock, Opening, Labels
<1>10. EnterIf => ResourceTypeOK'
  BY <1>1, <1>7 DEF EnterIf, Opening, Labels
<1>11. EnterLoop => ResourceTypeOK'
  BY <1>1, <1>7 DEF EnterLoop, Opening, Labels
<1>12. ASSUME NEW op \in Opening, Leave(op), sema' \in Knowledge, graph' \in Graphs
       PROVE  ResourceTypeOK'
  BY <1>12, LeaveTypes, CheckTypes
<1>13. ASSUME NEW op \in Opening, Leave(op)
       PROVE  /\ Last(nest) \in Levels
              /\ Last(nest).saved \in Knowledge /\ Last(nest).node \in Nat
  <2>1. Last(nest) \in Levels
    BY <1>13, LeaveTypes
  <2> QED BY <2>1 DEF Levels
<1>14. ASSUME NEW op \in Opening, Leave(op), op \in {"task", "block"} PROVE Last(nest).name \in Names
  <2>1. Len(nest) \in DOMAIN nest /\ Last(nest) = nest[Len(nest)]
    BY <1>1, <1>14, FrontFacts DEF Leave
  <2>2. Last(nest).op = op
    BY <1>14 DEF Leave
  <2> QED BY <1>14, <2>1, <2>2 DEF OnStack
<1>15. ASSUME LeaveTask PROVE ResourceTypeOK'
  <2>1. "task" \in Opening /\ Leave("task")
    BY <1>15 DEF LeaveTask, Opening
  <2>2. Last(nest) \in Levels /\ Last(nest).node \in Nat /\ Last(nest).name \in Names
    BY <2>1, <1>13, <1>14
  <2>3. Last(nest).node # 0 => Last(nest).node - 1 \in Nat
    BY <2>2
  <2>4. sema' \in Knowledge
    BY <1>15, <2>2, EndTypes DEF LeaveTask
  <2>5. graph' \in Graphs
    BY <1>1, <1>15, <2>2, <2>3, EndTypes DEF LeaveTask
  <2> QED BY <1>12, <2>1, <2>4, <2>5
<1>16. ASSUME LeaveBlock PROVE ResourceTypeOK'
  <2>1. "block" \in Opening /\ Leave("block")
    BY <1>16 DEF LeaveBlock, Opening
  <2>2. Last(nest) \in Levels /\ Last(nest).node \in Nat /\ Last(nest).name \in Names
    BY <2>1, <1>13, <1>14
  <2>3. sema' \in Knowledge
    BY <1>16, <2>2, EndTypes DEF LeaveBlock
  <2>4. graph' \in Graphs
    BY <1>1, <1>16, <2>2, EndTypes DEF LeaveBlock
  <2> QED BY <1>12, <2>1, <2>3, <2>4
<1>17. LeaveLoop => ResourceTypeOK'
  BY <1>1, <1>12 DEF LeaveLoop, Opening
<1>18. ASSUME NEW level \in Levels, NEW s \in Knowledge
       PROVE  AfterBranch(s, level.saved) \in Knowledge
  BY DEF AfterBranch, Levels, Knowledge
<1>19. ASSUME Else PROVE ResourceTypeOK'
  <2> DEFINE top == Last(nest)
             a == top.at
             ended == [code[a] EXCEPT !.to = Here]
             closed == [code EXCEPT ![a] = ended]
             level == [top EXCEPT !.op = "else", !.at = Here, !.then = sema.bound]
  <2>1. /\ top \in Levels /\ top = nest[Len(nest)] /\ Len(nest) \in DOMAIN nest
        /\ Front(nest) \in Seq(Levels)
    BY <1>1, <1>19, FrontFacts DEF Else
  <2>2. a \in DOMAIN code
    BY <2>1 DEF OnStack, Opens
  <2>3. Here \in Nat /\ sema.bound \in SUBSET Names
    BY <1>1 DEF Here, Knowledge
  <2>4. code[a] \in Statements
    BY <1>1, <2>2
  <2>5. level \in Levels
    BY <2>1, <2>3 DEF Levels, Opening
  <2>6. top.name \in Labels
    BY <2>1 DEF Levels
  <2>7. Stmt("else", top.name) \in Statements
    BY <2>6, StatementTypes DEF Operations, Opening
  <2>8. /\ code' = Append(closed, Stmt("else", top.name)) /\ nest' = Append(Front(nest), level)
        /\ sema' = AfterBranch(sema, top.saved)
        /\ Checking /\ UNCHANGED <<graph, threads, files>>
    BY <1>19 DEF Else
  <2> HIDE DEF top, a, level
  <2>9. ended \in Statements
    BY <2>3, <2>4 DEF Statements
  <2> HIDE DEF ended
  <2>10. closed \in Seq(Statements)
    BY <1>1, <2>2, <2>9, ExceptFacts
  <2> HIDE DEF closed
  <2>11. code' \in Seq(Statements) /\ nest' \in Seq(Levels)
    BY <2>1, <2>5, <2>7, <2>8, <2>10, AppendFacts
  <2>12. sema' \in Knowledge
    BY <1>1, <1>18, <2>1, <2>8
  <2> QED BY <1>1, <2>8, <2>11, <2>12, CheckTypes
<1>20. LeaveIf => ResourceTypeOK'
  BY <1>1, <1>12, <1>13, <1>18 DEF LeaveIf, Opening
<1>21. ASSUME LeaveElse PROVE ResourceTypeOK'
  <2>1. "else" \in Opening /\ Leave("else")
    BY <1>21 DEF LeaveElse, Opening
  <2> DEFINE s == AfterBranch(sema, Last(nest).saved)
  <2>2. Last(nest) \in Levels
    BY <2>1, <1>13
  <2>3. s \in Knowledge
    BY <1>1, <1>18, <2>2
  <2>4. sema' = [s EXCEPT !.bound = @ \cup (Last(nest).then \cap sema.bound)] /\ graph' = graph
    BY <1>21 DEF LeaveElse
  <2>5. sema.bound \subseteq Names
    BY <1>1 DEF Knowledge
  <2> HIDE DEF s
  <2>6. sema' \in Knowledge
    BY <2>3, <2>4, <2>5 DEF Knowledge
  <2> QED BY <1>1, <1>12, <2>1, <2>4, <2>6
<1>22. ASSUME Accept PROVE ResourceTypeOK'
  <2>1. Len(code) \in Nat
    BY <1>1
  <2> DEFINE slots == [q \in 0..Len(code) |-> 0]
  <2>2. slots \in [0 .. Len(code) -> Nat]
    OBVIOUS
  <2> HIDE DEF slots
  <2>3. [from |-> 0, pc |-> 0 + 1, slots |-> slots, got |-> {}] \in Threads
    BY <2>2 DEF Threads
  <2>4. Thread(0, slots) \in Threads
    BY <2>3 DEF Thread
  <2>5. UNCHANGED <<code, sema, graph, nest, files>> /\ threads' = << Thread(0, slots) >>
    BY <1>22 DEF Accept, slots
  <2>6. threads' \in Seq(Threads) /\ files' \in Seq([from : Nat, closer : Nat, at : Nat])
    BY <2>4, <2>5 DEF ResourceTypeOK
  <2> QED BY <2>5, <2>6, RunTypes DEF Running
<1> QED
  BY <1>2, <1>3, <1>4, <1>5, <1>6, <1>8, <1>9, <1>10, <1>11, <1>15, <1>16, <1>17, <1>19, <1>20, <1>21, <1>22
  DEF CheckNext

\* A thread before a statement
LEMMA BeforeTypes ==
  ASSUME ResourceTypeOK, NEW i \in DOMAIN threads, NEW op, Before(i, op)
  PROVE  /\ threads \in Seq(Threads) /\ threads[i] \in Threads
         /\ threads[i].from \in Nat /\ threads[i].pc \in Nat
         /\ threads[i].slots \in [0 .. Len(code) -> Nat]
         /\ threads[i].got \in SUBSET (Nat \X Nat)
         /\ threads[i].pc \in DOMAIN code /\ threads[i].pc \in 1 .. Len(code)
         /\ Current(i) = code[threads[i].pc] /\ Current(i) \in Statements /\ Current(i).op = op
         /\ Current(i).to \in Nat /\ Current(i).slot \in Nat
<1>1. threads \in Seq(Threads) /\ code \in Seq(Statements)
  BY DEF ResourceTypeOK
<1>2. threads[i] \in Threads
  BY <1>1
<1>3. threads[i].pc \in DOMAIN code /\ code[threads[i].pc].op = op
  BY DEF Before
<1>4. Current(i) = code[threads[i].pc] /\ Current(i) \in Statements
  BY <1>1, <1>3 DEF Current
<1>5. threads[i].pc \in 1 .. Len(code)
  BY <1>1, <1>3
<1> QED BY <1>1, <1>2, <1>3, <1>4, <1>5 DEF Threads, Statements

\* Going somewhere changes nothing else of a thread.
LEMMA GotoTypes ==
  ASSUME ResourceTypeOK, NEW i \in DOMAIN threads, NEW pc \in Nat, Goto(i, pc)
  PROVE  /\ threads' \in Seq(Threads) /\ Len(threads') = Len(threads)
         /\ DOMAIN threads' = DOMAIN threads
         /\ \A j \in DOMAIN threads : j # i => threads'[j] = threads[j]
         /\ threads'[i] = [threads[i] EXCEPT !.pc = pc]
<1>1. threads \in Seq(Threads) /\ threads[i] \in Threads
  BY DEF ResourceTypeOK
<1> DEFINE moved == [threads[i] EXCEPT !.pc = pc]
<1>2. moved \in Threads
  BY <1>1 DEF Threads
<1>3. threads' = [threads EXCEPT ![i] = moved]
  BY DEF Goto
<1> HIDE DEF moved
<1>4. /\ threads' \in Seq(Threads) /\ Len(threads') = Len(threads) /\ DOMAIN threads' = DOMAIN threads
      /\ threads'[i] = moved /\ \A j \in DOMAIN threads : j # i => threads'[j] = threads[j]
  BY <1>1, <1>2, <1>3, ExceptFacts
<1> QED BY <1>4 DEF moved

\* A step of a thread that only goes somewhere, and where it may go
LEMMA GotoSteps ==
  ASSUME ResourceTypeOK, NEW i \in DOMAIN threads,
         RunUse(i) \/ RunEnd(i) \/ RunBranch(i) \/ RunElse(i) \/ RunBlock(i)
  PROVE  /\ Running /\ UNCHANGED files
         /\ \E pc \in Nat :
              /\ Goto(i, pc)
              /\ \/ /\ pc = threads[i].pc + 1
                    /\ \/ \E op \in {"use", "write", "if", "loop", "block", "order"} : Before(i, op)
                       \/ Before(i, "end") /\ code[Current(i).to].op \notin {"task", "loop"}
                 \/ pc = 0 /\ Before(i, "end") /\ code[Current(i).to].op = "task"
                 \/ pc = Current(i).to /\ Before(i, "end") /\ code[Current(i).to].op = "loop"
                 \/ /\ pc = Current(i).to + 1
                    /\ \E op \in {"if", "loop", "else"} : Before(i, op)
<1> DEFINE Goes(pc) ==
      \/ /\ pc = threads[i].pc + 1
         /\ \/ \E op \in {"use", "write", "if", "loop", "block", "order"} : Before(i, op)
            \/ Before(i, "end") /\ code[Current(i).to].op \notin {"task", "loop"}
      \/ pc = 0 /\ Before(i, "end") /\ code[Current(i).to].op = "task"
      \/ pc = Current(i).to /\ Before(i, "end") /\ code[Current(i).to].op = "loop"
      \/ pc = Current(i).to + 1 /\ \E op \in {"if", "loop", "else"} : Before(i, op)
<1>1. ASSUME NEW op, Before(i, op)
      PROVE  threads[i].pc + 1 \in Nat /\ Current(i).to \in Nat /\ Current(i).to + 1 \in Nat
  <2>1. threads[i].pc \in Nat /\ Current(i).to \in Nat
    BY <1>1, BeforeTypes
  <2> QED BY <2>1
<1>2. ASSUME RunUse(i) PROVE \E pc \in Nat : Goto(i, pc) /\ Goes(pc)
  BY <1>1, <1>2 DEF RunUse, Proceed
<1>3. ASSUME RunEnd(i) PROVE \E pc \in Nat : Goto(i, pc) /\ Goes(pc)
  <2>1. Before(i, "end")
    BY <1>3 DEF RunEnd
  <2>2. CASE code[Current(i).to].op = "task"
    <3>1. Goto(i, 0) /\ Goes(0) /\ 0 \in Nat
      BY <1>3, <2>1, <2>2 DEF RunEnd
    <3> QED BY <3>1
  <2>3. CASE code[Current(i).to].op = "loop"
    <3>1. Goto(i, Current(i).to) /\ Goes(Current(i).to)
      BY <1>3, <2>1, <2>3 DEF RunEnd
    <3> QED BY <1>1, <2>1, <3>1
  <2>4. CASE code[Current(i).to].op \notin {"task", "loop"}
    <3>1. Goto(i, threads[i].pc + 1) /\ Goes(threads[i].pc + 1)
      BY <1>3, <2>1, <2>4 DEF RunEnd, Proceed
    <3> QED BY <1>1, <2>1, <3>1
  <2> QED BY <2>2, <2>3, <2>4
<1>4. ASSUME RunBranch(i) PROVE \E pc \in Nat : Goto(i, pc) /\ Goes(pc)
  <2>1. PICK op \in {"if", "loop"} : Before(i, op)
    BY <1>4 DEF RunBranch
  <2>2. CASE Goto(i, threads[i].pc + 1)
    BY <1>1, <2>1, <2>2
  <2>3. CASE Goto(i, Current(i).to + 1)
    BY <1>1, <2>1, <2>3
  <2> QED BY <1>4, <2>2, <2>3 DEF RunBranch, Proceed
<1>5. ASSUME RunElse(i) PROVE \E pc \in Nat : Goto(i, pc) /\ Goes(pc)
  BY <1>1, <1>5 DEF RunElse
<1>6. ASSUME RunBlock(i) PROVE \E pc \in Nat : Goto(i, pc) /\ Goes(pc)
  BY <1>1, <1>6 DEF RunBlock, Proceed
<1>7. Running /\ UNCHANGED files
  BY DEF RunUse, RunEnd, RunBranch, RunElse, RunBlock
<1> QED BY <1>2, <1>3, <1>4, <1>5, <1>6, <1>7

\* The other steps fill a slot, launch a thread, or note a thread as pulled.
LEMMA OtherSteps ==
  ASSUME ResourceTypeOK, RefersWell(code), NEW i \in DOMAIN threads
  PROVE  LET p == threads[i].pc
         IN  /\ RunOpen(i) => LET moved == [threads[i] EXCEPT !.pc = p + 1, !.slots[p] = Len(files) + 1]
                              IN  threads' = [threads EXCEPT ![i] = moved] /\ moved \in Threads
             /\ RunTask(i) => LET moved == [threads[i] EXCEPT !.pc = Current(i).to + 1,
                                                              !.slots[p] = Len(threads) + 1]
                              IN  /\ threads' = Append([threads EXCEPT ![i] = moved], Thread(p, threads[i].slots))
                                  /\ moved \in Threads /\ Thread(p, threads[i].slots) \in Threads
             /\ RunPull(i) => LET moved == [threads[i] EXCEPT !.pc = p + 1, !.got = @ \cup {<<Object(i), p>>}]
                              IN  threads' = [threads EXCEPT ![i] = moved] /\ moved \in Threads
<1> DEFINE p == threads[i].pc
<1>1. ASSUME NEW pc \in Nat, NEW o \in Nat, NEW op, Before(i, op)
      PROVE  [threads[i] EXCEPT !.pc = pc, !.slots[p] = o] \in Threads
  <2>1. threads[i] \in Threads /\ p \in 0 .. Len(code) /\ threads[i].slots \in [0 .. Len(code) -> Nat]
    <3>1. p \in 1 .. Len(code) /\ Len(code) \in Nat
      BY <1>1, BeforeTypes DEF ResourceTypeOK
    <3> QED BY <1>1, <3>1, BeforeTypes
  <2> DEFINE slots == [threads[i].slots EXCEPT ![p] = o]
  <2>2. slots \in [0 .. Len(code) -> Nat]
    BY <2>1
  <2>3. [threads[i] EXCEPT !.pc = pc, !.slots[p] = o] = [threads[i] EXCEPT !.pc = pc, !.slots = slots]
    BY <2>1 DEF Threads
  <2> HIDE DEF slots, p
  <2>4. [threads[i] EXCEPT !.pc = pc, !.slots = slots] \in Threads
    BY <2>1, <2>2 DEF Threads
  <2> QED BY <2>3, <2>4
<1>2. Len(files) + 1 \in Nat /\ Len(threads) + 1 \in Nat
  BY DEF ResourceTypeOK
<1>3. ASSUME NEW op, Before(i, op) PROVE p + 1 \in Nat /\ Current(i).to + 1 \in Nat /\ p \in Nat
  <2>1. p \in Nat /\ Current(i).to \in Nat
    BY <1>3, BeforeTypes
  <2> QED BY <2>1
<1>4. ASSUME RunOpen(i)
      PROVE  LET moved == [threads[i] EXCEPT !.pc = p + 1, !.slots[p] = Len(files) + 1]
             IN  threads' = [threads EXCEPT ![i] = moved] /\ moved \in Threads
  <2>1. Before(i, "open")
    BY <1>4 DEF RunOpen
  <2>2. [threads[i] EXCEPT !.pc = p + 1, !.slots[p] = Len(files) + 1] \in Threads
    BY <1>1, <1>2, <1>3, <2>1
  <2> QED BY <1>4, <2>2 DEF RunOpen
<1>5. ASSUME RunTask(i)
      PROVE  LET moved == [threads[i] EXCEPT !.pc = Current(i).to + 1, !.slots[p] = Len(threads) + 1]
             IN  /\ threads' = Append([threads EXCEPT ![i] = moved], Thread(p, threads[i].slots))
                 /\ moved \in Threads /\ Thread(p, threads[i].slots) \in Threads
  <2>1. Before(i, "task")
    BY <1>5 DEF RunTask
  <2>2. [threads[i] EXCEPT !.pc = Current(i).to + 1, !.slots[p] = Len(threads) + 1] \in Threads
    BY <1>1, <1>2, <1>3, <2>1
  <2>3. threads[i].slots \in [0 .. Len(code) -> Nat] /\ p \in Nat /\ p + 1 \in Nat
    BY <1>3, <2>1, BeforeTypes
  <2>4. Thread(p, threads[i].slots) \in Threads
    BY <2>3 DEF Thread, Threads
  <2> QED BY <1>5, <2>2, <2>4 DEF RunTask
<1>6. ASSUME RunPull(i)
      PROVE  LET moved == [threads[i] EXCEPT !.pc = p + 1, !.got = @ \cup {<<Object(i), p>>}]
             IN  threads' = [threads EXCEPT ![i] = moved] /\ moved \in Threads
  <2>1. Before(i, "pull") /\ threads[Object(i)].pc = 0 /\ Object(i) # 0
    BY <1>6 DEF RunPull
  <2>2. /\ threads[i] \in Threads /\ p \in Nat /\ p + 1 \in Nat
        /\ threads[i].slots \in [0 .. Len(code) -> Nat] /\ Current(i).slot \in Nat
        /\ threads[i].got \in SUBSET (Nat \X Nat)
    BY <1>3, <2>1, BeforeTypes
  <2>3. Object(i) \in Nat
    <3>1. p \in DOMAIN code /\ Current(i).slot = code[p].slot /\ DOMAIN code = 1 .. Len(code) /\ Len(code) \in Nat
      BY <2>1, BeforeTypes DEF ResourceTypeOK
    <3>2. Current(i).slot \in 0 .. Len(code)
      BY <2>2, <3>1 DEF RefersWell
    <3> QED BY <2>2, <3>2 DEF Object
  <2> DEFINE o == Object(i)
             got == threads[i].got \cup {<<o, p>>}
  <2>4. got \in SUBSET (Nat \X Nat)
    BY <2>2, <2>3
  <2>5. threads' = [threads EXCEPT ![i].pc = @ + 1, ![i].got = @ \cup {<<o, p>>}]
    BY <1>6 DEF RunPull
  <2> HIDE DEF o, p
  <2>6. threads' = [threads EXCEPT ![i] = [threads[i] EXCEPT !.pc = threads[i].pc + 1, !.got = @ \cup {<<o, p>>}]]
    BY <2>5
  <2>7. [threads[i] EXCEPT !.pc = p + 1, !.got = got] \in Threads
    BY <2>2, <2>4 DEF Threads
  <2> QED BY <2>6, <2>7 DEF o, p
<1> QED BY <1>4, <1>5, <1>6

\* A thread keeps the types.
LEMMA RunStepTypes ==
  ASSUME ResourceTypeOK, RefersWell(code), NEW i \in DOMAIN threads, Step(i)
  PROVE  ResourceTypeOK'
<1> DEFINE Files == [from : Nat, closer : Nat, at : Nat]
<1>1. threads \in Seq(Threads) /\ files \in Seq(Files) /\ Len(files) \in Nat
  BY DEF ResourceTypeOK
<1>2. ASSUME RunUse(i) \/ RunEnd(i) \/ RunBranch(i) \/ RunElse(i) \/ RunBlock(i)
      PROVE  ResourceTypeOK'
  <2>1. PICK pc \in Nat : Goto(i, pc)
    BY <1>2, GotoSteps
  <2>2. Running /\ UNCHANGED files
    BY <1>2, GotoSteps
  <2>3. threads' \in Seq(Threads)
    BY <2>1, GotoTypes
  <2> QED BY <1>1, <2>2, <2>3, RunTypes
<1>3. ASSUME RunOpen(i) PROVE ResourceTypeOK'
  <2>1. Before(i, "open") /\ Running /\ files' = Append(files, [from |-> threads[i].pc, closer |-> 0, at |-> 0])
    BY <1>3 DEF RunOpen
  <2>2. [from |-> threads[i].pc, closer |-> 0, at |-> 0] \in Files
    BY <2>1, BeforeTypes
  <2>3. files' \in Seq(Files)
    BY <1>1, <2>1, <2>2, AppendFacts
  <2> DEFINE moved == [threads[i] EXCEPT !.pc = threads[i].pc + 1, !.slots[threads[i].pc] = Len(files) + 1]
  <2>4. threads' = [threads EXCEPT ![i] = moved] /\ moved \in Threads
    BY <1>3, OtherSteps
  <2> HIDE DEF moved
  <2>5. threads' \in Seq(Threads)
    BY <1>1, <2>4, ExceptFacts
  <2> QED BY <2>1, <2>3, <2>5, RunTypes
<1>4. ASSUME RunDestroy(i) PROVE ResourceTypeOK'
  <2>1. Before(i, "destroy") /\ Running
    BY <1>4 DEF RunDestroy
  <2>2. threads[i].pc \in Nat /\ threads[i].pc + 1 \in Nat
    BY <2>1, BeforeTypes
  <2>3. threads' \in Seq(Threads)
    BY <1>4, <2>2, GotoTypes DEF RunDestroy, Proceed
  <2>4. i \in Nat
    BY <1>1
  <2>5. files' \in Seq(Files)
    <3> DEFINE o == Object(i)
               p == threads[i].pc
    <3>1. files' = IF o = 0 THEN files ELSE [files EXCEPT ![o].closer = i, ![o].at = p]
      BY <1>4 DEF RunDestroy
    <3> HIDE DEF o, p
    <3>2. CASE o \in DOMAIN files /\ o # 0
      <4>1. files[o] \in Files
        <5> HIDE DEF Files
        <5> QED BY <1>1, <3>2
      <4>2. [files[o] EXCEPT !.closer = i, !.at = p] \in Files
        BY <2>2, <2>4, <4>1 DEF p
      <4>3. files' = [files EXCEPT ![o] = [files[o] EXCEPT !.closer = i, !.at = p]]
        BY <3>1, <3>2
      <4> QED BY <1>1, <3>2, <4>2, <4>3, ExceptFacts
    <3>3. CASE o = 0
      BY <1>1, <3>1, <3>3
    <3>4. CASE o \notin DOMAIN files
      <4>1. [files EXCEPT ![o].closer = i, ![o].at = p] = files
        BY <1>1, <3>4
      <4> QED BY <1>1, <3>1, <4>1
    <3> QED BY <3>2, <3>3, <3>4
  <2> QED BY <2>1, <2>3, <2>5, RunTypes
<1>5. ASSUME RunTask(i) PROVE ResourceTypeOK'
  <2>1. Running /\ UNCHANGED files
    BY <1>5 DEF RunTask
  <2> DEFINE moved == [threads[i] EXCEPT !.pc = Current(i).to + 1, !.slots[threads[i].pc] = Len(threads) + 1]
             left == [threads EXCEPT ![i] = moved]
             new == Thread(threads[i].pc, threads[i].slots)
  <2>2. threads' = Append(left, new) /\ moved \in Threads /\ new \in Threads
    BY <1>5, OtherSteps
  <2> HIDE DEF moved, new
  <2>3. left \in Seq(Threads)
    BY <1>1, <2>2, ExceptFacts
  <2> HIDE DEF left
  <2>4. threads' \in Seq(Threads)
    BY <2>2, <2>3, AppendFacts
  <2> QED BY <1>1, <2>1, <2>4, RunTypes
<1>6. ASSUME RunPull(i) PROVE ResourceTypeOK'
  <2>1. Running /\ UNCHANGED files
    BY <1>6 DEF RunPull
  <2> DEFINE moved == [threads[i] EXCEPT !.pc = threads[i].pc + 1, !.got = @ \cup {<<Object(i), threads[i].pc>>}]
  <2>2. threads' = [threads EXCEPT ![i] = moved] /\ moved \in Threads
    BY <1>6, OtherSteps
  <2> HIDE DEF moved
  <2>3. threads' \in Seq(Threads)
    BY <1>1, <2>2, ExceptFacts
  <2> QED BY <1>1, <2>1, <2>3, RunTypes
<1> QED BY <1>2, <1>3, <1>4, <1>5, <1>6 DEF Step

-----------------------------------------------------------------------------
(* How a program grows, and what its blocks keep.                          *)

\* Program d has one statement more than c.
Adds(c, d, stmt) ==
  /\ c \in Seq(Statements) /\ d \in Seq(Statements)
  /\ DOMAIN c = 1 .. Len(c) /\ DOMAIN d = 1 .. Len(c) + 1
  /\ Len(c) \in Nat /\ Len(d) = Len(c) + 1
  /\ \A q \in DOMAIN c : d[q] = c[q]
  /\ d[Len(c) + 1] = stmt /\ stmt \in Statements

\* The added statement ends block a.
Ends(c, d, a, stmt) ==
  /\ c \in Seq(Statements) /\ d \in Seq(Statements)
  /\ DOMAIN c = 1 .. Len(c) /\ DOMAIN d = 1 .. Len(c) + 1
  /\ Len(c) \in Nat /\ Len(d) = Len(c) + 1
  /\ \A q \in DOMAIN c : q # a => d[q] = c[q]
  /\ a \in DOMAIN c
  /\ d[a].op = c[a].op /\ d[a].name = c[a].name /\ d[a].slot = c[a].slot /\ d[a].to = Len(c) + 1
  /\ d[Len(c) + 1] = stmt /\ stmt \in Statements

\* Whatever is added, the statements that were there stay, and their blocks' ends.
Grows(c, d) ==
  /\ c \in Seq(Statements) /\ d \in Seq(Statements)
  /\ DOMAIN c = 1 .. Len(c) /\ DOMAIN d = 1 .. Len(c) + 1
  /\ Len(c) \in Nat /\ Len(d) = Len(c) + 1
  /\ \A q \in DOMAIN c :
       /\ d[q].op = c[q].op /\ d[q].name = c[q].name /\ d[q].slot = c[q].slot
       /\ c[q].to # 0 => d[q].to = c[q].to

\* A statement added
LEMMA AppendAdds ==
  ASSUME NEW c \in Seq(Statements), NEW stmt \in Statements
  PROVE  Adds(c, Append(c, stmt), stmt)
BY AppendFacts DEF Adds

\* A block ended
LEMMA CloseEnds ==
  ASSUME NEW c \in Seq(Statements), NEW stmt \in Statements, NEW a \in DOMAIN c
  PROVE  Ends(c, Append([c EXCEPT ![a].to = Len(c) + 1], stmt), a, stmt)
<1> DEFINE ended == [c[a] EXCEPT !.to = Len(c) + 1]
           closed == [c EXCEPT ![a] = ended]
<1>1. c[a] \in Statements /\ Len(c) + 1 \in Nat
  OBVIOUS
<1>2. ended \in Statements /\ ended.op = c[a].op /\ ended.name = c[a].name /\ ended.slot = c[a].slot
      /\ ended.to = Len(c) + 1
  BY <1>1 DEF Statements
<1>3. [c EXCEPT ![a].to = Len(c) + 1] = closed
  OBVIOUS
<1> HIDE DEF ended
<1>4. /\ closed \in Seq(Statements) /\ Len(closed) = Len(c) /\ DOMAIN closed = DOMAIN c
      /\ closed[a] = ended /\ \A q \in DOMAIN c : q # a => closed[q] = c[q]
  BY <1>2, ExceptFacts
<1> HIDE DEF closed
<1> DEFINE d == Append(closed, stmt)
<1>5. /\ d \in Seq(Statements) /\ Len(d) = Len(c) + 1 /\ DOMAIN d = 1 .. Len(c) + 1
      /\ DOMAIN c = 1 .. Len(c) /\ Len(c) \in Nat
      /\ \A q \in DOMAIN c : d[q] = closed[q]
      /\ d[Len(c) + 1] = stmt
  BY <1>4, AppendFacts
<1> HIDE DEF d
<1>6. Ends(c, d, a, stmt)
  BY <1>2, <1>4, <1>5 DEF Ends
<1> QED BY <1>3, <1>6 DEF d

\* Both grow the program.
LEMMA Growth ==
  ASSUME NEW c, NEW d, NEW stmt
  PROVE  /\ Adds(c, d, stmt) => Grows(c, d)
         /\ \A a \in DOMAIN c : Ends(c, d, a, stmt) /\ c[a].to = 0 => Grows(c, d)
<1>1. Adds(c, d, stmt) => Grows(c, d)
  BY DEF Adds, Grows
<1>2. ASSUME NEW a \in DOMAIN c, Ends(c, d, a, stmt), c[a].to = 0 PROVE Grows(c, d)
  BY <1>2 DEF Ends, Grows
<1> QED BY <1>1, <1>2

\* The statements' places
LEMMA Places ==
  ASSUME NEW c \in Seq(Statements)
  PROVE  \A q \in DOMAIN c : q \in Nat \ {0} /\ c[q].to \in Nat /\ c[q].slot \in Nat /\ c[q] \in Statements
<1>1. \A q \in DOMAIN c : c[q] \in Statements /\ q \in Nat \ {0}
  OBVIOUS
<1> QED BY <1>1 DEF Statements

\* A statement that ends no block leaves the blocks nested.
LEMMA AddsKeepsBlocks ==
  ASSUME NEW c, NEW d, NEW stmt, Adds(c, d, stmt), EndsMatch(c), Nested(c),
         stmt.to = 0, stmt.op # "end"
  PROVE  EndsMatch(d) /\ Nested(d)
<1> DEFINE here == Len(c) + 1
<1>1. \A q \in DOMAIN c : q \in Nat /\ q < here /\ c[q].to \in Nat
  BY Places DEF Adds
<1>2. \A a \in DOMAIN d : a \in DOMAIN c \/ a = here
  BY DEF Adds
<1>3. ASSUME NEW a \in DOMAIN d, Opens(d, a), d[a].to # 0
      PROVE  /\ a \in DOMAIN c /\ Opens(c, a) /\ c[a].to \in DOMAIN c /\ d[a].to = c[a].to /\ a < c[a].to
             /\ d[c[a].to] = c[c[a].to] /\ d[a] = c[a]
  <2>1. a \in DOMAIN c /\ d[a] = c[a]
    BY <1>2, <1>3 DEF Adds
  <2>2. Opens(c, a)
    BY <1>3, <2>1 DEF Opens
  <2> QED BY <1>3, <2>1, <2>2 DEF EndsMatch, Adds
<1>4. ASSUME NEW a \in DOMAIN d, Opens(d, a), d[a].to # 0
      PROVE  /\ d[a].to \in DOMAIN d /\ a < d[a].to
             /\ \/ d[d[a].to].op = "end" /\ d[d[a].to].to = a
                \/ d[d[a].to].op = "else" /\ d[a].op = "if"
  <2>1. c[a].to \in DOMAIN d
    BY <1>3, <1>4 DEF Adds
  <2> QED BY <1>3, <1>4, <2>1 DEF EndsMatch
<1>5. ASSUME NEW b \in DOMAIN d, d[b].op = "end"
      PROVE  Opens(d, d[b].to) /\ d[d[b].to].to = b
  <2>1. b \in DOMAIN c /\ d[b] = c[b]
    BY <1>2, <1>5 DEF Adds
  <2>2. Opens(c, c[b].to) /\ c[c[b].to].to = b
    BY <1>5, <2>1 DEF EndsMatch
  <2> QED BY <2>1, <2>2 DEF Opens, Adds
<1>6. EndsMatch(d)
  BY <1>4, <1>5 DEF EndsMatch
<1>7. ASSUME NEW a \in DOMAIN d, NEW b \in DOMAIN d, Opens(d, a), Opens(d, b), a < b, b < d[a].to
      PROVE  d[b].to # 0 /\ d[b].to < d[a].to
  <2>1. a \in Nat /\ b \in Nat /\ here \in Nat
    BY DEF Adds
  <2>2. d[a].to # 0
    <3> SUFFICES ASSUME d[a].to = 0 PROVE FALSE
      OBVIOUS
    <3> QED BY <1>7, <2>1
  <2>3. a \in DOMAIN c /\ c[a].to \in DOMAIN c /\ d[a] = c[a] /\ Opens(c, a)
    BY <1>3, <1>7, <2>2
  <2>4. b \in DOMAIN c
    <3>1. c[a].to < here /\ c[a].to \in Nat
      BY <1>1, <2>3
    <3> QED BY <1>2, <1>7, <2>1, <2>3, <3>1
  <2>5. d[b] = c[b] /\ Opens(c, b)
    BY <1>7, <2>4 DEF Opens, Adds
  <2> QED BY <1>7, <2>3, <2>4, <2>5 DEF Nested
<1> QED BY <1>6, <1>7 DEF Nested

\* The innermost block ends.
LEMMA EndsKeepsBlocks ==
  ASSUME NEW c, NEW d, NEW a, NEW stmt, Ends(c, d, a, stmt), EndsMatch(c), Nested(c),
         Opens(c, a), c[a].to = 0,
         \A b \in DOMAIN c : Opens(c, b) /\ c[b].to = 0 => b <= a,
         \/ stmt.op = "end" /\ stmt.to = a
         \/ stmt.op = "else" /\ stmt.to = 0 /\ c[a].op = "if"
  PROVE  EndsMatch(d) /\ Nested(d)
<1> DEFINE here == Len(c) + 1
<1>1. \A q \in DOMAIN c : q \in Nat /\ q # 0 /\ q < here /\ c[q].to \in Nat
  BY Places DEF Ends
<1>2. here \in DOMAIN d /\ here \in Nat /\ here # 0 /\ \A b \in DOMAIN d : b \in DOMAIN c \/ b = here
  BY DEF Ends
<1>3. \A q \in DOMAIN c : q \in DOMAIN d /\ (q # a => d[q] = c[q]) /\ d[q].op = c[q].op
  BY DEF Ends
<1>4. a \in DOMAIN c /\ d[a].to = here /\ d[here] = stmt
  BY DEF Ends
<1>5. \A b \in DOMAIN c : Opens(d, b) <=> Opens(c, b)
  BY <1>3 DEF Opens
<1>6. ASSUME NEW b \in DOMAIN d, Opens(d, b), d[b].to # 0
      PROVE  /\ d[b].to \in DOMAIN d /\ b < d[b].to
             /\ \/ d[d[b].to].op = "end" /\ d[d[b].to].to = b
                \/ d[d[b].to].op = "else" /\ d[b].op = "if"
  <2>1. CASE b = here
    BY <1>4, <1>6, <2>1 DEF Opens, Opening
  <2>2. CASE b = a
    BY <1>1, <1>2, <1>3, <1>4, <2>2
  <2>3. CASE b \in DOMAIN c /\ b # a
    <3>1. d[b] = c[b] /\ Opens(c, b) /\ c[b].to # 0
      BY <1>3, <1>5, <1>6, <2>3
    <3>2. /\ c[b].to \in DOMAIN c /\ b < c[b].to
          /\ \/ c[c[b].to].op = "end" /\ c[c[b].to].to = b
             \/ c[c[b].to].op = "else" /\ c[b].op = "if"
      BY <2>3, <3>1 DEF EndsMatch
    <3>3. c[b].to # a => d[c[b].to] = c[c[b].to]
      BY <1>3, <3>2
    <3>4. CASE c[b].to # a
      BY <1>3, <3>1, <3>2, <3>3, <3>4
    <3>5. CASE c[b].to = a
      <4>1. c[a].op = "else" /\ c[b].op = "if"
        BY <3>2, <3>5 DEF Opens, Opening
      <4> QED BY <1>3, <1>4, <3>1, <3>2, <3>5, <4>1
    <3> QED BY <3>4, <3>5
  <2> QED BY <1>2, <2>1, <2>2, <2>3
<1>7. ASSUME NEW b \in DOMAIN d, d[b].op = "end"
      PROVE  Opens(d, d[b].to) /\ d[d[b].to].to = b
  <2>1. CASE b = here
    <3>1. d[b].to = a
      BY <1>4, <1>7, <2>1
    <3> QED BY <1>4, <1>5, <2>1, <3>1
  <2>2. CASE b \in DOMAIN c
    <3>1. b # a /\ d[b] = c[b]
      BY <1>3, <1>7, <2>2 DEF Opens, Opening
    <3>2. Opens(c, c[b].to) /\ c[c[b].to].to = b
      BY <1>7, <2>2, <3>1 DEF EndsMatch
    <3>3. c[b].to # a /\ c[b].to \in DOMAIN c
      BY <1>1, <2>2, <3>2 DEF Opens
    <3> QED BY <1>3, <1>5, <3>1, <3>2, <3>3
  <2> QED BY <1>2, <2>1, <2>2
<1>8. EndsMatch(d)
  BY <1>6, <1>7 DEF EndsMatch
<1>9. ASSUME NEW x \in DOMAIN d, NEW y \in DOMAIN d, Opens(d, x), Opens(d, y), x < y, y < d[x].to
      PROVE  d[y].to # 0 /\ d[y].to < d[x].to
  <2>1. x \in Nat /\ y \in Nat /\ x \in DOMAIN c
    <3>1. x \in Nat /\ y \in Nat /\ y <= here
      BY DEF Ends
    <3> QED BY <1>2, <1>9, <3>1
  <2>2. CASE x = a
    <3>1. y \in DOMAIN c /\ y # a
      BY <1>2, <1>4, <1>9, <2>1, <2>2
    <3>2. d[y] = c[y] /\ Opens(c, y) /\ c[y].to # 0
      BY <1>1, <1>3, <1>5, <1>9, <2>1, <2>2, <3>1
    <3>3. c[y].to \in DOMAIN c
      BY <3>1, <3>2 DEF EndsMatch
    <3> QED BY <1>1, <1>4, <2>2, <3>2, <3>3
  <2>3. CASE x # a
    <3>1. d[x] = c[x] /\ Opens(c, x)
      BY <1>3, <1>5, <1>9, <2>1, <2>3
    <3>2. c[x].to # 0
      <4> SUFFICES ASSUME c[x].to = 0 PROVE FALSE
        OBVIOUS
      <4> QED BY <1>9, <2>1, <3>1
    <3>3. c[x].to \in DOMAIN c
      BY <2>1, <3>1, <3>2 DEF EndsMatch
    <3>4. y \in DOMAIN c /\ Opens(c, y)
      <4>1. y \in DOMAIN c
        BY <1>1, <1>2, <1>9, <2>1, <3>1, <3>3
      <4> QED BY <1>5, <1>9, <4>1
    <3>5. c[y].to # 0 /\ c[y].to < c[x].to
      BY <1>9, <2>1, <3>1, <3>4 DEF Nested
    <3>6. y # a
      BY <3>5
    <3> QED BY <1>3, <3>1, <3>4, <3>5, <3>6
  <2> QED BY <2>2, <2>3
<1> QED BY <1>8, <1>9 DEF Nested

\* What level k of the stack says of the program
LevelFits(c, level) ==
  /\ Opens(c, level.at)
  /\ c[level.at].to = 0 /\ c[level.at].op = level.op /\ c[level.at].name = level.name
  /\ level.op \in {"task", "block"} => level.name \in Bodies

\* The level that a statement opens
Opened(c, level, stmt) ==
  /\ stmt.op \in Opening /\ stmt.to = 0
  /\ level.at = Len(c) + 1 /\ level.op = stmt.op /\ level.name = stmt.name
  /\ level.op \in {"task", "block"} => level.name \in Bodies

\* Levels that stay, and at most a new one on top.
StackOf(c, d, n, m, stmt) ==
  /\ \A k \in DOMAIN m :
       \/ k \in DOMAIN n /\ m[k] = n[k] /\ d[n[k].at] = c[n[k].at]
       \/ k = Len(m) /\ Opened(c, m[k], stmt)
  /\ \A k \in DOMAIN n : d[n[k].at].to = 0 => k \in DOMAIN m /\ m[k] = n[k]
  /\ stmt.op \in Opening => Len(m) \in DOMAIN m /\ m[Len(m)].at = Len(c) + 1

\* Levels that follow the program stay what they are.
LEMMA StackKeeps ==
  ASSUME NEW c, NEW d, NEW n \in Seq(Levels), NEW m \in Seq(Levels), NEW stmt,
         Grows(c, d), d[Len(c) + 1] = stmt, OnStack(c, n), StackOf(c, d, n, m, stmt)
  PROVE  OnStack(d, m)
<1> DEFINE here == Len(c) + 1
<1>1. /\ here \in DOMAIN d /\ here \in Nat /\ \A b \in DOMAIN d : b \in DOMAIN c \/ b = here
      /\ \A q \in DOMAIN c : q \in DOMAIN d /\ q \in Nat /\ q < here /\ d[q].op = c[q].op
      /\ \A q \in DOMAIN c : c[q].to # 0 => d[q].to = c[q].to
  BY DEF Grows
<1>2. \A k \in DOMAIN n : LevelFits(c, n[k])
  BY DEF OnStack, LevelFits
<1>3. ASSUME NEW k \in DOMAIN m PROVE LevelFits(d, m[k])
  <2>1. CASE k \in DOMAIN n /\ m[k] = n[k] /\ d[n[k].at] = c[n[k].at]
    BY <1>1, <1>2, <2>1 DEF LevelFits, Opens
  <2>2. CASE k = Len(m) /\ Opened(c, m[k], stmt)
    BY <1>1, <2>2 DEF LevelFits, Opens, Opened
  <2> QED BY <2>1, <2>2 DEF StackOf
<1>4. ASSUME NEW k \in DOMAIN m, NEW l \in DOMAIN m, k < l PROVE m[k].at < m[l].at
  <2>1. k \in Nat /\ l \in Nat /\ l <= Len(m) /\ Len(m) \in Nat
    OBVIOUS
  <2>2. k # Len(m)
    BY <1>4, <2>1
  <2>3. k \in DOMAIN n /\ m[k] = n[k]
    BY <2>2 DEF StackOf
  <2>4. n[k].at \in DOMAIN c
    BY <1>2, <2>3 DEF LevelFits, Opens
  <2>5. CASE l \in DOMAIN n /\ m[l] = n[l]
    BY <1>4, <2>3, <2>5 DEF OnStack
  <2>6. CASE m[l].at = here
    BY <1>1, <2>3, <2>4, <2>6
  <2> QED BY <2>5, <2>6 DEF StackOf, Opened
<1>5. ASSUME NEW b \in DOMAIN d, Opens(d, b), d[b].to = 0 PROVE \E k \in DOMAIN m : m[k].at = b
  <2>1. CASE b = here
    BY <1>5, <2>1 DEF Opens, StackOf
  <2>2. CASE b \in DOMAIN c
    <3>1. Opens(c, b) /\ c[b].to = 0
      BY <1>1, <1>5, <2>2 DEF Opens
    <3>2. PICK k \in DOMAIN n : n[k].at = b
      BY <2>2, <3>1 DEF OnStack
    <3>3. k \in DOMAIN m /\ m[k] = n[k]
      BY <1>5, <3>2 DEF StackOf
    <3> QED BY <3>2, <3>3
  <2> QED BY <1>1, <2>1, <2>2
<1> QED BY <1>3, <1>4, <1>5 DEF OnStack, LevelFits

\* A statement that begins no block
LEMMA PlainBlocks ==
  ASSUME NEW c, NEW d, NEW n \in Seq(Levels), NEW stmt, Adds(c, d, stmt), BlockInv(c, n),
         stmt.to = 0, stmt.op \notin Opening, stmt.op # "end"
  PROVE  BlockInv(d, n)
<1>1. Grows(c, d) /\ d[Len(c) + 1] = stmt
  BY Growth DEF Adds
<1>2. \A k \in DOMAIN n : n[k].at \in DOMAIN c
  BY DEF BlockInv, OnStack, Opens
<1>3. StackOf(c, d, n, n, stmt)
  BY <1>2 DEF StackOf, Adds
<1>4. OnStack(d, n)
  BY <1>1, <1>3, StackKeeps DEF BlockInv
<1> QED BY <1>4, AddsKeepsBlocks DEF BlockInv

\* A statement that begins a block
LEMMA EnterBlocks ==
  ASSUME NEW c, NEW d, NEW n \in Seq(Levels), NEW level \in Levels, NEW stmt, Adds(c, d, stmt),
         BlockInv(c, n), Opened(c, level, stmt)
  PROVE  BlockInv(d, Append(n, level))
<1> DEFINE m == Append(n, level)
<1>1. Grows(c, d) /\ d[Len(c) + 1] = stmt
  BY Growth DEF Adds
<1>2. \A k \in DOMAIN n : n[k].at \in DOMAIN c
  BY DEF BlockInv, OnStack, Opens
<1>3. /\ m \in Seq(Levels) /\ Len(m) = Len(n) + 1 /\ DOMAIN m = 1 .. Len(n) + 1 /\ DOMAIN n = 1 .. Len(n)
      /\ Len(n) \in Nat /\ m[Len(n) + 1] = level /\ \A k \in DOMAIN n : m[k] = n[k]
  BY AppendFacts
<1> HIDE DEF m
<1>4. StackOf(c, d, n, m, stmt)
  <2>1. ASSUME NEW k \in DOMAIN m
        PROVE  \/ k \in DOMAIN n /\ m[k] = n[k] /\ d[n[k].at] = c[n[k].at]
               \/ k = Len(m) /\ Opened(c, m[k], stmt)
    <3>1. k \in DOMAIN n \/ k = Len(n) + 1
      BY <1>3
    <3>2. CASE k \in DOMAIN n
      BY <1>2, <1>3, <3>2 DEF Adds
    <3>3. CASE k = Len(n) + 1
      BY <1>3, <3>3
    <3> QED BY <3>1, <3>2, <3>3
  <2>2. \A k \in DOMAIN n : k \in DOMAIN m /\ m[k] = n[k]
    BY <1>3
  <2>3. Len(m) \in DOMAIN m /\ m[Len(m)].at = Len(c) + 1
    BY <1>3 DEF Opened
  <2> QED BY <2>1, <2>2, <2>3 DEF StackOf
<1>5. OnStack(d, m)
  BY <1>1, <1>3, <1>4, StackKeeps DEF BlockInv
<1>6. stmt.op # "end" /\ stmt.to = 0
  BY DEF Opened, Opening
<1> QED BY <1>5, <1>6, AddsKeepsBlocks DEF BlockInv, m

\* The top of the stack is the innermost block that is open.
LEMMA TopBlock ==
  ASSUME NEW c \in Seq(Statements), NEW n \in Seq(Levels), BlockInv(c, n), n # <<>>
  PROVE  /\ Opens(c, Last(n).at) /\ c[Last(n).at].to = 0 /\ Last(n).at \in DOMAIN c
         /\ LevelFits(c, Last(n))
         /\ \A b \in DOMAIN c : Opens(c, b) /\ c[b].to = 0 => b <= Last(n).at
<1>1. Len(n) \in DOMAIN n /\ Last(n) = n[Len(n)] /\ Len(n) \in Nat
  BY FrontFacts
<1>2. LevelFits(c, Last(n)) /\ Opens(c, Last(n).at)
  BY <1>1 DEF BlockInv, OnStack, LevelFits
<1>3. ASSUME NEW b \in DOMAIN c, Opens(c, b), c[b].to = 0 PROVE b <= Last(n).at
  <2>1. PICK k \in DOMAIN n : n[k].at = b
    BY <1>3 DEF BlockInv, OnStack
  <2>2. k \in Nat /\ (k < Len(n) \/ k = Len(n))
    BY <1>1
  <2>3. k < Len(n) => n[k].at < n[Len(n)].at
    BY <1>1 DEF BlockInv, OnStack
  <2>4. Last(n).at \in Nat /\ b \in Nat
    BY <1>2, Places DEF Opens
  <2> QED BY <1>1, <2>1, <2>2, <2>3, <2>4
<1> QED BY <1>2, <1>3 DEF LevelFits, Opens

\* The innermost block ends, and the stack loses its top.
LEMMA LeaveBlocks ==
  ASSUME NEW c, NEW d, NEW n \in Seq(Levels), NEW stmt, n # <<>>, BlockInv(c, n),
         Ends(c, d, Last(n).at, stmt), stmt.op = "end", stmt.to = Last(n).at
  PROVE  BlockInv(d, Front(n)) /\ Grows(c, d)
<1> DEFINE a == Last(n).at
           m == Front(n)
<1>1. c \in Seq(Statements)
  BY DEF Ends
<1>2. /\ Opens(c, a) /\ c[a].to = 0 /\ a \in DOMAIN c
      /\ \A b \in DOMAIN c : Opens(c, b) /\ c[b].to = 0 => b <= a
  BY <1>1, TopBlock
<1>3. Grows(c, d) /\ d[Len(c) + 1] = stmt
  BY <1>2, Growth DEF Ends
<1>4. /\ m \in Seq(Levels) /\ Len(m) = Len(n) - 1 /\ DOMAIN m = 1 .. Len(n) - 1 /\ DOMAIN n = 1 .. Len(n)
      /\ Len(n) \in Nat \ {0} /\ \A k \in 1 .. Len(n) - 1 : k \in DOMAIN n /\ k # Len(n) /\ m[k] = n[k]
      /\ a = n[Len(n)].at /\ Len(n) \in DOMAIN n
  BY FrontFacts
<1>5. \A k \in DOMAIN m : n[k].at \in DOMAIN c /\ n[k].at # a
  <2> SUFFICES ASSUME NEW k \in DOMAIN m PROVE n[k].at \in DOMAIN c /\ n[k].at # a
    OBVIOUS
  <2>1. k \in DOMAIN n /\ k < Len(n)
    BY <1>4
  <2>2. n[k].at < a /\ n[k].at \in DOMAIN c
    BY <1>4, <2>1 DEF BlockInv, OnStack, Opens
  <2>3. n[k].at \in Nat /\ a \in Nat
    BY <1>1, <1>2, <2>2, Places
  <2> QED BY <2>2, <2>3
<1>6. d[a].to # 0
  BY DEF Ends
<1> HIDE DEF m, a
<1>7. StackOf(c, d, n, m, stmt)
  <2>1. \A k \in DOMAIN m : k \in DOMAIN n /\ m[k] = n[k] /\ d[n[k].at] = c[n[k].at]
    BY <1>4, <1>5 DEF Ends, a
  <2>2. ASSUME NEW k \in DOMAIN n, d[n[k].at].to = 0 PROVE k \in DOMAIN m /\ m[k] = n[k]
    <3>1. k # Len(n)
      BY <1>4, <1>6, <2>2
    <3> QED BY <1>4, <3>1
  <2>3. stmt.op \notin Opening
    BY DEF Opening
  <2> QED BY <2>1, <2>2, <2>3 DEF StackOf
<1>8. OnStack(d, m)
  BY <1>3, <1>4, <1>7, StackKeeps DEF BlockInv
<1>9. EndsMatch(d) /\ Nested(d)
  BY <1>2, EndsKeepsBlocks DEF BlockInv, a
<1> QED BY <1>3, <1>8, <1>9 DEF BlockInv, m

\* The first branch ends where the second begins.
LEMMA ElseBlocks ==
  ASSUME NEW c, NEW d, NEW n \in Seq(Levels), NEW stmt, NEW level \in Levels, n # <<>>, BlockInv(c, n),
         Ends(c, d, Last(n).at, stmt), stmt.op = "else", Opened(c, level, stmt), Last(n).op = "if"
  PROVE  BlockInv(d, Append(Front(n), level)) /\ Grows(c, d)
<1> DEFINE a == Last(n).at
           f == Front(n)
           m == Append(f, level)
<1>1. c \in Seq(Statements)
  BY DEF Ends
<1>2. /\ Opens(c, a) /\ c[a].to = 0 /\ a \in DOMAIN c /\ c[a].op = "if"
      /\ \A b \in DOMAIN c : Opens(c, b) /\ c[b].to = 0 => b <= a
  BY <1>1, TopBlock DEF LevelFits
<1>3. Grows(c, d) /\ d[Len(c) + 1] = stmt
  BY <1>2, Growth DEF Ends
<1>4. /\ f \in Seq(Levels) /\ Len(f) = Len(n) - 1 /\ DOMAIN f = 1 .. Len(n) - 1 /\ DOMAIN n = 1 .. Len(n)
      /\ Len(n) \in Nat \ {0} /\ \A k \in 1 .. Len(n) - 1 : k \in DOMAIN n /\ k # Len(n) /\ f[k] = n[k]
      /\ a = n[Len(n)].at /\ Len(n) \in DOMAIN n
  BY FrontFacts
<1>5. \A k \in DOMAIN f : n[k].at \in DOMAIN c /\ n[k].at # a
  <2> SUFFICES ASSUME NEW k \in DOMAIN f PROVE n[k].at \in DOMAIN c /\ n[k].at # a
    OBVIOUS
  <2>1. k \in DOMAIN n /\ k < Len(n)
    BY <1>4
  <2>2. n[k].at < a /\ n[k].at \in DOMAIN c
    BY <1>4, <2>1 DEF BlockInv, OnStack, Opens
  <2>3. n[k].at \in Nat /\ a \in Nat
    BY <1>1, <1>2, <2>2, Places
  <2> QED BY <2>2, <2>3
<1>6. d[a].to # 0
  BY DEF Ends
<1> HIDE DEF f, a
<1>7. /\ m \in Seq(Levels) /\ Len(m) = Len(f) + 1 /\ DOMAIN m = 1 .. Len(f) + 1 /\ DOMAIN f = 1 .. Len(f)
      /\ Len(f) \in Nat /\ m[Len(f) + 1] = level /\ \A k \in DOMAIN f : m[k] = f[k]
  BY <1>4, AppendFacts
<1> HIDE DEF m
<1>8. StackOf(c, d, n, m, stmt)
  <2>1. ASSUME NEW k \in DOMAIN m
        PROVE  \/ k \in DOMAIN n /\ m[k] = n[k] /\ d[n[k].at] = c[n[k].at]
               \/ k = Len(m) /\ Opened(c, m[k], stmt)
    <3>1. k \in DOMAIN f \/ k = Len(f) + 1
      BY <1>7
    <3>2. CASE k \in DOMAIN f
      BY <1>4, <1>5, <1>7, <3>2 DEF Ends, a
    <3>3. CASE k = Len(f) + 1
      BY <1>7, <3>3
    <3> QED BY <3>1, <3>2, <3>3
  <2>2. ASSUME NEW k \in DOMAIN n, d[n[k].at].to = 0 PROVE k \in DOMAIN m /\ m[k] = n[k]
    <3>1. k # Len(n)
      BY <1>4, <1>6, <2>2
    <3>2. k \in DOMAIN f
      BY <1>4, <3>1
    <3> QED BY <1>4, <1>7, <3>2
  <2>3. Len(m) \in DOMAIN m /\ m[Len(m)].at = Len(c) + 1
    BY <1>7 DEF Opened
  <2> QED BY <2>1, <2>2, <2>3 DEF StackOf
<1>9. OnStack(d, m)
  BY <1>3, <1>7, <1>8, StackKeeps DEF BlockInv
<1>10. stmt.to = 0
  BY DEF Opened
<1>11. EndsMatch(d) /\ Nested(d)
  BY <1>2, <1>10, EndsKeepsBlocks DEF BlockInv, a
<1> QED BY <1>3, <1>9, <1>11 DEF BlockInv, m, f

-----------------------------------------------------------------------------
(* What is known stays true as the program grows.                          *)

\* A task that has ended has ended.
LEMMA EndedStays ==
  ASSUME NEW c, NEW d, Grows(c, d), NEW q \in DOMAIN c, NEW p \in Nat, NEW r \in Nat, p <= r,
         InTaskBefore(c, q, p)
  PROVE  InTaskBefore(d, q, r)
<1>1. PICK t \in DOMAIN c : IsTask(c, t) /\ t < q /\ q < c[t].to /\ c[t].to < p
  BY DEF InTaskBefore
<1>2. c \in Seq(Statements) /\ q \in Nat \ {0} /\ c[t].to \in Nat
  BY Places DEF Grows
<1>3. c[t].to # 0
  BY <1>1, <1>2
<1>4. t \in DOMAIN d /\ d[t].op = c[t].op /\ d[t].to = c[t].to
  BY <1>3 DEF Grows
<1>5. c[t].to < r
  BY <1>1, <1>2
<1> QED BY <1>1, <1>4, <1>5 DEF InTaskBefore, IsTask

\* The new statement destroys nothing that s knows to be there.
Spares(s, stmt) ==
  stmt.op = "destroy" => \A n \in Names \ s.consumed : s.slot[n] # 0 => stmt.slot # s.slot[n]

\* What was known before a statement
LEMMA KnowsGrows ==
  ASSUME NEW c, NEW d, Grows(c, d), NEW s \in Knowledge, NEW p \in Nat, p <= Len(c) + 1,
         Knows(c, s, p), Spares(s, d[Len(c) + 1])
  PROVE  Knows(d, s, p)
<1> DEFINE here == Len(c) + 1
<1>1. /\ here \in Nat /\ \A b \in DOMAIN d : b \in DOMAIN c \/ b = here
      /\ \A q \in DOMAIN c : q \in DOMAIN d /\ q \in Nat /\ q < here
      /\ \A q \in DOMAIN c : d[q].op = c[q].op /\ d[q].name = c[q].name /\ d[q].slot = c[q].slot
  BY DEF Grows
<1>2. SlotsKnown(d, s, p)
  BY <1>1 DEF Knows, SlotsKnown
<1>3. DestroyedKnown(d, s)
  <2> SUFFICES ASSUME NEW n \in Names \ s.consumed, NEW q \in DOMAIN d,
                      s.slot[n] # 0, d[q].op = "destroy"
               PROVE  d[q].slot # s.slot[n]
    BY DEF DestroyedKnown
  <2>1. CASE q = here
    BY <2>1 DEF Spares
  <2>2. CASE q \in DOMAIN c
    BY <1>1, <2>2 DEF Knows, DestroyedKnown
  <2> QED BY <1>1, <2>1, <2>2
<1>4. PullsKnown(d, s, p)
  <2> SUFFICES ASSUME NEW q \in DOMAIN d, q < p, d[q].op = "pull"
               PROVE  d[q].name \in s.pulled \/ InTaskBefore(d, q, p)
    BY DEF PullsKnown
  <2>1. q \in DOMAIN c
    BY <1>1
  <2>2. c[q].name \in s.pulled \/ InTaskBefore(c, q, p)
    BY <1>1, <2>1 DEF Knows, PullsKnown
  <2>3. p <= p
    OBVIOUS
  <2>4. CASE InTaskBefore(c, q, p)
    BY <2>1, <2>3, <2>4, EndedStays
  <2> QED BY <1>1, <2>1, <2>2, <2>4
<1> QED BY <1>2, <1>3, <1>4 DEF Knows

\* More is known after a statement.
Learns(c, s, t, stmt) ==
  /\ \A n \in Names :
       \/ t.slot[n] = s.slot[n]
       \/ t.slot[n] = Len(c) + 1 /\ stmt.name = n /\ stmt.op = Binder(n) /\ n \in t.owned
  /\ s.owned \subseteq t.owned /\ s.consumed \subseteq t.consumed /\ s.pulled \subseteq t.pulled
  /\ stmt.op = "pull" => stmt.name \in t.pulled

\* What is known after it
LEMMA KnowsNext ==
  ASSUME NEW c, NEW d, Grows(c, d), NEW s \in Knowledge, NEW t \in Knowledge,
         Knows(c, s, Len(c) + 1), Learns(c, s, t, d[Len(c) + 1]), RefersWell(d),
         d[Len(c) + 1].op = "destroy" =>
           \A n \in Names \ t.consumed : s.slot[n] # 0 => d[Len(c) + 1].slot # s.slot[n]
  PROVE  Knows(d, t, Len(d) + 1)
<1> DEFINE here == Len(c) + 1
<1>1. /\ here \in Nat /\ here # 0 /\ here \in DOMAIN d /\ \A b \in DOMAIN d : b \in DOMAIN c \/ b = here
      /\ Len(d) + 1 \in Nat /\ here < Len(d) + 1 /\ here <= Len(d) + 1
      /\ \A q \in DOMAIN c : q \in DOMAIN d /\ q \in Nat /\ q < here /\ q < Len(d) + 1
      /\ \A q \in DOMAIN c : d[q].op = c[q].op /\ d[q].name = c[q].name /\ d[q].slot = c[q].slot
  BY DEF Grows
<1>2. SlotsKnown(d, t, Len(d) + 1)
  <2> SUFFICES ASSUME NEW n \in Names, t.slot[n] # 0
               PROVE  /\ t.slot[n] \in DOMAIN d /\ t.slot[n] < Len(d) + 1
                      /\ d[t.slot[n]].name = n /\ d[t.slot[n]].op = Binder(n)
                      /\ n \in t.owned
    BY DEF SlotsKnown
  <2>1. CASE t.slot[n] = s.slot[n]
    <3>1. /\ s.slot[n] \in DOMAIN c
          /\ c[s.slot[n]].name = n /\ c[s.slot[n]].op = Binder(n) /\ n \in s.owned
      BY <2>1 DEF Knows, SlotsKnown
    <3> QED BY <1>1, <2>1, <3>1 DEF Learns
  <2>2. CASE t.slot[n] = here /\ d[here].name = n /\ d[here].op = Binder(n) /\ n \in t.owned
    BY <1>1, <2>2
  <2> QED BY <2>1, <2>2 DEF Learns
<1>3. DestroyedKnown(d, t)
  <2> SUFFICES ASSUME NEW n \in Names \ t.consumed, NEW q \in DOMAIN d,
                      t.slot[n] # 0, d[q].op = "destroy"
               PROVE  d[q].slot # t.slot[n]
    BY DEF DestroyedKnown
  <2>1. CASE t.slot[n] = here
    <3>1. d[q].slot # here
      BY <1>1 DEF RefersWell
    <3> QED BY <2>1, <3>1
  <2>2. CASE t.slot[n] = s.slot[n]
    <3>1. n \in Names \ s.consumed /\ s.slot[n] # 0
      BY <2>2 DEF Learns
    <3>2. CASE q = here
      BY <2>2, <3>1, <3>2
    <3>3. CASE q \in DOMAIN c
      BY <1>1, <2>2, <3>1, <3>3 DEF Knows, DestroyedKnown
    <3> QED BY <1>1, <3>2, <3>3
  <2> QED BY <2>1, <2>2 DEF Learns
<1>4. PullsKnown(d, t, Len(d) + 1)
  <2> SUFFICES ASSUME NEW q \in DOMAIN d, d[q].op = "pull"
               PROVE  d[q].name \in t.pulled \/ InTaskBefore(d, q, Len(d) + 1)
    BY DEF PullsKnown
  <2>1. CASE q = here
    BY <2>1 DEF Learns
  <2>2. CASE q \in DOMAIN c
    <3>1. c[q].name \in s.pulled \/ InTaskBefore(c, q, here)
      BY <1>1, <2>2 DEF Knows, PullsKnown
    <3>2. CASE InTaskBefore(c, q, here)
      BY <1>1, <2>2, <3>2, EndedStays
    <3> QED BY <1>1, <2>2, <3>1, <3>2 DEF Learns
  <2> QED BY <1>1, <2>1, <2>2
<1> QED BY <1>2, <1>3, <1>4 DEF Knows

\* After a task, what was known before it, and the task
LEMMA KnowsTask ==
  ASSUME NEW c, NEW d, NEW a, NEW stmt, Ends(c, d, a, stmt), Grows(c, d),
         NEW s \in Knowledge, NEW n \in Bodies, Knows(c, s, a), RefersWell(d),
         c[a].op = "task", c[a].name = n, stmt.op = "end"
  PROVE  Knows(d, [s EXCEPT !.bound = @ \cup {n}, !.owned = @ \cup {n}, !.slot[n] = a], Len(d) + 1)
<1> DEFINE here == Len(c) + 1
           t == [s EXCEPT !.bound = @ \cup {n}, !.owned = @ \cup {n}, !.slot[n] = a]
<1>1. n \in Names /\ n \notin Resources
  BY ResourceAssumption DEF Names
<1>2. /\ t.slot[n] = a /\ \A m \in Names : m # n => t.slot[m] = s.slot[m]
      /\ n \in t.owned /\ s.owned \subseteq t.owned /\ t.consumed = s.consumed /\ t.pulled = s.pulled
  BY <1>1 DEF Knowledge
<1> HIDE DEF t
<1>3. /\ here \in Nat /\ here # 0 /\ here \in DOMAIN d /\ d[here] = stmt
      /\ \A b \in DOMAIN d : b \in DOMAIN c \/ b = here
      /\ Len(d) + 1 \in Nat /\ here < Len(d) + 1
      /\ \A q \in DOMAIN c : q \in DOMAIN d /\ q \in Nat /\ q < here /\ q < Len(d) + 1 /\ q <= Len(d) + 1
      /\ \A q \in DOMAIN c : d[q].op = c[q].op /\ d[q].name = c[q].name /\ d[q].slot = c[q].slot
      /\ a \in DOMAIN c /\ a \in Nat /\ d[a].to = here
  BY DEF Ends, Grows
<1>4. SlotsKnown(d, t, Len(d) + 1)
  <2> SUFFICES ASSUME NEW m \in Names, t.slot[m] # 0
               PROVE  /\ t.slot[m] \in DOMAIN d /\ t.slot[m] < Len(d) + 1
                      /\ d[t.slot[m]].name = m /\ d[t.slot[m]].op = Binder(m)
                      /\ m \in t.owned
    BY DEF SlotsKnown
  <2>1. CASE m = n
    BY <1>1, <1>2, <1>3, <2>1 DEF Binder
  <2>2. CASE m # n
    <3>1. /\ s.slot[m] \in DOMAIN c /\ c[s.slot[m]].name = m
          /\ c[s.slot[m]].op = Binder(m) /\ m \in s.owned
      BY <1>2, <2>2 DEF Knows, SlotsKnown
    <3> QED BY <1>2, <1>3, <2>2, <3>1
  <2> QED BY <2>1, <2>2
<1>5. DestroyedKnown(d, t)
  <2> SUFFICES ASSUME NEW m \in Names \ t.consumed, NEW q \in DOMAIN d,
                      t.slot[m] # 0, d[q].op = "destroy"
               PROVE  d[q].slot # t.slot[m]
    BY DEF DestroyedKnown
  <2>1. q \in DOMAIN c /\ c[q].op = "destroy" /\ d[q].slot = c[q].slot
    BY <1>3
  <2>2. CASE m = n
    <3>1. d[q].slot # 0 => d[d[q].slot].op = "open"
      BY DEF RefersWell
    <3>2. d[a].op = "task"
      BY <1>3
    <3> QED BY <1>2, <2>2, <3>1, <3>2
  <2>3. CASE m # n
    BY <1>2, <2>1, <2>3 DEF Knows, DestroyedKnown
  <2> QED BY <2>2, <2>3
<1>6. PullsKnown(d, t, Len(d) + 1)
  <2> SUFFICES ASSUME NEW q \in DOMAIN d, d[q].op = "pull"
               PROVE  d[q].name \in t.pulled \/ InTaskBefore(d, q, Len(d) + 1)
    BY DEF PullsKnown
  <2>1. q \in DOMAIN c /\ c[q].op = "pull" /\ c[q].name = d[q].name /\ q # a /\ q \in Nat /\ q < here
    BY <1>3
  <2>2. CASE a < q
    <3>1. a \in DOMAIN d /\ IsTask(d, a)
      BY <1>3 DEF IsTask
    <3> QED BY <1>3, <2>1, <2>2, <3>1 DEF InTaskBefore
  <2>3. CASE q < a
    <3>1. c[q].name \in s.pulled \/ InTaskBefore(c, q, a)
      BY <2>1, <2>3 DEF Knows, PullsKnown
    <3>2. CASE InTaskBefore(c, q, a)
      BY <1>3, <2>1, <3>2, EndedStays
    <3> QED BY <1>2, <2>1, <3>1, <3>2
  <2> QED BY <1>3, <2>1, <2>2, <2>3
<1> QED BY <1>4, <1>5, <1>6 DEF Knows, t

\* The tasks that are open in m are those of n, at the same levels.
SameTasks(n, m) == \A k \in DOMAIN m : m[k].op = "task" => k \in DOMAIN n /\ m[k] = n[k]

\* The levels' knowledge stays true, too.
LEMMA SavedStays ==
  ASSUME NEW c, NEW d, Grows(c, d), NEW n \in Seq(Levels), NEW m \in Seq(Levels), SameTasks(n, m),
         OnStack(c, n), SavedKnown(c, n),
         \A k \in DOMAIN n : n[k].op = "task" => Spares(n[k].saved, d[Len(c) + 1])
  PROVE  SavedKnown(d, m)
<1> SUFFICES ASSUME NEW k \in DOMAIN m, m[k].op = "task"
             PROVE  Knows(d, m[k].saved, m[k].at)
  BY DEF SavedKnown
<1>1. k \in DOMAIN n /\ m[k] = n[k]
  BY DEF SameTasks
<1>2. n[k] \in Levels
  BY <1>1
<1>3. n[k].saved \in Knowledge /\ n[k].at \in Nat
  BY <1>2 DEF Levels
<1>4. n[k].at <= Len(c) + 1
  BY <1>1 DEF OnStack, Opens, Grows
<1>5. Knows(c, n[k].saved, n[k].at) /\ Spares(n[k].saved, d[Len(c) + 1])
  BY <1>1 DEF SavedKnown
<1>6. Knows(d, n[k].saved, n[k].at)
  BY <1>3, <1>4, <1>5, KnowsGrows
<1> QED BY <1>1, <1>6

\* So does what the tasks may not destroy.
LEMMA OuterStays ==
  ASSUME NEW n, NEW m, SameTasks(n, m), NEW s, NEW t, OuterKept(s, n),
         s.owned \subseteq t.owned, s.outer \subseteq t.outer
  PROVE  OuterKept(t, m)
<1>1. ASSUME NEW k \in DOMAIN m, m[k].op = "task"
      PROVE  m[k].saved.owned \subseteq t.owned \cap t.outer
  BY <1>1 DEF SameTasks, OuterKept
<1>2. ASSUME NEW k \in DOMAIN m, NEW l \in DOMAIN m, k < l, m[k].op = "task", m[l].op = "task"
      PROVE  m[k].saved.owned \subseteq m[l].saved.owned \cap m[l].saved.outer
  BY <1>2 DEF SameTasks, OuterKept
<1> QED BY <1>1, <1>2 DEF OuterKept

\* A statement may follow the program.
Follows(c, stmt) ==
  /\ stmt.slot # 0 =>
       /\ stmt.slot \in DOMAIN c /\ c[stmt.slot].name = stmt.name
       /\ c[stmt.slot].op = IF stmt.op = "pull" THEN "task" ELSE "open"
  /\ \A q \in DOMAIN c :
       /\ c[q].op = "destroy" /\ stmt.op \in Accesses /\ c[q].slot = stmt.slot => stmt.slot = 0
       /\ c[q].op = "pull" /\ stmt.op = "pull" /\ c[q].name = stmt.name => InTaskBefore(c, q, Len(c) + 1)

\* Then the program stays well-formed.
LEMMA CodeKeeps ==
  ASSUME NEW c, NEW d, Grows(c, d), CodeInv(c), Follows(c, d[Len(c) + 1])
  PROVE  CodeInv(d)
<1> DEFINE here == Len(c) + 1
<1>1. /\ here \in Nat /\ here # 0 /\ here \in DOMAIN d /\ \A b \in DOMAIN d : b \in DOMAIN c \/ b = here
      /\ \A q \in DOMAIN c : q \in DOMAIN d /\ q \in Nat /\ q < here /\ q <= here
      /\ \A q \in DOMAIN c : d[q].op = c[q].op /\ d[q].name = c[q].name /\ d[q].slot = c[q].slot
  BY DEF Grows
<1>2. RefersWell(d)
  <2> SUFFICES ASSUME NEW p \in DOMAIN d, d[p].slot # 0
               PROVE  /\ d[p].slot \in DOMAIN d /\ d[p].slot < p
                      /\ d[d[p].slot].name = d[p].name
                      /\ d[d[p].slot].op = IF d[p].op = "pull" THEN "task" ELSE "open"
    BY DEF RefersWell
  <2>1. CASE p = here
    <3>1. /\ d[p].slot \in DOMAIN c /\ c[d[p].slot].name = d[p].name
          /\ c[d[p].slot].op = IF d[p].op = "pull" THEN "task" ELSE "open"
      BY <2>1 DEF Follows
    <3> QED BY <1>1, <2>1, <3>1
  <2>2. CASE p \in DOMAIN c
    <3>1. d[p].op = c[p].op /\ d[p].name = c[p].name /\ d[p].slot = c[p].slot
      BY <1>1, <2>2
    <3>2. /\ c[p].slot \in DOMAIN c /\ c[p].slot < p
          /\ c[c[p].slot].name = c[p].name
          /\ c[c[p].slot].op = IF c[p].op = "pull" THEN "task" ELSE "open"
      BY <2>2, <3>1 DEF CodeInv, RefersWell
    <3> QED BY <1>1, <3>1, <3>2
  <2> QED BY <1>1, <2>1, <2>2
<1>3. DestroyedOnce(d)
  <2> SUFFICES ASSUME NEW p \in DOMAIN d, NEW q \in DOMAIN d, q < p, d[q].op = "destroy",
                      d[p].op \in Accesses, d[q].slot = d[p].slot
               PROVE  d[p].slot = 0
    BY DEF DestroyedOnce
  <2>1. q \in DOMAIN c
    <3>1. p \in Nat /\ q \in Nat /\ p <= here
      BY <1>1
    <3> QED BY <1>1, <3>1
  <2>2. CASE p = here
    BY <1>1, <2>1, <2>2 DEF Follows
  <2>3. CASE p \in DOMAIN c
    BY <1>1, <2>1, <2>3 DEF CodeInv, DestroyedOnce
  <2> QED BY <1>1, <2>2, <2>3
<1>4. PulledOnce(d)
  <2> SUFFICES ASSUME NEW p \in DOMAIN d, NEW q \in DOMAIN d, q < p, d[q].op = "pull",
                      d[p].op = "pull", d[q].name = d[p].name
               PROVE  InTaskBefore(d, q, p)
    BY DEF PulledOnce
  <2>1. p \in Nat /\ q \in Nat /\ p <= here /\ p <= p
    BY <1>1
  <2>2. q \in DOMAIN c
    BY <1>1, <2>1
  <2>3. InTaskBefore(c, q, p)
    <3>1. CASE p = here
      BY <1>1, <2>2, <3>1 DEF Follows
    <3>2. CASE p \in DOMAIN c
      BY <1>1, <2>2, <3>2 DEF CodeInv, PulledOnce
    <3> QED BY <1>1, <3>1, <3>2
  <2> QED BY <2>1, <2>2, <2>3, EndedStays
<1> QED BY <1>2, <1>3, <1>4 DEF CodeInv

\* A statement about a name that is not used up may follow.
LEMMA UseFollows ==
  ASSUME NEW c \in Seq(Statements), NEW s \in Knowledge, Knows(c, s, Len(c) + 1), NEW stmt,
         \/ /\ stmt.op \in Accesses /\ stmt.name \in Resources /\ stmt.name \notin s.consumed
         \/ /\ stmt.op = "pull" /\ stmt.name \in Bodies /\ stmt.name \notin s.pulled,
         stmt.slot = s.slot[stmt.name]
  PROVE  Follows(c, stmt)
<1>1. stmt.name \in Names
  BY DEF Names
<1>2. stmt.op \in Accesses => stmt.op # "pull" /\ Binder(stmt.name) = "open"
  BY ResourceAssumption DEF Accesses, Binder
<1>3. stmt.op = "pull" => stmt.op \notin Accesses /\ Binder(stmt.name) = "task"
  BY ResourceAssumption DEF Accesses, Binder
<1>4. stmt.slot # 0 => /\ stmt.slot \in DOMAIN c /\ c[stmt.slot].name = stmt.name
                       /\ c[stmt.slot].op = IF stmt.op = "pull" THEN "task" ELSE "open"
  BY <1>1, <1>2, <1>3 DEF Knows, SlotsKnown
<1>5. ASSUME NEW q \in DOMAIN c, c[q].op = "destroy", stmt.op \in Accesses, c[q].slot = stmt.slot
      PROVE  stmt.slot = 0
  BY <1>1, <1>2, <1>5 DEF Knows, DestroyedKnown
<1>6. ASSUME NEW q \in DOMAIN c, c[q].op = "pull", stmt.op = "pull", c[q].name = stmt.name
      PROVE  InTaskBefore(c, q, Len(c) + 1)
  <2>1. q < Len(c) + 1
    OBVIOUS
  <2> QED BY <1>3, <1>6, <2>1 DEF Knows, PullsKnown
<1> QED BY <1>4, <1>5, <1>6 DEF Follows

\* A statement about no name may always follow.
LEMMA PlainFollows ==
  ASSUME NEW c, NEW stmt, stmt.slot = 0, stmt.op # "pull"
  PROVE  Follows(c, stmt)
BY DEF Follows

-----------------------------------------------------------------------------
(* Each visit keeps CheckInv.                                              *)

\* The statement stmt is added, and nothing of the stack is lost but the top.
Visited(stmt) ==
  /\ Grows(code, code') /\ code'[Len(code) + 1] = stmt
  /\ BlockInv(code', nest')
  /\ SameTasks(nest, nest')
  /\ Follows(code, stmt)
  /\ Learns(code, sema, sema', stmt)
  /\ sema.outer \subseteq sema'.outer

\* A visit inside a body, which destroys nothing
LEMMA VisitKeeps ==
  ASSUME ResourceTypeOK, ResourceTypeOK', CheckInv, NEW stmt, Visited(stmt), stmt.op # "destroy"
  PROVE  CheckInv'
<1>1. sema \in Knowledge /\ sema' \in Knowledge /\ nest \in Seq(Levels) /\ nest' \in Seq(Levels)
  BY DEF ResourceTypeOK
<1>2. CodeInv(code')
  BY CodeKeeps DEF CheckInv, Visited
<1>3. Knows(code', sema', Len(code') + 1)
  BY <1>1, <1>2, KnowsNext DEF CheckInv, KnowledgeInv, Visited, CodeInv
<1>4. \A k \in DOMAIN nest : Spares(nest[k].saved, stmt)
  BY DEF Spares
<1>5. SavedKnown(code', nest')
  BY <1>1, <1>4, SavedStays DEF CheckInv, KnowledgeInv, BlockInv, Visited
<1>6. OuterKept(sema', nest')
  BY OuterStays DEF CheckInv, KnowledgeInv, Visited, Learns
<1> QED BY <1>2, <1>3, <1>5, <1>6 DEF CheckInv, KnowledgeInv, Visited

\* A destruction: the name is not owned by what is outside the task.
LEMMA DestroyKeeps ==
  ASSUME ResourceTypeOK, ResourceTypeOK', CheckInv, NEW f \in Resources,
         NEW stmt, Visited(stmt), stmt.op = "destroy", stmt.slot = sema.slot[f],
         f \notin sema.outer, f \in sema'.consumed
  PROVE  CheckInv'
<1>1. sema \in Knowledge /\ sema' \in Knowledge /\ nest \in Seq(Levels) /\ nest' \in Seq(Levels)
  BY DEF ResourceTypeOK
<1>2. CodeInv(code')
  BY CodeKeeps DEF CheckInv, Visited
<1>3. f \in Names
  BY DEF Names
<1>4. ASSUME NEW n \in Names, sema.slot[n] # 0, stmt.slot = sema.slot[n] PROVE n = f
  <2>1. code[sema.slot[n]].name = n
    BY <1>4 DEF CheckInv, KnowledgeInv, Knows, SlotsKnown
  <2>2. code[sema.slot[f]].name = f
    BY <1>3, <1>4 DEF CheckInv, KnowledgeInv, Knows, SlotsKnown
  <2> QED BY <1>4, <2>1, <2>2
<1>5. Knows(code', sema', Len(code') + 1)
  <2>1. \A n \in Names \ sema'.consumed : sema.slot[n] # 0 => stmt.slot # sema.slot[n]
    BY <1>4
  <2> QED BY <1>1, <1>2, <2>1, KnowsNext DEF CheckInv, KnowledgeInv, Visited, CodeInv
<1>6. ASSUME NEW k \in DOMAIN nest, nest[k].op = "task" PROVE Spares(nest[k].saved, stmt)
  <2> SUFFICES ASSUME NEW n \in Names, nest[k].saved.slot[n] # 0, stmt.slot = nest[k].saved.slot[n]
               PROVE  FALSE
    BY DEF Spares
  <2>1. code[stmt.slot].name = n /\ n \in nest[k].saved.owned
    BY <1>6 DEF CheckInv, KnowledgeInv, SavedKnown, Knows, SlotsKnown
  <2>2. code[sema.slot[f]].name = f
    BY <1>3 DEF CheckInv, KnowledgeInv, Knows, SlotsKnown
  <2>3. nest[k].saved.owned \subseteq sema.outer
    BY <1>6 DEF CheckInv, KnowledgeInv, OuterKept
  <2> QED BY <2>1, <2>2, <2>3
<1>7. SavedKnown(code', nest')
  BY <1>1, <1>6, SavedStays DEF CheckInv, KnowledgeInv, BlockInv, Visited
<1>8. OuterKept(sema', nest')
  BY OuterStays DEF CheckInv, KnowledgeInv, Visited, Learns
<1> QED BY <1>2, <1>5, <1>7, <1>8 DEF CheckInv, KnowledgeInv, Visited

\* A simple statement is added.
LEMMA PlainVisit ==
  ASSUME ResourceTypeOK, CheckInv, NEW stmt \in Statements, code' = Append(code, stmt),
         stmt.to = 0, stmt.op \notin Opening, stmt.op # "end", UNCHANGED nest,
         Follows(code, stmt), Learns(code, sema, sema', stmt), sema.outer \subseteq sema'.outer
  PROVE  Visited(stmt)
<1>1. code \in Seq(Statements) /\ nest \in Seq(Levels)
  BY DEF ResourceTypeOK
<1>2. Adds(code, code', stmt)
  BY <1>1, AppendAdds
<1>3. Grows(code, code') /\ code'[Len(code) + 1] = stmt
  BY <1>2, Growth DEF Adds
<1>4. BlockInv(code', nest')
  BY <1>1, <1>2, PlainBlocks DEF CheckInv
<1>5. SameTasks(nest, nest')
  BY DEF SameTasks
<1> QED BY <1>3, <1>4, <1>5 DEF Visited

\* A block begins.
LEMMA EnterVisit ==
  ASSUME ResourceTypeOK, CheckInv, NEW op \in Opening, NEW name \in Labels, Enter(op, name),
         op \in {"task", "block"} => name \in Bodies
  PROVE  LET level == nest'[Len(nest) + 1]
             stmt == Stmt(op, name)
         IN  /\ Grows(code, code') /\ code'[Len(code) + 1] = stmt
             /\ stmt \in Statements /\ stmt.op = op /\ stmt.name = name /\ stmt.slot = 0
             /\ BlockInv(code', nest')
             /\ Follows(code, stmt)
             /\ nest' = Append(nest, level) /\ level \in Levels
             /\ level.op = op /\ level.at = Len(code) + 1 /\ level.saved = sema
<1> DEFINE stmt == Stmt(op, name)
<1>1. code \in Seq(Statements) /\ nest \in Seq(Levels) /\ nest' \in Seq(Levels)
  BY EnterTypes DEF ResourceTypeOK
<1>2. stmt \in Statements /\ stmt.op = op /\ stmt.name = name /\ stmt.slot = 0 /\ stmt.to = 0
  BY StatementTypes DEF Operations, Stmt
<1>3. PICK node : nest' = Append(nest, [op |-> op, name |-> name, at |-> Here, saved |-> sema, then |-> {},
                                        node |-> node])
  BY DEF Enter
<1> DEFINE level == [op |-> op, name |-> name, at |-> Here, saved |-> sema, then |-> {}, node |-> node]
<1>4. level.op = op /\ level.name = name /\ level.at = Len(code) + 1 /\ level.saved = sema
  BY DEF Here
<1> HIDE DEF level
<1>5. nest' = Append(nest, level)
  BY <1>3 DEF level
<1>6. nest'[Len(nest) + 1] = level /\ Len(nest) + 1 \in DOMAIN nest'
  BY <1>1, <1>5
<1>7. level \in Levels
  BY <1>1, <1>6
<1>8. code' = Append(code, stmt)
  BY DEF Enter
<1> HIDE DEF stmt
<1>9. Adds(code, code', stmt)
  BY <1>1, <1>2, <1>8, AppendAdds
<1>10. Opened(code, level, stmt)
  BY <1>2, <1>4 DEF Opened
<1>11. BlockInv(code', nest')
  BY <1>1, <1>5, <1>7, <1>9, <1>10, EnterBlocks DEF CheckInv
<1>12. Grows(code, code') /\ code'[Len(code) + 1] = stmt
  BY <1>9, Growth DEF Adds
<1>13. Follows(code, stmt)
  BY <1>2, PlainFollows DEF Opening
<1> QED BY <1>2, <1>4, <1>5, <1>6, <1>7, <1>11, <1>12, <1>13 DEF stmt

\* A block ends.
LEMMA LeaveVisit ==
  ASSUME ResourceTypeOK, CheckInv, NEW op \in Opening, Leave(op)
  PROVE  /\ LevelFits(code, Last(nest)) /\ Last(nest).op = op /\ Last(nest) \in Levels
         /\ \E stmt \in Statements :
              /\ stmt.op = "end" /\ stmt.slot = 0
              /\ Ends(code, code', Last(nest).at, stmt)
              /\ Grows(code, code') /\ code'[Len(code) + 1] = stmt
              /\ BlockInv(code', nest')
              /\ Follows(code, stmt)
         /\ nest' = Front(nest) /\ nest # <<>> /\ SameTasks(nest, nest')
<1>1. code \in Seq(Statements) /\ nest \in Seq(Levels) /\ nest # <<>> /\ nest' = Front(nest) /\ Last(nest).op = op
  BY DEF ResourceTypeOK, Leave
<1>2. Last(nest) \in Levels /\ \A k \in DOMAIN nest' : k \in DOMAIN nest /\ nest'[k] = nest[k]
  BY <1>1, FrontFacts
<1>3. Last(nest).at \in DOMAIN code /\ LevelFits(code, Last(nest))
  BY <1>1, TopBlock DEF CheckInv
<1> DEFINE stmt == [Stmt("end", Last(nest).name) EXCEPT !.to = Last(nest).at]
<1>4. Stmt("end", Last(nest).name) \in Statements
  <2>1. Last(nest).name \in Labels
    BY <1>2 DEF Levels
  <2> QED BY <2>1, StatementTypes DEF Operations
<1>5. stmt \in Statements /\ stmt.op = "end" /\ stmt.slot = 0 /\ stmt.to = Last(nest).at
  <2>1. Last(nest).at \in Nat
    BY <1>1, <1>3, Places
  <2>2. Stmt("end", Last(nest).name).op = "end" /\ Stmt("end", Last(nest).name).slot = 0
    BY DEF Stmt
  <2> QED BY <1>4, <2>1, <2>2 DEF Statements
<1>6. code' = Append([code EXCEPT ![Last(nest).at].to = Len(code) + 1], stmt)
  BY DEF Leave, Here
<1> HIDE DEF stmt
<1>7. Ends(code, code', Last(nest).at, stmt)
  BY <1>1, <1>3, <1>5, <1>6, CloseEnds
<1>8. BlockInv(code', nest') /\ Grows(code, code')
  BY <1>1, <1>5, <1>7, LeaveBlocks DEF CheckInv
<1>9. Follows(code, stmt)
  BY <1>5, PlainFollows
<1>10. code'[Len(code) + 1] = stmt
  BY <1>7 DEF Ends
<1>11. SameTasks(nest, nest')
  BY <1>2 DEF SameTasks
<1> QED BY <1>1, <1>2, <1>3, <1>5, <1>7, <1>8, <1>9, <1>10, <1>11

\* f := @("...") opens a file: the name stands for it.
LEMMA BindFileKeeps ==
  ASSUME ResourceTypeOK, ResourceTypeOK', CheckInv, NEW f \in Resources, BindFile(f)
  PROVE  CheckInv'
<1> DEFINE stmt == Stmt("open", f)
<1>1. f \in Names /\ f \in Labels
  BY DEF Names, Labels
<1>2. stmt \in Statements /\ stmt.op = "open" /\ stmt.name = f /\ stmt.slot = 0 /\ stmt.to = 0
  BY <1>1, StatementTypes DEF Operations, Stmt
<1>3. code' = Append(code, stmt) /\ UNCHANGED nest
  BY DEF BindFile
<1> HIDE DEF stmt
<1>4. Follows(code, stmt)
  BY <1>2, PlainFollows
<1>5. Learns(code, sema, sema', stmt) /\ sema.outer \subseteq sema'.outer
  <2>1. sema \in Knowledge
    BY DEF ResourceTypeOK
  <2>2. /\ sema'.slot = [sema.slot EXCEPT ![f] = Len(code) + 1] /\ sema'.owned = sema.owned \cup {f}
        /\ sema'.consumed = sema.consumed /\ sema'.pulled = sema.pulled /\ sema'.outer = sema.outer
    BY <2>1 DEF BindFile, Here, Knowledge
  <2>3. sema.slot \in [Names -> Nat]
    BY <2>1 DEF Knowledge
  <2>4. ASSUME NEW n \in Names
        PROVE  \/ sema'.slot[n] = sema.slot[n]
               \/ sema'.slot[n] = Len(code) + 1 /\ stmt.name = n /\ stmt.op = Binder(n) /\ n \in sema'.owned
    BY <1>1, <1>2, <2>2, <2>3 DEF Binder
  <2> QED BY <1>2, <2>2, <2>4 DEF Learns
<1>6. stmt.op \notin Opening /\ stmt.op # "end" /\ stmt.op # "destroy"
  BY <1>2 DEF Opening
<1>7. Visited(stmt)
  BY <1>2, <1>3, <1>4, <1>5, <1>6, PlainVisit
<1> QED BY <1>6, <1>7, VisitKeeps

\* Reading and writing change nothing that is known.
LEMMA UseKeeps ==
  ASSUME ResourceTypeOK, ResourceTypeOK', CheckInv, NEW f \in Resources, NEW op \in {"use", "write"}, Use(f, op)
  PROVE  CheckInv'
<1> DEFINE stmt == Refer(op, f)
<1>1. f \in Names /\ sema \in Knowledge /\ code \in Seq(Statements)
  BY DEF Names, ResourceTypeOK
<1>2. /\ stmt \in Statements /\ stmt.op = op /\ stmt.name = f /\ stmt.slot = sema.slot[f] /\ stmt.to = 0
  BY <1>1, StatementTypes DEF Operations, Stmt, Refer
<1>3. code' = Append(code, stmt) /\ UNCHANGED <<sema, nest>> /\ f \notin sema.consumed
  BY DEF Use, Usable
<1> HIDE DEF stmt
<1>4. Knows(code, sema, Len(code) + 1)
  BY DEF CheckInv, KnowledgeInv
<1>5. stmt.op \in Accesses
  BY <1>2 DEF Accesses
<1>6. Follows(code, stmt)
  BY <1>1, <1>2, <1>3, <1>4, <1>5, UseFollows
<1>7. stmt.op \notin Opening /\ stmt.op # "end" /\ stmt.op # "destroy" /\ stmt.op # "pull"
  BY <1>2 DEF Opening
<1>8. Learns(code, sema, sema', stmt) /\ sema.outer \subseteq sema'.outer
  BY <1>3, <1>7 DEF Learns
<1>9. Visited(stmt)
  BY <1>2, <1>3, <1>6, <1>7, <1>8, PlainVisit
<1> QED BY <1>7, <1>9, VisitKeeps

\* f -> @(): the name is used up.
LEMMA DestroyVisitKeeps ==
  ASSUME ResourceTypeOK, ResourceTypeOK', CheckInv, NEW f \in Resources, Destroy(f)
  PROVE  CheckInv'
<1> DEFINE stmt == Refer("destroy", f)
<1>1. f \in Names /\ sema \in Knowledge /\ code \in Seq(Statements)
  BY DEF Names, ResourceTypeOK
<1>2. /\ stmt \in Statements /\ stmt.op = "destroy" /\ stmt.name = f /\ stmt.slot = sema.slot[f] /\ stmt.to = 0
  BY <1>1, StatementTypes DEF Operations, Stmt, Refer
<1>3. /\ code' = Append(code, stmt) /\ UNCHANGED nest /\ f \notin sema.consumed /\ f \notin sema.outer
      /\ sema' = [sema EXCEPT !.consumed = @ \cup {f}]
  BY DEF Destroy, Usable
<1> HIDE DEF stmt
<1>4. Knows(code, sema, Len(code) + 1)
  BY DEF CheckInv, KnowledgeInv
<1>5. stmt.op \in Accesses
  BY <1>2 DEF Accesses
<1>6. Follows(code, stmt)
  BY <1>1, <1>2, <1>3, <1>4, <1>5, UseFollows
<1>7. stmt.op \notin Opening /\ stmt.op # "end" /\ stmt.op # "pull"
  BY <1>2 DEF Opening
<1>8. /\ sema'.slot = sema.slot /\ sema'.owned = sema.owned /\ sema'.consumed = sema.consumed \cup {f}
      /\ sema'.pulled = sema.pulled /\ sema'.outer = sema.outer
  BY <1>1, <1>3 DEF Knowledge
<1>9. Learns(code, sema, sema', stmt) /\ sema.outer \subseteq sema'.outer /\ f \in sema'.consumed
  BY <1>7, <1>8 DEF Learns
<1>10. Visited(stmt)
  BY <1>2, <1>3, <1>6, <1>7, <1>9, PlainVisit
<1> QED BY <1>2, <1>3, <1>9, <1>10, DestroyKeeps

\* v <- t: the handle is used up.
LEMMA PullKeeps ==
  ASSUME ResourceTypeOK, ResourceTypeOK', CheckInv, NEW t \in Bodies, Pull(t)
  PROVE  CheckInv'
<1> DEFINE stmt == Refer("pull", t)
<1>1. t \in Names /\ sema \in Knowledge /\ code \in Seq(Statements)
  BY DEF Names, ResourceTypeOK
<1>2. /\ stmt \in Statements /\ stmt.op = "pull" /\ stmt.name = t /\ stmt.slot = sema.slot[t] /\ stmt.to = 0
  BY <1>1, StatementTypes DEF Operations, Stmt, Refer
<1>3. /\ code' = Append(code, stmt) /\ UNCHANGED nest /\ t \notin sema.pulled
      /\ sema' = [sema EXCEPT !.pulled = @ \cup {t}]
  BY DEF Pull
<1> HIDE DEF stmt
<1>4. Knows(code, sema, Len(code) + 1)
  BY DEF CheckInv, KnowledgeInv
<1>5. Follows(code, stmt)
  BY <1>1, <1>2, <1>3, <1>4, UseFollows
<1>6. stmt.op \notin Opening /\ stmt.op # "end" /\ stmt.op # "destroy"
  BY <1>2 DEF Opening
<1>7. /\ sema'.slot = sema.slot /\ sema'.owned = sema.owned /\ sema'.consumed = sema.consumed
      /\ sema'.pulled = sema.pulled \cup {t} /\ sema'.outer = sema.outer
  BY <1>1, <1>3 DEF Knowledge
<1>8. Learns(code, sema, sema', stmt) /\ sema.outer \subseteq sema'.outer
  BY <1>2, <1>7 DEF Learns
<1>9. Visited(stmt)
  BY <1>2, <1>3, <1>5, <1>6, <1>8, PlainVisit
<1> QED BY <1>6, <1>9, VisitKeeps

\* a => b says nothing of what is owned.
LEMMA OrderKeeps ==
  ASSUME ResourceTypeOK, ResourceTypeOK', CheckInv, NEW a \in Bodies, NEW b \in Bodies, Order(a, b)
  PROVE  CheckInv'
<1> DEFINE stmt == Stmt("order", a)
<1>1. a \in Labels
  BY DEF Names, Labels
<1>2. stmt \in Statements /\ stmt.op = "order" /\ stmt.slot = 0 /\ stmt.to = 0
  BY <1>1, StatementTypes DEF Operations, Stmt
<1>3. code' = Append(code, stmt) /\ UNCHANGED <<sema, nest>>
  BY DEF Order
<1> HIDE DEF stmt
<1>4. Follows(code, stmt)
  BY <1>2, PlainFollows
<1>5. stmt.op \notin Opening /\ stmt.op # "end" /\ stmt.op # "destroy" /\ stmt.op # "pull"
  BY <1>2 DEF Opening
<1>6. Learns(code, sema, sema', stmt) /\ sema.outer \subseteq sema'.outer
  BY <1>3, <1>5 DEF Learns
<1>7. Visited(stmt)
  BY <1>2, <1>3, <1>4, <1>5, <1>6, PlainVisit
<1> QED BY <1>5, <1>7, VisitKeeps

\* A block, a loop or a condition that begins
LEMMA EnterKeeps ==
  ASSUME ResourceTypeOK, ResourceTypeOK', CheckInv, NEW op \in {"block", "if", "loop"}, NEW name \in Labels,
         op = "block" => name \in Bodies, Enter(op, name), UNCHANGED sema
  PROVE  CheckInv'
<1> DEFINE stmt == Stmt(op, name)
           level == nest'[Len(nest) + 1]
<1>1. op \in Opening /\ op # "task" /\ (op \in {"task", "block"} => name \in Bodies)
  BY DEF Opening
<1>2. /\ Grows(code, code') /\ code'[Len(code) + 1] = stmt /\ stmt.op = op
      /\ BlockInv(code', nest') /\ Follows(code, stmt)
      /\ nest' = Append(nest, level) /\ level \in Levels /\ level.op = op
  BY <1>1, EnterVisit
<1> HIDE DEF stmt, level
<1>3. SameTasks(nest, nest')
  <2>1. nest \in Seq(Levels)
    BY DEF ResourceTypeOK
  <2>2. /\ DOMAIN nest' = 1 .. Len(nest) + 1 /\ DOMAIN nest = 1 .. Len(nest) /\ Len(nest) \in Nat
        /\ \A k \in DOMAIN nest : nest'[k] = nest[k]
        /\ nest'[Len(nest) + 1] = level
    BY <1>2, <2>1, AppendFacts
  <2> QED BY <1>1, <1>2, <2>2 DEF SameTasks
<1>4. stmt.op # "pull" /\ stmt.op # "destroy"
  BY <1>2
<1>5. Learns(code, sema, sema', stmt) /\ sema.outer \subseteq sema'.outer
  BY <1>4 DEF Learns
<1>6. Visited(stmt)
  BY <1>2, <1>3, <1>5 DEF Visited
<1> QED BY <1>4, <1>6, VisitKeeps

\* n = ||> { ... }: what is owned is out of reach of the body's destructions.
LEMMA EnterTaskKeeps ==
  ASSUME ResourceTypeOK, ResourceTypeOK', CheckInv, NEW name \in Bodies, EnterTask(name)
  PROVE  CheckInv'
<1> DEFINE stmt == Stmt("task", name)
           level == nest'[Len(nest) + 1]
<1>1. "task" \in Opening /\ name \in Labels
  BY DEF Opening, Labels, Names
<1>2. /\ Grows(code, code') /\ code'[Len(code) + 1] = stmt /\ stmt.op = "task"
      /\ BlockInv(code', nest') /\ Follows(code, stmt)
      /\ nest' = Append(nest, level) /\ level \in Levels /\ level.op = "task"
      /\ level.at = Len(code) + 1 /\ level.saved = sema
  BY <1>1, EnterVisit DEF EnterTask
<1> HIDE DEF stmt, level
<1>3. nest \in Seq(Levels) /\ sema \in Knowledge /\ sema' \in Knowledge
  BY DEF ResourceTypeOK
<1>4. /\ DOMAIN nest' = 1 .. Len(nest) + 1 /\ DOMAIN nest = 1 .. Len(nest) /\ Len(nest) \in Nat
      /\ \A k \in DOMAIN nest : nest'[k] = nest[k]
      /\ nest'[Len(nest) + 1] = level
  BY <1>2, <1>3, AppendFacts
<1>5. /\ sema'.slot = sema.slot /\ sema'.owned = sema.owned /\ sema'.consumed = sema.consumed
      /\ sema'.pulled = sema.pulled /\ sema'.outer = sema.owned
  BY <1>3 DEF EnterTask, Knowledge
<1>6. Learns(code, sema, sema', stmt)
  BY <1>2, <1>5 DEF Learns
<1>7. CodeInv(code')
  BY <1>2, CodeKeeps DEF CheckInv
<1>8. Knows(code, sema, Len(code) + 1) /\ SavedKnown(code, nest) /\ OuterKept(sema, nest) /\ OnStack(code, nest)
  BY DEF CheckInv, KnowledgeInv, BlockInv
<1>9. Knows(code', sema', Len(code') + 1)
  BY <1>2, <1>3, <1>6, <1>7, <1>8, KnowsNext DEF CodeInv
<1>10. \A s \in Knowledge : Spares(s, stmt)
  BY <1>2 DEF Spares
<1>11. SavedKnown(code', nest')
  <2> SUFFICES ASSUME NEW k \in DOMAIN nest', nest'[k].op = "task"
               PROVE  Knows(code', nest'[k].saved, nest'[k].at)
    BY DEF SavedKnown
  <2>1. CASE k \in DOMAIN nest
    <3>1. SameTasks(nest, nest)
      BY DEF SameTasks
    <3>2. \A l \in DOMAIN nest : Spares(nest[l].saved, stmt)
      BY <1>2 DEF Spares
    <3>3. SavedKnown(code', nest)
      BY <1>2, <1>3, <1>8, <3>1, <3>2, SavedStays
    <3> QED BY <1>4, <2>1, <3>3 DEF SavedKnown
  <2>2. CASE k = Len(nest) + 1
    <3>1. Len(code) + 1 \in Nat /\ Len(code) + 1 <= Len(code) + 1
      BY <1>2 DEF Grows
    <3>2. Knows(code', sema, Len(code) + 1)
      BY <1>2, <1>3, <1>8, <1>10, <3>1, KnowsGrows
    <3> QED BY <1>2, <1>4, <2>2, <3>2
  <2> QED BY <1>4, <2>1, <2>2
<1>12. OuterKept(sema', nest')
  <2>1. ASSUME NEW k \in DOMAIN nest', nest'[k].op = "task"
        PROVE  nest'[k].saved.owned \subseteq sema'.owned \cap sema'.outer
    <3>1. CASE k \in DOMAIN nest
      BY <1>4, <1>5, <1>8, <2>1, <3>1 DEF OuterKept
    <3>2. CASE k = Len(nest) + 1
      BY <1>2, <1>4, <1>5, <3>2
    <3> QED BY <1>4, <3>1, <3>2
  <2>2. ASSUME NEW k \in DOMAIN nest', NEW l \in DOMAIN nest', k < l,
               nest'[k].op = "task", nest'[l].op = "task"
        PROVE  nest'[k].saved.owned \subseteq nest'[l].saved.owned \cap nest'[l].saved.outer
    <3>1. k \in DOMAIN nest
      BY <1>4, <2>2
    <3>2. CASE l \in DOMAIN nest
      BY <1>4, <1>8, <2>2, <3>1, <3>2 DEF OuterKept
    <3>3. CASE l = Len(nest) + 1
      BY <1>2, <1>4, <1>8, <2>2, <3>1, <3>3 DEF OuterKept
    <3> QED BY <1>4, <3>2, <3>3
  <2> QED BY <2>1, <2>2 DEF OuterKept
<1> QED BY <1>2, <1>7, <1>9, <1>11, <1>12 DEF CheckInv, KnowledgeInv

\* The end of a block, of a loop or of a condition: what is known stays.
LEMMA LeaveKeeps ==
  ASSUME ResourceTypeOK, ResourceTypeOK', CheckInv, NEW op \in Opening, Leave(op),
         NEW bound, sema' = [sema EXCEPT !.bound = bound]
  PROVE  CheckInv'
<1>1. PICK stmt \in Statements :
        /\ stmt.op = "end" /\ Grows(code, code') /\ code'[Len(code) + 1] = stmt
        /\ BlockInv(code', nest') /\ Follows(code, stmt)
  BY LeaveVisit
<1>2. SameTasks(nest, nest')
  BY LeaveVisit
<1>3. /\ sema'.slot = sema.slot /\ sema'.owned = sema.owned /\ sema'.consumed = sema.consumed
      /\ sema'.pulled = sema.pulled /\ sema'.outer = sema.outer
  BY DEF ResourceTypeOK, Knowledge
<1>4. stmt.op # "pull" /\ stmt.op # "destroy"
  BY <1>1
<1>5. Learns(code, sema, sema', stmt) /\ sema.outer \subseteq sema'.outer
  BY <1>3, <1>4 DEF Learns
<1>6. Visited(stmt)
  BY <1>1, <1>2, <1>5 DEF Visited
<1> QED BY <1>4, <1>6, VisitKeeps

\* The end of a task: what was known before it is known again, and the task.
LEMMA LeaveTaskKeeps ==
  ASSUME ResourceTypeOK, ResourceTypeOK', CheckInv, LeaveTask
  PROVE  CheckInv'
<1> DEFINE top == Last(nest)
           n == top.name
           t == [top.saved EXCEPT !.bound = @ \cup {n}, !.owned = @ \cup {n}, !.slot[n] = top.at]
<1>1. Leave("task") /\ "task" \in Opening /\ sema' = t
  BY DEF LeaveTask, Opening
<1>2. /\ LevelFits(code, top) /\ top.op = "task" /\ top \in Levels
      /\ nest' = Front(nest) /\ nest # <<>> /\ SameTasks(nest, nest')
  BY <1>1, LeaveVisit
<1>3. PICK stmt \in Statements :
        /\ stmt.op = "end" /\ Ends(code, code', top.at, stmt)
        /\ Grows(code, code') /\ code'[Len(code) + 1] = stmt
        /\ BlockInv(code', nest') /\ Follows(code, stmt)
  BY <1>1, LeaveVisit
<1>4. nest \in Seq(Levels) /\ nest' \in Seq(Levels)
  BY DEF ResourceTypeOK
<1>5. top = nest[Len(nest)] /\ Len(nest) \in DOMAIN nest /\ Len(nest) \in Nat
      /\ \A k \in DOMAIN nest' : k \in DOMAIN nest /\ k < Len(nest) /\ nest'[k] = nest[k]
  BY <1>2, <1>4, FrontFacts
<1>6. top.saved \in Knowledge /\ n \in Bodies /\ code[top.at].op = "task" /\ code[top.at].name = n
  BY <1>2 DEF LevelFits, Levels
<1>7. Knows(code, top.saved, top.at)
  BY <1>2, <1>5 DEF CheckInv, KnowledgeInv, SavedKnown
<1>8. CodeInv(code')
  BY <1>3, CodeKeeps DEF CheckInv
<1>9. Knows(code', t, Len(code') + 1)
  BY <1>3, <1>6, <1>7, <1>8, KnowsTask DEF CodeInv
<1>10. SavedKnown(code', nest')
  <2>1. \A k \in DOMAIN nest : Spares(nest[k].saved, stmt)
    BY <1>3 DEF Spares
  <2> QED BY <1>2, <1>3, <1>4, <2>1, SavedStays DEF CheckInv, KnowledgeInv, BlockInv
<1>11. top.saved.owned \subseteq t.owned /\ t.outer = top.saved.outer
  BY <1>6 DEF Knowledge
<1> HIDE DEF t
<1>12. OuterKept(sema', nest')
  <2>1. OuterKept(sema, nest)
    BY DEF CheckInv, KnowledgeInv
  <2>2. ASSUME NEW k \in DOMAIN nest', nest'[k].op = "task"
        PROVE  nest'[k].saved.owned \subseteq sema'.owned \cap sema'.outer
    <3>1. nest[k].saved.owned \subseteq top.saved.owned \cap top.saved.outer
      BY <1>2, <1>5, <2>1, <2>2 DEF OuterKept
    <3> QED BY <1>1, <1>5, <1>11, <2>2, <3>1
  <2>3. ASSUME NEW k \in DOMAIN nest', NEW l \in DOMAIN nest', k < l,
               nest'[k].op = "task", nest'[l].op = "task"
        PROVE  nest'[k].saved.owned \subseteq nest'[l].saved.owned \cap nest'[l].saved.outer
    BY <1>5, <2>1, <2>3 DEF OuterKept
  <2> QED BY <2>2, <2>3 DEF OuterKept
<1> QED BY <1>1, <1>3, <1>8, <1>9, <1>10, <1>12 DEF CheckInv, KnowledgeInv

\* The second branch begins: what the first destroyed and pulled is still known.
LEMMA ElseKeeps ==
  ASSUME ResourceTypeOK, ResourceTypeOK', CheckInv, Else
  PROVE  CheckInv'
<1> DEFINE top == Last(nest)
           stmt == Stmt("else", top.name)
           level == [top EXCEPT !.op = "else", !.at = Here, !.then = sema.bound]
<1>1. code \in Seq(Statements) /\ nest \in Seq(Levels) /\ nest # <<>> /\ top.op = "if" /\ sema \in Knowledge
  BY DEF ResourceTypeOK, Else
<1>2. /\ top \in Levels /\ Front(nest) \in Seq(Levels)
      /\ Len(nest) \in Nat \ {0} /\ Len(Front(nest)) = Len(nest) - 1
      /\ \A k \in 1 .. Len(nest) - 1 : k \in DOMAIN nest /\ Front(nest)[k] = nest[k]
  BY <1>1, FrontFacts
<1>3. top.at \in DOMAIN code
  BY <1>1, TopBlock DEF CheckInv
<1>4. stmt \in Statements /\ stmt.op = "else" /\ stmt.name = top.name /\ stmt.slot = 0 /\ stmt.to = 0
  <2>1. top.name \in Labels
    BY <1>2 DEF Levels
  <2> QED BY <2>1, StatementTypes DEF Operations, Opening, Stmt
<1>5. level.op = "else" /\ level.name = top.name /\ level.at = Len(code) + 1
  BY <1>2 DEF Levels, Here
<1>6. level \in Levels
  <2>1. Here \in Nat /\ "else" \in Opening /\ sema.bound \in SUBSET Names
    BY <1>1 DEF Here, Opening, Knowledge
  <2> QED BY <1>2, <2>1 DEF Levels
<1>7. code' = Append([code EXCEPT ![top.at].to = Len(code) + 1], stmt) /\ nest' = Append(Front(nest), level)
  BY DEF Else, Here
<1> HIDE DEF stmt, level
<1>8. Ends(code, code', top.at, stmt)
  BY <1>1, <1>3, <1>4, <1>7, CloseEnds
<1>9. Opened(code, level, stmt)
  BY <1>4, <1>5 DEF Opened, Opening
<1>10. BlockInv(code', nest') /\ Grows(code, code')
  BY <1>1, <1>4, <1>6, <1>7, <1>8, <1>9, ElseBlocks DEF CheckInv
<1>11. code'[Len(code) + 1] = stmt
  BY <1>8 DEF Ends
<1>12. stmt.op # "pull" /\ stmt.op # "destroy"
  BY <1>4
<1>13. Follows(code, stmt)
  BY <1>4, <1>12, PlainFollows
<1>14. SameTasks(nest, nest')
  <2>1. /\ DOMAIN nest' = 1 .. Len(Front(nest)) + 1 /\ DOMAIN Front(nest) = 1 .. Len(Front(nest))
        /\ \A k \in DOMAIN Front(nest) : nest'[k] = Front(nest)[k]
        /\ nest'[Len(Front(nest)) + 1] = level
    BY <1>2, <1>6, <1>7, AppendFacts
  <2>2. \A k \in DOMAIN nest' : k \in 1 .. Len(nest) - 1 \/ nest'[k] = level
    BY <1>2, <2>1
  <2>3. \A k \in 1 .. Len(nest) - 1 : k \in DOMAIN nest /\ nest'[k] = nest[k]
    BY <1>2, <2>1
  <2> QED BY <1>5, <2>2, <2>3 DEF SameTasks
<1>15. /\ sema'.slot = sema.slot /\ sema'.owned = sema.owned /\ sema'.consumed = sema.consumed
       /\ sema'.pulled = sema.pulled /\ sema'.outer = sema.outer
  BY <1>1 DEF Else, AfterBranch, Knowledge
<1>16. Learns(code, sema, sema', stmt) /\ sema.outer \subseteq sema'.outer
  BY <1>12, <1>15 DEF Learns
<1>17. Visited(stmt)
  BY <1>10, <1>11, <1>13, <1>14, <1>16 DEF Visited
<1> QED BY <1>12, <1>17, VisitKeeps

\* So the checks hold on to what they know whatever the program's next statement is.
LEMMA CheckStep ==
  ASSUME ResourceTypeOK, CheckInv, CheckNext
  PROVE  CheckInv'
<1>1. ResourceTypeOK'
  BY CheckStepTypes DEF CheckInv, BlockInv
<1>2. sema \in Knowledge
  BY DEF ResourceTypeOK
<1>3. {"block", "task", "if", "loop", "else"} \subseteq Opening
  BY DEF Opening
<1>4. CASE \E f \in Resources : BindFile(f) \/ Use(f, "use") \/ Use(f, "write") \/ Destroy(f)
  BY <1>1, <1>4, BindFileKeeps, UseKeeps, DestroyVisitKeeps
<1>5. CASE \E n \in Bodies : EnterTask(n) \/ Pull(n) \/ \E m \in Bodies : Order(n, m)
  BY <1>1, <1>5, EnterTaskKeeps, PullKeeps, OrderKeeps
<1>6. CASE EnterIf \/ EnterLoop \/ \E n \in Bodies : EnterBlock(n)
  <2>1. "" \in Labels /\ Bodies \subseteq Labels
    BY DEF Labels, Names
  <2> QED BY <1>1, <1>6, <2>1, EnterKeeps DEF EnterIf, EnterLoop, EnterBlock
<1>7. CASE LeaveTask
  BY <1>1, <1>7, LeaveTaskKeeps
<1>8. CASE LeaveBlock
  <2>1. Leave("block") /\ sema' = [sema EXCEPT !.bound = sema.bound \cup {Last(nest).name}]
    BY <1>8 DEF LeaveBlock
  <2> QED BY <1>1, <1>3, <2>1, LeaveKeeps
<1>9. CASE LeaveLoop
  <2>1. Leave("loop") /\ sema' = [sema EXCEPT !.bound = sema.bound]
    BY <1>2, <1>9 DEF LeaveLoop, Knowledge
  <2> QED BY <1>1, <1>3, <2>1, LeaveKeeps
<1>10. CASE Else
  BY <1>1, <1>10, ElseKeeps
<1>11. CASE LeaveIf
  <2>1. Leave("if") /\ sema' = [sema EXCEPT !.bound = Last(nest).saved.bound]
    BY <1>11 DEF LeaveIf, AfterBranch
  <2> QED BY <1>1, <1>3, <2>1, LeaveKeeps
<1>12. CASE LeaveElse
  <2>1. Leave("else")
        /\ sema' = [sema EXCEPT !.bound = Last(nest).saved.bound \cup (Last(nest).then \cap sema.bound)]
    BY <1>2, <1>12 DEF LeaveElse, AfterBranch, Knowledge
  <2> QED BY <1>1, <1>3, <2>1, LeaveKeeps
<1>13. CASE Accept
  <2>1. UNCHANGED <<code, sema, nest>>
    BY <1>13 DEF Accept
  <2> QED BY <2>1 DEF CheckInv, BlockInv, KnowledgeInv
<1> QED BY <1>4, <1>5, <1>6, <1>7, <1>8, <1>9, <1>10, <1>11, <1>12, <1>13 DEF CheckNext

-----------------------------------------------------------------------------
(* The program runs: where a thread goes, it stays in its task's body.     *)

\* All blocks of the program have ended.
LEMMA AllEnd ==
  ASSUME NEW c \in Seq(Statements), BlockInv(c, <<>>)
  PROVE  /\ \A q \in DOMAIN c : q \in Nat \ {0} /\ c[q].to \in Nat /\ c[q].slot \in Nat
         /\ \A a \in DOMAIN c :
              c[a].op \in Opening =>
                /\ c[a].to \in DOMAIN c /\ a < c[a].to
                /\ \/ c[c[a].to].op = "end" /\ c[c[a].to].to = a
                   \/ c[c[a].to].op = "else" /\ c[a].op = "if"
         /\ \A b \in DOMAIN c :
              c[b].op = "end" => c[b].to \in DOMAIN c /\ c[c[b].to].op \in Opening /\ c[c[b].to].to = b
         /\ \A a, b \in DOMAIN c :
              c[a].op \in Opening /\ c[b].op \in Opening /\ a < b /\ b < c[a].to => c[b].to < c[a].to
<1>1. EndsMatch(c) /\ Nested(c) /\ OnStack(c, <<>>)
  BY DEF BlockInv
<1>2. \A a \in DOMAIN c : c[a].op \in Opening => c[a].to # 0
  BY <1>1 DEF OnStack, Opens
<1>3. \A q \in DOMAIN c : q \in Nat \ {0} /\ c[q].to \in Nat /\ c[q].slot \in Nat
  BY Places
<1>4. \A a \in DOMAIN c :
        c[a].op \in Opening =>
          /\ c[a].to \in DOMAIN c /\ a < c[a].to
          /\ \/ c[c[a].to].op = "end" /\ c[c[a].to].to = a
             \/ c[c[a].to].op = "else" /\ c[a].op = "if"
  BY <1>1, <1>2 DEF EndsMatch, Opens
<1>5. \A b \in DOMAIN c :
        c[b].op = "end" => c[b].to \in DOMAIN c /\ c[c[b].to].op \in Opening /\ c[c[b].to].to = b
  BY <1>1 DEF EndsMatch, Opens
<1>6. \A a, b \in DOMAIN c :
        c[a].op \in Opening /\ c[b].op \in Opening /\ a < b /\ b < c[a].to => c[b].to < c[a].to
  BY <1>1 DEF Nested, Opens
<1> QED BY <1>3, <1>4, <1>5, <1>6

\* To the next statement
LEMMA NextInBody ==
  ASSUME NEW c \in Seq(Statements), BlockInv(c, <<>>), NEW h \in Nat, NEW p \in DOMAIN c, InBody(c, h, p),
         c[p].op # "task", c[p].op = "end" => c[c[p].to].op # "task"
  PROVE  InBody(c, h, p + 1)
<1> SUFFICES ASSUME NEW t \in DOMAIN c, IsTask(c, t)
             PROVE  t < p + 1 /\ p + 1 <= c[t].to <=> t <= h /\ h < c[t].to
  BY DEF InBody
<1>1. t < p /\ p <= c[t].to <=> t <= h /\ h < c[t].to
  BY DEF InBody
<1>2. t \in Nat /\ p \in Nat /\ c[t].to \in Nat
  BY AllEnd
<1>3. t # p /\ c[t].op = "task" /\ "task" \in Opening
  BY DEF IsTask, Opening
<1>4. c[t].to # p
  BY <1>3, AllEnd
<1> QED BY <1>1, <1>2, <1>3, <1>4

\* Past a block
LEMMA PastInBody ==
  ASSUME NEW c \in Seq(Statements), BlockInv(c, <<>>), NEW h \in Nat, NEW p \in DOMAIN c, InBody(c, h, p),
         c[p].op \in Opening
  PROVE  InBody(c, h, c[p].to + 1)
<1> SUFFICES ASSUME NEW t \in DOMAIN c, IsTask(c, t)
             PROVE  t < c[p].to + 1 /\ c[p].to + 1 <= c[t].to <=> t <= h /\ h < c[t].to
  BY DEF InBody
<1> DEFINE b == c[p].to
           e == c[t].to
<1>1. t < p /\ p <= e <=> t <= h /\ h < e
  BY DEF InBody
<1>2. c[t].op = "task" /\ c[t].op \in Opening
  BY DEF IsTask, Opening
<1>3. t \in Nat /\ p \in Nat /\ b \in Nat /\ e \in Nat /\ p < b /\ b \in DOMAIN c /\ t < e
  BY <1>2, AllEnd
<1>4. c[b].op \in {"end", "else"} /\ (c[b].op = "end" => c[b].to = p)
  BY AllEnd
<1>5. c[e].op = "end" /\ c[e].to = t
  BY <1>2, AllEnd
<1>6. t # b /\ p # e
  BY <1>2, <1>4, <1>5 DEF Opening
<1>7. t # p => e # b
  BY <1>4, <1>5
<1>8. p < t /\ t < b => e < b
  BY <1>2, AllEnd
<1>9. t < p /\ p < e => b < e
  BY <1>2, AllEnd
<1> HIDE DEF b, e
<1> QED BY <1>1, <1>3, <1>6, <1>7, <1>8, <1>9 DEF b, e

\* Back to the beginning of a loop
LEMMA BackInBody ==
  ASSUME NEW c \in Seq(Statements), BlockInv(c, <<>>), NEW h \in Nat, NEW p \in DOMAIN c, InBody(c, h, p),
         c[p].op = "end", c[c[p].to].op = "loop"
  PROVE  InBody(c, h, c[p].to)
<1> SUFFICES ASSUME NEW t \in DOMAIN c, IsTask(c, t)
             PROVE  t < c[p].to /\ c[p].to <= c[t].to <=> t <= h /\ h < c[t].to
  BY DEF InBody
<1> DEFINE a == c[p].to
           e == c[t].to
<1>1. t < p /\ p <= e <=> t <= h /\ h < e
  BY DEF InBody
<1>2. c[t].op = "task" /\ c[t].op \in Opening
  BY DEF IsTask, Opening
<1>3. a \in DOMAIN c /\ c[a].op = "loop" /\ c[a].op \in Opening /\ c[a].to = p
  BY AllEnd DEF Opening
<1>4. t \in Nat /\ p \in Nat /\ a \in Nat /\ e \in Nat /\ a < p /\ t < e
  BY <1>2, <1>3, AllEnd
<1>5. c[e].op = "end" /\ c[e].to = t
  BY <1>2, AllEnd
<1>6. t # a /\ e # a /\ e # p
  BY <1>2, <1>3, <1>5
<1>7. a < t /\ t < p => e < p
  BY <1>2, <1>3, AllEnd
<1>8. t < a /\ a < e => p < e
  BY <1>2, <1>3, AllEnd
<1> HIDE DEF a, e
<1> QED BY <1>1, <1>4, <1>6, <1>7, <1>8 DEF a, e

\* A new task begins with its body.
LEMMA TaskInBody ==
  ASSUME NEW c \in Seq(Statements), BlockInv(c, <<>>), NEW h \in Nat
  PROVE  InBody(c, h, h + 1)
<1> SUFFICES ASSUME NEW t \in DOMAIN c
             PROVE  t < h + 1 /\ h + 1 <= c[t].to <=> t <= h /\ h < c[t].to
  BY DEF InBody
<1>1. t \in Nat /\ c[t].to \in Nat
  BY AllEnd
<1> QED BY <1>1

-----------------------------------------------------------------------------
(* What the threads keep to stays true as others move.                     *)

\* Threads and files that are there stay, and stay what they are from.
Later(s, t) == \A k \in DOMAIN s : k \in DOMAIN t /\ t[k].from = s[k].from

\* What a thread keeps to
LEMMA ThreadStays ==
  ASSUME NEW c, NEW ts, NEW us, NEW fs, NEW gs, Later(ts, us), Later(fs, gs),
         NEW thread, ThreadKnown(c, ts, fs, thread)
  PROVE  ThreadKnown(c, us, gs, thread)
<1>1. SlotsFilled(c, us, gs, thread.slots)
  BY DEF ThreadKnown, SlotsFilled, Later
<1>2. GotKnown(c, us, thread.from, thread.got)
  BY DEF ThreadKnown, GotKnown, Later
<1> QED BY <1>1, <1>2 DEF ThreadKnown

\* A thread moves, to where it keeps to what it must.
LEMMA OneMoves ==
  ASSUME ResourceTypeOK, RunInv, UNCHANGED <<code, nest>>, NEW i \in DOMAIN threads, NEW moved \in Threads,
         threads' = [threads EXCEPT ![i] = moved], moved.from = threads[i].from,
         Later(files, files'), Later(threads, threads') => ThreadKnown(code, threads', files', moved), FileInv'
  PROVE  RunInv'
<1>1. /\ DOMAIN threads' = DOMAIN threads /\ threads'[i] = moved
      /\ \A k \in DOMAIN threads : k # i => threads'[k] = threads[k]
  BY ExceptFacts DEF ResourceTypeOK
<1>2. Later(threads, threads')
  BY <1>1 DEF Later
<1>3. ASSUME NEW k \in DOMAIN threads' PROVE ThreadKnown(code, threads', files', threads'[k])
  <2>1. CASE k = i
    BY <1>1, <1>2, <2>1
  <2>2. CASE k # i
    <3>1. ThreadKnown(code, threads, files, threads[k])
      BY <1>1 DEF RunInv, ThreadInv
    <3> QED BY <1>1, <1>2, <2>2, <3>1, ThreadStays
  <2> QED BY <2>1, <2>2
<1>4. threads # <<>> /\ threads' # <<>>
  BY <1>1
<1>5. nest' = <<>>
  BY <1>4 DEF RunInv
<1> QED BY <1>3, <1>4, <1>5 DEF RunInv, ThreadInv

\* What is known of a thread before its statement
LEMMA ThreadFacts ==
  ASSUME ResourceTypeOK, CheckInv, RunInv, NEW i \in DOMAIN threads, NEW op, Before(i, op)
  PROVE  /\ code \in Seq(Statements) /\ BlockInv(code, <<>>)
         /\ threads[i].pc \in DOMAIN code /\ threads[i].pc \in Nat \ {0} /\ threads[i].from \in Nat
         /\ code[threads[i].pc] = Current(i) /\ Current(i).op = op
         /\ InBody(code, threads[i].from, threads[i].pc)
         /\ ThreadKnown(code, threads, files, threads[i])
<1>1. /\ threads[i].pc \in DOMAIN code /\ threads[i].from \in Nat
      /\ Current(i) = code[threads[i].pc] /\ Current(i).op = op
  BY BeforeTypes
<1>2. code \in Seq(Statements) /\ threads # <<>>
  BY DEF ResourceTypeOK
<1>3. BlockInv(code, <<>>)
  BY <1>2 DEF CheckInv, RunInv
<1>4. threads[i].pc \in Nat \ {0}
  BY <1>1, <1>2, Places
<1>5. ThreadKnown(code, threads, files, threads[i])
  BY DEF RunInv, ThreadInv
<1> QED BY <1>1, <1>2, <1>3, <1>4, <1>5 DEF ThreadKnown

\* A thread's goings keep it to its body.
LEMMA GotoKeeps ==
  ASSUME ResourceTypeOK, CheckInv, RunInv, NEW i \in DOMAIN threads, UNCHANGED <<code, nest>>,
         Later(files, files'), FileInv',
         NEW pc \in Nat, Goto(i, pc), pc # 0 => InBody(code, threads[i].from, pc)
  PROVE  RunInv'
<1> DEFINE moved == [threads[i] EXCEPT !.pc = pc]
<1>1. threads[i] \in Threads
  BY DEF ResourceTypeOK
<1>2. /\ moved \in Threads /\ moved.from = threads[i].from /\ moved.pc = pc
      /\ moved.slots = threads[i].slots /\ moved.got = threads[i].got
  BY <1>1 DEF Threads
<1>3. threads' = [threads EXCEPT ![i] = moved]
  BY DEF Goto
<1> HIDE DEF moved
<1>4. ASSUME Later(threads, threads') PROVE ThreadKnown(code, threads', files', moved)
  <2>1. ThreadKnown(code, threads, files, threads[i])
    BY DEF RunInv, ThreadInv
  <2>2. ThreadKnown(code, threads', files', threads[i])
    BY <1>4, <2>1, ThreadStays
  <2> QED BY <1>2, <2>2 DEF ThreadKnown
<1> QED BY <1>2, <1>3, <1>4, OneMoves

\* The steps that only go
LEMMA GoingKeeps ==
  ASSUME ResourceTypeOK, CheckInv, RunInv, NEW i \in DOMAIN threads,
         RunUse(i) \/ RunEnd(i) \/ RunBranch(i) \/ RunElse(i) \/ RunBlock(i)
  PROVE  RunInv'
<1> DEFINE p == threads[i].pc
<1>1. Running /\ UNCHANGED files
  BY GotoSteps
<1>2. PICK pc \in Nat :
        /\ Goto(i, pc)
        /\ \/ /\ pc = p + 1
              /\ \/ \E op \in {"use", "write", "if", "loop", "block", "order"} : Before(i, op)
                 \/ Before(i, "end") /\ code[Current(i).to].op \notin {"task", "loop"}
           \/ pc = 0 /\ Before(i, "end") /\ code[Current(i).to].op = "task"
           \/ pc = Current(i).to /\ Before(i, "end") /\ code[Current(i).to].op = "loop"
           \/ /\ pc = Current(i).to + 1
              /\ \E op \in {"if", "loop", "else"} : Before(i, op)
  BY GotoSteps
<1>3. UNCHANGED <<code, nest>> /\ Later(files, files') /\ FileInv'
  BY <1>1 DEF Running, Later, RunInv, FileInv
<1>4. ASSUME pc # 0 PROVE InBody(code, threads[i].from, pc)
  <2>1. CASE pc = p + 1 /\ \E op \in {"use", "write", "if", "loop", "block", "order"} : Before(i, op)
    <3>1. PICK op \in {"use", "write", "if", "loop", "block", "order"} : Before(i, op)
      BY <2>1
    <3>2. op # "task" /\ op # "end"
      BY <3>1
    <3> QED BY <2>1, <3>1, <3>2, ThreadFacts, NextInBody
  <2>2. CASE pc = p + 1 /\ Before(i, "end") /\ code[Current(i).to].op \notin {"task", "loop"}
    BY <2>2, ThreadFacts, NextInBody
  <2>3. CASE pc = Current(i).to /\ Before(i, "end") /\ code[Current(i).to].op = "loop"
    BY <2>3, ThreadFacts, BackInBody
  <2>4. CASE pc = Current(i).to + 1 /\ \E op \in {"if", "loop", "else"} : Before(i, op)
    <3>1. PICK op \in {"if", "loop", "else"} : Before(i, op)
      BY <2>4
    <3>2. op \in Opening
      BY <3>1 DEF Opening
    <3> QED BY <2>4, <3>1, <3>2, ThreadFacts, PastInBody
  <2> QED BY <1>2, <1>4, <2>1, <2>2, <2>3, <2>4
<1> QED BY <1>2, <1>3, <1>4, GotoKeeps

\* An open's slot holds the file it has opened.
LEMMA RunOpenKeeps ==
  ASSUME ResourceTypeOK, CheckInv, RunInv, NEW i \in DOMAIN threads, RunOpen(i)
  PROVE  RunInv'
<1> DEFINE p == threads[i].pc
           file == [from |-> p, closer |-> 0, at |-> 0]
           moved == [threads[i] EXCEPT !.pc = p + 1, !.slots[p] = Len(files) + 1]
<1>1. Before(i, "open") /\ files' = Append(files, file) /\ UNCHANGED <<code, nest>>
  BY DEF RunOpen, Running
<1>2. /\ code \in Seq(Statements) /\ BlockInv(code, <<>>)
      /\ p \in DOMAIN code /\ p \in Nat \ {0} /\ threads[i].from \in Nat /\ code[p].op = "open"
      /\ InBody(code, threads[i].from, p) /\ ThreadKnown(code, threads, files, threads[i])
  BY <1>1, ThreadFacts
<1>3. threads' = [threads EXCEPT ![i] = moved] /\ moved \in Threads
  BY OtherSteps DEF CheckInv, CodeInv
<1>4. threads[i] \in Threads /\ files \in Seq([from : Nat, closer : Nat, at : Nat])
  BY DEF ResourceTypeOK
<1>5. file \in [from : Nat, closer : Nat, at : Nat] /\ file.from = p /\ file.closer = 0
  BY <1>2
<1> HIDE DEF file
<1>6. /\ DOMAIN files' = 1 .. Len(files) + 1 /\ DOMAIN files = 1 .. Len(files) /\ Len(files) \in Nat
      /\ \A o \in DOMAIN files : files'[o] = files[o]
      /\ files'[Len(files) + 1] = file
  BY <1>1, <1>4, <1>5, AppendFacts
<1>7. Later(files, files')
  BY <1>6 DEF Later
<1>8. FileInv'
  BY <1>1, <1>5, <1>6 DEF RunInv, FileInv
<1>9. /\ moved.from = threads[i].from /\ moved.pc = p + 1 /\ moved.got = threads[i].got
      /\ moved.slots[p] = Len(files) + 1
      /\ \A q \in 0 .. Len(code) : q # p => moved.slots[q] = threads[i].slots[q]
  <2>1. p \in 0 .. Len(code) /\ threads[i].slots \in [0 .. Len(code) -> Nat]
    BY <1>2, <1>4 DEF Threads
  <2> QED BY <1>4, <2>1 DEF Threads
<1> HIDE DEF moved
<1>10. ASSUME Later(threads, threads') PROVE ThreadKnown(code, threads', files', moved)
  <2>1. ThreadKnown(code, threads', files', threads[i])
    BY <1>2, <1>7, <1>10, ThreadStays
  <2>2. InBody(code, moved.from, moved.pc)
    BY <1>2, <1>9, NextInBody
  <2>3. SlotsFilled(code, threads', files', moved.slots)
    <3>1. moved.slots[0] = 0
      BY <1>2, <1>9, <2>1 DEF ThreadKnown, SlotsFilled
    <3>2. ASSUME NEW q \in DOMAIN code, moved.slots[q] # 0
          PROVE  /\ code[q].op = "open" =>
                      moved.slots[q] \in DOMAIN files' /\ files'[moved.slots[q]].from = q
                 /\ code[q].op = "task" =>
                      moved.slots[q] \in DOMAIN threads' /\ threads'[moved.slots[q]].from = q
      <4>1. CASE q = p
        BY <1>2, <1>5, <1>6, <1>9, <4>1
      <4>2. CASE q # p
        <5>1. q \in 0 .. Len(code)
          BY <1>2
        <5>2. moved.slots[q] = threads[i].slots[q]
          BY <1>9, <4>2, <5>1
        <5> QED BY <2>1, <3>2, <5>2 DEF ThreadKnown, SlotsFilled
      <4> QED BY <4>1, <4>2
    <3> QED BY <3>1, <3>2 DEF SlotsFilled
  <2>4. GotKnown(code, threads', moved.from, moved.got)
    BY <1>9, <2>1 DEF ThreadKnown
  <2> QED BY <2>2, <2>3, <2>4 DEF ThreadKnown
<1> QED BY <1>1, <1>3, <1>7, <1>8, <1>9, <1>10, OneMoves

\* A destruction closes a file that was opened where it refers to.
LEMMA RunDestroyKeeps ==
  ASSUME ResourceTypeOK, CheckInv, RunInv, NEW i \in DOMAIN threads, RunDestroy(i)
  PROVE  RunInv'
<1> DEFINE p == threads[i].pc
           o == Object(i)
<1>1. /\ Before(i, "destroy") /\ UNCHANGED <<code, nest>> /\ Goto(i, p + 1)
      /\ files' = IF o = 0 THEN files ELSE [files EXCEPT ![o].closer = i, ![o].at = p]
  BY DEF RunDestroy, Running, Proceed
<1>2. /\ code \in Seq(Statements) /\ BlockInv(code, <<>>)
      /\ p \in DOMAIN code /\ p \in Nat \ {0} /\ threads[i].from \in Nat /\ code[p].op = "destroy"
      /\ code[p] = Current(i)
      /\ InBody(code, threads[i].from, p) /\ ThreadKnown(code, threads, files, threads[i])
  BY <1>1, ThreadFacts
<1>3. InBody(code, threads[i].from, p + 1) /\ p + 1 \in Nat
  BY <1>2, NextInBody
<1>4. files \in Seq([from : Nat, closer : Nat, at : Nat]) /\ i \in Nat
  BY DEF ResourceTypeOK
<1>5. ASSUME o # 0
      PROVE  o \in DOMAIN files /\ files[o].from = code[p].slot
  <2>1. o = threads[i].slots[code[p].slot]
    BY <1>2 DEF Object
  <2>2. code[p].slot # 0
    BY <1>2, <1>5, <2>1 DEF ThreadKnown, SlotsFilled
  <2>3. code[p].slot \in DOMAIN code /\ code[code[p].slot].op = "open"
    BY <1>2, <2>2 DEF CheckInv, CodeInv, RefersWell
  <2> QED BY <1>2, <1>5, <2>1, <2>3 DEF ThreadKnown, SlotsFilled
<1>6. Later(files, files') /\ FileInv'
  <2>1. CASE o = 0
    BY <1>1, <2>1 DEF Later, RunInv, FileInv
  <2>2. CASE o # 0
    <3> DEFINE file == [files[o] EXCEPT !.closer = i, !.at = p]
    <3>1. o \in DOMAIN files /\ files[o].from = code[p].slot /\ files[o] \in [from : Nat, closer : Nat, at : Nat]
      <4>1. o \in DOMAIN files /\ files[o].from = code[p].slot
        BY <1>5, <2>2
      <4>2. \A S : files \in Seq(S) => \A k \in DOMAIN files : files[k] \in S
        OBVIOUS
      <4> HIDE DEF o
      <4> QED BY <1>4, <4>1, <4>2
    <3>2. /\ file \in [from : Nat, closer : Nat, at : Nat] /\ file.from = code[p].slot /\ file.at = p
      BY <1>2, <1>4, <3>1
    <3>3. files' = [files EXCEPT ![o] = file]
      BY <1>1, <1>4, <2>2, <3>1
    <3> HIDE DEF file
    <3>4. /\ DOMAIN files' = DOMAIN files /\ files'[o] = file
          /\ \A q \in DOMAIN files : q # o => files'[q] = files[q]
      BY <1>4, <3>1, <3>2, <3>3, ExceptFacts
    <3>5. Later(files, files')
      BY <3>1, <3>2, <3>4 DEF Later
    <3>6. FileInv'
      <4> SUFFICES ASSUME NEW q \in DOMAIN files', files'[q].closer # 0
                   PROVE  /\ files'[q].at \in DOMAIN code
                          /\ code[files'[q].at].op = "destroy" /\ code[files'[q].at].slot = files'[q].from
        BY <1>1 DEF FileInv
      <4>1. CASE q = o
        BY <1>2, <3>2, <3>4, <4>1
      <4>2. CASE q # o
        BY <3>4, <4>2 DEF RunInv, FileInv
      <4> QED BY <4>1, <4>2
    <3> QED BY <3>5, <3>6
  <2> QED BY <2>1, <2>2
<1> QED BY <1>1, <1>3, <1>6, GotoKeeps

\* A task is launched with its launcher's slots, and begins with its body.
LEMMA RunTaskKeeps ==
  ASSUME ResourceTypeOK, CheckInv, RunInv, NEW i \in DOMAIN threads, RunTask(i)
  PROVE  RunInv'
<1> DEFINE p == threads[i].pc
           task == Thread(p, threads[i].slots)
           moved == [threads[i] EXCEPT !.pc = Current(i).to + 1, !.slots[p] = Len(threads) + 1]
           old == [threads EXCEPT ![i] = moved]
<1>1. Before(i, "task") /\ UNCHANGED <<code, nest, files>>
  BY DEF RunTask, Running
<1>2. /\ code \in Seq(Statements) /\ BlockInv(code, <<>>)
      /\ p \in DOMAIN code /\ p \in Nat \ {0} /\ threads[i].from \in Nat /\ code[p].op = "task"
      /\ code[p] = Current(i)
      /\ InBody(code, threads[i].from, p) /\ ThreadKnown(code, threads, files, threads[i])
  BY <1>1, ThreadFacts
<1>3. threads' = Append(old, task) /\ moved \in Threads /\ task \in Threads
  BY OtherSteps DEF CheckInv, CodeInv
<1>4. threads \in Seq(Threads) /\ threads[i] \in Threads
  BY DEF ResourceTypeOK
<1>5. /\ moved.from = threads[i].from /\ moved.pc = code[p].to + 1 /\ moved.got = threads[i].got
      /\ moved.slots[p] = Len(threads) + 1
      /\ \A q \in 0 .. Len(code) : q # p => moved.slots[q] = threads[i].slots[q]
  <2>1. p \in 0 .. Len(code) /\ threads[i].slots \in [0 .. Len(code) -> Nat]
    BY <1>2, <1>4 DEF Threads
  <2> QED BY <1>2, <1>4, <2>1 DEF Threads
<1>6. task.from = p /\ task.pc = p + 1 /\ task.slots = threads[i].slots /\ task.got = {}
  BY DEF Thread
<1> HIDE DEF moved, task
<1>7. /\ old \in Seq(Threads) /\ Len(old) = Len(threads) /\ DOMAIN old = DOMAIN threads /\ old[i] = moved
      /\ \A k \in DOMAIN threads : k # i => old[k] = threads[k]
  BY <1>3, <1>4, ExceptFacts
<1> HIDE DEF old
<1>8. /\ DOMAIN threads' = 1 .. Len(threads) + 1 /\ DOMAIN threads = 1 .. Len(threads) /\ Len(threads) \in Nat
      /\ threads'[i] = moved /\ threads'[Len(threads) + 1] = task
      /\ \A k \in DOMAIN threads : k # i => threads'[k] = threads[k]
  <2>1. /\ DOMAIN threads' = 1 .. Len(old) + 1 /\ DOMAIN old = 1 .. Len(old) /\ Len(old) \in Nat
        /\ \A k \in DOMAIN old : threads'[k] = old[k]
        /\ threads'[Len(old) + 1] = task
    BY <1>3, <1>7, AppendFacts
  <2> QED BY <1>7, <2>1
<1>9. Later(threads, threads') /\ Later(files, files)
  BY <1>5, <1>8 DEF Later
<1>10. ThreadKnown(code, threads', files, threads[i])
  BY <1>2, <1>9, ThreadStays
<1>11. ThreadKnown(code, threads', files, moved)
  <2>1. InBody(code, moved.from, moved.pc)
    BY <1>2, <1>5, PastInBody DEF Opening
  <2>2. SlotsFilled(code, threads', files, moved.slots)
    <3>1. moved.slots[0] = 0
      BY <1>2, <1>5, <1>10 DEF ThreadKnown, SlotsFilled
    <3>2. ASSUME NEW q \in DOMAIN code, moved.slots[q] # 0
          PROVE  /\ code[q].op = "open" =>
                      moved.slots[q] \in DOMAIN files /\ files[moved.slots[q]].from = q
                 /\ code[q].op = "task" =>
                      moved.slots[q] \in DOMAIN threads' /\ threads'[moved.slots[q]].from = q
      <4>1. CASE q = p
        BY <1>2, <1>5, <1>6, <1>8, <4>1
      <4>2. CASE q # p
        <5>1. q \in 0 .. Len(code)
          BY <1>2
        <5>2. moved.slots[q] = threads[i].slots[q]
          BY <1>5, <4>2, <5>1
        <5> QED BY <1>10, <3>2, <5>2 DEF ThreadKnown, SlotsFilled
      <4> QED BY <4>1, <4>2
    <3> QED BY <3>1, <3>2 DEF SlotsFilled
  <2>3. GotKnown(code, threads', moved.from, moved.got)
    BY <1>5, <1>10 DEF ThreadKnown
  <2> QED BY <2>1, <2>2, <2>3 DEF ThreadKnown
<1>12. ThreadKnown(code, threads', files, task)
  <2>1. InBody(code, task.from, task.pc)
    BY <1>2, <1>6, TaskInBody
  <2>2. GotKnown(code, threads', task.from, task.got)
    BY <1>6 DEF GotKnown
  <2> QED BY <1>6, <1>10, <2>1, <2>2 DEF ThreadKnown
<1>13. ASSUME NEW k \in DOMAIN threads' PROVE ThreadKnown(code, threads', files, threads'[k])
  <2>1. CASE k = i
    BY <1>8, <1>11, <2>1
  <2>2. CASE k = Len(threads) + 1
    BY <1>8, <1>12, <2>2
  <2>3. CASE k \in DOMAIN threads /\ k # i
    <3>1. ThreadKnown(code, threads, files, threads[k])
      BY <2>3 DEF RunInv, ThreadInv
    <3> QED BY <1>8, <1>9, <2>3, <3>1, ThreadStays
  <2> QED BY <1>8, <2>1, <2>2, <2>3
<1>14. threads # <<>> /\ threads' # <<>>
  BY <1>8
<1>15. nest' = <<>> /\ FileInv'
  BY <1>1, <1>14 DEF RunInv, FileInv
<1> QED BY <1>1, <1>13, <1>14, <1>15 DEF RunInv, ThreadInv

\* A pull gets the task that its slot was filled with.
LEMMA RunPullKeeps ==
  ASSUME ResourceTypeOK, CheckInv, RunInv, NEW i \in DOMAIN threads, RunPull(i)
  PROVE  RunInv'
<1> DEFINE p == threads[i].pc
           t == Object(i)
           moved == [threads[i] EXCEPT !.pc = p + 1, !.got = @ \cup {<<t, p>>}]
<1>1. Before(i, "pull") /\ t # 0 /\ UNCHANGED <<code, nest, files>>
  BY DEF RunPull, Running
<1>2. /\ code \in Seq(Statements) /\ BlockInv(code, <<>>)
      /\ p \in DOMAIN code /\ p \in Nat \ {0} /\ threads[i].from \in Nat /\ code[p].op = "pull"
      /\ code[p] = Current(i)
      /\ InBody(code, threads[i].from, p) /\ ThreadKnown(code, threads, files, threads[i])
  BY <1>1, ThreadFacts
<1>3. threads' = [threads EXCEPT ![i] = moved] /\ moved \in Threads
  BY OtherSteps DEF CheckInv, CodeInv
<1>4. threads[i] \in Threads
  BY DEF ResourceTypeOK
<1>5. t \in DOMAIN threads /\ threads[t].from = code[p].slot
  <2>1. t = threads[i].slots[code[p].slot]
    BY <1>2 DEF Object
  <2>2. code[p].slot # 0
    BY <1>1, <1>2, <2>1 DEF ThreadKnown, SlotsFilled
  <2>3. code[p].slot \in DOMAIN code /\ code[code[p].slot].op = "task"
    BY <1>2, <2>2 DEF CheckInv, CodeInv, RefersWell
  <2> QED BY <1>1, <1>2, <2>1, <2>3 DEF ThreadKnown, SlotsFilled
<1>6. /\ moved.from = threads[i].from /\ moved.pc = p + 1 /\ moved.slots = threads[i].slots
      /\ moved.got = threads[i].got \cup {<<t, p>>}
  BY <1>4 DEF Threads
<1> HIDE DEF moved
<1>7. Later(files, files') /\ FileInv'
  BY <1>1 DEF Later, RunInv, FileInv
<1>8. ASSUME Later(threads, threads') PROVE ThreadKnown(code, threads', files', moved)
  <2>1. ThreadKnown(code, threads', files', threads[i])
    BY <1>2, <1>7, <1>8, ThreadStays
  <2>2. InBody(code, moved.from, moved.pc)
    BY <1>2, <1>6, NextInBody
  <2>3. GotKnown(code, threads', moved.from, moved.got)
    <3> SUFFICES ASSUME NEW g \in moved.got
                 PROVE  /\ g[1] \in DOMAIN threads' /\ g[2] \in DOMAIN code
                        /\ code[g[2]].op = "pull" /\ code[g[2]].slot = threads'[g[1]].from
                        /\ InBody(code, moved.from, g[2])
      BY DEF GotKnown
    <3>1. CASE g \in threads[i].got
      BY <1>6, <2>1, <3>1 DEF ThreadKnown, GotKnown
    <3>2. CASE g = <<t, p>>
      <4>1. g[1] = t /\ g[2] = p
        BY <3>2
      <4>2. t \in DOMAIN threads' /\ threads'[t].from = code[p].slot
        BY <1>5, <1>8 DEF Later
      <4> HIDE DEF t, p
      <4> QED BY <1>2, <1>6, <4>1, <4>2
    <3> QED BY <1>6, <3>1, <3>2
  <2> QED BY <1>6, <2>1, <2>2, <2>3 DEF ThreadKnown
<1> QED BY <1>1, <1>3, <1>6, <1>7, <1>8, OneMoves

\* So every step of a thread keeps the threads to what they must.
LEMMA RunStep ==
  ASSUME ResourceTypeOK, CheckInv, RunInv, NEW i \in DOMAIN threads, Step(i)
  PROVE  CheckInv' /\ RunInv'
<1>1. UNCHANGED <<code, sema, nest>>
  BY DEF Step, RunOpen, RunUse, RunDestroy, RunTask, RunEnd, RunPull, RunBranch, RunElse, RunBlock, Running
<1>2. CheckInv'
  BY <1>1 DEF CheckInv, BlockInv, KnowledgeInv
<1>3. RunInv'
  BY RunOpenKeeps, RunDestroyKeeps, RunTaskKeeps, RunPullKeeps, GoingKeeps DEF Step
<1> QED BY <1>2, <1>3

\* Checking runs no thread; the accepted program begins with one, of no task.
LEMMA CheckRuns ==
  ASSUME ResourceTypeOK, CheckInv, RunInv, CheckNext
  PROVE  RunInv'
<1>1. CASE Accept
  <2> DEFINE slots == [q \in 0 .. Len(code) |-> 0]
  <2>1. threads' = <<Thread(0, slots)>> /\ UNCHANGED <<code, nest, files>> /\ nest = <<>>
    BY <1>1 DEF Accept
  <2>2. DOMAIN threads' = {1} /\ threads' # <<>> /\ threads'[1] = Thread(0, slots)
    BY <2>1
  <2>3. code \in Seq(Statements) /\ BlockInv(code, <<>>)
    BY <2>1 DEF ResourceTypeOK, CheckInv
  <2>4. Thread(0, slots).from = 0 /\ Thread(0, slots).pc = 1
        /\ Thread(0, slots).slots = slots /\ Thread(0, slots).got = {}
    BY DEF Thread
  <2>5. slots[0] = 0 /\ \A q \in DOMAIN code : slots[q] = 0
    BY <2>3
  <2> HIDE DEF slots
  <2>6. InBody(code, 0, 1)
    <3>1. InBody(code, 0, 0 + 1)
      BY <2>3, TaskInBody
    <3> QED BY <3>1
  <2>7. SlotsFilled(code, threads', files', slots)
    BY <2>5 DEF SlotsFilled
  <2>8. ThreadKnown(code, threads', files', Thread(0, slots))
    BY <2>4, <2>6, <2>7 DEF ThreadKnown, GotKnown
  <2>9. FileInv'
    BY <2>1 DEF RunInv, FileInv
  <2> QED BY <2>1, <2>2, <2>8, <2>9 DEF RunInv, ThreadInv
<1>2. CASE threads = <<>> /\ UNCHANGED <<threads, files>>
  <2>1. files = <<>> /\ DOMAIN files' = {} /\ DOMAIN threads' = {}
    BY <1>2 DEF RunInv
  <2> QED BY <1>2, <2>1 DEF RunInv, ThreadInv, FileInv
<1> DEFINE still == threads = <<>> /\ UNCHANGED <<threads, files>>
<1>3. \A op, name : Enter(op, name) => still
  BY DEF Enter, Checking
<1>4. \A op : Leave(op) => still
  BY DEF Leave, Checking
<1>5. EnterIf \/ EnterLoop \/ (\E n \in Bodies : EnterTask(n) \/ EnterBlock(n)) => still
  BY <1>3 DEF EnterTask, EnterBlock, EnterIf, EnterLoop
<1>6. LeaveTask \/ LeaveBlock \/ LeaveLoop \/ LeaveIf \/ LeaveElse => still
  BY <1>4 DEF LeaveTask, LeaveBlock, LeaveLoop, LeaveIf, LeaveElse
<1>7. Else => still
  BY DEF Else, Checking
<1>8. \A f \in Resources : BindFile(f) \/ Use(f, "use") \/ Use(f, "write") \/ Destroy(f) => still
  BY DEF BindFile, Use, Destroy, Checking
<1>9. \A n \in Bodies : Pull(n) \/ (\E m \in Bodies : Order(n, m)) => still
  BY DEF Pull, Order, Checking
<1> HIDE DEF still
<1>10. Accept \/ still
  BY <1>5, <1>6, <1>7, <1>8, <1>9 DEF CheckNext
<1> QED BY <1>1, <1>2, <1>10 DEF still

-----------------------------------------------------------------------------
(* The invariant.                                                          *)

\* At the beginning nothing is known, and nothing runs.
LEMMA ResourceBegins == ResourceInit => ResourceInv
<1> SUFFICES ASSUME ResourceInit PROVE ResourceInv
  OBVIOUS
<1>1. code = <<>> /\ nest = <<>> /\ threads = <<>> /\ files = <<>>
  BY DEF ResourceInit
<1>2. DOMAIN code = {} /\ DOMAIN nest = {} /\ DOMAIN threads = {} /\ DOMAIN files = {}
  BY <1>1
<1>3. sema \in Knowledge /\ \A n \in Names : sema.slot[n] = 0
  BY DEF ResourceInit, Knowledge, Names
<1>4. graph \in Graphs
  BY DEF ResourceInit, Graphs, Names, Main
<1>5. ResourceTypeOK
  BY <1>1, <1>3, <1>4 DEF ResourceTypeOK
<1>6. BlockInv(code, nest)
  BY <1>2 DEF BlockInv, EndsMatch, Nested, OnStack, Opens
<1>7. KnowledgeInv(code, sema, nest)
  BY <1>2, <1>3 DEF KnowledgeInv, Knows, SlotsKnown, DestroyedKnown, PullsKnown, SavedKnown, OuterKept
<1>8. CodeInv(code)
  BY <1>2 DEF CodeInv, RefersWell, DestroyedOnce, PulledOnce
<1>9. RunInv
  BY <1>1, <1>2 DEF RunInv, ThreadInv, FileInv
<1> QED BY <1>5, <1>6, <1>7, <1>8, <1>9 DEF ResourceInv, CheckInv

\* Every visit and every step of a thread keep it.
LEMMA ResourceKeeps == ResourceInv /\ [ResourceNext]_resourceVars => ResourceInv'
<1> SUFFICES ASSUME ResourceInv, [ResourceNext]_resourceVars PROVE ResourceInv'
  OBVIOUS
<1>1. ResourceTypeOK /\ CheckInv /\ RunInv
  BY DEF ResourceInv
<1>2. CASE CheckNext
  <2>1. OnStack(code, nest)
    BY <1>1 DEF CheckInv, BlockInv
  <2> QED BY <1>1, <1>2, <2>1, CheckStepTypes, CheckStep, CheckRuns DEF ResourceInv
<1>3. CASE \E i \in DOMAIN threads : Step(i)
  <2>1. RefersWell(code)
    BY <1>1 DEF CheckInv, CodeInv
  <2> QED BY <1>1, <1>3, <2>1, RunStepTypes, RunStep DEF ResourceInv
<1>4. CASE UNCHANGED resourceVars
  <2>1. UNCHANGED <<code, sema, graph, nest, threads, files>>
    BY <1>4 DEF resourceVars
  <2>2. ResourceTypeOK'
    BY <1>1, <2>1 DEF ResourceTypeOK, Threads
  <2>3. CheckInv'
    BY <1>1, <2>1 DEF CheckInv, BlockInv, KnowledgeInv
  <2>4. RunInv'
    BY <1>1, <2>1 DEF RunInv, ThreadInv, FileInv
  <2> QED BY <2>2, <2>3, <2>4 DEF ResourceInv
<1> QED BY <1>2, <1>3, <1>4 DEF ResourceNext

\* A destroyed file is behind the statement that destroys it, for every thread
\* that still accesses it; and a pulled task behind the pull.
LEMMA InvariantShows == ResourceInv => NoUseAfterDestroy
<1> SUFFICES ASSUME ResourceInv, NEW i \in DOMAIN threads
             PROVE  /\ Accessing(i) => files[Object(i)].closer = 0 \/ threads[i].pc <= files[Object(i)].at
                    /\ Before(i, "pull") =>
                         \A got \in threads[i].got : got[1] = Object(i) => threads[i].pc <= got[2]
  BY DEF NoUseAfterDestroy
<1> DEFINE p == threads[i].pc
<1>1. ResourceTypeOK /\ CheckInv /\ RunInv /\ code \in Seq(Statements)
  BY DEF ResourceInv, ResourceTypeOK
<1>2. ThreadKnown(code, threads, files, threads[i])
  BY <1>1 DEF RunInv, ThreadInv
<1>3. ASSUME p \in DOMAIN code, Object(i) # 0
      PROVE  /\ Object(i) = threads[i].slots[code[p].slot] /\ code[p].slot # 0
             /\ code[p].slot \in DOMAIN code
             /\ code[code[p].slot].name = code[p].name
             /\ code[code[p].slot].op = IF code[p].op = "pull" THEN "task" ELSE "open"
  <2>1. Object(i) = threads[i].slots[code[p].slot]
    BY DEF Object, Current
  <2>2. code[p].slot # 0
    BY <1>2, <1>3, <2>1 DEF ThreadKnown, SlotsFilled
  <2> QED BY <1>1, <1>3, <2>1, <2>2 DEF CheckInv, CodeInv, RefersWell
<1>4. ASSUME Accessing(i), files[Object(i)].closer # 0 PROVE p <= files[Object(i)].at
  <2> DEFINE o == Object(i)
             q == files[o].at
  <2>1. p \in DOMAIN code /\ code[p].op \in Accesses /\ o # 0 /\ code[p].op # "pull"
    BY <1>4 DEF Accessing, Current, Accesses
  <2>2. o \in DOMAIN files /\ files[o].from = code[p].slot /\ code[p].slot # 0
    BY <1>2, <1>3, <2>1 DEF ThreadKnown, SlotsFilled
  <2>3. q \in DOMAIN code /\ code[q].op = "destroy" /\ code[q].slot = code[p].slot
    BY <1>1, <1>4, <2>2 DEF RunInv, FileInv
  <2>4. ~(q < p)
    BY <1>1, <2>1, <2>2, <2>3 DEF CheckInv, CodeInv, DestroyedOnce
  <2> QED BY <1>1, <2>1, <2>3, <2>4
<1>5. ASSUME Before(i, "pull"), NEW got \in threads[i].got, got[1] = Object(i) PROVE p <= got[2]
  <2> DEFINE q == got[2]
  <2>1. /\ BlockInv(code, <<>>) /\ p \in DOMAIN code /\ p \in Nat \ {0} /\ code[p].op = "pull"
        /\ InBody(code, threads[i].from, p)
    BY <1>1, <1>5, ThreadFacts
  <2>2. /\ got[1] \in DOMAIN threads /\ q \in DOMAIN code
        /\ code[q].op = "pull" /\ code[q].slot = threads[got[1]].from
        /\ InBody(code, threads[i].from, q)
    BY <1>2 DEF ThreadKnown, GotKnown
  <2>3. Object(i) # 0
    BY <1>1, <1>5, <2>2 DEF ResourceTypeOK
  <2>4. threads[Object(i)].from = code[p].slot /\ code[p].slot # 0 /\ code[code[p].slot].name = code[p].name
    BY <1>2, <1>3, <2>1, <2>3 DEF ThreadKnown, SlotsFilled
  <2>5. code[q].slot = code[p].slot
    BY <1>5, <2>2, <2>4
  <2>6. code[q].name = code[p].name
    BY <1>1, <2>2, <2>4, <2>5 DEF CheckInv, CodeInv, RefersWell
  <2>7. ~(q < p)
    <3> SUFFICES ASSUME q < p PROVE FALSE
      OBVIOUS
    <3>1. PICK t \in DOMAIN code : IsTask(code, t) /\ t < q /\ q < code[t].to /\ code[t].to < p
      BY <1>1, <2>1, <2>2, <2>6 DEF CheckInv, CodeInv, PulledOnce, InTaskBefore
    <3>2. t <= threads[i].from /\ threads[i].from < code[t].to
      BY <1>1, <2>2, <3>1, Places DEF InBody
    <3>3. p <= code[t].to
      BY <2>1, <3>1, <3>2 DEF InBody
    <3>4. code[t].to \in Nat
      BY <1>1, Places
    <3> QED BY <2>1, <3>1, <3>3, <3>4
  <2>8. q \in Nat
    BY <1>1, <2>2, Places
  <2> QED BY <2>1, <2>7, <2>8
<1> QED BY <1>4, <1>5

\* What the compiler keeps, and what the threads hold, are what they are meant to be.
THEOREM ResourceTypes == ResourceSpec => []ResourceTypeOK
<1>1. ResourceInv => ResourceTypeOK
  BY DEF ResourceInv
<1> QED BY <1>1, ResourceBegins, ResourceKeeps, PTL DEF ResourceSpec

\* On no path of an accepted program, of any length and nesting, does a statement
\* find destroyed what a statement before it in the program has destroyed, and
\* no thread pulls a task again that it has pulled by a statement before
\* (typeInfer of NameAST, ResourceWriteAST, TaskBlockAST and CondFlowAST).
THEOREM UseAfterDestroy == ResourceSpec => []NoUseAfterDestroy
<1> QED BY ResourceBegins, ResourceKeeps, InvariantShows, PTL DEF ResourceSpec
=============================================================================
