----------------------------- MODULE HandleTable -----------------------------
(***************************************************************************)
(* StyioHandleTable (src/src/StyioRuntime/HandleTable.hpp): the numbers by *)
(* which generated code names files, lists, dicts, matrices and tasks.     *)
(* Slots are reused last-in first-out, so a number is only as good as the  *)
(* bookkeeping of free_handles_.                                           *)
(*                                                                         *)
(* A table is a record [entries, free]; the operators below are the        *)
(* methods, as functions of a table, so that the runtime's containers      *)
(* (Containers.tla) can use several of them in one call.  The state        *)
(* machine is a client that calls the methods in any order, and, while     *)
(* release_all runs, a closer that releases other handles.                 *)
(***************************************************************************)
EXTENDS Naturals, Sequences

CONSTANTS Kinds,       \* HandleKind, without Unknown
          Unknown,     \* HandleKind::Unknown: a free slot; as an argument, any kind
          Ptrs,        \* what a handle may stand for
          Null,        \* nullptr
          MaxEntries   \* bound on entries_.size()

ASSUME HandleTableAssumption ==
  /\ Unknown \notin Kinds
  /\ Null \notin Ptrs
  /\ MaxEntries \in Nat

Entry == [kind : Kinds \cup {Unknown}, ptr : Ptrs \cup {Null}, valid : BOOLEAN]
Table == [entries : Seq(Entry), free : Seq(Nat)]

EmptyTable == [entries |-> <<>>, free |-> <<>>]

MakeEntry(kind, ptr, valid) == [kind |-> kind, ptr |-> ptr, valid |-> valid]
Vacant == MakeEntry(Unknown, Null, FALSE)

\* entry_for, occupied
Occupied(tab, id) == id \in DOMAIN tab.entries /\ tab.entries[id].kind # Unknown
Matches(tab, id, kind) == kind \in {Unknown, tab.entries[id].kind}

\* The number acquire and reserve_stub hand out: the slot freed last, if any.
NextId(tab) == IF tab.free = <<>> THEN Len(tab.entries) + 1 ELSE tab.free[Len(tab.free)]

\* Mutants of Fill: the free list is not popped; it is not looked at.
FillKeepingFree(tab, e) ==
  IF tab.free = <<>>
    THEN [entries |-> Append(tab.entries, e), free |-> tab.free]
    ELSE [entries |-> [tab.entries EXCEPT ![NextId(tab)] = e], free |-> tab.free]

FillAppending(tab, e) == [entries |-> Append(tab.entries, e), free |-> tab.free]

\* ... and the table with e in that slot.
Fill(tab, e) ==
  IF tab.free = <<>>
    THEN [entries |-> Append(tab.entries, e), free |-> tab.free]
    ELSE [entries |-> [tab.entries EXCEPT ![NextId(tab)] = e],
          free    |-> SubSeq(tab.free, 1, Len(tab.free) - 1)]

\* recycle_handle
Recycle(tab, id) ==
  [entries |-> [tab.entries EXCEPT ![id] = Vacant], free |-> Append(tab.free, id)]

\* lookup; a slot that is not valid holds a null pointer.
Live(tab, id, kind) == id \in DOMAIN tab.entries /\ tab.entries[id].valid /\ Matches(tab, id, kind)
Lookup(tab, id, kind) == IF Live(tab, id, kind) THEN tab.entries[id].ptr ELSE Null

-----------------------------------------------------------------------------
VARIABLES table,   \* the table
          scan,    \* the index release_all looks at next; 0 when it is not running
          sweep    \* the kind release_all was called with

vars == <<table, scan, sweep>>

Init == table = EmptyTable /\ scan = 0 /\ sweep = Unknown

\* The bound: a slot is free, or the vector may still grow.
Room == table.free # <<>> \/ Len(table.entries) < MaxEntries

\* A null pointer is never given a slot.
Acquire(kind, ptr) ==
  /\ scan = 0 /\ Room /\ ptr # Null
  /\ table' = Fill(table, MakeEntry(kind, ptr, TRUE))
  /\ UNCHANGED <<scan, sweep>>

ReserveStub(kind) ==
  /\ scan = 0 /\ Room
  /\ table' = Fill(table, MakeEntry(kind, Null, FALSE))
  /\ UNCHANGED <<scan, sweep>>

\* release: the slot is recycled before the closer runs.  A closer calls this
\* for the handles nested in what it closes.
Release(id, kind) ==
  /\ Live(table, id, kind)
  /\ table' = Recycle(table, id)
  /\ UNCHANGED <<scan, sweep>>

Invalidate(id) ==
  /\ scan = 0
  /\ Occupied(table, id)
  /\ table' = Recycle(table, id)
  /\ UNCHANGED <<scan, sweep>>

\* release_all, one index at a time: stubs of the kind go as well.
ReleaseAll(kind) ==
  /\ scan = 0
  /\ scan' = 1 /\ sweep' = kind
  /\ UNCHANGED table

\* Mutant of ReleaseAllStep: the loop index moves twice when a slot is released.
ReleaseAllStepSkipping ==
  /\ scan \in DOMAIN table.entries
  /\ LET hit == Occupied(table, scan) /\ Matches(table, scan, sweep)
     IN  /\ table' = IF hit THEN Recycle(table, scan) ELSE table
         /\ scan' = IF hit THEN scan + 2 ELSE scan + 1
  /\ UNCHANGED sweep

ReleaseAllStep ==
  /\ scan \in DOMAIN table.entries
  /\ table' = IF Occupied(table, scan) /\ Matches(table, scan, sweep)
                THEN Recycle(table, scan) ELSE table
  /\ scan' = scan + 1
  /\ UNCHANGED sweep

ReleaseAllDone ==
  /\ scan # 0 /\ scan \notin DOMAIN table.entries
  /\ scan' = 0
  /\ UNCHANGED <<table, sweep>>

Next ==
  \/ \E kind \in Kinds : ReserveStub(kind) \/ \E ptr \in Ptrs : Acquire(kind, ptr)
  \/ \E id \in 1 .. MaxEntries : Invalidate(id) \/ \E kind \in Kinds \cup {Unknown} : Release(id, kind)
  \/ \E kind \in Kinds \cup {Unknown} : ReleaseAll(kind)
  \/ ReleaseAllStep \/ ReleaseAllDone

Spec == Init /\ [][Next]_vars

-----------------------------------------------------------------------------
\* The table is made of entries and handle numbers, and grows only when no
\* slot is free: never beyond MaxEntries.
TypeOK ==
  /\ table \in Table
  /\ Len(table.entries) <= MaxEntries
  /\ scan \in Nat
  /\ sweep \in Kinds \cup {Unknown}

\* free_handles_ lists exactly the vacant slots, each once.  A slot listed
\* twice would be handed out twice; one that is missing would be lost.
FreeExact(tab) ==
  /\ \A i \in DOMAIN tab.free : tab.free[i] \in DOMAIN tab.entries
  /\ \A i, j \in DOMAIN tab.free : tab.free[i] = tab.free[j] => i = j
  /\ \A id \in DOMAIN tab.entries :
       Occupied(tab, id) <=> \A i \in DOMAIN tab.free : tab.free[i] # id

\* The free list of the table stays exact under every sequence of calls.
FreeListExact == FreeExact(table)

\* No call takes a handle from its owner: what an occupied slot holds changes
\* only to vacant, never to another object, so a number obtained from acquire
\* denotes one object until it is released.
HandleIsStable ==
  [][\A id \in DOMAIN table.entries :
       Occupied(table, id) => table'.entries[id] \in {table.entries[id], Vacant}]_vars

\* release_all misses nothing, although its closers recycle slots behind and
\* ahead of it: no slot of the kind is left below the index it has reached.
SweepComplete ==
  \A id \in DOMAIN table.entries :
    id < scan /\ Occupied(table, id) => ~Matches(table, id, sweep)
=============================================================================
