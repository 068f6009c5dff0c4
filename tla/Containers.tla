----------------------------- MODULE Containers -----------------------------
(***************************************************************************)
(* The lists, dicts and matrices of the runtime                            *)
(* (src/src/StyioExtern/ExternLib.cpp): the styio_list_*, styio_dict_* and *)
(* styio_matrix_* entry points as far as they create, copy, nest and       *)
(* destroy objects, and the thread-exit cleanup.  A list or a dict whose   *)
(* elements are containers holds their handles and owns them: every entry  *)
(* point that stores or returns a nested container makes a deep copy.      *)
(*                                                                         *)
(* One thread: the handle table is thread_local.  The program holds the    *)
(* handles it was given and has not released (roots); handle 0 stands for  *)
(* the result of a call that failed.  A call that fails (wrong kind, index *)
(* out of range, missing key, handle 0) sets the thread's error slot,      *)
(* which TaskScheduler models, and changes nothing here.                   *)
(* Which backend a dict uses makes no difference to its entries: see       *)
(* DictBackend.                                                            *)
(***************************************************************************)
EXTENDS Naturals, Sequences, FiniteSets, SequencesExt

CONSTANTS Scalars,    \* element values that are not handles
          ItemKeys,   \* dict keys
          NoKey,      \* the key of a list element
          Creatable,  \* the <<kind, elem>> pairs the program makes (bound)
          MaxSlots,   \* bound on entries_.size()
          MaxItems    \* bound on the elements of all containers together

ASSUME ContainersAssumption ==
  /\ NoKey \notin ItemKeys
  /\ Creatable \subseteq {"list", "dict", "matrix", "file"} \X {"scalar", "list", "dict"}
  /\ MaxSlots \in Nat /\ MaxItems \in Nat

VARIABLES heap,     \* g_handle_table; a slot's pointer is the object itself
          active,   \* g_active_list_handles, g_active_dict_handles, g_active_matrix_handles
          roots,    \* the handles the program holds
          stage,    \* 0 while the program runs, then the release_all of the cleanup
          nextFreed \* the index that release_all looks at next

containerVars == <<heap, active, roots, stage, nextFreed>>

\* HandleTableCleanup releases these kinds in this order (tasks: TaskScheduler).
CleanupOrder == <<"file", "list", "dict", "matrix">>
ContainerKinds == Range(CleanupOrder)
Counted == ContainerKinds \ {"file"}

HT == INSTANCE HandleTable WITH
        Kinds <- ContainerKinds, Unknown <- "unknown", Null <- "null", Ptrs <- {}, MaxEntries <- MaxSlots,
        table <- heap, scan <- nextFreed, sweep <- "unknown"

ContainersInit ==
  /\ heap = HT!EmptyTable
  /\ active = [k \in Counted |-> 0]
  /\ roots = {}
  /\ stage = 0 /\ nextFreed = 0

-----------------------------------------------------------------------------
(* What a call does to the table and the counters, as a function of both:  *)
(* st = [tab, active], and [st, id] for a call that returns a handle.      *)

Now == [tab |-> heap, active |-> active]

\* elem_kind / value_kind and the elements; the key of a list element is NoKey.
Object(elem, items) == [elem |-> elem, items |-> items]
Item(key, val) == [key |-> key, val |-> val]

Handles == {"list", "dict"}   \* the element kinds that are handles

\* stash_list, stash_dict, stash_matrix, stash_file: files are not counted.
Stash(st, kind, obj) ==
  [st |-> [tab    |-> HT!Fill(st.tab, HT!MakeEntry(kind, obj, TRUE)),
           active |-> [k \in Counted |-> st.active[k] + (IF k = kind THEN 1 ELSE 0)]],
   id |-> HT!NextId(st.tab)]

\* clone_list_handle_value, clone_dict_handle_value: the elements first, in
\* order, then the container; 0 for a handle that is not of the kind.
RECURSIVE CloneHandle(_, _, _)
CloneHandle(st, kind, h) ==
  IF ~HT!Live(st.tab, h, kind) THEN [st |-> st, id |-> 0]
  ELSE LET obj == HT!Lookup(st.tab, h, kind)
           copy(acc, item) ==
             LET c == CloneHandle(acc.st, obj.elem, item.val)
             IN  [st |-> c.st, items |-> Append(acc.items, Item(item.key, c.id))]
           copied == IF obj.elem \in Handles
                       THEN FoldLeft(copy, [st |-> st, items |-> <<>>], obj.items)
                       ELSE [st |-> st, items |-> obj.items]
       IN  Stash(copied.st, kind, Object(obj.elem, copied.items))

\* g_handle_table.release with close_list, close_dict or close_matrix: the
\* slot is recycled, then the nested handles are released, then the counter
\* goes down.
RECURSIVE ReleaseHandle(_, _, _)
ReleaseHandle(st, kind, h) ==
  IF ~HT!Live(st.tab, h, kind) THEN st
  ELSE LET obj == HT!Lookup(st.tab, h, kind)
           recycled == [st EXCEPT !.tab = HT!Recycle(@, h)]
           releaseItem(s, item) == ReleaseHandle(s, obj.elem, item.val)
           closed == IF obj.elem \in Handles
                       THEN FoldLeft(releaseItem, recycled, obj.items) ELSE recycled
       IN  [closed EXCEPT !.active =
              [k \in Counted |-> IF k = kind /\ @[k] > 0 THEN @[k] - 1 ELSE @[k]]]

\* A nested element is dropped.
Drop(st, elem, v) == IF elem \in Handles THEN ReleaseHandle(st, elem, v) ELSE st

\* What is stored for the argument v: a copy of a container, a scalar as it is.
Stored(st, elem, v) == IF elem \in Handles THEN CloneHandle(st, elem, v) ELSE [st |-> st, id |-> v]

-----------------------------------------------------------------------------
\* The program's arguments: its handles, or 0 from a call that failed.
Args == roots \cup {0}
ArgsOf(elem) == IF elem \in Handles THEN Args ELSE Scalars

\* as_list_*, as_dict_*: the object of a handle of the right kinds.
Is(h, kind, elem) == HT!Live(heap, h, kind) /\ heap.entries[h].ptr.elem = elem
Items(h) == heap.entries[h].ptr.items

Objects(tab) == {h \in DOMAIN tab.entries : HT!Occupied(tab, h)}

\* The elements of all containers, by container and position.
Places(tab) ==
  UNION {{h} \X DOMAIN tab.entries[h].ptr.items : h \in Objects(tab)}

\* The new state, with the bounds on the table and the elements.
Commit(st) ==
  /\ Len(st.tab.entries) <= MaxSlots
  /\ Cardinality(Places(st.tab)) <= MaxItems
  /\ heap' = st.tab /\ active' = st.active
  /\ UNCHANGED <<stage, nextFreed>>

Return(result) ==
  /\ Commit(result.st)
  /\ roots' = roots \cup ({result.id} \ {0})

\* The container's own elements are written last, through the pointer that
\* the call looked up first.
Write(st, h, items) ==
  /\ Commit([st EXCEPT !.tab.entries[h].ptr.items = items])
  /\ UNCHANGED roots

Running == stage = 0

\* styio_list_new_*, styio_dict_new_*, styio_matrix_new_*, styio_file_open
New(kind, elem) ==
  /\ Running
  /\ Return(Stash(Now, kind, Object(elem, <<>>)))

\* styio_list_clone, styio_dict_clone, styio_matrix_clone_*
Clone(kind, h) ==
  /\ Running
  /\ Return(CloneHandle(Now, kind, h))

\* styio_list_push_*, styio_list_insert_*: pos is the length for a push.
ListInsert(elem, h, pos, v) ==
  LET s == Stored(Now, elem, v) IN
  /\ Running /\ Is(h, "list", elem)
  /\ pos <= Len(Items(h))
  /\ Write(s.st, h, InsertAt(Items(h), pos + 1, Item(NoKey, s.id)))

\* styio_list_set_*: copy the new element, release the old one, store.
ListSet(elem, h, pos, v) ==
  LET s == Stored(Now, elem, v) IN
  /\ Running /\ Is(h, "list", elem)
  /\ pos < Len(Items(h))
  /\ Write(Drop(s.st, elem, Items(h)[pos + 1].val), h,
           [Items(h) EXCEPT ![pos + 1].val = s.id])

\* styio_list_get_list, styio_list_get_dict (a scalar changes nothing)
ListGet(elem, h, pos) ==
  /\ Running /\ Is(h, "list", elem) /\ elem \in Handles
  /\ pos < Len(Items(h))
  /\ Return(CloneHandle(Now, elem, Items(h)[pos + 1].val))

\* styio_list_pop
ListPop(elem, h) ==
  /\ Running /\ Is(h, "list", elem)
  /\ Items(h) # <<>>
  /\ Write(Drop(Now, elem, Last(Items(h)).val), h, Front(Items(h)))

\* The position of a key; 0 if there is none.
KeyPos(h, key) == SelectInSeq(Items(h), LAMBDA item : item.key = key)

\* Mutant of DictSet: the value that is replaced is not released.
DictSetLeaking(elem, h, key, v) ==
  LET s == Stored(Now, elem, v)
      p == KeyPos(h, key)
  IN
  /\ Running /\ Is(h, "dict", elem)
  /\ Write(s.st, h, IF p = 0 THEN Append(Items(h), Item(key, s.id))
                    ELSE [Items(h) EXCEPT ![p].val = s.id])

\* styio_dict_set_*: the copy is made before the existing value is released.
DictSet(elem, h, key, v) ==
  LET s == Stored(Now, elem, v)
      p == KeyPos(h, key)
  IN
  /\ Running /\ Is(h, "dict", elem)
  /\ IF p = 0
       THEN Write(s.st, h, Append(Items(h), Item(key, s.id)))
       ELSE Write(Drop(s.st, elem, Items(h)[p].val), h,
                  [Items(h) EXCEPT ![p].val = s.id])

\* Mutant of DictGet: the nested handle itself is returned.
DictGetAliased(elem, h, key) ==
  /\ Running /\ Is(h, "dict", elem) /\ elem \in Handles
  /\ KeyPos(h, key) # 0
  /\ Return([st |-> Now, id |-> Items(h)[KeyPos(h, key)].val])

\* styio_dict_get_list, styio_dict_get_dict
DictGet(elem, h, key) ==
  /\ Running /\ Is(h, "dict", elem) /\ elem \in Handles
  /\ KeyPos(h, key) # 0
  /\ Return(CloneHandle(Now, elem, Items(h)[KeyPos(h, key)].val))

\* styio_dict_keys: a new list of strings.
DictKeys(elem, h) ==
  /\ Running /\ Is(h, "dict", elem)
  /\ Return(Stash(Now, "list", Object("scalar",
              [i \in DOMAIN Items(h) |-> Item(NoKey, Items(h)[i].key)])))

\* styio_dict_values_*: a new list of copies, stashed after its elements.
DictValues(elem, h) ==
  LET copy(acc, item) ==
        LET c == Stored(acc.st, elem, item.val)
        IN  [st |-> c.st, items |-> Append(acc.items, Item(NoKey, c.id))]
      copied == FoldLeft(copy, [st |-> Now, items |-> <<>>], Items(h))
  IN
  /\ Running /\ Is(h, "dict", elem)
  /\ Return(Stash(copied.st, "list", Object(elem, copied.items)))

\* styio_list_release, styio_dict_release, styio_matrix_release, styio_file_close
ReleaseContainer(kind, h) ==
  /\ Running /\ HT!Live(heap, h, kind)
  /\ Commit(ReleaseHandle(Now, kind, h))
  /\ roots' = roots \ {h}

\* The thread ends: HandleTableCleanup, one release_all per kind.
ThreadExit ==
  /\ Running
  /\ stage' = 1 /\ nextFreed' = 1 /\ roots' = {}
  /\ UNCHANGED <<heap, active>>

CleanupStep ==
  LET st == ReleaseHandle(Now, CleanupOrder[stage], nextFreed) IN
  /\ stage \in DOMAIN CleanupOrder /\ nextFreed \in DOMAIN heap.entries
  /\ heap' = st.tab /\ active' = st.active
  /\ nextFreed' = nextFreed + 1
  /\ UNCHANGED <<roots, stage>>

\* Mutant of CleanupNext: the next kind starts where the last one ended.
CleanupNextNoRestart ==
  /\ stage \in DOMAIN CleanupOrder /\ nextFreed \notin DOMAIN heap.entries
  /\ stage' = stage + 1
  /\ UNCHANGED <<heap, active, roots, nextFreed>>

CleanupNext ==
  /\ stage \in DOMAIN CleanupOrder /\ nextFreed \notin DOMAIN heap.entries
  /\ stage' = stage + 1 /\ nextFreed' = 1
  /\ UNCHANGED <<heap, active, roots>>

Ended == stage = Len(CleanupOrder) + 1
Terminated == Ended /\ UNCHANGED containerVars

ListCall(elem, h) ==
  /\ Is(h, "list", elem)
  /\ \/ ListPop(elem, h)
     \/ \E pos \in 0 .. Len(Items(h)) :
          \/ ListGet(elem, h, pos)
          \/ \E v \in ArgsOf(elem) : ListInsert(elem, h, pos, v) \/ ListSet(elem, h, pos, v)

DictCall(elem, h) ==
  /\ Is(h, "dict", elem)
  /\ \/ DictKeys(elem, h) \/ DictValues(elem, h)
     \/ \E key \in ItemKeys :
          \/ DictGet(elem, h, key)
          \/ \E v \in ArgsOf(elem) : DictSet(elem, h, key, v)

Call(h) ==
  \/ \E elem \in {"scalar"} \cup Handles : ListCall(elem, h) \/ DictCall(elem, h)
  \/ \E kind \in Counted : Clone(kind, h)
  \/ \E kind \in ContainerKinds : ReleaseContainer(kind, h)

ContainersNext ==
  \/ Running /\ ((\E <<kind, elem>> \in Creatable : New(kind, elem)) \/ \E h \in Args : Call(h))
  \/ ThreadExit \/ CleanupStep \/ CleanupNext \/ Terminated

ContainersSpec == ContainersInit /\ [][ContainersNext]_containerVars

-----------------------------------------------------------------------------
\* The places that own handle h: the program, or an element of a container.
Owners(h) ==
  {<<0, 0>> : r \in roots \cap {h}}
    \cup {<<p, i>> \in Places(heap) :
            heap.entries[p].ptr.elem \in Handles /\ Items(p)[i].val = h}

\* Every occupied slot is a valid container of a known kind (no call leaves a
\* stub behind), and the counters, the roots and the cleanup have their types.
ContainersTypeOK ==
  /\ \A h \in Objects(heap) :
       /\ heap.entries[h].kind \in ContainerKinds /\ heap.entries[h].valid
       /\ Items(h) \in Seq([key : ItemKeys \cup {NoKey}, val : Nat \cup Scalars \cup ItemKeys])
  /\ active \in [Counted -> Nat]
  /\ roots \subseteq 1 .. MaxSlots
  /\ stage \in 0 .. Len(CleanupOrder) + 1 /\ nextFreed \in 0 .. MaxSlots + 1

\* Every container has exactly one owner, the program or one element of one
\* container, and an element that is a handle is 0 or a live container of the
\* element kind.  A stored handle that was not copied, or an element released
\* but still listed, would be closed twice or used after it is closed.
OwnedOnce ==
  Running =>
    \A h \in Objects(heap) :
      /\ Cardinality(Owners(h)) = 1
      /\ heap.entries[h].ptr.elem \in Handles =>
           \A i \in DOMAIN Items(h) :
             Items(h)[i].val # 0 => HT!Live(heap, Items(h)[i].val, heap.entries[h].ptr.elem)

\* styio_list_active_count, styio_dict_active_count and the matrix one count
\* the live objects of the kind: the guard "if (g_active... > 0)" in the
\* closers never hides a double close.  And the cleanup frees everything,
\* although it meets nested containers before or after their parents, whose
\* close then finds their slots already vacant.
CleanupFreesAll ==
  /\ \A k \in Counted : active[k] = Cardinality({h \in Objects(heap) : heap.entries[h].kind = k})
  /\ Ended => Objects(heap) = {}

\* What the program sees through a handle.
RECURSIVE ValueOf(_, _, _)
ValueOf(tab, kind, h) ==
  IF ~HT!Live(tab, h, kind) THEN [kind |-> "absent", elem |-> "scalar", items |-> <<>>]
  ELSE LET obj == HT!Lookup(tab, h, kind)
           see(item) == IF obj.elem \in Handles
                          THEN Item(item.key, ValueOf(tab, obj.elem, item.val)) ELSE item
       IN  [kind |-> kind, elem |-> obj.elem, items |-> [i \in DOMAIN obj.items |-> see(obj.items[i])]]

Seen(tab, h) == ValueOf(tab, tab.entries[h].kind, h)

\* Containers are values: a call changes what is seen through at most one
\* handle the program holds, and a call that makes or releases a handle
\* changes none, however the containers were copied out of one another.
Independent ==
  LET changed == {h \in roots \cap roots' : Seen(heap, h) # Seen(heap', h)} IN
  Cardinality(changed) <= 1 /\ (roots' # roots => changed = {})

ValueSemantics == [][Independent]_containerVars
=============================================================================
