----------------------------- MODULE StoreProofs -----------------------------
(***************************************************************************)
(* Proofs about the runtime's stores: HandleTable, for every set of kinds, *)
(* every set of objects and every bound on the table, and DictBackend,     *)
(* whose two backends implement the ordered map for every set of keys and  *)
(* values and dicts of every length.                                       *)
(***************************************************************************)
EXTENDS HandleTable, DictBackend, TLAPS

-----------------------------------------------------------------------------
(* The handle table. *)

\* A vacant slot is not valid; acquire and reserve_stub give a slot a kind.
VacantInvalid(tab) ==
  \A id \in DOMAIN tab.entries : tab.entries[id].kind = Unknown => ~tab.entries[id].valid

\* What the methods rely on and keep.
Sound(tab) == tab \in Table /\ FreeExact(tab) /\ VacantInvalid(tab)

IInv == Sound(table) /\ Len(table.entries) <= MaxEntries /\ scan \in Nat
          /\ sweep \in Kinds \cup {Unknown} /\ SweepComplete

-----------------------------------------------------------------------------
\* acquire and reserve_stub hand out a slot that nobody holds.
LEMMA NextIdIsVacant ==
  ASSUME NEW tab, Sound(tab)
  PROVE  /\ ~Occupied(tab, NextId(tab))
         /\ NextId(tab) \in Nat \ {0}
         /\ tab.free # <<>> => NextId(tab) \in DOMAIN tab.entries
<1>1. CASE tab.free = <<>>
  BY <1>1 DEF Sound, Table, NextId, Occupied
<1>2. CASE tab.free # <<>>
  <2>1. Len(tab.free) \in DOMAIN tab.free
    BY <1>2 DEF Sound, Table
  <2>2. NextId(tab) = tab.free[Len(tab.free)]
    BY <1>2 DEF NextId
  <2> QED BY <1>2, <2>1, <2>2 DEF Sound, FreeExact, Table
<1> QED BY <1>1, <1>2

\* Filling a slot keeps the bookkeeping right and touches no other slot.
LEMMA FillKeeps ==
  ASSUME NEW tab, Sound(tab), NEW e \in Entry, e.kind # Unknown
  PROVE  /\ Sound(Fill(tab, e))
         /\ Len(Fill(tab, e).entries) = IF tab.free = <<>> THEN Len(tab.entries) + 1
                                                            ELSE Len(tab.entries)
         /\ \A id \in DOMAIN tab.entries :
              Fill(tab, e).entries[id] = IF id = NextId(tab) THEN e ELSE tab.entries[id]
         /\ Fill(tab, e).entries[NextId(tab)] = e
<1> DEFINE new == Fill(tab, e)
<1>0. tab.entries \in Seq(Entry) /\ tab.free \in Seq(Nat)
  BY DEF Sound, Table
<1>1. CASE tab.free = <<>>
  <2>1. new = [entries |-> Append(tab.entries, e), free |-> tab.free]
    BY <1>1 DEF Fill
  <2>2. new.entries = Append(tab.entries, e) /\ new.free = <<>>
    BY <1>1, <2>1
  <2>3. new \in Table
    BY <1>0, <2>1 DEF Table
  <2>4. FreeExact(new)
    BY <1>0, <1>1, <2>2 DEF FreeExact, Occupied, Sound
  <2>5. VacantInvalid(new)
    BY <1>0, <2>2 DEF VacantInvalid, Sound
  <2> QED BY <1>0, <1>1, <2>2, <2>3, <2>4, <2>5 DEF Sound, NextId
<1>2. CASE tab.free # <<>>
  <2> DEFINE n == NextId(tab)
  <2>1. new = [entries |-> [tab.entries EXCEPT ![n] = e],
               free |-> SubSeq(tab.free, 1, Len(tab.free) - 1)]
    BY <1>2 DEF Fill
  <2>2. n \in DOMAIN tab.entries /\ n = tab.free[Len(tab.free)]
    BY <1>2, NextIdIsVacant DEF NextId
  <2>3. /\ DOMAIN new.entries = DOMAIN tab.entries /\ Len(new.entries) = Len(tab.entries)
        /\ new.entries \in Seq(Entry)
        /\ \A id \in DOMAIN tab.entries : new.entries[id] = IF id = n THEN e ELSE tab.entries[id]
    BY SMTT(60), <1>0, <2>1, <2>2
  <2>4. /\ new.free \in Seq(Nat)
        /\ DOMAIN new.free = 1 .. Len(tab.free) - 1
        /\ \A i \in DOMAIN new.free : new.free[i] = tab.free[i] /\ i \in DOMAIN tab.free
                                        /\ i # Len(tab.free)
    BY <1>0, <1>2, <2>1
  <2>5. Len(tab.free) \in DOMAIN tab.free
    BY <1>0, <1>2
  <2>6. FreeExact(new)
    <3>1. \A i \in DOMAIN new.free : new.free[i] \in DOMAIN new.entries /\ new.free[i] # n
      BY <2>2, <2>3, <2>4, <2>5 DEF Sound, FreeExact
    <3>2. \A i, j \in DOMAIN new.free : new.free[i] = new.free[j] => i = j
      BY <2>4 DEF Sound, FreeExact
    <3>3. ASSUME NEW id \in DOMAIN new.entries
          PROVE  Occupied(new, id) <=> \A i \in DOMAIN new.free : new.free[i] # id
      <4>1. CASE id = n
        BY <2>2, <2>3, <3>1, <4>1 DEF Occupied
      <4>2. CASE id # n
        <5>1. Occupied(new, id) <=> Occupied(tab, id)
          BY <2>3, <4>2 DEF Occupied
        <5>2. (\A i \in DOMAIN tab.free : tab.free[i] # id)
                <=> (\A i \in DOMAIN new.free : new.free[i] # id)
          <6>1. \A i \in DOMAIN tab.free : i \in DOMAIN new.free \/ i = Len(tab.free)
            BY <1>0, <2>4
          <6> QED BY <2>2, <2>4, <4>2, <6>1
        <5> QED BY <2>3, <5>1, <5>2 DEF Sound, FreeExact
      <4> QED BY <4>1, <4>2
    <3> QED BY <3>1, <3>2, <3>3 DEF FreeExact
  <2>7. VacantInvalid(new)
    BY <2>3 DEF VacantInvalid, Sound
  <2>8. new \in Table
    BY <2>1, <2>3, <2>4 DEF Table
  <2> QED BY <1>2, <2>2, <2>3, <2>6, <2>7, <2>8 DEF Sound
<1> QED BY <1>1, <1>2

\* Recycling an occupied slot vacates that slot only.
LEMMA RecycleKeeps ==
  ASSUME NEW tab, Sound(tab), NEW id, Occupied(tab, id)
  PROVE  /\ Sound(Recycle(tab, id))
         /\ Len(Recycle(tab, id).entries) = Len(tab.entries)
         /\ DOMAIN Recycle(tab, id).entries = DOMAIN tab.entries
         /\ \A k \in DOMAIN tab.entries :
              Recycle(tab, id).entries[k] = IF k = id THEN Vacant ELSE tab.entries[k]
<1> DEFINE new == Recycle(tab, id)
<1>0. tab.entries \in Seq(Entry) /\ tab.free \in Seq(Nat) /\ id \in DOMAIN tab.entries /\ id \in Nat
  BY DEF Sound, Table, Occupied
<1>1. Vacant \in Entry /\ Vacant.kind = Unknown /\ ~Vacant.valid
  BY DEF Vacant, MakeEntry, Entry
<1>2. new = [entries |-> [tab.entries EXCEPT ![id] = Vacant], free |-> Append(tab.free, id)]
  BY DEF Recycle
<1>3. /\ DOMAIN new.entries = DOMAIN tab.entries /\ Len(new.entries) = Len(tab.entries)
      /\ new.entries \in Seq(Entry)
      /\ \A k \in DOMAIN tab.entries : new.entries[k] = IF k = id THEN Vacant ELSE tab.entries[k]
  BY <1>0, <1>1, <1>2
<1>4. /\ new.free \in Seq(Nat)
      /\ DOMAIN new.free = 1 .. Len(tab.free) + 1
      /\ new.free[Len(tab.free) + 1] = id
      /\ \A i \in DOMAIN tab.free : new.free[i] = tab.free[i] /\ i \in DOMAIN new.free
  BY <1>0, <1>2
<1>5. \A i \in DOMAIN new.free : i \in DOMAIN tab.free \/ i = Len(tab.free) + 1
  BY <1>0, <1>4
<1>6. \A i \in DOMAIN tab.free : tab.free[i] # id
  BY <1>0 DEF Sound, FreeExact
<1>7. Len(tab.free) + 1 \in DOMAIN new.free
  BY <1>0, <1>4
<1>8. FreeExact(new)
  <2>1. \A i \in DOMAIN new.free : new.free[i] \in DOMAIN new.entries
    BY <1>0, <1>3, <1>4, <1>5 DEF Sound, FreeExact
  <2>2. \A i, j \in DOMAIN new.free : new.free[i] = new.free[j] => i = j
    BY <1>4, <1>5, <1>6 DEF Sound, FreeExact
  <2>3. ASSUME NEW k \in DOMAIN new.entries
        PROVE  Occupied(new, k) <=> \A i \in DOMAIN new.free : new.free[i] # k
    <3>1. CASE k = id
      BY <1>1, <1>3, <1>4, <1>7, <3>1 DEF Occupied
    <3>2. CASE k # id
      <4>1. Occupied(new, k) <=> Occupied(tab, k)
        BY <1>3, <3>2 DEF Occupied
      <4>2. (\A i \in DOMAIN tab.free : tab.free[i] # k)
              <=> (\A i \in DOMAIN new.free : new.free[i] # k)
        BY <1>4, <1>5, <3>2
      <4> QED BY <1>3, <4>1, <4>2 DEF Sound, FreeExact
    <3> QED BY <3>1, <3>2
  <2> QED BY <2>1, <2>2, <2>3 DEF FreeExact
<1>9. VacantInvalid(new)
  BY <1>1, <1>3 DEF VacantInvalid, Sound
<1>10. new \in Table
  BY <1>2, <1>3, <1>4 DEF Table
<1> QED BY <1>3, <1>8, <1>9, <1>10 DEF Sound

\* A slot that lookup accepts is occupied.
LEMMA LiveIsOccupied ==
  ASSUME NEW tab, Sound(tab), NEW id, NEW kind, Live(tab, id, kind)
  PROVE  Occupied(tab, id)
BY DEF Sound, VacantInvalid, Live, Occupied

-----------------------------------------------------------------------------
\* The table begins empty.
LEMMA InitIInv == Init => IInv
<1> SUFFICES ASSUME Init PROVE IInv
  OBVIOUS
<1> USE HandleTableAssumption DEF Init, EmptyTable
<1>1. Sound(table)
  BY DEF Sound, Table, FreeExact, VacantInvalid
<1>2. SweepComplete
  BY DEF SweepComplete
<1> QED BY <1>1, <1>2 DEF IInv

\* The table stays sound, and what the scan has passed stays swept, when an
\* occupied slot is recycled.
LEMMA RecycleStep ==
  ASSUME IInv, NEW id, Occupied(table, id), table' = Recycle(table, id),
         scan' = scan, sweep' = sweep
  PROVE  IInv'
<1>1. Sound(table') /\ Len(table'.entries) = Len(table.entries)
  BY RecycleKeeps DEF IInv
<1>2. DOMAIN table'.entries = DOMAIN table.entries
  BY RecycleKeeps DEF IInv
<1>3. \A k \in DOMAIN table.entries :
        table'.entries[k] = IF k = id THEN Vacant ELSE table.entries[k]
  BY RecycleKeeps DEF IInv
<1>4. SweepComplete'
  <2>1. Vacant.kind = Unknown
    BY DEF Vacant, MakeEntry
  <2> QED BY <1>2, <1>3, <2>1 DEF SweepComplete, Occupied, Matches, IInv
<1> QED BY <1>1, <1>4 DEF IInv, Sound

\* acquire and reserve_stub run only outside release_all.
LEMMA FillStep ==
  ASSUME IInv, NEW e \in Entry, e.kind # Unknown, Room, table' = Fill(table, e),
         scan = 0, scan' = scan, sweep' = sweep
  PROVE  IInv'
<1>1. Sound(table')
  BY FillKeeps DEF IInv
<1>2. Len(table'.entries) <= MaxEntries
  <2>1. table.entries \in Seq(Entry)
    BY DEF IInv, Sound, Table
  <2> QED BY <2>1, FillKeeps, HandleTableAssumption DEF IInv, Room
<1>3. SweepComplete'
  <2>1. \A id \in DOMAIN table'.entries : id \in Nat \ {0}
    BY <1>1 DEF Sound, Table
  <2> QED BY <2>1 DEF SweepComplete
<1> QED BY <1>1, <1>2, <1>3 DEF IInv, Sound

\* Every method of the table keeps the invariant.
LEMMA NextIInv == IInv /\ [Next]_vars => IInv'
<1> SUFFICES ASSUME IInv, [Next]_vars PROVE IInv'
  OBVIOUS
<1> USE HandleTableAssumption
<1>1. ASSUME NEW kind \in Kinds, NEW ptr \in Ptrs, Acquire(kind, ptr) PROVE IInv'
  <2>1. MakeEntry(kind, ptr, TRUE) \in Entry /\ MakeEntry(kind, ptr, TRUE).kind # Unknown
    BY DEF MakeEntry, Entry
  <2> QED BY <1>1, <2>1, FillStep DEF Acquire
<1>2. ASSUME NEW kind \in Kinds, ReserveStub(kind) PROVE IInv'
  <2>1. MakeEntry(kind, Null, FALSE) \in Entry /\ MakeEntry(kind, Null, FALSE).kind # Unknown
    BY DEF MakeEntry, Entry
  <2> QED BY <1>2, <2>1, FillStep DEF ReserveStub
<1>3. ASSUME NEW id \in 1 .. MaxEntries, NEW kind \in Kinds \cup {Unknown}, Release(id, kind)
      PROVE  IInv'
  BY <1>3, LiveIsOccupied, RecycleStep DEF Release, IInv
<1>4. ASSUME NEW id \in 1 .. MaxEntries, Invalidate(id) PROVE IInv'
  BY <1>4, RecycleStep DEF Invalidate
<1>5. ASSUME NEW kind \in Kinds \cup {Unknown}, ReleaseAll(kind) PROVE IInv'
  <2>1. SweepComplete'
    <3>1. \A id \in DOMAIN table.entries : id \in Nat \ {0}
      BY DEF IInv, Sound, Table
    <3> QED BY <1>5, <3>1 DEF ReleaseAll, SweepComplete
  <2> QED BY <1>5, <2>1 DEF ReleaseAll, IInv, Sound
<1>6. ASSUME ReleaseAllStep PROVE IInv'
  <2>1. scan' = scan + 1 /\ sweep' = sweep /\ scan \in DOMAIN table.entries
    BY <1>6 DEF ReleaseAllStep
  <2>2. \A id \in DOMAIN table.entries : id \in Nat
    BY DEF IInv, Sound, Table
  <2>3. CASE Occupied(table, scan) /\ Matches(table, scan, sweep)
    <3>1. table' = Recycle(table, scan)
      BY <1>6, <2>3 DEF ReleaseAllStep
    <3>2. Sound(table') /\ Len(table'.entries) = Len(table.entries)
            /\ DOMAIN table'.entries = DOMAIN table.entries
      BY <2>3, <3>1, RecycleKeeps DEF IInv
    <3>3. \A k \in DOMAIN table.entries :
            table'.entries[k] = IF k = scan THEN Vacant ELSE table.entries[k]
      BY <2>3, <3>1, RecycleKeeps DEF IInv
    <3>4. SweepComplete'
      <4>1. Vacant.kind = Unknown
        BY DEF Vacant, MakeEntry
      <4> QED BY <2>1, <2>2, <3>2, <3>3, <4>1 DEF SweepComplete, Occupied, Matches, IInv
    <3> QED BY <2>1, <3>2, <3>4 DEF IInv, Sound
  <2>4. CASE ~(Occupied(table, scan) /\ Matches(table, scan, sweep))
    <3>1. table' = table
      BY <1>6, <2>4 DEF ReleaseAllStep
    <3>2. SweepComplete'
      BY <2>1, <2>2, <2>4, <3>1 DEF SweepComplete, IInv
    <3> QED BY <2>1, <3>1, <3>2 DEF IInv, Sound
  <2> QED BY <2>3, <2>4
<1>7. ASSUME ReleaseAllDone PROVE IInv'
  <2>1. SweepComplete'
    <3>1. \A id \in DOMAIN table.entries : id \in Nat \ {0}
      BY DEF IInv, Sound, Table
    <3> QED BY <1>7, <3>1 DEF ReleaseAllDone, SweepComplete
  <2> QED BY <1>7, <2>1 DEF ReleaseAllDone, IInv, Sound
<1>8. CASE UNCHANGED vars
  BY <1>8 DEF vars, IInv, Sound, SweepComplete
<1> QED BY <1>1, <1>2, <1>3, <1>4, <1>5, <1>6, <1>7, <1>8 DEF Next

-----------------------------------------------------------------------------
\* The table keeps its shape and its bound whatever the client calls.
THEOREM TableTypeCorrect == Spec => []TypeOK
<1>1. IInv => TypeOK
  BY DEF IInv, Sound, TypeOK
<1> QED BY <1>1, InitIInv, NextIInv, PTL DEF Spec

\* free_handles_ lists exactly the vacant slots, each once, for every table
\* size: no handle is ever given to two owners and no slot is lost.
THEOREM FreeListAlwaysExact == Spec => []FreeListExact
<1>1. IInv => FreeListExact
  BY DEF IInv, Sound, FreeListExact
<1> QED BY <1>1, InitIInv, NextIInv, PTL DEF Spec

\* release_all leaves no slot of its kind behind it, whatever its closers
\* release meanwhile.
THEOREM SweepAlwaysComplete == Spec => []SweepComplete
<1>1. IInv => SweepComplete
  BY DEF IInv
<1> QED BY <1>1, InitIInv, NextIInv, PTL DEF Spec

\* A step that fills or recycles changes an occupied slot only to vacant.
LEMMA StableStep ==
  ASSUME IInv, [Next]_vars
  PROVE  \A id \in DOMAIN table.entries :
           Occupied(table, id) => table'.entries[id] \in {table.entries[id], Vacant}
<1>1. ASSUME NEW e \in Entry, e.kind # Unknown, table' = Fill(table, e),
             NEW id \in DOMAIN table.entries, Occupied(table, id)
      PROVE  table'.entries[id] = table.entries[id]
  BY <1>1, FillKeeps, NextIdIsVacant DEF IInv
<1>2. ASSUME NEW slot, Occupied(table, slot), table' = Recycle(table, slot),
             NEW id \in DOMAIN table.entries
      PROVE  table'.entries[id] \in {table.entries[id], Vacant}
  BY <1>2, RecycleKeeps DEF IInv
<1>3. ASSUME NEW kind \in Kinds, NEW ptr \in Ptrs, Acquire(kind, ptr)
      PROVE  \E e \in Entry : e.kind # Unknown /\ table' = Fill(table, e)
  BY <1>3, HandleTableAssumption DEF Acquire, MakeEntry, Entry
<1>4. ASSUME NEW kind \in Kinds, ReserveStub(kind)
      PROVE  \E e \in Entry : e.kind # Unknown /\ table' = Fill(table, e)
  BY <1>4, HandleTableAssumption DEF ReserveStub, MakeEntry, Entry
<1>5. ASSUME NEW slot, NEW kind, Release(slot, kind)
      PROVE  Occupied(table, slot) /\ table' = Recycle(table, slot)
  BY <1>5, LiveIsOccupied DEF Release, IInv
<1>6. ASSUME NEW slot, Invalidate(slot)
      PROVE  Occupied(table, slot) /\ table' = Recycle(table, slot)
  BY <1>6 DEF Invalidate
<1>7. ASSUME ReleaseAllStep
      PROVE  table' = table \/ (Occupied(table, scan) /\ table' = Recycle(table, scan))
  BY <1>7 DEF ReleaseAllStep
<1>8. ASSUME (\E kind : ReleaseAll(kind)) \/ ReleaseAllDone \/ UNCHANGED vars
      PROVE  table' = table
  BY <1>8 DEF ReleaseAll, ReleaseAllDone, vars
<1>9. \/ table' = table
      \/ \E e \in Entry : e.kind # Unknown /\ table' = Fill(table, e)
      \/ \E slot : Occupied(table, slot) /\ table' = Recycle(table, slot)
  BY <1>3, <1>4, <1>5, <1>6, <1>7, <1>8 DEF Next
<1> QED BY <1>1, <1>2, <1>9

\* A handle denotes one object from acquire to release: no call changes an
\* occupied slot to hold anything else.
THEOREM HandleAlwaysStable == Spec => HandleIsStable
<1>1. IInv /\ [Next]_vars =>
        [\A id \in DOMAIN table.entries :
           Occupied(table, id) => table'.entries[id] \in {table.entries[id], Vacant}]_vars
  BY StableStep
<1> QED BY <1>1, InitIInv, NextIInv, PTL DEF Spec, HandleIsStable

-----------------------------------------------------------------------------
(* The dicts.  As long as keys are unique and the index is exact, the      *)
(* hashed and the scanned position of a key agree.                         *)

DictIInv == DictTypeOK /\ IndexFollowsEntries

\* An entry is a key with a value.
LEMMA EntryParts ==
  ASSUME DictTypeOK, NEW i \in DOMAIN entries
  PROVE  entries[i].key \in Keys /\ entries[i].val \in Values
<1>1. entries[i] \in Pair
  BY DEF DictTypeOK
<1> QED BY <1>1 DEF Pair

\* dict_find_pos is right for both backends: it finds the position of a key
\* that is there and none for a key that is not.
LEMMA FindPosRight ==
  ASSUME DictIInv, NEW key \in Keys
  PROVE  \/ FindPos(key) = 0 /\ \A i \in DOMAIN entries : entries[i].key # key
         \/ FindPos(key) \in DOMAIN entries /\ entries[FindPos(key)].key = key
<1>0. entries \in Seq(Pair) /\ \A i \in DOMAIN entries : i \in Nat \ {0}
  BY DEF DictIInv, DictTypeOK
<1>1. CASE impl = "OrderedHash"
  <2>1. FindPos(key) = Hashed(key)
    BY <1>1 DEF FindPos
  <2>2. CASE key \in DOMAIN indexByKey
    <3>1. indexByKey[key] \in DOMAIN entries /\ entries[indexByKey[key]].key = key
      BY <1>1, <2>2 DEF DictIInv, IndexFollowsEntries
    <3>2. indexByKey[key] <= Len(entries)
      BY <1>0, <3>1
    <3> QED BY <2>1, <2>2, <3>1, <3>2 DEF Hashed
  <2>3. CASE key \notin DOMAIN indexByKey
    BY <1>1, <2>1, <2>3 DEF Hashed, DictIInv, IndexFollowsEntries
  <2> QED BY <2>2, <2>3
<1>2. CASE impl # "OrderedHash"
  <2>1. FindPos(key) = Scanned(key)
    BY <1>2 DEF FindPos
  <2>2. CASE \E i \in DOMAIN entries : First(key, i)
    BY <2>1, <2>2 DEF Scanned, First
  <2>3. CASE ~ \E i \in DOMAIN entries : First(key, i)
    <3>1. \A i \in DOMAIN entries : entries[i].key # key
      BY <1>0, <2>3 DEF First, DictIInv, IndexFollowsEntries
    <3> QED BY <2>1, <2>3, <3>1 DEF Scanned
  <2> QED BY <2>2, <2>3
<1> QED BY <1>1, <1>2

\* The rebuilt index sends the keys of the vector to their positions.
LEMMA RebuildRight ==
  ASSUME DictIInv
  PROVE  /\ DOMAIN RebuildIndex(entries) = {entries[i].key : i \in DOMAIN entries}
         /\ \A k \in DOMAIN RebuildIndex(entries) :
              /\ RebuildIndex(entries)[k] \in DOMAIN entries
              /\ entries[RebuildIndex(entries)[k]].key = k
<1>1. DOMAIN RebuildIndex(entries) = {entries[i].key : i \in DOMAIN entries}
  BY DEF RebuildIndex
<1>2. ASSUME NEW k \in DOMAIN RebuildIndex(entries)
      PROVE  /\ RebuildIndex(entries)[k] \in DOMAIN entries
             /\ entries[RebuildIndex(entries)[k]].key = k
  <2>1. PICK i \in DOMAIN entries : entries[i].key = k
    BY <1>1, <1>2
  <2>2. \A j \in DOMAIN entries : j \in Nat
    BY DEF DictIInv, DictTypeOK
  <2>3. LastPos(entries, k, i)
    BY <2>1, <2>2 DEF LastPos, DictIInv, IndexFollowsEntries
  <2>4. RebuildIndex(entries)[k] = CHOOSE j \in DOMAIN entries : LastPos(entries, k, j)
    BY <1>1 DEF RebuildIndex
  <2>5. LastPos(entries, k, RebuildIndex(entries)[k])
    BY <2>3, <2>4
  <2> QED BY <2>5 DEF LastPos
<1> QED BY <1>1, <1>2

\* A dict begins empty, its index with it.
LEMMA InitDictIInv == DictInit => DictIInv
BY DEF DictInit, DictIInv, DictTypeOK, IndexFollowsEntries, NoIndex, Impls

\* Every operation on a dict keeps keys unique and the index exact.
LEMMA NextDictIInv == DictIInv /\ [DictNext]_dictVars => DictIInv'
<1> SUFFICES ASSUME DictIInv, [DictNext]_dictVars PROVE DictIInv'
  OBVIOUS
<1>0. entries \in Seq(Pair) /\ \A i \in DOMAIN entries : i \in Nat \ {0} /\ i <= Len(entries)
  BY DEF DictIInv, DictTypeOK
<1>1. CASE NewDict
  BY <1>1 DEF NewDict, NoIndex, DictIInv, DictTypeOK, IndexFollowsEntries
<1>2. CASE CloneDict
  <2>1. CASE impl = "OrderedHash"
    <3>1. indexByKey' = RebuildIndex(entries) /\ entries' = entries
      BY <1>2, <2>1 DEF CloneDict
    <3>2. {entries[i].key : i \in DOMAIN entries} \subseteq Keys
      BY EntryParts DEF DictIInv
    <3>3. DictTypeOK'
      BY <1>0, <1>2, <3>1, <3>2, RebuildRight DEF CloneDict, DictIInv, DictTypeOK
    <3>4. IndexFollowsEntries'
      BY <3>1, RebuildRight DEF DictIInv, IndexFollowsEntries
    <3> QED BY <3>3, <3>4 DEF DictIInv
  <2>2. CASE impl # "OrderedHash"
    BY <1>2, <2>2 DEF CloneDict, NoIndex, DictIInv, DictTypeOK, IndexFollowsEntries
  <2> QED BY <2>1, <2>2
<1>3. ASSUME NEW i \in Impls, SetImpl(i) PROVE DictIInv'
  BY <1>3 DEF SetImpl, DictIInv, DictTypeOK, IndexFollowsEntries
<1>4. ASSUME NEW key \in Keys, TryGet(key) PROVE DictIInv'
  <2>1. answer' \in Values \cup {Missing}
    BY <1>4, FindPosRight, EntryParts DEF TryGet, DictIInv
  <2> QED BY <1>4, <2>1 DEF TryGet, DictIInv, DictTypeOK, IndexFollowsEntries
<1>5. ASSUME NEW key \in Keys, NEW v \in Values, Replace(key, v) PROVE DictIInv'
  <2> DEFINE p == FindPos(key)
  <2>1. p \in DOMAIN entries /\ entries[p].key = key
    BY <1>5, FindPosRight DEF Replace
  <2>2. entries' = [entries EXCEPT ![p] = [key |-> entries[p].key, val |-> v]]
    BY <1>5 DEF Replace
  <2>3. /\ entries' \in Seq(Pair)
        /\ DOMAIN entries' = DOMAIN entries
        /\ \A i \in DOMAIN entries : entries'[i].key = entries[i].key
    BY <1>0, <2>1, <2>2 DEF Pair
  <2>4. DictTypeOK'
    BY <1>5, <2>3 DEF Replace, DictIInv, DictTypeOK
  <2>5. IndexFollowsEntries'
    BY <1>5, <2>3 DEF Replace, DictIInv, IndexFollowsEntries
  <2> QED BY <2>4, <2>5 DEF DictIInv
<1>6. ASSUME NEW key \in Keys, NEW v \in Values, AppendNew(key, v) PROVE DictIInv'
  <2> DEFINE n == Len(entries) + 1
  <2>1. \A i \in DOMAIN entries : entries[i].key # key
    BY <1>0, <1>6, FindPosRight DEF AppendNew
  <2>2. entries' = Append(entries, [key |-> key, val |-> v])
    BY <1>6 DEF AppendNew
  <2>3. /\ entries' \in Seq(Pair)
        /\ DOMAIN entries' = DOMAIN entries \cup {n}
        /\ entries'[n].key = key /\ n \notin DOMAIN entries /\ n \in Nat \ {0}
        /\ \A i \in DOMAIN entries : entries'[i] = entries[i]
    BY <1>0, <2>2 DEF Pair
  <2>4. \A i, j \in DOMAIN entries' : entries'[i].key = entries'[j].key => i = j
    BY <2>1, <2>3 DEF DictIInv, IndexFollowsEntries
  <2>5. CASE impl = "OrderedHash"
    <3>1. indexByKey' = AddToIndex(key, n) /\ impl' = impl
      BY <1>6, <2>5 DEF AppendNew
    <3>2. /\ DOMAIN indexByKey' = DOMAIN indexByKey \cup {key}
          /\ indexByKey'[key] = n
          /\ \A k \in DOMAIN indexByKey : k # key => indexByKey'[k] = indexByKey[k]
      BY <3>1 DEF AddToIndex
    <3>3. DictTypeOK'
      BY <1>6, <2>3, <3>2 DEF AppendNew, DictIInv, DictTypeOK
    <3>4. IndexFollowsEntries'
      BY <2>3, <2>4, <2>5, <3>2 DEF DictIInv, IndexFollowsEntries
    <3> QED BY <3>3, <3>4 DEF DictIInv
  <2>6. CASE impl # "OrderedHash"
    BY <1>6, <2>3, <2>4, <2>6 DEF AppendNew, DictIInv, DictTypeOK, IndexFollowsEntries
  <2> QED BY <2>5, <2>6
<1>7. CASE UNCHANGED dictVars
  BY <1>7 DEF dictVars, DictIInv, DictTypeOK, IndexFollowsEntries
<1> QED BY <1>1, <1>2, <1>3, <1>4, <1>5, <1>6, <1>7 DEF DictNext

\* A dict has the shape StyioDictStorage declares, for dicts of every length.
THEOREM DictTypeCorrect == DictSpec => []DictTypeOK
<1>1. DictIInv => DictTypeOK
  BY DEF DictIInv
<1> QED BY <1>1, InitDictIInv, NextDictIInv, PTL DEF DictSpec

\* index_by_key follows the entries: every key once, indexed at its position,
\* after every sequence of sets, copies and changes of the default backend.
THEOREM IndexAlwaysFollows == DictSpec => []IndexFollowsEntries
<1>1. DictIInv => IndexFollowsEntries
  BY DEF DictIInv
<1> QED BY <1>1, InitDictIInv, NextDictIInv, PTL DEF DictSpec

-----------------------------------------------------------------------------
(* Refinement.                                                             *)

\* The value the map has at a key is the one at its position.
LEMMA ValueAtPos ==
  ASSUME DictIInv, NEW i \in DOMAIN entries
  PROVE  ValueAt(entries[i].key) = entries[i].val /\ entries[i].val \in Values
<1>1. entries[i] \in Pair
  BY DEF DictIInv, DictTypeOK
<1>2. (CHOOSE j \in DOMAIN entries : entries[j].key = entries[i].key) = i
  BY DEF DictIInv, IndexFollowsEntries
<1> QED BY <1>1, <1>2 DEF ValueAt, Pair

\* A key no entry has is missing from the map.
LEMMA ValueAtNone ==
  ASSUME NEW k, \A i \in DOMAIN entries : entries[i].key # k
  PROVE  ValueAt(k) = Missing
BY DEF ValueAt

\* The initial dict is the initial map.
LEMMA InitMap == DictInit => Map!MapInit
BY DEF DictInit, Map!MapInit, ValueAt

\* Every step of a dict is a step of the map or leaves the map as it is.
LEMMA StepMap == DictIInv /\ [DictNext]_dictVars => [Map!MapNext]_(Map!mapVars)
<1> SUFFICES ASSUME DictIInv, [DictNext]_dictVars PROVE [Map!MapNext]_(Map!mapVars)
  OBVIOUS
<1> DEFINE order == [i \in DOMAIN entries |-> entries[i].key]
           value == [k \in Keys |-> ValueAt(k)]
<1>0. entries \in Seq(Pair)
  BY DEF DictIInv, DictTypeOK
<1>00. DictIInv'
  BY NextDictIInv
<1>1. CASE NewDict
  <2>1. entries' = <<>> /\ answer' = answer
    BY <1>1 DEF NewDict
  <2>2. order' = <<>> /\ value' = [k \in Keys |-> Missing]
    BY <2>1 DEF ValueAt
  <2> QED BY <2>1, <2>2 DEF Map!MapNext, Map!Renew
<1>2. ASSUME entries' = entries, answer' = answer PROVE UNCHANGED Map!mapVars
  BY <1>2 DEF Map!mapVars, ValueAt
<1>3. CASE CloneDict
  BY <1>2, <1>3 DEF CloneDict
<1>4. ASSUME NEW i \in Impls, SetImpl(i) PROVE UNCHANGED Map!mapVars
  BY <1>2, <1>4 DEF SetImpl
<1>5. ASSUME NEW key \in Keys, TryGet(key) PROVE Map!MapNext
  <2>1. answer' = ValueAt(key)
    <3>1. CASE FindPos(key) \in DOMAIN entries /\ entries[FindPos(key)].key = key
      <4>1. FindPos(key) # 0
        BY <1>0, <3>1
      <4>2. ValueAt(entries[FindPos(key)].key) = entries[FindPos(key)].val
        BY <3>1, ValueAtPos
      <4> QED BY <1>5, <3>1, <4>1, <4>2 DEF TryGet
    <3>2. CASE FindPos(key) = 0 /\ \A i \in DOMAIN entries : entries[i].key # key
      BY <1>5, <3>2, ValueAtNone DEF TryGet
    <3> QED BY <3>1, <3>2, FindPosRight
  <2>2. entries' = entries
    BY <1>5 DEF TryGet
  <2>3. order' = order /\ value' = value
    BY <2>2 DEF ValueAt
  <2>4. Map!Inquire(key)
    BY <2>1, <2>3 DEF Map!Inquire
  <2> QED BY <2>4 DEF Map!MapNext
<1>6. ASSUME NEW key \in Keys, NEW v \in Values, Replace(key, v) PROVE Map!MapNext
  <2> DEFINE p == FindPos(key)
  <2>1. p \in DOMAIN entries /\ entries[p].key = key /\ answer' = answer
    BY <1>6, FindPosRight DEF Replace
  <2>2. entries' = [entries EXCEPT ![p] = [key |-> entries[p].key, val |-> v]]
    BY <1>6 DEF Replace
  <2>3. /\ DOMAIN entries' = DOMAIN entries
        /\ \A i \in DOMAIN entries : entries'[i].key = entries[i].key
        /\ entries'[p].val = v
        /\ \A i \in DOMAIN entries : i # p => entries'[i] = entries[i]
    BY <1>0, <2>1, <2>2
  <2>4. order' = order
    BY <2>3
  <2>5. value[key] \in Values
    BY <2>1, ValueAtPos
  <2>6. \A k \in Keys : ValueAt(k)' = IF k = key THEN v ELSE ValueAt(k)
    <3> SUFFICES ASSUME NEW k \in Keys PROVE ValueAt(k)' = IF k = key THEN v ELSE ValueAt(k)
      OBVIOUS
    <3>1. CASE \E i \in DOMAIN entries : entries[i].key = k
      <4>1. PICK i \in DOMAIN entries : entries[i].key = k
        BY <3>1
      <4>2. ValueAt(k) = entries[i].val
        BY <4>1, ValueAtPos
      <4>3. ValueAt(k)' = entries'[i].val
        <5>1. (CHOOSE j \in DOMAIN entries' : entries'[j].key = k) = i
          BY <2>3, <4>1 DEF DictIInv, IndexFollowsEntries
        <5>2. \E j \in DOMAIN entries' : entries'[j].key = k
          BY <2>3, <4>1
        <5> QED BY <5>1, <5>2 DEF ValueAt
      <4>4. k = key <=> i = p
        BY <2>1, <4>1 DEF DictIInv, IndexFollowsEntries
      <4> QED BY <2>3, <4>2, <4>3, <4>4
    <3>2. CASE ~ \E i \in DOMAIN entries : entries[i].key = k
      <4>1. ValueAt(k) = Missing /\ k # key
        BY <2>1, <3>2 DEF ValueAt
      <4>2. ValueAt(k)' = Missing
        BY <2>3, <3>2 DEF ValueAt
      <4> QED BY <4>1, <4>2
    <3> QED BY <3>1, <3>2
  <2>7. value' = [value EXCEPT ![key] = v]
    BY <2>6
  <2>8. Map!Assign(key, v)
    BY <2>1, <2>4, <2>5, <2>7, DictAssumption DEF Map!Assign
  <2> QED BY <2>8 DEF Map!MapNext
<1>7. ASSUME NEW key \in Keys, NEW v \in Values, AppendNew(key, v) PROVE Map!MapNext
  <2> DEFINE n == Len(entries) + 1
  <2>1. (\A i \in DOMAIN entries : entries[i].key # key) /\ answer' = answer
    <3>1. 0 \notin DOMAIN entries
      BY <1>0
    <3> QED BY <1>7, <3>1, FindPosRight DEF AppendNew
  <2>2. entries' = Append(entries, [key |-> key, val |-> v])
    BY <1>7 DEF AppendNew
  <2>3. /\ DOMAIN entries' = DOMAIN entries \cup {n} /\ n \notin DOMAIN entries
        /\ entries'[n] = [key |-> key, val |-> v]
        /\ \A i \in DOMAIN entries : entries'[i] = entries[i]
    BY <1>0, <2>2
  <2>4. order' = Append(order, key)
    <3>1. order \in Seq(Keys) /\ Len(order) = Len(entries)
      BY <1>0, EntryParts DEF DictIInv
    <3>2. Append(order, key) \in Seq(Keys)
            /\ DOMAIN Append(order, key) = DOMAIN entries \cup {n}
            /\ Append(order, key)[n] = key
            /\ \A i \in DOMAIN entries : Append(order, key)[i] = entries[i].key
      BY <1>0, <3>1
    <3>3. DOMAIN order' = DOMAIN entries \cup {n}
      BY <2>3
    <3>4. \A i \in DOMAIN entries \cup {n} : order'[i] = Append(order, key)[i]
      BY <2>3, <3>2
    <3>5. Append(order, key) = [i \in DOMAIN entries \cup {n} |-> Append(order, key)[i]]
      BY <3>2
    <3> QED BY <2>3, <3>3, <3>4, <3>5
  <2>5. value[key] = Missing
    BY <2>1, ValueAtNone
  <2>6. \A k \in Keys : ValueAt(k)' = IF k = key THEN v ELSE ValueAt(k)
    <3> SUFFICES ASSUME NEW k \in Keys PROVE ValueAt(k)' = IF k = key THEN v ELSE ValueAt(k)
      OBVIOUS
    <3>0. \A i, j \in DOMAIN entries' : entries'[i].key = entries'[j].key => i = j
      BY <1>00 DEF DictIInv, IndexFollowsEntries
    <3>1. CASE k = key
      <4>1. n \in DOMAIN entries' /\ entries'[n].key = k /\ entries'[n].val = v
        BY <2>3, <3>1
      <4>2. (CHOOSE j \in DOMAIN entries' : entries'[j].key = k) = n
        BY <3>0, <4>1
      <4> QED BY <3>1, <4>1, <4>2 DEF ValueAt
    <3>2. CASE k # key /\ \E i \in DOMAIN entries : entries[i].key = k
      <4>1. PICK i \in DOMAIN entries : entries[i].key = k
        BY <3>2
      <4>2. i \in DOMAIN entries' /\ entries'[i].key = k /\ entries'[i] = entries[i]
        BY <2>3, <4>1
      <4>3. (CHOOSE j \in DOMAIN entries' : entries'[j].key = k) = i
        BY <3>0, <4>2
      <4>4. ValueAt(k)' = entries'[i].val
        BY <4>2, <4>3 DEF ValueAt
      <4> QED BY <3>2, <4>1, <4>2, <4>4, ValueAtPos
    <3>3. CASE k # key /\ ~ \E i \in DOMAIN entries : entries[i].key = k
      BY <2>3, <3>3 DEF ValueAt
    <3> QED BY <3>1, <3>2, <3>3
  <2>7. value' = [value EXCEPT ![key] = v]
    BY <2>6
  <2>8. Map!Assign(key, v)
    BY <2>1, <2>4, <2>5, <2>7 DEF Map!Assign
  <2> QED BY <2>8 DEF Map!MapNext
<1>8. CASE UNCHANGED dictVars
  BY <1>2, <1>8 DEF dictVars
<1> QED BY <1>1, <1>3, <1>4, <1>5, <1>6, <1>7, <1>8 DEF DictNext

\* Both backends implement the ordered map: lookups, key order and copies
\* behave alike under OrderedHash and Linear, for dicts of every length.
THEOREM BackendsImplementMap == DictSpec => ImplementsMap
<1>1. DictIInv /\ [DictNext]_dictVars => [Map!MapNext]_(Map!mapVars)
  BY StepMap
<1> QED BY <1>1, InitMap, InitDictIInv, NextDictIInv, PTL DEF DictSpec, ImplementsMap, Map!MapSpec
=============================================================================
