----------------------------- MODULE DictBackend -----------------------------
(***************************************************************************)
(* The two implementations of a Styio dict (StyioDictStorage and the       *)
(* dict_* templates of src/src/StyioExtern/ExternLib.cpp).  Both keep the  *)
(* entries in a vector; OrderedHash finds a key through index_by_key,      *)
(* which has to follow every change of the vector, Linear scans it.        *)
(* The default backend may change at any time: it decides what a new dict  *)
(* uses, while a dict and its copies keep theirs.                          *)
(***************************************************************************)
EXTENDS Naturals, Sequences

CONSTANTS Keys, Values,
          Missing        \* the answer of a lookup that finds nothing

ASSUME DictAssumption == Missing \notin Values

Impls == {"OrderedHash", "Linear"}

VARIABLES default,      \* g_default_dict_runtime_impl
          impl,         \* runtime_impl of the dict
          entries,      \* the dict's entries, a vector of pairs
          indexByKey,   \* index_by_key: from some keys to positions
          answer        \* what the last lookup returned

dictVars == <<default, impl, entries, indexByKey, answer>>

Pair == [key : Keys, val : Values]
NoIndex == [k \in {} |-> 0]

\* make_dict_storage_for_current_backend
DictInit ==
  /\ default = "OrderedHash"
  /\ impl = default
  /\ entries = <<>>
  /\ indexByKey = NoIndex
  /\ answer = Missing

NewDict ==
  /\ impl' = default
  /\ entries' = <<>>
  /\ indexByKey' = NoIndex
  /\ UNCHANGED <<default, answer>>

\* styio_dict_runtime_set_impl
SetImpl(i) ==
  /\ default' = i
  /\ UNCHANGED <<impl, entries, indexByKey, answer>>

\* dict_find_pos: the position of key, 0 when there is none.
Hashed(key) ==
  IF key \in DOMAIN indexByKey /\ indexByKey[key] <= Len(entries) THEN indexByKey[key] ELSE 0

First(key, i) ==
  /\ i \in DOMAIN entries /\ entries[i].key = key
  /\ \A j \in DOMAIN entries : j < i => entries[j].key # key

Scanned(key) == IF \E i \in DOMAIN entries : First(key, i)
                  THEN CHOOSE i \in DOMAIN entries : First(key, i) ELSE 0

FindPos(key) == IF impl = "OrderedHash" THEN Hashed(key) ELSE Scanned(key)

\* dict_try_get
TryGet(key) ==
  /\ answer' = IF FindPos(key) = 0 THEN Missing ELSE entries[FindPos(key)].val
  /\ UNCHANGED <<default, impl, entries, indexByKey>>

\* dict_set
Replace(key, v) ==
  /\ FindPos(key) # 0
  /\ entries' = [entries EXCEPT ![FindPos(key)] = [key |-> @.key, val |-> v]]
  /\ UNCHANGED <<default, impl, indexByKey, answer>>

\* Mutant of AddToIndex: positions from zero, which mean "not found".
AddToIndexFromZero(key, pos) ==
  [k \in DOMAIN indexByKey \cup {key} |-> IF k = key THEN pos - 1 ELSE indexByKey[k]]

AddToIndex(key, pos) ==
  [k \in DOMAIN indexByKey \cup {key} |-> IF k = key THEN pos ELSE indexByKey[k]]

\* Mutant of AppendNew: the index is not told of the new entry.
AppendNewUnindexed(key, v) ==
  /\ FindPos(key) = 0
  /\ entries' = Append(entries, [key |-> key, val |-> v])
  /\ UNCHANGED <<default, impl, indexByKey, answer>>

AppendNew(key, v) ==
  /\ FindPos(key) = 0
  /\ entries' = Append(entries, [key |-> key, val |-> v])
  /\ indexByKey' = IF impl = "OrderedHash" THEN AddToIndex(key, Len(entries) + 1) ELSE indexByKey
  /\ UNCHANGED <<default, impl, answer>>

\* rebuild_dict_index: the last position of a key wins.
LastPos(es, k, i) ==
  /\ i \in DOMAIN es /\ es[i].key = k
  /\ \A j \in DOMAIN es : i < j => es[j].key # k

RebuildIndex(es) ==
  [k \in {es[i].key : i \in DOMAIN es} |-> CHOOSE i \in DOMAIN es : LastPos(es, k, i)]

\* Mutant of CloneDict: the copy's index is not rebuilt.
CloneDictUnindexed ==
  /\ indexByKey' = NoIndex
  /\ UNCHANGED <<default, impl, entries, answer>>

\* clone_dict_storage, dict_after_clone: the copy takes the dict's place.
CloneDict ==
  /\ indexByKey' = IF impl = "OrderedHash" THEN RebuildIndex(entries) ELSE NoIndex
  /\ UNCHANGED <<default, impl, entries, answer>>

DictNext ==
  \/ NewDict \/ CloneDict \/ \E i \in Impls : SetImpl(i)
  \/ \E key \in Keys :
       TryGet(key) \/ \E v \in Values : Replace(key, v) \/ AppendNew(key, v)

DictSpec == DictInit /\ [][DictNext]_dictVars

-----------------------------------------------------------------------------
\* Entries are pairs, and the index holds positions, never the 0 that stands
\* for "not found".
DictTypeOK ==
  /\ default \in Impls /\ impl \in Impls
  /\ entries \in Seq(Pair)
  /\ DOMAIN indexByKey \subseteq Keys
  /\ \A k \in DOMAIN indexByKey : indexByKey[k] \in Nat \ {0}
  /\ answer \in Values \cup {Missing}

\* Every key occurs once, and for OrderedHash the index sends exactly the keys
\* of the vector to their positions, whatever sets and copies came before.
IndexFollowsEntries ==
  /\ \A i, j \in DOMAIN entries : entries[i].key = entries[j].key => i = j
  /\ impl = "OrderedHash" =>
       /\ \A i \in DOMAIN entries : entries[i].key \in DOMAIN indexByKey
       /\ \A k \in DOMAIN indexByKey :
            indexByKey[k] \in DOMAIN entries /\ entries[indexByKey[k]].key = k

-----------------------------------------------------------------------------
ValueAt(k) ==
  IF \E i \in DOMAIN entries : entries[i].key = k
    THEN entries[CHOOSE i \in DOMAIN entries : entries[i].key = k].val ELSE Missing

Map == INSTANCE OrderedMap WITH
         order <- [i \in DOMAIN entries |-> entries[i].key],
         value <- [k \in Keys |-> ValueAt(k)]

\* Both backends are the same ordered map: a program cannot tell from lookups,
\* keys or values which one it runs on, nor whether it holds a dict or a copy.
ImplementsMap == Map!MapSpec
=============================================================================
