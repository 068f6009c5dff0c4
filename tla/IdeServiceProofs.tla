--------------------------- MODULE IdeServiceProofs ---------------------------
(***************************************************************************)
(* Proofs about IdeService, for every workspace, set of texts, set of      *)
(* request ids and bound on snapshot ids.                                  *)
(***************************************************************************)
EXTENDS IdeService, FoldTheorems, SequenceTheorems

-----------------------------------------------------------------------------
(* What every operation on the store relies on and keeps. *)

\* A document's snapshot id is spent; the database has seen the snapshot of an
\* open document and none that is newer; the module cached under the current
\* snapshot has the current text; the open-file index has open buffers only.
SoundDoc(st, p) ==
  /\ st.docs[p].snap < st.next
  /\ st.active[p] # None => st.active[p] <= st.docs[p].snap
  /\ st.active[p] = None => st.open[p] = None
  /\ st.docs[p].open => st.active[p] = st.docs[p].snap
  /\ st.hir[p] # None =>
       /\ st.hir[p].snap <= st.docs[p].snap
       /\ st.hir[p].snap = st.docs[p].snap => st.hir[p].text = st.docs[p].text
  /\ st.open[p] # None => st.docs[p].open /\ st.open[p] = st.docs[p].text

SoundStore(st) == st \in Stores /\ \A p \in Paths : SoundDoc(st, p)

\* A query opens, closes and changes no buffer and loses nothing of an open
\* document.
QuietBuffer(st, new, p) ==
  /\ new.docs[p].open = st.docs[p].open
  /\ st.docs[p].open =>
       /\ new.docs[p] = st.docs[p]
       /\ st.open[p] # None => new.open[p] # None
       /\ Cached(st.hir, st, p) => Cached(new.hir, new, p)

\* It leaves or evicts the answers it does not compute.
QuietDoc(st, new, p) ==
  /\ QuietBuffer(st, new, p)
  /\ new.def[p] \in {None, st.def[p]} /\ new.xref[p] \in {None, st.xref[p]}

Quiet(st, new) == SoundStore(new) /\ \A p \in Paths : QuietDoc(st, new, p)

\* One query after another is a query.
LEMMA QuietTransitive ==
  ASSUME NEW st, NEW mid, NEW new, Quiet(st, mid), Quiet(mid, new)
  PROVE  Quiet(st, new)
<1>1. \A p \in Paths : QuietDoc(st, mid, p) /\ QuietDoc(mid, new, p) => QuietDoc(st, new, p)
  BY DEF QuietDoc, QuietBuffer
<1> QED BY <1>1 DEF Quiet

\* A query may find everything done already.
LEMMA QuietReflexive ==
  ASSUME NEW st, SoundStore(st)
  PROVE  Quiet(st, st)
BY DEF Quiet, QuietDoc, QuietBuffer

-----------------------------------------------------------------------------
(* The operations, one by one. *)

\* A new record of a document under a fresh snapshot id.
Documented(st, p, d) == [st EXCEPT !.docs[p] = d, !.next = @ + 1]

\* What a new record of a document changes.
LEMMA DocumentedFields ==
  ASSUME NEW st \in Stores, NEW p \in Paths, NEW d \in DocType
  PROVE  LET new == Documented(st, p, d)
         IN  /\ new \in Stores /\ new.next = st.next + 1
             /\ \A q \in Paths : new.docs[q] = IF q = p THEN d ELSE st.docs[q]
             /\ new.active = st.active /\ new.hir = st.hir /\ new.open = st.open
             /\ new.def = st.def /\ new.xref = st.xref
<1> DEFINE docs == [st.docs EXCEPT ![p] = d]
           new  == Documented(st, p, d)
<1>1. docs \in [Paths -> DocType] /\ \A q \in Paths : docs[q] = IF q = p THEN d ELSE st.docs[q]
  BY DEF Stores
<1>a. new = [st EXCEPT !.docs = docs, !.next = st.next + 1]
  BY DEF Documented
<1> HIDE DEF docs, new
<1>2. new = [docs |-> docs, next |-> st.next + 1, active |-> st.active, hir |-> st.hir,
             def |-> st.def, xref |-> st.xref, open |-> st.open,
             background |-> st.background, persisted |-> st.persisted]
  BY <1>a DEF Stores
<1>3. new \in Stores
  BY <1>1, <1>2 DEF Stores
<1> QED BY <1>1, <1>2, <1>3 DEF new

\* snapshot_for: only a document that is not open changes.
LEMMA SnapshotForQuiet ==
  ASSUME NEW st, SoundStore(st), NEW p \in Paths, disk \in Found
  PROVE  Quiet(st, SnapshotFor(st, p))
<1>1. CASE st.docs[p].open \/ st.docs[p].text = ReadFile(p)
  BY <1>1, QuietReflexive DEF SnapshotFor
<1>2. CASE ~(st.docs[p].open \/ st.docs[p].text = ReadFile(p))
  <2> DEFINE d   == [st.docs[p] EXCEPT !.snap = st.next, !.text = ReadFile(p), !.resync = FALSE]
             new == Documented(st, p, d)
  <2>1. ReadFile(p) \in Texts
    BY IdeAssumption DEF ReadFile, Found, Texts
  <2>2. st \in Stores /\ st.docs[p] \in DocType /\ st.next \in Nat
    BY DEF SoundStore, Stores
  <2>3. d \in DocType /\ d.snap = st.next /\ d.open = FALSE /\ st.docs[p].open = FALSE
    BY <1>2, <2>1, <2>2 DEF DocType
  <2>4. SnapshotFor(st, p) = new
    BY <1>2 DEF SnapshotFor, Documented
  <2> HIDE DEF d
  <2>5. /\ new \in Stores /\ new.next = st.next + 1
        /\ \A q \in Paths : new.docs[q] = IF q = p THEN d ELSE st.docs[q]
        /\ new.active = st.active /\ new.hir = st.hir /\ new.open = st.open
        /\ new.def = st.def /\ new.xref = st.xref
    BY <2>2, <2>3, DocumentedFields
  <2> HIDE DEF new
  <2>6. \A q \in Paths : SoundDoc(new, q)
    BY <2>2, <2>3, <2>5 DEF SoundStore, SoundDoc, Stores, DocType, HirType
  <2>7. \A q \in Paths : QuietDoc(st, new, q)
    BY <2>3, <2>5 DEF QuietDoc, QuietBuffer, Cached
  <2> QED BY <2>4, <2>5, <2>6, <2>7 DEF Quiet, SoundStore
<1> QED BY <1>1, <1>2

\* observe_document_snapshot
LEMMA ObserveFields ==
  ASSUME NEW st \in Stores, NEW p \in Paths
  PROVE  LET new == Observe(st, p)
         IN  /\ new \in Stores /\ new.next = st.next /\ new.docs = st.docs
             /\ \A q \in Paths :
                  new.active[q] = IF q = p THEN st.docs[p].snap ELSE st.active[q]
             /\ \A q \in Paths :
                  IF q = p /\ st.active[p] \notin {None, st.docs[p].snap}
                  THEN new.hir[q] = None /\ new.open[q] = None /\ new.def[q] = None /\ new.xref[q] = None
                  ELSE new.hir[q] = st.hir[q] /\ new.open[q] = st.open[q]
                       /\ new.def[q] = st.def[q] /\ new.xref[q] = st.xref[q]
<1> DEFINE new == Observe(st, p)
<1>0. st.docs[p].snap \in Nat /\ st.active[p] \in Nat \cup {None}
  BY DEF Stores, DocType
<1>1. CASE st.active[p] = st.docs[p].snap
  BY <1>1 DEF Observe, Stores
<1>2. CASE st.active[p] # st.docs[p].snap /\ st.active[p] = None
  <2> DEFINE act == [st.active EXCEPT ![p] = st.docs[p].snap]
  <2>1. act \in [Paths -> Nat \cup {None}]
        /\ \A q \in Paths : act[q] = IF q = p THEN st.docs[p].snap ELSE st.active[q]
    BY <1>0 DEF Stores
  <2>2. new = [docs |-> st.docs, next |-> st.next, active |-> act, hir |-> st.hir,
               def |-> st.def, xref |-> st.xref, open |-> st.open,
               background |-> st.background, persisted |-> st.persisted]
    BY <1>2 DEF Stores, Observe
  <2> HIDE DEF act, new
  <2>3. new \in Stores
    BY <2>1, <2>2 DEF Stores
  <2> QED BY <1>2, <2>1, <2>2, <2>3 DEF new
<1>3. CASE st.active[p] # st.docs[p].snap /\ st.active[p] # None
  <2> DEFINE act == [st.active EXCEPT ![p] = st.docs[p].snap]
             hir == [st.hir EXCEPT ![p] = None]
             def == [st.def EXCEPT ![p] = None]
             xref == [st.xref EXCEPT ![p] = None]
             open == [st.open EXCEPT ![p] = None]
  <2>1. act \in [Paths -> Nat \cup {None}]
        /\ \A q \in Paths : act[q] = IF q = p THEN st.docs[p].snap ELSE st.active[q]
    BY <1>0 DEF Stores
  <2>2. /\ hir \in [Paths -> HirType \cup {None}] /\ def \in [Paths -> Answer \cup {None}]
        /\ xref \in [Paths -> Answer \cup {None}] /\ open \in Found
    BY DEF Stores, Found
  <2>3. \A q \in Paths : /\ hir[q] = IF q = p THEN None ELSE st.hir[q]
                         /\ def[q] = IF q = p THEN None ELSE st.def[q]
                         /\ xref[q] = IF q = p THEN None ELSE st.xref[q]
                         /\ open[q] = IF q = p THEN None ELSE st.open[q]
    BY DEF Stores, Found
  <2>4. new = [docs |-> st.docs, next |-> st.next, active |-> act, hir |-> hir,
               def |-> def, xref |-> xref, open |-> open,
               background |-> st.background, persisted |-> st.persisted]
    BY <1>3 DEF Stores, Observe, EraseQueryState
  <2> HIDE DEF act, hir, def, xref, open, new
  <2>5. new \in Stores
    BY <2>1, <2>2, <2>4 DEF Stores
  <2> QED BY <1>3, <2>1, <2>3, <2>4, <2>5 DEF new
<1> QED BY <1>1, <1>2, <1>3

\* observe_document_snapshot evicts only what an older snapshot left.
LEMMA ObserveQuiet ==
  ASSUME NEW st, SoundStore(st), NEW p \in Paths
  PROVE  Quiet(st, Observe(st, p))
<1> DEFINE new == Observe(st, p)
<1>0. st \in Stores /\ st.docs[p] \in DocType /\ st.docs[p].snap \in Nat
  BY DEF SoundStore, Stores, DocType
<1>1. /\ new \in Stores /\ new.next = st.next /\ new.docs = st.docs
      /\ \A q \in Paths :
           new.active[q] = IF q = p THEN st.docs[p].snap ELSE st.active[q]
      /\ \A q \in Paths :
           IF q = p /\ st.active[p] \notin {None, st.docs[p].snap}
           THEN new.hir[q] = None /\ new.open[q] = None /\ new.def[q] = None /\ new.xref[q] = None
           ELSE new.hir[q] = st.hir[q] /\ new.open[q] = st.open[q]
                /\ new.def[q] = st.def[q] /\ new.xref[q] = st.xref[q]
  BY <1>0, ObserveFields
<1> HIDE DEF new
<1>2. \A q \in Paths : SoundDoc(st, q)
  BY DEF SoundStore
<1>3. \A q \in Paths : SoundDoc(new, q)
  BY <1>0, <1>1, <1>2, IdeAssumption DEF SoundDoc
<1>4. \A q \in Paths : QuietDoc(st, new, q)
  BY <1>0, <1>1, <1>2, IdeAssumption DEF SoundDoc, QuietDoc, QuietBuffer, Cached
<1> QED BY <1>1, <1>3, <1>4 DEF Quiet, SoundStore, new

\* document_for_path
LEMMA DocumentForQuiet ==
  ASSUME NEW st, SoundStore(st), NEW p \in Paths, disk \in Found
  PROVE  Quiet(st, DocumentFor(st, p)) /\ DocumentFor(st, p).active[p] = DocumentFor(st, p).docs[p].snap
<1>1. Quiet(st, SnapshotFor(st, p))
  BY SnapshotForQuiet
<1>2. SoundStore(SnapshotFor(st, p)) /\ SnapshotFor(st, p) \in Stores
  BY <1>1 DEF Quiet, SoundStore
<1>3. Quiet(SnapshotFor(st, p), Observe(SnapshotFor(st, p), p))
  BY <1>2, ObserveQuiet
<1>4. Quiet(st, Observe(SnapshotFor(st, p), p))
  BY <1>1, <1>3, QuietTransitive
<1>5. LET new == Observe(SnapshotFor(st, p), p)
      IN  new.docs = SnapshotFor(st, p).docs /\ new.active[p] = SnapshotFor(st, p).docs[p].snap
  BY <1>2, ObserveFields
<1> QED BY <1>4, <1>5 DEF DocumentFor

\* hir_module_query
LEMMA HirModuleFields ==
  ASSUME NEW st, SoundStore(st), NEW p \in Paths, NEW update \in BOOLEAN
  PROVE  LET new == HirModule(st, p, update)
         IN  /\ new \in Stores /\ new.next = st.next /\ new.docs = st.docs /\ new.active = st.active
             /\ new.def = st.def /\ new.xref = st.xref
             /\ new.background = st.background /\ new.persisted = st.persisted
             /\ \A q \in Paths : new.hir[q] = IF q = p
                                   THEN [snap |-> st.docs[p].snap, text |-> st.docs[p].text] ELSE st.hir[q]
             /\ \A q \in Paths : new.open[q] = IF q = p /\ update /\ st.docs[p].open
                                               THEN st.docs[p].text ELSE st.open[q]
<1> DEFINE new  == HirModule(st, p, update)
           doc  == st.docs[p]
           made == [snap |-> doc.snap, text |-> doc.text]
           entry == IF Cached(st.hir, st, p) THEN st.hir[p] ELSE made
           hir  == [st.hir EXCEPT ![p] = entry]
           open == [st.open EXCEPT ![p] = IF update /\ doc.open THEN entry.text ELSE @]
<1>0. st \in Stores /\ doc \in DocType /\ st.hir[p] \in HirType \cup {None} /\ SoundDoc(st, p)
  BY DEF SoundStore, Stores
<1>1. made \in HirType /\ made.text = doc.text /\ made.text \in Texts
  BY <1>0 DEF HirType, DocType
<1>2. entry = made
  <2>1. CASE Cached(st.hir, st, p)
    <3>1. st.hir[p] \in HirType /\ st.hir[p].snap = doc.snap /\ st.hir[p].text = doc.text
      BY <1>0, <2>1 DEF Cached, SoundDoc
    <3> QED BY <2>1, <3>1 DEF HirType
  <2> QED BY <2>1
<1> HIDE DEF entry, doc
<1>3. hir \in [Paths -> HirType \cup {None}]
      /\ \A q \in Paths : hir[q] = IF q = p THEN made ELSE st.hir[q]
  BY <1>0, <1>1, <1>2 DEF Stores
<1>4. open \in Found /\ \A q \in Paths : open[q] = IF q = p /\ update /\ doc.open THEN made.text ELSE st.open[q]
  BY <1>0, <1>1, <1>2 DEF Stores, Found
<1>a. new = [st EXCEPT !.hir = hir, !.open = open]
  BY DEF HirModule, entry, doc
<1> HIDE DEF hir, open, new
<1>5. new = [docs |-> st.docs, next |-> st.next, active |-> st.active, hir |-> hir,
             def |-> st.def, xref |-> st.xref, open |-> open,
             background |-> st.background, persisted |-> st.persisted]
  BY <1>0, <1>a DEF Stores
<1>6. new \in Stores
  BY <1>0, <1>3, <1>4, <1>5 DEF Stores
<1> QED BY <1>3, <1>4, <1>5, <1>6 DEF new, doc

\* hir_module_query: the module is the current text's, and in the open-file index.
LEMMA HirModuleQuiet ==
  ASSUME NEW st, SoundStore(st), NEW p \in Paths, NEW update \in BOOLEAN
  PROVE  LET new == HirModule(st, p, update)
         IN  /\ Quiet(st, new) /\ Cached(new.hir, new, p) /\ new.hir[p].text = st.docs[p].text
             /\ update /\ st.docs[p].open => new.open[p] # None
<1> DEFINE new == HirModule(st, p, update)
           made == [snap |-> st.docs[p].snap, text |-> st.docs[p].text]
<1>0. st \in Stores /\ st.docs[p] \in DocType /\ st.docs[p].snap \in Nat /\ st.docs[p].text \in Texts
  BY DEF SoundStore, Stores, DocType
<1>1. /\ new \in Stores /\ new.next = st.next /\ new.docs = st.docs /\ new.active = st.active
      /\ new.def = st.def /\ new.xref = st.xref
      /\ \A q \in Paths : new.hir[q] = IF q = p THEN made ELSE st.hir[q]
      /\ \A q \in Paths : new.open[q] = IF q = p /\ update /\ st.docs[p].open
                                        THEN st.docs[p].text ELSE st.open[q]
  BY HirModuleFields
<1> HIDE DEF new
<1>2. \A q \in Paths : SoundDoc(st, q)
  BY DEF SoundStore
<1>3. made # None /\ st.docs[p].text # None
  BY <1>0, NoneAssumption, IdeAssumption DEF HirType, Texts
<1>4. \A q \in Paths : SoundDoc(new, q)
  BY <1>0, <1>1, <1>2, <1>3, IdeAssumption DEF SoundDoc
<1>5. \A q \in Paths : QuietDoc(st, new, q)
  BY <1>0, <1>1, <1>2, <1>3 DEF SoundDoc, QuietDoc, QuietBuffer, Cached
<1> QED BY <1>0, <1>1, <1>3, <1>4, <1>5 DEF Quiet, SoundStore, Cached, new

\* diagnostics_from_file_queries
LEMMA FileDiagnosticsQuiet ==
  ASSUME NEW st, SoundStore(st), NEW p \in Paths
  PROVE  /\ Quiet(st, FileDiagnostics(st, p))
         /\ st.docs[p].open => FileDiagnostics(st, p).open[p] # None
         /\ Cached(st.hir, st, p) => /\ Cached(FileDiagnostics(st, p).hir, FileDiagnostics(st, p), p)
                                     /\ FileDiagnostics(st, p).hir[p] = st.hir[p]
<1>1. CASE ~st.docs[p].open
  BY <1>1, QuietReflexive DEF FileDiagnostics
<1>2. CASE st.docs[p].open
  <2> DEFINE new == HirModule(st, p, TRUE)
  <2>1. Quiet(st, new) /\ Cached(new.hir, new, p) /\ new.open[p] # None
    BY <1>2, HirModuleQuiet
  <2>2. Cached(st.hir, st, p) => new.hir[p] = st.hir[p]
    <3>1. new.hir[p] = [snap |-> st.docs[p].snap, text |-> st.docs[p].text]
      BY HirModuleFields
    <3>2. SoundDoc(st, p) /\ st.hir[p] \in HirType \cup {None}
      BY DEF SoundStore, Stores
    <3> QED BY <3>1, <3>2 DEF SoundDoc, Cached, HirType
  <2> QED BY <1>2, <2>1, <2>2 DEF FileDiagnostics
<1> QED BY <1>1, <1>2

\* diagnostics_for
LEMMA DiagnosticsForQuiet ==
  ASSUME NEW st, SoundStore(st), NEW p \in Paths, disk \in Found
  PROVE  Quiet(st, DiagnosticsFor(st, p))
<1>1. Quiet(st, DocumentFor(st, p)) /\ SoundStore(DocumentFor(st, p))
  BY DocumentForQuiet DEF Quiet
<1>2. Quiet(DocumentFor(st, p), FileDiagnostics(DocumentFor(st, p), p))
  BY <1>1, FileDiagnosticsQuiet
<1> QED BY <1>1, <1>2, QuietTransitive DEF DiagnosticsFor

\* The module of a document, and its entries in the open-file index.
LEMMA ModuleForQuiet ==
  ASSUME NEW st, SoundStore(st), NEW p \in Paths, disk \in Found, NEW update \in BOOLEAN
  PROVE  LET new == HirModule(DocumentFor(st, p), p, update)
         IN  /\ Quiet(st, new) /\ Cached(new.hir, new, p)
             /\ update /\ new.docs[p].open => new.open[p] # None
<1> DEFINE mid == DocumentFor(st, p)
           new == HirModule(mid, p, update)
<1>1. Quiet(st, mid) /\ SoundStore(mid)
  BY DocumentForQuiet DEF Quiet
<1> HIDE DEF mid
<1>2. /\ Quiet(mid, new) /\ Cached(new.hir, new, p)
      /\ update /\ mid.docs[p].open => new.open[p] # None
  BY <1>1, HirModuleQuiet
<1>3. new.docs[p].open = mid.docs[p].open
  BY <1>2 DEF Quiet, QuietDoc, QuietBuffer
<1>4. Quiet(st, new)
  BY <1>1, <1>2, QuietTransitive
<1> QED BY <1>2, <1>3, <1>4 DEF mid

\* build_snapshot
LEMMA BuildSnapshotQuiet ==
  ASSUME NEW st, SoundStore(st), NEW p \in Paths, disk \in Found
  PROVE  LET new == BuildSnapshot(st, p)
         IN  /\ Quiet(st, new) /\ Cached(new.hir, new, p)
             /\ new.docs[p].open => new.open[p] # None
<1> DEFINE mid == HirModule(DocumentFor(st, p), p, TRUE)
           new == FileDiagnostics(mid, p)
<1>1. Quiet(st, mid) /\ SoundStore(mid) /\ Cached(mid.hir, mid, p)
  BY ModuleForQuiet DEF Quiet
<1> HIDE DEF mid
<1>2. /\ Quiet(mid, new) /\ Cached(new.hir, new, p)
      /\ mid.docs[p].open => new.open[p] # None
  BY <1>1, FileDiagnosticsQuiet
<1>3. new.docs[p].open = mid.docs[p].open
  BY <1>2 DEF Quiet, QuietDoc, QuietBuffer
<1>4. Quiet(st, new)
  BY <1>1, <1>2, QuietTransitive
<1> QED BY <1>2, <1>3, <1>4 DEF mid, BuildSnapshot

\* A query may also set an entry of the background index.
LEMMA BackgroundQuiet ==
  ASSUME NEW st, SoundStore(st), NEW found \in Found
  PROVE  Quiet(st, [st EXCEPT !.background = found])
<1> DEFINE new == [st EXCEPT !.background = found]
<1>0. st \in Stores
  BY DEF SoundStore
<1>1. new = [docs |-> st.docs, next |-> st.next, active |-> st.active, hir |-> st.hir,
             def |-> st.def, xref |-> st.xref, open |-> st.open,
             background |-> found, persisted |-> st.persisted]
  BY <1>0 DEF Stores
<1> HIDE DEF new
<1>2. new \in Stores
  BY <1>0, <1>1 DEF Stores
<1>3. \A p \in Paths : SoundDoc(new, p) /\ QuietDoc(st, new, p)
  BY <1>1 DEF SoundStore, SoundDoc, QuietDoc, QuietBuffer, Cached
<1> QED BY <1>2, <1>3 DEF Quiet, SoundStore, new

\* index_workspace_file
LEMMA IndexFileQuiet ==
  ASSUME NEW st, SoundStore(st), NEW p \in Paths, disk \in Found
  PROVE  Quiet(st, IndexFile(st, p))
<1>1. CASE disk[p] = None
  <2>1. [st.background EXCEPT ![p] = None] \in Found
    BY DEF SoundStore, Stores, Found
  <2> QED BY <1>1, <2>1, BackgroundQuiet DEF IndexFile
<1>2. CASE disk[p] # None
  <2> DEFINE mid   == HirModule(DocumentFor(st, p), p, FALSE)
             built == FileDiagnostics(mid, p)
             found == [built.background EXCEPT ![p] = built.hir[p].text]
  <2>1. Quiet(st, mid) /\ SoundStore(mid) /\ Cached(mid.hir, mid, p)
    BY ModuleForQuiet DEF Quiet
  <2> HIDE DEF mid
  <2>2. Quiet(mid, built) /\ Cached(built.hir, built, p)
    BY <2>1, FileDiagnosticsQuiet
  <2>3. SoundStore(built) /\ Quiet(st, built)
    BY <2>1, <2>2, QuietTransitive DEF Quiet
  <2> HIDE DEF built
  <2>4. built.hir[p] \in HirType /\ built.background \in Found
    BY <2>2, <2>3 DEF SoundStore, Stores, Cached
  <2>5. found \in Found
    BY <2>4 DEF HirType, Found
  <2>6. Quiet(built, [built EXCEPT !.background = found])
    BY <2>3, <2>5, BackgroundQuiet
  <2>7. IndexFile(st, p) = [built EXCEPT !.background = found]
    BY <1>2 DEF IndexFile, built, mid
  <2> QED BY <2>3, <2>6, <2>7, QuietTransitive
<1> QED BY <1>1, <1>2

-----------------------------------------------------------------------------
(* Opening, changing and closing a document. *)

\* A text, or the flag, is set under a new snapshot id and then observed:
\* what the old snapshot left in the caches and the open-file index is gone.
LEMMA EditKeeps ==
  ASSUME NEW st, SoundStore(st), NEW p \in Paths, NEW d \in DocType,
         d.snap = st.next, d.open = TRUE
  PROVE  LET new == DocumentFor(Documented(st, p, d), p)
         IN  /\ SoundStore(new) /\ new.docs[p] = d /\ new.open[p] = None
             /\ \A q \in Paths \ {p} : QuietDoc(st, new, q)
             /\ new.def[p] \in {None, st.def[p]} /\ new.xref[p] \in {None, st.xref[p]}
<1> DEFINE mid == Documented(st, p, d)
           new == Observe(mid, p)
<1>0. st \in Stores /\ \A q \in Paths : SoundDoc(st, q)
  BY DEF SoundStore
<1>1. /\ mid \in Stores /\ mid.next = st.next + 1
      /\ \A q \in Paths : mid.docs[q] = IF q = p THEN d ELSE st.docs[q]
      /\ mid.active = st.active /\ mid.hir = st.hir /\ mid.open = st.open
      /\ mid.def = st.def /\ mid.xref = st.xref
  BY <1>0, DocumentedFields
<1> HIDE DEF mid
<1>2. DocumentFor(mid, p) = new
  BY <1>1 DEF DocumentFor, SnapshotFor
<1>3. /\ new \in Stores /\ new.next = mid.next /\ new.docs = mid.docs
      /\ \A q \in Paths :
           new.active[q] = IF q = p THEN mid.docs[p].snap ELSE mid.active[q]
      /\ \A q \in Paths :
           IF q = p /\ mid.active[p] \notin {None, mid.docs[p].snap}
           THEN new.hir[q] = None /\ new.open[q] = None /\ new.def[q] = None /\ new.xref[q] = None
           ELSE new.hir[q] = mid.hir[q] /\ new.open[q] = mid.open[q]
                /\ new.def[q] = mid.def[q] /\ new.xref[q] = mid.xref[q]
  BY SMTT(60), <1>1, ObserveFields
<1> HIDE DEF new
<1>4. /\ st.next \in Nat
      /\ \A q \in Paths : /\ st.docs[q].snap \in Nat
                          /\ st.active[q] \in Nat \cup {None} /\ st.hir[q] \in HirType \cup {None}
  BY <1>0 DEF Stores, DocType
<1>5. st.active[p] # st.next
  BY <1>0, <1>4, IdeAssumption DEF SoundDoc
<1>6. \A q \in Paths \ {p} : SoundDoc(new, q) /\ QuietDoc(st, new, q)
  BY <1>0, <1>1, <1>3, <1>4 DEF SoundDoc, QuietDoc, QuietBuffer, Cached
<1>7. new.open[p] = None /\ new.docs[p] = d /\ new.active[p] = d.snap
  BY <1>0, <1>1, <1>3, <1>5 DEF SoundDoc
<1>8. new.hir[p] # None => new.hir[p].snap < d.snap
  BY <1>0, <1>1, <1>3, <1>4, <1>5 DEF SoundDoc, HirType
<1>9. SoundDoc(new, p)
  BY <1>1, <1>3, <1>4, <1>7, <1>8, <1>0 DEF SoundDoc, HirType, Stores
<1> QED BY <1>0, <1>1, <1>2, <1>3, <1>6, <1>7, <1>9 DEF SoundStore, mid

\* read is st after the document of p was closed and is as on disk, d.
ClosedAs(st, p, read, d) ==
  /\ d \in DocType /\ d.open = FALSE /\ d.snap < read.next /\ st.docs[p].snap <= d.snap
  /\ \A q \in Paths : read.docs[q] = IF q = p THEN d ELSE st.docs[q]
  /\ read \in Stores /\ st.next <= read.next
  /\ read.active = st.active /\ read.hir = st.hir /\ read.open = st.open
  /\ read.def = st.def /\ read.xref = st.xref

\* What drop_open_file reads of a document that was closed.
LEMMA ClosedFields ==
  ASSUME NEW st, SoundStore(st), NEW p \in Paths, disk \in Found
  PROVE  \E d : ClosedAs(st, p, SnapshotFor(CloseDoc(st, p), p), d)
<1> DEFINE closed == CloseDoc(st, p)
           read   == SnapshotFor(closed, p)
<1>0. st \in Stores /\ \A q \in Paths : SoundDoc(st, q)
  BY DEF SoundStore
<1> DEFINE c    == [st.docs[p] EXCEPT !.open = FALSE]
           docs == [st.docs EXCEPT ![p] = c]
<1>1. c \in DocType /\ c.open = FALSE /\ c.snap = st.docs[p].snap /\ c.snap \in Nat /\ st.next \in Nat
  BY <1>0 DEF Stores, DocType
<1>a. closed = [st EXCEPT !.docs = docs]
  BY DEF CloseDoc
<1>b. docs \in [Paths -> DocType] /\ \A q \in Paths : docs[q] = IF q = p THEN c ELSE st.docs[q]
  BY <1>0, <1>1 DEF Stores
<1> HIDE DEF c, docs, closed
<1>2. closed = [docs |-> docs, next |-> st.next, active |-> st.active, hir |-> st.hir,
                def |-> st.def, xref |-> st.xref, open |-> st.open,
                background |-> st.background, persisted |-> st.persisted]
  BY <1>0, <1>a DEF Stores
<1>3. closed \in Stores
  BY <1>0, <1>2, <1>b DEF Stores
<1>4. \E d : ClosedAs(st, p, read, d)
  <2>0. c.snap < st.next /\ closed.docs[p] = c /\ closed.next = st.next
    BY <1>0, <1>1, <1>2, <1>b DEF SoundDoc
  <2>1. CASE c.text = ReadFile(p)
    <3>1. read = closed
      BY <2>0, <2>1 DEF SnapshotFor
    <3> HIDE DEF read
    <3>2. ClosedAs(st, p, read, c)
      BY <1>1, <1>2, <1>3, <1>b, <2>0, <3>1 DEF ClosedAs
    <3> QED BY <3>2
  <2>2. CASE c.text # ReadFile(p)
    <3> DEFINE d == [c EXCEPT !.snap = st.next, !.text = ReadFile(p), !.resync = FALSE]
    <3>1. ReadFile(p) \in Texts
      BY IdeAssumption DEF ReadFile, Found, Texts
    <3>2. d \in DocType /\ d.open = FALSE /\ d.snap = st.next
      BY <1>1, <3>1 DEF DocType
    <3>3. read = Documented(closed, p, d)
      BY <1>1, <2>0, <2>2 DEF SnapshotFor, Documented
    <3> HIDE DEF read, d
    <3>4. /\ read \in Stores /\ read.next = closed.next + 1
          /\ \A q \in Paths : read.docs[q] = IF q = p THEN d ELSE closed.docs[q]
          /\ read.active = closed.active /\ read.hir = closed.hir /\ read.open = closed.open
          /\ read.def = closed.def /\ read.xref = closed.xref
      BY <1>3, <3>2, <3>3, DocumentedFields
    <3>5. \A q \in Paths : read.docs[q] = IF q = p THEN d ELSE st.docs[q]
      BY <1>2, <1>b, <3>4
    <3>6. d.snap < read.next /\ c.snap <= d.snap /\ st.next <= read.next
      BY <1>1, <2>0, <3>2, <3>4
    <3>7. /\ read.active = st.active /\ read.hir = st.hir /\ read.open = st.open
          /\ read.def = st.def /\ read.xref = st.xref
      BY <1>2, <3>4
    <3>8. ClosedAs(st, p, read, d)
      BY <1>1, <3>2, <3>4, <3>5, <3>6, <3>7 DEF ClosedAs
    <3> QED BY <3>8
  <2> QED BY <2>1, <2>2
<1> QED BY <1>1, <1>4 DEF closed

\* The caches and the open-file index without p.
LEMMA DroppedFields ==
  ASSUME NEW read \in Stores, NEW p \in Paths
  PROVE  LET new == [EraseQueryState(read, p) EXCEPT !.active[p] = None, !.open[p] = None]
         IN  /\ new \in Stores /\ new.docs = read.docs /\ new.next = read.next
             /\ \A q \in Paths : /\ new.active[q] = IF q = p THEN None ELSE read.active[q]
                                 /\ new.hir[q] = IF q = p THEN None ELSE read.hir[q]
                                 /\ new.def[q] = IF q = p THEN None ELSE read.def[q]
                                 /\ new.xref[q] = IF q = p THEN None ELSE read.xref[q]
                                 /\ new.open[q] = IF q = p THEN None ELSE read.open[q]
<1> DEFINE act  == [read.active EXCEPT ![p] = None]
           hir  == [read.hir EXCEPT ![p] = None]
           def  == [read.def EXCEPT ![p] = None]
           xref == [read.xref EXCEPT ![p] = None]
           open == [read.open EXCEPT ![p] = None]
           new  == [EraseQueryState(read, p) EXCEPT !.active[p] = None, !.open[p] = None]
<1>1. /\ act \in [Paths -> Nat \cup {None}] /\ hir \in [Paths -> HirType \cup {None}]
      /\ def \in [Paths -> Answer \cup {None}]
      /\ xref \in [Paths -> Answer \cup {None}] /\ open \in Found
  BY DEF Stores, Found
<1>2. \A q \in Paths : /\ act[q] = IF q = p THEN None ELSE read.active[q]
                       /\ hir[q] = IF q = p THEN None ELSE read.hir[q]
                       /\ def[q] = IF q = p THEN None ELSE read.def[q]
                       /\ xref[q] = IF q = p THEN None ELSE read.xref[q]
                       /\ open[q] = IF q = p THEN None ELSE read.open[q]
  BY DEF Stores, Found
<1>a. new = [read EXCEPT !.active = act, !.hir = hir, !.def = def, !.xref = xref, !.open = open]
  BY DEF Stores, EraseQueryState
<1> HIDE DEF act, hir, def, xref, open, new
<1>3. new = [docs |-> read.docs, next |-> read.next, active |-> act, hir |-> hir,
             def |-> def, xref |-> xref, open |-> open,
             background |-> read.background, persisted |-> read.persisted]
  BY <1>a DEF Stores
<1>4. new \in Stores
  BY <1>1, <1>3 DEF Stores
<1> QED BY ZenonT(60), <1>2, <1>3, <1>4 DEF new

\* drop_open_file of a document that was closed.
LEMMA DropKeeps ==
  ASSUME NEW st, SoundStore(st), NEW p \in Paths, disk \in Found
  PROVE  LET new == DropOpenFile(CloseDoc(st, p), p)
         IN  /\ SoundStore(new) /\ new.docs[p].open = FALSE
             /\ \A q \in Paths \ {p} : QuietDoc(st, new, q)
             /\ new.def[p] = None /\ new.xref[p] = None
<1> DEFINE read == SnapshotFor(CloseDoc(st, p), p)
           new  == DropOpenFile(CloseDoc(st, p), p)
<1>0. st \in Stores /\ \A q \in Paths : SoundDoc(st, q)
  BY DEF SoundStore
<1>a. \E d : ClosedAs(st, p, read, d)
  BY ClosedFields
<1>b. new = [EraseQueryState(read, p) EXCEPT !.active[p] = None, !.open[p] = None]
  BY DEF DropOpenFile
<1> HIDE DEF read, new
<1>5. PICK d : ClosedAs(st, p, read, d)
  BY <1>a
<1>6. /\ new \in Stores /\ new.docs = read.docs /\ new.next = read.next
      /\ \A q \in Paths : /\ new.active[q] = IF q = p THEN None ELSE read.active[q]
                          /\ new.hir[q] = IF q = p THEN None ELSE read.hir[q]
                          /\ new.def[q] = IF q = p THEN None ELSE read.def[q]
                          /\ new.xref[q] = IF q = p THEN None ELSE read.xref[q]
                          /\ new.open[q] = IF q = p THEN None ELSE read.open[q]
  BY <1>5, <1>b, DroppedFields DEF ClosedAs
<1>8. \A q \in Paths : /\ new.docs[q] = IF q = p THEN d ELSE st.docs[q]
                       /\ new.active[q] = IF q = p THEN None ELSE st.active[q]
                       /\ new.hir[q] = IF q = p THEN None ELSE st.hir[q]
                       /\ new.def[q] = IF q = p THEN None ELSE st.def[q]
                       /\ new.xref[q] = IF q = p THEN None ELSE st.xref[q]
                       /\ new.open[q] = IF q = p THEN None ELSE st.open[q]
  BY <1>5, <1>6 DEF ClosedAs
<1>9. st.next <= new.next /\ d.snap < new.next /\ new.next \in Nat /\ st.next \in Nat
  BY <1>0, <1>5, <1>6 DEF Stores, ClosedAs
<1>10. \A q \in Paths : st.docs[q].snap \in Nat
  BY <1>0 DEF Stores, DocType
<1>11. \A q \in Paths : SoundDoc(new, q)
  BY <1>0, <1>5, <1>8, <1>9, <1>10 DEF SoundDoc, ClosedAs
<1>12. \A q \in Paths \ {p} : QuietDoc(st, new, q)
  BY <1>8 DEF QuietDoc, QuietBuffer, Cached
<1> QED BY <1>5, <1>6, <1>8, <1>11, <1>12 DEF SoundStore, ClosedAs, new

-----------------------------------------------------------------------------
(* The queries that ask about several documents in turn. *)

\* The workspace is finite.
LEMMA FinitePaths == IsFiniteSet(Paths)
<1>1. WorkspaceFiles \in Seq(Paths)
  BY IdeAssumption DEF Paths
<1>2. DOMAIN WorkspaceFiles = 1 .. Len(WorkspaceFiles) /\ Len(WorkspaceFiles) \in Nat
  BY <1>1
<1>3. IsFiniteSet(DOMAIN WorkspaceFiles)
  BY <1>2, FS_Interval
<1>4. WorkspaceFiles \in Surjection(DOMAIN WorkspaceFiles, Paths)
  BY <1>1 DEF Surjection, Paths, Range
<1> QED BY <1>3, <1>4, FS_Surjection

\* refresh_dirty_open_indexes: every open document that was dirty is indexed.
LEMMA RefreshDirtyQuiet ==
  ASSUME NEW st, SoundStore(st), disk \in Found, dirty \subseteq Paths
  PROVE  LET new == RefreshDirty(st)
         IN  Quiet(st, new) /\ \A p \in dirty : new.docs[p].open => new.open[p] # None
<1> DEFINE U    == {v \in Stores : SoundStore(v)}
           pick == [s \in SUBSET dirty |-> CHOOSE x \in s : TRUE]
           f    == [x \in dirty |-> [v \in U |-> BuildSnapshot(v, x)]]
           Is(iter) == iter = [s \in SUBSET dirty |->
                        IF s = {} THEN st
                        ELSE BuildSnapshot(iter[s \ {CHOOSE x \in s : TRUE}], CHOOSE x \in s : TRUE)]
           h    == CHOOSE iter : Is(iter)
           T    == [s \in SUBSET dirty |->
                      {v \in U : Quiet(st, v) /\ \A p \in s : v.docs[p].open => v.open[p] # None}]
<1>1. IsFiniteSet(dirty) /\ st \in U
  BY FinitePaths, FS_Subset DEF SoundStore
<1>2. \A v \in U, x \in dirty : /\ BuildSnapshot(v, x) \in U /\ Quiet(v, BuildSnapshot(v, x))
                                /\ BuildSnapshot(v, x).docs[x].open => BuildSnapshot(v, x).open[x] # None
  <2> SUFFICES ASSUME NEW v \in U, NEW x \in dirty
               PROVE  /\ BuildSnapshot(v, x) \in U /\ Quiet(v, BuildSnapshot(v, x))
                      /\ BuildSnapshot(v, x).docs[x].open => BuildSnapshot(v, x).open[x] # None
    OBVIOUS
  <2>1. SoundStore(v) /\ x \in Paths
    OBVIOUS
  <2>2. /\ Quiet(v, BuildSnapshot(v, x))
        /\ BuildSnapshot(v, x).docs[x].open => BuildSnapshot(v, x).open[x] # None
    BY <2>1, BuildSnapshotQuiet
  <2> QED BY <2>2 DEF Quiet, SoundStore
<1> HIDE DEF U
<1>3. f \in [dirty -> [U -> U]] /\ \A x \in dirty, v \in U : f[x][v] = BuildSnapshot(v, x)
  BY <1>2
<1>4. \A s \in SUBSET dirty : s # {} => pick[s] \in s /\ pick[s] = CHOOSE x \in s : TRUE
  OBVIOUS
<1>5. Picks(dirty, pick)
  BY <1>4 DEF Picks
<1>6. \E g : Is(g)
  <2> HIDE DEF f, pick
  <2>1. PICK g : IsFold(dirty, U, pick, st, f, g)
    BY <1>1, <1>3, <1>5, FoldExists, Zenon
  <2>2. \A s \in SUBSET dirty : s # {} => f[pick[s]][g[s \ {pick[s]}]] = BuildSnapshot(g[s \ {pick[s]}], pick[s])
    BY <1>3, <1>4, <2>1 DEF IsFold
  <2>3. Is(g)
    BY <1>4, <2>1, <2>2 DEF IsFold
  <2> QED BY <2>3
<1>7. Is(h)
  BY <1>6
<1>8. RefreshDirty(st) = h[dirty]
  BY DEF RefreshDirty, FoldSet, MapThenFoldSet
<1> HIDE DEF h
<1>9. h[{}] \in T[{}]
  <2>1. h[{}] = st
    BY <1>7
  <2>2. Quiet(st, st)
    BY QuietReflexive
  <2> QED BY <1>1, <2>1, <2>2
<1>10. ASSUME NEW s \in SUBSET dirty, s # {}, h[s \ {pick[s]}] \in T[s \ {pick[s]}]
      PROVE  h[s] \in T[s]
  <2> DEFINE x == pick[s]
             old == h[s \ {x}]
             new == BuildSnapshot(old, x)
  <2>1. h[s] = new
    <3>1. h[s] = BuildSnapshot(h[s \ {CHOOSE y \in s : TRUE}], CHOOSE y \in s : TRUE)
      BY <1>7, <1>10
    <3>2. x = CHOOSE y \in s : TRUE
      BY <1>4, <1>10
    <3> QED BY <3>1, <3>2
  <2>2. x \in dirty /\ old \in U /\ Quiet(st, old) /\ \A p \in s \ {x} : old.docs[p].open => old.open[p] # None
    BY <1>4, <1>10
  <2> HIDE DEF x, old
  <2>3. new \in U /\ Quiet(old, new) /\ (new.docs[x].open => new.open[x] # None)
    BY <1>2, <2>2
  <2> HIDE DEF new
  <2>4. Quiet(st, new)
    BY <2>2, <2>3, QuietTransitive
  <2>5. \A p \in s \ {x} : new.docs[p].open => new.open[p] # None
    BY <2>2, <2>3 DEF Quiet, QuietDoc, QuietBuffer
  <2> QED BY <2>1, <2>3, <2>4, <2>5
<1> HIDE DEF T, pick, Is
<1>11. h[dirty] \in T[dirty]
  BY <1>1, <1>9, <1>10, <1>5, SubsetInduction
<1> QED BY <1>8, <1>11 DEF T

\* The modules of several documents, as references asks for them.
ModulesFor(st, S) == FoldSet(LAMBDA q, s : HirModule(DocumentFor(s, q), q, TRUE), st, S)

\* Every open document among them has its module cached.
LEMMA ModulesForQuiet ==
  ASSUME NEW st, SoundStore(st), disk \in Found, NEW S, S \subseteq Paths
  PROVE  LET new == ModulesFor(st, S)
         IN  Quiet(st, new) /\ \A p \in S : new.docs[p].open => Cached(new.hir, new, p)
<1> DEFINE U    == {v \in Stores : SoundStore(v)}
           Mod(v, x) == HirModule(DocumentFor(v, x), x, TRUE)
           pick == [s \in SUBSET S |-> CHOOSE x \in s : TRUE]
           f    == [x \in S |-> [v \in U |-> Mod(v, x)]]
           Is(iter) == iter = [s \in SUBSET S |->
                        IF s = {} THEN st
                        ELSE Mod(iter[s \ {CHOOSE x \in s : TRUE}], CHOOSE x \in s : TRUE)]
           h    == CHOOSE iter : Is(iter)
           T    == [s \in SUBSET S |->
                      {v \in U : Quiet(st, v) /\ \A p \in s : v.docs[p].open => Cached(v.hir, v, p)}]
<1>1. IsFiniteSet(S) /\ st \in U
  BY FinitePaths, FS_Subset DEF SoundStore
<1>2. \A v \in U, x \in S : Mod(v, x) \in U /\ Quiet(v, Mod(v, x)) /\ Cached(Mod(v, x).hir, Mod(v, x), x)
  <2> SUFFICES ASSUME NEW v \in U, NEW x \in S
               PROVE  Mod(v, x) \in U /\ Quiet(v, Mod(v, x)) /\ Cached(Mod(v, x).hir, Mod(v, x), x)
    OBVIOUS
  <2>1. SoundStore(v) /\ x \in Paths
    OBVIOUS
  <2>2. Quiet(v, Mod(v, x)) /\ Cached(Mod(v, x).hir, Mod(v, x), x)
    BY <2>1, ModuleForQuiet
  <2> QED BY <2>2 DEF Quiet, SoundStore
<1>3. ModulesFor(st, S) = h[S]
  BY DEF ModulesFor, FoldSet, MapThenFoldSet
<1> HIDE DEF U, Mod
<1>4. f \in [S -> [U -> U]] /\ \A x \in S, v \in U : f[x][v] = Mod(v, x)
  BY <1>2
<1>5. \A s \in SUBSET S : s # {} => pick[s] \in s /\ pick[s] = CHOOSE x \in s : TRUE
  OBVIOUS
<1>6. Picks(S, pick)
  BY <1>5 DEF Picks
<1>7. \E g : Is(g)
  <2> HIDE DEF f, pick
  <2>1. PICK g : IsFold(S, U, pick, st, f, g)
    BY <1>1, <1>4, <1>6, FoldExists, Zenon
  <2>2. \A s \in SUBSET S : s # {} => f[pick[s]][g[s \ {pick[s]}]] = Mod(g[s \ {pick[s]}], pick[s])
    BY <1>4, <1>5, <2>1 DEF IsFold
  <2>3. Is(g)
    BY <1>5, <2>1, <2>2 DEF IsFold
  <2> QED BY <2>3
<1>8. Is(h)
  BY <1>7
<1> HIDE DEF h
<1>9. h[{}] \in T[{}]
  <2>1. h[{}] = st
    BY <1>8
  <2>2. Quiet(st, st)
    BY QuietReflexive
  <2> QED BY <1>1, <2>1, <2>2
<1>10. ASSUME NEW s \in SUBSET S, s # {}, h[s \ {pick[s]}] \in T[s \ {pick[s]}]
       PROVE  h[s] \in T[s]
  <2> DEFINE x == pick[s]
             old == h[s \ {x}]
             new == Mod(old, x)
  <2>1. h[s] = new
    <3>1. h[s] = Mod(h[s \ {CHOOSE y \in s : TRUE}], CHOOSE y \in s : TRUE)
      BY <1>8, <1>10
    <3>2. x = CHOOSE y \in s : TRUE
      BY <1>5, <1>10
    <3> QED BY <3>1, <3>2
  <2>2. x \in S /\ old \in U /\ Quiet(st, old) /\ \A p \in s \ {x} : old.docs[p].open => Cached(old.hir, old, p)
    BY <1>5, <1>10
  <2> HIDE DEF x, old
  <2>3. new \in U /\ Quiet(old, new) /\ Cached(new.hir, new, x)
    BY <1>2, <2>2
  <2> HIDE DEF new
  <2>4. Quiet(st, new)
    BY <2>2, <2>3, QuietTransitive
  <2>5. \A p \in s \ {x} : new.docs[p].open => Cached(new.hir, new, p)
    BY <2>2, <2>3 DEF Quiet, QuietDoc, QuietBuffer
  <2> QED BY <2>1, <2>3, <2>4, <2>5
<1> HIDE DEF T, pick, Is
<1>11. h[S] \in T[S]
  BY <1>1, <1>6, <1>9, <1>10, SubsetInduction
<1> QED BY <1>3, <1>11 DEF T

-----------------------------------------------------------------------------
(* The answers that are cached. *)

\* The answer has the buffer of every open document.
FromBuffers(st, a) == \A q \in Paths : st.docs[q].open => a.found[q] = st.docs[q].text

\* A query that may also compute definitions and references, from the buffers.
Inquiry(st, new) ==
  /\ SoundStore(new)
  /\ \A p \in Paths : /\ QuietBuffer(st, new, p)
                      /\ new.def[p] \in {None, st.def[p]} \/ FromBuffers(new, new.def[p])
                      /\ new.xref[p] \in {None, st.xref[p]} \/ FromBuffers(new, new.xref[p])

\* A query that computes no answer leaves the cached ones right.
LEMMA QuietAsked ==
  ASSUME NEW st, NEW new, Quiet(st, new)
  PROVE  Inquiry(st, new)
BY DEF Quiet, QuietDoc, Inquiry

\* Queries before an answer is computed change no buffer under it.
LEMMA QuietThenAsked ==
  ASSUME NEW st, NEW mid, NEW new, Quiet(st, mid), Inquiry(mid, new)
  PROVE  Inquiry(st, new)
<1>1. ASSUME NEW p \in Paths PROVE QuietBuffer(st, new, p)
  BY DEF Quiet, QuietDoc, Inquiry, QuietBuffer
<1>2. ASSUME NEW p \in Paths
      PROVE  /\ new.def[p] \in {None, st.def[p]} \/ FromBuffers(new, new.def[p])
             /\ new.xref[p] \in {None, st.xref[p]} \/ FromBuffers(new, new.xref[p])
  BY DEF Quiet, QuietDoc, Inquiry
<1> QED BY <1>1, <1>2 DEF Inquiry

\* Queries after an answer was computed change no buffer under it.
LEMMA AskedThenQuiet ==
  ASSUME NEW st, NEW mid, NEW new, Inquiry(st, mid), Quiet(mid, new)
  PROVE  Inquiry(st, new)
<1>1. ASSUME NEW p \in Paths PROVE QuietBuffer(st, new, p)
  BY DEF Quiet, QuietDoc, Inquiry, QuietBuffer
<1>2. \A a : FromBuffers(mid, a) => FromBuffers(new, a)
  BY DEF Quiet, QuietDoc, QuietBuffer, FromBuffers
<1>3. ASSUME NEW p \in Paths
      PROVE  /\ new.def[p] \in {None, st.def[p]} \/ FromBuffers(new, new.def[p])
             /\ new.xref[p] \in {None, st.xref[p]} \/ FromBuffers(new, new.xref[p])
  BY <1>2 DEF Quiet, QuietDoc, Inquiry
<1> QED BY <1>1, <1>3 DEF Inquiry, Quiet

\* definition_query, once the index has every open document.
LEMMA DefinitionAsked ==
  ASSUME NEW st, SoundStore(st), NEW p \in Paths,
         \A q \in Paths : st.docs[q].open => st.open[q] # None
  PROVE  Inquiry(st, Definition(st, p))
<1>1. CASE Cached(st.def, st, p)
  BY <1>1, QuietReflexive, QuietAsked DEF Definition
<1>2. CASE ~Cached(st.def, st, p)
  <2> DEFINE mid == HirModule(st, p, TRUE)
             a   == [snap |-> mid.docs[p].snap, found |-> MergedSymbols(mid)]
             def == [mid.def EXCEPT ![p] = a]
             new == [mid EXCEPT !.def = def]
  <2>1. Quiet(st, mid)
    BY HirModuleQuiet
  <2>2. Definition(st, p) = new
    BY <1>2 DEF Definition
  <2> HIDE DEF mid
  <2>3. mid \in Stores /\ SoundStore(mid)
    BY <2>1 DEF Quiet, SoundStore
  <2>4. mid.open \in Found /\ mid.background \in Found /\ mid.persisted \in Found
    BY <2>3 DEF Stores
  <2>5. MergedReferences(mid) \in Found
    BY <2>4 DEF MergedReferences, Found
  <2>6. MergedSymbols(mid) \in Found
    BY <2>4, <2>5 DEF MergedSymbols, Found
  <2>7. \A q \in Paths : mid.docs[q].open => mid.open[q] # None /\ mid.open[q] = mid.docs[q].text
    BY <2>1, <2>3 DEF Quiet, QuietDoc, QuietBuffer, SoundStore, SoundDoc
  <2>8. \A q \in Paths : mid.docs[q].open => MergedSymbols(mid)[q] = mid.docs[q].text
    BY <2>7 DEF MergedSymbols, MergedReferences
  <2>9. a \in Answer
    BY <2>3, <2>6 DEF Answer, Stores, DocType
  <2>10. def \in [Paths -> Answer \cup {None}] /\ def[p] = a /\ \A q \in Paths \ {p} : def[q] = mid.def[q]
    BY <2>3, <2>9 DEF Stores
  <2>11. a.found = MergedSymbols(mid)
    OBVIOUS
  <2> HIDE DEF a, def, new
  <2>12. new = [docs |-> mid.docs, next |-> mid.next, active |-> mid.active, hir |-> mid.hir,
                def |-> def, xref |-> mid.xref, open |-> mid.open,
                background |-> mid.background, persisted |-> mid.persisted]
    BY <2>3 DEF Stores, new
  <2>13. new \in Stores
    BY <2>3, <2>10, <2>12 DEF Stores
  <2>14. \A q \in Paths : SoundDoc(new, q)
    BY <2>3, <2>12 DEF SoundStore, SoundDoc
  <2>15. \A q \in Paths : QuietBuffer(mid, new, q)
    BY <2>12 DEF QuietBuffer, Cached
  <2>16. FromBuffers(new, new.def[p])
    BY <2>8, <2>10, <2>11, <2>12 DEF FromBuffers
  <2>17. \A q \in Paths : /\ new.def[q] \in {None, mid.def[q]} \/ FromBuffers(new, new.def[q])
                          /\ new.xref[q] \in {None, mid.xref[q]}
    BY <2>10, <2>12, <2>16
  <2>18. Inquiry(mid, new)
    BY <2>13, <2>14, <2>15, <2>17 DEF Inquiry, SoundStore
  <2> QED BY <2>1, <2>2, <2>18, QuietThenAsked
<1> QED BY <1>1, <1>2

\* references_query
LEMMA ReferencesAsked ==
  ASSUME NEW st, SoundStore(st), NEW p \in Paths, disk \in Found
  PROVE  Inquiry(st, References(st, p))
<1>1. CASE Cached(st.xref, st, p)
  BY <1>1, QuietReflexive, QuietAsked DEF References
<1>2. CASE ~Cached(st.xref, st, p)
  <2> DEFINE mid   == HirModule(st, p, TRUE)
             all   == ModulesFor(mid, OpenPaths(st))
             found == [q \in Paths |-> IF all.docs[q].open THEN all.hir[q].text
                                       ELSE MergedReferences(all)[q]]
             a     == [snap |-> all.docs[p].snap, found |-> found]
             xref  == [all.xref EXCEPT ![p] = a]
             new   == [all EXCEPT !.xref = xref]
  <2>1. Quiet(st, mid) /\ SoundStore(mid)
    BY HirModuleQuiet DEF Quiet
  <2>2. References(st, p) = new
    BY <1>2 DEF References, ModulesFor
  <2> HIDE DEF mid
  <2>3. Quiet(mid, all) /\ \A q \in OpenPaths(st) : all.docs[q].open => Cached(all.hir, all, q)
    BY <2>1, ModulesForQuiet DEF OpenPaths
  <2> HIDE DEF all
  <2>4. Quiet(st, all) /\ all \in Stores /\ SoundStore(all)
    BY <2>1, <2>3, QuietTransitive DEF Quiet, SoundStore
  <2>5. \A q \in Paths : all.docs[q].open => Cached(all.hir, all, q)
    BY <2>3, <2>4 DEF Quiet, QuietDoc, QuietBuffer, OpenPaths
  <2>6. \A q \in Paths : all.docs[q].open => all.hir[q].text = all.docs[q].text
    BY <2>4, <2>5 DEF SoundStore, SoundDoc, Cached
  <2>7. all.open \in Found /\ all.background \in Found /\ \A q \in Paths : all.docs[q].text \in Texts
    BY <2>4 DEF Stores, DocType
  <2>8. MergedReferences(all) \in Found
    BY <2>7 DEF MergedReferences, Found
  <2>9. found \in Found /\ \A q \in Paths : all.docs[q].open => found[q] = all.docs[q].text
    BY <2>6, <2>7, <2>8 DEF Found
  <2> HIDE DEF found
  <2>10. a \in Answer
    BY <2>4, <2>9 DEF Answer, Stores, DocType
  <2>11. xref \in [Paths -> Answer \cup {None}] /\ xref[p] = a /\ \A q \in Paths \ {p} : xref[q] = all.xref[q]
    BY <2>4, <2>10 DEF Stores
  <2>12. a.found = found
    OBVIOUS
  <2> HIDE DEF a, xref, new
  <2>13. new = [docs |-> all.docs, next |-> all.next, active |-> all.active, hir |-> all.hir,
                def |-> all.def, xref |-> xref, open |-> all.open,
                background |-> all.background, persisted |-> all.persisted]
    BY <2>4 DEF Stores, new
  <2>14. new \in Stores
    BY <2>4, <2>11, <2>13 DEF Stores
  <2>15. \A q \in Paths : SoundDoc(new, q)
    BY <2>4, <2>13 DEF SoundStore, SoundDoc
  <2>16. \A q \in Paths : QuietBuffer(all, new, q)
    BY <2>13 DEF QuietBuffer, Cached
  <2>17. FromBuffers(new, new.xref[p])
    BY <2>9, <2>11, <2>12, <2>13 DEF FromBuffers
  <2>18. \A q \in Paths : /\ new.def[q] \in {None, all.def[q]}
                          /\ new.xref[q] \in {None, all.xref[q]} \/ FromBuffers(new, new.xref[q])
    BY <2>11, <2>13, <2>17
  <2>19. Inquiry(all, new)
    BY <2>14, <2>15, <2>16, <2>18 DEF Inquiry, SoundStore
  <2> QED BY <2>2, <2>4, <2>19, QuietThenAsked
<1> QED BY <1>1, <1>2

-----------------------------------------------------------------------------
(* The loops over the workspace. *)

\* The positions of the workspace's files, the last one first.
\* The positions of the workspace's files, and the last of some.
Positions == DOMAIN WorkspaceFiles
LastOf == [s \in SUBSET Positions |-> Max(s)]

\* FoldLeft takes the files from the last one backwards.
LEMMA LastPosition ==
  /\ IsFiniteSet(Positions) /\ Picks(Positions, LastOf)
  /\ \A i \in Positions : WorkspaceFiles[i] \in Paths
  /\ \A s \in SUBSET Positions : LastOf[s] = Max(s)
<1>1. WorkspaceFiles \in Seq(Paths)
  BY IdeAssumption DEF Paths
<1>2. Positions = 1 .. Len(WorkspaceFiles) /\ Len(WorkspaceFiles) \in Nat
  BY <1>1 DEF Positions
<1>3. \A i \in Positions : WorkspaceFiles[i] \in Paths
  BY <1>1, <1>2
<1>4. IsFiniteSet(Positions)
  BY <1>2, FS_Interval
<1>5. ASSUME NEW s \in SUBSET Positions, s # {} PROVE Max(s) \in s
  <2>1. s \subseteq 0 .. Len(WorkspaceFiles)
    BY <1>2
  <2>2. \E m \in s : \A i \in s : m >= i
    BY <1>2, <1>5, <2>1, GreatestNumber
  <2> QED BY <2>2 DEF Max
<1> QED BY <1>3, <1>4, <1>5 DEF Picks, LastOf

\* index_workspace: a query about every file.
LEMMA IndexWorkspaceQuiet ==
  ASSUME NEW st, SoundStore(st), disk \in Found
  PROVE  Quiet(st, FoldLeft(IndexFile, st, WorkspaceFiles))
<1> DEFINE S    == Positions
           pick == LastOf
           U    == {v \in Stores : SoundStore(v)}
           Index(v, i) == IndexFile(v, WorkspaceFiles[i])
           f    == [i \in S |-> [v \in U |-> Index(v, i)]]
           Is(iter) == iter = [s \in SUBSET S |->
                        IF s = {} THEN st ELSE Index(iter[s \ {Max(s)}], Max(s))]
           h    == CHOOSE iter : Is(iter)
           T    == [s \in SUBSET S |-> {v \in U : Quiet(st, v)}]
<1>1. st \in U
  BY DEF SoundStore
<1>2. \A v \in U, i \in S : Index(v, i) \in U /\ Quiet(v, Index(v, i))
  <2> SUFFICES ASSUME NEW v \in U, NEW i \in S
               PROVE  Index(v, i) \in U /\ Quiet(v, Index(v, i))
    OBVIOUS
  <2>1. SoundStore(v) /\ WorkspaceFiles[i] \in Paths
    BY LastPosition
  <2>2. Quiet(v, Index(v, i))
    BY <2>1, IndexFileQuiet
  <2> QED BY <2>2 DEF Quiet, SoundStore
<1>3. FoldLeft(IndexFile, st, WorkspaceFiles) = h[S]
  BY DEF FoldLeft, MapThenFoldSet, Positions
<1> HIDE DEF U, Index
<1>4. f \in [S -> [U -> U]] /\ \A i \in S, v \in U : f[i][v] = Index(v, i)
  BY <1>2
<1>5. \A s \in SUBSET S : s # {} => pick[s] \in s /\ pick[s] = Max(s)
  BY LastPosition DEF Picks
<1>6. IsFiniteSet(S) /\ Picks(S, pick)
  BY LastPosition
<1> HIDE DEF S, pick
<1>7. \E g : Is(g)
  <2> HIDE DEF f
  <2>1. PICK g : IsFold(S, U, pick, st, f, g)
    BY <1>1, <1>4, <1>6, FoldExists, Zenon
  <2>2. \A s \in SUBSET S : s # {} => f[pick[s]][g[s \ {pick[s]}]] = Index(g[s \ {pick[s]}], pick[s])
    BY <1>4, <1>5, <2>1 DEF IsFold
  <2>3. Is(g)
    BY <1>5, <2>1, <2>2 DEF IsFold
  <2> QED BY <2>3
<1>8. Is(h)
  BY <1>7
<1> HIDE DEF h
<1>9. h[{}] \in T[{}]
  <2>1. h[{}] = st
    BY <1>8
  <2> QED BY <1>1, <2>1, QuietReflexive
<1>10. ASSUME NEW s \in SUBSET S, s # {}, h[s \ {pick[s]}] \in T[s \ {pick[s]}]
       PROVE  h[s] \in T[s]
  <2> DEFINE x == pick[s]
             old == h[s \ {x}]
             new == Index(old, x)
  <2>1. h[s] = new
    BY <1>5, <1>8, <1>10
  <2>2. x \in S /\ old \in U /\ Quiet(st, old)
    BY <1>5, <1>10
  <2> HIDE DEF x, old
  <2>3. new \in U /\ Quiet(old, new)
    BY <1>2, <2>2
  <2> QED BY <2>1, <2>2, <2>3, QuietTransitive
<1> HIDE DEF T, Is
<1>11. h[S] \in T[S]
  BY <1>6, <1>9, <1>10, SubsetInduction
<1> QED BY <1>3, <1>11 DEF T

\* schedule_background_index_refresh queues files of the workspace only.
LEMMA RefreshQueues ==
  ASSUME pendingBg \in Seq(Paths)
  PROVE  FoldLeft(EnqueueClosed, pendingBg, WorkspaceFiles) \in Seq(Paths)
<1> DEFINE S    == Positions
           pick == LastOf
           U    == Seq(Paths)
           Add(queue, i) == EnqueueClosed(queue, WorkspaceFiles[i])
           f    == [i \in S |-> [queue \in U |-> Add(queue, i)]]
           Is(iter) == iter = [s \in SUBSET S |->
                        IF s = {} THEN pendingBg ELSE Add(iter[s \ {Max(s)}], Max(s))]
           h    == CHOOSE iter : Is(iter)
           T    == [s \in SUBSET S |-> U]
<1>1. \A queue \in U, i \in S : Add(queue, i) \in U
  BY LastPosition DEF EnqueueClosed, Enqueue
<1>2. FoldLeft(EnqueueClosed, pendingBg, WorkspaceFiles) = h[S]
  BY DEF FoldLeft, MapThenFoldSet, Positions
<1> HIDE DEF U, Add
<1>3. f \in [S -> [U -> U]] /\ \A i \in S, queue \in U : f[i][queue] = Add(queue, i)
  BY <1>1
<1>4. \A s \in SUBSET S : s # {} => pick[s] \in s /\ pick[s] = Max(s)
  BY LastPosition DEF Picks
<1>5. IsFiniteSet(S) /\ Picks(S, pick) /\ pendingBg \in U
  BY LastPosition DEF U
<1> HIDE DEF S, pick, f
<1>6. PICK g : IsFold(S, U, pick, pendingBg, f, g)
  BY <1>3, <1>5, FoldExists, Zenon
<1>7. \A s \in SUBSET S : s # {} => f[pick[s]][g[s \ {pick[s]}]] = Add(g[s \ {pick[s]}], pick[s])
  BY <1>3, <1>4, <1>6 DEF IsFold
<1>8. Is(g)
  BY <1>4, <1>6, <1>7 DEF IsFold
<1>9. Is(h)
  BY <1>8
<1> HIDE DEF h
<1>10. h[{}] \in T[{}]
  BY <1>5, <1>9
<1>11. ASSUME NEW s \in SUBSET S, s # {}, h[s \ {pick[s]}] \in T[s \ {pick[s]}]
       PROVE  h[s] \in T[s]
  <2>1. h[s] = Add(h[s \ {pick[s]}], pick[s])
    BY <1>4, <1>9, <1>11
  <2>2. pick[s] \in S /\ h[s \ {pick[s]}] \in U
    BY <1>4, <1>11
  <2> QED BY <1>1, <2>1, <2>2
<1> HIDE DEF T, Is
<1>12. h[S] \in T[S]
  BY <1>5, <1>10, <1>11, SubsetInduction
<1> QED BY <1>2, <1>12 DEF T, U

\* initialize: the workspace is indexed, and no document is open.
LEMMA Initialized ==
  ASSUME disk \in Found
  PROVE  /\ SoundStore(Initialize(FreshStore))
         /\ \A p \in Paths : Initialize(FreshStore).docs[p].open = FALSE
<1> DEFINE indexed == FoldLeft(IndexFile, FreshStore, WorkspaceFiles)
           new     == Initialize(FreshStore)
<1>1. SoundStore(FreshStore)
  <2>1. NewDoc \in DocType /\ Nothing \in Found
    BY IdeAssumption DEF NewDoc, DocType, Texts, Nothing, Found
  <2>2. /\ Nothing \in [Paths -> Nat \cup {None}] /\ Nothing \in [Paths -> HirType \cup {None}]
        /\ Nothing \in [Paths -> Answer \cup {None}] /\ \A p \in Paths : Nothing[p] = None
    BY DEF Nothing
  <2>3. FreshStore \in Stores
    BY <2>1, <2>2 DEF FreshStore, Stores
  <2>4. \A p \in Paths : SoundDoc(FreshStore, p)
    BY <2>2 DEF FreshStore, SoundDoc, NewDoc
  <2> QED BY <2>3, <2>4 DEF SoundStore
<1>2. Quiet(FreshStore, indexed)
  BY <1>1, IndexWorkspaceQuiet
<1>3. new = [indexed EXCEPT !.persisted = indexed.background]
  BY DEF Initialize
<1> HIDE DEF indexed, new
<1>4. SoundStore(indexed) /\ indexed \in Stores /\ indexed.background \in Found
  BY <1>2 DEF Quiet, SoundStore, Stores
<1>5. new = [docs |-> indexed.docs, next |-> indexed.next, active |-> indexed.active, hir |-> indexed.hir,
             def |-> indexed.def, xref |-> indexed.xref, open |-> indexed.open,
             background |-> indexed.background, persisted |-> indexed.background]
  BY <1>3, <1>4 DEF Stores
<1>6. new \in Stores
  BY <1>4, <1>5 DEF Stores
<1>7. \A p \in Paths : SoundDoc(new, p)
  BY <1>4, <1>5 DEF SoundStore, SoundDoc
<1>8. \A p \in Paths : indexed.docs[p].open = FALSE
  BY <1>2 DEF Quiet, QuietDoc, QuietBuffer, FreshStore, NewDoc
<1> QED BY <1>5, <1>6, <1>7, <1>8 DEF SoundStore, new

-----------------------------------------------------------------------------
(* The queues. *)

Distinct(queue) == \A i, j \in 1 .. Len(queue) : queue[i] = queue[j] => i = j

\* An edit queues its path, once.
LEMMA EnqueueKeeps ==
  ASSUME NEW queue \in Seq(Paths), NEW p \in Paths
  PROVE  LET new == Enqueue(queue, p)
         IN  /\ new \in Seq(Paths) /\ Range(new) = Range(queue) \cup {p}
             /\ Distinct(queue) => Distinct(new)
<1>1. CASE p \in Range(queue)
  BY <1>1 DEF Enqueue
<1>2. CASE p \notin Range(queue)
  <2> DEFINE new == Append(queue, p)
  <2>1. /\ new \in Seq(Paths) /\ Len(new) = Len(queue) + 1 /\ Len(queue) \in Nat
        /\ DOMAIN new = 1 .. Len(queue) + 1 /\ DOMAIN queue = 1 .. Len(queue)
        /\ \A i \in 1 .. Len(queue) : new[i] = queue[i]
        /\ new[Len(queue) + 1] = p
    OBVIOUS
  <2> HIDE DEF new
  <2>2. \A i \in 1 .. Len(queue) : queue[i] \in Range(queue)
    BY <2>1 DEF Range
  <2>3. Range(new) = Range(queue) \cup {p}
    BY <2>1 DEF Range
  <2>4. ASSUME Distinct(queue) PROVE Distinct(new)
    <3> SUFFICES ASSUME NEW i \in 1 .. Len(queue) + 1, NEW j \in 1 .. Len(queue) + 1, new[i] = new[j]
                 PROVE  i = j
      BY <2>1 DEF Distinct
    <3>1. CASE i \in 1 .. Len(queue) /\ j \in 1 .. Len(queue)
      BY <2>1, <2>4, <3>1 DEF Distinct
    <3>2. CASE i = Len(queue) + 1 \/ j = Len(queue) + 1
      BY <1>2, <2>1, <2>2, <3>2
    <3> QED BY <2>1, <3>1, <3>2
  <2> QED BY <1>2, <2>1, <2>3, <2>4 DEF Enqueue, new
<1> QED BY <1>1, <1>2

\* did_close takes its path out of a queue, and only that.
LEMMA WithoutKeeps ==
  ASSUME NEW queue \in Seq(Paths), NEW p
  PROVE  LET new == Without(queue, p)
         IN  /\ new \in Seq(Paths)
             /\ Distinct(queue) => Distinct(new) /\ Range(new) = Range(queue) \ {p}
<1> DEFINE n   == Len(queue)
           new == Without(queue, p)
           I   == {i \in 1 .. n : queue[i] = p}
<1>0. n \in Nat /\ DOMAIN queue = 1 .. n /\ \A i \in 1 .. n : queue[i] \in Paths
  OBVIOUS
<1>1. CASE I = {}
  <2>1. new = queue
    BY <1>1 DEF Without, RemoveFirst
  <2>2. p \notin Range(queue)
    BY <1>0, <1>1 DEF Range
  <2> QED BY <2>1, <2>2
<1>2. CASE I # {}
  <2> DEFINE k == CHOOSE i \in I : \A j \in I : i <= j
  <2>1. I \subseteq Nat
    BY <1>0
  <2>2. k \in I /\ k \in 1 .. n /\ queue[k] = p
    BY <1>2, <2>1, LeastNumber
  <2>3. new = SubSeq(queue, 1, k - 1) \o SubSeq(queue, k + 1, n)
    BY <1>2 DEF Without, RemoveFirst, RemoveAt, SelectInSeq, Min
  <2> HIDE DEF k, n, new, I
  <2> DEFINE a == SubSeq(queue, 1, k - 1)
             b == SubSeq(queue, k + 1, n)
  <2>4. a \in Seq(Paths) /\ Len(a) = k - 1 /\ \A i \in 1 .. k - 1 : a[i] = queue[i]
    BY <1>0, <2>2 DEF n
  <2>5. b \in Seq(Paths) /\ Len(b) = n - k /\ \A i \in 1 .. n - k : b[i] = queue[k + i]
    <3>1. b = [i \in 1 .. n - k |-> queue[k + i]]
      BY <1>0, <2>2 DEF n
    <3> HIDE DEF b
    <3> QED BY <1>0, <2>2, <3>1
  <2> HIDE DEF a, b
  <2>6. new \in Seq(Paths) /\ Len(new) = n - 1
    BY <1>0, <2>2, <2>3, <2>4, <2>5 DEF a, b
  <2>7. \A i \in 1 .. n - 1 : new[i] = IF i < k THEN queue[i] ELSE queue[i + 1]
    <3> SUFFICES ASSUME NEW i \in 1 .. n - 1 PROVE new[i] = IF i < k THEN queue[i] ELSE queue[i + 1]
      OBVIOUS
    <3>1. new = a \o b
      BY <2>3 DEF a, b
    <3>2. CASE i < k
      BY <1>0, <2>2, <2>4, <2>5, <3>1, <3>2
    <3>3. CASE ~(i < k)
      <4>1. i - (k - 1) \in 1 .. n - k /\ i > Len(a)
        BY <1>0, <2>2, <2>4, <3>3
      <4>2. new[i] = b[i - (k - 1)]
        BY <1>0, <2>2, <2>4, <2>5, <3>1, <4>1
      <4>3. b[i - (k - 1)] = queue[k + (i - (k - 1))] /\ k + (i - (k - 1)) = i + 1
        BY <1>0, <2>2, <2>5, <4>1
      <4> QED BY <3>3, <4>2, <4>3
    <3> QED BY <3>2, <3>3
  <2>8. DOMAIN new = 1 .. n - 1
    BY <1>0, <2>6
  <2>9. ASSUME Distinct(queue) PROVE Distinct(new) /\ Range(new) = Range(queue) \ {p}
    <3>1. \A i, j \in 1 .. n : queue[i] = queue[j] => i = j
      BY <2>9 DEF Distinct, n
    <3>2. Distinct(new)
      BY SMTT(60), <1>0, <2>2, <2>6, <2>7, <3>1 DEF Distinct
    <3>3. \A i \in 1 .. n - 1 : new[i] # p /\ new[i] \in Range(queue)
      BY <1>0, <2>2, <2>7, <3>1 DEF Range
    <3>4. ASSUME NEW j \in 1 .. n, queue[j] # p PROVE \E i \in 1 .. n - 1 : new[i] = queue[j]
      <4>1. CASE j < k
        BY <1>0, <2>2, <2>7, <4>1
      <4>2. CASE j > k
        <5>1. j - 1 \in 1 .. n - 1 /\ ~(j - 1 < k) /\ j - 1 + 1 = j
          BY <1>0, <2>2, <4>2
        <5> QED BY <2>7, <5>1
      <4> QED BY <1>0, <2>2, <3>4, <4>1, <4>2
    <3>5. Range(new) \subseteq Range(queue) \ {p}
      BY <2>8, <3>3 DEF Range
    <3>6. ASSUME NEW x \in Range(queue), x # p PROVE x \in Range(new)
      <4>1. PICK j \in 1 .. n : queue[j] = x
        BY <1>0 DEF Range
      <4> QED BY <2>8, <3>4, <3>6, <4>1 DEF Range
    <3> QED BY <3>2, <3>5, <3>6
  <2> QED BY <2>6, <2>9 DEF new
<1> QED BY <1>1, <1>2

-----------------------------------------------------------------------------
(* The inductive invariant. *)

\* The run of an open document's diagnostics is due under its generation.
Due(p) ==
  /\ runtime[p].pending
  /\ runtime[p].pendingGen = runtime[p].gen /\ runtime[p].pendingSnap = runtime[p].snap

\* An open document is in the open-file index or queued for it.
IndexedOrDirty == \A p \in Paths : store.docs[p].open /\ store.open[p] = None => p \in dirty

\* The runtime's record of an open document has the snapshot that is visible.
Visible == \A p \in Paths : store.docs[p].open => runtime[p] # None /\ runtime[p].snap = store.docs[p].snap

\* Only open documents wait for diagnostics, each of them once.
QueueSound == Distinct(pendingSem) /\ \A p \in Range(pendingSem) : store.docs[p].open

\* NoEditUndiagnosed, where Publishable does not ask the disk.
Diagnosed ==
  \A p \in Paths :
    IF store.docs[p].open
    THEN published[p] = store.docs[p].snap \/ (p \in Range(pendingSem) /\ Due(p))
    ELSE published[p] = None

IInv ==
  /\ TypeOK /\ SoundStore(store)
  /\ IndexedOrDirty /\ Visible /\ QueueSound /\ Diagnosed
  /\ AnswersAreCurrent

\* The buffer of an open document does not depend on the disk.
LEMMA PublishableIfDue ==
  ASSUME IInv, NEW p \in Paths, store.docs[p].open
  PROVE  Publishable(p) <=> Due(p)
BY DEF IInv, Visible, Publishable, Due, SnapshotFor

\* The invariant is what the properties need.
LEMMA SafetyFromInvariant ==
  ASSUME IInv
  PROVE  TypeOK /\ OpenIndexExact /\ CacheExact /\ NoEditUndiagnosed /\ AnswersAreCurrent
<1>1. OpenIndexExact
  BY DEF IInv, IndexedOrDirty, SoundStore, SoundDoc, OpenIndexExact
<1>2. CacheExact
  BY DEF IInv, SoundStore, SoundDoc, CacheExact, Cached
<1>3. \A p \in Paths : store.docs[p].open => (Publishable(p) <=> Due(p))
  BY PublishableIfDue
<1>4. NoEditUndiagnosed
  BY <1>3 DEF IInv, Visible, Diagnosed, Due, NoEditUndiagnosed
<1> QED BY <1>1, <1>2, <1>4 DEF IInv

\* The workspace is indexed and nothing is open.
LEMMA InitInvariant == Init => IInv
<1> SUFFICES ASSUME Init PROVE IInv
  OBVIOUS
<1>1. disk \in Found /\ Nothing \in Found /\ \A p \in Paths : Nothing[p] = None
  BY IdeAssumption DEF Init, Found, Texts, Nothing
<1>2. SoundStore(store) /\ store \in Stores /\ \A p \in Paths : store.docs[p].open = FALSE
  BY <1>1, Initialized DEF Init, SoundStore
<1>3. /\ Nothing \in [Paths -> Runtime \cup {None}] /\ Nothing \in [Paths -> Nat \cup {None}]
      /\ <<>> \in Seq(Paths)
  BY DEF Nothing
<1>4. TypeOK
  BY <1>1, <1>2, <1>3 DEF Init, TypeOK
<1>5. Distinct(pendingSem) /\ Range(pendingSem) = {}
  BY DEF Init, Distinct, Range
<1> QED BY <1>1, <1>2, <1>4, <1>5
     DEF Init, IInv, IndexedOrDirty, Visible, QueueSound, Diagnosed, AnswersAreCurrent

-----------------------------------------------------------------------------
(* The steps that edit no buffer and leave the queue of diagnostics alone. *)

QueryStep ==
  /\ Inquiry(store, store')
  /\ runtime' \in [Paths -> Runtime \cup {None}]
  /\ \A p \in Paths : store.docs[p].open => runtime'[p] = runtime[p]
  /\ dirty' = dirty \/ (dirty' = {} /\ \A p \in Paths : store'.docs[p].open => store'.open[p] # None)
  /\ disk' \in Found /\ pendingBg' \in Seq(Paths)
  /\ canceled' \subseteq Requests /\ tickets' \subseteq Ticket
  /\ AnswersAreCurrent'
  /\ UNCHANGED <<editor, pendingSem, published>>

\* Such a step disturbs no part of the invariant.
LEMMA QueryKeeps ==
  ASSUME IInv, QueryStep
  PROVE  IInv'
<1>1. SoundStore(store') /\ store' \in Stores /\ \A p \in Paths : QuietBuffer(store, store', p)
  BY DEF QueryStep, Inquiry, SoundStore
<1>2. TypeOK'
  BY <1>1 DEF IInv, TypeOK, QueryStep
<1>3. IndexedOrDirty'
  BY <1>1 DEF IInv, IndexedOrDirty, QueryStep, QuietBuffer
<1>4. Visible'
  BY <1>1 DEF IInv, Visible, QueryStep, QuietBuffer
<1>5. QueueSound'
  <2>1. \A p \in Range(pendingSem) : p \in Paths
    BY DEF IInv, TypeOK, Range
  <2> QED BY <1>1, <2>1 DEF IInv, QueueSound, Distinct, QueryStep, QuietBuffer
<1>6. Diagnosed'
  BY <1>1 DEF IInv, Diagnosed, Due, QueryStep, QuietBuffer
<1> QED BY <1>1, <1>2, <1>3, <1>4, <1>5, <1>6 DEF IInv, QueryStep

\* A runtime record under the snapshot that is visible now.
Stamped(r, now) == [r EXCEPT !.snap = now, !.gen = IF r.snap # now THEN r.gen + 1 ELSE r.gen]

\* The generation advances exactly with the snapshot.
LEMMA StampedFields ==
  ASSUME NEW r \in Runtime, NEW now \in Nat
  PROVE  /\ Stamped(r, now) \in Runtime /\ Stamped(r, now).snap = now
         /\ r.snap = now => Stamped(r, now) = r
<1> DEFINE gen == IF r.snap # now THEN r.gen + 1 ELSE r.gen
<1>1. Stamped(r, now) = [r EXCEPT !.snap = now, !.gen = gen]
  BY DEF Stamped
<1>2. gen \in Nat /\ (r.snap = now => gen = r.gen)
  BY DEF Runtime
<1> HIDE DEF gen
<1>3. Stamped(r, now) \in Runtime /\ Stamped(r, now).snap = now
  BY <1>1, <1>2 DEF Runtime
<1>4. r.snap = now => Stamped(r, now) = r
  BY <1>1, <1>2 DEF Runtime
<1> QED BY <1>3, <1>4

\* record_visible_snapshot, as the record it leaves.
LEMMA RecordedFields ==
  ASSUME runtime \in [Paths -> Runtime \cup {None}], NEW p \in Paths, NEW now \in Nat
  PROVE  /\ Recorded(p, now) \in Runtime /\ Recorded(p, now).snap = now
         /\ runtime[p] # None /\ runtime[p].snap = now => Recorded(p, now) = runtime[p]
<1> DEFINE r == IF runtime[p] = None THEN NewRuntime ELSE runtime[p]
<1>1. r \in Runtime /\ (runtime[p] # None => r = runtime[p])
  BY DEF NewRuntime, Runtime
<1>2. Recorded(p, now) = Stamped(r, now)
  BY DEF Recorded, Stamped
<1> HIDE DEF r
<1> QED BY <1>1, <1>2, StampedFields

\* record_visible_snapshot of a document that was read.
LEMMA RecordedKeeps ==
  ASSUME IInv, NEW p \in Paths, Quiet(store, store'),
         runtime' = [runtime EXCEPT ![p] = Recorded(p, store'.docs[p].snap)]
  PROVE  /\ runtime' \in [Paths -> Runtime \cup {None}] /\ runtime'[p] \in Runtime
         /\ \A q \in Paths : store.docs[q].open => runtime'[q] = runtime[q]
<1>1. store'.docs[p].snap \in Nat
  BY DEF Quiet, SoundStore, Stores, DocType
<1>2. /\ runtime \in [Paths -> Runtime \cup {None}]
      /\ store.docs[p].open => runtime[p] # None /\ runtime[p].snap = store'.docs[p].snap
  BY DEF IInv, TypeOK, Visible, Quiet, QuietDoc, QuietBuffer
<1>3. /\ Recorded(p, store'.docs[p].snap) \in Runtime
      /\ store.docs[p].open => Recorded(p, store'.docs[p].snap) = runtime[p]
  BY <1>1, <1>2, RecordedFields
<1> QED BY <1>2, <1>3

-----------------------------------------------------------------------------
(* The steps of the editor. *)

\* An answer the step cached was computed from the buffers.
AnswersFromBuffers ==
  \A p \in Paths : /\ store'.def[p] \in {None, store.def[p]} \/ FromBuffers(store', store'.def[p])
                   /\ store'.xref[p] \in {None, store.xref[p]} \/ FromBuffers(store', store'.xref[p])

\* What a query step caches, it read off the buffers.
LEMMA AskedAnswers ==
  ASSUME Inquiry(store, store')
  PROVE  AnswersFromBuffers
BY DEF Inquiry, AnswersFromBuffers

\* A document that was edited is dirty and its run is due.
LEMMA EditStepKeeps ==
  ASSUME IInv, NEW p \in Paths, NEW d \in DocType, d.snap = store.next, d.open = TRUE,
         AfterEdit(p, Documented(store, p, d)),
         editor' \in Found, published' \in {published, [published EXCEPT ![p] = None]}
  PROVE  IInv' /\ AnswersFromBuffers
<1> DEFINE rec == Recorded(p, d.snap)
<1>0. /\ TypeOK /\ SoundStore(store) /\ store \in Stores /\ p \in Paths
      /\ runtime \in [Paths -> Runtime \cup {None}] /\ d.snap \in Nat
  BY DEF IInv, TypeOK, DocType
<1>1. /\ SoundStore(store') /\ store' \in Stores /\ store'.docs[p] = d /\ store'.open[p] = None
      /\ \A q \in Paths \ {p} : QuietDoc(store, store', q)
      /\ store'.def[p] \in {None, store.def[p]} /\ store'.xref[p] \in {None, store.xref[p]}
  <2> DEFINE new == DocumentFor(Documented(store, p, d), p)
  <2>1. /\ SoundStore(new) /\ new.docs[p] = d /\ new.open[p] = None
        /\ \A q \in Paths \ {p} : QuietDoc(store, new, q)
        /\ new.def[p] \in {None, store.def[p]} /\ new.xref[p] \in {None, store.xref[p]}
    BY <1>0, EditKeeps
  <2>2. store' = new
    BY DEF AfterEdit
  <2> HIDE DEF new
  <2> QED BY <2>1, <2>2 DEF SoundStore
<1>2. Documented(store, p, d).docs[p] = d
  BY <1>0, DocumentedFields
<1>3. runtime' = [runtime EXCEPT ![p] = Scheduled(rec)]
  BY <1>2 DEF AfterEdit
<1>4. rec \in Runtime /\ rec.snap = d.snap
  BY <1>0, RecordedFields
<1> HIDE DEF rec
<1>5. /\ Scheduled(rec) \in Runtime /\ Scheduled(rec).snap = d.snap /\ Scheduled(rec).pending
      /\ Scheduled(rec).pendingGen = Scheduled(rec).gen /\ Scheduled(rec).pendingSnap = Scheduled(rec).snap
  BY <1>4 DEF Scheduled, Runtime
<1> DEFINE new == Scheduled(rec)
<1> HIDE DEF new
<1>6. /\ runtime' \in [Paths -> Runtime \cup {None}]
      /\ \A q \in Paths : runtime'[q] = IF q = p THEN new ELSE runtime[q]
  BY <1>0, <1>3, <1>5 DEF new
<1>7. /\ pendingSem' \in Seq(Paths) /\ Range(pendingSem') = Range(pendingSem) \cup {p}
      /\ Distinct(pendingSem')
  BY <1>0, EnqueueKeeps DEF AfterEdit, IInv, TypeOK, QueueSound
<1>8. /\ dirty' = dirty \cup {p} /\ answer' = None
      /\ UNCHANGED <<disk, pendingBg, canceled, tickets>>
  BY DEF AfterEdit
<1>9. published' \in [Paths -> Nat \cup {None}] /\ \A q \in Paths \ {p} : published'[q] = published[q]
  BY <1>0 DEF TypeOK
<1>10. TypeOK'
  BY <1>0, <1>1, <1>6, <1>7, <1>8, <1>9 DEF TypeOK
<1>11. IndexedOrDirty'
  BY <1>1, <1>8 DEF IInv, IndexedOrDirty, QuietDoc, QuietBuffer
<1>12. Visible'
  BY <1>1, <1>5, <1>6, NoneAssumption DEF IInv, Visible, QuietDoc, QuietBuffer, new
<1>13. QueueSound'
  <2>1. \A q \in Range(pendingSem) : q \in Paths /\ store.docs[q].open
    BY <1>0 DEF IInv, TypeOK, QueueSound, Range
  <2>2. \A q \in Range(pendingSem') : store'.docs[q].open
    BY <1>1, <1>7, <2>1 DEF QuietDoc, QuietBuffer
  <2> QED BY <1>7, <2>2 DEF QueueSound
<1>14. Diagnosed'
  <2> SUFFICES ASSUME NEW q \in Paths
               PROVE  IF store'.docs[q].open
                      THEN published'[q] = store'.docs[q].snap \/ (q \in Range(pendingSem') /\ Due(q)')
                      ELSE published'[q] = None
    BY DEF Diagnosed
  <2>1. CASE q = p
    BY <1>1, <1>5, <1>6, <1>7, <2>1 DEF Due, new
  <2>2. CASE q # p
    BY <1>1, <1>6, <1>7, <1>9, <2>2 DEF IInv, Diagnosed, Due, QuietDoc, QuietBuffer
  <2> QED BY <2>1, <2>2
<1>15. AnswersFromBuffers
  BY <1>1 DEF AnswersFromBuffers, QuietDoc
<1> QED BY <1>1, <1>8, <1>10, <1>11, <1>12, <1>13, <1>14, <1>15 DEF IInv, AnswersAreCurrent

\* did_open, did_change with a text, an edit or an edit out of range, did_close.
LEMMA EditorStepKeeps ==
  ASSUME IInv, NEW p \in Paths, EditorStep(p)
  PROVE  IInv' /\ AnswersFromBuffers
<1>0. /\ store \in Stores /\ store.docs[p] \in DocType /\ store.next \in Nat /\ editor \in Found
      /\ SoundStore(store)
  BY DEF IInv, TypeOK, Stores
<1>1. \A text \in Texts, edit \in Edits : Apply(text, edit) \in Texts
  BY IdeAssumption DEF Texts, Edits, Apply
<1>2. ASSUME NEW text \in Texts,
             AfterEdit(p, SetText(store, p, text)),
             editor' \in Found, published' \in {published, [published EXCEPT ![p] = None]}
      PROVE  IInv' /\ AnswersFromBuffers
  <2> DEFINE d == [snap |-> store.next, text |-> text, open |-> TRUE, resync |-> FALSE]
  <2>1. d \in DocType /\ d.snap = store.next /\ d.open = TRUE
    BY <1>0, <1>2 DEF DocType
  <2>2. SetText(store, p, text) = Documented(store, p, d)
    BY DEF SetText, Documented
  <2> HIDE DEF d
  <2> QED BY <1>2, <2>1, <2>2, EditStepKeeps
<1>3. ASSUME NEW text \in Texts, DidOpen(p, text) PROVE IInv' /\ AnswersFromBuffers
  <2>1. editor' \in Found
    BY <1>0, <1>3 DEF DidOpen, Found
  <2> QED BY <1>2, <1>3, <2>1 DEF DidOpen
<1>4. ASSUME NEW text \in Texts, DidChangeFull(p, text) PROVE IInv' /\ AnswersFromBuffers
  <2>1. editor' \in Found
    BY <1>0, <1>4 DEF DidChangeFull, Found
  <2> QED BY <1>2, <1>4, <2>1 DEF DidChangeFull
<1>5. ASSUME NEW edit \in Edits, editor' = [editor EXCEPT ![p] = Apply(@, edit)], editor[p] # None
      PROVE  editor' \in Found
  BY <1>0, <1>1, <1>5 DEF Found
<1>6. ASSUME NEW edit \in Edits, DidChangeEdit(p, edit) PROVE IInv' /\ AnswersFromBuffers
  <2>1. Apply(store.docs[p].text, edit) \in Texts
    BY <1>0, <1>1 DEF DocType
  <2>2. editor' \in Found
    BY <1>5, <1>6 DEF DidChangeEdit
  <2> QED BY <1>2, <1>6, <2>1, <2>2 DEF DidChangeEdit, ApplyEdit
<1>7. ASSUME NEW edit \in Edits, DidChangeInvalid(p, edit) PROVE IInv' /\ AnswersFromBuffers
  <2> DEFINE d == [store.docs[p] EXCEPT !.snap = store.next, !.open = TRUE, !.resync = TRUE]
  <2>1. d \in DocType /\ d.snap = store.next /\ d.open = TRUE
    BY <1>0 DEF DocType
  <2>2. RequireResync(store, p) = Documented(store, p, d)
    BY DEF RequireResync, Documented
  <2> HIDE DEF d
  <2>3. editor' \in Found
    BY <1>5, <1>7 DEF DidChangeInvalid
  <2> QED BY <1>7, <2>1, <2>2, <2>3, EditStepKeeps DEF DidChangeInvalid
<1>8. ASSUME DidClose(p) PROVE IInv' /\ AnswersFromBuffers
  <2>1. /\ SoundStore(store') /\ store' \in Stores /\ store'.docs[p].open = FALSE
        /\ \A q \in Paths \ {p} : QuietDoc(store, store', q)
        /\ store'.def[p] = None /\ store'.xref[p] = None
    BY <1>0, <1>8, DropKeeps DEF DidClose, SoundStore, IInv, TypeOK
  <2>2. /\ pendingSem \in Seq(Paths) /\ pendingBg \in Seq(Paths) /\ Distinct(pendingSem)
    BY DEF IInv, TypeOK, QueueSound
  <2>3. /\ pendingSem' \in Seq(Paths) /\ pendingBg' \in Seq(Paths)
        /\ Distinct(pendingSem') /\ Range(pendingSem') = Range(pendingSem) \ {p}
    BY <1>8, <2>2, WithoutKeeps DEF DidClose
  <2>4. /\ runtime' \in [Paths -> Runtime \cup {None}] /\ published' \in [Paths -> Nat \cup {None}]
        /\ \A q \in Paths \ {p} : runtime'[q] = runtime[q] /\ published'[q] = published[q]
        /\ published'[p] = None /\ editor' \in Found /\ dirty' = dirty \ {p} /\ answer' = None
        /\ UNCHANGED <<disk, canceled, tickets>>
    BY <1>8 DEF DidClose, IInv, TypeOK, Found
  <2>5. TypeOK'
    BY <2>1, <2>3, <2>4 DEF IInv, TypeOK
  <2>6. IndexedOrDirty'
    BY <2>1, <2>4 DEF IInv, IndexedOrDirty, QuietDoc, QuietBuffer
  <2>7. Visible'
    BY <2>1, <2>4 DEF IInv, Visible, QuietDoc, QuietBuffer
  <2>8. QueueSound'
    <3>1. \A q \in Range(pendingSem) : q \in Paths /\ store.docs[q].open
      BY DEF IInv, TypeOK, QueueSound, Range
    <3>2. \A q \in Range(pendingSem') : store'.docs[q].open
      BY <2>1, <2>3, <3>1 DEF QuietDoc, QuietBuffer
    <3> QED BY <2>3, <3>2 DEF QueueSound
  <2>9. Diagnosed'
    BY <2>1, <2>3, <2>4 DEF IInv, Diagnosed, Due, QuietDoc, QuietBuffer
  <2>10. AnswersFromBuffers
    BY <2>1 DEF AnswersFromBuffers, QuietDoc
  <2> QED BY <2>1, <2>4, <2>5, <2>6, <2>7, <2>8, <2>9, <2>10 DEF IInv, AnswersAreCurrent
<1> QED BY <1>3, <1>4, <1>6, <1>7, <1>8 DEF EditorStep

-----------------------------------------------------------------------------
(* Draining the queue of diagnostics. *)

FirstPublishable == SelectInSeq(pendingSem, Publishable)

\* drain_semantic_diagnostics stops at the first run that is not stale.
LEMMA FirstPublishableRight ==
  ASSUME pendingSem \in Seq(Paths)
  PROVE  /\ FirstPublishable \in 0 .. Len(pendingSem)
         /\ FirstPublishable = 0 => \A i \in 1 .. Len(pendingSem) : ~Publishable(pendingSem[i])
         /\ FirstPublishable # 0 => /\ Publishable(pendingSem[FirstPublishable])
                                    /\ \A i \in 1 .. FirstPublishable - 1 : ~Publishable(pendingSem[i])
<1> DEFINE n == Len(pendingSem)
           I == {i \in 1 .. n : Publishable(pendingSem[i])}
<1>1. n \in Nat
  OBVIOUS
<1>2. CASE I = {}
  <2>1. FirstPublishable = 0
    BY <1>2 DEF FirstPublishable, SelectInSeq
  <2> QED BY <1>1, <1>2, <2>1
<1>3. CASE I # {}
  <2> DEFINE k == CHOOSE i \in I : \A j \in I : i <= j
  <2>1. FirstPublishable = k
    BY <1>3 DEF FirstPublishable, SelectInSeq, Min
  <2>2. I \subseteq Nat
    BY <1>1
  <2>3. k \in I /\ \A j \in I : k <= j
    <3> HIDE DEF I
    <3>1. \E i \in I : \A j \in I : i <= j
      BY <1>3, <2>2, LeastNumber
    <3> QED BY <3>1
  <2> HIDE DEF k
  <2>4. k \in 1 .. n /\ Publishable(pendingSem[k])
    BY <2>3
  <2>5. \A i \in 1 .. k - 1 : ~Publishable(pendingSem[i])
    BY <1>1, <2>3, <2>4
  <2> QED BY <1>1, <2>1, <2>4, <2>5
<1> QED BY <1>2, <1>3

\* What drain_semantic_diagnostics drops is not due, what it keeps stays queued,
\* and it always takes something.
LEMMA DrainKeeps ==
  ASSUME IInv, Drain
  PROVE  /\ IInv' /\ AnswersFromBuffers
         /\ pendingSem' \in Seq(Paths) /\ Len(pendingSem') < Len(pendingSem)
<1> DEFINE k      == FirstPublishable
           n      == Len(pendingSem)
           taken  == IF k = 0 THEN n ELSE k
           popped == Range(SubSeq(pendingSem, 1, taken))
<1>0. /\ pendingSem \in Seq(Paths) /\ pendingSem # <<>> /\ store \in Stores /\ SoundStore(store)
      /\ disk \in Found /\ runtime \in [Paths -> Runtime \cup {None}]
      /\ published \in [Paths -> Nat \cup {None}]
  BY DEF IInv, TypeOK, Drain
<1>1. n \in Nat \ {0} /\ DOMAIN pendingSem = 1 .. n /\ \A i \in 1 .. n : pendingSem[i] \in Paths
  BY <1>0
<1>2. /\ k \in 0 .. n
      /\ k = 0 => \A i \in 1 .. n : ~Publishable(pendingSem[i])
      /\ k # 0 => /\ Publishable(pendingSem[k])
                  /\ \A i \in 1 .. k - 1 : ~Publishable(pendingSem[i])
  BY <1>0, FirstPublishableRight
<1>3. /\ pendingSem' = SubSeq(pendingSem, taken + 1, n)
      /\ runtime' = [p \in Paths |-> IF p \in popped /\ runtime[p] # None
                                     THEN [runtime[p] EXCEPT !.pending = FALSE] ELSE runtime[p]]
      /\ store' = IF k = 0 THEN store ELSE DiagnosticsFor(store, pendingSem[k])
      /\ published' = IF k = 0 THEN published
                      ELSE [published EXCEPT ![pendingSem[k]] = store.docs[pendingSem[k]].snap]
      /\ answer' = None
      /\ UNCHANGED <<disk, editor, pendingBg, dirty, canceled, tickets>>
  BY DEF Drain, FirstPublishable
<1> HIDE DEF k
<1>4. taken \in 1 .. n
  BY <1>1, <1>2
<1> HIDE DEF taken, n
<1>5. popped = {pendingSem[i] : i \in 1 .. taken}
  <2> DEFINE a == SubSeq(pendingSem, 1, taken)
  <2>1. \A i \in 1 .. taken : pendingSem[i] \in Paths
    BY <1>1, <1>4
  <2>2. a \in Seq(Paths) /\ Len(a) = taken /\ \A i \in 1 .. taken : a[i] = pendingSem[i]
    BY <1>4, <2>1, SubSeqProperties
  <2> HIDE DEF a
  <2>3. DOMAIN a = 1 .. taken
    BY <1>4, <2>2
  <2>4. Range(a) = {pendingSem[i] : i \in 1 .. taken}
    BY <2>2, <2>3 DEF Range
  <2> QED BY <2>4 DEF a
<1> HIDE DEF popped
<1>6. /\ pendingSem' \in Seq(Paths) /\ Len(pendingSem') = n - taken
      /\ \A i \in 1 .. n - taken : pendingSem'[i] = pendingSem[taken + i]
  <2> DEFINE b == SubSeq(pendingSem, taken + 1, n)
  <2>1. \A i \in taken + 1 .. n : pendingSem[i] \in Paths
    BY <1>1, <1>4
  <2>2. /\ b \in Seq(Paths) /\ Len(b) = IF taken + 1 <= n THEN n - (taken + 1) + 1 ELSE 0
        /\ \A i \in 1 .. n - (taken + 1) + 1 : b[i] = pendingSem[taken + 1 + i - 1]
    BY <1>1, <1>4, <2>1, SubSeqProperties
  <2> HIDE DEF b
  <2>3. Len(b) = n - taken /\ \A i \in 1 .. n - taken : b[i] = pendingSem[taken + i]
    BY <1>1, <1>4, <2>2
  <2> QED BY <1>3, <2>2, <2>3 DEF b
<1>7. Quiet(store, store')
  <2>1. CASE k = 0
    BY <1>0, <1>3, <2>1, QuietReflexive
  <2>2. CASE k # 0
    <3>1. pendingSem[k] \in Paths
      BY <1>1, <1>2, <2>2
    <3> QED BY <1>0, <1>3, <2>2, <3>1, DiagnosticsForQuiet
  <2> QED BY <2>1, <2>2
<1>8. SoundStore(store') /\ store' \in Stores /\ \A p \in Paths : QuietBuffer(store, store', p)
  BY <1>7 DEF Quiet, SoundStore, QuietDoc
<1>9. \A i, j \in 1 .. n : pendingSem[i] = pendingSem[j] => i = j
  BY DEF IInv, QueueSound, Distinct, n
<1>10. \A i \in 1 .. n : store.docs[pendingSem[i]].open
  BY <1>1 DEF IInv, QueueSound, Range
<1>11. /\ runtime' \in [Paths -> Runtime \cup {None}]
       /\ \A p \in Paths : runtime[p] # None => runtime'[p] # None /\ runtime'[p].snap = runtime[p].snap
       /\ \A p \in Paths \ popped : runtime'[p] = runtime[p]
  <2>1. ASSUME NEW p \in Paths, runtime[p] # None
        PROVE  [runtime[p] EXCEPT !.pending = FALSE] \in Runtime
               /\ [runtime[p] EXCEPT !.pending = FALSE].snap = runtime[p].snap
    BY <1>0, <2>1 DEF Runtime
  <2> QED BY <1>0, <1>3, <2>1, NoneAssumption
<1>12. /\ published' \in [Paths -> Nat \cup {None}]
       /\ \A p \in Paths : published'[p] = IF k # 0 /\ p = pendingSem[k] THEN store.docs[p].snap
                                           ELSE published[p]
  <2>1. \A p \in Paths : store.docs[p].snap \in Nat
    BY <1>0 DEF Stores, DocType
  <2>2. k # 0 => pendingSem[k] \in Paths
    BY <1>1, <1>2
  <2> QED BY <1>0, <1>3, <2>1, <2>2
<1>13. TypeOK'
  BY <1>3, <1>6, <1>8, <1>11, <1>12 DEF IInv, TypeOK
<1>14. IndexedOrDirty'
  BY <1>3, <1>8 DEF IInv, IndexedOrDirty, QuietBuffer
<1>15. Visible'
  BY <1>8, <1>11 DEF IInv, Visible, QuietBuffer
<1>16. QueueSound'
  <2>1. \A i, j \in 1 .. n - taken : pendingSem'[i] = pendingSem'[j] => i = j
    <3> SUFFICES ASSUME NEW i \in 1 .. n - taken, NEW j \in 1 .. n - taken, pendingSem'[i] = pendingSem'[j]
                 PROVE  i = j
      OBVIOUS
    <3>1. taken + i \in 1 .. n /\ taken + j \in 1 .. n
      BY <1>1, <1>4
    <3>2. taken + i = taken + j
      BY <1>6, <1>9, <3>1
    <3> QED BY <1>1, <1>4, <3>2
  <2>2. \A i \in 1 .. n - taken : store'.docs[pendingSem'[i]].open
    <3> SUFFICES ASSUME NEW i \in 1 .. n - taken PROVE store'.docs[pendingSem'[i]].open
      OBVIOUS
    <3>1. taken + i \in 1 .. n
      BY <1>1, <1>4
    <3> QED BY <1>1, <1>6, <1>8, <1>10, <3>1 DEF QuietBuffer
  <2>3. DOMAIN pendingSem' = 1 .. n - taken
    BY <1>6
  <2> QED BY <1>6, <2>1, <2>2, <2>3 DEF QueueSound, Distinct, Range
<1>17. Diagnosed'
  <2> SUFFICES ASSUME NEW p \in Paths
               PROVE  IF store'.docs[p].open
                      THEN published'[p] = store'.docs[p].snap \/ (p \in Range(pendingSem') /\ Due(p)')
                      ELSE published'[p] = None
    BY DEF Diagnosed
  <2>1. CASE ~store.docs[p].open
    <3>1. ~(k # 0 /\ p = pendingSem[k])
      BY <1>2, <1>10, <2>1
    <3> QED BY <1>8, <1>12, <2>1, <3>1 DEF IInv, Diagnosed, QuietBuffer
  <2>2. CASE store.docs[p].open /\ published[p] = store.docs[p].snap
    BY <1>8, <1>12, <2>2 DEF QuietBuffer
  <2>3. CASE store.docs[p].open /\ published[p] # store.docs[p].snap
    <3>1. p \in Range(pendingSem) /\ Due(p)
      BY <2>3 DEF IInv, Diagnosed
    <3>2. PICK j \in 1 .. n : pendingSem[j] = p
      BY <1>1, <3>1 DEF Range
    <3>3. Publishable(pendingSem[j])
      BY <2>3, <3>1, <3>2, PublishableIfDue
    <3>4. k # 0 /\ ~(j \in 1 .. k - 1)
      BY <1>2, <3>3
    <3>5. taken = k
      BY <3>4 DEF taken
    <3>6. CASE j = k
      BY <1>8, <1>12, <2>3, <3>2, <3>4, <3>6 DEF QuietBuffer
    <3>7. CASE j # k
      <4>1. j \in taken + 1 .. n
        BY <1>1, <1>2, <3>4, <3>5, <3>7
      <4>2. p \notin popped
        BY <1>1, <1>4, <1>5, <1>9, <3>2, <4>1
      <4>3. Due(p)'
        BY <1>11, <3>1, <4>2 DEF Due
      <4>4. j - taken \in 1 .. n - taken /\ taken + (j - taken) = j
        BY <1>1, <1>4, <4>1
      <4>5. pendingSem'[j - taken] = p
        BY <1>6, <3>2, <4>4
      <4>6. p \in Range(pendingSem')
        BY <1>6, <4>4, <4>5 DEF Range
      <4> QED BY <1>8, <2>3, <4>3, <4>6 DEF QuietBuffer
    <3> QED BY <3>6, <3>7
  <2> QED BY <2>1, <2>2, <2>3
<1>18. IInv'
  BY <1>3, <1>8, <1>13, <1>14, <1>15, <1>16, <1>17 DEF IInv, AnswersAreCurrent
<1>19. AnswersFromBuffers
  BY <1>7, QuietAsked, AskedAnswers
<1>20. Len(pendingSem') < n
  BY <1>1, <1>4, <1>6
<1> QED BY <1>6, <1>18, <1>19, <1>20 DEF n

-----------------------------------------------------------------------------
(* Requests, queries and what runs when the editor is idle. *)

\* A step that only asks, and leaves queues and requests alone.
LEMMA PlainQuery ==
  ASSUME IInv, Quiet(store, store'), answer' = None, dirty' = dirty,
         runtime' \in [Paths -> Runtime \cup {None}],
         \A p \in Paths : store.docs[p].open => runtime'[p] = runtime[p],
         disk' \in Found, pendingBg' \in Seq(Paths), canceled' \subseteq Requests, tickets' \subseteq Ticket,
         UNCHANGED <<editor, pendingSem, published>>
  PROVE  QueryStep
BY QuietAsked DEF QueryStep, AnswersAreCurrent

\* workspace_symbols, and definition: afterwards nothing is dirty.
LEMMA RefreshedAll ==
  ASSUME IInv, NEW new, Quiet(RefreshDirty(store), new)
  PROVE  Quiet(store, new) /\ \A p \in Paths : new.docs[p].open => new.open[p] # None
<1> DEFINE mid == RefreshDirty(store)
<1>1. SoundStore(store) /\ disk \in Found /\ dirty \subseteq Paths
  BY DEF IInv, TypeOK
<1>2. Quiet(store, mid) /\ \A p \in dirty : mid.docs[p].open => mid.open[p] # None
  BY <1>1, RefreshDirtyQuiet
<1> HIDE DEF mid
<1>3. \A p \in Paths : mid.docs[p].open => mid.open[p] # None
  BY <1>2 DEF IInv, IndexedOrDirty, Quiet, QuietDoc, QuietBuffer
<1>4. Quiet(mid, new)
  BY DEF mid
<1>5. Quiet(store, new)
  BY <1>2, <1>4, QuietTransitive
<1>6. \A p \in Paths : new.docs[p].open => new.open[p] # None
  BY <1>3, <1>4 DEF Quiet, QuietDoc, QuietBuffer
<1> QED BY <1>5, <1>6

\* A request that is served is answered from the snapshot it asked about.
LEMMA ServeStep ==
  ASSUME IInv, NEW t \in tickets, NEW found, Serve(t, found), Inquiry(store, store'),
         dirty' = dirty \/ (dirty' = {} /\ \A p \in Paths : store'.docs[p].open => store'.open[p] # None)
  PROVE  QueryStep
<1>1. t \in Ticket /\ t.path \in Paths
  BY DEF IInv, TypeOK, Ticket
<1>2. store'.docs[t.path].open => store'.docs[t.path].snap = t.snap
  BY <1>1 DEF Serve, Current, IInv, Visible, Inquiry, QuietBuffer
<1>3. AnswersAreCurrent'
  BY <1>2 DEF Serve, AnswersAreCurrent
<1> QED BY <1>3 DEF Serve, QueryStep, IInv, TypeOK

\* Requests, begun, dropped or served, and plain queries.
LEMMA RequestStepKeeps ==
  ASSUME IInv, RequestStep
  PROVE  QueryStep
<1>0. /\ SoundStore(store) /\ store \in Stores /\ disk \in Found /\ canceled \subseteq Requests
      /\ tickets \subseteq Ticket /\ pendingBg \in Seq(Paths)
      /\ runtime \in [Paths -> Runtime \cup {None}]
  BY DEF IInv, TypeOK
<1>1. Quiet(store, store)
  BY <1>0, QuietReflexive
<1>2. ASSUME NEW id \in Requests, Cancel(id) PROVE QueryStep
  BY <1>0, <1>1, <1>2, PlainQuery DEF Cancel, queueVars
<1>3. ASSUME NEW id \in Requests, NEW p \in Paths, Begin(p, id) PROVE QueryStep
  <2>1. Quiet(store, store')
    BY <1>0, <1>3, SnapshotForQuiet DEF Begin
  <2>2. /\ runtime' \in [Paths -> Runtime \cup {None}] /\ runtime'[p] \in Runtime
        /\ \A q \in Paths : store.docs[q].open => runtime'[q] = runtime[q]
    BY <1>3, <2>1, RecordedKeeps DEF Begin
  <2>3. tickets' \subseteq Ticket
    <3>1. runtime'[p].snap \in Nat /\ runtime'[p].gen \in Nat
      BY <2>2 DEF Runtime
    <3>2. [id |-> id, path |-> p, snap |-> runtime'[p].snap, gen |-> runtime'[p].gen] \in Ticket
      BY <3>1 DEF Ticket
    <3> QED BY <1>0, <1>3, <3>2 DEF Begin
  <2> QED BY <1>0, <1>3, <2>1, <2>2, <2>3, PlainQuery DEF Begin, queueVars
<1>4. ASSUME NEW t \in tickets, Drop(t) PROVE QueryStep
  BY <1>0, <1>1, <1>4, PlainQuery DEF Drop, queueVars
<1>5. ASSUME NEW t \in tickets PROVE t.path \in Paths
  BY <1>0 DEF Ticket
<1>6. ASSUME NEW p \in Paths PROVE Quiet(store, DocumentFor(store, p))
                                   /\ Quiet(store, HirModule(DocumentFor(store, p), p, TRUE))
  BY <1>0, DocumentForQuiet, ModuleForQuiet
<1>7. ASSUME NEW t \in tickets, ServeCompletion(t) PROVE QueryStep
  <2>1. Inquiry(store, store')
    BY <1>5, <1>6, <1>7, QuietAsked DEF ServeCompletion
  <2> QED BY <1>7, <2>1, ServeStep DEF ServeCompletion
<1>8. ASSUME NEW t \in tickets, ServeDefinition(t) PROVE QueryStep
  <2> DEFINE mid == DocumentFor(RefreshDirty(store), t.path)
  <2>1. Quiet(store, RefreshDirty(store)) /\ SoundStore(RefreshDirty(store))
    BY <1>0, RefreshDirtyQuiet DEF Quiet, IInv, TypeOK
  <2>2. Quiet(RefreshDirty(store), mid)
    BY <1>0, <1>5, <2>1, DocumentForQuiet
  <2>3. Quiet(store, mid) /\ \A p \in Paths : mid.docs[p].open => mid.open[p] # None
    BY <2>2, RefreshedAll
  <2>4. store' = Definition(mid, t.path)
    BY <1>8 DEF ServeDefinition
  <2> HIDE DEF mid
  <2>5. Inquiry(mid, store')
    BY <1>5, <2>3, <2>4, DefinitionAsked DEF Quiet
  <2>6. Inquiry(store, store')
    BY <2>3, <2>5, QuietThenAsked
  <2>7. \A p \in Paths : store'.docs[p].open => store'.open[p] # None
    BY <2>3, <2>5 DEF Inquiry, QuietBuffer
  <2> QED BY <1>8, <2>6, <2>7, ServeStep DEF ServeDefinition
<1>9. ASSUME NEW t \in tickets, ServeReferences(t) PROVE QueryStep
  <2> DEFINE mid == DocumentFor(store, t.path)
  <2>1. Quiet(store, mid)
    BY <1>5, <1>6
  <2>2. store' = References(mid, t.path)
    BY <1>9 DEF ServeReferences
  <2> HIDE DEF mid
  <2>3. Inquiry(mid, store')
    BY <1>0, <1>5, <2>1, <2>2, ReferencesAsked DEF Quiet
  <2>4. Inquiry(store, store')
    BY <2>1, <2>3, QuietThenAsked
  <2> QED BY <1>9, <2>4, ServeStep DEF ServeReferences
<1>10. ASSUME WorkspaceSymbols PROVE QueryStep
  <2>1. Quiet(store, RefreshDirty(store)) /\ SoundStore(RefreshDirty(store))
    BY <1>0, RefreshDirtyQuiet DEF Quiet, IInv, TypeOK
  <2>2. Quiet(RefreshDirty(store), RefreshDirty(store))
    BY <2>1, QuietReflexive
  <2>3. Quiet(store, store') /\ \A p \in Paths : store'.docs[p].open => store'.open[p] # None
    BY <1>10, <2>2, RefreshedAll DEF WorkspaceSymbols
  <2>4. Inquiry(store, store')
    BY <2>3, QuietAsked
  <2> QED BY <1>0, <1>10, <2>3, <2>4 DEF WorkspaceSymbols, QueryStep, AnswersAreCurrent
<1>11. ASSUME NEW p \in Paths, SnapshotForUri(p) PROVE QueryStep
  <2>1. Quiet(store, store')
    BY <1>0, <1>11, SnapshotForQuiet DEF SnapshotForUri
  <2>2. /\ runtime' \in [Paths -> Runtime \cup {None}]
        /\ \A q \in Paths : store.docs[q].open => runtime'[q] = runtime[q]
    BY <1>11, <2>1, RecordedKeeps DEF SnapshotForUri
  <2> QED BY <1>0, <1>11, <2>1, <2>2, PlainQuery DEF SnapshotForUri, queueVars
<1>12. ASSUME NEW p \in Paths, DocumentSymbols(p) PROVE QueryStep
  BY <1>0, <1>6, <1>12, PlainQuery DEF DocumentSymbols, queueVars
<1>13. ASSUME NEW p \in Paths, SemanticTokens(p) PROVE QueryStep
  BY <1>0, <1>6, <1>13, PlainQuery DEF SemanticTokens, queueVars
<1> QED BY <1>2, <1>3, <1>4, <1>7, <1>8, <1>9, <1>10, <1>11, <1>12, <1>13 DEF RequestStep

\* No buffer follows the disk by itself.
LEMMA DiskChangeKeeps ==
  ASSUME IInv, NEW p \in Paths, NEW text \in Saves, DiskChange(p, text)
  PROVE  QueryStep
<1>1. Quiet(store, store')
  BY QuietReflexive DEF IInv, DiskChange
<1>2. disk' \in Found
  BY IdeAssumption DEF IInv, TypeOK, DiskChange, Found, Texts
<1> QED BY <1>1, <1>2, PlainQuery DEF DiskChange, IInv, TypeOK, queueVars

\* schedule_background_index_refresh only queues.
LEMMA ScheduleRefreshKeeps ==
  ASSUME IInv, ScheduleRefresh
  PROVE  QueryStep
<1>1. Quiet(store, store')
  BY QuietReflexive DEF IInv, ScheduleRefresh
<1>2. pendingBg' \in Seq(Paths)
  BY RefreshQueues DEF IInv, TypeOK, ScheduleRefresh
<1> QED BY <1>1, <1>2, PlainQuery DEF ScheduleRefresh, IInv, TypeOK

\* run_background_tasks is a query about the head of its queue.
LEMMA RunBackgroundKeeps ==
  ASSUME IInv, RunBackground
  PROVE  QueryStep
<1>1. /\ pendingBg \in Seq(Paths) /\ pendingBg # <<>> /\ Head(pendingBg) \in Paths
      /\ pendingBg' \in Seq(Paths)
  BY DEF IInv, TypeOK, RunBackground
<1>2. Quiet(store, store')
  BY <1>1, IndexFileQuiet DEF IInv, TypeOK, RunBackground
<1> QED BY <1>1, <1>2, PlainQuery DEF RunBackground, IInv, TypeOK

\* A step of somebody else.
LEMMA StutterKeeps ==
  ASSUME IInv, UNCHANGED vars
  PROVE  IInv' /\ AnswersFromBuffers
<1>1. IInv'
  BY DEF vars, IInv, TypeOK, IndexedOrDirty, Visible, QueueSound, Diagnosed, Due, Distinct,
         AnswersAreCurrent
<1>2. Quiet(store, store')
  BY QuietReflexive DEF IInv, vars
<1> QED BY <1>1, <1>2, QuietAsked, AskedAnswers

\* Query steps, for both results.
LEMMA QueryStepKeeps ==
  ASSUME IInv, QueryStep
  PROVE  IInv' /\ AnswersFromBuffers
BY QueryKeeps, AskedAnswers DEF QueryStep

\* Every step of the service keeps the invariant and computes from the buffers.
LEMMA NextKeeps ==
  ASSUME IInv, [Next]_vars
  PROVE  IInv' /\ AnswersFromBuffers
<1>1. ASSUME NEW p \in Paths, EditorStep(p) PROVE IInv' /\ AnswersFromBuffers
  BY <1>1, EditorStepKeeps
<1>2. ASSUME NEW p \in Paths, NEW text \in Saves, DiskChange(p, text) PROVE IInv' /\ AnswersFromBuffers
  BY <1>2, DiskChangeKeeps, QueryStepKeeps
<1>3. ASSUME RequestStep PROVE IInv' /\ AnswersFromBuffers
  BY <1>3, RequestStepKeeps, QueryStepKeeps
<1>4. ASSUME IdleStep PROVE IInv' /\ AnswersFromBuffers
  BY <1>4, DrainKeeps, ScheduleRefreshKeeps, RunBackgroundKeeps, QueryStepKeeps DEF IdleStep
<1>5. ASSUME UNCHANGED vars PROVE IInv' /\ AnswersFromBuffers
  BY <1>5, StutterKeeps
<1> QED BY <1>1, <1>2, <1>3, <1>4, <1>5 DEF Next

-----------------------------------------------------------------------------
(* What holds of every behaviour. *)

\* What a step computes from the buffers is what ComputedFromBuffers asks for.
LEMMA ComputedInStep ==
  ASSUME AnswersFromBuffers, NEW p \in Paths, NEW q \in Paths
  PROVE  /\ store'.def[p] \notin {None, store.def[p]} /\ store'.docs[q].open =>
              store'.def[p].found[q] = store'.docs[q].text
         /\ store'.xref[p] \notin {None, store.xref[p]} /\ store'.docs[q].open =>
              store'.xref[p].found[q] = store'.docs[q].text
BY DEF AnswersFromBuffers, FromBuffers

\* The invariant holds in every reachable state: whatever edits, requests,
\* background tasks and changes on disk follow each other.
THEOREM IdeInvariant == Spec => []IInv
<1>1. IInv /\ [Next]_vars => IInv'
  BY NextKeeps
<1> QED BY InitInvariant, <1>1, PTL DEF Spec

\* The documents, caches, queues and tickets of the service keep their types.
THEOREM IdeTypeCorrect == Spec => []TypeOK
<1>1. IInv => TypeOK
  BY SafetyFromInvariant
<1> QED BY IdeInvariant, <1>1, PTL

\* merged_workspace_symbols never reads an older buffer of an open document, nor
\* anything of a closed one, from the open-file index; what the index lacks of an
\* open document is queued in dirty_open_index_paths_.
THEOREM OpenIndexAlwaysExact == Spec => []OpenIndexExact
<1>1. IInv => OpenIndexExact
  BY SafetyFromInvariant
<1> QED BY IdeInvariant, <1>1, PTL

\* hir_module_query never answers from a module of another text than the
\* document's, for the snapshot id it looks under.
THEOREM CacheAlwaysExact == Spec => []CacheExact
<1>1. IInv => CacheExact
  BY SafetyFromInvariant
<1> QED BY IdeInvariant, <1>1, PTL

\* schedule_semantic_diagnostics, drain_semantic_diagnostics and did_close lose
\* no run of an open document and leave none to a closed one.
THEOREM NoEditEverUndiagnosed == Spec => []NoEditUndiagnosed
<1>1. IInv => NoEditUndiagnosed
  BY SafetyFromInvariant
<1> QED BY IdeInvariant, <1>1, PTL

\* drop_reason_for lets no request be answered from another snapshot of an open
\* document than the one it began under.
THEOREM AnswersAlwaysCurrent == Spec => []AnswersAreCurrent
<1>1. IInv => AnswersAreCurrent
  BY SafetyFromInvariant
<1> QED BY IdeInvariant, <1>1, PTL

\* What definition_query and references_query put into their caches was read off
\* the buffers of all open documents, dirty ones included.
THEOREM IdeComputesFromBuffers == Spec => ComputedFromBuffers
<1>1. IInv /\ [Next]_vars =>
        [\A p, q \in Paths :
           /\ store'.def[p] \notin {None, store.def[p]} /\ store'.docs[q].open =>
                store'.def[p].found[q] = store'.docs[q].text
           /\ store'.xref[p] \notin {None, store.xref[p]} /\ store'.docs[q].open =>
                store'.xref[p].found[q] = store'.docs[q].text]_vars
  BY NextKeeps, ComputedInStep
<1> QED BY IdeInvariant, <1>1, PTL DEF Spec, ComputedFromBuffers
=============================================================================
