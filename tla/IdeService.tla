----------------------------- MODULE IdeService -----------------------------
(***************************************************************************)
(* The editor-facing core of src/src/StyioIDE: the virtual file system     *)
(* (VFS.cpp), the semantic database's caches and indexes (SemDB.cpp,       *)
(* Index.cpp) and the request runtime on top of them (Service.cpp).        *)
(* Everything runs on the caller's thread; what makes it hard is that      *)
(* edits, closes, cancellations, foreground requests, debounced            *)
(* diagnostics, background indexing and changes on disk come in any order, *)
(* and results are cached under snapshot ids.                              *)
(*                                                                         *)
(* A text is a number, the empty text 0; an edit adds to it, so that an    *)
(* edit applied to another text than the editor's gives another result.    *)
(* Paths are normalized and stand for their file ids.  Versions are left   *)
(* out: open and update take a new snapshot id whenever they set one.  A   *)
(* document has one cursor position, which names something other files     *)
(* define and use, and no imports.  A cached answer is a snapshot id and   *)
(* the texts it was computed from.                                         *)
(***************************************************************************)
EXTENDS Naturals, Sequences, FiniteSets, SequencesExt

CONSTANTS WorkspaceFiles,   \* project_.workspace_files(), a sequence of paths
          TextCount,        \* texts are 0 .. TextCount - 1
          Requests,         \* request ids the client uses
          Saves,            \* what is written to disk later, None for a deletion
          MaxSnapshot,      \* bound on next_snapshot_id_
          FirstText,        \* what the files hold when the workspace is opened
          None              \* no entry, no file

ASSUME IdeAssumption ==
  /\ TextCount \in Nat \ {0}
  /\ MaxSnapshot \in Nat
  /\ Saves \subseteq (0 .. TextCount - 1) \cup {None}
  /\ FirstText \in 0 .. TextCount - 1
  /\ None \notin Nat
  /\ WorkspaceFiles \in Seq(Range(WorkspaceFiles))
  /\ \A i, j \in DOMAIN WorkspaceFiles : WorkspaceFiles[i] = WorkspaceFiles[j] => i = j

Paths == Range(WorkspaceFiles)
Texts == 0 .. TextCount - 1
Edits == 1 .. TextCount - 1
Apply(text, edit) == (text + edit) % TextCount

VARIABLES disk,        \* path -> text on disk, None if there is no file
          editor,      \* path -> text the editor shows, None if not open there
          store,       \* the documents of VFS and what SemDB derived from them (below)
          runtime,     \* runtime_documents_: path -> record, or None
          pendingSem,  \* pending_semantic_paths_
          pendingBg,   \* background_index_paths_
          dirty,       \* dirty_open_index_paths_
          canceled,    \* canceled_request_ids_
          tickets,     \* foreground requests begun and not served
          published,   \* path -> snapshot id of the last semantic publication since opening
          answer       \* what the step answered: ticket, snapshot and texts it used, or None

vars == <<disk, editor, store, runtime, pendingSem, pendingBg, dirty, canceled, tickets,
          published, answer>>
queueVars == <<pendingSem, pendingBg, dirty>>

\* store.docs[p]: DocumentState; store.next: next_snapshot_id_;
\* store.active[p]: active_snapshots_; store.hir[p]: hir_module_cache_, and for
\* the caches that live and die with it; store.def[p] and store.xref[p]:
\* definition_cache_ and references_cache_; store.open[p], store.background[p]
\* and store.persisted[p]: the text whose symbols an index holds.
NewDoc == [snap |-> 0, text |-> 0, open |-> FALSE, resync |-> FALSE]
Nothing == [p \in Paths |-> None]
FreshStore == [docs |-> [p \in Paths |-> NewDoc], next |-> 1, active |-> Nothing, hir |-> Nothing,
               def |-> Nothing, xref |-> Nothing,
               open |-> Nothing, background |-> Nothing, persisted |-> Nothing]

-----------------------------------------------------------------------------
(* VFS.cpp, as functions of the store.                                     *)

\* A file that is not there reads as the empty text.
ReadFile(p) == IF disk[p] = None THEN 0 ELSE disk[p]

\* Mutant of SetText: next_snapshot_id_ is not advanced.
SetTextSameId(st, p, text) ==
  [st EXCEPT !.docs[p] = [snap |-> st.next, text |-> text, open |-> TRUE, resync |-> FALSE]]

\* open, update with a full text, update with a full-sync delta
SetText(st, p, text) ==
  [st EXCEPT !.docs[p] = [snap |-> st.next, text |-> text, open |-> TRUE, resync |-> FALSE],
             !.next = @ + 1]

\* update with edits that are in range: the flag is cleared.
ApplyEdit(st, p, edit) == SetText(st, p, Apply(st.docs[p].text, edit))

\* update with a delta that is malformed or out of range: the text stays.
RequireResync(st, p) ==
  [st EXCEPT !.docs[p] = [@ EXCEPT !.snap = st.next, !.open = TRUE, !.resync = TRUE],
             !.next = @ + 1]

CloseDoc(st, p) == [st EXCEPT !.docs[p].open = FALSE]

\* Mutant of SnapshotFor: the text from disk keeps the old snapshot id.
SnapshotForSameId(st, p) ==
  IF st.docs[p].open \/ st.docs[p].text = ReadFile(p) THEN st
  ELSE [st EXCEPT !.docs[p] = [@ EXCEPT !.text = ReadFile(p), !.resync = FALSE]]

\* snapshot_for: a document that is not open follows the disk.
SnapshotFor(st, p) ==
  IF st.docs[p].open \/ st.docs[p].text = ReadFile(p) THEN st
  ELSE [st EXCEPT !.docs[p] = [@ EXCEPT !.snap = st.next, !.text = ReadFile(p), !.resync = FALSE],
                  !.next = @ + 1]

-----------------------------------------------------------------------------
(* SemDB.cpp.                                                              *)

\* erase_query_state_for_file
EraseQueryState(st, p) == [st EXCEPT !.hir[p] = None, !.def[p] = None, !.xref[p] = None]

\* Mutant of Observe: the open-file index keeps the old buffer's entries.
ObserveKeepingIndex(st, p) ==
  IF st.active[p] = st.docs[p].snap THEN st
  ELSE IF st.active[p] = None THEN [st EXCEPT !.active[p] = st.docs[p].snap]
  ELSE [EraseQueryState(st, p) EXCEPT !.active[p] = st.docs[p].snap]

\* observe_document_snapshot: a new snapshot evicts what the file's old one left.
Observe(st, p) ==
  IF st.active[p] = st.docs[p].snap THEN st
  ELSE IF st.active[p] = None THEN [st EXCEPT !.active[p] = st.docs[p].snap]
  ELSE [EraseQueryState(st, p) EXCEPT !.active[p] = st.docs[p].snap, !.open[p] = None]

\* document_for_path
DocumentFor(st, p) == Observe(SnapshotFor(st, p), p)

\* Is the answer to a query about p in its cache?  Cached under the snapshot id.
Cached(cache, st, p) == cache[p] # None /\ cache[p].snap = st.docs[p].snap

\* hir_module_query: feeds the open-file index.
HirModule(st, p, updateOpenIndex) ==
  LET doc == st.docs[p]
      hir == IF Cached(st.hir, st, p) THEN st.hir[p] ELSE [snap |-> doc.snap, text |-> doc.text]
  IN  [st EXCEPT !.hir[p] = hir,
                 !.open[p] = IF updateOpenIndex /\ doc.open THEN hir.text ELSE @]

\* diagnostics_from_file_queries
FileDiagnostics(st, p) == IF st.docs[p].open THEN HirModule(st, p, TRUE) ELSE st

DiagnosticsFor(st, p) == FileDiagnostics(DocumentFor(st, p), p)

\* build_snapshot
BuildSnapshot(st, p) == FileDiagnostics(HirModule(DocumentFor(st, p), p, TRUE), p)

\* index_workspace_file
IndexFile(st, p) ==
  IF disk[p] = None THEN [st EXCEPT !.background[p] = None]
  ELSE LET built == FileDiagnostics(HirModule(DocumentFor(st, p), p, FALSE), p)
       IN  [built EXCEPT !.background[p] = built.hir[p].text]

\* drop_open_file, after the document was closed
DropOpenFile(st, p) ==
  [EraseQueryState(SnapshotFor(st, p), p) EXCEPT !.active[p] = None, !.open[p] = None]

OpenPaths(st) == {p \in Paths : st.docs[p].open}

\* merged_workspace_symbols and merged_workspace_references: an open file's
\* entries hide its background ones, and those, for symbols, the persisted ones.
MergedReferences(st) == [p \in Paths |-> IF st.open[p] # None THEN st.open[p] ELSE st.background[p]]
MergedSymbols(st) ==
  [p \in Paths |-> IF MergedReferences(st)[p] # None THEN MergedReferences(st)[p] ELSE st.persisted[p]]

\* definition_query: a name is looked up in the file, then in the merged index.
Definition(st, p) ==
  IF Cached(st.def, st, p) THEN st
  ELSE LET asked == HirModule(st, p, TRUE)
       IN  [asked EXCEPT !.def[p] = [snap |-> asked.docs[p].snap, found |-> MergedSymbols(asked)]]

\* references_query, collect_references_to_target: the open documents as they
\* are, the other files from the merged index.
References(st, p) ==
  IF Cached(st.xref, st, p) THEN st
  ELSE LET all == FoldSet(LAMBDA q, s : HirModule(DocumentFor(s, q), q, TRUE),
                          HirModule(st, p, TRUE), OpenPaths(st))
           found == [q \in Paths |-> IF all.docs[q].open THEN all.hir[q].text
                                     ELSE MergedReferences(all)[q]]
       IN  [all EXCEPT !.xref[p] = [snap |-> all.docs[p].snap, found |-> found]]

\* initialize: index_workspace indexes every file and saves their symbols.
Initialize(st) ==
  LET indexed == FoldLeft(IndexFile, st, WorkspaceFiles)
  IN  [indexed EXCEPT !.persisted = indexed.background]

-----------------------------------------------------------------------------
(* Service.cpp.                                                            *)

Init ==
  /\ disk = [p \in Paths |-> FirstText]
  /\ editor = Nothing
  /\ store = Initialize(FreshStore)
  /\ runtime = Nothing
  /\ pendingSem = <<>> /\ pendingBg = <<>> /\ dirty = {}
  /\ canceled = {} /\ tickets = {}
  /\ published = Nothing
  /\ answer = None

NewRuntime == [snap |-> 0, gen |-> 0, pending |-> FALSE, pendingSnap |-> 0, pendingGen |-> 0]

\* record_visible_snapshot
Recorded(p, snap) ==
  LET r == IF runtime[p] = None THEN NewRuntime ELSE runtime[p]
  IN  [r EXCEPT !.snap = snap, !.gen = IF r.snap # snap THEN @ + 1 ELSE @]

\* Mutant of Scheduled: a pending run is not moved to the newer snapshot.
ScheduledOnce(r) ==
  IF r.pending THEN r
  ELSE [r EXCEPT !.pending = TRUE, !.pendingSnap = r.snap, !.pendingGen = r.gen]

\* schedule_semantic_diagnostics
Scheduled(r) == [r EXCEPT !.pending = TRUE, !.pendingSnap = r.snap, !.pendingGen = r.gen]
Enqueue(queue, p) == IF p \in Range(queue) THEN queue ELSE Append(queue, p)

\* What did_open and did_change have in common, once the VFS has the new text.
AfterEdit(p, st) ==
  /\ runtime' = [runtime EXCEPT ![p] = Scheduled(Recorded(p, st.docs[p].snap))]
  /\ dirty' = dirty \cup {p}
  /\ pendingSem' = Enqueue(pendingSem, p)
  /\ store' = DocumentFor(st, p)
  /\ answer' = None
  /\ UNCHANGED <<disk, pendingBg, canceled, tickets>>

DidOpen(p, text) ==
  /\ editor[p] = None
  /\ editor' = [editor EXCEPT ![p] = text]
  /\ published' = [published EXCEPT ![p] = None]
  /\ AfterEdit(p, SetText(store, p, text))

DidChangeFull(p, text) ==
  /\ editor[p] # None
  /\ editor' = [editor EXCEPT ![p] = text]
  /\ UNCHANGED published
  /\ AfterEdit(p, SetText(store, p, text))

DidChangeEdit(p, edit) ==
  /\ editor[p] # None
  /\ editor' = [editor EXCEPT ![p] = Apply(@, edit)]
  /\ UNCHANGED published
  /\ AfterEdit(p, ApplyEdit(store, p, edit))

\* The server cannot place the edit the editor made.
DidChangeInvalid(p, edit) ==
  /\ editor[p] # None
  /\ editor' = [editor EXCEPT ![p] = Apply(@, edit)]
  /\ UNCHANGED published
  /\ AfterEdit(p, RequireResync(store, p))

\* Every occurrence is erased; the path sets keep it to one.
Without(queue, p) == RemoveFirst(queue, p)

DidClose(p) ==
  /\ editor[p] # None
  /\ editor' = [editor EXCEPT ![p] = None]
  /\ store' = DropOpenFile(CloseDoc(store, p), p)
  /\ pendingSem' = Without(pendingSem, p)
  /\ pendingBg' = Without(pendingBg, p)
  /\ dirty' = dirty \ {p}
  /\ runtime' = [runtime EXCEPT ![p] = None]
  /\ published' = [published EXCEPT ![p] = None]
  /\ answer' = None
  /\ UNCHANGED <<disk, canceled, tickets>>

\* snapshot_for_uri
SnapshotForUri(p) ==
  /\ store' = SnapshotFor(store, p)
  /\ runtime' = [runtime EXCEPT ![p] = Recorded(p, store'.docs[p].snap)]
  /\ answer' = None
  /\ UNCHANGED <<disk, editor, queueVars, canceled, tickets, published>>

\* begin_foreground_request
Begin(p, id) ==
  /\ \A t \in tickets : t.id # id
  /\ store' = SnapshotFor(store, p)
  /\ runtime' = [runtime EXCEPT ![p] = Recorded(p, store'.docs[p].snap)]
  /\ tickets' = tickets \cup {[id |-> id, path |-> p, snap |-> runtime'[p].snap, gen |-> runtime'[p].gen]}
  /\ answer' = None
  /\ UNCHANGED <<disk, editor, queueVars, canceled, published>>

Cancel(id) ==
  /\ canceled' = canceled \cup {id}
  /\ answer' = None
  /\ UNCHANGED <<disk, editor, store, runtime, queueVars, tickets, published>>

\* Mutant of Current: the snapshot of the ticket is not compared.
CurrentByPath(t) == t.id \notin canceled /\ runtime[t.path] # None

\* drop_reason_for: neither canceled nor stale.
Current(t) ==
  /\ t.id \notin canceled
  /\ runtime[t.path] # None
  /\ runtime[t.path].gen = t.gen /\ runtime[t.path].snap = t.snap

Drop(t) ==
  /\ ~Current(t)
  /\ canceled' = canceled \ {t.id}
  /\ tickets' = tickets \ {t}
  /\ answer' = None
  /\ UNCHANGED <<disk, editor, store, runtime, queueVars, published>>

\* The guarded queries, for a ticket that is not dropped.  Nothing runs between
\* the check before the query and the one after it.
Serve(t, found) ==
  /\ Current(t)
  /\ tickets' = tickets \ {t}
  /\ answer' = [ticket |-> t, snap |-> store'.docs[t.path].snap, found |-> found]
  /\ UNCHANGED <<disk, editor, runtime, pendingSem, pendingBg, canceled, published>>

\* completion and hover
ServeCompletion(t) ==
  /\ store' = HirModule(DocumentFor(store, t.path), t.path, TRUE)
  /\ UNCHANGED dirty
  /\ Serve(t, None)

\* Mutant of RefreshDirty: the paths are cleared without being refreshed.
RefreshNothing(st) == st

\* refresh_dirty_open_indexes
RefreshDirty(st) == FoldSet(LAMBDA p, s : BuildSnapshot(s, p), st, dirty)

ServeDefinition(t) ==
  /\ store' = Definition(DocumentFor(RefreshDirty(store), t.path), t.path)
  /\ dirty' = {}
  /\ Serve(t, store'.def[t.path].found)

ServeReferences(t) ==
  /\ store' = References(DocumentFor(store, t.path), t.path)
  /\ UNCHANGED dirty
  /\ Serve(t, store'.xref[t.path].found)

\* workspace_symbols: reads the merged index after this.
WorkspaceSymbols ==
  /\ store' = RefreshDirty(store)
  /\ dirty' = {}
  /\ answer' = None
  /\ UNCHANGED <<disk, editor, runtime, pendingSem, pendingBg, canceled, tickets, published>>

\* document_symbols, completion_context
DocumentSymbols(p) ==
  /\ store' = HirModule(DocumentFor(store, p), p, TRUE)
  /\ answer' = None
  /\ UNCHANGED <<disk, editor, runtime, queueVars, canceled, tickets, published>>

\* semantic_tokens: the syntax is enough.
SemanticTokens(p) ==
  /\ store' = DocumentFor(store, p)
  /\ answer' = None
  /\ UNCHANGED <<disk, editor, runtime, queueVars, canceled, tickets, published>>

\* drain_semantic_diagnostics(1): entries are dropped up to the first whose
\* snapshot is still the one scheduled; that one is diagnosed and published.
Publishable(p) ==
  /\ runtime[p] # None /\ runtime[p].pending
  /\ runtime[p].pendingGen = runtime[p].gen /\ runtime[p].pendingSnap = runtime[p].snap
  /\ SnapshotFor(store, p).docs[p].snap = runtime[p].pendingSnap

Drain ==
  LET k == SelectInSeq(pendingSem, Publishable)
      taken == IF k = 0 THEN Len(pendingSem) ELSE k
      popped == Range(SubSeq(pendingSem, 1, taken))
  IN
  /\ pendingSem # <<>>
  /\ pendingSem' = SubSeq(pendingSem, taken + 1, Len(pendingSem))
  /\ runtime' = [p \in Paths |->
       IF p \in popped /\ runtime[p] # None THEN [runtime[p] EXCEPT !.pending = FALSE] ELSE runtime[p]]
  /\ store' = IF k = 0 THEN store ELSE DiagnosticsFor(store, pendingSem[k])
  /\ published' = IF k = 0 THEN published
                  ELSE [published EXCEPT ![pendingSem[k]] = store.docs[pendingSem[k]].snap]
  /\ answer' = None
  /\ UNCHANGED <<disk, editor, pendingBg, dirty, canceled, tickets>>

\* schedule_background_index_refresh
EnqueueClosed(queue, p) == IF p \in OpenPaths(store) THEN queue ELSE Enqueue(queue, p)
ScheduleRefresh ==
  /\ pendingBg' = FoldLeft(EnqueueClosed, pendingBg, WorkspaceFiles)
  /\ answer' = None
  /\ UNCHANGED <<disk, editor, store, runtime, pendingSem, dirty, canceled, tickets, published>>

\* run_background_tasks(1)
RunBackground ==
  /\ pendingBg # <<>>
  /\ store' = IndexFile(store, Head(pendingBg))
  /\ pendingBg' = Tail(pendingBg)
  /\ answer' = None
  /\ UNCHANGED <<disk, editor, runtime, pendingSem, dirty, canceled, tickets, published>>

\* Somebody saves, creates or deletes the file.
DiskChange(p, text) ==
  /\ text # disk[p]
  /\ disk' = [disk EXCEPT ![p] = text]
  /\ answer' = None
  /\ UNCHANGED <<editor, store, runtime, queueVars, canceled, tickets, published>>

EditorStep(p) ==
  \/ \E text \in Texts : DidOpen(p, text) \/ DidChangeFull(p, text)
  \/ \E edit \in Edits : DidChangeEdit(p, edit) \/ DidChangeInvalid(p, edit)
  \/ DidClose(p)

RequestStep ==
  \/ \E id \in Requests : Cancel(id) \/ \E p \in Paths : Begin(p, id)
  \/ \E t \in tickets : Drop(t) \/ ServeCompletion(t) \/ ServeDefinition(t) \/ ServeReferences(t)
  \/ WorkspaceSymbols
  \/ \E p \in Paths : SnapshotForUri(p) \/ DocumentSymbols(p) \/ SemanticTokens(p)

IdleStep == Drain \/ ScheduleRefresh \/ RunBackground

\* Bound on next_snapshot_id_.
WithinBound == store'.next <= MaxSnapshot

Next ==
  /\ \/ \E p \in Paths : EditorStep(p) \/ \E text \in Saves : DiskChange(p, text)
     \/ RequestStep
     \/ IdleStep
  /\ WithinBound

Spec == Init /\ [][Next]_vars

-----------------------------------------------------------------------------
(* Properties.                                                             *)

DocType  == [snap : Nat, text : Texts, open : BOOLEAN, resync : BOOLEAN]
HirType  == [snap : Nat, text : Texts]
Found    == [Paths -> Texts \cup {None}]
Answer   == [snap : Nat, found : Found]
Runtime  == [snap : Nat, gen : Nat, pending : BOOLEAN, pendingSnap : Nat, pendingGen : Nat]
Ticket   == [id : Requests, path : Paths, snap : Nat, gen : Nat]
Stores   == [docs : [Paths -> DocType], next : Nat, active : [Paths -> Nat \cup {None}],
             hir : [Paths -> HirType \cup {None}], def : [Paths -> Answer \cup {None}],
             xref : [Paths -> Answer \cup {None}],
             open : Found, background : Found, persisted : Found]

ASSUME NoneAssumption == None \notin HirType \cup Answer \cup Runtime

\* The documents, caches, queues and tickets have their types.
TypeOK ==
  /\ disk \in Found /\ editor \in Found
  /\ store \in Stores
  /\ runtime \in [Paths -> Runtime \cup {None}]
  /\ pendingSem \in Seq(Paths) /\ pendingBg \in Seq(Paths) /\ dirty \subseteq Paths
  /\ canceled \subseteq Requests /\ tickets \subseteq Ticket
  /\ published \in [Paths -> Nat \cup {None}]

\* dirty_open_index_paths_ and the eviction in observe_document_snapshot
\* together keep the open-file index exact: it has the buffer of every open
\* document that is not queued for a refresh, never an older buffer, and
\* nothing of a document that was closed.
OpenIndexExact ==
  \A p \in Paths :
    /\ store.open[p] # None => store.docs[p].open /\ store.open[p] = store.docs[p].text
    /\ store.docs[p].open /\ store.open[p] = None => p \in dirty

\* Whatever is cached under a document's current snapshot id was computed from
\* its current text: snapshot_for and update take a new id with each new text.
CacheExact ==
  \A p \in Paths : Cached(store.hir, store, p) => store.hir[p].text = store.docs[p].text

\* No edit loses its semantic diagnostics: the visible snapshot of an open
\* document was published, or its run is still queued under that snapshot and
\* generation, so that drain_semantic_diagnostics will not drop it as stale.
\* And a run that was queued when did_close came does not bring the diagnostics
\* of the closed document back.
NoEditUndiagnosed ==
  \A p \in Paths :
    IF store.docs[p].open
    THEN \/ published[p] = store.docs[p].snap
         \/ p \in Range(pendingSem) /\ Publishable(p) /\ runtime[p].pendingSnap = store.docs[p].snap
    ELSE published[p] = None

\* A guarded request about an open document is answered from the snapshot that
\* was visible when it began, or dropped; close, reopen and the generation
\* counter starting again do not revive it.
AnswersAreCurrent ==
  answer # None /\ store.docs[answer.ticket.path].open => answer.snap = answer.ticket.snap

\* What definition and references compute, they compute from the buffers of all
\* open documents, edits since the last refresh included.
ComputedFromBuffers ==
  [][\A p, q \in Paths :
       /\ store'.def[p] \notin {None, store.def[p]} /\ store'.docs[q].open =>
            store'.def[p].found[q] = store'.docs[q].text
       /\ store'.xref[p] \notin {None, store.xref[p]} /\ store'.docs[q].open =>
            store'.xref[p].found[q] = store'.docs[q].text]_vars

\* A document that is not flagged for resynchronization is what the editor
\* shows: after an edit the server could not place, incremental edits do not
\* build on the text that missed it (docs/external/for-ide/LSP.md:63).
InSync ==
  \A p \in Paths : store.docs[p].open /\ ~store.docs[p].resync => store.docs[p].text = editor[p]

\* definition and references answer for the buffers as they are, not for an
\* obsolete snapshot of another open file (docs/external/for-ide/CXX-API.md:203).
CrossFileFresh ==
  answer # None /\ answer.found # None =>
    \A q \in OpenPaths(store) : answer.found[q] = store.docs[q].text
=============================================================================
