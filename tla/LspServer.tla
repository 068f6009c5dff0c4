----------------------------- MODULE LspServer ------------------------------
(***************************************************************************)
(* The language server of src/src/StyioLSP/Server.cpp around IdeService:   *)
(* Server::run reads a message, handles it, drains one semantic run and,   *)
(* when none is left, runs one background task; then it reads again.       *)
(* Nothing else drives the queues, so what one message left over waits for *)
(* the client's next message.  A host that embeds the server calls handle  *)
(* and drain_runtime itself, in any order.  The disk changes at any time.  *)
(*                                                                         *)
(* A request is begun, checked and answered in one call of handle.  Ids    *)
(* are numbers the client chose; messages that cannot be read or parsed    *)
(* are skipped without a drain and are stuttering steps.  The workspace    *)
(* has been initialized, which a client does once.                         *)
(***************************************************************************)
EXTENDS IdeService

VARIABLE phase  \* "read", or what Server::run does next: "drain", "background"; "host" without run

serverVars == <<vars, phase>>

ServerInit == Init /\ phase \in {"read", "host"}

-----------------------------------------------------------------------------
(* Server::handle.                                                         *)

\* A message was handled.
Handled ==
  \/ phase = "read" /\ phase' = "drain"
  \/ phase = "host" /\ phase' = "host"

\* textDocument/didOpen, didChange and didClose.  The snapshots handle asks for
\* around them are the open document's, which is recorded already.
HandleEdit(p) == Handled /\ EditorStep(p)

\* $/cancelRequest
HandleCancel(id) == Handled /\ Cancel(id)

\* workspace/didChangeWatchedFiles
HandleWatched == Handled /\ ScheduleRefresh

\* A document as text, for the positions of what was found in it.
Visit(p, s) ==
  [st |-> SnapshotFor(s.st, p),
   rt |-> [s.rt EXCEPT ![p] = LET old == IF @ = None THEN NewRuntime ELSE @
                                  now == SnapshotFor(s.st, p).docs[p].snap
                              IN  [old EXCEPT !.snap = now,
                                              !.gen = IF old.snap # now THEN old.gen + 1 ELSE old.gen]]]

\* Where a symbol was found; the empty text has none.
Located(found) == {p \in Paths : found[p] \notin {None, 0}}

\* The answer's locations are converted with snapshot_for_uri of their files.
Respond(asked, found) ==
  LET seen == FoldSet(Visit, asked, Located(found))
  IN  /\ store' = seen.st
      /\ runtime' = seen.rt
      /\ answer' = None
      /\ UNCHANGED <<disk, editor, pendingSem, pendingBg, tickets, published>>

\* snapshot_for_uri and begin_foreground_request for p
Asked(p) == Visit(p, [st |-> store, rt |-> runtime])

\* A request the client canceled, before it or under an id it uses again, is
\* answered with nothing and forgotten.
HandleCanceled(p, id) ==
  /\ Handled
  /\ id \in canceled
  /\ canceled' = canceled \ {id}
  /\ Respond(Asked(p), Nothing)
  /\ UNCHANGED dirty

\* textDocument/completion, hover, documentSymbol
HandleCompletion(p) ==
  /\ Handled
  /\ Respond([Asked(p) EXCEPT !.st = HirModule(DocumentFor(@, p), p, TRUE)], Nothing)
  /\ UNCHANGED <<canceled, dirty>>

\* textDocument/definition
HandleDefinition(p) ==
  LET asked == [Asked(p) EXCEPT !.st = Definition(DocumentFor(RefreshDirty(@), p), p)]
  IN  /\ Handled
      /\ Respond(asked, asked.st.def[p].found)
      /\ dirty' = {}
      /\ UNCHANGED canceled

\* textDocument/references
HandleReferences(p) ==
  LET asked == [Asked(p) EXCEPT !.st = References(DocumentFor(@, p), p)]
  IN  /\ Handled
      /\ Respond(asked, asked.st.xref[p].found)
      /\ UNCHANGED <<canceled, dirty>>

\* textDocument/semanticTokens/full
HandleTokens(p) == Handled /\ SemanticTokens(p)

\* workspace/symbol
HandleSymbols ==
  /\ Handled
  /\ Respond([st |-> RefreshDirty(store), rt |-> runtime], MergedSymbols(RefreshDirty(store)))
  /\ dirty' = {}
  /\ UNCHANGED canceled

\* Requests without parameters and methods the server does not know.
HandleOther == Handled /\ UNCHANGED vars

HandleMessage ==
  \/ \E p \in Paths : HandleEdit(p) \/ HandleCompletion(p) \/ HandleDefinition(p)
                      \/ HandleReferences(p) \/ HandleTokens(p)
  \/ \E id \in Requests : HandleCancel(id) \/ \E p \in Paths : HandleCanceled(p, id)
  \/ HandleSymbols
  \/ HandleWatched
  \/ HandleOther

-----------------------------------------------------------------------------
(* The rest of an iteration of Server::run, and drain_runtime for a host.  *)

\* Mutant of DrainRuntime: a pending index refresh goes first.
DrainRuntimeLast ==
  /\ phase = "drain"
  /\ IF pendingSem # <<>> /\ pendingBg = <<>> THEN Drain ELSE UNCHANGED vars
  /\ phase' = "background"

\* drain_runtime(kRuntimeDrainBudgetPerLoop)
DrainRuntime ==
  /\ phase = "drain"
  /\ IF pendingSem # <<>> THEN Drain ELSE UNCHANGED vars
  /\ phase' = "background"

\* run_background_tasks(kBackgroundWorkBudgetPerLoop)
BackgroundSlice ==
  /\ phase = "background"
  /\ IF pendingBg # <<>> /\ pendingSem = <<>> THEN RunBackground ELSE UNCHANGED vars
  /\ phase' = "read"

HostDrain == phase = "host" /\ Drain /\ UNCHANGED phase

Disk == \E p \in Paths, text \in Saves : DiskChange(p, text) /\ UNCHANGED phase

\* Bound: at MaxSnapshot the client sends no more message that takes a snapshot id.
ServerNext ==
  \/ HandleMessage /\ (WithinBound \/ store'.next = store.next)
  \/ DrainRuntime
  \/ BackgroundSlice
  \/ HostDrain
  \/ Disk

\* The loop finishes what it does with a message; whether another one comes is
\* the client's business.
ServerSpec ==
  /\ ServerInit /\ [][ServerNext]_serverVars
  /\ WF_serverVars(DrainRuntime) /\ WF_serverVars(BackgroundSlice)

-----------------------------------------------------------------------------
(* Properties.                                                             *)

\* A budget of one is enough: whenever the server waits for a message, no
\* semantic run is left over and the full diagnostics of every open document's
\* last edit are published, so that they never wait for the client's next
\* message (Server.cpp:661), and background work is never held back by them.
PublishedAtRead ==
  phase = "read" =>
    pendingSem = <<>> /\ \A p \in OpenPaths(store) : published[p] = store.docs[p].snap

\* The diagnostics of an open document catch up with its last edit without
\* another message from the client when Server::run drives the server.
DiagnosticsCatchUp ==
  \A p \in Paths :
    store.docs[p].open /\ phase # "host" ~>
      (~store.docs[p].open \/ published[p] = store.docs[p].snap)
=============================================================================
