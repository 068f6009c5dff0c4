--------------------------- MODULE LspServerProofs ---------------------------
(***************************************************************************)
(* Proofs about LspServer, for every workspace, set of texts, set of       *)
(* request ids and bound on snapshot ids: the invariant of IdeService      *)
(* survives what a request asks for while its answer is put together, and  *)
(* Server::run leaves no semantic run over.                                *)
(***************************************************************************)
EXTENDS LspServer, IdeServiceProofs

-----------------------------------------------------------------------------
(* Positions: the documents that an answer's locations are in.             *)

\* The runtime's records and a store, as an answer's conversion passes them on:
\* the record of an open document has its visible snapshot.
Views == [st : Stores, rt : [Paths -> Runtime \cup {None}]]
Sees(v) ==
  /\ v \in Views /\ SoundStore(v.st)
  /\ \A p \in Paths : v.st.docs[p].open => v.rt[p] # None /\ v.rt[p].snap = v.st.docs[p].snap

\* Looking at documents as text asks, and restamps no open document.
Seen(v, new) ==
  /\ Sees(new) /\ Quiet(v.st, new.st)
  /\ \A p \in Paths : v.st.docs[p].open => new.rt[p] = v.rt[p]

\* One look after another is a look.
LEMMA SeenTransitive ==
  ASSUME NEW v, NEW mid, NEW new, Seen(v, mid), Seen(mid, new)
  PROVE  Seen(v, new)
<1>1. Quiet(v.st, new.st)
  BY QuietTransitive DEF Seen
<1>2. \A p \in Paths : v.st.docs[p].open => mid.st.docs[p].open
  BY DEF Seen, Quiet, QuietDoc, QuietBuffer
<1> QED BY <1>1, <1>2 DEF Seen

\* Nothing has to be looked at.
LEMMA SeenReflexive ==
  ASSUME NEW v, Sees(v)
  PROVE  Seen(v, v)
BY QuietReflexive DEF Seen, Sees

\* snapshot_for_uri, wherever it is called: an open document's record stays.
LEMMA VisitSeen ==
  ASSUME NEW v, Sees(v), NEW p \in Paths, disk \in Found
  PROVE  Seen(v, Visit(p, v))
<1> DEFINE st  == SnapshotFor(v.st, p)
           now == st.docs[p].snap
           old == IF v.rt[p] = None THEN NewRuntime ELSE v.rt[p]
           rt  == [v.rt EXCEPT ![p] = Stamped(old, now)]
<1>1. v.st \in Stores /\ SoundStore(v.st) /\ v.rt \in [Paths -> Runtime \cup {None}]
  BY DEF Sees, Views
<1>2. Visit(p, v) = [st |-> st, rt |-> rt]
  BY <1>1 DEF Visit, Stamped
<1>3. Quiet(v.st, st)
  BY <1>1, SnapshotForQuiet
<1> HIDE DEF st
<1>4. st \in Stores /\ SoundStore(st) /\ now \in Nat
  BY <1>3 DEF Quiet, SoundStore, Stores, DocType
<1>5. old \in Runtime /\ (v.rt[p] # None => old = v.rt[p])
  BY <1>1 DEF NewRuntime, Runtime
<1> HIDE DEF now, old
<1>6. /\ Stamped(old, now) \in Runtime /\ Stamped(old, now).snap = now
      /\ old.snap = now => Stamped(old, now) = old
  BY <1>4, <1>5, StampedFields
<1>7. /\ rt \in [Paths -> Runtime \cup {None}]
      /\ \A q \in Paths : rt[q] = IF q = p THEN Stamped(old, now) ELSE v.rt[q]
  BY <1>1, <1>6
<1> HIDE DEF rt
<1>8. \A q \in Paths : st.docs[q].open => v.st.docs[q].open /\ st.docs[q] = v.st.docs[q]
  BY <1>3 DEF Quiet, QuietDoc, QuietBuffer
<1>9. \A q \in Paths : v.st.docs[q].open => rt[q] = v.rt[q]
  <2>1. v.st.docs[p].open => v.rt[p] # None /\ v.rt[p].snap = now
    BY <1>3 DEF Sees, Quiet, QuietDoc, QuietBuffer, now
  <2> QED BY <1>5, <1>6, <1>7, <2>1
<1>10. \A q \in Paths : st.docs[q].open => rt[q] # None /\ rt[q].snap = st.docs[q].snap
  BY <1>8, <1>9 DEF Sees
<1>11. Sees([st |-> st, rt |-> rt])
  BY <1>4, <1>7, <1>10 DEF Sees, Views
<1> QED BY <1>2, <1>3, <1>9, <1>11 DEF Seen

\* The conversion of an answer's locations, in whatever order they come.
LEMMA VisitsSeen ==
  ASSUME NEW v, Sees(v), NEW S, S \subseteq Paths, disk \in Found
  PROVE  Seen(v, FoldSet(Visit, v, S))
<1> DEFINE U    == {w \in Views : Sees(w)}
           pick == [s \in SUBSET S |-> CHOOSE x \in s : TRUE]
           f    == [x \in S |-> [w \in U |-> Visit(x, w)]]
           Is(iter) == iter = [s \in SUBSET S |->
                        IF s = {} THEN v
                        ELSE Visit(CHOOSE x \in s : TRUE, iter[s \ {CHOOSE x \in s : TRUE}])]
           h    == CHOOSE iter : Is(iter)
           T    == [s \in SUBSET S |-> {w \in U : Seen(v, w)}]
<1>1. IsFiniteSet(S) /\ v \in U
  BY FinitePaths, FS_Subset DEF Sees
<1>2. \A w \in U, x \in S : Visit(x, w) \in U /\ Seen(w, Visit(x, w))
  <2> SUFFICES ASSUME NEW w \in U, NEW x \in S
               PROVE  Visit(x, w) \in U /\ Seen(w, Visit(x, w))
    OBVIOUS
  <2>1. Sees(w) /\ x \in Paths
    OBVIOUS
  <2>2. Seen(w, Visit(x, w))
    BY <2>1, VisitSeen
  <2> QED BY <2>2 DEF Seen, Sees
<1>3. FoldSet(Visit, v, S) = h[S]
  BY DEF FoldSet, MapThenFoldSet
<1> HIDE DEF U
<1>4. f \in [S -> [U -> U]] /\ \A x \in S, w \in U : f[x][w] = Visit(x, w)
  BY <1>2
<1>5. \A s \in SUBSET S : s # {} => pick[s] \in s /\ pick[s] = CHOOSE x \in s : TRUE
  OBVIOUS
<1>6. Picks(S, pick)
  BY <1>5 DEF Picks
<1>7. \E g : Is(g)
  <2> HIDE DEF f, pick
  <2>1. PICK g : IsFold(S, U, pick, v, f, g)
    BY <1>1, <1>4, <1>6, FoldExists, Zenon
  <2>2. \A s \in SUBSET S : s # {} => f[pick[s]][g[s \ {pick[s]}]] = Visit(pick[s], g[s \ {pick[s]}])
    BY <1>4, <1>5, <2>1 DEF IsFold
  <2>3. Is(g)
    BY <1>5, <2>1, <2>2 DEF IsFold
  <2> QED BY <2>3
<1>8. Is(h)
  BY <1>7
<1> HIDE DEF h
<1>9. h[{}] \in T[{}]
  <2>1. h[{}] = v
    BY <1>8
  <2>2. Seen(v, v)
    BY SeenReflexive
  <2> QED BY <1>1, <2>1, <2>2
<1>10. ASSUME NEW s \in SUBSET S, s # {}, h[s \ {pick[s]}] \in T[s \ {pick[s]}]
       PROVE  h[s] \in T[s]
  <2> DEFINE x == pick[s]
             old == h[s \ {x}]
             new == Visit(x, old)
  <2>1. h[s] = new
    <3>1. h[s] = Visit(CHOOSE y \in s : TRUE, h[s \ {CHOOSE y \in s : TRUE}])
      BY <1>8, <1>10
    <3>2. x = CHOOSE y \in s : TRUE
      BY <1>5, <1>10
    <3> QED BY <3>1, <3>2
  <2>2. x \in S /\ old \in U /\ Seen(v, old)
    BY <1>5, <1>10
  <2> HIDE DEF x, old
  <2>3. new \in U /\ Seen(old, new)
    BY <1>2, <2>2
  <2> HIDE DEF new
  <2>4. Seen(v, new)
    BY <2>2, <2>3, SeenTransitive
  <2> QED BY <2>1, <2>3, <2>4
<1> HIDE DEF T, pick, Is
<1>11. h[S] \in T[S]
  BY <1>1, <1>6, <1>9, <1>10, SubsetInduction
<1> QED BY <1>3, <1>11 DEF T

-----------------------------------------------------------------------------
(* A request: its document is looked at, something is asked, its answer is *)
(* converted.                                                              *)

\* The state of the service, before a message looks at it.
Now == [st |-> store, rt |-> runtime]

\* The service's own records are what a request begins with.
LEMMA NowSeen ==
  ASSUME IInv
  PROVE  Sees(Now)
BY DEF IInv, TypeOK, Visible, Sees, Views, Now

\* snapshot_for_uri and begin_foreground_request of a handler.
LEMMA AskedSeen ==
  ASSUME IInv, NEW p \in Paths
  PROVE  Seen(Now, Asked(p)) /\ Asked(p) \in Views /\ SoundStore(Asked(p).st) /\ Quiet(store, Asked(p).st)
<1>1. Seen(Now, Asked(p))
  BY NowSeen, VisitSeen DEF IInv, TypeOK, Asked, Now
<1> QED BY <1>1 DEF Seen, Sees, Now

\* A handler that looks, asks and answers is a query step of the service.
LEMMA RespondStep ==
  ASSUME IInv, NEW mid, Seen(Now, mid), NEW st, Inquiry(mid.st, st), NEW found,
         Respond([mid EXCEPT !.st = st], found), canceled' \subseteq Requests,
         dirty' = dirty \/ (dirty' = {} /\ \A p \in Paths : st.docs[p].open => st.open[p] # None)
  PROVE  QueryStep
<1> DEFINE asked == [mid EXCEPT !.st = st]
           seen  == FoldSet(Visit, asked, Located(found))
<1>1. /\ Sees(mid) /\ mid \in Views /\ Quiet(store, mid.st) /\ SoundStore(st) /\ st \in Stores
      /\ \A p \in Paths : store.docs[p].open => mid.rt[p] = runtime[p]
  BY DEF Seen, Sees, Now, Inquiry, SoundStore
<1>2. asked = [st |-> st, rt |-> mid.rt] /\ asked \in Views
  BY <1>1 DEF Views
<1>3. \A p \in Paths : QuietBuffer(mid.st, st, p)
  BY DEF Inquiry
<1>4. Sees(asked)
  BY <1>1, <1>2, <1>3 DEF Sees, QuietBuffer
<1>5. Located(found) \subseteq Paths
  BY DEF Located
<1> HIDE DEF asked
<1>6. Seen(asked, seen)
  BY <1>4, <1>5, VisitsSeen DEF IInv, TypeOK
<1>7. /\ store' = seen.st /\ runtime' = seen.rt /\ answer' = None
      /\ UNCHANGED <<disk, editor, pendingSem, pendingBg, tickets, published>>
  BY DEF Respond, asked
<1> HIDE DEF seen
<1>8. Quiet(st, store') /\ runtime' \in [Paths -> Runtime \cup {None}]
      /\ \A p \in Paths : st.docs[p].open => runtime'[p] = mid.rt[p]
  BY <1>2, <1>6, <1>7 DEF Seen, Sees, Views
<1>9. Inquiry(store, st)
  BY <1>1, QuietThenAsked
<1>10. Inquiry(store, store')
  BY <1>8, <1>9, AskedThenQuiet
<1>11. \A p \in Paths : store.docs[p].open => runtime'[p] = runtime[p]
  BY <1>1, <1>8, <1>9 DEF Inquiry, QuietBuffer
<1>12. dirty' = dirty \/ (dirty' = {} /\ \A p \in Paths : store'.docs[p].open => store'.open[p] # None)
  BY <1>8 DEF Quiet, QuietDoc, QuietBuffer
<1> QED BY <1>7, <1>8, <1>10, <1>11, <1>12 DEF QueryStep, AnswersAreCurrent, IInv, TypeOK

\* refresh_dirty_open_indexes after a document was looked at.
LEMMA RefreshedAfter ==
  ASSUME IInv, NEW st, Quiet(store, st), NEW new, Quiet(RefreshDirty(st), new)
  PROVE  Quiet(st, new) /\ \A p \in Paths : new.docs[p].open => new.open[p] # None
<1> DEFINE mid == RefreshDirty(st)
<1>1. SoundStore(st) /\ disk \in Found /\ dirty \subseteq Paths
  BY DEF IInv, TypeOK, Quiet
<1>2. Quiet(st, mid) /\ \A p \in dirty : mid.docs[p].open => mid.open[p] # None
  BY <1>1, RefreshDirtyQuiet
<1> HIDE DEF mid
<1>3. \A p \in Paths : st.docs[p].open /\ st.open[p] = None => p \in dirty
  BY DEF IInv, IndexedOrDirty, Quiet, QuietDoc, QuietBuffer
<1>4. \A p \in Paths : mid.docs[p].open => mid.open[p] # None
  BY <1>2, <1>3 DEF Quiet, QuietDoc, QuietBuffer
<1>5. Quiet(mid, new)
  BY DEF mid
<1>6. Quiet(st, new)
  BY <1>2, <1>5, QuietTransitive
<1>7. \A p \in Paths : new.docs[p].open => new.open[p] # None
  BY <1>4, <1>5 DEF Quiet, QuietDoc, QuietBuffer
<1> QED BY <1>6, <1>7

\* A request the client canceled.
LEMMA HandleCanceledStep ==
  ASSUME IInv, NEW p \in Paths, NEW id \in Requests, HandleCanceled(p, id)
  PROVE  QueryStep
<1> DEFINE mid == Asked(p)
<1>1. Seen(Now, mid) /\ mid \in Views /\ SoundStore(mid.st)
  BY AskedSeen
<1>2. Respond(mid, Nothing) /\ dirty' = dirty /\ canceled' \subseteq Requests
  BY DEF HandleCanceled, IInv, TypeOK
<1> HIDE DEF mid
<1>3. mid = [mid EXCEPT !.st = mid.st]
  BY <1>1 DEF Views
<1>4. Inquiry(mid.st, mid.st)
  BY <1>1, QuietReflexive, QuietAsked
<1>5. Respond([mid EXCEPT !.st = mid.st], Nothing)
  BY <1>2, <1>3
<1> QED BY <1>1, <1>2, <1>4, <1>5, RespondStep

\* completion, hover and documentSymbol
LEMMA HandleCompletionStep ==
  ASSUME IInv, NEW p \in Paths, HandleCompletion(p)
  PROVE  QueryStep
<1> DEFINE mid == Asked(p)
           st  == HirModule(DocumentFor(mid.st, p), p, TRUE)
<1>1. Seen(Now, mid) /\ mid \in Views /\ SoundStore(mid.st)
  BY AskedSeen
<1>2. Inquiry(mid.st, st)
  BY <1>1, ModuleForQuiet, QuietAsked DEF IInv, TypeOK
<1>3. Respond([mid EXCEPT !.st = st], Nothing) /\ dirty' = dirty /\ canceled' \subseteq Requests
  BY DEF HandleCompletion, IInv, TypeOK
<1> HIDE DEF mid, st
<1> QED BY <1>1, <1>2, <1>3, RespondStep

\* definition: the dirty documents are indexed first.
LEMMA HandleDefinitionStep ==
  ASSUME IInv, NEW p \in Paths, HandleDefinition(p)
  PROVE  QueryStep
<1> DEFINE mid == Asked(p)
           ref == RefreshDirty(mid.st)
           doc == DocumentFor(ref, p)
           st  == Definition(doc, p)
<1>0. disk \in Found /\ dirty \subseteq Paths
  BY DEF IInv, TypeOK
<1>1. Seen(Now, mid) /\ mid \in Views /\ SoundStore(mid.st) /\ Quiet(store, mid.st)
  BY AskedSeen
<1>2. /\ Respond([mid EXCEPT !.st = st], ([mid EXCEPT !.st = st]).st.def[p].found)
      /\ dirty' = {} /\ canceled' \subseteq Requests
  BY DEF HandleDefinition, IInv, TypeOK
<1> HIDE DEF mid
<1>3. SoundStore(ref)
  BY <1>0, <1>1, RefreshDirtyQuiet DEF Quiet
<1>4. Quiet(ref, doc)
  BY <1>0, <1>3, DocumentForQuiet
<1>5. Quiet(mid.st, doc) /\ \A q \in Paths : doc.docs[q].open => doc.open[q] # None
  BY <1>1, <1>4, RefreshedAfter
<1> HIDE DEF ref, doc
<1>6. Inquiry(doc, st)
  BY <1>5, DefinitionAsked DEF Quiet
<1>7. Inquiry(mid.st, st)
  BY <1>5, <1>6, QuietThenAsked
<1>8. \A q \in Paths : st.docs[q].open => st.open[q] # None
  BY <1>5, <1>6 DEF Inquiry, QuietBuffer
<1> HIDE DEF st
<1> QED BY <1>1, <1>2, <1>7, <1>8, RespondStep

\* references
LEMMA HandleReferencesStep ==
  ASSUME IInv, NEW p \in Paths, HandleReferences(p)
  PROVE  QueryStep
<1> DEFINE mid == Asked(p)
           doc == DocumentFor(mid.st, p)
           st  == References(doc, p)
<1>0. disk \in Found
  BY DEF IInv, TypeOK
<1>1. Seen(Now, mid) /\ mid \in Views /\ SoundStore(mid.st)
  BY AskedSeen
<1>2. /\ Respond([mid EXCEPT !.st = st], ([mid EXCEPT !.st = st]).st.xref[p].found)
      /\ dirty' = dirty /\ canceled' \subseteq Requests
  BY DEF HandleReferences, IInv, TypeOK
<1> HIDE DEF mid
<1>3. Quiet(mid.st, doc) /\ SoundStore(doc)
  BY <1>0, <1>1, DocumentForQuiet DEF Quiet
<1> HIDE DEF doc
<1>4. Inquiry(doc, st)
  BY <1>0, <1>3, ReferencesAsked
<1>5. Inquiry(mid.st, st)
  BY <1>3, <1>4, QuietThenAsked
<1> HIDE DEF st
<1> QED BY <1>1, <1>2, <1>5, RespondStep

\* workspace/symbol
LEMMA HandleSymbolsStep ==
  ASSUME IInv, HandleSymbols
  PROVE  QueryStep
<1> DEFINE st == RefreshDirty(store)
<1>1. SoundStore(store) /\ disk \in Found /\ dirty \subseteq Paths /\ canceled' \subseteq Requests
  BY DEF IInv, TypeOK, HandleSymbols
<1>2. Quiet(store, st) /\ SoundStore(st)
  BY <1>1, RefreshDirtyQuiet DEF Quiet
<1>3. Quiet(store, store) /\ Quiet(st, st)
  BY <1>1, <1>2, QuietReflexive
<1>4. \A p \in Paths : st.docs[p].open => st.open[p] # None
  BY <1>3, RefreshedAfter
<1>5. [Now EXCEPT !.st = st] = [st |-> st, rt |-> runtime]
  BY DEF Now
<1>6. Respond([Now EXCEPT !.st = st], MergedSymbols(st)) /\ dirty' = {}
  BY <1>5 DEF HandleSymbols
<1> HIDE DEF st
<1>7. Seen(Now, Now)
  BY NowSeen, SeenReflexive
<1>8. Inquiry(Now.st, st)
  BY <1>2, QuietAsked DEF Now
<1> QED BY <1>1, <1>4, <1>6, <1>7, <1>8, RespondStep

-----------------------------------------------------------------------------
(* The loop.  While Server::run waits for a message nothing is left to     *)
(* diagnose; a message leaves at most one run, which is drained next.      *)

RunInv ==
  /\ phase \in {"read", "drain", "background", "host"}
  /\ phase \in {"read", "background"} => pendingSem = <<>>
  /\ phase = "drain" => Len(pendingSem) <= 1

ServerInv == IInv /\ RunInv

\* What each step of the server does for the service.
Served == IInv' /\ AnswersFromBuffers

\* A message queues at most one run of diagnostics.
LEMMA EditorQueuesOne ==
  ASSUME NEW p \in Paths, EditorStep(p), pendingSem = <<>>
  PROVE  Len(pendingSem') <= 1
<1>1. pendingSem' \in {Enqueue(<<>>, p), Without(<<>>, p)}
  BY DEF EditorStep, DidOpen, DidChangeFull, DidChangeEdit, DidChangeInvalid, DidClose, AfterEdit
<1>2. Len(Enqueue(<<>>, p)) = 1
  BY DEF Enqueue, Range
<1>3. Without(<<>>, p) = <<>>
  BY DEF Without, RemoveFirst
<1>4. Len(<<>>) = 0
  OBVIOUS
<1>5. CASE pendingSem' = Enqueue(<<>>, p)
  BY <1>2, <1>5
<1>6. CASE pendingSem' = Without(<<>>, p)
  BY <1>3, <1>4, <1>6
<1> QED BY <1>1, <1>5, <1>6

\* A query step leaves the queue as it is.
LEMMA QueryServes ==
  ASSUME IInv, QueryStep
  PROVE  Served /\ pendingSem' = pendingSem
BY QueryStepKeeps DEF QueryStep, Served

\* Nothing happens to the service.
LEMMA StutterServes ==
  ASSUME IInv, UNCHANGED vars
  PROVE  Served /\ pendingSem' = pendingSem
BY StutterKeeps DEF Served, vars

\* Every handler of Server::handle, and what it leaves to be diagnosed.
LEMMA HandleServes ==
  ASSUME IInv, HandleMessage
  PROVE  Served /\ Handled /\ (pendingSem = <<>> => Len(pendingSem') <= 1)
<1>1. ASSUME NEW p \in Paths, HandleEdit(p)
      PROVE  Served /\ Handled /\ (pendingSem = <<>> => Len(pendingSem') <= 1)
  BY <1>1, EditorStepKeeps, EditorQueuesOne DEF HandleEdit, Served
<1>2. ASSUME QueryStep PROVE Served /\ (pendingSem = <<>> => Len(pendingSem') <= 1)
  BY <1>2, QueryServes
<1>3. ASSUME NEW p \in Paths, HandleCompletion(p) \/ HandleDefinition(p) \/ HandleReferences(p)
      PROVE  QueryStep /\ Handled
  BY <1>3, HandleCompletionStep, HandleDefinitionStep, HandleReferencesStep
     DEF HandleCompletion, HandleDefinition, HandleReferences
<1>4. ASSUME NEW p \in Paths, HandleTokens(p) PROVE QueryStep /\ Handled
  <2>1. RequestStep
    BY <1>4 DEF HandleTokens, RequestStep
  <2> QED BY <1>4, <2>1, RequestStepKeeps DEF HandleTokens
<1>5. ASSUME NEW id \in Requests, HandleCancel(id) PROVE QueryStep /\ Handled
  <2>1. RequestStep
    BY <1>5 DEF HandleCancel, RequestStep
  <2> QED BY <1>5, <2>1, RequestStepKeeps DEF HandleCancel
<1>6. ASSUME NEW p \in Paths, NEW id \in Requests, HandleCanceled(p, id) PROVE QueryStep /\ Handled
  BY <1>6, HandleCanceledStep DEF HandleCanceled
<1>7. ASSUME HandleSymbols PROVE QueryStep /\ Handled
  BY <1>7, HandleSymbolsStep DEF HandleSymbols
<1>8. ASSUME HandleWatched PROVE QueryStep /\ Handled
  BY <1>8, ScheduleRefreshKeeps DEF HandleWatched
<1>9. ASSUME HandleOther PROVE Served /\ Handled /\ (pendingSem = <<>> => Len(pendingSem') <= 1)
  BY <1>9, StutterServes DEF HandleOther
<1> HIDE DEF Served
<1> QED BY <1>1, <1>2, <1>3, <1>4, <1>5, <1>6, <1>7, <1>8, <1>9 DEF HandleMessage

\* drain_semantic_diagnostics(1) takes the run that a message left, or the queue
\* is empty.
LEMMA DrainServes ==
  ASSUME IInv, Drain
  PROVE  Served /\ (Len(pendingSem) <= 1 => pendingSem' = <<>>)
<1>1. Served /\ pendingSem' \in Seq(Paths) /\ Len(pendingSem') < Len(pendingSem)
  BY DrainKeeps DEF Served
<1>2. pendingSem \in Seq(Paths)
  BY DEF IInv, TypeOK
<1> QED BY <1>1, <1>2

\* The server begins with an indexed workspace and an empty queue.
LEMMA ServerInitInv == ServerInit => ServerInv
BY InitInvariant DEF ServerInit, ServerInv, RunInv, Init

\* Every step of the loop keeps both invariants.
LEMMA ServerNextInv ==
  ASSUME ServerInv, [ServerNext]_serverVars
  PROVE  ServerInv' /\ Served
<1>0. IInv /\ RunInv /\ pendingSem \in Seq(Paths)
  BY DEF ServerInv, IInv, TypeOK
<1>1. CASE HandleMessage
  <2>1. Served /\ Handled /\ (pendingSem = <<>> => Len(pendingSem') <= 1)
    BY <1>0, <1>1, HandleServes
  <2> QED BY <1>0, <2>1 DEF ServerInv, Served, RunInv, Handled
<1>2. CASE DrainRuntime
  <2>1. CASE pendingSem # <<>>
    <3>1. Drain /\ phase = "drain" /\ phase' = "background"
      BY <1>2, <2>1 DEF DrainRuntime
    <3>2. Served /\ pendingSem' = <<>>
      BY <1>0, <3>1, DrainServes DEF RunInv
    <3> QED BY <3>1, <3>2 DEF ServerInv, Served, RunInv
  <2>2. CASE pendingSem = <<>>
    <3>1. UNCHANGED vars /\ phase' = "background"
      BY <1>2, <2>2 DEF DrainRuntime
    <3>2. Served /\ pendingSem' = <<>>
      BY <1>0, <2>2, <3>1, StutterServes
    <3> QED BY <3>1, <3>2 DEF ServerInv, Served, RunInv
  <2> QED BY <2>1, <2>2
<1>3. CASE BackgroundSlice
  <2>1. phase = "background" /\ phase' = "read" /\ (RunBackground \/ UNCHANGED vars)
    BY <1>3 DEF BackgroundSlice
  <2>2. Served /\ pendingSem' = pendingSem
    BY <1>0, <2>1, RunBackgroundKeeps, QueryServes, StutterServes
  <2> QED BY <1>0, <2>1, <2>2 DEF ServerInv, Served, RunInv
<1>4. CASE HostDrain
  <2>1. Drain /\ phase = "host" /\ phase' = "host"
    BY <1>4 DEF HostDrain
  <2>2. Served
    BY <1>0, <2>1, DrainServes
  <2> QED BY <2>1, <2>2 DEF ServerInv, Served, RunInv
<1>5. CASE Disk
  <2>1. PICK p \in Paths, text \in Saves : DiskChange(p, text) /\ UNCHANGED phase
    BY <1>5 DEF Disk
  <2>2. Served /\ pendingSem' = pendingSem
    BY <1>0, <2>1, DiskChangeKeeps, QueryServes
  <2> QED BY <1>0, <2>1, <2>2 DEF ServerInv, Served, RunInv
<1>6. CASE UNCHANGED serverVars
  <2>1. UNCHANGED vars /\ UNCHANGED phase
    BY <1>6 DEF serverVars
  <2>2. Served /\ pendingSem' = pendingSem
    BY <1>0, <2>1, StutterServes
  <2> QED BY <1>0, <2>1, <2>2 DEF ServerInv, Served, RunInv
<1> QED BY <1>1, <1>2, <1>3, <1>4, <1>5, <1>6 DEF ServerNext

-----------------------------------------------------------------------------
(* What holds of every behaviour of the server. *)

\* The invariant of the service and of the loop hold in every reachable state,
\* with Server::run or with a host that calls handle and drain_runtime itself.
THEOREM ServerInvariant == ServerSpec => []ServerInv
<1>1. ServerInv /\ [ServerNext]_serverVars => ServerInv'
  BY ServerNextInv
<1> QED BY ServerInitInv, <1>1, PTL DEF ServerSpec

\* Whenever Server::run waits for a message, a budget of one has left no semantic
\* run over, and the diagnostics of every open document's last edit are published.
THEOREM AlwaysPublishedAtRead == ServerSpec => []PublishedAtRead
<1>1. ServerInv => PublishedAtRead
  <2> SUFFICES ASSUME ServerInv, phase = "read"
               PROVE  pendingSem = <<>> /\ \A p \in OpenPaths(store) : published[p] = store.docs[p].snap
    BY DEF PublishedAtRead
  <2>1. pendingSem = <<>>
    BY DEF ServerInv, RunInv
  <2>2. Range(pendingSem) = {}
    BY <2>1 DEF Range
  <2> QED BY <2>1, <2>2 DEF ServerInv, IInv, Diagnosed, OpenPaths
<1> QED BY ServerInvariant, <1>1, PTL

\* The index, the caches and the queue of the service stay right under the
\* server, whose handlers ask in the middle of an answer.
THEOREM ServerKeepsService == ServerSpec => [](TypeOK /\ OpenIndexExact /\ CacheExact /\ NoEditUndiagnosed)
<1>1. ServerInv => TypeOK /\ OpenIndexExact /\ CacheExact /\ NoEditUndiagnosed
  BY SafetyFromInvariant DEF ServerInv
<1> QED BY ServerInvariant, <1>1, PTL

\* What handle answers for definition and references was computed from the
\* buffers of all open documents.
THEOREM ServerComputesFromBuffers == ServerSpec => ComputedFromBuffers
<1>1. ServerInv /\ [ServerNext]_serverVars =>
        [\A p, q \in Paths :
           /\ store'.def[p] \notin {None, store.def[p]} /\ store'.docs[q].open =>
                store'.def[p].found[q] = store'.docs[q].text
           /\ store'.xref[p] \notin {None, store.xref[p]} /\ store'.docs[q].open =>
                store'.xref[p].found[q] = store'.docs[q].text]_vars
  BY ServerNextInv, ComputedInStep DEF Served
<1> QED BY ServerInvariant, <1>1, PTL DEF ServerSpec, ComputedFromBuffers
=============================================================================
