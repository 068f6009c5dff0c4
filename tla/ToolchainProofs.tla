-------------------------- MODULE ToolchainProofs ---------------------------
(***************************************************************************)
(* Proofs about the processes of the toolchain, for every number of        *)
(* processes, commands, compile plans and package contents.                *)
(***************************************************************************)
EXTENDS Toolchain, TLAPS

(***************************************************************************)
(* Where a step may lead: each component has places of its own.            *)
(***************************************************************************)
ComesTo(p, places) == \E place \in places : pc' = [pc EXCEPT ![p] = place]

CompilePlaces == {"idle", "setup", "source", "tokenize", "parse", "shadow", "typecheck", "lower", "jit", "codegen",
                  "block", "codegen ready", "artifact", "execute", "receipt", "flush receipt", "exit"}

LEMMA CompileMoves == ASSUME NEW p, CompileStep(p) PROVE ComesTo(p, CompilePlaces)
<1> USE DEF ComesTo, CompilePlaces, Goto, Step, Begin
<1>1. CASE StartCompile(p) \/ Setup(p) \/ ReadSource(p) \/ Refused(p)
  BY <1>1 DEF StartCompile, Setup, ReadSource, Refused
<1>2. CASE Throws(p) \/ RuntimeError(p) \/ Executed(p)
  BY <1>2 DEF Throws, RuntimeError, Executed
<1>3. CASE Tokenize(p) \/ Parse(p) \/ TypeInfer(p) \/ Lower(p)
  BY <1>3 DEF Tokenize, Parse, TypeInfer, Lower, Advances
<1>4. CASE ShadowCompare(p) \/ RuntimeInit(p) \/ Codegen(p) \/ CodegenReady(p) \/ WriteArtifact(p)
  BY <1>4 DEF ShadowCompare, RuntimeInit, Codegen, CodegenReady, WriteArtifact
<1>5. CASE OpenReceipt(p) \/ FlushReceipt(p) \/ EndScope(p)
  BY <1>5 DEF OpenReceipt, FlushReceipt, EndScope
<1> QED BY <1>1, <1>2, <1>3, <1>4, <1>5 DEF CompileStep

LoadPlaces == {"compile", "open cached", "block loaded", "remove cached", "compiled", "block failed", "move",
               "open installed", "finish copy", "remove broken", "dlopen failed"}

LEMMA CacheMoves == ASSUME NEW p, CacheStep(p) PROVE ComesTo(p, LoadPlaces)
<1> USE DEF ComesTo, LoadPlaces, Goto, Step
<1>1. CASE CacheLookup(p) \/ OpenCached(p) \/ RemoveCached(p) \/ CompileBlock(p) \/ CheckInstalled(p)
  BY <1>1 DEF CacheLookup, OpenCached, RemoveCached, CompileBlock, CheckInstalled
<1>2. CASE Rename(p) \/ CopyBegin(p) \/ CopyEnd(p) \/ OpenInstalled(p) \/ RemoveBroken(p)
  BY <1>2 DEF Rename, CopyBegin, CopyEnd, OpenInstalled, RemoveBroken
<1> QED BY <1>1, <1>2 DEF CacheStep

RegistryPlaces == {"idle", "publish", "open marker", "write marker", "archive", "tar", "open blob", "copy blob", "open entry", "write entry",
                   "fetch marker", "fetch entry", "fetch blob", "download", "verify", "extract", "install", "copy files",
                   "open package receipt", "write package receipt"}

LEMMA RegistryMoves == ASSUME NEW p, RegistryStep(p) PROVE ComesTo(p, RegistryPlaces)
<1> USE DEF ComesTo, RegistryPlaces, Goto, Step, Begin, Leave
<1>0. CASE NameArchive(p) \/ NameBlob(p) \/ NameTree(p)
  BY <1>0 DEF NameArchive, NameBlob, NameTree, NameTemporary
<1>1. CASE StartPublish(p) \/ EnsureWritable(p) \/ OpenMarker(p) \/ WriteMarker(p) \/ Archive(p)
  BY <1>1 DEF StartPublish, EnsureWritable, OpenMarker, WriteMarker, Archive
<1>2. CASE OpenBlob(p) \/ OpenEntry(p) \/ WriteEntry(p) \/ StartFetch(p)
  BY <1>2 DEF OpenBlob, OpenEntry, WriteEntry, StartFetch
<1>3. CASE CopyBlob(p)
  BY <1>3 DEF CopyBlob
<1>4. CASE FetchMarker(p) \/ FetchEntry(p) \/ FetchBlob(p) \/ Verify(p)
  BY <1>4 DEF FetchMarker, FetchEntry, FetchBlob, Verify
<1>5. CASE Install(p) \/ CopyFiles(p) \/ OpenPackageReceipt(p) \/ WritePackageReceipt(p)
  BY <1>5 DEF Install, CopyFiles, OpenPackageReceipt, WritePackageReceipt
<1> QED BY <1>0, <1>1, <1>2, <1>3, <1>4, <1>5 DEF RegistryStep
-----------------------------------------------------------------------------
(***************************************************************************)
(* The native cache.  Without copy_file the cache file is absent or whole, *)
(* and it stays whole once it is: only a process that found it broken      *)
(* removes it.                                                             *)
(***************************************************************************)
Undamaged ==
  /\ lib \in {Absent, Whole}
  /\ \A p \in Procs :
       /\ pc[p] \in {"open cached", "open installed"} => lib = Whole
       /\ pc[p] \notin {"remove cached", "finish copy", "remove broken", "dlopen failed"}

CacheInv == DOMAIN pc = Procs /\ (~copied => Undamaged)

CachePlaces == {"open cached", "open installed", "remove cached", "finish copy", "remove broken", "dlopen failed"}

\* A process that does something else
LEMMA CacheUntouched ==
  ASSUME CacheInv, NEW p \in Procs, NEW place, place \notin CachePlaces,
         pc' = [pc EXCEPT ![p] = place], UNCHANGED cacheVars
  PROVE  CacheInv'
<1>1. \A q \in Procs : pc'[q] = pc[q] \/ pc'[q] \notin CachePlaces
  BY DEF CacheInv
<1> QED BY <1>1 DEF CacheInv, Undamaged, CachePlaces, cacheVars

LEMMA CacheKept == CacheInv /\ [ToolchainNext]_toolchainVars => CacheInv'
<1> SUFFICES ASSUME CacheInv, [ToolchainNext]_toolchainVars PROVE CacheInv'
  OBVIOUS
<1> USE DEF CacheInv, Undamaged
<1>1. CASE UNCHANGED toolchainVars
  BY <1>1 DEF toolchainVars, procVars, cacheVars
<1>2. ASSUME NEW p \in Procs, Compiles(p) PROVE CacheInv'
  <2>1. PICK place \in CompilePlaces : pc' = [pc EXCEPT ![p] = place]
    BY <1>2, CompileMoves DEF Compiles, ComesTo
  <2>2. place \notin CachePlaces
    BY <2>1 DEF CompilePlaces, CachePlaces
  <2> QED BY <1>2, <2>1, <2>2, CacheUntouched DEF Compiles
<1>3. ASSUME NEW p \in Procs, UsesRegistry(p) PROVE CacheInv'
  <2>1. PICK place \in RegistryPlaces : pc' = [pc EXCEPT ![p] = place]
    BY <1>3, RegistryMoves DEF UsesRegistry, ComesTo
  <2>2. place \notin CachePlaces
    BY <2>1 DEF RegistryPlaces, CachePlaces
  <2> QED BY <1>3, <2>1, <2>2, CacheUntouched DEF UsesRegistry
<1>4. ASSUME NEW p \in Procs, Killed(p) PROVE CacheInv'
  BY <1>4 DEF Killed, Kill, Goto, cacheVars
<1>5. ASSUME NEW p \in Procs, LoadsBlock(p) PROVE CacheInv'
  <2> USE DEF Step, Goto, cacheVars
  <2>1. CASE CacheLookup(p) \/ OpenCached(p) \/ RemoveCached(p)
    BY <2>1 DEF CacheLookup, OpenCached, RemoveCached
  <2>2. CASE CompileBlock(p) \/ CheckInstalled(p) \/ Rename(p)
    BY <2>2 DEF CompileBlock, CheckInstalled, Rename
  <2>3. CASE CopyBegin(p) \/ CopyEnd(p)
    BY <2>3 DEF CopyBegin, CopyEnd
  <2>4. CASE OpenInstalled(p) \/ RemoveBroken(p)
    BY <2>4 DEF OpenInstalled, RemoveBroken
  <2> QED BY <1>5, <2>1, <2>2, <2>3, <2>4 DEF LoadsBlock, CacheStep
<1> QED BY <1>1, <1>2, <1>3, <1>4, <1>5 DEF ToolchainNext

\* Sharing the cache of compiled blocks does no harm (compile_and_load_block,
\* NativeInterop.cpp:1027, 1033), for any number of processes.
THEOREM OnlyTheCompilerFails == ToolchainSpec => []OnlyCompilerFails
<1>1. ToolchainInit => CacheInv
  BY DEF ToolchainInit, ProcInit, CacheInit, CacheInv, Undamaged
<1>2. CacheInv => OnlyCompilerFails
  BY DEF CacheInv, Undamaged, OnlyCompilerFails
<1> QED BY <1>1, <1>2, CacheKept, PTL DEF ToolchainSpec
-----------------------------------------------------------------------------
(***************************************************************************)
(* The repository.  A content is sound when its blob is complete or was    *)
(* truncated by a later publisher; once sound, it stays so.  A publisher   *)
(* that has copied its blob holds a sound content, one that is copying     *)
(* holds one unless it truncated the blob last.                            *)
(***************************************************************************)
Sound(c) == blob[c] = c \/ c \in reopened \cup mixed

PublishPlaces == {"open blob", "copy blob", "open entry", "write entry"}

AreHands(hands) ==
  /\ DOMAIN hands = Procs
  /\ \A p \in Procs : DOMAIN hands[p] = {"content", "got", "shared"}

PublishInv ==
  /\ DOMAIN pc = Procs
  /\ AreHands(hand)
  /\ blob \in [Contents -> Contents \cup {Absent, Torn}]
  /\ DOMAIN last = Contents
  /\ entry \in Contents => Sound(entry)
  /\ \A p \in Procs :
       /\ pc[p] \in PublishPlaces => hand[p].content \in Contents
       /\ pc[p] = "copy blob" =>
            /\ blob[hand[p].content] # Absent
            /\ last[hand[p].content] = p \/ Sound(hand[p].content)
       /\ pc[p] \in {"open entry", "write entry"} => Sound(hand[p].content)

\* A process that does something else
LEMMA PublishUntouched ==
  ASSUME PublishInv, NEW p \in Procs, NEW place, place \notin PublishPlaces,
         pc' = [pc EXCEPT ![p] = place], UNCHANGED <<entry, blob, last, reopened, mixed>>,
         AreHands(hand'),
         \A q \in Procs : q # p => hand'[q].content = hand[q].content
  PROVE  PublishInv'
<1>1. \A q \in Procs : \/ q # p /\ pc'[q] = pc[q] /\ hand'[q].content = hand[q].content
                      \/ pc'[q] \notin PublishPlaces
  BY DEF PublishInv
<1>2. \A c : Sound(c)' <=> Sound(c)
  BY DEF Sound
<1>3. DOMAIN pc' = Procs
  BY DEF PublishInv
<1> QED BY <1>1, <1>2, <1>3 DEF PublishInv, PublishPlaces

LEMMA HandDropped ==
  ASSUME AreHands(hand), NEW p \in Procs, DropHand(p)
  PROVE  AreHands(hand') /\ hand'[p] = EmptyHand /\ \A q \in Procs : q # p => hand'[q] = hand[q]
BY DEF AreHands, DropHand, EmptyHand

\* A temporary file has been named, for one or for two.
LEMMA TemporaryNamed ==
  ASSUME AreHands(hand), NEW p \in Procs, NEW from, NEW to, NameTemporary(p, from, to)
  PROVE  /\ AreHands(hand')
         /\ \A q \in Procs : hand'[q].content = hand[q].content /\ hand'[q].got = hand[q].got
         /\ \A q \in Procs : hand'[q] = hand[q] \/ hand'[q].shared
         /\ \A q \in Procs : hand[q].shared => hand'[q].shared
         /\ \A q \in Procs \ {p} : hand'[q] = hand[q] \/ pc[q] = to
<1>1. CASE UNCHANGED hand
  BY <1>1
<1>2. ASSUME NEW o \in Procs \ {p}, pc[o] = to,
             hand' = [hand EXCEPT ![p].shared = TRUE, ![o].shared = TRUE]
      PROVE  /\ AreHands(hand')
             /\ \A q \in Procs : hand'[q].content = hand[q].content /\ hand'[q].got = hand[q].got
             /\ hand'[p].shared /\ hand'[o].shared
             /\ \A q \in Procs \ {p, o} : hand'[q] = hand[q]
  BY <1>2 DEF AreHands
<1>3. CASE \E o \in Procs \ {p} : pc[o] = to /\ hand' = [hand EXCEPT ![p].shared = TRUE, ![o].shared = TRUE]
  BY <1>2, <1>3
<1> QED BY <1>1, <1>3 DEF NameTemporary

\* At first no process holds anything.
LEMMA NoHands == hand = [p \in Procs |-> EmptyHand] => AreHands(hand)
BY DEF AreHands, EmptyHand

\* What OpenBlob and CopyBlob do to other publishers
LEMMA SoundStays ==
  ASSUME PublishInv, NEW p \in Procs, OpenBlob(p) \/ CopyBlob(p)
  PROVE  /\ \A c \in Contents : Sound(c) => Sound(c)'
         /\ \A c \in Contents : blob[c] # Absent => blob'[c] # Absent
         /\ blob' \in [Contents -> Contents \cup {Absent, Torn}]
<1>1. hand[p].content \in Contents
  BY DEF PublishInv, PublishPlaces, OpenBlob, CopyBlob, Step
<1>2. CASE OpenBlob(p)
  BY <1>1, <1>2, ContentsAssumption, ProcessesAssumption DEF OpenBlob, Sound, PublishInv
<1>3. CASE CopyBlob(p)
  <2>1. blob \in [Contents -> Contents \cup {Absent, Torn}] /\ UNCHANGED mixed
    BY <1>3 DEF PublishInv, CopyBlob
  <2>2. CASE blob' = [blob EXCEPT ![hand[p].content] = hand[p].content] /\ reopened \ {hand[p].content} \subseteq reopened'
    BY <1>1, <2>1, <2>2, ContentsAssumption DEF Sound
  <2>3. CASE UNCHANGED <<blob, reopened>>
    BY <2>1, <2>3 DEF Sound
  <2>4. CASE /\ hand[p].content \in mixed /\ UNCHANGED reopened
             /\ \E b \in Contents \cup {Torn} : blob' = [blob EXCEPT ![hand[p].content] = b]
    <3>1. PICK b \in Contents \cup {Torn} : blob' = [blob EXCEPT ![hand[p].content] = b]
      BY <2>4
    <3> QED BY <1>1, <2>1, <2>4, <3>1, ContentsAssumption, ProcessesAssumption DEF Sound
  <2> QED BY <1>3, <2>2, <2>3, <2>4 DEF CopyBlob
<1> QED BY <1>2, <1>3

LEMMA PublishKept == PublishInv /\ [ToolchainNext]_toolchainVars => PublishInv'
<1> SUFFICES ASSUME PublishInv, [ToolchainNext]_toolchainVars PROVE PublishInv'
  OBVIOUS
<1>1. CASE UNCHANGED toolchainVars
  BY <1>1 DEF toolchainVars, procVars, registryVars, PublishInv, Sound
<1>2. ASSUME NEW p \in Procs, Compiles(p) PROVE PublishInv'
  <2>1. PICK place \in CompilePlaces : pc' = [pc EXCEPT ![p] = place]
    BY <1>2, CompileMoves DEF Compiles, ComesTo
  <2>2. place \notin PublishPlaces
    BY <2>1 DEF CompilePlaces, PublishPlaces
  <2>3. UNCHANGED registryVars /\ AreHands(hand)
    BY <1>2 DEF Compiles, PublishInv
  <2> QED BY <2>1, <2>2, <2>3, PublishUntouched DEF registryVars
<1>3. ASSUME NEW p \in Procs, LoadsBlock(p) PROVE PublishInv'
  <2>1. PICK place \in LoadPlaces : pc' = [pc EXCEPT ![p] = place]
    BY <1>3, CacheMoves DEF LoadsBlock, ComesTo
  <2>2. place \notin PublishPlaces
    BY <2>1 DEF LoadPlaces, PublishPlaces
  <2>3. UNCHANGED registryVars /\ AreHands(hand)
    BY <1>3 DEF LoadsBlock, PublishInv
  <2> QED BY <2>1, <2>2, <2>3, PublishUntouched DEF registryVars
<1>4. ASSUME NEW p \in Procs, Killed(p) PROVE PublishInv'
  <2>1. pc' = [pc EXCEPT ![p] = "idle"] /\ "idle" \notin PublishPlaces
    BY <1>4 DEF Killed, Kill, Goto, PublishPlaces
  <2> QED BY <1>4, <2>1, HandDropped, PublishUntouched DEF Killed, PublishInv
<1>5. ASSUME NEW p \in Procs, RegistryStep(p) PROVE PublishInv'
  <2>0. DOMAIN pc = Procs /\ DOMAIN hand = Procs
    BY DEF PublishInv, AreHands
  <2>1. CASE StartPublish(p) \/ StartFetch(p) \/ FetchMarker(p)
    <3>1. PICK place \in {"publish", "fetch marker", "fetch entry", "idle"} : pc' = [pc EXCEPT ![p] = place]
      BY <2>1 DEF StartPublish, StartFetch, FetchMarker, Begin, Step, Goto
    <3>2. place \notin PublishPlaces
      BY <3>1 DEF PublishPlaces
    <3>3. UNCHANGED registryVars
      BY <2>1 DEF StartPublish, StartFetch, FetchMarker
    <3> QED BY <3>1, <3>2, <3>3, PublishUntouched DEF registryVars, PublishInv
  <2>a. CASE NameArchive(p) \/ NameBlob(p) \/ NameTree(p)
    <3>1. PICK from \in {"archive", "fetch blob", "extract"}, to \in {"tar", "download", "install"} :
            NameTemporary(p, from, to)
      BY <2>a DEF NameArchive, NameBlob, NameTree
    <3>2. pc' = [pc EXCEPT ![p] = to] /\ to \notin PublishPlaces /\ UNCHANGED <<entry, blob, last, reopened, mixed>>
      BY <3>1 DEF NameTemporary, Step, Goto, PublishPlaces
    <3> QED BY <3>1, <3>2, TemporaryNamed, PublishUntouched DEF PublishInv
  <2>2. CASE EnsureWritable(p) \/ OpenMarker(p) \/ WriteMarker(p)
    <3>1. PICK place \in {"open marker", "write marker", "archive", "idle"} : pc' = [pc EXCEPT ![p] = place]
      BY <2>2 DEF EnsureWritable, OpenMarker, WriteMarker, Step, Goto, Leave
    <3>2. place \notin PublishPlaces
      BY <3>1 DEF PublishPlaces
    <3>3. UNCHANGED <<entry, blob, last, reopened, mixed>> /\ (UNCHANGED hand \/ DropHand(p))
      BY <2>2 DEF EnsureWritable, OpenMarker, WriteMarker, Leave
    <3>4. AreHands(hand') /\ \A q \in Procs : q # p => hand'[q] = hand[q]
      BY <3>3, HandDropped DEF PublishInv
    <3> QED BY <3>1, <3>2, <3>3, <3>4, PublishUntouched
  <2>3. CASE FetchEntry(p) \/ FetchBlob(p) \/ Verify(p)
    <3>1. PICK place \in {"fetch blob", "verify", "extract", "idle"} : pc' = [pc EXCEPT ![p] = place]
      BY <2>3 DEF FetchEntry, FetchBlob, Verify, Goto, Leave
    <3>2. place \notin PublishPlaces
      BY <3>1 DEF PublishPlaces
    <3>3. UNCHANGED <<entry, blob, last, reopened, mixed>>
      BY <2>3 DEF FetchEntry, FetchBlob, Verify
    <3>4. \/ UNCHANGED hand \/ DropHand(p)
          \/ hand' = [hand EXCEPT ![p].content = entry]
          \/ \E f : hand' = [hand EXCEPT ![p].got = f]
      BY <2>3 DEF FetchEntry, FetchBlob, Verify, Leave
    <3>5. AreHands(hand') /\ \A q \in Procs : q # p => hand'[q] = hand[q]
      <4>1. CASE UNCHANGED hand \/ DropHand(p)
        BY <4>1, HandDropped DEF PublishInv
      <4>2. CASE hand' = [hand EXCEPT ![p].content = entry]
        BY <4>2 DEF PublishInv, AreHands
      <4>3. CASE \E f : hand' = [hand EXCEPT ![p].got = f]
        BY <4>3 DEF PublishInv, AreHands
      <4> QED BY <3>4, <4>1, <4>2, <4>3
    <3> QED BY <3>1, <3>2, <3>3, <3>5, PublishUntouched
  <2>4. CASE Install(p) \/ CopyFiles(p) \/ OpenPackageReceipt(p) \/ WritePackageReceipt(p)
    <3>1. PICK place \in {"copy files", "open package receipt", "write package receipt", "idle"} :
            pc' = [pc EXCEPT ![p] = place]
      BY <2>4 DEF Install, CopyFiles, OpenPackageReceipt, WritePackageReceipt, Step, Goto, Leave
    <3>2. place \notin PublishPlaces
      BY <3>1 DEF PublishPlaces
    <3>3. UNCHANGED <<entry, blob, last, reopened, mixed>> /\ (UNCHANGED hand \/ DropHand(p))
      BY <2>4 DEF Install, CopyFiles, OpenPackageReceipt, WritePackageReceipt, Leave
    <3>4. AreHands(hand') /\ \A q \in Procs : q # p => hand'[q] = hand[q]
      BY <3>3, HandDropped DEF PublishInv
    <3> QED BY <3>1, <3>2, <3>3, <3>4, PublishUntouched
  <2>5. CASE Archive(p)
    <3>1. PICK c \in Contents : hand' = [hand EXCEPT ![p].content = c]
      BY <2>5 DEF Archive
    <3>2. pc' = [pc EXCEPT ![p] = "open blob"] /\ UNCHANGED <<entry, blob, last, reopened, mixed>>
      BY <2>5 DEF Archive, Step, Goto
    <3>3. \A q \in Procs : q # p => pc'[q] = pc[q] /\ hand'[q] = hand[q]
      BY <3>1, <3>2, <2>0
    <3>4. pc'[p] = "open blob" /\ DOMAIN pc' = Procs
      BY <3>2, <2>0
    <3>5. AreHands(hand') /\ hand'[p].content = c
      BY <3>1 DEF PublishInv, AreHands
    <3> QED BY <3>2, <3>3, <3>4, <3>5 DEF PublishInv, Sound, PublishPlaces
  <2>6. CASE OpenBlob(p)
    <3> DEFINE c == hand[p].content
    <3>1. c \in Contents /\ pc[p] = "open blob"
      BY <2>6 DEF PublishInv, PublishPlaces, OpenBlob, Step
    <3>2. pc' = [pc EXCEPT ![p] = "copy blob"] /\ UNCHANGED <<entry, hand>>
      BY <2>6 DEF OpenBlob, Step, Goto
    <3>3. last' = [last EXCEPT ![c] = p] /\ blob' = [blob EXCEPT ![c] = Torn]
      BY <2>6 DEF OpenBlob
    <3>4. blob'[c] # Absent /\ last'[c] = p
      BY <3>1, <3>3, ProcessesAssumption DEF PublishInv
    <3>5. ASSUME NEW q \in Procs, q # p, pc[q] = "copy blob"
          PROVE  last'[hand[q].content] = q \/ Sound(hand[q].content)'
      <4>1. hand[q].content \in Contents /\ blob[hand[q].content] # Absent
        BY <3>5 DEF PublishInv, PublishPlaces
      <4>2. CASE hand[q].content = c
        BY <2>6, <4>1, <4>2 DEF OpenBlob, Sound
      <4>3. CASE hand[q].content # c
        <5>1. last'[hand[q].content] = last[hand[q].content]
          BY <3>3, <4>1, <4>3 DEF PublishInv
        <5>2. last[hand[q].content] = q \/ Sound(hand[q].content)
          BY <3>5 DEF PublishInv
        <5>3. Sound(hand[q].content) => Sound(hand[q].content)'
          BY <3>2, <4>1, <2>6, SoundStays DEF Sound
        <5> QED BY <5>1, <5>2, <5>3
      <4> QED BY <4>2, <4>3
    <3>6. \A q \in Procs : q # p => pc'[q] = pc[q]
      BY <3>2, <2>0
    <3>7. pc'[p] = "copy blob" /\ DOMAIN pc' = Procs /\ DOMAIN last' = Contents
      BY <3>2, <3>3, <2>0 DEF PublishInv
    <3>8. entry' \in Contents => Sound(entry)'
      BY <3>2, <2>6, SoundStays DEF PublishInv, Sound
    <3>9. ASSUME NEW q \in Procs, pc'[q] \in {"open entry", "write entry"} PROVE Sound(hand[q].content)'
      <4>1. q # p /\ pc[q] = pc'[q]
        BY <3>6, <3>7, <3>9
      <4>2. hand[q].content \in Contents /\ Sound(hand[q].content)
        BY <3>9, <4>1 DEF PublishInv, PublishPlaces
      <4> QED BY <3>2, <4>2, <2>6, SoundStays DEF Sound
    <3>10. ASSUME NEW q \in Procs, pc'[q] \in PublishPlaces PROVE hand[q].content \in Contents
      BY <3>1, <3>6, <3>10 DEF PublishInv
    <3>11. ASSUME NEW q \in Procs, pc'[q] = "copy blob"
           PROVE  /\ blob'[hand[q].content] # Absent
                  /\ last'[hand[q].content] = q \/ Sound(hand[q].content)'
      <4>1. CASE q = p
        BY <4>1, <3>4
      <4>2. CASE q # p
        BY <4>2, <3>5, <3>6, <3>11, <2>6, SoundStays DEF PublishInv, PublishPlaces
      <4> QED BY <4>1, <4>2
    <3>12. blob' \in [Contents -> Contents \cup {Absent, Torn}]
      BY <2>6, SoundStays
    <3> QED BY <3>2, <3>7, <3>8, <3>9, <3>10, <3>11, <3>12 DEF PublishInv, Sound
  <2>7. CASE CopyBlob(p)
    <3> DEFINE c == hand[p].content
    <3>1. c \in Contents /\ pc[p] = "copy blob" /\ (last[c] = p \/ Sound(c))
      BY <2>7 DEF PublishInv, PublishPlaces, CopyBlob
    <3>2. UNCHANGED <<entry, last>>
      BY <2>7 DEF CopyBlob
    <3>3. \/ Leave(p) /\ UNCHANGED <<blob, reopened>>
          \/ Goto(p, "open entry") /\ UNCHANGED hand /\ Sound(c)'
      <4>1. CASE last[c] = p /\ Goto(p, "open entry") /\ blob' = [blob EXCEPT ![c] = c] /\ UNCHANGED hand
        BY <4>1, <3>1 DEF Sound, PublishInv
      <4>2. CASE last[c] # p /\ Goto(p, "open entry") /\ UNCHANGED <<reopened, hand>>
        BY <4>2, <3>1, <2>7, SoundStays DEF Sound
      <4>3. CASE c \in mixed /\ Goto(p, "open entry") /\ UNCHANGED hand
        <5>1. mixed' = mixed
          BY <2>7 DEF CopyBlob
        <5> QED BY <4>3, <5>1 DEF Sound
      <4> QED BY <2>7, <4>1, <4>2, <4>3 DEF CopyBlob
    <3>4. PICK place \in {"idle", "open entry"} : pc' = [pc EXCEPT ![p] = place]
      BY <3>3 DEF Leave, Goto
    <3>5. \A q \in Procs : q # p => pc'[q] = pc[q]
      BY <3>4, <2>0
    <3>6. pc'[p] = place /\ DOMAIN pc' = Procs
      BY <3>4, <2>0 DEF PublishInv
    <3>7. AreHands(hand') /\ \A q \in Procs : q # p => hand'[q] = hand[q]
      BY <3>3, HandDropped DEF Leave, PublishInv
    <3>8. place = "open entry" => UNCHANGED hand /\ Sound(c)'
      BY <3>3, <3>6, <2>0 DEF Leave, Goto
    <3>9. entry' \in Contents => Sound(entry)'
      BY <3>2, <2>7, SoundStays DEF PublishInv, Sound
    <3>10. ASSUME NEW q \in Procs, pc'[q] \in PublishPlaces
           PROVE  /\ hand'[q].content \in Contents
                  /\ pc'[q] = "copy blob" =>
                       /\ blob'[hand'[q].content] # Absent
                       /\ last'[hand'[q].content] = q \/ Sound(hand[q].content)' 
                  /\ pc'[q] \in {"open entry", "write entry"} => Sound(hand[q].content)'
      <4>1. CASE q = p
        BY <4>1, <3>1, <3>6, <3>8, <3>10, <3>4 DEF PublishPlaces
      <4>2. CASE q # p
        BY <4>2, <3>2, <3>5, <3>7, <3>10, <2>7, SoundStays DEF PublishInv, PublishPlaces, Sound
      <4> QED BY <4>1, <4>2
    <3>11. blob' \in [Contents -> Contents \cup {Absent, Torn}]
      BY <2>7, SoundStays
    <3> QED BY <3>2, <3>6, <3>7, <3>9, <3>10, <3>11 DEF PublishInv, Sound, PublishPlaces
  <2>8. CASE OpenEntry(p)
    <3>1. pc[p] = "open entry" /\ pc' = [pc EXCEPT ![p] = "write entry"] /\ entry' = Torn
          /\ UNCHANGED <<blob, last, reopened, mixed, hand>>
      BY <2>8 DEF OpenEntry, Step, Goto
    <3>2. \A q \in Procs : pc'[q] = pc[q] \/ (q = p /\ pc'[q] = "write entry")
      BY <3>1, <2>0
    <3>3. DOMAIN pc' = Procs /\ \A x : Sound(x)' <=> Sound(x)
      BY <3>1 DEF PublishInv, Sound
    <3> QED BY <3>1, <3>2, <3>3, ContentsAssumption DEF PublishInv, PublishPlaces
  <2>9. CASE WriteEntry(p)
    <3>1. pc' = [pc EXCEPT ![p] = "idle"] /\ DropHand(p) /\ UNCHANGED <<blob, last, reopened, mixed>>
      BY <2>9 DEF WriteEntry, Leave, Goto
    <3>2. Sound(hand[p].content) /\ entry' \in {hand[p].content, Torn, entry}
      BY <2>9 DEF WriteEntry, PublishInv
    <3>3. AreHands(hand') /\ \A q \in Procs : q # p => hand'[q] = hand[q]
      BY <3>1, HandDropped DEF PublishInv
    <3>4. DOMAIN pc' = Procs /\ \A x : Sound(x)' <=> Sound(x)
      BY <3>1 DEF PublishInv, Sound
    <3>5. \A q \in Procs : (q # p /\ pc'[q] = pc[q]) \/ pc'[q] \notin PublishPlaces
      BY <3>1, <2>0 DEF PublishPlaces
    <3>6. entry' \in Contents => Sound(entry')
      BY <3>2, ContentsAssumption DEF PublishInv
    <3> QED BY <3>1, <3>3, <3>4, <3>5, <3>6 DEF PublishInv, PublishPlaces
  <2> QED BY <1>5, <2>1, <2>a, <2>2, <2>3, <2>4, <2>5, <2>6, <2>7, <2>8, <2>9 DEF RegistryStep
<1> QED BY <1>1, <1>2, <1>3, <1>4, <1>5 DEF ToolchainNext, UsesRegistry

\* An index entry names a blob that is complete, being truncated again or copied
\* from a shared archive, wherever publishers are killed and however many overlap
\* (styio_publish_nano_package_latest, main.cpp:2984).
THEOREM EntryAlwaysNamesBlob == ToolchainSpec => []EntryNamesBlob
<1>1. ToolchainInit => PublishInv
  BY ContentsAssumption, NoHands DEF ToolchainInit, ProcInit, RegistryInit, PublishInv, PublishPlaces
<1>2. PublishInv => EntryNamesBlob
  BY DEF PublishInv, Sound, EntryNamesBlob
<1> QED BY <1>1, <1>2, PublishKept, PTL DEF ToolchainSpec
-----------------------------------------------------------------------------
(***************************************************************************)
(* Installations.  A process has verified what it installs, and counts as  *)
(* cut off until it has written the receipt, the last thing it does.       *)
(***************************************************************************)
CopyPlaces == {"copy files", "open package receipt", "write package receipt"}
InstallPlaces == CopyPlaces \cup {"extract", "install"}

InstalledBy(p) ==
  /\ pc[p] \in InstallPlaces => hand[p].got = hand[p].content
  /\ pc[p] \in CopyPlaces => p \in damaged
  /\ pc[p] \in {"open package receipt", "write package receipt"} => hand[p].shared \/ out[p].files = hand[p].got
  /\ pc[p] = "write package receipt" => out[p].receipt = Torn
  /\ out[p].receipt \in Contents /\ p \notin damaged => out[p].files = out[p].receipt

InstallInv ==
  /\ DOMAIN pc = Procs /\ AreHands(hand)
  /\ DOMAIN out = Procs
  /\ \A p \in Procs : out[p] = [files |-> out[p].files, receipt |-> out[p].receipt]
  /\ \A p \in Procs : InstalledBy(p)

\* It is enough to look at the process that takes the step.
LEMMA InstallLocal ==
  ASSUME InstallInv, NEW p \in Procs, NEW place, pc' = [pc EXCEPT ![p] = place],
         AreHands(hand'), \A q \in Procs : q # p => hand'[q] = hand[q],
         DOMAIN out' = Procs, \A q \in Procs : q # p => out'[q] = out[q],
         out'[p] = [files |-> out'[p].files, receipt |-> out'[p].receipt],
         \A q \in Procs : q # p => (q \in damaged' <=> q \in damaged),
         InstalledBy(p)'
  PROVE  InstallInv'
<1>1. DOMAIN pc' = Procs /\ \A q \in Procs : q # p => pc'[q] = pc[q]
  BY DEF InstallInv
<1>2. ASSUME NEW q \in Procs, q # p PROVE InstalledBy(q)'
  BY ZenonT(60), <1>1, <1>2 DEF InstallInv, InstalledBy
<1>3. \A q \in Procs : out'[q] = [files |-> out'[q].files, receipt |-> out'[q].receipt]
  BY DEF InstallInv
<1> QED BY <1>1, <1>2, <1>3 DEF InstallInv

\* A process that does something else
LEMMA InstallUntouched ==
  ASSUME InstallInv, NEW p \in Procs, NEW place, place \notin InstallPlaces,
         pc' = [pc EXCEPT ![p] = place], UNCHANGED <<damaged, out>>,
         AreHands(hand'), \A q \in Procs : q # p => hand'[q] = hand[q]
  PROVE  InstallInv'
<1>1. pc'[p] = place
  BY DEF InstallInv
<1>2. InstalledBy(p)'
  BY <1>1 DEF InstallInv, InstalledBy, InstallPlaces, CopyPlaces
<1> QED BY <1>2, InstallLocal DEF InstallInv

\* A temporary file has been named: the one of another may be shared now.
LEMMA NamedKept ==
  ASSUME InstallInv, NEW p \in Procs, NEW from, NEW to \in {"tar", "download", "install"},
         to = "install" => from = "extract", NameTemporary(p, from, to)
  PROVE  InstallInv'
<1>1. /\ AreHands(hand') /\ UNCHANGED <<damaged, out>>
      /\ \A q \in Procs : hand'[q].content = hand[q].content /\ hand'[q].got = hand[q].got
      /\ \A q \in Procs : hand[q].shared => hand'[q].shared
  BY TemporaryNamed DEF InstallInv, NameTemporary
<1>2. DOMAIN pc' = Procs /\ pc[p] = from /\ pc'[p] = to /\ \A q \in Procs : q # p => pc'[q] = pc[q]
  BY DEF InstallInv, NameTemporary, Step, Goto
<1>3. ASSUME NEW q \in Procs PROVE InstalledBy(q)'
  <2>1. InstalledBy(q)
    BY DEF InstallInv
  <2>2. CASE q # p
    BY <1>1, <1>2, <2>1, <2>2 DEF InstalledBy
  <2>3. CASE q = p
    BY <1>1, <1>2, <2>1, <2>3 DEF InstalledBy, InstallPlaces, CopyPlaces
  <2> QED BY <2>2, <2>3
<1> QED BY <1>1, <1>2, <1>3 DEF InstallInv

LEMMA InstallKept == InstallInv /\ [ToolchainNext]_toolchainVars => InstallInv'
<1> SUFFICES ASSUME InstallInv, [ToolchainNext]_toolchainVars PROVE InstallInv'
  OBVIOUS
<1>1. CASE UNCHANGED toolchainVars
  BY <1>1 DEF toolchainVars, procVars, registryVars, InstallInv, InstalledBy
<1>2. ASSUME NEW p \in Procs, Compiles(p) PROVE InstallInv'
  <2>1. PICK place \in CompilePlaces : pc' = [pc EXCEPT ![p] = place]
    BY <1>2, CompileMoves DEF Compiles, ComesTo
  <2>2. place \notin InstallPlaces
    BY <2>1 DEF CompilePlaces, InstallPlaces, CopyPlaces
  <2>3. UNCHANGED registryVars /\ AreHands(hand)
    BY <1>2 DEF Compiles, InstallInv
  <2> QED BY <2>1, <2>2, <2>3, InstallUntouched DEF registryVars
<1>3. ASSUME NEW p \in Procs, LoadsBlock(p) PROVE InstallInv'
  <2>1. PICK place \in LoadPlaces : pc' = [pc EXCEPT ![p] = place]
    BY <1>3, CacheMoves DEF LoadsBlock, ComesTo
  <2>2. place \notin InstallPlaces
    BY <2>1 DEF LoadPlaces, InstallPlaces, CopyPlaces
  <2>3. UNCHANGED registryVars /\ AreHands(hand)
    BY <1>3 DEF LoadsBlock, InstallInv
  <2> QED BY <2>1, <2>2, <2>3, InstallUntouched DEF registryVars
<1>4. ASSUME NEW p \in Procs, Killed(p) PROVE InstallInv'
  <2>1. pc' = [pc EXCEPT ![p] = "idle"] /\ "idle" \notin InstallPlaces
    BY <1>4 DEF Killed, Kill, Goto, InstallPlaces, CopyPlaces
  <2> QED BY <1>4, <2>1, HandDropped, InstallUntouched DEF Killed, InstallInv
<1>5. ASSUME NEW p \in Procs, RegistryStep(p) PROVE InstallInv'
  <2>0. DOMAIN pc = Procs /\ DOMAIN hand = Procs /\ AreHands(hand) /\ InstalledBy(p)
        /\ DOMAIN out = Procs /\ out[p] = [files |-> out[p].files, receipt |-> out[p].receipt]
    BY DEF InstallInv, AreHands
  <2>1. CASE StartPublish(p) \/ StartFetch(p) \/ FetchMarker(p)
    <3>1. PICK place \in {"publish", "fetch marker", "fetch entry", "idle"} : pc' = [pc EXCEPT ![p] = place]
      BY <2>1 DEF StartPublish, StartFetch, FetchMarker, Begin, Step, Goto
    <3>2. place \notin InstallPlaces
      BY <3>1 DEF InstallPlaces, CopyPlaces
    <3>3. UNCHANGED registryVars
      BY <2>1 DEF StartPublish, StartFetch, FetchMarker
    <3> QED BY <2>0, <3>1, <3>2, <3>3, InstallUntouched DEF registryVars
  <2>a. CASE NameArchive(p) \/ NameBlob(p) \/ NameTree(p)
    <3>1. PICK from \in {"archive", "fetch blob", "extract"}, to \in {"tar", "download", "install"} :
            NameTemporary(p, from, to) /\ (to = "install" => from = "extract")
      BY <2>a DEF NameArchive, NameBlob, NameTree
    <3> QED BY <3>1, NamedKept
  <2>2. CASE EnsureWritable(p) \/ OpenMarker(p) \/ WriteMarker(p) \/ OpenEntry(p) \/ WriteEntry(p)
    <3>1. PICK place \in {"open marker", "write marker", "archive", "write entry", "idle"} : pc' = [pc EXCEPT ![p] = place]
      BY <2>2 DEF EnsureWritable, OpenMarker, WriteMarker, OpenEntry, WriteEntry, Step, Goto, Leave
    <3>2. place \notin InstallPlaces
      BY <3>1 DEF InstallPlaces, CopyPlaces
    <3>3. UNCHANGED <<damaged, out>> /\ (UNCHANGED hand \/ DropHand(p))
      BY <2>2 DEF EnsureWritable, OpenMarker, WriteMarker, OpenEntry, WriteEntry, Leave
    <3>4. AreHands(hand') /\ \A q \in Procs : q # p => hand'[q] = hand[q]
      BY <2>0, <3>3, HandDropped
    <3> QED BY <3>1, <3>2, <3>3, <3>4, InstallUntouched
  <2>3. CASE Archive(p) \/ OpenBlob(p) \/ CopyBlob(p)
    <3>1. PICK place \in {"open blob", "copy blob", "open entry", "idle"} : pc' = [pc EXCEPT ![p] = place]
      BY <2>3 DEF Archive, OpenBlob, CopyBlob, Step, Goto, Leave
    <3>2. place \notin InstallPlaces
      BY <3>1 DEF InstallPlaces, CopyPlaces
    <3>3. UNCHANGED <<damaged, out>>
      BY <2>3 DEF Archive, OpenBlob, CopyBlob
    <3>4. UNCHANGED hand \/ DropHand(p) \/ \E c : hand' = [hand EXCEPT ![p].content = c]
      BY <2>3 DEF Archive, OpenBlob, CopyBlob, Leave
    <3>5. AreHands(hand') /\ \A q \in Procs : q # p => hand'[q] = hand[q]
      BY <2>0, <3>4, HandDropped DEF AreHands
    <3> QED BY <3>1, <3>2, <3>3, <3>5, InstallUntouched
  <2>4. CASE FetchEntry(p) \/ FetchBlob(p)
    <3>1. PICK place \in {"fetch blob", "verify", "idle"} : pc' = [pc EXCEPT ![p] = place]
      BY <2>4 DEF FetchEntry, FetchBlob, Goto, Leave
    <3>2. place \notin InstallPlaces
      BY <3>1 DEF InstallPlaces, CopyPlaces
    <3>3. UNCHANGED <<damaged, out>>
      BY <2>4 DEF FetchEntry, FetchBlob
    <3>4. \/ UNCHANGED hand \/ DropHand(p)
          \/ \E c : hand' = [hand EXCEPT ![p].content = c]
          \/ \E c : hand' = [hand EXCEPT ![p].got = c]
      BY <2>4 DEF FetchEntry, FetchBlob, Leave
    <3>5. AreHands(hand') /\ \A q \in Procs : q # p => hand'[q] = hand[q]
      BY <2>0, <3>4, HandDropped DEF AreHands
    <3> QED BY <3>1, <3>2, <3>3, <3>5, InstallUntouched
  <2>5. CASE Verify(p)
    <3>1. CASE hand[p].got = hand[p].content /\ Goto(p, "extract") /\ UNCHANGED hand
      <4>1. pc' = [pc EXCEPT ![p] = "extract"] /\ pc'[p] = "extract" /\ UNCHANGED <<damaged, out>>
        BY <2>0, <2>5, <3>1 DEF Verify, Goto
      <4>2. InstalledBy(p)'
        BY <2>0, <3>1, <4>1 DEF InstalledBy, InstallPlaces, CopyPlaces
      <4> QED BY <2>0, <3>1, <4>1, <4>2, InstallLocal
    <3>2. CASE Leave(p)
      <4>1. pc' = [pc EXCEPT ![p] = "idle"] /\ "idle" \notin InstallPlaces /\ UNCHANGED <<damaged, out>>
        BY <2>5, <3>2 DEF Verify, Leave, Goto, InstallPlaces, CopyPlaces
      <4> QED BY <2>0, <3>2, <4>1, HandDropped, InstallUntouched DEF Leave
    <3> QED BY <2>5, <3>1, <3>2 DEF Verify
  <2>6. CASE Install(p)
    <3>1. pc[p] = "install" /\ pc' = [pc EXCEPT ![p] = "copy files"] /\ pc'[p] = "copy files"
          /\ UNCHANGED hand /\ damaged' = damaged \cup {p}
      BY <2>0, <2>6 DEF Install, Step, Goto
    <3>2. PICK installed \in {[out[p] EXCEPT !.files = Torn], [out[p] EXCEPT !.files = Torn, !.receipt = Torn]} :
            out' = [out EXCEPT ![p] = installed]
      BY <2>6 DEF Install
    <3>3. out'[p] = installed /\ DOMAIN out' = Procs /\ \A q \in Procs : q # p => out'[q] = out[q]
      BY <3>2, <2>0
    <3>4. out'[p] = [files |-> out'[p].files, receipt |-> out'[p].receipt]
      BY <3>2, <3>3, <2>0
    <3>5. InstalledBy(p)'
      BY <2>0, <3>1 DEF InstalledBy, InstallPlaces, CopyPlaces
    <3> QED BY <2>0, <3>1, <3>3, <3>4, <3>5, InstallLocal
  <2>7. CASE CopyFiles(p)
    <3>1. ASSUME NEW f \in Found(p, hand[p].got), Goto(p, "open package receipt"), UNCHANGED hand,
                 out' = [out EXCEPT ![p].files = f]
          PROVE  InstallInv'
      <4>1. /\ pc' = [pc EXCEPT ![p] = "open package receipt"] /\ pc'[p] = "open package receipt"
            /\ pc[p] = "copy files" /\ UNCHANGED damaged
        BY <2>0, <2>7, <3>1 DEF CopyFiles, Goto
      <4>2. out'[p] = [files |-> f, receipt |-> out[p].receipt]
            /\ DOMAIN out' = Procs /\ \A q \in Procs : q # p => out'[q] = out[q]
        BY <3>1, <2>0
      <4>3. hand[p].shared \/ f = hand[p].got
        BY <3>1 DEF Found
      <4>4. InstalledBy(p)'
        BY <2>0, <3>1, <4>1, <4>2, <4>3 DEF InstalledBy, InstallPlaces, CopyPlaces
      <4> QED BY <2>0, <3>1, <4>1, <4>2, <4>4, InstallLocal
    <3>2. CASE Leave(p) /\ UNCHANGED out
      <4>1. pc' = [pc EXCEPT ![p] = "idle"] /\ "idle" \notin InstallPlaces /\ UNCHANGED <<damaged, out>>
        BY <2>7, <3>2 DEF CopyFiles, Leave, Goto, InstallPlaces, CopyPlaces
      <4> QED BY <2>0, <3>2, <4>1, HandDropped, InstallUntouched DEF Leave
    <3> QED BY <2>7, <3>1, <3>2 DEF CopyFiles
  <2>8. CASE OpenPackageReceipt(p)
    <3>1. /\ pc' = [pc EXCEPT ![p] = "write package receipt"] /\ pc'[p] = "write package receipt"
          /\ pc[p] = "open package receipt" /\ UNCHANGED <<hand, damaged>>
      BY <2>0, <2>8 DEF OpenPackageReceipt, Step, Goto
    <3>2. out'[p] = [files |-> out[p].files, receipt |-> Torn]
          /\ DOMAIN out' = Procs /\ \A q \in Procs : q # p => out'[q] = out[q]
      BY <2>8, <2>0 DEF OpenPackageReceipt
    <3>3. (hand[p].shared \/ out[p].files = hand[p].got) /\ hand[p].got = hand[p].content /\ p \in damaged
      BY <2>0, <3>1 DEF InstalledBy, InstallPlaces, CopyPlaces
    <3>4. out'[p].receipt = Torn /\ (hand[p].shared \/ out'[p].files = hand[p].got)
      BY <3>2, <3>3
    <3>5. InstalledBy(p)'
      BY <3>1, <3>3, <3>4 DEF InstalledBy, InstallPlaces, CopyPlaces
    <3> QED BY <2>0, <3>1, <3>2, <3>5, InstallLocal
  <2>9. CASE WritePackageReceipt(p)
    <3>1. /\ pc' = [pc EXCEPT ![p] = "idle"] /\ pc'[p] = "idle" /\ pc[p] = "write package receipt"
          /\ DropHand(p) /\ damaged' = IF hand[p].shared THEN damaged ELSE damaged \ {p}
      BY <2>0, <2>9 DEF WritePackageReceipt, Leave, Goto
    <3>2. PICK written \in {hand[p].content, Torn} : out'[p] = [files |-> out[p].files, receipt |-> written]
      BY <2>0, <2>9 DEF WritePackageReceipt, InstalledBy
    <3>3. DOMAIN out' = Procs /\ \A q \in Procs : q # p => out'[q] = out[q]
      BY <2>9, <2>0 DEF WritePackageReceipt
    <3>4. (hand[p].shared \/ out[p].files = hand[p].got) /\ hand[p].got = hand[p].content /\ p \in damaged
      BY <2>0, <3>1 DEF InstalledBy, InstallPlaces, CopyPlaces
    <3>5. out'[p].receipt \in Contents /\ p \notin damaged' => out'[p].files = out'[p].receipt
      <4>1. CASE hand[p].shared
        BY <3>1, <3>4, <4>1
      <4>2. CASE ~hand[p].shared
        BY <3>2, <3>4, <4>2, ContentsAssumption
      <4> QED BY <4>1, <4>2
    <3>6. InstalledBy(p)'
      BY <3>1, <3>5 DEF InstalledBy, InstallPlaces, CopyPlaces
    <3> QED BY <2>0, <3>1, <3>2, <3>3, <3>6, HandDropped, InstallLocal
  <2> QED BY <1>5, <2>1, <2>a, <2>2, <2>3, <2>4, <2>5, <2>6, <2>7, <2>8, <2>9 DEF RegistryStep
<1> QED BY <1>1, <1>2, <1>3, <1>4, <1>5 DEF ToolchainNext, UsesRegistry

\* A receipt names what is installed beside it, whatever blobs and entries were
\* torn when it was fetched (styio_create_nano_package_latest, main.cpp:2813),
\* unless the installer was cut off or another used its temporary files.
THEOREM InstalledAlwaysPublished == ToolchainSpec => []InstalledIsPublished
<1>1. ToolchainInit => InstallInv
  BY ContentsAssumption, NoHands DEF ToolchainInit, ProcInit, RegistryInit, InstallInv, InstalledBy,
     InstallPlaces, CopyPlaces
<1>2. InstallInv => InstalledIsPublished
  BY DEF InstallInv, InstalledBy, InstalledIsPublished
<1> QED BY <1>1, <1>2, InstallKept, PTL DEF ToolchainSpec
-----------------------------------------------------------------------------
(***************************************************************************)
(* The session.  Its phase follows from where the process is.              *)
(***************************************************************************)
LoweredPlaces == {"jit", "codegen", "codegen ready", "block"} \cup LoadPlaces

LegalPhases == {"Empty", "Tokenized", "Parsed", "Typed", "Lowered", "CodegenReady", "Executed", "Failed"}

IsPlan(m) == m = [phase |-> m.phase, intent |-> m.intent, testing |-> m.testing, success |-> m.success]

InPhase(p) ==
  /\ memory[p].phase \in LegalPhases
  /\ pc[p] \in {"setup", "source", "tokenize"} => memory[p].phase = "Empty"
  /\ pc[p] = "parse" => memory[p].phase = "Tokenized"
  /\ pc[p] \in {"shadow", "typecheck"} => memory[p].phase = "Parsed"
  /\ pc[p] = "lower" => memory[p].phase = "Typed"
  /\ pc[p] \in LoweredPlaces => memory[p].phase = "Lowered"
  /\ pc[p] \in {"artifact", "execute"} => memory[p].phase = "CodegenReady"

PhaseInv ==
  /\ DOMAIN pc = Procs /\ DOMAIN memory = Procs
  /\ \A p \in Procs : IsPlan(memory[p]) /\ InPhase(p)

\* It is enough to look at the process that takes the step.
LEMMA PhaseLocal ==
  ASSUME PhaseInv, NEW p \in Procs, NEW place, pc' = [pc EXCEPT ![p] = place],
         DOMAIN memory' = Procs, \A q \in Procs : q # p => memory'[q] = memory[q],
         IsPlan(memory'[p]), InPhase(p)'
  PROVE  PhaseInv'
<1>1. DOMAIN pc' = Procs /\ \A q \in Procs : q # p => pc'[q] = pc[q]
  BY DEF PhaseInv
<1>2. ASSUME NEW q \in Procs, q # p PROVE InPhase(q)'
  BY <1>1, <1>2 DEF PhaseInv, InPhase
<1>3. ASSUME NEW q \in Procs PROVE IsPlan(memory'[q])
  BY <1>1 DEF PhaseInv
<1> QED BY <1>1, <1>2, <1>3 DEF PhaseInv

\* A step that leads to a place where nothing else is asked of the phase
LEMMA PhaseFree ==
  ASSUME PhaseInv, NEW p \in Procs, NEW place \in RegistryPlaces \cup {"exit", "receipt", "flush receipt"},
         pc' = [pc EXCEPT ![p] = place],
         DOMAIN memory' = Procs, \A q \in Procs : q # p => memory'[q] = memory[q],
         IsPlan(memory'[p]), memory'[p].phase \in LegalPhases
  PROVE  PhaseInv'
<1>1. pc'[p] = place
  BY DEF PhaseInv
<1>2. place \notin {"setup", "source", "tokenize", "parse", "shadow", "typecheck", "lower", "artifact", "execute"}
      /\ place \notin LoweredPlaces
  BY DEF RegistryPlaces, LoweredPlaces, LoadPlaces
<1>3. InPhase(p)'
  BY <1>1, <1>2 DEF InPhase
<1> QED BY <1>3, PhaseLocal

\* A step that leads to a place in the phase that belongs to it
Reached(p, place, phase) ==
  /\ pc'[p] = place
  /\ DOMAIN memory' = Procs /\ \A q \in Procs : q # p => memory'[q] = memory[q]
  /\ IsPlan(memory'[p]) /\ memory'[p].phase = phase

LEMMA PhaseReached ==
  ASSUME PhaseInv, NEW p \in Procs, NEW place, NEW phase, pc' = [pc EXCEPT ![p] = place], Reached(p, place, phase),
         \/ place = "parse" /\ phase = "Tokenized"
         \/ place \in {"shadow", "typecheck"} /\ phase = "Parsed"
         \/ place = "lower" /\ phase = "Typed"
         \/ place \in {"jit", "codegen", "block", "codegen ready"} /\ phase = "Lowered"
         \/ place \in {"artifact", "execute"} /\ phase = "CodegenReady"
  PROVE  PhaseInv'
<1>1. InPhase(p)'
  BY DEF Reached, InPhase, LegalPhases, LoweredPlaces, LoadPlaces
<1> QED BY <1>1, PhaseLocal DEF Reached

\* What an action of the plan does to what the process keeps
LEMMA PlanChanges ==
  ASSUME PhaseInv, NEW p \in Procs
  PROVE  /\ Forget(p) => /\ DOMAIN memory' = Procs /\ \A q \in Procs : q # p => memory'[q] = memory[q]
                         /\ IsPlan(memory'[p]) /\ memory'[p].phase = "Empty"
         /\ \A before, new, after : Transition(p, before, new, after) =>
              /\ DOMAIN memory' = Procs /\ \A q \in Procs : q # p => memory'[q] = memory[q]
              /\ IsPlan(memory'[p]) /\ memory'[p].phase = new
<1>1. ASSUME Forget(p)
      PROVE  /\ DOMAIN memory' = Procs /\ \A q \in Procs : q # p => memory'[q] = memory[q]
             /\ IsPlan(memory'[p]) /\ memory'[p].phase = "Empty"
  BY <1>1 DEF Forget, NoPlan, Plan, PhaseInv, IsPlan
<1>2. ASSUME NEW before, NEW new, NEW after, Transition(p, before, new, after)
      PROVE  /\ DOMAIN memory' = Procs /\ \A q \in Procs : q # p => memory'[q] = memory[q]
             /\ IsPlan(memory'[p]) /\ memory'[p].phase = new
  <2>1. memory' = [memory EXCEPT ![p].phase = new, ![p].testing = FALSE]
    BY <1>2 DEF Transition
  <2>2. IsPlan(memory[p]) /\ DOMAIN memory = Procs
    BY DEF PhaseInv
  <2>3. memory'[p] = [phase |-> new, intent |-> memory[p].intent, testing |-> FALSE, success |-> memory[p].success]
    BY <2>1, <2>2 DEF IsPlan
  <2> QED BY <2>1, <2>2, <2>3 DEF IsPlan
<1> QED BY <1>1, <1>2

\* What the session allows where it is asked
LEMMA LegalCalls ==
  /\ AttachContext(AdoptTokens("Empty")) = "Tokenized"
  /\ AttachAst("Tokenized") = "Parsed"
  /\ MarkTypeChecked("Parsed") = "Typed"
  /\ AttachIr("Typed") = "Lowered"
  /\ MarkCodegenReady("Lowered") = "CodegenReady"
  /\ MarkExecuted("CodegenReady") = "Executed"
  /\ \A phase : phase # "Empty" => MarkFailed(phase) = "Failed"
BY DEF AttachContext, AdoptTokens, AttachAst, MarkTypeChecked, AttachIr, MarkCodegenReady, MarkExecuted, MarkFailed,
   Advance, TransitionTo, CanTransition, Rank

LEMMA PhaseKept == PhaseInv /\ [ToolchainNext]_toolchainVars => PhaseInv'
<1> SUFFICES ASSUME PhaseInv, [ToolchainNext]_toolchainVars PROVE PhaseInv'
  OBVIOUS
<1>0. DOMAIN pc = Procs /\ DOMAIN memory = Procs /\ \A p \in Procs : IsPlan(memory[p]) /\ memory[p].phase \in LegalPhases
  BY DEF PhaseInv, InPhase
<1>1. CASE UNCHANGED toolchainVars
  BY <1>1 DEF toolchainVars, procVars, compileVars, PhaseInv, InPhase
<1>2. ASSUME NEW p \in Procs, UsesRegistry(p) PROVE PhaseInv'
  <2>1. PICK place \in RegistryPlaces : pc' = [pc EXCEPT ![p] = place]
    BY <1>2, RegistryMoves DEF UsesRegistry, ComesTo
  <2>2. UNCHANGED memory
    BY <1>2 DEF UsesRegistry, compileVars
  <2> QED BY <1>0, <2>1, <2>2, PhaseFree
<1>3. ASSUME NEW p \in Procs, LoadsBlock(p) PROVE PhaseInv'
  <2>1. PICK place \in LoadPlaces : pc' = [pc EXCEPT ![p] = place]
    BY <1>3, CacheMoves DEF LoadsBlock, ComesTo
  <2>2. UNCHANGED memory
    BY <1>3 DEF LoadsBlock, compileVars
  <2>3. pc[p] \in LoadPlaces \cup {"block"}
    BY <1>3 DEF LoadsBlock, CacheStep, CacheLookup, OpenCached, RemoveCached, CompileBlock, CheckInstalled, Rename,
       CopyBegin, CopyEnd, OpenInstalled, RemoveBroken, Step, LoadPlaces
  <2>4. memory[p].phase = "Lowered"
    BY <2>3 DEF PhaseInv, InPhase, LoweredPlaces
  <2>5. pc'[p] \in LoadPlaces
    BY <1>0, <2>1
  <2>6. InPhase(p)'
    BY <2>2, <2>4, <2>5 DEF InPhase, LegalPhases, LoadPlaces
  <2> QED BY <1>0, <2>1, <2>2, <2>6, PhaseLocal
<1>4. ASSUME NEW p \in Procs, Killed(p) PROVE PhaseInv'
  <2>1. pc' = [pc EXCEPT ![p] = "idle"] /\ "idle" \in RegistryPlaces
    BY <1>4 DEF Killed, Kill, Goto, RegistryPlaces
  <2>2. Forget(p)
    BY <1>4 DEF Killed
  <2> QED BY <2>1, <2>2, PlanChanges, PhaseFree DEF LegalPhases
<1>5. ASSUME NEW p \in Procs, CompileStep(p) PROVE PhaseInv'
  <2>1. CASE StartCompile(p)
    <3>1. pc' = [pc EXCEPT ![p] = "setup"] /\ pc'[p] = "setup"
      BY <1>0, <2>1 DEF StartCompile, Begin
    <3>2. PICK i \in Intents : memory' = [memory EXCEPT ![p] = Plan(i)]
      BY <2>1 DEF StartCompile
    <3>3. /\ DOMAIN memory' = Procs /\ \A q \in Procs : q # p => memory'[q] = memory[q]
          /\ IsPlan(memory'[p]) /\ memory'[p].phase = "Empty"
      BY <1>0, <3>2 DEF Plan, IsPlan
    <3>4. InPhase(p)'
      BY <3>1, <3>3 DEF InPhase, LegalPhases, LoweredPlaces, LoadPlaces
    <3> QED BY <3>1, <3>3, <3>4, PhaseLocal
  <2>2. CASE Setup(p) \/ ReadSource(p) \/ Refused(p) \/ EndScope(p)
    <3>1. CASE Forget(p) /\ Goto(p, "idle")
      BY <3>1, PlanChanges, PhaseFree DEF LegalPhases, Goto, RegistryPlaces
    <3>2. CASE UNCHANGED memory /\ Goto(p, "exit")
      BY <1>0, <3>2, PhaseFree DEF Goto
    <3>3. CASE UNCHANGED memory /\ pc[p] = "setup" /\ Goto(p, "source")
      <4>1. pc' = [pc EXCEPT ![p] = "source"] /\ pc'[p] = "source" /\ memory[p].phase = "Empty"
        BY <1>0, <3>3 DEF Goto, PhaseInv, InPhase
      <4>2. InPhase(p)'
        BY <3>3, <4>1 DEF InPhase, LegalPhases, LoweredPlaces, LoadPlaces
      <4> QED BY <1>0, <3>3, <4>1, <4>2, PhaseLocal
    <3>4. CASE UNCHANGED memory /\ pc[p] = "source" /\ Goto(p, "tokenize")
      <4>1. pc' = [pc EXCEPT ![p] = "tokenize"] /\ pc'[p] = "tokenize" /\ memory[p].phase = "Empty"
        BY <1>0, <3>4 DEF Goto, PhaseInv, InPhase
      <4>2. InPhase(p)'
        BY <3>4, <4>1 DEF InPhase, LegalPhases, LoweredPlaces, LoadPlaces
      <4> QED BY <1>0, <3>4, <4>1, <4>2, PhaseLocal
    <3> QED BY <2>2, <3>1, <3>2, <3>3, <3>4 DEF Setup, ReadSource, Refused, EndScope, Step
  <2>3. CASE Throws(p) \/ RuntimeError(p)
    <3>1. pc' = [pc EXCEPT ![p] = "exit"]
      BY <2>3 DEF Throws, RuntimeError, Step, Goto
    <3>2. \E before, after : Transition(p, before, MarkFailed(memory[p].phase), after)
      BY <2>3 DEF Throws, RuntimeError
    <3>3. memory[p].phase # "Empty"
      BY <2>3 DEF Throws, RuntimeError, Step, PhaseInv, InPhase, LoweredPlaces, LoadPlaces
    <3>4. MarkFailed(memory[p].phase) = "Failed"
      BY <3>3, LegalCalls
    <3>5. /\ DOMAIN memory' = Procs /\ \A q \in Procs : q # p => memory'[q] = memory[q]
          /\ IsPlan(memory'[p]) /\ memory'[p].phase = "Failed"
      <4>1. PICK before, after : Transition(p, before, MarkFailed(memory[p].phase), after)
        BY <3>2
      <4> QED BY <3>4, <4>1, PlanChanges
    <3> QED BY <3>1, <3>5, PhaseFree DEF LegalPhases
  <2>4. CASE Tokenize(p)
    <3>1. pc[p] = "tokenize" /\ pc' = [pc EXCEPT ![p] = "parse"]
          /\ Transition(p, << >>, AttachContext(AdoptTokens(memory[p].phase)), << >>)
      BY <2>4 DEF Tokenize, Advances, Step, Goto
    <3>2. AttachContext(AdoptTokens(memory[p].phase)) = "Tokenized"
      BY <3>1, LegalCalls DEF PhaseInv, InPhase
    <3>3. Reached(p, "parse", "Tokenized")
      BY <1>0, <3>1, <3>2, PlanChanges DEF Reached
    <3> QED BY <3>1, <3>3, PhaseReached
  <2>5. CASE Parse(p)
    <3>1. pc[p] = "parse" /\ pc' = [pc EXCEPT ![p] = "shadow"]
          /\ Transition(p, << >>, AttachAst(memory[p].phase), << >>)
      BY <2>5 DEF Parse, Advances, Step, Goto
    <3>2. AttachAst(memory[p].phase) = "Parsed"
      BY <3>1, LegalCalls DEF PhaseInv, InPhase
    <3>3. Reached(p, "shadow", "Parsed")
      BY <1>0, <3>1, <3>2, PlanChanges DEF Reached
    <3> QED BY <3>1, <3>3, PhaseReached
  <2>6. CASE TypeInfer(p)
    <3>1. pc[p] = "typecheck" /\ pc' = [pc EXCEPT ![p] = "lower"]
          /\ Transition(p, << >>, MarkTypeChecked(memory[p].phase), << >>)
      BY <2>6 DEF TypeInfer, Advances, Step, Goto
    <3>2. MarkTypeChecked(memory[p].phase) = "Typed"
      BY <3>1, LegalCalls DEF PhaseInv, InPhase
    <3>3. Reached(p, "lower", "Typed")
      BY <1>0, <3>1, <3>2, PlanChanges DEF Reached
    <3> QED BY <3>1, <3>3, PhaseReached
  <2>7. CASE Lower(p)
    <3>1. pc[p] = "lower" /\ pc' = [pc EXCEPT ![p] = "jit"]
          /\ Transition(p, << >>, AttachIr(memory[p].phase), << >>)
      BY <2>7 DEF Lower, Advances, Step, Goto
    <3>2. AttachIr(memory[p].phase) = "Lowered"
      BY <3>1, LegalCalls DEF PhaseInv, InPhase
    <3>3. Reached(p, "jit", "Lowered")
      BY <1>0, <3>1, <3>2, PlanChanges DEF Reached
    <3> QED BY <3>1, <3>3, PhaseReached
  <2>8. CASE CodegenReady(p)
    <3>1. pc[p] \in {"codegen ready", "block loaded"} /\ pc' = [pc EXCEPT ![p] = "artifact"]
          /\ Transition(p, << >>, MarkCodegenReady(memory[p].phase), << >>)
      BY <2>8 DEF CodegenReady, Goto
    <3>2. MarkCodegenReady(memory[p].phase) = "CodegenReady"
      BY <3>1, LegalCalls DEF PhaseInv, InPhase, LoweredPlaces, LoadPlaces
    <3>3. Reached(p, "artifact", "CodegenReady")
      BY <1>0, <3>1, <3>2, PlanChanges DEF Reached
    <3> QED BY <3>1, <3>3, PhaseReached
  <2>9. CASE Executed(p)
    <3>1. pc[p] = "execute" /\ pc' = [pc EXCEPT ![p] = "receipt"]
          /\ Transition(p, RunFinished(p), MarkExecuted(memory[p].phase), << >>)
      BY <2>9 DEF Executed, Step, Goto
    <3>2. MarkExecuted(memory[p].phase) = "Executed"
      BY <3>1, LegalCalls DEF PhaseInv, InPhase
    <3> QED BY <3>1, <3>2, PlanChanges, PhaseFree DEF LegalPhases
  <2>10. CASE ShadowCompare(p)
    <3>1. pc[p] = "shadow" /\ pc' = [pc EXCEPT ![p] = "typecheck"] /\ UNCHANGED memory
      BY <2>10 DEF ShadowCompare, Step, Goto, compileVars
    <3>2. memory[p].phase = "Parsed"
      BY <3>1 DEF PhaseInv, InPhase
    <3>3. Reached(p, "typecheck", "Parsed")
      BY <1>0, <3>1, <3>2 DEF Reached
    <3> QED BY <3>1, <3>3, PhaseReached
  <2>11. CASE RuntimeInit(p) \/ Codegen(p)
    <3>1. PICK place \in {"codegen", "block", "codegen ready"} : pc' = [pc EXCEPT ![p] = place]
      BY <2>11 DEF RuntimeInit, Codegen, Step, Goto
    <3>2. pc[p] \in {"jit", "codegen"} /\ UNCHANGED memory
      BY <2>11 DEF RuntimeInit, Codegen, Step, compileVars
    <3>3. memory[p].phase = "Lowered"
      BY <3>2 DEF PhaseInv, InPhase, LoweredPlaces
    <3>4. Reached(p, place, "Lowered")
      BY <1>0, <3>1, <3>2, <3>3 DEF Reached
    <3> QED BY <3>1, <3>4, PhaseReached
  <2>12. CASE WriteArtifact(p)
    <3>1. pc[p] = "artifact" /\ memory[p].phase = "CodegenReady"
      BY <2>12 DEF WriteArtifact, PhaseInv, InPhase
    <3>2. CASE Goto(p, "receipt") /\ UNCHANGED memory
      BY <1>0, <3>2, PhaseFree DEF Goto
    <3>3. CASE Goto(p, "execute") /\ (UNCHANGED memory \/ memory' = [memory EXCEPT ![p].testing = TRUE])
      <4>1. IsPlan(memory[p])
        BY <1>0
      <4>2. Reached(p, "execute", "CodegenReady")
        BY <1>0, <3>1, <3>3, <4>1 DEF Reached, Goto, IsPlan
      <4> QED BY <3>3, <4>2, PhaseReached DEF Goto
    <3> QED BY <2>12, <3>2, <3>3 DEF WriteArtifact
  <2>13. CASE OpenReceipt(p) \/ FlushReceipt(p)
    <3>1. PICK place \in {"flush receipt", "exit"} : pc' = [pc EXCEPT ![p] = place]
      BY <2>13 DEF OpenReceipt, FlushReceipt, Step, Goto
    <3>2. UNCHANGED memory \/ memory' = [memory EXCEPT ![p].success = TRUE]
      BY <2>13 DEF OpenReceipt, FlushReceipt
    <3>3. IsPlan(memory[p]) /\ memory[p].phase \in LegalPhases
      BY <1>0
    <3>4. /\ DOMAIN memory' = Procs /\ \A q \in Procs : q # p => memory'[q] = memory[q]
          /\ IsPlan(memory'[p]) /\ memory'[p].phase = memory[p].phase
      BY <1>0, <3>2, <3>3 DEF IsPlan
    <3> QED BY <3>1, <3>3, <3>4, PhaseFree
  <2> QED BY <1>5, <2>1, <2>2, <2>3, <2>4, <2>5, <2>6, <2>7, <2>8, <2>9, <2>10, <2>11, <2>12, <2>13 DEF CompileStep
<1> QED BY <1>1, <1>2, <1>3, <1>4, <1>5 DEF ToolchainNext, Compiles

\* The session is never asked for a step its phase forbids, on any path through
\* main with any of its steps failing (CompilationSession.hpp:105).
THEOREM SessionCallsAlwaysLegal == ToolchainSpec => []SessionCallsAreLegal
<1>1. ToolchainInit => PhaseInv
  BY DEF ToolchainInit, ProcInit, CompileInit, NoPlan, Plan, PhaseInv, InPhase, IsPlan, LegalPhases, LoweredPlaces, LoadPlaces
<1>2. PhaseInv => SessionCallsAreLegal
  BY DEF PhaseInv, InPhase, LegalPhases, SessionCallsAreLegal, Illegal
<1> QED BY <1>1, <1>2, PhaseKept, PTL DEF ToolchainSpec

-----------------------------------------------------------------------------
(***************************************************************************)
(* What compile plans leave behind: event logs and receipts that agree,    *)
(* with any step of any plan failing and any process killed.               *)
(***************************************************************************)

(***************************************************************************)
(* Sequences of events, and the set of what they say.                      *)
(***************************************************************************)
Events == {"started", "finished", "failed", "diagnostic", "run.started", "run.finished",
           "test.started", "test.finished"} \cup LegalPhases

Ends == {"finished", "failed"}

Said(s) == { s[i] : i \in DOMAIN s }

LEMMA SaidTogether ==
  ASSUME NEW s \in Seq(Events), NEW t \in Seq(Events)
  PROVE  s \o t \in Seq(Events) /\ Said(s \o t) = Said(s) \cup Said(t)
<1>1. /\ s \o t \in Seq(Events) /\ Len(s \o t) = Len(s) + Len(t)
      /\ \A i \in 1 .. Len(s) : (s \o t)[i] = s[i]
      /\ \A i \in 1 .. Len(t) : (s \o t)[Len(s) + i] = t[i]
  OBVIOUS
<1>2. DOMAIN s = 1 .. Len(s) /\ DOMAIN t = 1 .. Len(t) /\ DOMAIN (s \o t) = 1 .. (Len(s) + Len(t))
      /\ Len(s) \in Nat /\ Len(t) \in Nat
  BY <1>1
<1>3. ASSUME NEW e \in Said(s \o t) PROVE e \in Said(s) \cup Said(t)
  <2>1. PICK i \in 1 .. (Len(s) + Len(t)) : e = (s \o t)[i]
    BY <1>2 DEF Said
  <2>2. CASE i \in 1 .. Len(s)
    BY <1>1, <1>2, <2>1, <2>2 DEF Said
  <2>3. CASE i \notin 1 .. Len(s)
    <3>1. i - Len(s) \in 1 .. Len(t) /\ i = Len(s) + (i - Len(s))
      BY <1>2, <2>1, <2>3
    <3>2. e = t[i - Len(s)]
      BY <1>1, <2>1, <3>1
    <3> QED BY <1>2, <3>1, <3>2 DEF Said
  <2> QED BY <2>2, <2>3
<1>4. ASSUME NEW e \in Said(s) PROVE e \in Said(s \o t)
  <2>1. PICK i \in 1 .. Len(s) : e = s[i]
    BY <1>2 DEF Said
  <2>2. i \in DOMAIN (s \o t) /\ (s \o t)[i] = e
    BY <1>1, <1>2, <2>1
  <2> QED BY <2>2 DEF Said
<1>5. ASSUME NEW e \in Said(t) PROVE e \in Said(s \o t)
  <2>1. PICK i \in 1 .. Len(t) : e = t[i]
    BY <1>2 DEF Said
  <2>2. Len(s) + i \in DOMAIN (s \o t) /\ (s \o t)[Len(s) + i] = e
    BY <1>1, <1>2, <2>1
  <2> QED BY <2>2 DEF Said
<1> QED BY <1>1, <1>3, <1>4, <1>5

LEMMA SaidFew ==
  /\ << >> \in Seq(Events) /\ Said(<< >>) = {}
  /\ \A e \in Events : <<e>> \in Seq(Events) /\ Said(<<e>>) = {e}
<1>1. ASSUME NEW e \in Events PROVE <<e>> \in Seq(Events) /\ Said(<<e>>) = {e}
  <2>1. DOMAIN <<e>> = {1} /\ <<e>>[1] = e
    OBVIOUS
  <2> QED BY <2>1 DEF Said
<1>2. DOMAIN << >> = {}
  OBVIOUS
<1> QED BY <1>1, <1>2 DEF Said

LEMMA SaidTwo ==
  ASSUME NEW e \in Events, NEW f \in Events
  PROVE  <<e, f>> \in Seq(Events) /\ Said(<<e, f>>) = {e, f}
<1>1. DOMAIN <<e, f>> = {1, 2} /\ <<e, f>>[1] = e /\ <<e, f>>[2] = f
  OBVIOUS
<1> QED BY <1>1 DEF Said
-----------------------------------------------------------------------------
(***************************************************************************)
(* The invariant.  Every plan under way has a log of its own, open, that   *)
(* says how far it has come; the receipt is of a plan that has said all    *)
(* there is to say.                                                        *)
(***************************************************************************)
RunPlaces == (CompilePlaces \ {"idle"}) \cup LoadPlaces

Compiling(p) == pc[p] \in RunPlaces

\* What the log of a plan holds while its process is at a place.
Story(place, plan, said) ==
  /\ said \cap Ends = {}
  /\ "diagnostic" \in said => place = "exit" /\ ~plan.success
  /\ place = "exit" => plan.success \/ "diagnostic" \in said
  /\ plan.success => place = "exit"
  /\ "test.started" \in said => plan.testing \/ "test.finished" \in said
  /\ plan.testing => place = "execute"
  /\ place \in {"artifact", "execute", "receipt", "flush receipt"} => "CodegenReady" \in said
  /\ place \notin {"receipt", "flush receipt", "exit"} => "Executed" \notin said
  /\ place \in {"receipt", "flush receipt"} => (plan.phase = "Executed" <=> "Executed" \in said)

RunTypes ==
  /\ runs \in Nat /\ DOMAIN pc = Procs /\ DOMAIN run = Procs
  /\ log \in [1 .. MaxCompiles -> Seq(Events)]
  /\ \A p \in Procs : memory[p].testing \in BOOLEAN /\ memory[p].success \in BOOLEAN

Numbered ==
  /\ \A p \in Procs : Compiling(p) => run[p] \in 1 .. MaxCompiles /\ run[p] <= runs
  /\ \A p, q \in Procs : Compiling(p) /\ Compiling(q) /\ run[p] = run[q] => p = q
  /\ \A r \in 1 .. MaxCompiles : r > runs => log[r] = << >>

Stories == \A p \in Procs : Compiling(p) => Story(pc[p], memory[p], Logged(run[p]))

StoryInv == RunTypes /\ Numbered /\ Stories /\ LogsAgree

ReceiptSound ==
  receipt \notin {Absent, Torn} =>
    /\ receipt.run \in 1 .. MaxCompiles /\ receipt.run <= runs
    /\ \A p \in Procs : Compiling(p) /\ run[p] = receipt.run => pc[p] = "exit" /\ memory[p].success

RunInv == StoryInv /\ ReceiptSound /\ ReceiptIsTrue

\* What LogsAgree says of one log; of one that is open it says nothing.
Agrees(s) ==
  /\ \A i \in DOMAIN s : s[i] \in Ends => i = Len(s)
  /\ "finished" \in Said(s) => "diagnostic" \notin Said(s)
  /\ "failed" \in Said(s) => "diagnostic" \in Said(s)
  /\ Ends \cap Said(s) # {} /\ "test.started" \in Said(s) => "test.finished" \in Said(s)

LEMMA AgreesEach == LogsAgree => \A r \in 1 .. MaxCompiles : Agrees(log[r])
BY DEF LogsAgree, Agrees, Logged, Said, Ends

LEMMA OpenAgrees == ASSUME NEW s, Said(s) \cap Ends = {} PROVE Agrees(s)
<1>1. \A i \in DOMAIN s : s[i] \in Said(s)
  BY DEF Said
<1>2. \A i \in DOMAIN s : s[i] \notin Ends
  BY <1>1
<1>3. "finished" \notin Said(s) /\ "failed" \notin Said(s)
  BY DEF Ends
<1> QED BY <1>2, <1>3 DEF Agrees

\* What an emission does to the logs
LEMMA Emitted ==
  ASSUME StoryInv, NEW p \in Procs, Compiling(p), NEW events \in Seq(Events), Emit(p, events)
  PROVE  /\ log' \in [1 .. MaxCompiles -> Seq(Events)]
         /\ Logged(run[p])' = Said(log'[run'[p]])
         /\ log'[run[p]] = log[run[p]] \o events
         /\ Said(log'[run[p]]) = Logged(run[p]) \cup Said(events)
         /\ \A r \in 1 .. MaxCompiles : r # run[p] => log'[r] = log[r]
<1>1. run[p] \in 1 .. MaxCompiles /\ log \in [1 .. MaxCompiles -> Seq(Events)]
  BY DEF StoryInv, RunTypes, Numbered
<1>2. log[run[p]] \in Seq(Events) /\ log' = [log EXCEPT ![run[p]] = log[run[p]] \o events]
  BY <1>1 DEF Emit
<1>3. log[run[p]] \o events \in Seq(Events) /\ Said(log[run[p]] \o events) = Said(log[run[p]]) \cup Said(events)
  BY <1>2, SaidTogether
<1>4. log'[run[p]] = log[run[p]] \o events
  BY <1>1, <1>2
<1>5. log' \in [1 .. MaxCompiles -> Seq(Events)] /\ \A r \in 1 .. MaxCompiles : r # run[p] => log'[r] = log[r]
  BY <1>1, <1>2, <1>3
<1> QED BY <1>3, <1>4, <1>5 DEF Logged, Said

LEMMA SilentEmit ==
  ASSUME StoryInv, NEW p \in Procs, Compiling(p), UNCHANGED log
  PROVE  Emit(p, << >>)
<1>1. run[p] \in 1 .. MaxCompiles /\ log \in [1 .. MaxCompiles -> Seq(Events)]
  BY DEF StoryInv, RunTypes, Numbered
<1>2. log[run[p]] \o << >> = log[run[p]]
  BY <1>1
<1> QED BY <1>1, <1>2 DEF Emit

\* A step of a plan that does not end it
Continues(p, place, events) ==
  /\ Compiling(p) /\ pc[p] # "exit"
  /\ place \in RunPlaces /\ Goto(p, place)
  /\ events \in Seq(Events) /\ Emit(p, events)
  /\ DOMAIN memory' = Procs /\ \A q \in Procs : q # p => memory'[q] = memory[q]
  /\ memory'[p].testing \in BOOLEAN /\ memory'[p].success \in BOOLEAN
  /\ Story(place, memory'[p], Logged(run[p]) \cup Said(events))

LEMMA StoryContinues ==
  ASSUME StoryInv, NEW p \in Procs, NEW place, NEW events, Continues(p, place, events)
  PROVE  StoryInv'
<1>0. Compiling(p) /\ events \in Seq(Events) /\ Emit(p, events)
  BY DEF Continues
<1>1. /\ run' = run /\ runs' = runs /\ DOMAIN pc' = Procs /\ pc'[p] = place
      /\ \A q \in Procs : q # p => pc'[q] = pc[q]
  BY DEF Continues, Goto, StoryInv, RunTypes
<1>2. \A q \in Procs : Compiling(q)' => Compiling(q)
  BY <1>0, <1>1 DEF Compiling
<1>3. /\ log' \in [1 .. MaxCompiles -> Seq(Events)]
      /\ Said(log'[run[p]]) = Logged(run[p]) \cup Said(events)
      /\ \A r \in 1 .. MaxCompiles : r # run[p] => log'[r] = log[r]
  BY <1>0, Emitted
<1>4. RunTypes'
  BY <1>1, <1>3 DEF RunTypes, StoryInv, Continues
<1>5. Numbered'
  <2>1. run[p] \in 1 .. MaxCompiles /\ run[p] <= runs /\ runs \in Nat /\ MaxCompiles \in Nat
    BY <1>0, CompilesAssumption DEF StoryInv, Numbered, RunTypes
  <2>2. ASSUME NEW r \in 1 .. MaxCompiles, r > runs PROVE log'[r] = << >>
    <3>1. r # run[p]
      BY <2>1, <2>2
    <3>2. log'[r] = log[r]
      BY <1>3, <3>1
    <3> QED BY <2>2, <3>2 DEF StoryInv, Numbered
  <2> QED BY <1>1, <1>2, <2>2 DEF StoryInv, Numbered
<1>6. Stories'
  <2> SUFFICES ASSUME NEW q \in Procs, Compiling(q)' PROVE Story(pc'[q], memory'[q], Said(log'[run'[q]]))
    BY DEF Stories, Logged, Said
  <2>1. CASE q = p
    BY <1>1, <1>3, <2>1 DEF Continues
  <2>2. CASE q # p
    <3>1. run[q] # run[p] /\ run[q] \in 1 .. MaxCompiles
      BY <1>0, <1>2, <2>2 DEF StoryInv, Numbered
    <3>2. log'[run[q]] = log[run[q]] /\ pc'[q] = pc[q] /\ memory'[q] = memory[q]
      BY <1>1, <1>3, <2>2, <3>1 DEF Continues
    <3>3. Story(pc[q], memory[q], Logged(run[q]))
      BY <1>2 DEF StoryInv, Stories
    <3>4. Said(log'[run'[q]]) = Logged(run[q])
      BY <1>1, <3>2 DEF Logged, Said
    <3> QED BY <3>2, <3>3, <3>4
  <2> QED BY <2>1, <2>2
<1>7. LogsAgree'
  <2>1. Agrees(log'[run[p]])
    BY <1>3, OpenAgrees DEF Continues, Story
  <2>2. \A r \in 1 .. MaxCompiles : r # run[p] => log'[r] = log[r]
    BY <1>3
  <2>3. \A r \in 1 .. MaxCompiles : Agrees(log[r])
    BY AgreesEach DEF StoryInv
  <2>4. \A r \in 1 .. MaxCompiles : Agrees(log'[r])
    BY <2>1, <2>2, <2>3
  <2> QED BY <2>4 DEF LogsAgree, Agrees, Logged, Said, Ends
<1> QED BY <1>4, <1>5, <1>6, <1>7 DEF StoryInv

LEMMA ReceiptStays ==
  ASSUME RunInv, NEW p \in Procs, NEW place, NEW events, Continues(p, place, events), receipt' \in {receipt, Torn}
  PROVE  (ReceiptSound /\ ReceiptIsTrue)'
<1> SUFFICES ASSUME receipt' = receipt, receipt \notin {Absent, Torn} PROVE (ReceiptSound /\ ReceiptIsTrue)'
  BY DEF ReceiptSound, ReceiptIsTrue
<1>0. StoryInv /\ Compiling(p) /\ events \in Seq(Events) /\ Emit(p, events) /\ pc[p] # "exit"
  BY DEF Continues, RunInv
<1>1. /\ run' = run /\ runs' = runs /\ pc'[p] = place /\ \A q \in Procs : q # p => pc'[q] = pc[q]
      /\ \A q \in Procs : q # p => memory'[q] = memory[q]
  BY DEF Continues, Goto, RunInv, StoryInv, RunTypes
<1>2. receipt.run # run[p] /\ receipt.run \in 1 .. MaxCompiles
  BY <1>0 DEF RunInv, ReceiptSound
<1>3. log'[receipt.run] = log[receipt.run]
  BY <1>0, <1>2, Emitted
<1>4. ReceiptSound'
  BY <1>1, <1>2 DEF RunInv, ReceiptSound, Compiling
<1>5. ReceiptIsTrue'
  BY <1>3 DEF RunInv, ReceiptIsTrue, Logged
<1> QED BY <1>4, <1>5
LEMMA RunContinues ==
  ASSUME RunInv, NEW p \in Procs, NEW place, NEW events, Continues(p, place, events), receipt' \in {receipt, Torn}
  PROVE  RunInv'
BY StoryContinues, ReceiptStays DEF RunInv

\* A step that emits nothing, or a few events, and keeps the plan
LEMMA KeepsPlan ==
  ASSUME RunInv, PhaseInv, NEW p \in Procs, NEW place, NEW events \in Seq(Events),
         Compiling(p), pc[p] # "exit", place \in RunPlaces, Goto(p, place), Emit(p, events),
         UNCHANGED memory, receipt' \in {receipt, Torn},
         Story(place, memory[p], Logged(run[p]) \cup Said(events))
  PROVE  RunInv'
<1>1. Continues(p, place, events)
  BY DEF Continues, RunInv, StoryInv, RunTypes, PhaseInv
<1> QED BY <1>1, RunContinues

\* A step that takes the session to a phase
LEMMA Transits ==
  ASSUME RunInv, PhaseInv, NEW p \in Procs, NEW place, NEW before \in Seq(Events), NEW new \in LegalPhases,
         NEW after \in Seq(Events),
         Compiling(p), pc[p] # "exit", place \in RunPlaces, Goto(p, place), Transition(p, before, new, after),
         receipt' \in {receipt, Torn},
         LET plan == [phase |-> new, intent |-> memory[p].intent, testing |-> FALSE, success |-> memory[p].success]
             said == Logged(run[p]) \cup Said(before)
                       \cup (IF new = memory[p].phase THEN {} ELSE {new}) \cup Said(after)
         IN  Story(place, plan, said)
  PROVE  RunInv'
<1> DEFINE moved == IF new = memory[p].phase THEN << >> ELSE <<new>>
           events == before \o moved \o after
           plan == [phase |-> new, intent |-> memory[p].intent, testing |-> FALSE, success |-> memory[p].success]
<1>1. moved \in Seq(Events) /\ Said(moved) = (IF new = memory[p].phase THEN {} ELSE {new})
  BY SaidFew DEF Events
<1>2. before \o moved \in Seq(Events) /\ Said(before \o moved) = Said(before) \cup Said(moved)
  <2> HIDE DEF moved
  <2> QED BY <1>1, SaidTogether
<1>3. events \in Seq(Events) /\ Said(events) = Said(before) \cup Said(moved) \cup Said(after)
  <2> HIDE DEF moved
  <2> QED BY <1>2, SaidTogether
<1>4. Emit(p, events) /\ memory' = [memory EXCEPT ![p].phase = new, ![p].testing = FALSE]
  BY DEF Transition
<1>5. IsPlan(memory[p]) /\ DOMAIN memory = Procs
  BY DEF PhaseInv
<1>6. DOMAIN memory' = Procs /\ memory'[p] = plan /\ \A q \in Procs : q # p => memory'[q] = memory[q]
  BY <1>4, <1>5 DEF IsPlan
<1>7. Story(place, memory'[p], Logged(run[p]) \cup Said(events))
  <2>1. Logged(run[p]) \cup Said(events)
          = Logged(run[p]) \cup Said(before) \cup (IF new = memory[p].phase THEN {} ELSE {new}) \cup Said(after)
    BY <1>1, <1>3
  <2> HIDE DEF events
  <2> QED BY <1>6, <2>1
<1>8. memory'[p].testing \in BOOLEAN /\ memory'[p].success \in BOOLEAN
  BY <1>6 DEF RunInv, StoryInv, RunTypes
<1>9. Continues(p, place, events)
  <2> HIDE DEF events
  <2> QED BY <1>3, <1>4, <1>6, <1>7, <1>8 DEF Continues
<1> QED
  <2> HIDE DEF events
  <2> QED BY <1>9, RunContinues
\* A command of the registry gets a number, or keeps the one it has.
LEMMA RegistryNumbers ==
  ASSUME NEW p, RegistryStep(p)
  PROVE  UNCHANGED <<run, runs>> \/ (runs' = runs + 1 /\ run' = [run EXCEPT ![p] = runs + 1])
<1> USE DEF Goto, Step, Begin, Leave
<1>0. CASE NameArchive(p) \/ NameBlob(p) \/ NameTree(p)
  BY <1>0 DEF NameArchive, NameBlob, NameTree, NameTemporary
<1>1. CASE StartPublish(p) \/ EnsureWritable(p) \/ OpenMarker(p) \/ WriteMarker(p) \/ Archive(p)
  BY <1>1 DEF StartPublish, EnsureWritable, OpenMarker, WriteMarker, Archive
<1>2. CASE OpenBlob(p) \/ CopyBlob(p) \/ OpenEntry(p) \/ WriteEntry(p)
  BY <1>2 DEF OpenBlob, CopyBlob, OpenEntry, WriteEntry
<1>3. CASE StartFetch(p) \/ FetchMarker(p) \/ FetchEntry(p) \/ FetchBlob(p) \/ Verify(p)
  BY <1>3 DEF StartFetch, FetchMarker, FetchEntry, FetchBlob, Verify
<1>4. CASE Install(p) \/ CopyFiles(p) \/ OpenPackageReceipt(p) \/ WritePackageReceipt(p)
  BY <1>4 DEF Install, CopyFiles, OpenPackageReceipt, WritePackageReceipt
<1> QED BY <1>0, <1>1, <1>2, <1>3, <1>4 DEF RegistryStep

LEMMA LoadGoes == ASSUME NEW p, CacheStep(p) PROVE \E place \in LoadPlaces : Goto(p, place)
<1> USE DEF LoadPlaces, Step
<1>1. CASE CacheLookup(p) \/ OpenCached(p) \/ RemoveCached(p) \/ CompileBlock(p) \/ CheckInstalled(p)
  BY <1>1 DEF CacheLookup, OpenCached, RemoveCached, CompileBlock, CheckInstalled
<1>2. CASE Rename(p) \/ CopyBegin(p) \/ CopyEnd(p) \/ OpenInstalled(p) \/ RemoveBroken(p)
  BY <1>2 DEF Rename, CopyBegin, CopyEnd, OpenInstalled, RemoveBroken
<1> QED BY <1>1, <1>2 DEF CacheStep

LEMMA LeftAlone ==
  ASSUME UNCHANGED <<log, receipt>>
  PROVE  (LogsAgree => LogsAgree') /\ (ReceiptIsTrue => ReceiptIsTrue')
<1>1. \A r : Logged(r)' = Logged(r)
  BY DEF Logged
<1> QED BY <1>1 DEF LogsAgree, ReceiptIsTrue

\* A process that does something else, or is killed
LEMMA NotCompiling ==
  ASSUME RunInv, NEW p \in Procs, NEW place, place \notin RunPlaces, pc' = [pc EXCEPT ![p] = place],
         UNCHANGED <<log, receipt>>, \A q \in Procs : q # p => memory'[q] = memory[q],
         memory'[p].testing \in BOOLEAN, memory'[p].success \in BOOLEAN,
         UNCHANGED <<run, runs>> \/ (runs' = runs + 1 /\ run' = [run EXCEPT ![p] = runs + 1])
  PROVE  RunInv'
<1>1. /\ runs \in Nat /\ runs' \in Nat /\ runs' >= runs /\ MaxCompiles \in Nat
      /\ DOMAIN pc' = Procs /\ DOMAIN run' = Procs /\ pc'[p] = place
      /\ \A q \in Procs : q # p => pc'[q] = pc[q] /\ run'[q] = run[q]
  BY CompilesAssumption DEF RunInv, StoryInv, RunTypes
<1>2. \A q \in Procs : Compiling(q)' => q # p /\ Compiling(q)
  BY <1>1 DEF Compiling
<1>3. RunTypes'
  BY <1>1 DEF RunInv, StoryInv, RunTypes
<1>4. Numbered'
  <2>1. ASSUME NEW q \in Procs, Compiling(q)' PROVE run'[q] \in 1 .. MaxCompiles /\ run'[q] <= runs'
    BY <1>1, <1>2, <2>1 DEF RunInv, StoryInv, Numbered
  <2>2. \A q, o \in Procs : Compiling(q)' /\ Compiling(o)' /\ run'[q] = run'[o] => q = o
    BY <1>1, <1>2 DEF RunInv, StoryInv, Numbered
  <2>3. \A r \in 1 .. MaxCompiles : r > runs' => log'[r] = << >>
    BY <1>1 DEF RunInv, StoryInv, Numbered
  <2> QED BY <2>1, <2>2, <2>3 DEF Numbered
<1>5. Stories'
  <2> SUFFICES ASSUME NEW q \in Procs, Compiling(q)' PROVE Story(pc'[q], memory'[q], Said(log'[run'[q]]))
    BY DEF Stories, Logged, Said
  <2>1. Said(log'[run'[q]]) = Logged(run[q])
    BY <1>1, <1>2 DEF Logged, Said
  <2> QED BY <1>1, <1>2, <2>1 DEF RunInv, StoryInv, Stories
<1>6. LogsAgree' /\ ReceiptIsTrue'
  BY LeftAlone DEF RunInv, StoryInv
<1>7. ReceiptSound'
  <2> SUFFICES ASSUME receipt \notin {Absent, Torn} PROVE ReceiptSound'
    BY DEF ReceiptSound
  <2>1. receipt.run \in 1 .. MaxCompiles /\ receipt.run <= runs
    BY DEF RunInv, ReceiptSound
  <2>2. ASSUME NEW q \in Procs, Compiling(q)', run'[q] = receipt.run PROVE pc'[q] = "exit" /\ memory'[q].success
    BY <1>1, <1>2, <2>2 DEF RunInv, ReceiptSound
  <2>3. receipt.run <= runs'
    BY <1>1, <2>1
  <2> QED BY <2>1, <2>2, <2>3 DEF ReceiptSound
<1> QED BY <1>3, <1>4, <1>5, <1>6, <1>7 DEF RunInv, StoryInv

\* A log that is closed with the event that belongs to it
LEMMA Closing ==
  ASSUME NEW s \in Seq(Events), NEW e \in Ends, Said(s) \cap Ends = {},
         e = "finished" => "diagnostic" \notin Said(s), e = "failed" => "diagnostic" \in Said(s),
         "test.started" \in Said(s) => "test.finished" \in Said(s)
  PROVE  Agrees(s \o <<e>>)
<1>1. e \in Events /\ Said(s \o <<e>>) = Said(s) \cup {e}
  BY SaidTogether, SaidFew DEF Ends, Events
<1>2. /\ Len(s \o <<e>>) = Len(s) + 1 /\ DOMAIN (s \o <<e>>) = 1 .. (Len(s) + 1) /\ Len(s) \in Nat
      /\ \A i \in 1 .. Len(s) : (s \o <<e>>)[i] = s[i]
  BY <1>1
<1>3. \A i \in 1 .. Len(s) : s[i] \in Said(s)
  BY DEF Said
<1>4. ASSUME NEW i \in DOMAIN (s \o <<e>>), (s \o <<e>>)[i] \in Ends PROVE i = Len(s \o <<e>>)
  <2>1. i \notin 1 .. Len(s)
    BY <1>2, <1>3, <1>4
  <2> QED BY <1>2, <2>1
<1> QED BY <1>1, <1>4 DEF Agrees, Ends

LEMMA StartKept == ASSUME RunInv, PhaseInv, NEW p \in Procs, StartCompile(p) PROVE RunInv'
<1>1. /\ pc[p] = "idle" /\ runs < MaxCompiles /\ runs' = runs + 1
      /\ run' = [run EXCEPT ![p] = runs + 1] /\ pc' = [pc EXCEPT ![p] = "setup"]
      /\ UNCHANGED <<log, receipt>>
  BY DEF StartCompile, Begin
<1>2. PICK i \in Intents : memory' = [memory EXCEPT ![p] = Plan(i)]
  BY DEF StartCompile
<1>3. /\ runs \in Nat /\ MaxCompiles \in Nat /\ runs + 1 \in 1 .. MaxCompiles /\ run'[p] = runs + 1
      /\ DOMAIN pc' = Procs /\ DOMAIN run' = Procs /\ pc'[p] = "setup"
      /\ memory'[p] = Plan(i)
      /\ \A q \in Procs : q # p => pc'[q] = pc[q] /\ run'[q] = run[q] /\ memory'[q] = memory[q]
  BY <1>1, <1>2, CompilesAssumption DEF RunInv, StoryInv, RunTypes, PhaseInv
<1>4. \A q \in Procs : Compiling(q)' /\ q # p => Compiling(q)
  BY <1>3 DEF Compiling
<1>5. log[runs + 1] = << >> /\ log'[run'[p]] = << >>
  BY <1>1, <1>3 DEF RunInv, StoryInv, Numbered
<1>6. RunTypes'
  <2>1. Plan(i).testing \in BOOLEAN /\ Plan(i).success \in BOOLEAN
    BY DEF Plan
  <2>2. \A q \in Procs : memory'[q].testing \in BOOLEAN /\ memory'[q].success \in BOOLEAN
    BY <1>3, <2>1 DEF RunInv, StoryInv, RunTypes
  <2> QED BY <1>1, <1>3, <2>2 DEF RunInv, StoryInv, RunTypes
<1>7. Numbered'
  <2>1. ASSUME NEW q \in Procs, Compiling(q)' PROVE run'[q] \in 1 .. MaxCompiles /\ run'[q] <= runs'
    BY <1>1, <1>3, <1>4, <2>1 DEF RunInv, StoryInv, Numbered
  <2>2. ASSUME NEW q \in Procs, q # p, Compiling(q)' PROVE run'[q] # run'[p]
    <3>1. run[q] \in 1 .. MaxCompiles /\ run[q] <= runs
      BY <1>4, <2>2 DEF RunInv, StoryInv, Numbered
    <3> QED BY <1>3, <2>2, <3>1
  <2>3. \A q, o \in Procs : Compiling(q)' /\ Compiling(o)' /\ run'[q] = run'[o] => q = o
    BY <1>3, <1>4, <2>2 DEF RunInv, StoryInv, Numbered
  <2>4. \A r \in 1 .. MaxCompiles : r > runs' => log'[r] = << >>
    BY <1>1, <1>3 DEF RunInv, StoryInv, Numbered
  <2> QED BY <2>1, <2>3, <2>4 DEF Numbered
<1>8. Stories'
  <2> SUFFICES ASSUME NEW q \in Procs, Compiling(q)' PROVE Story(pc'[q], memory'[q], Said(log'[run'[q]]))
    BY DEF Stories, Logged, Said
  <2>1. CASE q = p
    <3>1. Said(log'[run'[p]]) = {}
      BY <1>5, SaidFew
    <3> QED BY <1>3, <2>1, <3>1 DEF Story, Plan
  <2>2. CASE q # p
    <3>1. Said(log'[run'[q]]) = Logged(run[q])
      BY <1>1, <1>3, <2>2 DEF Logged, Said
    <3> QED BY <1>3, <1>4, <2>2, <3>1 DEF RunInv, StoryInv, Stories
  <2> QED BY <2>1, <2>2
<1>9. LogsAgree' /\ ReceiptIsTrue'
  BY <1>1, LeftAlone DEF RunInv, StoryInv
<1>10. ReceiptSound'
  <2> SUFFICES ASSUME receipt \notin {Absent, Torn} PROVE ReceiptSound'
    BY <1>1 DEF ReceiptSound
  <2>1. receipt.run \in 1 .. MaxCompiles /\ receipt.run <= runs
    BY DEF RunInv, ReceiptSound
  <2>2. receipt.run <= runs' /\ receipt.run # run'[p]
    BY <1>1, <1>3, <2>1
  <2>3. ASSUME NEW q \in Procs, Compiling(q)', run'[q] = receipt.run PROVE pc'[q] = "exit" /\ memory'[q].success
    <3>1. q # p
      BY <2>2, <2>3
    <3> QED BY <1>3, <1>4, <2>3, <3>1 DEF RunInv, ReceiptSound
  <2> QED BY <1>1, <2>1, <2>2, <2>3 DEF ReceiptSound
<1> QED BY <1>6, <1>7, <1>8, <1>9, <1>10 DEF RunInv, StoryInv
LEMMA EndKept == ASSUME RunInv, PhaseInv, NEW p \in Procs, EndScope(p) PROVE RunInv'
<1> DEFINE e == IF memory[p].success THEN "finished" ELSE "failed"
           r == run[p]
<1>1. /\ pc[p] = "exit" /\ pc' = [pc EXCEPT ![p] = "idle"] /\ UNCHANGED <<run, runs, receipt>>
      /\ Emit(p, <<e>>) /\ Forget(p)
  BY DEF EndScope, Step, Goto
<1>2. e \in Ends /\ e \in Events /\ <<e>> \in Seq(Events) /\ Said(<<e>>) = {e}
  BY SaidFew DEF Ends, Events
<1>3. Compiling(p)
  BY <1>1 DEF Compiling, RunPlaces, CompilePlaces
<1>4. /\ log' \in [1 .. MaxCompiles -> Seq(Events)]
      /\ log'[r] = log[r] \o <<e>> /\ Said(log'[r]) = Logged(r) \cup {e}
      /\ \A o \in 1 .. MaxCompiles : o # r => log'[o] = log[o]
  <2> HIDE DEF e
  <2> QED BY <1>1, <1>2, <1>3, Emitted DEF RunInv
<1>5. r \in 1 .. MaxCompiles /\ r <= runs /\ runs \in Nat /\ log[r] \in Seq(Events)
  BY <1>3 DEF RunInv, StoryInv, Numbered, RunTypes
<1>6. Story("exit", memory[p], Logged(r))
  BY <1>1, <1>3 DEF RunInv, StoryInv, Stories
<1>7. /\ DOMAIN pc' = Procs /\ DOMAIN run' = Procs /\ pc'[p] = "idle" /\ run' = run
      /\ \A q \in Procs : q # p => pc'[q] = pc[q] /\ memory'[q] = memory[q]
      /\ memory'[p].testing \in BOOLEAN /\ memory'[p].success \in BOOLEAN
  BY <1>1 DEF RunInv, StoryInv, RunTypes, PhaseInv, Forget, NoPlan, Plan
<1>8. \A q \in Procs : Compiling(q)' => q # p /\ Compiling(q) /\ run[q] # r /\ run[q] \in 1 .. MaxCompiles
  <2>1. "idle" \notin RunPlaces
    BY DEF RunPlaces, CompilePlaces, LoadPlaces
  <2>2. \A q \in Procs : Compiling(q)' => q # p /\ Compiling(q)
    BY <1>7, <2>1 DEF Compiling
  <2>3. \A q \in Procs : q # p /\ Compiling(q) => run[q] # r /\ run[q] \in 1 .. MaxCompiles
    BY <1>3 DEF RunInv, StoryInv, Numbered
  <2> QED BY <2>2, <2>3
<1>9. RunTypes'
  BY <1>1, <1>4, <1>7 DEF RunInv, StoryInv, RunTypes
<1>10. Numbered'
  <2>1. \A o \in 1 .. MaxCompiles : o > runs => log'[o] = << >>
    BY <1>4, <1>5 DEF RunInv, StoryInv, Numbered
  <2> QED BY <1>1, <1>8, <2>1 DEF RunInv, StoryInv, Numbered
<1>11. Stories'
  <2> SUFFICES ASSUME NEW q \in Procs, Compiling(q)' PROVE Story(pc'[q], memory'[q], Said(log'[run'[q]]))
    BY DEF Stories, Logged, Said
  <2>1. Said(log'[run'[q]]) = Logged(run[q])
    BY <1>4, <1>7, <1>8 DEF Logged, Said
  <2> QED BY <1>7, <1>8, <2>1 DEF RunInv, StoryInv, Stories
<1>12. LogsAgree'
  <2>1. Agrees(log[r] \o <<e>>)
    <3>1. Said(log[r]) = Logged(r)
      BY DEF Logged, Said
    <3>2. /\ e = "finished" => "diagnostic" \notin Said(log[r])
          /\ e = "failed" => "diagnostic" \in Said(log[r])
      BY <1>6, <3>1 DEF Story
    <3>3. /\ Said(log[r]) \cap Ends = {}
          /\ "test.started" \in Said(log[r]) => "test.finished" \in Said(log[r])
      BY <1>6, <3>1 DEF Story
    <3> HIDE DEF e, r
    <3> QED BY <1>2, <1>5, <3>2, <3>3, Closing
  <2>2. \A o \in 1 .. MaxCompiles : Agrees(log[o])
    BY AgreesEach DEF RunInv, StoryInv
  <2>3. \A o \in 1 .. MaxCompiles : Agrees(log'[o])
    <3> HIDE DEF e, r
    <3> QED BY <1>4, <2>1, <2>2
  <2> QED BY <2>3 DEF LogsAgree, Agrees, Logged, Said, Ends
<1>13. ReceiptSound'
  BY <1>1, <1>7, <1>8 DEF RunInv, ReceiptSound
<1>14. ReceiptIsTrue'
  <2> SUFFICES ASSUME receipt \notin {Absent, Torn} PROVE ReceiptIsTrue'
    BY <1>1 DEF ReceiptIsTrue
  <2>1. receipt.run \in 1 .. MaxCompiles
    BY DEF RunInv, ReceiptSound
  <2>2. CASE receipt.run = r
    <3>1. memory[p].success
      BY <1>3, <2>2 DEF RunInv, ReceiptSound
    <3>2. Said(log'[receipt.run]) = Logged(receipt.run) \cup {"finished"}
      BY <1>4, <2>2, <3>1
    <3> QED BY <1>1, <3>2 DEF RunInv, ReceiptIsTrue, Logged, Said
  <2>3. CASE receipt.run # r
    <3>1. log'[receipt.run] = log[receipt.run]
      BY <1>4, <2>1, <2>3
    <3> QED BY <1>1, <3>1 DEF RunInv, ReceiptIsTrue, Logged
  <2> QED BY <2>2, <2>3
<1> QED BY <1>9, <1>10, <1>11, <1>12, <1>13, <1>14 DEF RunInv, StoryInv

\* The receipt that is flushed is the plan's own, incomplete, or what it was.
LEMMA FlushKept == ASSUME RunInv, PhaseInv, NEW p \in Procs, FlushReceipt(p) PROVE RunInv'
<1>1. pc[p] = "flush receipt" /\ Goto(p, "exit") /\ UNCHANGED log /\ memory' = [memory EXCEPT ![p].success = TRUE]
  BY DEF FlushReceipt, Step
<1>2. Compiling(p) /\ "exit" \in RunPlaces
  BY <1>1 DEF Compiling, RunPlaces, CompilePlaces
<1>3. IsPlan(memory[p]) /\ DOMAIN memory = Procs /\ memory[p].testing \in BOOLEAN /\ memory[p].success \in BOOLEAN
  BY DEF PhaseInv, RunInv, StoryInv, RunTypes
<1>4. /\ DOMAIN memory' = Procs /\ \A q \in Procs : q # p => memory'[q] = memory[q]
      /\ memory'[p] = [phase |-> memory[p].phase, intent |-> memory[p].intent,
                       testing |-> memory[p].testing, success |-> TRUE]
  BY <1>1, <1>3 DEF IsPlan
<1>5. Story("flush receipt", memory[p], Logged(run[p]))
  BY <1>1, <1>2 DEF RunInv, StoryInv, Stories
<1>6. Emit(p, << >>) /\ << >> \in Seq(Events) /\ Said(<< >>) = {}
  BY <1>1, <1>2, SilentEmit, SaidFew DEF RunInv
<1>7. Story("exit", memory'[p], Logged(run[p]) \cup Said(<< >>))
  BY <1>4, <1>5, <1>6 DEF Story
<1>8. Continues(p, "exit", << >>)
  BY <1>1, <1>2, <1>3, <1>4, <1>6, <1>7 DEF Continues
<1>9. CASE receipt' \in {receipt, Torn}
  BY <1>8, <1>9, RunContinues
<1>10. CASE receipt' = [run |-> run[p], executed |-> memory[p].phase = "Executed"]
  <2>1. StoryInv'
    BY <1>8, StoryContinues DEF RunInv
  <2>2. receipt'.run = run[p] /\ (receipt'.executed <=> memory[p].phase = "Executed")
    BY <1>10
  <2>3. run' = run /\ runs' = runs /\ pc'[p] = "exit"
    BY <1>1 DEF Goto, RunInv, StoryInv, RunTypes
  <2>4. run[p] \in 1 .. MaxCompiles /\ run[p] <= runs
    BY <1>2 DEF RunInv, StoryInv, Numbered
  <2>5. \A q \in Procs : Compiling(q)' /\ run'[q] = run[p] => q = p
    BY <1>2, <2>1, <2>3 DEF StoryInv, Numbered, Compiling
  <2>6. ReceiptSound'
    BY <1>4, <2>2, <2>3, <2>4, <2>5 DEF ReceiptSound
  <2>7. log' = log
    BY <1>1
  <2>8. ReceiptIsTrue'
    BY <1>5, <2>2, <2>7 DEF ReceiptIsTrue, Story, Ends, Logged
  <2> QED BY <2>1, <2>6, <2>8 DEF RunInv
<1> QED BY <1>9, <1>10 DEF FlushReceipt
\* The steps up to the artifact, each of which may be given up
LEMMA EarlyKept ==
  ASSUME RunInv, PhaseInv, NEW p \in Procs,
         \/ ReadSource(p) \/ Refused(p) \/ Throws(p) \/ Tokenize(p) \/ Parse(p) \/ ShadowCompare(p)
         \/ TypeInfer(p) \/ Lower(p) \/ RuntimeInit(p) \/ Codegen(p) \/ CodegenReady(p)
  PROVE  RunInv'
<1>0. Compiling(p) => Story(pc[p], memory[p], Logged(run[p]))
  BY DEF RunInv, StoryInv, Stories
<1>1. receipt' = receipt
  BY DEF ReadSource, Refused, Throws, Tokenize, Parse, ShadowCompare, TypeInfer, Lower, RuntimeInit, Codegen,
     CodegenReady, Advances, compileVars
<1> USE DEF Compiling, RunPlaces, CompilePlaces, LoadPlaces
<1>2. CASE ReadSource(p)
  <2>1. pc[p] = "source" /\ UNCHANGED memory
    BY <1>2 DEF ReadSource
  <2>2. CASE Goto(p, "tokenize") /\ UNCHANGED log
    <3>1. Emit(p, << >>) /\ << >> \in Seq(Events) /\ Said(<< >>) = {}
      BY <2>1, <2>2, SilentEmit, SaidFew DEF RunInv
    <3>2. Story("tokenize", memory[p], Logged(run[p]) \cup Said(<< >>))
      BY <1>0, <2>1, <3>1 DEF Story
    <3> QED BY <1>1, <2>1, <2>2, <3>1, <3>2, KeepsPlan
  <2>3. CASE Goto(p, "exit") /\ Emit(p, <<"Failed", "diagnostic">>)
    <3>1. <<"Failed", "diagnostic">> \in Seq(Events) /\ Said(<<"Failed", "diagnostic">>) = {"Failed", "diagnostic"}
      BY SaidTwo DEF Events, LegalPhases
    <3>2. Story("exit", memory[p], Logged(run[p]) \cup Said(<<"Failed", "diagnostic">>))
      BY <1>0, <2>1, <3>1 DEF Story, Ends
    <3> QED BY <1>1, <2>1, <2>3, <3>1, <3>2, KeepsPlan
  <2> QED BY <1>2, <2>2, <2>3 DEF ReadSource
<1>3. CASE Refused(p)
  <2>1. /\ pc[p] \in {"tokenize", "parse", "shadow", "lower", "jit", "artifact"}
        /\ UNCHANGED memory /\ Goto(p, "exit") /\ Emit(p, <<"diagnostic">>)
    BY <1>3 DEF Refused
  <2>2. <<"diagnostic">> \in Seq(Events) /\ Said(<<"diagnostic">>) = {"diagnostic"}
    BY SaidFew DEF Events
  <2>3. Story("exit", memory[p], Logged(run[p]) \cup Said(<<"diagnostic">>))
    BY <1>0, <2>1, <2>2 DEF Story, Ends
  <2> QED BY <1>1, <2>1, <2>2, <2>3, KeepsPlan
<1>4. CASE Throws(p)
  <2>1. /\ pc[p] \in {"typecheck", "lower", "jit", "codegen", "block failed", "dlopen failed", "artifact", "execute"}
        /\ Goto(p, "exit") /\ Transition(p, TestFinished(p), MarkFailed(memory[p].phase), <<"diagnostic">>)
    BY <1>4 DEF Throws
  <2>2. MarkFailed(memory[p].phase) = "Failed" /\ memory[p].phase # "Failed"
    BY <2>1, LegalCalls DEF PhaseInv, InPhase, LoweredPlaces
  <2>3. <<"diagnostic">> \in Seq(Events) /\ Said(<<"diagnostic">>) = {"diagnostic"}
    BY SaidFew DEF Events
  <2>4. TestFinished(p) \in Seq(Events) /\ Said(TestFinished(p)) = (IF memory[p].testing THEN {"test.finished"} ELSE {})
    BY SaidFew DEF Events, TestFinished
  <2> DEFINE plan == [phase |-> "Failed", intent |-> memory[p].intent, testing |-> FALSE, success |-> memory[p].success]
             said == Logged(run[p]) \cup Said(TestFinished(p))
                       \cup (IF "Failed" = memory[p].phase THEN {} ELSE {"Failed"}) \cup Said(<<"diagnostic">>)
  <2>5. Story("exit", plan, said)
    BY <1>0, <2>1, <2>2, <2>3, <2>4 DEF Story, Ends
  <2> QED BY <1>1, <2>1, <2>2, <2>3, <2>4, <2>5, Transits DEF LegalPhases
<1>5. ASSUME NEW place \in {"parse", "shadow", "lower", "jit", "artifact"}, NEW new \in LegalPhases, Goto(p, place),
             Transition(p, << >>, new, << >>), new # "Executed", memory[p].phase # new, place = "artifact" => new = "CodegenReady",
             pc[p] \in {"tokenize", "parse", "typecheck", "lower", "codegen ready", "block loaded"}
      PROVE  RunInv'
  <2>1. << >> \in Seq(Events) /\ Said(<< >>) = {}
    BY SaidFew
  <2> DEFINE plan == [phase |-> new, intent |-> memory[p].intent, testing |-> FALSE, success |-> memory[p].success]
             said == Logged(run[p]) \cup Said(<< >>)
                       \cup (IF new = memory[p].phase THEN {} ELSE {new}) \cup Said(<< >>)
  <2>2. said = Logged(run[p]) \cup {new}
    BY <1>5, <2>1
  <2>3. Story(place, plan, said)
    BY <1>0, <1>5, <2>2 DEF Story, Ends, LegalPhases
  <2> QED BY <1>1, <1>5, <2>1, <2>3, Transits
<1>6. CASE Tokenize(p)
  <2>1. pc[p] = "tokenize" /\ Goto(p, "parse") /\ Transition(p, << >>, AttachContext(AdoptTokens(memory[p].phase)), << >>)
    BY <1>6 DEF Tokenize, Advances, Step
  <2>2. memory[p].phase = "Empty" /\ AttachContext(AdoptTokens(memory[p].phase)) = "Tokenized"
    BY <2>1, LegalCalls DEF PhaseInv, InPhase
  <2> QED BY <1>5, <2>1, <2>2 DEF LegalPhases
<1>7. CASE Parse(p)
  <2>1. pc[p] = "parse" /\ Goto(p, "shadow") /\ Transition(p, << >>, AttachAst(memory[p].phase), << >>)
    BY <1>7 DEF Parse, Advances, Step
  <2>2. memory[p].phase = "Tokenized" /\ AttachAst(memory[p].phase) = "Parsed"
    BY <2>1, LegalCalls DEF PhaseInv, InPhase
  <2> QED BY <1>5, <2>1, <2>2 DEF LegalPhases
<1>8. CASE TypeInfer(p)
  <2>1. pc[p] = "typecheck" /\ Goto(p, "lower") /\ Transition(p, << >>, MarkTypeChecked(memory[p].phase), << >>)
    BY <1>8 DEF TypeInfer, Advances, Step
  <2>2. memory[p].phase = "Parsed" /\ MarkTypeChecked(memory[p].phase) = "Typed"
    BY <2>1, LegalCalls DEF PhaseInv, InPhase
  <2> QED BY <1>5, <2>1, <2>2 DEF LegalPhases
<1>9. CASE Lower(p) \/ CodegenReady(p)
  <2>1. CASE Lower(p)
    <3>1. pc[p] = "lower" /\ Goto(p, "jit") /\ Transition(p, << >>, AttachIr(memory[p].phase), << >>)
      BY <2>1 DEF Lower, Advances, Step
    <3>2. memory[p].phase = "Typed" /\ AttachIr(memory[p].phase) = "Lowered"
      BY <3>1, LegalCalls DEF PhaseInv, InPhase
    <3> QED BY <1>5, <3>1, <3>2 DEF LegalPhases
  <2>2. CASE CodegenReady(p)
    <3>1. /\ pc[p] \in {"codegen ready", "block loaded"} /\ Goto(p, "artifact")
          /\ Transition(p, << >>, MarkCodegenReady(memory[p].phase), << >>)
      BY <2>2 DEF CodegenReady
    <3>2. memory[p].phase = "Lowered" /\ MarkCodegenReady(memory[p].phase) = "CodegenReady"
      BY <3>1, LegalCalls DEF PhaseInv, InPhase, LoweredPlaces
    <3> QED BY <1>5, <3>1, <3>2 DEF LegalPhases
  <2> QED BY <1>9, <2>1, <2>2
<1>10. CASE ShadowCompare(p) \/ RuntimeInit(p) \/ Codegen(p)
  <2>1. PICK place \in {"typecheck", "codegen", "block", "codegen ready"} : Goto(p, place)
    BY <1>10 DEF ShadowCompare, RuntimeInit, Codegen, Step
  <2>2. pc[p] \in {"shadow", "jit", "codegen"} /\ UNCHANGED <<memory, log>>
    BY <1>10 DEF ShadowCompare, RuntimeInit, Codegen, Step, compileVars
  <2>3. Emit(p, << >>) /\ << >> \in Seq(Events) /\ Said(<< >>) = {}
    BY <2>2, SilentEmit, SaidFew DEF RunInv
  <2>4. Story(place, memory[p], Logged(run[p]) \cup Said(<< >>))
    BY <1>0, <2>2, <2>3 DEF Story
  <2> QED BY <1>1, <2>1, <2>2, <2>3, <2>4, KeepsPlan
<1> QED BY <1>2, <1>3, <1>4, <1>6, <1>7, <1>8, <1>9, <1>10
\* The artifact, the execution, and the receipt's opening
LEMMA LateKept ==
  ASSUME RunInv, PhaseInv, NEW p \in Procs, WriteArtifact(p) \/ Executed(p) \/ RuntimeError(p) \/ OpenReceipt(p)
  PROVE  RunInv'
<1>0. Compiling(p) => Story(pc[p], memory[p], Logged(run[p]))
  BY DEF RunInv, StoryInv, Stories
<1> USE DEF Compiling, RunPlaces, CompilePlaces
<1>1. << >> \in Seq(Events) /\ Said(<< >>) = {}
  BY SaidFew
<1>2. /\ RunFinished(p) \in Seq(Events)
      /\ Said(RunFinished(p)) = {"run.finished"} \cup (IF memory[p].testing THEN {"test.finished"} ELSE {})
  <2>1. TestFinished(p) \in Seq(Events) /\ Said(TestFinished(p)) = (IF memory[p].testing THEN {"test.finished"} ELSE {})
    BY SaidFew DEF Events, TestFinished
  <2>2. <<"run.finished">> \in Seq(Events) /\ Said(<<"run.finished">>) = {"run.finished"}
    BY SaidFew DEF Events
  <2>3. /\ TestFinished(p) \o <<"run.finished">> \in Seq(Events)
        /\ Said(TestFinished(p) \o <<"run.finished">>) = Said(TestFinished(p)) \cup Said(<<"run.finished">>)
    BY <2>1, <2>2, SaidTogether
  <2>4. RunFinished(p) = TestFinished(p) \o <<"run.finished">>
    BY DEF RunFinished
  <2> QED BY <2>1, <2>2, <2>3, <2>4
<1>3. <<"diagnostic">> \in Seq(Events) /\ Said(<<"diagnostic">>) = {"diagnostic"}
  BY SaidFew DEF Events
<1>4. CASE WriteArtifact(p)
  <2>0. pc[p] = "artifact" /\ memory[p].phase = "CodegenReady" /\ receipt' = receipt
    BY <1>4 DEF WriteArtifact, PhaseInv, InPhase
  <2>1. CASE Goto(p, "receipt") /\ UNCHANGED <<memory, log>>
    <3>1. Emit(p, << >>)
      BY <2>0, <2>1, SilentEmit DEF RunInv
    <3>2. Story("receipt", memory[p], Logged(run[p]) \cup Said(<< >>))
      BY <1>0, <1>1, <2>0 DEF Story
    <3> QED BY <1>1, <2>0, <2>1, <3>1, <3>2, KeepsPlan
  <2>2. CASE Goto(p, "execute") /\ Emit(p, <<"run.started">>) /\ UNCHANGED memory
    <3>1. <<"run.started">> \in Seq(Events) /\ Said(<<"run.started">>) = {"run.started"}
      BY SaidFew DEF Events
    <3>2. Story("execute", memory[p], Logged(run[p]) \cup Said(<<"run.started">>))
      BY <1>0, <2>0, <3>1 DEF Story, Ends
    <3> QED BY <2>0, <2>2, <3>1, <3>2, KeepsPlan
  <2>3. CASE /\ Goto(p, "execute") /\ Emit(p, <<"test.started", "run.started">>)
             /\ memory' = [memory EXCEPT ![p].testing = TRUE]
    <3>1. /\ <<"test.started", "run.started">> \in Seq(Events)
          /\ Said(<<"test.started", "run.started">>) = {"test.started", "run.started"}
      BY SaidTwo DEF Events
    <3>2. IsPlan(memory[p]) /\ DOMAIN memory = Procs /\ memory[p].success \in BOOLEAN
      BY DEF PhaseInv, RunInv, StoryInv, RunTypes
    <3>3. /\ DOMAIN memory' = Procs /\ \A q \in Procs : q # p => memory'[q] = memory[q]
          /\ memory'[p] = [phase |-> memory[p].phase, intent |-> memory[p].intent,
                           testing |-> TRUE, success |-> memory[p].success]
      BY <2>3, <3>2 DEF IsPlan
    <3>4. Story("execute", memory'[p], Logged(run[p]) \cup Said(<<"test.started", "run.started">>))
      BY <1>0, <2>0, <3>1, <3>3 DEF Story, Ends
    <3>5. Continues(p, "execute", <<"test.started", "run.started">>)
      BY <2>0, <2>3, <3>1, <3>2, <3>3, <3>4 DEF Continues
    <3> QED BY <2>0, <3>5, RunContinues
  <2> QED BY <1>4, <2>1, <2>2, <2>3 DEF WriteArtifact
<1>5. CASE Executed(p)
  <2>1. pc[p] = "execute" /\ Goto(p, "receipt") /\ receipt' = receipt
        /\ Transition(p, RunFinished(p), MarkExecuted(memory[p].phase), << >>)
    BY <1>5 DEF Executed, Step
  <2>2. memory[p].phase = "CodegenReady" /\ MarkExecuted(memory[p].phase) = "Executed"
    BY <2>1, LegalCalls DEF PhaseInv, InPhase
  <2> DEFINE plan == [phase |-> "Executed", intent |-> memory[p].intent, testing |-> FALSE, success |-> memory[p].success]
             said == Logged(run[p]) \cup Said(RunFinished(p))
                       \cup (IF "Executed" = memory[p].phase THEN {} ELSE {"Executed"}) \cup Said(<< >>)
  <2>3. Story("receipt", plan, said)
    BY <1>0, <1>1, <1>2, <2>1, <2>2 DEF Story, Ends
  <2> QED BY <1>1, <1>2, <2>1, <2>2, <2>3, Transits DEF LegalPhases
<1>6. CASE RuntimeError(p)
  <2>1. pc[p] = "execute" /\ Goto(p, "exit") /\ receipt' = receipt
        /\ Transition(p, RunFinished(p) \o <<"diagnostic">>, MarkFailed(memory[p].phase), << >>)
    BY <1>6 DEF RuntimeError, Step
  <2>2. memory[p].phase = "CodegenReady" /\ MarkFailed(memory[p].phase) = "Failed"
    BY <2>1, LegalCalls DEF PhaseInv, InPhase
  <2>3. /\ RunFinished(p) \o <<"diagnostic">> \in Seq(Events)
        /\ Said(RunFinished(p) \o <<"diagnostic">>) = Said(RunFinished(p)) \cup {"diagnostic"}
    BY ZenonT(60), <1>2, <1>3, SaidTogether
  <2> DEFINE plan == [phase |-> "Failed", intent |-> memory[p].intent, testing |-> FALSE, success |-> memory[p].success]
             said == Logged(run[p]) \cup Said(RunFinished(p) \o <<"diagnostic">>)
                       \cup (IF "Failed" = memory[p].phase THEN {} ELSE {"Failed"}) \cup Said(<< >>)
  <2>4. Story("exit", plan, said)
    BY <1>0, <1>1, <1>2, <2>1, <2>2, <2>3 DEF Story, Ends
  <2> QED BY <1>1, <2>1, <2>2, <2>3, <2>4, Transits DEF LegalPhases
<1>7. CASE OpenReceipt(p)
  <2>0. pc[p] = "receipt" /\ UNCHANGED memory /\ receipt' \in {receipt, Torn}
    BY <1>7 DEF OpenReceipt
  <2>1. CASE Goto(p, "flush receipt") /\ UNCHANGED log
    <3>1. Emit(p, << >>)
      BY <2>0, <2>1, SilentEmit DEF RunInv
    <3>2. Story("flush receipt", memory[p], Logged(run[p]) \cup Said(<< >>))
      BY <1>0, <1>1, <2>0 DEF Story
    <3> QED BY <1>1, <2>0, <2>1, <3>1, <3>2, KeepsPlan
  <2>2. CASE Goto(p, "exit") /\ Emit(p, <<"diagnostic">>)
    <3>1. Story("exit", memory[p], Logged(run[p]) \cup Said(<<"diagnostic">>))
      BY <1>0, <1>3, <2>0 DEF Story, Ends
    <3> QED BY <1>3, <2>0, <2>2, <3>1, KeepsPlan
  <2> QED BY <1>7, <2>1, <2>2 DEF OpenReceipt
<1> QED BY <1>4, <1>5, <1>6, <1>7

LEMMA RunKept == RunInv /\ PhaseInv /\ [ToolchainNext]_toolchainVars => RunInv'
<1> SUFFICES ASSUME RunInv, PhaseInv, [ToolchainNext]_toolchainVars PROVE RunInv'
  OBVIOUS
<1>0. /\ DOMAIN memory = Procs
      /\ \A p \in Procs : memory[p].testing \in BOOLEAN /\ memory[p].success \in BOOLEAN
      /\ \A p \in Procs : Forget(p) => /\ \A q \in Procs : q # p => memory'[q] = memory[q]
                                       /\ memory'[p].testing \in BOOLEAN /\ memory'[p].success \in BOOLEAN
  <2>1. DOMAIN memory = Procs /\ \A p \in Procs : memory[p].testing \in BOOLEAN /\ memory[p].success \in BOOLEAN
    BY DEF PhaseInv, RunInv, StoryInv, RunTypes
  <2>2. NoPlan.testing \in BOOLEAN /\ NoPlan.success \in BOOLEAN
    BY DEF NoPlan, Plan
  <2>3. ASSUME NEW p \in Procs, Forget(p)
        PROVE  memory'[p] = NoPlan /\ \A q \in Procs : q # p => memory'[q] = memory[q]
    BY <2>1, <2>3 DEF Forget
  <2> QED BY <2>1, <2>2, <2>3
<1>1. CASE UNCHANGED toolchainVars
  <2>1. UNCHANGED <<pc, run, runs, memory, log, receipt>>
    BY <1>1 DEF toolchainVars, procVars, compileVars
  <2>2. LogsAgree' /\ ReceiptIsTrue'
    BY <2>1, LeftAlone DEF RunInv, StoryInv
  <2>3. RunTypes' /\ Numbered' /\ ReceiptSound'
    BY <2>1 DEF RunInv, StoryInv, RunTypes, Numbered, ReceiptSound, Compiling
  <2>4. Stories'
    BY <2>1 DEF RunInv, StoryInv, Stories, Compiling, Logged
  <2> QED BY <2>2, <2>3, <2>4 DEF RunInv, StoryInv
<1>2. ASSUME NEW p \in Procs, UsesRegistry(p) PROVE RunInv'
  <2>1. PICK place \in RegistryPlaces : pc' = [pc EXCEPT ![p] = place]
    BY <1>2, RegistryMoves DEF UsesRegistry, ComesTo
  <2>2. UNCHANGED <<memory, log, receipt>>
    BY <1>2 DEF UsesRegistry, compileVars
  <2>3. place \notin RunPlaces
    BY DEF RegistryPlaces, RunPlaces, CompilePlaces, LoadPlaces
  <2>4. UNCHANGED <<run, runs>> \/ (runs' = runs + 1 /\ run' = [run EXCEPT ![p] = runs + 1])
    BY <1>2, RegistryNumbers DEF UsesRegistry
  <2> QED BY <1>0, <2>1, <2>2, <2>3, <2>4, NotCompiling
<1>3. ASSUME NEW p \in Procs, LoadsBlock(p) PROVE RunInv'
  <2>1. PICK place \in LoadPlaces : Goto(p, place)
    BY <1>3, LoadGoes DEF LoadsBlock
  <2>2. UNCHANGED <<memory, log, receipt>>
    BY <1>3 DEF LoadsBlock, compileVars
  <2>3. pc[p] \in LoadPlaces \cup {"block"}
    BY <1>3 DEF LoadsBlock, CacheStep, CacheLookup, OpenCached, RemoveCached, CompileBlock, CheckInstalled, Rename,
       CopyBegin, CopyEnd, OpenInstalled, RemoveBroken, Step, LoadPlaces
  <2>4. Compiling(p) /\ pc[p] # "exit" /\ place \in RunPlaces
    BY <2>3 DEF Compiling, RunPlaces, CompilePlaces, LoadPlaces
  <2>5. Emit(p, << >>) /\ << >> \in Seq(Events) /\ Said(<< >>) = {}
    BY <2>2, <2>4, SilentEmit, SaidFew DEF RunInv
  <2>6. Story(pc[p], memory[p], Logged(run[p]))
    BY <2>4 DEF RunInv, StoryInv, Stories
  <2>7. Story(place, memory[p], Logged(run[p]) \cup Said(<< >>))
    BY <2>3, <2>5, <2>6 DEF Story, LoadPlaces
  <2> QED BY <2>1, <2>2, <2>4, <2>5, <2>7, KeepsPlan
<1>4. ASSUME NEW p \in Procs, Killed(p) PROVE RunInv'
  <2>1. pc' = [pc EXCEPT ![p] = "idle"] /\ UNCHANGED <<run, runs, log, receipt>> /\ Forget(p)
    BY <1>4 DEF Killed, Kill, Goto
  <2>2. "idle" \notin RunPlaces
    BY DEF RunPlaces, LoadPlaces
  <2> QED BY <1>0, <2>1, <2>2, NotCompiling
<1>5. ASSUME NEW p \in Procs, CompileStep(p) PROVE RunInv'
  <2>1. CASE Setup(p)
    <3>1. CASE Goto(p, "idle") /\ Forget(p) /\ UNCHANGED log
      <4>1. pc' = [pc EXCEPT ![p] = "idle"] /\ UNCHANGED <<run, runs, log, receipt>>
        BY <2>1, <3>1 DEF Setup, Goto
      <4>2. "idle" \notin RunPlaces
        BY DEF RunPlaces, LoadPlaces
      <4> QED BY <1>0, <3>1, <4>1, <4>2, NotCompiling
    <3>2. CASE Goto(p, "source") /\ Emit(p, <<"started">>) /\ UNCHANGED memory
      <4>1. pc[p] = "setup" /\ Compiling(p) /\ "source" \in RunPlaces /\ receipt' = receipt
        BY <2>1 DEF Setup, Compiling, RunPlaces, CompilePlaces
      <4>2. <<"started">> \in Seq(Events) /\ Said(<<"started">>) = {"started"}
        BY SaidFew DEF Events
      <4>3. Story("setup", memory[p], Logged(run[p]))
        BY <4>1 DEF RunInv, StoryInv, Stories
      <4>4. Story("source", memory[p], Logged(run[p]) \cup Said(<<"started">>))
        BY <4>2, <4>3 DEF Story, Ends
      <4> QED BY <3>2, <4>1, <4>2, <4>4, KeepsPlan
    <3> QED BY <2>1, <3>1, <3>2 DEF Setup
  <2> QED BY <1>5, <2>1, StartKept, EarlyKept, LateKept, FlushKept, EndKept DEF CompileStep
<1> QED BY <1>1, <1>2, <1>3, <1>4, <1>5 DEF ToolchainNext, Compiles
-----------------------------------------------------------------------------
LEMMA RunAlways == ToolchainSpec => []RunInv
<1>1. ToolchainInit => PhaseInv
  BY DEF ToolchainInit, ProcInit, CompileInit, NoPlan, Plan, PhaseInv, InPhase, IsPlan, LegalPhases, LoweredPlaces, LoadPlaces
<1>2. ToolchainInit => RunInv
  <2> SUFFICES ASSUME ToolchainInit PROVE RunInv
    OBVIOUS
  <2>1. /\ pc = [p \in Procs |-> "idle"] /\ run = [p \in Procs |-> 0] /\ runs = 0
        /\ memory = [p \in Procs |-> NoPlan] /\ log = [r \in 1 .. MaxCompiles |-> << >>] /\ receipt = Absent
    BY DEF ToolchainInit, ProcInit, CompileInit
  <2>2. \A p \in Procs : ~Compiling(p)
    BY <2>1 DEF Compiling, RunPlaces, LoadPlaces
  <2>3. \A r \in 1 .. MaxCompiles : Logged(r) = {}
    BY <2>1 DEF Logged
  <2>4. RunTypes
    BY <2>1, SaidFew DEF RunTypes, NoPlan, Plan
  <2>5. LogsAgree
    BY <2>1, <2>3 DEF LogsAgree
  <2> QED BY <2>1, <2>2, <2>4, <2>5 DEF RunInv, StoryInv, Numbered, Stories, ReceiptSound, ReceiptIsTrue
<1> QED BY <1>1, <1>2, PhaseKept, RunKept, PTL DEF ToolchainSpec

\* What a run leaves tells one story: an event log is closed at most once, by the
\* last event, as finished exactly when it holds no diagnostic, and with every
\* test it opened closed before (main.cpp:4885, 5380), for any number of
\* processes and plans, wherever their steps fail and whenever they are killed.
THEOREM LogsAlwaysAgree == ToolchainSpec => []LogsAgree
<1>1. RunInv => LogsAgree
  BY DEF RunInv, StoryInv
<1> QED BY <1>1, RunAlways, PTL

\* A receipt that can be read is the receipt of a run that did not fail, that
\* generated code, and that executed exactly if it says so (main.cpp:5443),
\* although every plan overwrites the receipt of the others in place.
THEOREM ReceiptAlwaysTrue == ToolchainSpec => []ReceiptIsTrue
<1>1. RunInv => ReceiptIsTrue
  BY DEF RunInv
<1> QED BY <1>1, RunAlways, PTL
=============================================================================
