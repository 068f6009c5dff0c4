# Styio: a TLA+ verification of the compiler's state, the runtime, the tools and the IDE core

Styio is a compiled language for data streams. Its repository (`src/`) holds a
compiler (tokenizer, parser, type inference, lowering, LLVM code generation, an
ORC JIT), the runtime library its programs are linked against, command-line tools
around them, and an IDE service with an LSP server. This directory models the
parts of it whose correctness depends on long call sequences, on threads or
processes, or on the order of events. Paths below are relative to `src/` (the code
is in `src/src/`).

- [1. The system](#1-the-system)
- [2. The modules](#2-the-modules)
- [3. What TLC checks](#3-what-tlc-checks)
- [4. Where code and documents disagree](#4-where-code-and-documents-disagree)
- [5. What is proved](#5-what-is-proved)
- [6. Not modelled](#6-not-modelled)

## 1. The system

| Part | State it keeps | Operations | What is hard | What makes it correct |
|---|---|---|---|---|
| Task runtime (`StyioExtern/ExternLib.cpp`; `StyioCodeGen/CodeGenIO.cpp` emits the calls) | `StyioTask` objects, the pool's `queue_`, `stopping_`, per-worker `local_batch`, atomic `ready`, a `thread_local` error slot | spawn, ready, pull, release, `worker_loop`, thread exit, `~StyioTaskScheduler` | threads, two wait/notify protocols, deletion racing execution, nested pulls, shutdown order | each task runs once, nothing is used after deletion, nothing leaks, all waits end, a handle is a one-shot future |
| Handle table (`StyioRuntime/HandleTable.hpp`) | slots, free list | acquire, lookup, release, `release_all`, `reserve_stub`, invalidate | slot reuse over long call sequences; closers re-enter the table | free list = vacant slots; a handle means one object until it is released |
| Containers (`ExternLib.cpp`) | lists, dicts, matrices, files in the handle table, active counters | new, clone, insert, set, get, pop, keys, values, release, cleanup | nested containers own handles; clean-up meets them in any order | one owner per container, value semantics, exact counters, everything freed |
| Dict backends (`ExternLib.cpp`) | entries, `index_by_key`, default backend | set, get, clone, switch of the default | a second representation has to follow the first | both are the same ordered map |
| Code generation (`StyioCodeGen/CodeGenG.cpp`) | scope stacks of slots to release, `mutable_variables`, singleton paths, loop stack | open, fill, release and leave a scope; branch, loop, jump; function by function | code emitted once runs on paths the emission never takes | every path releases what its scopes own, once, and nothing else |
| IR optimizer (`StyioLowering/StyioIROptimizer.cpp`) | the IR it rewrites | rewrite match arms in sequences | tests of effects, reads and writes decide what may move | a program shows what it showed before |
| Semantic analysis (`StyioSema/TypeInfer.cpp`) and resource topology (`StyioResourceTopology/`) | names bound, owned, destroyed, pulled; graph of nodes, accesses and orders | visit a statement, enter and leave a body; validate | what is saved and restored around branches, loops and tasks | accepted programs use nothing destroyed, and conflicting bodies are ordered |
| Compilation session, compile plan (`StyioSession/`, `main.cpp`) | phase, owned tokens, AST and IR; event log, receipt | adopt, attach, mark; run a plan | a step that fails, throws or is killed | legal phase calls; log and receipt agree with what happened |
| Native interop (`StyioNative/NativeInterop.cpp`) | the cache of shared objects | look up, compile, move, load | processes share the directory | what compiled loads |
| Package repository (`main.cpp`, `--nano-publish`, `--nano-create`) | marker, blobs, index entries, output directories | publish, fetch, install | processes without locks, crashes | an entry names a complete blob; only such a blob is installed |
| IDE service (`StyioIDE/Service.cpp`) | runtime documents, three queues, canceled ids | did_open, did_change, did_close, foreground requests, drain, background | edits, requests and queued work in any order | no edit loses its diagnostics; no stale answer |
| Virtual file system (`StyioIDE/VFS.cpp`) | documents, snapshot ids, resync flag | open, update (full and delta), close, snapshot_for | edits that cannot be placed; changes on disk | a new id with every new text |
| Semantic database and indexes (`StyioIDE/SemDB.cpp`, `Index.cpp`) | caches by snapshot id, and by item and signature; open, background and persisted indexes | queries, observe, index, drop, merge | eviction, cross-file answers, entries that are never evicted | what is cached under a snapshot was computed from it |
| LSP server (`StyioLSP/Server.cpp`) | message loop, request ids | handle, drain, publish | order of drains and cancellations | diagnostics catch up with every edit |
| HIR (`StyioIDE/HIR.cpp`, `CompilerBridge.cpp`) | items, scopes, symbols, references and the ids given to them; facts of the compiler per item | lower a token sequence, take the facts, resolve a name | text that is half typed: syntax and compiler see different definitions of it | an item shows its own facts; a name means what its scopes say |
| Parser (`StyioParser/`) | token position, call stack, fallbacks per token, diagnostics | parse with either engine, take an attempt back, recover | rollback between the nightly and legacy engines; where to go on after a malformed statement | a strict parse is exact; in the editor a malformed statement costs itself only |
| JIT, profiler, pipeline check, tokenizer, Unicode, AST, tree-sitter layer | – | – | text processing, data types and external tools | – |

How they interact. Generated code calls the runtime by C entry points and keeps
nothing but 64-bit handles; handles index the calling thread's `thread_local`
handle table, whose closers call back into the table for nested containers. A
task moves to a worker thread, whose own handle table and error slot it uses, and
comes back through `ready` and the result fields. In the compiler one pass hands
the next its result: type inference ends with the validation of the resource
topology, lowering validates again and ends with the optimizer, and code
generation walks what is left. `main.cpp` drives the passes through a
`CompilationSession` and reports into files that other processes read; an
`@extern` block goes through a cache of compiled objects that all processes share.
The IDE service runs on its caller's thread: the LSP server (or an embedding host)
calls `IdeService`, which asks `SemanticDB`, which asks the VFS; the database is
told of every snapshot it sees and evicts what belonged to older ones.

`PROJECT.json` lists all parts (`components`), and under `hazards` the places where
this code is hard to test, with the properties that watch each.

## 2. The modules

| Module | Models | Kind |
|---|---|---|
| `TaskScheduler` | the task runtime | component |
| `TaskFuture` | what a task handle promises | abstract specification |
| `HandleTable` | `StyioHandleTable` | component |
| `Containers` | lists, dicts, matrices, files on a handle table | composes `HandleTable` (`INSTANCE`) |
| `DictBackend` | the `ordered-hash` and `linear` dict backends | component |
| `OrderedMap` | what a dict promises | abstract specification |
| `ResourceChecks` | type inference's bookkeeping of resources and tasks, the topology, and a program's threads | component |
| `IrOptimizer` | the optimizer, with the meaning of a program as reference | pure algorithm |
| `CodegenScopes` | code generation's ownership scopes, and the emitted control flow run | component |
| `CompilationSession` | the phases of a compile | operators used by `CompileRun` |
| `HirBuilder` | the walk of `HirBuilder` over the tokens of a document | component |
| `SemanticItems` | the facts of the compiler, the signatures cached per item, and the editing of a document | composes `HirBuilder` |
| `Processes` | commands started, killed, and files written in two steps | base of the four below |
| `CompileRun`, `NativeCache`, `NanoRegistry` | a compile plan, the cache of compiled blocks, the package repository | components |
| `Toolchain` | the three side by side | composition |
| `IdeService` | VFS, semantic database, indexes and request runtime together | composition |
| `LspServer` | the message loop around `IdeService` | composition |
| `ParserRecovery` | the statement level of both parser engines, with recovery | component |
| `FoldTheorems`, `*Proofs` | theorems: see section 5 | proofs |
| `MC*` | symmetry, workspace layouts, and sums of unrelated components, for TLC | model checking |

**TaskScheduler.** One variable per shared field, plus `pc` per thread. A
critical section of `mu_` is one step (`Spawn`, `WorkerTake`, `WorkerWait`,
`SetStopping`); what happens after the unlock is a step of its own: `NotifyOne` is
`cv_.notify_one()` after `enqueue` unlocked, `Publish` is
`ready.store(true, release)` and `WakeAll` the `notify_all` after it, `WaitReady`
and `Awake` are the two halves of `ready.wait`. `RunBegin` and `BodyReturn`/
`BodyThrow` are the two sides of the call of the user's function in
`StyioTask::run`; between them the worker may do everything user code does
(`OpError`, `Spawn`, `PullBegin`, ...). `AfterPull` is the code `SIOFlowBind`
emits after a pull: guard, or fallback with the error slot cleared. `CloseTask`
waits and deletes; `WorkerExit`, `ProgramEnd` and `CleanupStep` are
`HandleTableCleanup` on a worker and on main, followed by the scheduler's
destructor. The three result kinds (i64, f64, string) are one; profile counters
are left out. `SpuriousWake` is the one external definition: condition variables
may wake without a notification.

**HandleTable.** `Fill`, `Recycle`, `Lookup` and `NextId` are operators on a table
value, so that `Containers` uses the same definitions; the actions are the public
methods. `ReleaseAllStep` is one iteration of the loop in `release_all`; between
iterations other methods may be called, as closers do.

**Containers.** A slot's pointer is the object itself: its element kind and items.
`CloneHandle` and `ReleaseHandle` are the recursive deep copy and the recursive
close. An entry point is one action; its effect is a function of table and counters,
applied in the order of the code (copy the new element, release the old one,
store). `roots` is what the program holds. A failing call only sets the error slot
and is not an action here.

**DictBackend.** `FindPos` hashes or scans depending on `runtime_impl`; `CloneDict`
is `clone_dict_storage` with the rebuild of the index; `SetImpl` switches the
default for dicts made later.

**IdeService.** `store` is the VFS and what the database derived from it; every
VFS/SemDB method is an operator on the store, and every `IdeService` method an
action that composes them in the code's order. A text is a number and an edit adds
to it (modulo `TextCount`), so that an edit applied to the wrong text shows. A cached
answer records the texts it was computed from. `editor` is what the user sees, the
reference for resynchronization; `disk` changes at any time.

**LspServer.** `Server::run` as a loop of phases: a message, the drain of one
publication (`drain_semantic_diagnostics`), one background task when none is left,
the next message. Nothing else drives the queues, so what one message left over
waits for the next one. `phase = "host"` is an embedding host that calls `handle` and
`drain_runtime` in any order.

**ParserRecovery.** The recursive descent as a machine with an explicit stack: a frame
for the main loop, a block, a match, the forward list of a function, and an attempt
(`try_parse_..._nightly`) with the cursor it would restore. `Statement` parses one
statement by the engine that `point` names; `Call` is the nightly engine with the
legacy one behind it, `Bridge` its budget; `Unwind` passes an exception through one
frame: a loop recovers (`Boundary` is `recover_to_statement_boundary`), an attempt
restores the cursor and is fatal if `Routed`, the scan of its tokens, said that the
nightly engine covers them. Of an expression a token says which engine accepts
it. `Refused` and `Misplaced` name the places where the code is known to differ from
what the properties say (section 4).

**HirBuilder, SemanticItems.** A token is a string and a position the index of a
token. `HirBuilder` makes items, scopes, symbols and references of them in the order of
the code; `HirIdentityStore` gives one id per key, so an id is its key, and a scope is the
path from the module to it. `Facts` is what the recovering compiler keeps and numbers
per kind and name; items are numbered by themselves, and an item takes the fact of its
number. `signatures` is `type_signature_cache_`, keyed by item and signature text, of which
nothing is ever evicted. Left out: type annotations, `@` resources, receivers, what
imports bring in, and the bodies of types. The user types and deletes lines; asking for
a signature is the step that fills the cache.

**ResourceChecks.** Two machines. While checking, an action is the visit of a
statement by type inference and by the topology builder, with the visitor's throws
as its guard: every program of `MaxStmts` statements that type inference accepts is
checked by some behaviour. `Leave...` and `Else` are what `typeInfer` saves and
restores around a body. `Accept` is `validate_or_throw`. Then the program runs, its
tasks on threads of their own, with arbitrary conditions. A statement refers to a
*slot*: `slot` is `mutable_variables` of the emission, the slot a name stands for where
the statement is emitted, named by the statement that bound it; a task begins with
a copy of its launcher's slots, which is what it captures. Every open opens a file of
its own (paths differ; constant paths that are shared belong to `CodegenScopes`), and
a file remembers the statement that opened it, which thread destroyed it and where. A
running program sees what the checks did not.

**IrOptimizer.** Each test of the optimizer (`Speculatable`, `Reads`, `Written`,
`Transparent`, ...) is an operator on IR records, and `Meaning` runs a program; the
rewriting is checked against the meaning of all programs of a size.

**CodegenScopes.** Emission appends instructions to basic blocks and keeps the
compiler's own stacks; then one of the emitted functions runs, with every outcome
of conditions and of run-time checks. A slot no store has reached is `Garbage`.

**Toolchain.** A process runs one command at a time and may be killed between any
two steps; opening a file truncates it, and until its last write, for ever if the
process dies, it is torn. `CompileRun` follows `main` from the output directories to
the receipt, with every early exit and every throw; `NativeCache` is
`compile_and_load_block`; `NanoRegistry` publishes marker, blob and entry, and
installs what it fetched. The marker is looked for in one step and truncated in
another; naming a temporary file is a step (`NameTemporary`), in which two
processes may hit on one name and share the file from then on.

Each definition's lines are in `PROJECT.json` under `map`.

## 3. What TLC checks

All runs are exhaustive for their bounds.

| Run | Instance | Shows |
|---|---|---|
| `TaskSafety` | 2 workers, 3 tasks, batch limit 2, one faulty task, nested launches | `OnePlaceEach` no task is lost or run twice; `NoDangling` nothing refers to a deleted task; `NoLostWakeup` a queued task is on some thread's way; `CleanExit` nothing is left at process exit |
| `TaskLiveness` | 2 workers, 2 tasks, no nesting, fairness | `FailuresAreOwn`; `ImplementsFuture` (refinement of `TaskFuture`); `EveryTaskCompletes`, `EverySleeperWakes`, `ShutdownCompletes`; no deadlock |
| `Stores` | handle table: 2 kinds, 2 objects, 4 slots; dict: 4 keys, 2 values; containers: 4 slots, 2 elements, six kinds; tools: 2 processes, 3 commands, or 2 if one is a compile plan, 2 contents of one package | `FreeListExact`, `HandleIsStable`, `SweepComplete`; `IndexFollowsEntries`, `ImplementsMap` (refinement of `OrderedMap`); `OwnedOnce`, `CleanupFreesAll`, `ValueSemantics`; `SessionCallsAreLegal`, `LogsAgree`, `ReceiptIsTrue`, `OnlyCompilerFails`, `EntryNamesBlob`, `InstalledIsPublished` |
| `Compiler` | checks: 1 file name, 2 bodies, 6 statements, nesting 2, 3 threads, 3 opened files; optimizer: a match with a rebinding default arm, up to 3 simple statements around and in it; emission: 2 dynamic names, a string, a file, a constant path, 3 statements, nesting 2 | `NoUseAfterDestroy`; `OptimizerKeepsMeaning`; `NoWildRelease`, `ReleasedAtReturn`, `OwnSlotsOnly` |
| `IdeDocument` | service: 1 file, 2 texts, 1 request id, snapshot ids below 6, saves and deletions on disk; parser: every text of up to 6 tokens, strict by both engines and recovering; items: documents of up to 3 lines out of 10, 1 signature asked for | `OpenIndexExact`, `CacheExact`, `AnswersAreCurrent`, `NoEditUndiagnosed`; `StrictParseIsExact`, `RecoveryKeepsTheRest`, `LossIsDiagnosed`; `ItemsShowTheirFacts`, `InnermostIsLexical` |
| `LspServer` | 2 files, one written on disk, 2 texts, 1 request id, snapshot ids below 5, fairness of the loop | `PublishedAtRead`, `ComputedFromBuffers`, `DiagnosticsCatchUp` |
| `TaskFallback`, `TaskOrder`, `CodegenExit`, `IrOptimizer`, `ParserRecovery`, `SemanticItems` | smallest instance | the disagreements of section 4 |

Why the bounds suffice. Three tasks and two workers give a worker a batch of two
while the other worker takes, runs or waits, and let a body launch a task that
another thread's task stands in front of; a batch limit of two makes the limit
bind (the code's 64 would not at this size). The two liveness arguments (lost
`notify_one`, lost `notify_all`) concern one producer and one consumer each; two of
each are there. Four slots hold a container, an element, its copy and the
program's own container, the state in which `set` is most delicate; two elements
allow inserts before and behind another and a dict value that is replaced while a
list holds another copy. Four keys put a looked-up key before,
between and after others.

Six statements are two bodies with a statement in each and two around them, or a
binding, a branch with an alternative, and a use; a nesting of two puts a task in a
task, a branch in a task and a task in a branch. Three statements of emission are a
scope in a scope with something to release, or a branch between two bindings; section 5
proves the same for every size. A command of the toolchain interferes with
another one by a file, so two processes at a time are the least that can; three
commands let an installation meet what two publications left behind, and two contents
are a version published twice with different text. What a compile plan shares, it shares
with one command more.

Indexing the workspace takes one snapshot id per file, and so does every open and
every edit. One file has four ids left in `IdeDocument`, for an open, an edit, a
change on disk after the close, and a reopen. Two files are the least at which one
file's work can disturb the other's: `LspServer` leaves them two ids (both files
opened, or one opened and edited). An edit of a file while the other is open and
requested is beyond these bounds; it exceeds what TLC explores in five minutes.

Six tokens are a malformed binding in a block with something sound before or
behind it, a match with an arm and what comes after it, or a function with a block; the budget of four fallbacks per token binds for nested guards.
Three lines are a function opened, something in it and its end, a definition in a block,
or a call of a function and its two definitions; the ten lines bind and use one name in
every way a scope can hold it.

Every property has a mutant of the code's definition (a dropped notification, a
slot not taken off the free list, a kept index entry, a branch that restores too
much, a scope that is not popped, a receipt written too early, ...) that TLC finds
violated at the same bounds; they are listed in `PROJECT.json`.

In `TaskSafety` a deadlock is not an error, because nested pulls really can block
the whole pool (section 4). `Compiler`, `CodegenExit`, `TaskOrder`, `IrOptimizer` and
`Stores` end when their programs or commands have ended. `Stores`, `Compiler` and
`IdeDocument` are sums: a behaviour is one of a single component, the others stand still; they
share a run and no state. Symmetry is used for workers, for tasks whose bodies
cannot fail, for processes and package contents, in runs without liveness properties only; no
definition chooses between them.

Fairness. `TaskScheduler`: the operating system runs every thread that can run
(weak fairness of the worker loop, runtime calls, cleanup and shutdown), and a
task body ends (strong fairness of `BodyEnd`: a body that keeps calling the
runtime is only ready to return in between). Nothing is assumed of user code in
main. `LspServer`: weak fairness of the two steps `Server::run` takes by itself after
a message; whether another message comes is the client's business, and
`DiagnosticsCatchUp` does not need one. `ParserRecovery`: a parse that can go on goes on.

## 4. Where code and documents disagree

Six runs state what a document says, and TLC finds a behaviour of the code that
does not do it. The quotes are in `PROJECT.json` (`findings`).

- `TaskFallback`: the code after a pull asks for the thread's sticky error slot,
  which an earlier unguarded operation may have set; a successful pull is then
  answered by the fallback, and the earlier error disappears.
- `CodegenExit`: `^^`, `>>` and `<|` emit a branch or a return and no releases, and a
  block whose end has a terminator does not pop its scope. What the scopes own is
  lost on that path; the frames stay on the compiler's stack, so a later pop
  releases their slots at a place where they may not have been initialised. A
  function that ends in a return leaves its frame to main.
- `TaskOrder`: the accesses of a task's body belong to its block's node and are never
  compared, so two tasks that write one file without an order are accepted. An
  order `t => u` is lowered to nothing: it silences the check and orders nothing.
- `IrOptimizer`: whether a rebinding may leave a match arm is decided by the
  statements beside the match; a loop around it, or what follows the enclosing
  block, is not looked at.

- `ParserRecovery`: recovery stops before a closing brace and reports success; the main
  loop starts at the same brace again and never ends, recording a diagnostic each
  time. A stray `}` is enough (`v = 1 }`), and so is balanced text with a malformed
  arm of a match in a block, since the scan does not count the braces that the
  failed statement had opened.
- `SemanticItems`: an item has its parameters from the compiler's facts, and while its body
  is unfinished there are none. A call completed at that time caches a signature without
  parameters; when the body is finished the signature's text, and with it the key, is the
  same, and the call's arguments have no expected type for the rest of the session
  (SemDB.cpp:758; CXX-API.md:154).

Modelled, without a run of their own:

- `>>` on a line behind the block of a function is looked at for ever by both engines,
  in strict mode too (`NewParserExpr.cpp:1137`, `Parser.cpp:4690`); a guard there is
  refused. A binding of the legacy engine in a guard's block is refused when the guard
  itself has fallen back, and while recovering it is diagnosed and dropped in any
  block. A head at the end of the text is accepted with the end as its body.

- In a block that is no function's, `HIR.cpp:614` collects the names twice, with the outer
  scope first, and `reference_at` returns the first: an inner binding does not shadow
  (styio_ide_test.cpp:877). `SemanticItems.LocalBindingsShadow` states the promise.
- A global function of the expected type outranks a parameter of its name: the bonus and
  the penalty of `SemDB.cpp:396` exceed what separates locals from globals (SemDB.cpp:1180;
  CXX-API.md:173); `SemanticItems.LocalsAreSurfaced` states it.
- An item shows the facts of a later definition of its name when the compiler missed one
  before it, malformed or written `f(p) = ..`; `ItemsShowTheirFacts` excepts exactly these.
- A delta that happens to fit clears `needs_full_resync` over a text that misses an
  edit (`VFS.cpp:137`; LSP.md:63). `IdeService.InSync` states the promise.
- Definitions and references are cached under the snapshot of the file asked about
  and served after another open file changed (`SemDB.cpp:1686`; CXX-API.md:203);
  `IdeService.CrossFileFresh` states it.
- A pull inside a task blocks its worker; when all workers are blocked like this
  the pulled tasks never run (one worker is enough).
- A background task queued before `did_open` puts the unsaved buffer into the index
  that CXX-API.md:182 describes as made from files on disk; a file that changed on
  disk while it was open keeps its old index after the close.
- The topology does not look into loops and conditions, and the main program's own
  accesses are never compared with a task's: main may destroy a file that a running
  task reads. A loop's body is checked once, so what it destroys is destroyed again
  by its next turn (`NoUseAfterDestroy` is therefore about statements further down).
- Scopes that are entered by an iteration own neither the iterated temporary list
  nor the line iterator's file handle; a string slot that is overwritten does not
  free what it held; a constant path acquired in a function and in main shares the
  function's slot, and one that was released is not opened again.
- A repository marker that was torn by a crash is never repaired. Publishing a
  version again truncates its blob in place, so a reader may find it torn
  (`reopened`), and an installation that is cut off leaves the old receipt beside
  new files (`damaged`). Archives, fetched blobs and unpacked trees are named by the
  microsecond alone (`styio_now_token_latest`): what two processes make under one
  name may be anything, so a blob copied from a shared archive (`mixed`) and an
  installation that used a shared file (`damaged` too) promise nothing.
  `EntryNamesBlob` and `InstalledIsPublished` except exactly these. The other
  temporary files named so (1743, 2886) belong to fetches over HTTP and from a
  manifest, which are not modelled. `copy_file`, the fallback when a rename fails, writes the cached object in
  place (`copied`, excepted in `OnlyCompilerFails`).
- A read that fails logs a failure while the session stays `Empty`; plans that fail
  in their set-up leave no events; a throw during execution leaves no
  `run.finished`. `LogsAgree` says what does agree.

## 5. What is proved

TLAPS checks the theorems for every value of the constants, from the named
assumptions next to the constants (`SchedulerAssumption`, `HandleTableAssumption`,
`DictAssumption`, `ProcessesAssumption`, `CompilesAssumption`, `ContentsAssumption`,
`IdeAssumption`, `NoneAssumption`, `CodegenAssumption`, `ResourceAssumption`), which say no more than that
sentinels are not members of the sets and that bounds are numbers; `CodegenAssumption` also
that a name is bound in slots of one kind (dynamic, string or file), and
`ResourceAssumption` that a name is bound to files or to bodies.

- `TaskSchedulerProofs`: `TypeCorrect`, `NoDanglingAlways` and `OnePlaceAlways`, for any
  number of workers, tasks and any batch limit, nested or not. None of the
  properties is inductive. `PlaceInv` says that queue and batches hold distinct,
  launched, unpublished tasks (except the one whose worker is between `Publish` and
  `WakeAll`) and that no unpublished task is missing; `OwnerInv` says that every
  allocated task belongs to one handle table entry or one release in progress, and
  that unpublished tasks are allocated. The heart of the argument: only `CloseTask`
  deletes, it deletes published tasks only, and a published task is in no queue
  and no batch except at `wake`.
  On the life of a task, `NoWakeupEverLost`: `CountInv` counts. While a
  worker waits, queued tasks are at most the threads about to notify and the workers
  about to look at the queue; a push adds one to both sides, a batch take removes at
  least one task and one looker, `notify_one` turns a notifier into a looker.
  `SleepInv` follows each sleeper to the worker that will wake it.
  `ExitAlwaysClean` (every allocated task is held by somebody, every context belongs to
  a task to run, and the last worker leaves an empty queue) and `FailuresAlwaysOwn` (the
  error slot is clear when a body that raises nothing runs).
  The refinement `SchedulerImplementsFuture`: five actions map to the five steps of
  `TaskFuture` (`Spawn`, `SpawnReady`, `Publish`, `PullValue`, `CloseTask`), the others to
  stutters.
- `StoreProofs`, on `HandleTable`: `TableTypeCorrect`, `FreeListAlwaysExact`, `SweepAlwaysComplete`,
  `HandleAlwaysStable`. The invariant adds that a vacant slot is not valid, which
  is what keeps `release` from recycling it twice; `FillKeeps` and `RecycleKeeps` are
  the lemmas about the two ways a table changes.
  On `DictBackend`: `DictTypeCorrect`, `IndexAlwaysFollows` and the refinement
  `BackendsImplementMap`. `FindPosRight` shows that with unique keys and an exact index
  the hashed and the scanned position agree; each step then maps to a step of
  `OrderedMap` or a stutter.
- `ToolchainProofs`, for any number of processes, packages and commands, killed
  anywhere. Each property has an invariant of its own, and only the steps of one
  component can disturb it: `CompileMoves`, `CacheMoves` and `RegistryMoves` say at
  which places of a process each component's steps begin and end, and the
  `...Untouched` and `...Local` lemmas dispose of the other components, of
  processes that start, exit or are killed, and of processes elsewhere.
  `OnlyTheCompilerFails`: a cached object is whole or absent unless it was copied in
  place, because it comes by a rename from a file that is named after the process.
  `EntryAlwaysNamesBlob`: a publisher that has copied its blob holds a *sound* content
  (whole, truncated by a later publisher, or copied from a shared archive), and
  soundness is never lost.
  `InstalledAlwaysPublished`: a process that installs has verified the digest of what it
  holds, and counts as cut off until the receipt is written, for good if it shares a
  temporary file; `NamedKept` is the step in which a process changes what another holds.
  `SessionCallsAlwaysLegal`: the session's phase follows from where the process is.
  `LogsAlwaysAgree` and `ReceiptAlwaysTrue`: `Story` says what the log of a plan holds while its process is at a
  place: it is open, a diagnostic means that the process is about to exit without
  success, an open test means that it executes, and between execution and
  receipt the log says *executed* exactly if the phase does. `Numbered` gives every
  plan under way a log of its own; `ReceiptSound` says that the plan of a readable
  receipt has nothing left to report but its end, which is why later events cannot
  make the receipt false. `StoryContinues` and `ReceiptStays` reduce each step of a
  plan to what its events do to its own story.

- `CodegenProofs`, for programs of any size, nested to any depth, over any names and
  paths: `NeverWildRelease`, `ReturnsReleased` and `SlotsKeptApart`. The emitted code has
  *types*: before each instruction, the slots that own what they hold and those that
  hold nothing (`Types`, `Moves`, `Meets`). `Sound` says, while the compiler emits, that
  there is a typing of all code so far in which the type at the insert point owns
  exactly what the open scopes are to release (`Held`), that the blocks which still
  wait for their code expect what the scopes around them own, and that slots are
  registered once, for their own function (`Scoped`). Every visitor is a sequence of steps
  that keep such a typing (`EmitReady`, `EndReady`, `NewBlocksReady`, `ReleaseReady`, ...);
  the `Plain...` lemmas say what a visit that leaves the program *plain* tells of the
  state before it.
  When the program runs, `Running` says that it keeps to the types (`Fits`: handles of
  owning slots are open and distinct, and every open handle has its slot), so the
  theorems follow from the type of the instruction at hand.
- `ResourceProofs`, for programs of any length and nesting: `ResourceTypes` and
  `UseAfterDestroy`. While checking, `BlockInv` says that blocks are nested and the open
  ones on the stack. `Knows` says what the compiler's sets are worth before a statement:
  a name stands for the last statement that bound it and is owned (`SlotsKnown`);
  whatever the program destroys, the name that stands for it is consumed
  (`DestroyedKnown`); a pull that is not known was made by the body of a task that
  has ended (`PullsKnown`). It holds of what is known now and of what
  each open task has saved (`SavedKnown`): the end of a task falls back on that, which is sound
  only because what was owned then is out of reach of the destructions inside
  (`OuterKept`). It makes each statement refer to a binding of its name (`RefersWell`), and
  each destruction and pull the last access that program order allows (`DestroyedOnce`,
  `PulledOnce`). When the program runs, `RunInv` says that a thread stays in its task's
  body wherever it jumps (`InBody`), that its slots hold what their statements opened
  (`SlotsFilled`), and that its pulls were made in its own body (`GotKnown`): two pulls of
  one task by one thread are thus never on two sides of a task's end.
- `FoldTheorems`: a fold over a finite set has a value and obeys its equation, and what
  every step keeps the whole fold keeps; by the least-number principle of
  `WellFoundedInduction`, which needs no operator parameter. The folds of `IdeService` and
  `LspServer` (over dirty, open and workspace documents) are proved about with it.
- `IdeServiceProofs`, for any workspace, texts and request ids: `IdeTypeCorrect`,
  `OpenIndexAlwaysExact`, `CacheAlwaysExact`, `NoEditEverUndiagnosed`,
  `AnswersAlwaysCurrent` and the action property `IdeComputesFromBuffers`. No property is
  inductive. `IInv` adds that snapshot ids are spent and caches never from the future
  (`SoundStore`), that an open document the index misses is dirty (`IndexedOrDirty`), that
  the record of an open document has its visible snapshot (`Visible`), that the queue of
  runs names each document once and open ones only (`QueueSound`), and that what is not
  published is due (`Diagnosed`). The many queries of the database nest and fold; they all
  reduce to two relations on the store: `Quiet` (nothing of an open document is lost, no
  buffer changes) and `Inquiry` (besides, answers are computed from the buffers of all
  open documents), both transitive. Only edits, closes and drops need more.
- `LspServerProofs`, for the message loop around it: `AlwaysPublishedAtRead`,
  `ServerKeepsService` and `ServerComputesFromBuffers`. A handler may ask the service again
  for every location of an answer while it writes it; `Seen` says what these visits may
  do, and each handler then is one query of the service. `RunInv` counts: a message
  leaves at most one run, which is the budget of `Server::run`.

Only model-checked: all liveness (out of the prover's reach); everything about
`Containers`, `ParserRecovery`, `SemanticItems` and `IrOptimizer`, whose algorithms are
recursive operators. Every other safety property of a passing run is a theorem.

`NoDangling` leaves out one access on purpose: `ready.notify_all()` comes after the
store that lets a waiting thread delete the task. The standard library's
implementation uses the address as a key and does not read through it.

## 6. Not modelled

Not modelled because there is nothing a model checker would explore: the tokenizer
and Unicode tables, the grammar below statements, the AST and IR data types, lowering
node by node, the tree-sitter layer, formatting, the JIT wrapper, the profiler.

Not modelled because nothing reaches it: the pulse plans of stream regions (state
slots, ring buffers and pending commits that lowering plans from a `StateDeclAST` and
`CodeGenPulse.cpp` emits). No parser creates a `StateDeclAST`: the syntax is retired
(docs/design/Styio-Language-Design.md, 9.6 and 11.5), only lowering clones the node
(`AstToStyioIR.cpp:1610`) and tests build it by hand.

Left for later, in this order:

1. What imports bring in, the bodies of types, receivers and rename in the database.
2. `main.cpp`'s plain command line, the registry over HTTP, packages from a manifest;
   the arena of `SessionAllocation`.
