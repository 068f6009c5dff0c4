---------------------------- MODULE TaskScheduler ----------------------------
(***************************************************************************)
(* The task runtime of src/src/StyioExtern/ExternLib.cpp: StyioTask, the   *)
(* worker pool StyioTaskScheduler, and the styio_task_* entry points the   *)
(* generated code of ||> and ?| calls (CodeGenIO.cpp).                     *)
(*                                                                         *)
(* A thread is the program's main thread or a worker of the pool.  A       *)
(* thread that runs user code (main, or a worker inside a task body) may   *)
(* launch, pull and release tasks; what it holds is its own, the handle    *)
(* table being thread_local.  Each critical section of mu_ is one step;    *)
(* what happens after an unlock (cv_.notify_one, ready.notify_all) is a    *)
(* step of its own, so that lost wake-ups would show.                      *)
(***************************************************************************)
EXTENDS Naturals, Sequences, FiniteSets

CONSTANTS Workers,     \* the threads of workers_
          Main,        \* the program's thread
          Tasks,       \* the StyioTask objects the program may create (bound)
          BatchLimit,  \* how many tasks a worker takes at once: 64 in the code
          Nested,      \* may a task body itself launch tasks?
          Faulty,      \* the tasks whose bodies may raise an error; others never do
          NoTask       \* "no task", a null pointer

ASSUME SchedulerAssumption ==
  /\ Main \notin Workers
  /\ Workers # {} /\ IsFiniteSet(Workers)
  /\ BatchLimit \in Nat \ {0}
  /\ Nested \in BOOLEAN
  /\ Faulty \subseteq Tasks
  /\ NoTask \notin Tasks

Threads == Workers \cup {Main}

\* Subcodes of a runtime error, as far as the runtime tells them apart: an
\* ordinary operation, an unwound exception, an invalid handle, a second pull.
ErrorCodes == {"op", "exception", "invalid", "consumed"}
NoError == "none"

VARIABLES queue,      \* queue_, under mu_
          stopping,   \* stopping_, under mu_
          pc,         \* where each thread is
          batch,      \* worker -> what is left of local_batch, the running task first
          target,     \* thread -> the task its runtime call is about
          asleep,     \* threads blocked inside ready.wait
          err,        \* thread -> g_runtime_error / g_runtime_error_subcode
          handles,    \* thread -> tasks in its handle table
          alive,      \* tasks that are allocated
          created,    \* tasks ever allocated (an address is not reused)
          ctx,        \* tasks whose captured context is not freed yet
          ready,      \* tasks whose ready flag is set
          result,     \* task -> "ok" or error_subcode; Pending until run() writes it
          consumed    \* tasks whose consumed flag is set

Pending == "pending"

vars == <<queue, stopping, pc, batch, target, asleep, err, handles,
          alive, created, ctx, ready, result, consumed>>

schedVars == <<queue, stopping, batch>>
taskVars == <<alive, created, ctx, ready, result, consumed>>

UserPc == {"body", "return", "notify", "pull", "close", "retclose", "exit", "exitclose"}
WorkerPc == UserPc \cup {"unborn", "check", "wait", "next", "publish", "wake", "exited"}
MainPc == UserPc \cup {"stop", "join", "done"}

Init ==
  /\ queue = <<>>
  /\ stopping = FALSE
  /\ pc = [th \in Threads |-> IF th = Main THEN "body" ELSE "unborn"]
  /\ batch = [w \in Workers |-> <<>>]
  /\ target = [th \in Threads |-> NoTask]
  /\ asleep = {}
  /\ err = [th \in Threads |-> NoError]
  /\ handles = [th \in Threads |-> {}]
  /\ alive = {} /\ created = {} /\ ctx = {} /\ ready = {} /\ consumed = {}
  /\ result = [t \in Tasks |-> Pending]

-----------------------------------------------------------------------------
(* Runtime errors: one slot per thread, the first error stays.             *)

SetErrorOnce(e, code) == IF e = NoError THEN code ELSE e

\* An operation of the program fails and the generated code goes on: SCListGet,
\* SCDictGet and the file operations set the error and emit no guard.
MayRaise(th) == th \in Workers => Head(batch[th]) \in Faulty

OpError(th) ==
  /\ pc[th] = "body" /\ MayRaise(th)
  /\ err' = [err EXCEPT ![th] = SetErrorOnce(@, "op")]
  /\ UNCHANGED <<queue, stopping, pc, batch, target, asleep, handles, taskVars>>

-----------------------------------------------------------------------------
(* Launching: styio_task_*_spawn, styio_task_*_ready.                      *)

MayLaunch(th) == pc[th] = "body" /\ (th = Main \/ Nested)

\* new StyioTask, stash_task, ensure_started (the first call creates the
\* workers), and the push of enqueue under mu_.
Spawn(th, t) ==
  /\ MayLaunch(th)
  /\ t \in Tasks \ created
  /\ alive' = alive \cup {t}
  /\ created' = created \cup {t}
  /\ ctx' = ctx \cup {t}
  /\ handles' = [handles EXCEPT ![th] = @ \cup {t}]
  /\ queue' = Append(queue, t)
  /\ pc' = [x \in Threads |-> CASE x = th -> "notify"
                                [] pc[x] = "unborn" -> "check"
                                [] OTHER -> pc[x]]
  /\ UNCHANGED <<stopping, batch, target, asleep, err, ready, result, consumed>>

\* Mutant of NotifyOne: the notification is forgotten.
NotifyNobody(th) ==
  /\ pc[th] = "notify"
  /\ pc' = [pc EXCEPT ![th] = "body"]
  /\ UNCHANGED <<schedVars, target, asleep, err, handles, taskVars>>

\* cv_.notify_one after the unlock: some waiting worker, if there is one.
NotifyOne(th) ==
  LET waiting == {w \in Workers : pc[w] = "wait"} IN
  /\ pc[th] = "notify"
  /\ IF waiting = {}
       THEN pc' = [pc EXCEPT ![th] = "body"]
       ELSE \E w \in waiting : pc' = [pc EXCEPT ![th] = "body", ![w] = "check"]
  /\ UNCHANGED <<schedVars, target, asleep, err, handles, taskVars>>

\* styio_task_*_ready: a task that needs no worker.
SpawnReady(th, t) ==
  /\ MayLaunch(th)
  /\ t \in Tasks \ created
  /\ alive' = alive \cup {t}
  /\ created' = created \cup {t}
  /\ ready' = ready \cup {t}
  /\ result' = [result EXCEPT ![t] = "ok"]
  /\ handles' = [handles EXCEPT ![th] = @ \cup {t}]
  /\ UNCHANGED <<schedVars, pc, target, asleep, err, ctx, consumed>>

-----------------------------------------------------------------------------
(* The worker loop.                                                        *)

\* One pass under mu_: wait unless the predicate holds; leave when stopping
\* with an empty queue; else take a batch, larger than one only when there
\* are more tasks than workers.
BatchSize ==
  LET limit == IF Len(queue) > Cardinality(Workers) THEN BatchLimit ELSE 1
  IN  IF Len(queue) < limit THEN Len(queue) ELSE limit

\* Mutant of WorkerTake: a batch is copied, one task leaves the queue.
WorkerTakePopsOne(w) ==
  /\ pc[w] = "check"
  /\ queue # <<>>
  /\ batch' = [batch EXCEPT ![w] = SubSeq(queue, 1, BatchSize)]
  /\ queue' = Tail(queue)
  /\ pc' = [pc EXCEPT ![w] = "next"]
  /\ UNCHANGED <<stopping, target, asleep, err, handles, taskVars>>

WorkerTake(w) ==
  /\ pc[w] = "check"
  /\ queue # <<>>
  /\ batch' = [batch EXCEPT ![w] = SubSeq(queue, 1, BatchSize)]
  /\ queue' = SubSeq(queue, BatchSize + 1, Len(queue))
  /\ pc' = [pc EXCEPT ![w] = "next"]
  /\ UNCHANGED <<stopping, target, asleep, err, handles, taskVars>>

WorkerWait(w) ==
  /\ pc[w] = "check"
  /\ queue = <<>> /\ ~stopping
  /\ pc' = [pc EXCEPT ![w] = "wait"]
  /\ UNCHANGED <<schedVars, target, asleep, err, handles, taskVars>>

WorkerLeave(w) ==
  /\ pc[w] = "check"
  /\ queue = <<>> /\ stopping
  /\ pc' = [pc EXCEPT ![w] = "exit"]
  /\ UNCHANGED <<schedVars, target, asleep, err, handles, taskVars>>

\* A condition variable may wake a thread without a notification.
SpuriousWake(w) ==
  /\ pc[w] = "wait"
  /\ pc' = [pc EXCEPT ![w] = "check"]
  /\ UNCHANGED <<schedVars, target, asleep, err, handles, taskVars>>

\* Mutant of RunBegin: the error of the task before is not cleared.
RunBeginUncleared(w) ==
  /\ pc[w] = "next"
  /\ batch[w] # <<>>
  /\ pc' = [pc EXCEPT ![w] = "body"]
  /\ UNCHANGED <<schedVars, target, asleep, err, handles, taskVars>>

\* run(): clear the error slot and enter the body; or the batch is finished.
RunBegin(w) ==
  /\ pc[w] = "next"
  /\ batch[w] # <<>>
  /\ err' = [err EXCEPT ![w] = NoError]
  /\ pc' = [pc EXCEPT ![w] = "body"]
  /\ UNCHANGED <<schedVars, target, asleep, handles, taskVars>>

BatchDone(w) ==
  /\ pc[w] = "next"
  /\ batch[w] = <<>>
  /\ pc' = [pc EXCEPT ![w] = "check"]
  /\ UNCHANGED <<schedVars, target, asleep, err, handles, taskVars>>

\* The body is over: the captured context is freed and the result fields are
\* written, before anyone may look at them.
RunEnd(w, outcome) ==
  /\ ctx' = ctx \ {Head(batch[w])}
  /\ result' = [result EXCEPT ![Head(batch[w])] = outcome]
  /\ pc' = [pc EXCEPT ![w] = "publish"]
  /\ UNCHANGED <<schedVars, target, asleep, handles, alive, created, ready, consumed>>

\* It returned: a pending runtime error makes the task a failed one.
BodyReturn(w) ==
  /\ pc[w] \in {"body", "return"}
  /\ RunEnd(w, IF err[w] = NoError THEN "ok" ELSE err[w])
  /\ err' = [err EXCEPT ![w] = NoError]

\* It threw: the error slot stays as the body left it.
BodyThrow(w) ==
  /\ pc[w] = "body" /\ MayRaise(w)
  /\ RunEnd(w, "exception")
  /\ UNCHANGED err

\* ready.store(true, release)
Publish(w) ==
  /\ pc[w] = "publish"
  /\ ready' = ready \cup {Head(batch[w])}
  /\ pc' = [pc EXCEPT ![w] = "wake"]
  /\ UNCHANGED <<schedVars, target, asleep, err, handles, alive, created, ctx, result, consumed>>

\* Mutant of WakeAll: ready.notify_all is forgotten.
WakeNobody(w) ==
  /\ pc[w] = "wake"
  /\ batch' = [batch EXCEPT ![w] = Tail(@)]
  /\ pc' = [pc EXCEPT ![w] = "next"]
  /\ UNCHANGED <<queue, stopping, target, asleep, err, handles, taskVars>>

\* ready.notify_all(): whoever sleeps on this task runs again.
WakeAll(w) ==
  /\ pc[w] = "wake"
  /\ asleep' = {th \in asleep : target[th] # Head(batch[w])}
  /\ batch' = [batch EXCEPT ![w] = Tail(@)]
  /\ pc' = [pc EXCEPT ![w] = "next"]
  /\ UNCHANGED <<queue, stopping, target, err, handles, taskVars>>

-----------------------------------------------------------------------------
(* Pulling, from user code.                                                *)

\* What follows a pull in the generated code, given the error slot e the pull
\* leaves: with a fallback an error is cleared and the program goes on;
\* without one the guard makes the function return.
AfterPull(th, e, fallback) ==
  /\ err' = [err EXCEPT ![th] = IF fallback THEN NoError ELSE e]
  /\ pc' = [pc EXCEPT ![th] = IF e # NoError /\ ~fallback THEN "return" ELSE "body"]
  /\ target' = [target EXCEPT ![th] = NoTask]
  /\ UNCHANGED <<schedVars, asleep, handles>>

\* as_task_handle fails: the handle is not a task of this thread, or it is one
\* of another result kind.
PullInvalid(th, fallback) ==
  /\ pc[th] = "body" /\ MayRaise(th)
  /\ AfterPull(th, SetErrorOnce(err[th], "invalid"), fallback)
  /\ UNCHANGED taskVars

PullBegin(th, t) ==
  /\ pc[th] = "body"
  /\ t \in handles[th]
  /\ pc' = [pc EXCEPT ![th] = "pull"]
  /\ target' = [target EXCEPT ![th] = t]
  /\ UNCHANGED <<schedVars, asleep, err, handles, taskVars>>

\* wait_until_task_ready: ready.wait(false) sleeps only if the flag is unset.
Waiting(th) == pc[th] \in {"pull", "close", "retclose", "exitclose"}

WaitReady(th) ==
  /\ Waiting(th) /\ th \notin asleep
  /\ target[th] \notin ready
  /\ asleep' = asleep \cup {th}
  /\ UNCHANGED <<schedVars, pc, target, err, handles, taskVars>>

\* Mutant of Awake: the caller does not wait for the flag.
AwakeTooSoon(th) == Waiting(th) /\ th \notin asleep

Awake(th) == Waiting(th) /\ th \notin asleep /\ target[th] \in ready

\* as_task_for_pull once the task is ready.  A failed task hands on its error
\* and stays unconsumed; of several pulls of a value one gets it.
PullFailed(th, fallback) ==
  /\ pc[th] = "pull" /\ Awake(th)
  /\ result[target[th]] # "ok"
  /\ AfterPull(th, SetErrorOnce(err[th], result[target[th]]), fallback)
  /\ UNCHANGED taskVars

PullAgain(th, fallback) ==
  /\ pc[th] = "pull" /\ Awake(th)
  /\ result[target[th]] = "ok"
  /\ target[th] \in consumed
  /\ AfterPull(th, SetErrorOnce(err[th], "consumed"), fallback)
  /\ UNCHANGED taskVars

PullValue(th, fallback) ==
  /\ pc[th] = "pull" /\ Awake(th)
  /\ result[target[th]] = "ok"
  /\ target[th] \notin consumed
  /\ consumed' = consumed \cup {target[th]}
  /\ AfterPull(th, err[th], fallback)
  /\ UNCHANGED <<alive, created, ctx, ready, result>>

-----------------------------------------------------------------------------
(* Releasing: styio_task_release from user code or scope cleanup, and the  *)
(* thread-exit cleanup HandleTableCleanup.  The handle is recycled first,  *)
(* then close_task waits for the task and deletes it.                      *)

ClosePc == [body |-> "close", return |-> "retclose", exit |-> "exitclose"]

ReleaseBegin(th, t) ==
  /\ pc[th] \in DOMAIN ClosePc
  /\ t \in handles[th]
  /\ handles' = [handles EXCEPT ![th] = @ \ {t}]
  /\ target' = [target EXCEPT ![th] = t]
  /\ pc' = [pc EXCEPT ![th] = ClosePc[pc[th]]]
  /\ UNCHANGED <<schedVars, asleep, err, taskVars>>

\* Mutant of CloseTask: the task is deleted without waiting for it.
CloseTaskAtOnce(th, from) ==
  /\ pc[th] = ClosePc[from] /\ th \notin asleep
  /\ alive' = alive \ {target[th]}
  /\ target' = [target EXCEPT ![th] = NoTask]
  /\ pc' = [pc EXCEPT ![th] = from]
  /\ UNCHANGED <<schedVars, asleep, err, handles, created, ctx, ready, result, consumed>>

CloseTask(th, from) ==
  /\ pc[th] = ClosePc[from] /\ Awake(th)
  /\ alive' = alive \ {target[th]}
  /\ target' = [target EXCEPT ![th] = NoTask]
  /\ pc' = [pc EXCEPT ![th] = from]
  /\ UNCHANGED <<schedVars, asleep, err, handles, created, ctx, ready, result, consumed>>

\* A thread ends when its handle table is empty: the table's cleanup released
\* what user code left.
WorkerExit(w) ==
  /\ pc[w] = "exit" /\ handles[w] = {}
  /\ pc' = [pc EXCEPT ![w] = "exited"]
  /\ UNCHANGED <<schedVars, target, asleep, err, handles, taskVars>>

-----------------------------------------------------------------------------
(* The end of the program: main returns, its handle table is cleaned up,   *)
(* then the scheduler's destructor stops and joins the workers.            *)

ProgramEnd ==
  /\ pc[Main] \in {"body", "return"}
  /\ pc' = [pc EXCEPT ![Main] = "exit"]
  /\ UNCHANGED <<schedVars, target, asleep, err, handles, taskVars>>

\* Mutant of SetStopping: the scheduler goes before the handle table is empty.
SetStoppingEarly ==
  /\ pc[Main] = "exit"
  /\ stopping' = TRUE
  /\ pc' = [pc EXCEPT ![Main] = "stop"]
  /\ UNCHANGED <<queue, batch, target, asleep, err, handles, taskVars>>

SetStopping ==
  /\ pc[Main] = "exit" /\ handles[Main] = {}
  /\ stopping' = TRUE
  /\ pc' = [pc EXCEPT ![Main] = "stop"]
  /\ UNCHANGED <<queue, batch, target, asleep, err, handles, taskVars>>

\* Mutant of NotifyAllWorkers: no worker is told to stop.
NotifyNoWorkers ==
  /\ pc[Main] = "stop"
  /\ pc' = [pc EXCEPT ![Main] = "join"]
  /\ UNCHANGED <<schedVars, target, asleep, err, handles, taskVars>>

NotifyAllWorkers ==
  /\ pc[Main] = "stop"
  /\ pc' = [x \in Threads |-> CASE x = Main -> "join"
                               [] pc[x] = "wait" -> "check"
                               [] OTHER -> pc[x]]
  /\ UNCHANGED <<schedVars, target, asleep, err, handles, taskVars>>

Join ==
  /\ pc[Main] = "join"
  /\ \A w \in Workers : pc[w] \in {"unborn", "exited"}
  /\ pc' = [pc EXCEPT ![Main] = "done"]
  /\ UNCHANGED <<schedVars, target, asleep, err, handles, taskVars>>

\* The process is gone.
Terminated == pc[Main] = "done" /\ UNCHANGED vars

-----------------------------------------------------------------------------
WorkerStep(w) ==
  \/ WorkerTake(w) \/ WorkerWait(w) \/ WorkerLeave(w)
  \/ RunBegin(w) \/ BatchDone(w) \/ Publish(w) \/ WakeAll(w) \/ WorkerExit(w)

\* The steps a thread takes inside a runtime call, without a choice of the
\* program's: each is due once it can be taken.
CallStep(th) ==
  \/ NotifyOne(th) \/ WaitReady(th)
  \/ \E fallback \in BOOLEAN :
        PullFailed(th, fallback) \/ PullAgain(th, fallback) \/ PullValue(th, fallback)
  \/ \E from \in DOMAIN ClosePc : CloseTask(th, from)

\* Cleanup that runs after the user code: nothing in it is optional.
CleanupStep(th) ==
  \E t \in Tasks : pc[th] = "exit" /\ ReleaseBegin(th, t)

\* What the program chooses to do next.
UserStep(th) ==
  \/ OpError(th)
  \/ \E t \in Tasks : Spawn(th, t) \/ SpawnReady(th, t) \/ PullBegin(th, t)
                       \/ (pc[th] # "exit" /\ ReleaseBegin(th, t))
  \/ \E fallback \in BOOLEAN : PullInvalid(th, fallback)

BodyEnd(w) == BodyReturn(w) \/ BodyThrow(w)

ShutdownStep == SetStopping \/ NotifyAllWorkers \/ Join

Next ==
  \/ \E th \in Threads : UserStep(th) \/ CallStep(th) \/ CleanupStep(th)
  \/ \E w \in Workers : WorkerStep(w) \/ SpuriousWake(w) \/ BodyEnd(w)
  \/ ProgramEnd \/ ShutdownStep \/ Terminated

\* The scheduling the code gets: a thread with something to do runs.  A task
\* body is assumed to end: it cannot go on for ever (strong fairness, because
\* a body that calls the runtime is not ready to return all the time).
Fairness ==
  /\ \A w \in Workers : WF_vars(WorkerStep(w)) /\ SF_vars(BodyEnd(w))
  /\ \A th \in Threads : WF_vars(CallStep(th)) /\ WF_vars(CleanupStep(th))
  /\ WF_vars(ShutdownStep)

Spec == Init /\ [][Next]_vars
FairSpec == Spec /\ Fairness

-----------------------------------------------------------------------------
\* The queue, the batches, the error slots and the task fields have their
\* types; a worker never reaches main's shutdown, nor main a worker's loop.
TypeOK ==
  /\ queue \in Seq(Tasks)
  /\ stopping \in BOOLEAN
  /\ pc \in [Threads -> WorkerPc \cup MainPc]
  /\ pc[Main] \in MainPc /\ \A w \in Workers : pc[w] \in WorkerPc
  /\ batch \in [Workers -> Seq(Tasks)]
  /\ target \in [Threads -> Tasks \cup {NoTask}]
  /\ asleep \subseteq Threads
  /\ err \in [Threads -> ErrorCodes \cup {NoError}]
  /\ handles \in [Threads -> SUBSET Tasks]
  /\ alive \subseteq created /\ created \subseteq Tasks
  /\ ctx \subseteq Tasks /\ ready \subseteq Tasks /\ consumed \subseteq Tasks
  /\ result \in [Tasks -> ErrorCodes \cup {"ok", Pending}]

\* The places a task waits in or runs from: a slot of the queue or of a batch.
Places(t) ==
  {<<Main, i>> : i \in {i \in DOMAIN queue : queue[i] = t}}
    \cup UNION {{<<w, i>> : i \in {i \in DOMAIN batch[w] : batch[w][i] = t}} : w \in Workers}

\* No task is lost and none runs twice: a launched task whose result is not
\* published sits in exactly one place (queue_ or one worker's local_batch),
\* and no task is ever in two, however pushes and batch takes interleave.
OnePlaceEach ==
  \A t \in Tasks : /\ Cardinality(Places(t)) <= 1
                   /\ t \in created \ ready => Cardinality(Places(t)) = 1

\* No thread uses a deleted task: what the queue, a batch (up to publication),
\* a waiting pull or release, or a handle table refers to is still allocated.
NoDangling ==
  /\ \A i \in DOMAIN queue : queue[i] \in alive
  /\ \A w \in Workers : \A i \in DOMAIN batch[w] :
       batch[w][i] \in alive \/ (i = 1 /\ pc[w] = "wake")
  /\ \A th \in Threads : Waiting(th) => target[th] \in alive
  /\ \A th \in Threads : handles[th] \subseteq alive

\* No wake-up is lost, so that a pool hangs only by pulls inside task bodies
\* that wait for each other's queue places.  As long as a worker waits on cv_,
\* every queued task has a notification on its way or a worker about to look
\* at the queue (enqueue notifies after its unlock); and who sleeps on a
\* published task is about to be woken (run() stores ready, then notifies).
NoLostWakeup ==
  /\ (\E w \in Workers : pc[w] = "wait") =>
       Len(queue) <= Cardinality({th \in Threads : pc[th] = "notify"})
                       + Cardinality({w \in Workers : pc[w] = "check"})
  /\ \A th \in asleep : target[th] \in ready =>
       \E w \in Workers : pc[w] = "wake" /\ Head(batch[w]) = target[th]

\* A failure stays with the task that caused it: a task whose body raises
\* nothing succeeds, whatever the worker ran before it (run() clears the
\* worker's error slot, which an exception leaves set).  Bodies that pull
\* other tasks may fail with them, hence ~Nested.
FailuresAreOwn ==
  ~Nested => \A t \in ready \ Faulty : result[t] = "ok"

\* At the end of the process nothing is left: every task is deleted, every
\* captured context freed, no worker has work it never ran.
CleanExit ==
  pc[Main] = "done" => alive = {} /\ ctx = {} /\ queue = <<>> /\ created = ready

-----------------------------------------------------------------------------
(* The scheduler implements one-shot futures.                              *)

Phase(t) ==
  IF t \notin created THEN "unborn"
  ELSE IF t \notin alive THEN "dropped"
  ELSE IF t \notin ready THEN "pending"
  ELSE IF t \in consumed THEN "taken"
  ELSE "complete"

Future == INSTANCE TaskFuture WITH
            Outcomes <- ErrorCodes \cup {"ok"},
            phase <- [t \in Tasks |-> Phase(t)],
            outcome <- [t \in Tasks |-> IF t \in ready THEN result[t] ELSE Pending]

\* A task handle is a one-shot future: StyioTask, the queue, the batches and
\* the atomic flags together behave as TaskFuture says.
ImplementsFuture == Future!FutureSpec

-----------------------------------------------------------------------------
(* Liveness, under Fairness.                                               *)

\* Every launched task completes: no wake-up of cv_ is lost, and a task in a
\* batch behind others gets its turn.
EveryTaskCompletes == \A t \in Tasks : t \in created ~> t \in ready

\* Nobody sleeps for ever in a pull or a release (ready.notify_all comes after
\* the store, and ready.wait compares before it sleeps).
EverySleeperWakes == \A th \in Threads : th \in asleep ~> th \notin asleep

\* The end of main ends the process: cleanup and the join terminate.
ShutdownCompletes == pc[Main] = "exit" ~> pc[Main] = "done"

\* docs/design/Styio-Language-Design.md, 6.8: the fallback of ?| is evaluated
\* only when the pull reports failure or absence.  A pull that obtains the
\* value therefore leaves the thread's error slot as it is.
FallbackOnlyOnFailure ==
  [][\A t \in Tasks : t \in consumed' \ consumed =>
       \A th \in Threads : err[th] # NoError => err'[th] # NoError]_vars
=============================================================================
