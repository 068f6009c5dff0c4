------------------------- MODULE TaskSchedulerProofs -------------------------
(***************************************************************************)
(* Proofs about TaskScheduler for every number of workers and tasks, any   *)
(* batch limit, nested launches allowed or not: its data, the places and   *)
(* owners of tasks, and then the life of a task - whoever sleeps on it is  *)
(* woken, its failures are its own, nothing of it is left when the process *)
(* ends, and its handle is a TaskFuture throughout.                        *)
(***************************************************************************)
EXTENDS TaskScheduler, TLAPS, FiniteSetTheorems, SequenceTheorems

(***************************************************************************)
(* Type correctness needs two facts about control: a worker inside run()   *)
(* has a task, and a published task has a result.                          *)
(***************************************************************************)
RunPc == {"body", "return", "notify", "pull", "close", "retclose", "publish", "wake"}

Running == \A w \in Workers : pc[w] \in RunPc => batch[w] # <<>>

ResultKnown ==
  /\ \A t \in ready : result[t] # Pending
  /\ \A w \in Workers : pc[w] = "publish" => result[Head(batch[w])] # Pending

TypeInv == TypeOK /\ Running /\ ResultKnown

\* A batch is a non-empty prefix of a non-empty queue.
LEMMA BatchSizeBounds ==
  ASSUME TypeOK, queue # <<>>
  PROVE  BatchSize \in 1 .. Len(queue)
<1>1. Cardinality(Workers) \in Nat
  BY SchedulerAssumption, FS_CardinalityType
<1>2. Len(queue) \in Nat \ {0}
  BY EmptySeq DEF TypeOK
<1> QED BY <1>1, <1>2, SchedulerAssumption DEF BatchSize

\* Taking a batch splits the queue.
LEMMA TakeSplits ==
  ASSUME TypeOK, queue # <<>>
  PROVE  LET taken == SubSeq(queue, 1, BatchSize)
             rest  == SubSeq(queue, BatchSize + 1, Len(queue))
         IN  /\ taken \in Seq(Tasks) /\ taken # <<>> /\ Len(taken) = BatchSize
             /\ rest \in Seq(Tasks) /\ Len(rest) = Len(queue) - BatchSize
             /\ \A i \in 1 .. BatchSize : taken[i] = queue[i]
             /\ \A i \in 1 .. Len(rest) : rest[i] = queue[BatchSize + i]
<1> DEFINE taken == SubSeq(queue, 1, BatchSize)
           rest  == SubSeq(queue, BatchSize + 1, Len(queue))
<1>1. BatchSize \in 1 .. Len(queue) /\ Len(queue) \in Nat
  BY BatchSizeBounds DEF TypeOK
<1>2. \A i \in 1 .. Len(queue) : queue[i] \in Tasks
  BY DEF TypeOK
<1>3. /\ taken \in Seq(Tasks) /\ Len(taken) = BatchSize
      /\ \A i \in 1 .. BatchSize : taken[i] = queue[i]
  BY <1>1, <1>2, SubSeqProperties
<1>4. /\ rest \in Seq(Tasks) /\ Len(rest) = Len(queue) - BatchSize
      /\ \A i \in 1 .. Len(rest) : rest[i] = queue[BatchSize + i]
  BY <1>1, <1>2, SubSeqProperties
<1>5. taken # <<>>
  BY <1>1, <1>3
<1> QED BY <1>3, <1>4, <1>5

\* One step per action of TaskScheduler.
LEMMA TypeStep == TypeInv /\ [Next]_vars => TypeInv'
<1> SUFFICES ASSUME TypeInv, [Next]_vars PROVE TypeInv'
  OBVIOUS
<1> USE SchedulerAssumption DEF TypeInv, TypeOK, Running, RunPc, ResultKnown, schedVars, taskVars,
        Threads, WorkerPc, MainPc, UserPc, ErrorCodes, NoError, Pending
<1>1. ASSUME NEW th \in Threads, OpError(th)
     PROVE  TypeInv'
  BY <1>1 DEF OpError, SetErrorOnce
<1>2. ASSUME NEW th \in Threads, NEW t \in Tasks, Spawn(th, t)
     PROVE  TypeInv'
  <2>1. queue' \in Seq(Tasks)
    BY AppendProperties, <1>2 DEF Spawn
  <2>2. /\ pc' \in [Threads -> WorkerPc \cup MainPc]
        /\ pc'[Main] \in MainPc /\ \A w \in Workers : pc'[w] \in WorkerPc
    BY <1>2 DEF Spawn, MayLaunch
  <2>3. Running'
    BY <1>2 DEF Spawn, MayLaunch
  <2>4. ResultKnown'
    BY <1>2 DEF Spawn, MayLaunch
  <2> QED BY <2>1, <2>2, <2>3, <2>4, <1>2 DEF Spawn
<1>3. ASSUME NEW th \in Threads, NotifyOne(th)
     PROVE  TypeInv'
  <2>1. pc[th] = "notify"
    BY <1>3 DEF NotifyOne
  <2>2. \/ pc' = [pc EXCEPT ![th] = "body"]
        \/ \E w \in Workers : pc[w] = "wait" /\ pc' = [pc EXCEPT ![th] = "body", ![w] = "check"]
    BY <1>3 DEF NotifyOne
  <2>a. /\ pc \in [Threads -> WorkerPc \cup MainPc]
        /\ pc[Main] \in MainPc /\ \A w \in Workers : pc[w] \in WorkerPc
    OBVIOUS
  <2>b. /\ "body" \in WorkerPc /\ "body" \in MainPc /\ "check" \in WorkerPc
        /\ "body" \in RunPc /\ "notify" \in RunPc /\ "check" \notin RunPc
    OBVIOUS
  <2>c. Workers \subseteq Threads /\ Main \in Threads /\ Main \notin Workers
    OBVIOUS
  <2> HIDE DEF TypeInv, TypeOK, Running, RunPc, ResultKnown, Threads, WorkerPc, MainPc, UserPc
  <2>3. /\ pc' \in [Threads -> WorkerPc \cup MainPc]
        /\ pc'[Main] \in MainPc /\ \A w \in Workers : pc'[w] \in WorkerPc
    BY <2>2, <2>a, <2>b, <2>c
  <2>4. \A w \in Workers : pc'[w] \in RunPc => pc[w] \in RunPc
    BY <2>1, <2>2, <2>a, <2>b, <2>c
  <2>5. \A w \in Workers : pc'[w] = "publish" => pc[w] = "publish"
    BY <2>1, <2>2, <2>a, <2>b, <2>c
  <2> USE DEF TypeInv, TypeOK, Running, RunPc, ResultKnown, Threads, WorkerPc, MainPc, UserPc
  <2> QED BY <2>3, <2>4, <2>5, <1>3 DEF NotifyOne
<1>4. ASSUME NEW th \in Threads, NEW t \in Tasks, SpawnReady(th, t)
     PROVE  TypeInv'
  BY <1>4 DEF SpawnReady
<1>5. ASSUME NEW th \in Threads, NEW fb \in BOOLEAN, PullInvalid(th, fb)
     PROVE  TypeInv'
  BY <1>5 DEF PullInvalid, AfterPull, SetErrorOnce
<1>6. ASSUME NEW th \in Threads, NEW t \in Tasks, PullBegin(th, t)
     PROVE  TypeInv'
  BY <1>6 DEF PullBegin
<1>7. ASSUME NEW th \in Threads, WaitReady(th)
     PROVE  TypeInv'
  BY <1>7 DEF WaitReady, Waiting
<1>8. ASSUME NEW th \in Threads, NEW fb \in BOOLEAN, PullFailed(th, fb)
     PROVE  TypeInv'
  BY <1>8 DEF PullFailed, AfterPull, SetErrorOnce, Awake, Waiting
<1>9. ASSUME NEW th \in Threads, NEW fb \in BOOLEAN, PullAgain(th, fb)
     PROVE  TypeInv'
  BY <1>9 DEF PullAgain, AfterPull, SetErrorOnce, Awake, Waiting
<1>10. ASSUME NEW th \in Threads, NEW fb \in BOOLEAN, PullValue(th, fb)
     PROVE  TypeInv'
  BY <1>10 DEF PullValue, AfterPull, Awake, Waiting
<1>11. ASSUME NEW th \in Threads, NEW t \in Tasks, ReleaseBegin(th, t)
     PROVE  TypeInv'
  BY <1>11 DEF ReleaseBegin, ClosePc
<1>12. ASSUME NEW th \in Threads, NEW from \in DOMAIN ClosePc, CloseTask(th, from)
     PROVE  TypeInv'
  BY <1>12 DEF CloseTask, ClosePc, Awake, Waiting
<1>13. ASSUME NEW w \in Workers, WorkerTake(w)
     PROVE  TypeInv'
  BY TakeSplits, <1>13 DEF WorkerTake
<1>14. ASSUME NEW w \in Workers, WorkerWait(w)
     PROVE  TypeInv'
  BY <1>14 DEF WorkerWait
<1>15. ASSUME NEW w \in Workers, WorkerLeave(w)
     PROVE  TypeInv'
  BY <1>15 DEF WorkerLeave
<1>16. ASSUME NEW w \in Workers, SpuriousWake(w)
     PROVE  TypeInv'
  BY <1>16 DEF SpuriousWake
<1>17. ASSUME NEW w \in Workers, RunBegin(w)
     PROVE  TypeInv'
  BY <1>17 DEF RunBegin
<1>18. ASSUME NEW w \in Workers, BatchDone(w)
     PROVE  TypeInv'
  BY <1>18 DEF BatchDone
<1>19. ASSUME NEW w \in Workers, BodyReturn(w)
     PROVE  TypeInv'
  BY <1>19 DEF BodyReturn, RunEnd
<1>20. ASSUME NEW w \in Workers, BodyThrow(w)
     PROVE  TypeInv'
  BY <1>20 DEF BodyThrow, RunEnd
<1>21. ASSUME NEW w \in Workers, Publish(w)
     PROVE  TypeInv'
  BY HeadTailProperties, <1>21 DEF Publish
<1>22. ASSUME NEW w \in Workers, WakeAll(w)
     PROVE  TypeInv'
  BY HeadTailProperties, <1>22 DEF WakeAll
<1>23. ASSUME NEW w \in Workers, WorkerExit(w)
     PROVE  TypeInv'
  BY <1>23 DEF WorkerExit
<1>24. CASE ProgramEnd
  BY <1>24 DEF ProgramEnd
<1>25. CASE SetStopping
  BY <1>25 DEF SetStopping
<1>26. CASE NotifyAllWorkers
  BY <1>26 DEF NotifyAllWorkers
<1>27. CASE Join
  BY <1>27 DEF Join
<1>28. CASE UNCHANGED vars
  BY <1>28 DEF vars
<1> HIDE DEF TypeInv, TypeOK, Running, RunPc, ResultKnown, schedVars, taskVars
<1> QED
  BY <1>1, <1>2, <1>3, <1>4, <1>5, <1>6, <1>7, <1>8, <1>9, <1>10, <1>11, <1>12, <1>13, <1>14, <1>15, <1>16, <1>17, <1>18, <1>19, <1>20, <1>21, <1>22, <1>23, <1>24, <1>25, <1>26, <1>27, <1>28
     DEF Next, UserStep, CallStep, CleanupStep, WorkerStep, BodyEnd, ShutdownStep, Terminated

LEMMA InitTypeInv == Init => TypeInv
<1> SUFFICES ASSUME Init PROVE TypeInv
  OBVIOUS
<1>1. pc \in [Threads -> WorkerPc \cup MainPc] /\ pc[Main] \in MainPc
      /\ \A w \in Workers : pc[w] = "unborn"
  BY SchedulerAssumption DEF Init, Threads, WorkerPc, MainPc, UserPc
<1>2. Running /\ ResultKnown
  BY <1>1 DEF Init, Running, RunPc, ResultKnown
<1>3. batch \in [Workers -> Seq(Tasks)] /\ queue \in Seq(Tasks)
  BY EmptySeq DEF Init
<1>4. TypeOK
  BY <1>1, <1>3 DEF Init, TypeOK, WorkerPc, ErrorCodes, NoError, Pending
<1> QED BY <1>2, <1>4 DEF TypeInv

\* The state of the scheduler always has its types (queue_, the batches, the
\* error slots, the flags of StyioTask), in every instance.
THEOREM TypeCorrect == Spec => []TypeOK
<1>2. TypeInv => TypeOK
  BY DEF TypeInv
<1> QED BY InitTypeInv, <1>2, TypeStep, PTL DEF Spec

-----------------------------------------------------------------------------
(***************************************************************************)
(* The inductive invariant.  PlaceInv: the queue and the batches hold      *)
(* distinct launched tasks, none of them published yet except the one its  *)
(* worker is about to announce, and no unpublished task is missing.        *)
(* OwnerInv: every allocated task has one owner, a handle table entry or a *)
(* release in progress, and only published tasks are ever deleted.         *)
(***************************************************************************)
IdlePc == {"unborn", "check", "wait", "exit", "exitclose", "exited"}

QueueInv ==
  /\ \A i \in 1 .. Len(queue) : queue[i] \in created \ ready
  /\ \A i, j \in 1 .. Len(queue) : queue[i] = queue[j] => i = j

BatchInv ==
  /\ \A w \in Workers : \A i \in 1 .. Len(batch[w]) :
       /\ batch[w][i] \in created
       /\ batch[w][i] \in ready <=> (i = 1 /\ pc[w] = "wake")
  /\ \A v, w \in Workers : \A i \in 1 .. Len(batch[v]), j \in 1 .. Len(batch[w]) :
       batch[v][i] = batch[w][j] => v = w /\ i = j
  /\ \A i \in 1 .. Len(queue) : \A w \in Workers : \A j \in 1 .. Len(batch[w]) :
       queue[i] # batch[w][j]
  /\ \A w \in Workers : pc[w] \in IdlePc => batch[w] = <<>>

NoneLost ==
  /\ ready \subseteq created
  /\ \A t \in created \ ready :
       \/ \E i \in 1 .. Len(queue) : queue[i] = t
       \/ \E w \in Workers : \E i \in 1 .. Len(batch[w]) : batch[w][i] = t

PlaceInv == QueueInv /\ BatchInv /\ NoneLost

Closing(th) == pc[th] \in {"close", "retclose", "exitclose"}

OwnerInv ==
  /\ created \ ready \subseteq alive
  /\ \A th \in Threads : handles[th] \subseteq alive
  /\ \A a, b \in Threads : a # b => handles[a] \cap handles[b] = {}
  /\ \A th \in Threads : pc[th] = "pull" => target[th] \in handles[th]
  /\ \A th \in Threads : Closing(th) => target[th] \in alive
  /\ \A a, b \in Threads : Closing(a) => target[a] \notin handles[b]
  /\ \A a, b \in Threads : Closing(a) /\ Closing(b) /\ a # b => target[a] # target[b]

IInv == TypeInv /\ PlaceInv /\ OwnerInv

\* Steps that move no task between places.
LEMMA PlaceFrame ==
  ASSUME PlaceInv, UNCHANGED <<queue, batch, created, ready>>,
         \A w \in Workers : pc'[w] = "wake" <=> pc[w] = "wake",
         \A w \in Workers : pc'[w] \in IdlePc => batch[w] = <<>>
  PROVE  PlaceInv'
<1>1. QueueInv' /\ NoneLost'
  BY DEF PlaceInv, QueueInv, NoneLost
<1>2. BatchInv'
  BY DEF PlaceInv, BatchInv
<1> QED BY <1>1, <1>2 DEF PlaceInv

\* Steps that change no owner.
LEMMA OwnerFrame ==
  ASSUME OwnerInv, UNCHANGED <<created, alive, handles>>, ready \subseteq ready',
         \A th \in Threads : pc'[th] = "pull" => pc[th] = "pull" /\ target'[th] = target[th],
         \A th \in Threads : pc'[th] \in {"close", "retclose", "exitclose"}
                               => Closing(th) /\ target'[th] = target[th]
  PROVE  OwnerInv'
BY DEF OwnerInv, Closing

LEMMA PlaceStep == IInv /\ [Next]_vars => PlaceInv'
<1> SUFFICES ASSUME IInv, [Next]_vars PROVE PlaceInv'
  OBVIOUS
<1>t. TypeInv /\ PlaceInv
  BY DEF IInv
<1> USE SchedulerAssumption
<1>1. ASSUME NEW th \in Threads, OpError(th)
     PROVE  PlaceInv'
  <2>1. /\ UNCHANGED <<queue, batch, created, ready>>
        /\ \A x \in Workers : pc'[x] = "wake" <=> pc[x] = "wake"
        /\ \A x \in Workers : pc'[x] \in IdlePc => batch[x] = <<>>
    BY <1>1, <1>t DEF OpError, SetErrorOnce, IdlePc, TypeInv, TypeOK, Threads, PlaceInv, BatchInv, schedVars, taskVars
  <2> QED BY <2>1, <1>t, PlaceFrame
<1>2. ASSUME NEW th \in Threads, NEW t \in Tasks, Spawn(th, t)
     PROVE  PlaceInv'
  <2>1. /\ t \in Tasks \ created /\ queue' = Append(queue, t)
        /\ created' = created \cup {t} /\ UNCHANGED <<batch, ready>>
        /\ \A w \in Workers : pc'[w] = "wake" <=> pc[w] = "wake"
        /\ \A w \in Workers : pc'[w] \in IdlePc => pc[w] \in IdlePc
    BY <1>2, <1>t DEF Spawn, MayLaunch, TypeInv, TypeOK, Threads, IdlePc
  <2>2. /\ Len(queue') = Len(queue) + 1 /\ Len(queue) \in Nat
        /\ \A i \in 1 .. Len(queue) : queue'[i] = queue[i]
        /\ queue'[Len(queue) + 1] = t
    BY <2>1, <1>t, AppendProperties DEF TypeInv, TypeOK
  <2>3. /\ \A i \in 1 .. Len(queue) : queue[i] # t
        /\ \A w \in Workers : \A i \in 1 .. Len(batch[w]) : batch[w][i] # t
        /\ t \notin ready
    <3>1. t \notin ready
      BY <2>1, <1>t DEF PlaceInv, NoneLost
    <3> QED BY <3>1, <2>1, <1>t DEF PlaceInv, QueueInv, BatchInv
  <2>4. QueueInv'
    BY <2>1, <2>2, <2>3, <1>t DEF PlaceInv, QueueInv
  <2>5. BatchInv'
    BY <2>1, <2>2, <2>3, <1>t DEF PlaceInv, BatchInv
  <2>6. NoneLost'
    BY <2>1, <2>2, <2>3, <1>t DEF PlaceInv, NoneLost
  <2> QED BY <2>4, <2>5, <2>6 DEF PlaceInv
<1>3. ASSUME NEW th \in Threads, NotifyOne(th)
     PROVE  PlaceInv'
  <2>1. /\ UNCHANGED <<queue, batch, created, ready>>
        /\ \A x \in Workers : pc'[x] = "wake" <=> pc[x] = "wake"
        /\ \A x \in Workers : pc'[x] \in IdlePc => batch[x] = <<>>
    BY SMTT(60), <1>3, <1>t DEF NotifyOne, IdlePc, TypeInv, TypeOK, Threads, PlaceInv, BatchInv, schedVars, taskVars
  <2> QED BY <2>1, <1>t, PlaceFrame
<1>4. ASSUME NEW th \in Threads, NEW t \in Tasks, SpawnReady(th, t)
     PROVE  PlaceInv'
  <2>1. /\ t \notin created /\ created' = created \cup {t} /\ ready' = ready \cup {t}
        /\ UNCHANGED <<queue, batch, pc>>
    BY <1>4 DEF SpawnReady, schedVars
  <2>2. QueueInv' /\ NoneLost'
    BY <2>1, <1>t DEF PlaceInv, QueueInv, NoneLost
  <2>3. BatchInv'
    BY <2>1, <1>t DEF PlaceInv, BatchInv
  <2> QED BY <2>2, <2>3 DEF PlaceInv
<1>5. ASSUME NEW th \in Threads, NEW fb \in BOOLEAN, PullInvalid(th, fb)
     PROVE  PlaceInv'
  <2>1. /\ UNCHANGED <<queue, batch, created, ready>>
        /\ \A x \in Workers : pc'[x] = "wake" <=> pc[x] = "wake"
        /\ \A x \in Workers : pc'[x] \in IdlePc => batch[x] = <<>>
    BY <1>5, <1>t DEF PullInvalid, AfterPull, SetErrorOnce, IdlePc, TypeInv, TypeOK, Threads, PlaceInv, BatchInv, schedVars, taskVars
  <2> QED BY <2>1, <1>t, PlaceFrame
<1>6. ASSUME NEW th \in Threads, NEW t \in Tasks, PullBegin(th, t)
     PROVE  PlaceInv'
  <2>1. /\ UNCHANGED <<queue, batch, created, ready>>
        /\ \A x \in Workers : pc'[x] = "wake" <=> pc[x] = "wake"
        /\ \A x \in Workers : pc'[x] \in IdlePc => batch[x] = <<>>
    BY <1>6, <1>t DEF PullBegin, IdlePc, TypeInv, TypeOK, Threads, PlaceInv, BatchInv, schedVars, taskVars
  <2> QED BY <2>1, <1>t, PlaceFrame
<1>7. ASSUME NEW th \in Threads, WaitReady(th)
     PROVE  PlaceInv'
  <2>1. /\ UNCHANGED <<queue, batch, created, ready>>
        /\ \A x \in Workers : pc'[x] = "wake" <=> pc[x] = "wake"
        /\ \A x \in Workers : pc'[x] \in IdlePc => batch[x] = <<>>
    BY <1>7, <1>t DEF WaitReady, Waiting, IdlePc, TypeInv, TypeOK, Threads, PlaceInv, BatchInv, schedVars, taskVars
  <2> QED BY <2>1, <1>t, PlaceFrame
<1>8. ASSUME NEW th \in Threads, NEW fb \in BOOLEAN, PullFailed(th, fb)
     PROVE  PlaceInv'
  <2>1. /\ UNCHANGED <<queue, batch, created, ready>>
        /\ \A x \in Workers : pc'[x] = "wake" <=> pc[x] = "wake"
        /\ \A x \in Workers : pc'[x] \in IdlePc => batch[x] = <<>>
    BY <1>8, <1>t DEF PullFailed, AfterPull, SetErrorOnce, Awake, Waiting, IdlePc, TypeInv, TypeOK, Threads, PlaceInv, BatchInv, schedVars, taskVars
  <2> QED BY <2>1, <1>t, PlaceFrame
<1>9. ASSUME NEW th \in Threads, NEW fb \in BOOLEAN, PullAgain(th, fb)
     PROVE  PlaceInv'
  <2>1. /\ UNCHANGED <<queue, batch, created, ready>>
        /\ \A x \in Workers : pc'[x] = "wake" <=> pc[x] = "wake"
        /\ \A x \in Workers : pc'[x] \in IdlePc => batch[x] = <<>>
    BY <1>9, <1>t DEF PullAgain, AfterPull, SetErrorOnce, Awake, Waiting, IdlePc, TypeInv, TypeOK, Threads, PlaceInv, BatchInv, schedVars, taskVars
  <2> QED BY <2>1, <1>t, PlaceFrame
<1>10. ASSUME NEW th \in Threads, NEW fb \in BOOLEAN, PullValue(th, fb)
     PROVE  PlaceInv'
  <2>1. /\ UNCHANGED <<queue, batch, created, ready>>
        /\ \A x \in Workers : pc'[x] = "wake" <=> pc[x] = "wake"
        /\ \A x \in Workers : pc'[x] \in IdlePc => batch[x] = <<>>
    BY <1>10, <1>t DEF PullValue, AfterPull, Awake, Waiting, IdlePc, TypeInv, TypeOK, Threads, PlaceInv, BatchInv, schedVars, taskVars
  <2> QED BY <2>1, <1>t, PlaceFrame
<1>11. ASSUME NEW th \in Threads, NEW t \in Tasks, ReleaseBegin(th, t)
     PROVE  PlaceInv'
  <2>1. /\ UNCHANGED <<queue, batch, created, ready>>
        /\ \A x \in Workers : pc'[x] = "wake" <=> pc[x] = "wake"
        /\ \A x \in Workers : pc'[x] \in IdlePc => batch[x] = <<>>
    BY <1>11, <1>t DEF ReleaseBegin, ClosePc, IdlePc, TypeInv, TypeOK, Threads, PlaceInv, BatchInv, schedVars, taskVars
  <2> QED BY <2>1, <1>t, PlaceFrame
<1>12. ASSUME NEW th \in Threads, NEW from \in DOMAIN ClosePc, CloseTask(th, from)
     PROVE  PlaceInv'
  <2>1. /\ UNCHANGED <<queue, batch, created, ready>>
        /\ \A x \in Workers : pc'[x] = "wake" <=> pc[x] = "wake"
        /\ \A x \in Workers : pc'[x] \in IdlePc => batch[x] = <<>>
    BY <1>12, <1>t DEF CloseTask, ClosePc, Awake, Waiting, IdlePc, TypeInv, TypeOK, Threads, PlaceInv, BatchInv, schedVars, taskVars
  <2> QED BY <2>1, <1>t, PlaceFrame
<1>13. ASSUME NEW w \in Workers, WorkerTake(w)
     PROVE  PlaceInv'
  <2> DEFINE n == BatchSize
             taken == SubSeq(queue, 1, n)
             rest  == SubSeq(queue, n + 1, Len(queue))
  <2>1. /\ pc[w] = "check" /\ queue # <<>>
        /\ pc' = [pc EXCEPT ![w] = "next"] /\ pc \in [Threads -> WorkerPc \cup MainPc]
        /\ batch' = [batch EXCEPT ![w] = taken] /\ batch \in [Workers -> Seq(Tasks)]
        /\ queue' = rest /\ UNCHANGED <<created, ready>>
    BY <1>13, <1>t DEF WorkerTake, TypeInv, TypeOK, taskVars
  <2>2. /\ n \in 1 .. Len(queue) /\ Len(queue) \in Nat
        /\ Len(taken) = n /\ Len(rest) = Len(queue) - n
        /\ \A i \in 1 .. n : taken[i] = queue[i]
        /\ \A i \in 1 .. Len(rest) : rest[i] = queue[n + i]
    BY SMTT(60), <2>1, <1>t, TakeSplits, BatchSizeBounds DEF TypeInv, TypeOK
  <2> HIDE DEF n, taken, rest
  <2>3. /\ batch'[w] = taken /\ \A v \in Workers \ {w} : batch'[v] = batch[v] /\ pc'[v] = pc[v]
        /\ pc'[w] = "next" /\ batch[w] = <<>>
    BY <2>1, <1>t DEF PlaceInv, BatchInv, IdlePc, Threads
  <2>4. QueueInv'
    <3>1. \A i \in 1 .. Len(rest) : n + i \in 1 .. Len(queue) /\ rest[i] = queue[n + i]
      BY <2>2
    <3>2. \A i, j \in 1 .. Len(rest) : rest[i] = rest[j] => n + i = n + j
      BY <3>1, <1>t DEF PlaceInv, QueueInv
    <3>3. \A i, j \in 1 .. Len(rest) : n + i = n + j => i = j
      BY <2>2
    <3> QED BY <2>1, <3>1, <3>2, <3>3, <1>t DEF PlaceInv, QueueInv
  <2>5. \A v \in Workers : \A i \in 1 .. Len(batch'[v]) :
          /\ batch'[v][i] \in created
          /\ batch'[v][i] \in ready <=> (i = 1 /\ pc'[v] = "wake")
    BY <2>1, <2>2, <2>3, <1>t DEF PlaceInv, QueueInv, BatchInv
  <2>6. \A u, v \in Workers : \A i \in 1 .. Len(batch'[u]), j \in 1 .. Len(batch'[v]) :
          batch'[u][i] = batch'[v][j] => u = v /\ i = j
    <3> SUFFICES ASSUME NEW u \in Workers, NEW v \in Workers, NEW i \in 1 .. Len(batch'[u]),
                        NEW j \in 1 .. Len(batch'[v]), batch'[u][i] = batch'[v][j]
                 PROVE  u = v /\ i = j
      OBVIOUS
    <3>1. CASE u = w /\ v = w
      BY <3>1, <2>2, <2>3, <1>t DEF PlaceInv, QueueInv
    <3>2. CASE u = w /\ v # w
      BY <3>2, <2>2, <2>3, <1>t DEF PlaceInv, BatchInv
    <3>3. CASE u # w /\ v = w
      BY <3>3, <2>2, <2>3, <1>t DEF PlaceInv, BatchInv
    <3>4. CASE u # w /\ v # w
      BY <3>4, <2>2, <2>3, <1>t DEF PlaceInv, BatchInv
    <3> QED BY <3>1, <3>2, <3>3, <3>4
  <2>7. \A i \in 1 .. Len(queue') : \A v \in Workers : \A j \in 1 .. Len(batch'[v]) :
          queue'[i] # batch'[v][j]
    <3> SUFFICES ASSUME NEW i \in 1 .. Len(rest), NEW v \in Workers, NEW j \in 1 .. Len(batch'[v])
                 PROVE  rest[i] # batch'[v][j]
      BY <2>1
    <3>1. CASE v = w
      BY <3>1, <2>2, <2>3, <1>t DEF PlaceInv, QueueInv
    <3>2. CASE v # w
      BY <3>2, <2>2, <2>3, <1>t DEF PlaceInv, BatchInv
    <3> QED BY <3>1, <3>2
  <2>8. BatchInv'
    <3>1. \A v \in Workers : pc'[v] \in IdlePc => batch'[v] = <<>>
      BY <2>1, <2>3, <1>t DEF PlaceInv, BatchInv, IdlePc
    <3>2. created' = created /\ ready' = ready
      BY <2>1
    <3> QED BY <3>1, <3>2, <2>5, <2>6, <2>7 DEF BatchInv
  <2>9. NoneLost'
    <3> SUFFICES ASSUME NEW t \in created \ ready
                 PROVE  \/ \E i \in 1 .. Len(rest) : rest[i] = t
                        \/ \E v \in Workers : \E i \in 1 .. Len(batch'[v]) : batch'[v][i] = t
      BY <2>1, <1>t DEF NoneLost, PlaceInv
    <3>1. CASE \E i \in 1 .. Len(queue) : queue[i] = t
      <4>1. PICK i \in 1 .. Len(queue) : queue[i] = t
        BY <3>1
      <4>2. CASE i <= n
        BY <4>1, <4>2, <2>2, <2>3
      <4>3. CASE i > n
        <5>1. i - n \in 1 .. Len(rest) /\ rest[i - n] = queue[n + (i - n)] /\ n + (i - n) = i
          BY <4>1, <4>3, <2>2
        <5> QED BY <5>1, <4>1
      <4> QED BY <4>2, <4>3, <2>2
    <3>2. CASE \E v \in Workers : \E i \in 1 .. Len(batch[v]) : batch[v][i] = t
      <4>1. PICK v \in Workers : \E i \in 1 .. Len(batch[v]) : batch[v][i] = t
        BY <3>2
      <4>2. v # w
        BY <4>1, <2>3
      <4> QED BY <4>1, <4>2, <2>3
    <3> QED BY <3>1, <3>2, <1>t DEF PlaceInv, NoneLost
  <2> QED BY <2>4, <2>8, <2>9 DEF PlaceInv
<1>14. ASSUME NEW w \in Workers, WorkerWait(w)
     PROVE  PlaceInv'
  <2>1. /\ UNCHANGED <<queue, batch, created, ready>>
        /\ \A x \in Workers : pc'[x] = "wake" <=> pc[x] = "wake"
        /\ \A x \in Workers : pc'[x] \in IdlePc => batch[x] = <<>>
    BY <1>14, <1>t DEF WorkerWait, IdlePc, TypeInv, TypeOK, Threads, PlaceInv, BatchInv, schedVars, taskVars
  <2> QED BY <2>1, <1>t, PlaceFrame
<1>15. ASSUME NEW w \in Workers, WorkerLeave(w)
     PROVE  PlaceInv'
  <2>1. /\ UNCHANGED <<queue, batch, created, ready>>
        /\ \A x \in Workers : pc'[x] = "wake" <=> pc[x] = "wake"
        /\ \A x \in Workers : pc'[x] \in IdlePc => batch[x] = <<>>
    BY <1>15, <1>t DEF WorkerLeave, IdlePc, TypeInv, TypeOK, Threads, PlaceInv, BatchInv, schedVars, taskVars
  <2> QED BY <2>1, <1>t, PlaceFrame
<1>16. ASSUME NEW w \in Workers, SpuriousWake(w)
     PROVE  PlaceInv'
  <2>1. /\ UNCHANGED <<queue, batch, created, ready>>
        /\ \A x \in Workers : pc'[x] = "wake" <=> pc[x] = "wake"
        /\ \A x \in Workers : pc'[x] \in IdlePc => batch[x] = <<>>
    BY <1>16, <1>t DEF SpuriousWake, IdlePc, TypeInv, TypeOK, Threads, PlaceInv, BatchInv, schedVars, taskVars
  <2> QED BY <2>1, <1>t, PlaceFrame
<1>17. ASSUME NEW w \in Workers, RunBegin(w)
     PROVE  PlaceInv'
  <2>1. /\ UNCHANGED <<queue, batch, created, ready>>
        /\ \A x \in Workers : pc'[x] = "wake" <=> pc[x] = "wake"
        /\ \A x \in Workers : pc'[x] \in IdlePc => batch[x] = <<>>
    BY <1>17, <1>t DEF RunBegin, IdlePc, TypeInv, TypeOK, Threads, PlaceInv, BatchInv, schedVars, taskVars
  <2> QED BY <2>1, <1>t, PlaceFrame
<1>18. ASSUME NEW w \in Workers, BatchDone(w)
     PROVE  PlaceInv'
  <2>1. /\ UNCHANGED <<queue, batch, created, ready>>
        /\ \A x \in Workers : pc'[x] = "wake" <=> pc[x] = "wake"
        /\ \A x \in Workers : pc'[x] \in IdlePc => batch[x] = <<>>
    BY <1>18, <1>t DEF BatchDone, IdlePc, TypeInv, TypeOK, Threads, PlaceInv, BatchInv, schedVars, taskVars
  <2> QED BY <2>1, <1>t, PlaceFrame
<1>19. ASSUME NEW w \in Workers, BodyReturn(w)
     PROVE  PlaceInv'
  <2>1. /\ UNCHANGED <<queue, batch, created, ready>>
        /\ \A x \in Workers : pc'[x] = "wake" <=> pc[x] = "wake"
        /\ \A x \in Workers : pc'[x] \in IdlePc => batch[x] = <<>>
    BY <1>19, <1>t DEF BodyReturn, RunEnd, IdlePc, TypeInv, TypeOK, Threads, PlaceInv, BatchInv, schedVars, taskVars
  <2> QED BY <2>1, <1>t, PlaceFrame
<1>20. ASSUME NEW w \in Workers, BodyThrow(w)
     PROVE  PlaceInv'
  <2>1. /\ UNCHANGED <<queue, batch, created, ready>>
        /\ \A x \in Workers : pc'[x] = "wake" <=> pc[x] = "wake"
        /\ \A x \in Workers : pc'[x] \in IdlePc => batch[x] = <<>>
    BY <1>20, <1>t DEF BodyThrow, RunEnd, IdlePc, TypeInv, TypeOK, Threads, PlaceInv, BatchInv, schedVars, taskVars
  <2> QED BY <2>1, <1>t, PlaceFrame
<1>21. ASSUME NEW w \in Workers, Publish(w)
     PROVE  PlaceInv'
  <2> DEFINE t == Head(batch[w])
  <2>1. /\ pc[w] = "publish" /\ batch[w] # <<>> /\ batch \in [Workers -> Seq(Tasks)]
        /\ pc' = [pc EXCEPT ![w] = "wake"] /\ pc \in [Threads -> WorkerPc \cup MainPc]
        /\ ready' = ready \cup {t} /\ UNCHANGED <<queue, batch, created>>
    BY <1>21, <1>t DEF Publish, TypeInv, TypeOK, Running, RunPc, schedVars
  <2>2. 1 \in 1 .. Len(batch[w]) /\ t = batch[w][1]
    BY <2>1
  <2>3. \A v \in Workers : (pc'[v] = IF v = w THEN "wake" ELSE pc[v])
    BY <2>1 DEF Threads
  <2> HIDE DEF t
  <2>4. t \in created /\ t \notin ready
    BY <2>1, <2>2, <1>t DEF PlaceInv, BatchInv
  <2>5. QueueInv'
    BY <2>1, <2>2, <1>t DEF PlaceInv, QueueInv, BatchInv
  <2>6. \A v \in Workers : \A i \in 1 .. Len(batch[v]) :
          batch[v][i] \in ready' <=> (i = 1 /\ pc'[v] = "wake")
    BY <2>1, <2>2, <2>3, <1>t DEF PlaceInv, BatchInv
  <2>7. BatchInv'
    BY <2>1, <2>3, <2>6, <1>t DEF PlaceInv, BatchInv, IdlePc
  <2>8. NoneLost'
    BY <2>1, <2>4, <1>t DEF PlaceInv, NoneLost
  <2> QED BY <2>5, <2>7, <2>8 DEF PlaceInv
<1>22. ASSUME NEW w \in Workers, WakeAll(w)
     PROVE  PlaceInv'
  <2>1. /\ pc[w] = "wake" /\ batch[w] # <<>> /\ batch \in [Workers -> Seq(Tasks)]
        /\ pc' = [pc EXCEPT ![w] = "next"] /\ pc \in [Threads -> WorkerPc \cup MainPc]
        /\ batch' = [batch EXCEPT ![w] = Tail(@)] /\ UNCHANGED <<queue, created, ready>>
    BY <1>22, <1>t DEF WakeAll, TypeInv, TypeOK, Running, RunPc, taskVars
  <2>2. /\ Len(batch'[w]) = Len(batch[w]) - 1 /\ Len(batch[w]) \in Nat
        /\ \A i \in 1 .. Len(batch'[w]) : batch'[w][i] = batch[w][i + 1]
    BY <2>1, HeadTailProperties
  <2>3. /\ \A v \in Workers \ {w} : batch'[v] = batch[v] /\ pc'[v] = pc[v]
        /\ pc'[w] = "next"
    BY <2>1 DEF Threads
  <2>4. QueueInv'
    BY <2>1, <1>t DEF PlaceInv, QueueInv
  <2>5. BatchInv'
    <3>0. \A i \in 1 .. Len(batch'[w]) : /\ i \in Nat /\ i + 1 \in 1 .. Len(batch[w])
                                          /\ batch'[w][i] = batch[w][i + 1]
      BY <2>2
    <3>1. \A v \in Workers : \A i \in 1 .. Len(batch'[v]) :
            /\ batch'[v][i] \in created
            /\ batch'[v][i] \in ready <=> (i = 1 /\ pc'[v] = "wake")
      BY <2>1, <2>2, <2>3, <1>t DEF PlaceInv, BatchInv
    <3>2. \A u, v \in Workers : \A i \in 1 .. Len(batch'[u]), j \in 1 .. Len(batch'[v]) :
            batch'[u][i] = batch'[v][j] => u = v /\ i = j
      <4> SUFFICES ASSUME NEW u \in Workers, NEW v \in Workers, NEW i \in 1 .. Len(batch'[u]),
                          NEW j \in 1 .. Len(batch'[v]), batch'[u][i] = batch'[v][j]
                   PROVE  u = v /\ i = j
        OBVIOUS
      <4>1. CASE u = w /\ v = w
        <5>1. /\ i \in Nat /\ j \in Nat /\ batch[w][i + 1] = batch[w][j + 1]
              /\ i + 1 \in 1 .. Len(batch[w]) /\ j + 1 \in 1 .. Len(batch[w])
          BY <4>1, <3>0
        <5>2. i + 1 = j + 1
          BY <5>1, <1>t DEF PlaceInv, BatchInv
        <5> QED BY <5>1, <5>2, <4>1
      <4>2. CASE u = w /\ v # w
        <5>1. /\ batch[w][i + 1] = batch[v][j] /\ i + 1 \in 1 .. Len(batch[w])
              /\ j \in 1 .. Len(batch[v])
          BY <4>2, <3>0, <2>3
        <5> QED BY <5>1, <4>2, <1>t DEF PlaceInv, BatchInv
      <4>3. CASE u # w /\ v = w
        <5>1. /\ batch[u][i] = batch[w][j + 1] /\ i \in 1 .. Len(batch[u])
              /\ j + 1 \in 1 .. Len(batch[w])
          BY <4>3, <3>0, <2>3
        <5> QED BY <5>1, <4>3, <1>t DEF PlaceInv, BatchInv
      <4>4. CASE u # w /\ v # w
        BY <4>4, <2>3, <1>t DEF PlaceInv, BatchInv
      <4> QED BY <4>1, <4>2, <4>3, <4>4
    <3>3. \A i \in 1 .. Len(queue) : \A v \in Workers : \A j \in 1 .. Len(batch'[v]) :
            queue[i] # batch'[v][j]
      BY <3>0, <2>3, <1>t DEF PlaceInv, BatchInv
    <3>4. \A v \in Workers : pc'[v] \in IdlePc => batch'[v] = <<>>
      BY <2>3, <1>t DEF PlaceInv, BatchInv, IdlePc
    <3>5. queue' = queue /\ created' = created /\ ready' = ready
      BY <2>1
    <3> QED BY <3>1, <3>2, <3>3, <3>4, <3>5 DEF BatchInv
  <2>6. NoneLost'
    <3> SUFFICES ASSUME NEW t \in created \ ready
                 PROVE  \/ \E i \in 1 .. Len(queue) : queue[i] = t
                        \/ \E v \in Workers : \E i \in 1 .. Len(batch'[v]) : batch'[v][i] = t
      BY <2>1, <1>t DEF NoneLost, PlaceInv
    <3>1. CASE \E v \in Workers : \E i \in 1 .. Len(batch[v]) : batch[v][i] = t
      <4>0. PICK v \in Workers : \E i \in 1 .. Len(batch[v]) : batch[v][i] = t
        BY <3>1
      <4>1. PICK i \in 1 .. Len(batch[v]) : batch[v][i] = t
        BY <4>0
      <4>2. CASE v # w
        BY <4>1, <4>2, <2>3
      <4>3. CASE v = w
        <5>1. i # 1
          BY <4>1, <4>3, <2>1, <1>t DEF PlaceInv, BatchInv
        <5>2. i - 1 \in 1 .. Len(batch'[w]) /\ batch'[w][i - 1] = batch[w][(i - 1) + 1]
          BY <4>1, <4>3, <5>1, <2>2
        <5>3. (i - 1) + 1 = i
          BY <4>1, <4>3, <2>2
        <5> QED BY <5>2, <5>3, <4>1, <4>3
      <4> QED BY <4>2, <4>3
    <3> QED BY <3>1, <1>t DEF PlaceInv, NoneLost
  <2> QED BY <2>4, <2>5, <2>6 DEF PlaceInv
<1>23. ASSUME NEW w \in Workers, WorkerExit(w)
     PROVE  PlaceInv'
  <2>1. /\ UNCHANGED <<queue, batch, created, ready>>
        /\ \A x \in Workers : pc'[x] = "wake" <=> pc[x] = "wake"
        /\ \A x \in Workers : pc'[x] \in IdlePc => batch[x] = <<>>
    BY <1>23, <1>t DEF WorkerExit, IdlePc, TypeInv, TypeOK, Threads, PlaceInv, BatchInv, schedVars, taskVars
  <2> QED BY <2>1, <1>t, PlaceFrame
<1>24. CASE ProgramEnd
  <2>1. /\ UNCHANGED <<queue, batch, created, ready>>
        /\ \A x \in Workers : pc'[x] = "wake" <=> pc[x] = "wake"
        /\ \A x \in Workers : pc'[x] \in IdlePc => batch[x] = <<>>
    BY <1>24, <1>t DEF ProgramEnd, IdlePc, TypeInv, TypeOK, Threads, PlaceInv, BatchInv, schedVars, taskVars
  <2> QED BY <2>1, <1>t, PlaceFrame
<1>25. CASE SetStopping
  <2>1. /\ UNCHANGED <<queue, batch, created, ready>>
        /\ \A x \in Workers : pc'[x] = "wake" <=> pc[x] = "wake"
        /\ \A x \in Workers : pc'[x] \in IdlePc => batch[x] = <<>>
    BY <1>25, <1>t DEF SetStopping, IdlePc, TypeInv, TypeOK, Threads, PlaceInv, BatchInv, schedVars, taskVars
  <2> QED BY <2>1, <1>t, PlaceFrame
<1>26. CASE NotifyAllWorkers
  <2>1. /\ UNCHANGED <<queue, batch, created, ready>>
        /\ \A x \in Workers : pc'[x] = "wake" <=> pc[x] = "wake"
        /\ \A x \in Workers : pc'[x] \in IdlePc => batch[x] = <<>>
    BY <1>26, <1>t DEF NotifyAllWorkers, IdlePc, TypeInv, TypeOK, Threads, PlaceInv, BatchInv, schedVars, taskVars
  <2> QED BY <2>1, <1>t, PlaceFrame
<1>27. CASE Join
  <2>1. /\ UNCHANGED <<queue, batch, created, ready>>
        /\ \A x \in Workers : pc'[x] = "wake" <=> pc[x] = "wake"
        /\ \A x \in Workers : pc'[x] \in IdlePc => batch[x] = <<>>
    BY <1>27, <1>t DEF Join, IdlePc, TypeInv, TypeOK, Threads, PlaceInv, BatchInv, schedVars, taskVars
  <2> QED BY <2>1, <1>t, PlaceFrame
<1>28. CASE UNCHANGED vars
  BY <1>28, <1>t, PlaceFrame DEF vars, PlaceInv, BatchInv
<1> QED
  BY <1>1, <1>2, <1>3, <1>4, <1>5, <1>6, <1>7, <1>8, <1>9, <1>10, <1>11, <1>12, <1>13, <1>14, <1>15, <1>16, <1>17, <1>18, <1>19, <1>20, <1>21, <1>22, <1>23, <1>24, <1>25, <1>26, <1>27, <1>28
     DEF Next, UserStep, CallStep, CleanupStep, WorkerStep, BodyEnd, ShutdownStep, Terminated

LEMMA OwnerStep == IInv /\ [Next]_vars => OwnerInv'
<1> SUFFICES ASSUME IInv, [Next]_vars PROVE OwnerInv'
  OBVIOUS
<1>t. TypeInv /\ OwnerInv
  BY DEF IInv
<1> USE SchedulerAssumption
<1>1. ASSUME NEW th \in Threads, OpError(th)
     PROVE  OwnerInv'
  <2>1. /\ UNCHANGED <<created, alive, handles>> /\ ready \subseteq ready'
        /\ \A x \in Threads : pc'[x] = "pull" => pc[x] = "pull" /\ target'[x] = target[x]
        /\ \A x \in Threads : pc'[x] \in {"close", "retclose", "exitclose"}
                               => Closing(x) /\ target'[x] = target[x]
    BY <1>1, <1>t DEF OpError, SetErrorOnce, Closing, TypeInv, TypeOK, Threads, schedVars, taskVars
  <2> QED BY <2>1, <1>t, OwnerFrame
<1>2. ASSUME NEW th \in Threads, NEW t \in Tasks, Spawn(th, t)
     PROVE  OwnerInv'
  <2>1. /\ t \in Tasks \ created /\ created' = created \cup {t} /\ alive' = alive \cup {t}
        /\ handles' = [handles EXCEPT ![th] = @ \cup {t}] /\ handles \in [Threads -> SUBSET Tasks]
        /\ UNCHANGED <<target, ready>> /\ alive \subseteq created
        /\ \A x \in Threads : pc'[x] \in {"pull", "close", "retclose", "exitclose"} => pc'[x] = pc[x]
    BY <1>2, <1>t DEF Spawn, TypeInv, TypeOK
  <2>2. \A x \in Threads : handles'[x] = IF x = th THEN handles[x] \cup {t} ELSE handles[x]
    BY <2>1
  <2>3. \A x \in Threads : t \notin handles[x] /\ (Closing(x) => target[x] # t)
    BY <2>1, <1>t DEF OwnerInv
  <2>4. \A x \in Threads : Closing(x)' => Closing(x)
    BY <2>1 DEF Closing
  <2> QED BY <2>1, <2>2, <2>3, <2>4, <1>t DEF OwnerInv
<1>3. ASSUME NEW th \in Threads, NotifyOne(th)
     PROVE  OwnerInv'
  <2>1. /\ UNCHANGED <<created, alive, handles>> /\ ready \subseteq ready'
        /\ \A x \in Threads : pc'[x] = "pull" => pc[x] = "pull" /\ target'[x] = target[x]
        /\ \A x \in Threads : pc'[x] \in {"close", "retclose", "exitclose"}
                               => Closing(x) /\ target'[x] = target[x]
    BY <1>3, <1>t DEF NotifyOne, Closing, TypeInv, TypeOK, Threads, schedVars, taskVars
  <2> QED BY <2>1, <1>t, OwnerFrame
<1>4. ASSUME NEW th \in Threads, NEW t \in Tasks, SpawnReady(th, t)
     PROVE  OwnerInv'
  <2>1. /\ t \in Tasks \ created /\ created' = created \cup {t} /\ alive' = alive \cup {t}
        /\ handles' = [handles EXCEPT ![th] = @ \cup {t}] /\ handles \in [Threads -> SUBSET Tasks]
        /\ UNCHANGED target /\ ready' = ready \cup {t} /\ alive \subseteq created
        /\ \A x \in Threads : pc'[x] \in {"pull", "close", "retclose", "exitclose"} => pc'[x] = pc[x]
    BY <1>4, <1>t DEF SpawnReady, TypeInv, TypeOK
  <2>2. \A x \in Threads : handles'[x] = IF x = th THEN handles[x] \cup {t} ELSE handles[x]
    BY <2>1
  <2>3. \A x \in Threads : t \notin handles[x] /\ (Closing(x) => target[x] # t)
    BY <2>1, <1>t DEF OwnerInv
  <2>4. \A x \in Threads : Closing(x)' => Closing(x)
    BY <2>1 DEF Closing
  <2> QED BY <2>1, <2>2, <2>3, <2>4, <1>t DEF OwnerInv
<1>5. ASSUME NEW th \in Threads, NEW fb \in BOOLEAN, PullInvalid(th, fb)
     PROVE  OwnerInv'
  <2>1. /\ UNCHANGED <<created, alive, handles>> /\ ready \subseteq ready'
        /\ \A x \in Threads : pc'[x] = "pull" => pc[x] = "pull" /\ target'[x] = target[x]
        /\ \A x \in Threads : pc'[x] \in {"close", "retclose", "exitclose"}
                               => Closing(x) /\ target'[x] = target[x]
    BY <1>5, <1>t DEF PullInvalid, AfterPull, SetErrorOnce, Closing, TypeInv, TypeOK, Threads, schedVars, taskVars
  <2> QED BY <2>1, <1>t, OwnerFrame
<1>6. ASSUME NEW th \in Threads, NEW t \in Tasks, PullBegin(th, t)
     PROVE  OwnerInv'
  <2>1. /\ t \in handles[th] /\ UNCHANGED <<created, alive, handles, ready>>
        /\ \A x \in Threads : /\ pc'[x] = IF x = th THEN "pull" ELSE pc[x]
                              /\ target'[x] = IF x = th THEN t ELSE target[x]
    BY <1>6, <1>t DEF PullBegin, TypeInv, TypeOK, taskVars
  <2> QED BY <2>1, <1>t DEF OwnerInv, Closing
<1>7. ASSUME NEW th \in Threads, WaitReady(th)
     PROVE  OwnerInv'
  <2>1. /\ UNCHANGED <<created, alive, handles>> /\ ready \subseteq ready'
        /\ \A x \in Threads : pc'[x] = "pull" => pc[x] = "pull" /\ target'[x] = target[x]
        /\ \A x \in Threads : pc'[x] \in {"close", "retclose", "exitclose"}
                               => Closing(x) /\ target'[x] = target[x]
    BY <1>7, <1>t DEF WaitReady, Waiting, Closing, TypeInv, TypeOK, Threads, schedVars, taskVars
  <2> QED BY <2>1, <1>t, OwnerFrame
<1>8. ASSUME NEW th \in Threads, NEW fb \in BOOLEAN, PullFailed(th, fb)
     PROVE  OwnerInv'
  <2>1. /\ UNCHANGED <<created, alive, handles>> /\ ready \subseteq ready'
        /\ \A x \in Threads : pc'[x] = "pull" => pc[x] = "pull" /\ target'[x] = target[x]
        /\ \A x \in Threads : pc'[x] \in {"close", "retclose", "exitclose"}
                               => Closing(x) /\ target'[x] = target[x]
    BY <1>8, <1>t DEF PullFailed, AfterPull, SetErrorOnce, Awake, Waiting, Closing, TypeInv, TypeOK, Threads, schedVars, taskVars
  <2> QED BY <2>1, <1>t, OwnerFrame
<1>9. ASSUME NEW th \in Threads, NEW fb \in BOOLEAN, PullAgain(th, fb)
     PROVE  OwnerInv'
  <2>1. /\ UNCHANGED <<created, alive, handles>> /\ ready \subseteq ready'
        /\ \A x \in Threads : pc'[x] = "pull" => pc[x] = "pull" /\ target'[x] = target[x]
        /\ \A x \in Threads : pc'[x] \in {"close", "retclose", "exitclose"}
                               => Closing(x) /\ target'[x] = target[x]
    BY <1>9, <1>t DEF PullAgain, AfterPull, SetErrorOnce, Awake, Waiting, Closing, TypeInv, TypeOK, Threads, schedVars, taskVars
  <2> QED BY <2>1, <1>t, OwnerFrame
<1>10. ASSUME NEW th \in Threads, NEW fb \in BOOLEAN, PullValue(th, fb)
     PROVE  OwnerInv'
  <2>1. /\ UNCHANGED <<created, alive, handles>> /\ ready \subseteq ready'
        /\ \A x \in Threads : pc'[x] = "pull" => pc[x] = "pull" /\ target'[x] = target[x]
        /\ \A x \in Threads : pc'[x] \in {"close", "retclose", "exitclose"}
                               => Closing(x) /\ target'[x] = target[x]
    BY <1>10, <1>t DEF PullValue, AfterPull, Awake, Waiting, Closing, TypeInv, TypeOK, Threads, schedVars, taskVars
  <2> QED BY <2>1, <1>t, OwnerFrame
<1>11. ASSUME NEW th \in Threads, NEW t \in Tasks, ReleaseBegin(th, t)
     PROVE  OwnerInv'
  <2>1. /\ t \in handles[th] /\ UNCHANGED <<created, alive, ready>>
        /\ pc'[th] \in {"close", "retclose", "exitclose"} /\ ~Closing(th) /\ pc[th] # "pull"
        /\ \A x \in Threads \ {th} : pc'[x] = pc[x] /\ target'[x] = target[x]
                                      /\ handles'[x] = handles[x]
        /\ target'[th] = t /\ handles'[th] = handles[th] \ {t}
    BY <1>11, <1>t DEF ReleaseBegin, ClosePc, Closing, TypeInv, TypeOK, taskVars
  <2>2. \A x \in Threads \ {th} : t \notin handles[x]
    BY <2>1, <1>t DEF OwnerInv
  <2>3. \A x \in Threads : Closing(x) => target[x] # t
    BY <2>1, <1>t DEF OwnerInv
  <2>4. t \in alive
    BY <2>1, <1>t DEF OwnerInv
  <2>5. \A x \in Threads \ {th} : Closing(x)' <=> Closing(x)
    BY <2>1 DEF Closing
  <2>6. \A x \in Threads : handles'[x] \subseteq handles[x]
    BY <2>1
  <2>7. /\ \A x \in Threads : pc'[x] = "pull" => target'[x] \in handles'[x]
        /\ \A x \in Threads : Closing(x)' => target'[x] \in alive
    BY <2>1, <2>4, <2>5, <1>t DEF OwnerInv
  <2>8. \A a, b \in Threads : Closing(a)' => target'[a] \notin handles'[b]
    BY <2>1, <2>2, <2>5, <2>6, <1>t DEF OwnerInv
  <2>9. \A a, b \in Threads : Closing(a)' /\ Closing(b)' /\ a # b => target'[a] # target'[b]
    BY <2>1, <2>3, <2>5, <1>t DEF OwnerInv
  <2> QED BY <2>1, <2>6, <2>7, <2>8, <2>9, <1>t DEF OwnerInv
<1>12. ASSUME NEW th \in Threads, NEW from \in DOMAIN ClosePc, CloseTask(th, from)
     PROVE  OwnerInv'
  <2>1. /\ target[th] \in ready /\ alive' = alive \ {target[th]} /\ Closing(th)
        /\ UNCHANGED <<created, ready, handles>> /\ pc'[th] = from
        /\ from \notin {"pull", "close", "retclose", "exitclose"}
        /\ \A x \in Threads \ {th} : pc'[x] = pc[x] /\ target'[x] = target[x]
    BY <1>12, <1>t DEF CloseTask, ClosePc, Awake, Closing, TypeInv, TypeOK, schedVars
  <2>2. \A x \in Threads : target[th] \notin handles[x]
    BY <2>1, <1>t DEF OwnerInv
  <2>3. \A x \in Threads \ {th} : Closing(x) => target[x] # target[th]
    BY <2>1, <1>t DEF OwnerInv
  <2>4. \A x \in Threads : (Closing(x)' => x # th /\ Closing(x)) /\ (pc'[x] = "pull" => x # th)
    BY <2>1 DEF Closing
  <2> QED BY <2>1, <2>2, <2>3, <2>4, <1>t DEF OwnerInv
<1>13. ASSUME NEW w \in Workers, WorkerTake(w)
     PROVE  OwnerInv'
  <2>1. /\ UNCHANGED <<created, alive, handles>> /\ ready \subseteq ready'
        /\ \A x \in Threads : pc'[x] = "pull" => pc[x] = "pull" /\ target'[x] = target[x]
        /\ \A x \in Threads : pc'[x] \in {"close", "retclose", "exitclose"}
                               => Closing(x) /\ target'[x] = target[x]
    BY <1>13, <1>t DEF WorkerTake, Closing, TypeInv, TypeOK, Threads, schedVars, taskVars
  <2> QED BY <2>1, <1>t, OwnerFrame
<1>14. ASSUME NEW w \in Workers, WorkerWait(w)
     PROVE  OwnerInv'
  <2>1. /\ UNCHANGED <<created, alive, handles>> /\ ready \subseteq ready'
        /\ \A x \in Threads : pc'[x] = "pull" => pc[x] = "pull" /\ target'[x] = target[x]
        /\ \A x \in Threads : pc'[x] \in {"close", "retclose", "exitclose"}
                               => Closing(x) /\ target'[x] = target[x]
    BY <1>14, <1>t DEF WorkerWait, Closing, TypeInv, TypeOK, Threads, schedVars, taskVars
  <2> QED BY <2>1, <1>t, OwnerFrame
<1>15. ASSUME NEW w \in Workers, WorkerLeave(w)
     PROVE  OwnerInv'
  <2>1. /\ UNCHANGED <<created, alive, handles>> /\ ready \subseteq ready'
        /\ \A x \in Threads : pc'[x] = "pull" => pc[x] = "pull" /\ target'[x] = target[x]
        /\ \A x \in Threads : pc'[x] \in {"close", "retclose", "exitclose"}
                               => Closing(x) /\ target'[x] = target[x]
    BY <1>15, <1>t DEF WorkerLeave, Closing, TypeInv, TypeOK, Threads, schedVars, taskVars
  <2> QED BY <2>1, <1>t, OwnerFrame
<1>16. ASSUME NEW w \in Workers, SpuriousWake(w)
     PROVE  OwnerInv'
  <2>1. /\ UNCHANGED <<created, alive, handles>> /\ ready \subseteq ready'
        /\ \A x \in Threads : pc'[x] = "pull" => pc[x] = "pull" /\ target'[x] = target[x]
        /\ \A x \in Threads : pc'[x] \in {"close", "retclose", "exitclose"}
                               => Closing(x) /\ target'[x] = target[x]
    BY <1>16, <1>t DEF SpuriousWake, Closing, TypeInv, TypeOK, Threads, schedVars, taskVars
  <2> QED BY <2>1, <1>t, OwnerFrame
<1>17. ASSUME NEW w \in Workers, RunBegin(w)
     PROVE  OwnerInv'
  <2>1. /\ UNCHANGED <<created, alive, handles>> /\ ready \subseteq ready'
        /\ \A x \in Threads : pc'[x] = "pull" => pc[x] = "pull" /\ target'[x] = target[x]
        /\ \A x \in Threads : pc'[x] \in {"close", "retclose", "exitclose"}
                               => Closing(x) /\ target'[x] = target[x]
    BY <1>17, <1>t DEF RunBegin, Closing, TypeInv, TypeOK, Threads, schedVars, taskVars
  <2> QED BY <2>1, <1>t, OwnerFrame
<1>18. ASSUME NEW w \in Workers, BatchDone(w)
     PROVE  OwnerInv'
  <2>1. /\ UNCHANGED <<created, alive, handles>> /\ ready \subseteq ready'
        /\ \A x \in Threads : pc'[x] = "pull" => pc[x] = "pull" /\ target'[x] = target[x]
        /\ \A x \in Threads : pc'[x] \in {"close", "retclose", "exitclose"}
                               => Closing(x) /\ target'[x] = target[x]
    BY <1>18, <1>t DEF BatchDone, Closing, TypeInv, TypeOK, Threads, schedVars, taskVars
  <2> QED BY <2>1, <1>t, OwnerFrame
<1>19. ASSUME NEW w \in Workers, BodyReturn(w)
     PROVE  OwnerInv'
  <2>1. /\ UNCHANGED <<created, alive, handles>> /\ ready \subseteq ready'
        /\ \A x \in Threads : pc'[x] = "pull" => pc[x] = "pull" /\ target'[x] = target[x]
        /\ \A x \in Threads : pc'[x] \in {"close", "retclose", "exitclose"}
                               => Closing(x) /\ target'[x] = target[x]
    BY <1>19, <1>t DEF BodyReturn, RunEnd, Closing, TypeInv, TypeOK, Threads, schedVars, taskVars
  <2> QED BY <2>1, <1>t, OwnerFrame
<1>20. ASSUME NEW w \in Workers, BodyThrow(w)
     PROVE  OwnerInv'
  <2>1. /\ UNCHANGED <<created, alive, handles>> /\ ready \subseteq ready'
        /\ \A x \in Threads : pc'[x] = "pull" => pc[x] = "pull" /\ target'[x] = target[x]
        /\ \A x \in Threads : pc'[x] \in {"close", "retclose", "exitclose"}
                               => Closing(x) /\ target'[x] = target[x]
    BY <1>20, <1>t DEF BodyThrow, RunEnd, Closing, TypeInv, TypeOK, Threads, schedVars, taskVars
  <2> QED BY <2>1, <1>t, OwnerFrame
<1>21. ASSUME NEW w \in Workers, Publish(w)
     PROVE  OwnerInv'
  <2>1. /\ UNCHANGED <<created, alive, handles>> /\ ready \subseteq ready'
        /\ \A x \in Threads : pc'[x] = "pull" => pc[x] = "pull" /\ target'[x] = target[x]
        /\ \A x \in Threads : pc'[x] \in {"close", "retclose", "exitclose"}
                               => Closing(x) /\ target'[x] = target[x]
    BY <1>21, <1>t DEF Publish, Closing, TypeInv, TypeOK, Threads, schedVars, taskVars
  <2> QED BY <2>1, <1>t, OwnerFrame
<1>22. ASSUME NEW w \in Workers, WakeAll(w)
     PROVE  OwnerInv'
  <2>1. /\ UNCHANGED <<created, alive, handles>> /\ ready \subseteq ready'
        /\ \A x \in Threads : pc'[x] = "pull" => pc[x] = "pull" /\ target'[x] = target[x]
        /\ \A x \in Threads : pc'[x] \in {"close", "retclose", "exitclose"}
                               => Closing(x) /\ target'[x] = target[x]
    BY <1>22, <1>t DEF WakeAll, Closing, TypeInv, TypeOK, Threads, schedVars, taskVars
  <2> QED BY <2>1, <1>t, OwnerFrame
<1>23. ASSUME NEW w \in Workers, WorkerExit(w)
     PROVE  OwnerInv'
  <2>1. /\ UNCHANGED <<created, alive, handles>> /\ ready \subseteq ready'
        /\ \A x \in Threads : pc'[x] = "pull" => pc[x] = "pull" /\ target'[x] = target[x]
        /\ \A x \in Threads : pc'[x] \in {"close", "retclose", "exitclose"}
                               => Closing(x) /\ target'[x] = target[x]
    BY <1>23, <1>t DEF WorkerExit, Closing, TypeInv, TypeOK, Threads, schedVars, taskVars
  <2> QED BY <2>1, <1>t, OwnerFrame
<1>24. CASE ProgramEnd
  <2>1. /\ UNCHANGED <<created, alive, handles>> /\ ready \subseteq ready'
        /\ \A x \in Threads : pc'[x] = "pull" => pc[x] = "pull" /\ target'[x] = target[x]
        /\ \A x \in Threads : pc'[x] \in {"close", "retclose", "exitclose"}
                               => Closing(x) /\ target'[x] = target[x]
    BY <1>24, <1>t DEF ProgramEnd, Closing, TypeInv, TypeOK, Threads, schedVars, taskVars
  <2> QED BY <2>1, <1>t, OwnerFrame
<1>25. CASE SetStopping
  <2>1. /\ UNCHANGED <<created, alive, handles>> /\ ready \subseteq ready'
        /\ \A x \in Threads : pc'[x] = "pull" => pc[x] = "pull" /\ target'[x] = target[x]
        /\ \A x \in Threads : pc'[x] \in {"close", "retclose", "exitclose"}
                               => Closing(x) /\ target'[x] = target[x]
    BY <1>25, <1>t DEF SetStopping, Closing, TypeInv, TypeOK, Threads, schedVars, taskVars
  <2> QED BY <2>1, <1>t, OwnerFrame
<1>26. CASE NotifyAllWorkers
  <2>1. /\ UNCHANGED <<created, alive, handles>> /\ ready \subseteq ready'
        /\ \A x \in Threads : pc'[x] = "pull" => pc[x] = "pull" /\ target'[x] = target[x]
        /\ \A x \in Threads : pc'[x] \in {"close", "retclose", "exitclose"}
                               => Closing(x) /\ target'[x] = target[x]
    BY <1>26, <1>t DEF NotifyAllWorkers, Closing, TypeInv, TypeOK, Threads, schedVars, taskVars
  <2> QED BY <2>1, <1>t, OwnerFrame
<1>27. CASE Join
  <2>1. /\ UNCHANGED <<created, alive, handles>> /\ ready \subseteq ready'
        /\ \A x \in Threads : pc'[x] = "pull" => pc[x] = "pull" /\ target'[x] = target[x]
        /\ \A x \in Threads : pc'[x] \in {"close", "retclose", "exitclose"}
                               => Closing(x) /\ target'[x] = target[x]
    BY <1>27, <1>t DEF Join, Closing, TypeInv, TypeOK, Threads, schedVars, taskVars
  <2> QED BY <2>1, <1>t, OwnerFrame
<1>28. CASE UNCHANGED vars
  BY <1>28, <1>t, OwnerFrame DEF vars, Closing
<1> QED
  BY <1>1, <1>2, <1>3, <1>4, <1>5, <1>6, <1>7, <1>8, <1>9, <1>10, <1>11, <1>12, <1>13, <1>14, <1>15, <1>16, <1>17, <1>18, <1>19, <1>20, <1>21, <1>22, <1>23, <1>24, <1>25, <1>26, <1>27, <1>28
     DEF Next, UserStep, CallStep, CleanupStep, WorkerStep, BodyEnd, ShutdownStep, Terminated

LEMMA InitIInv == Init => IInv
<1> SUFFICES ASSUME Init PROVE IInv
  OBVIOUS
<1>1. TypeInv
  BY InitTypeInv
<1>2. Len(queue) = 0 /\ \A w \in Workers : batch[w] = <<>> /\ Len(batch[w]) = 0
  BY DEF Init
<1>3. PlaceInv
  BY <1>2 DEF Init, PlaceInv, QueueInv, BatchInv, NoneLost
<1>4. OwnerInv
  BY SchedulerAssumption DEF Init, OwnerInv, Closing, Threads
<1> QED BY <1>1, <1>3, <1>4 DEF IInv

LEMMA Inductive == Spec => []IInv
<1>1. IInv /\ [Next]_vars => IInv'
  BY TypeStep, PlaceStep, OwnerStep DEF IInv
<1> QED BY InitIInv, <1>1, PTL DEF Spec

\* No thread of the runtime uses a deleted StyioTask, whatever the number of
\* workers and tasks: close_task waits for ready, and every reader holds an
\* owner or works on a task that is not published.
THEOREM NoDanglingAlways == Spec => []NoDangling
<1>1. IInv => NoDangling
  <2> SUFFICES ASSUME IInv PROVE NoDangling
    OBVIOUS
  <2>1. DOMAIN queue = 1 .. Len(queue) /\ \A w \in Workers : DOMAIN batch[w] = 1 .. Len(batch[w])
    BY DEF IInv, TypeInv, TypeOK
  <2>2. \A i \in DOMAIN queue : queue[i] \in alive
    BY <2>1 DEF IInv, PlaceInv, QueueInv, OwnerInv
  <2>3. \A w \in Workers : \A i \in DOMAIN batch[w] :
          batch[w][i] \in alive \/ (i = 1 /\ pc[w] = "wake")
    BY <2>1 DEF IInv, PlaceInv, BatchInv, OwnerInv
  <2>4. \A th \in Threads : Waiting(th) => target[th] \in alive
    BY DEF IInv, OwnerInv, Waiting, Closing
  <2> QED BY <2>2, <2>3, <2>4 DEF NoDangling, IInv, OwnerInv
<1> QED BY <1>1, Inductive, PTL

\* No launched task is lost or run twice, whatever the number of workers and
\* tasks and the batch limit: enqueue and the batch take of worker_loop keep
\* each unpublished task in exactly one place.
THEOREM OnePlaceAlways == Spec => []OnePlaceEach
<1>1. IInv => OnePlaceEach
  <2> SUFFICES ASSUME IInv, NEW t \in Tasks
               PROVE  /\ Cardinality(Places(t)) <= 1
                      /\ t \in created \ ready => Cardinality(Places(t)) = 1
    BY DEF OnePlaceEach
  <2>0. DOMAIN queue = 1 .. Len(queue) /\ \A w \in Workers : DOMAIN batch[w] = 1 .. Len(batch[w])
    BY DEF IInv, TypeInv, TypeOK
  <2>1. \A p \in Places(t) :
          \/ \E i \in 1 .. Len(queue) : p = <<Main, i>> /\ queue[i] = t
          \/ \E w \in Workers : \E i \in 1 .. Len(batch[w]) : p = <<w, i>> /\ batch[w][i] = t
    BY <2>0 DEF Places
  <2>2. \A p, q \in Places(t) : p = q
    <3> SUFFICES ASSUME NEW p \in Places(t), NEW q \in Places(t)
                 PROVE  p = q
      OBVIOUS
    <3> DEFINE Queued(x) == \E i \in 1 .. Len(queue) : x = <<Main, i>> /\ queue[i] = t
               Held(x) == \E w \in Workers : \E i \in 1 .. Len(batch[w]) :
                            x = <<w, i>> /\ batch[w][i] = t
    <3>1. (Queued(p) \/ Held(p)) /\ (Queued(q) \/ Held(q))
      BY <2>1
    <3>2. CASE Queued(p) /\ Queued(q)
      BY <3>2 DEF IInv, PlaceInv, QueueInv
    <3>3. CASE Held(p) /\ Held(q)
      BY <3>3 DEF IInv, PlaceInv, BatchInv
    <3>4. ~(Queued(p) /\ Held(q)) /\ ~(Held(p) /\ Queued(q))
      BY DEF IInv, PlaceInv, BatchInv
    <3> QED BY <3>1, <3>2, <3>3, <3>4
  <2>3. t \in created \ ready => Places(t) # {}
    <3> SUFFICES ASSUME t \in created \ ready PROVE Places(t) # {}
      OBVIOUS
    <3>1. CASE \E i \in 1 .. Len(queue) : queue[i] = t
      <4>1. PICK i \in DOMAIN queue : queue[i] = t
        BY <3>1, <2>0
      <4>2. <<Main, i>> \in Places(t)
        BY <4>1 DEF Places
      <4> QED BY <4>2
    <3>2. CASE \E w \in Workers : \E i \in 1 .. Len(batch[w]) : batch[w][i] = t
      <4>1. PICK w \in Workers : \E i \in DOMAIN batch[w] : batch[w][i] = t
        BY <3>2, <2>0
      <4>2. PICK i \in DOMAIN batch[w] : batch[w][i] = t
        BY <4>1
      <4>3. <<w, i>> \in Places(t)
        BY <4>2 DEF Places
      <4> QED BY <4>3
    <3> QED BY <3>1, <3>2 DEF IInv, PlaceInv, NoneLost
  <2>4. Places(t) = {} \/ \E p : Places(t) = {p}
    <3>1. SUFFICES ASSUME Places(t) # {} PROVE \E p : Places(t) = {p}
      OBVIOUS
    <3>2. PICK p : p \in Places(t)
      BY <3>1
    <3>3. Places(t) = {p}
      BY <3>2, <2>2
    <3> QED BY <3>3
  <2>5. Cardinality({}) = 0 /\ \A p : Cardinality({p}) = 1
    BY FS_EmptySet, FS_Singleton
  <2>6. CASE Places(t) = {}
    BY <2>3, <2>5, <2>6
  <2>7. ASSUME NEW p, Places(t) = {p}
        PROVE  Cardinality(Places(t)) = 1
    BY <2>5, <2>7
  <2>8. CASE \E p : Places(t) = {p}
    <3>1. Cardinality(Places(t)) = 1
      BY <2>7, <2>8
    <3> QED BY <3>1
  <2> QED BY <2>4, <2>6, <2>8
<1> QED BY <1>1, Inductive, PTL

-----------------------------------------------------------------------------
(* No wake-up is lost: the notifications of cv_ are counted, and whoever   *)
(* sleeps on a ready flag is accounted for.                                *)

Idle == {w \in Workers : pc[w] = "wait"}
Notifying == {th \in Threads : pc[th] = "notify"}
Checking == {w \in Workers : pc[w] = "check"}

\* Workers wait only when somebody is about to act on each queued task.
CountInv == Idle # {} => Len(queue) <= Cardinality(Notifying) + Cardinality(Checking)

\* Who sleeps is inside a call, and a worker is about to wake it if its task
\* is published.
SleepInv ==
  \A th \in asleep :
    /\ Waiting(th)
    /\ target[th] \in ready => \E w \in Workers : pc[w] = "wake" /\ Head(batch[w]) = target[th]

WakeInv == IInv /\ CountInv /\ SleepInv

\* The threads that are about to act can be counted.
LEMMA FiniteThreads ==
  /\ IsFiniteSet(Notifying) /\ IsFiniteSet(Checking)
  /\ Cardinality(Notifying) \in Nat /\ Cardinality(Checking) \in Nat
<1>1. IsFiniteSet(Threads)
  BY SchedulerAssumption, FS_AddElement DEF Threads
<1>2. Notifying \subseteq Threads /\ Checking \subseteq Threads
  BY DEF Notifying, Checking, Threads
<1> QED BY <1>1, <1>2, FS_Subset, FS_CardinalityType

\* Steps that add no task and take nobody away who is about to act.
LEMMA CountFrame ==
  ASSUME TypeInv, CountInv, queue' = queue,
         Idle' \subseteq Idle, Notifying \subseteq Notifying', Checking \subseteq Checking',
         IsFiniteSet(Notifying'), IsFiniteSet(Checking')
  PROVE  CountInv'
<1>1. /\ Cardinality(Notifying) <= Cardinality(Notifying')
      /\ Cardinality(Checking) <= Cardinality(Checking')
  BY FS_Subset
<1>2. /\ Cardinality(Notifying) \in Nat /\ Cardinality(Checking) \in Nat
      /\ Cardinality(Notifying') \in Nat /\ Cardinality(Checking') \in Nat
  BY FiniteThreads, FS_CardinalityType
<1>3. Len(queue) \in Nat
  BY DEF TypeInv, TypeOK
<1> QED BY <1>1, <1>2, <1>3 DEF CountInv

\* Every step keeps the count: a push is followed by its notification, and a
\* worker that pops leaves the others enough.
LEMMA CountStep == WakeInv /\ [Next]_vars => CountInv'
<1> SUFFICES ASSUME WakeInv, [Next]_vars PROVE CountInv'
  OBVIOUS
<1>t. TypeInv /\ CountInv
  BY DEF WakeInv, IInv
<1>f. IsFiniteSet(Notifying') /\ IsFiniteSet(Checking')
  <2>1. IsFiniteSet(Threads)
    BY SchedulerAssumption, FS_AddElement DEF Threads
  <2>2. Notifying' \subseteq Threads /\ Checking' \subseteq Threads
    BY DEF Notifying, Checking, Threads
  <2> QED BY <2>1, <2>2, FS_Subset
<1> USE SchedulerAssumption
<1>1. ASSUME NEW th \in Threads, OpError(th)
     PROVE  CountInv'
  <2>1. /\ queue' = queue /\ Idle' \subseteq Idle
        /\ Notifying \subseteq Notifying' /\ Checking \subseteq Checking'
    BY <1>1, <1>t DEF OpError, SetErrorOnce, Idle, Notifying, Checking, TypeInv, TypeOK, Threads, schedVars
  <2> QED BY <2>1, <1>t, <1>f, CountFrame
<1>2. ASSUME NEW th \in Threads, NEW t \in Tasks, Spawn(th, t)
     PROVE  CountInv'
  <2>1. /\ pc[th] = "body" /\ Len(queue') = Len(queue) + 1
        /\ pc'[th] = "notify" /\ \A x \in Threads \ {th} :
             pc'[x] = IF pc[x] = "unborn" THEN "check" ELSE pc[x]
    BY <1>2, <1>t, AppendProperties DEF Spawn, MayLaunch, TypeInv, TypeOK
  <2>2. /\ Idle' \subseteq Idle /\ Notifying' = Notifying \cup {th} /\ th \notin Notifying
        /\ Checking \subseteq Checking'
    BY <2>1 DEF Idle, Notifying, Checking, Threads
  <2>3. Cardinality(Notifying') = Cardinality(Notifying) + 1
    BY <2>2, FiniteThreads, FS_AddElement
  <2>4. Cardinality(Checking) <= Cardinality(Checking')
    BY <2>2, <1>f, FS_Subset
  <2>5. Cardinality(Notifying) \in Nat /\ Cardinality(Checking) \in Nat /\ Cardinality(Checking') \in Nat
    BY FiniteThreads, <1>f, FS_CardinalityType
  <2>6. Len(queue) \in Nat
    BY <1>t DEF TypeInv, TypeOK
  <2> QED BY <2>1, <2>2, <2>3, <2>4, <2>5, <2>6, <1>t DEF CountInv
<1>3. ASSUME NEW th \in Threads, NotifyOne(th)
     PROVE  CountInv'
  <2>0. queue' = queue /\ pc[th] = "notify"
    BY <1>3 DEF NotifyOne, schedVars
  <2>1. CASE Idle = {}
    <3>1. pc' = [pc EXCEPT ![th] = "body"]
      BY <1>3, <2>1 DEF NotifyOne, Idle
    <3>2. Idle' = {}
      BY <2>1, <3>1, <1>t DEF Idle, TypeInv, TypeOK, Threads
    <3> QED BY <3>2 DEF CountInv
  <2>2. CASE Idle # {}
    <3>1. PICK w \in Idle : pc' = [pc EXCEPT ![th] = "body", ![w] = "check"]
      BY <1>3, <2>2 DEF NotifyOne, Idle
    <3>a. pc[w] = "wait" /\ w # th /\ w \in Workers
      BY <2>0 DEF Idle
    <3>b. /\ pc'[th] = "body" /\ pc'[w] = "check"
          /\ \A x \in Threads \ {th, w} : pc'[x] = pc[x]
      BY <3>1, <3>a, <1>t DEF TypeInv, TypeOK, Threads
    <3>2. /\ Notifying' = Notifying \ {th} /\ th \in Notifying
          /\ Checking' = Checking \cup {w} /\ w \notin Checking
      <4>1. Notifying' = Notifying \ {th} /\ th \in Notifying
        BY <3>a, <3>b, <2>0 DEF Notifying
      <4>2. Checking' = Checking \cup {w} /\ w \notin Checking
        BY <3>a, <3>b, <2>0 DEF Checking, Threads
      <4> QED BY <4>1, <4>2
    <3>3. /\ Cardinality(Notifying') = Cardinality(Notifying) - 1
          /\ Cardinality(Checking') = Cardinality(Checking) + 1
      BY <3>2, FiniteThreads, FS_AddElement, FS_RemoveElement
    <3>4. Len(queue) \in Nat
      BY <1>t DEF TypeInv, TypeOK
    <3> QED BY <3>3, <3>4, <2>0, <2>2, <1>t, FiniteThreads DEF CountInv
  <2> QED BY <2>1, <2>2
<1>4. ASSUME NEW th \in Threads, NEW t \in Tasks, SpawnReady(th, t)
     PROVE  CountInv'
  <2>1. /\ queue' = queue /\ Idle' \subseteq Idle
        /\ Notifying \subseteq Notifying' /\ Checking \subseteq Checking'
    BY <1>4, <1>t DEF SpawnReady, Idle, Notifying, Checking, TypeInv, TypeOK, Threads, schedVars
  <2> QED BY <2>1, <1>t, <1>f, CountFrame
<1>5. ASSUME NEW th \in Threads, NEW fb \in BOOLEAN, PullInvalid(th, fb)
     PROVE  CountInv'
  <2>1. /\ queue' = queue /\ Idle' \subseteq Idle
        /\ Notifying \subseteq Notifying' /\ Checking \subseteq Checking'
    BY <1>5, <1>t DEF PullInvalid, AfterPull, Idle, Notifying, Checking, TypeInv, TypeOK, Threads, schedVars
  <2> QED BY <2>1, <1>t, <1>f, CountFrame
<1>6. ASSUME NEW th \in Threads, NEW t \in Tasks, PullBegin(th, t)
     PROVE  CountInv'
  <2>1. /\ queue' = queue /\ Idle' \subseteq Idle
        /\ Notifying \subseteq Notifying' /\ Checking \subseteq Checking'
    BY <1>6, <1>t DEF PullBegin, Idle, Notifying, Checking, TypeInv, TypeOK, Threads, schedVars
  <2> QED BY <2>1, <1>t, <1>f, CountFrame
<1>7. ASSUME NEW th \in Threads, WaitReady(th)
     PROVE  CountInv'
  <2>1. /\ queue' = queue /\ Idle' \subseteq Idle
        /\ Notifying \subseteq Notifying' /\ Checking \subseteq Checking'
    BY <1>7, <1>t DEF WaitReady, Waiting, Idle, Notifying, Checking, TypeInv, TypeOK, Threads, schedVars
  <2> QED BY <2>1, <1>t, <1>f, CountFrame
<1>8. ASSUME NEW th \in Threads, NEW fb \in BOOLEAN, PullFailed(th, fb)
     PROVE  CountInv'
  <2>1. /\ queue' = queue /\ Idle' \subseteq Idle
        /\ Notifying \subseteq Notifying' /\ Checking \subseteq Checking'
    BY <1>8, <1>t DEF PullFailed, AfterPull, Awake, Waiting, Idle, Notifying, Checking, TypeInv, TypeOK, Threads, schedVars
  <2> QED BY <2>1, <1>t, <1>f, CountFrame
<1>9. ASSUME NEW th \in Threads, NEW fb \in BOOLEAN, PullAgain(th, fb)
     PROVE  CountInv'
  <2>1. /\ queue' = queue /\ Idle' \subseteq Idle
        /\ Notifying \subseteq Notifying' /\ Checking \subseteq Checking'
    BY <1>9, <1>t DEF PullAgain, AfterPull, Awake, Waiting, Idle, Notifying, Checking, TypeInv, TypeOK, Threads, schedVars
  <2> QED BY <2>1, <1>t, <1>f, CountFrame
<1>10. ASSUME NEW th \in Threads, NEW fb \in BOOLEAN, PullValue(th, fb)
     PROVE  CountInv'
  <2>1. /\ queue' = queue /\ Idle' \subseteq Idle
        /\ Notifying \subseteq Notifying' /\ Checking \subseteq Checking'
    BY <1>10, <1>t DEF PullValue, AfterPull, Awake, Waiting, Idle, Notifying, Checking, TypeInv, TypeOK, Threads, schedVars
  <2> QED BY <2>1, <1>t, <1>f, CountFrame
<1>11. ASSUME NEW th \in Threads, NEW t \in Tasks, ReleaseBegin(th, t)
     PROVE  CountInv'
  <2>1. /\ queue' = queue /\ Idle' \subseteq Idle
        /\ Notifying \subseteq Notifying' /\ Checking \subseteq Checking'
    BY <1>11, <1>t DEF ReleaseBegin, ClosePc, Idle, Notifying, Checking, TypeInv, TypeOK, Threads, schedVars
  <2> QED BY <2>1, <1>t, <1>f, CountFrame
<1>12. ASSUME NEW th \in Threads, NEW from \in DOMAIN ClosePc, CloseTask(th, from)
     PROVE  CountInv'
  <2>1. /\ queue' = queue /\ Idle' \subseteq Idle
        /\ Notifying \subseteq Notifying' /\ Checking \subseteq Checking'
    BY <1>12, <1>t DEF CloseTask, ClosePc, Awake, Waiting, Idle, Notifying, Checking, TypeInv, TypeOK, Threads, schedVars
  <2> QED BY <2>1, <1>t, <1>f, CountFrame
<1>13. ASSUME NEW w \in Workers, WorkerTake(w)
     PROVE  CountInv'
  <2>1. /\ pc[w] = "check" /\ pc' = [pc EXCEPT ![w] = "next"]
        /\ queue # <<>> /\ queue' = SubSeq(queue, BatchSize + 1, Len(queue))
    BY <1>13 DEF WorkerTake
  <2>2. Len(queue') <= Len(queue) - 1 /\ Len(queue) \in Nat /\ Len(queue') \in Nat
    <3>1. Len(queue') = Len(queue) - BatchSize /\ queue' \in Seq(Tasks)
      BY <2>1, <1>t, TakeSplits DEF TypeInv
    <3>2. BatchSize \in 1 .. Len(queue)
      BY <2>1, <1>t, BatchSizeBounds DEF TypeInv
    <3> QED BY <3>1, <3>2, <1>t DEF TypeInv, TypeOK
  <2>3. /\ Idle' \subseteq Idle /\ Notifying' = Notifying
        /\ Checking' = Checking \ {w} /\ w \in Checking
    BY <2>1, <1>t DEF Idle, Notifying, Checking, TypeInv, TypeOK, Threads
  <2>4. Cardinality(Checking') = Cardinality(Checking) - 1
    BY <2>3, FiniteThreads, FS_RemoveElement
  <2> QED BY <2>2, <2>3, <2>4, <1>t, FiniteThreads DEF CountInv
<1>14. ASSUME NEW w \in Workers, WorkerWait(w)
     PROVE  CountInv'
  <2>1. Len(queue') = 0
    BY <1>14 DEF WorkerWait, schedVars
  <2> QED BY <2>1, <1>f, FS_CardinalityType DEF CountInv
<1>15. ASSUME NEW w \in Workers, WorkerLeave(w)
     PROVE  CountInv'
  <2>1. Len(queue') = 0
    BY <1>15 DEF WorkerLeave, schedVars
  <2> QED BY <2>1, <1>f, FS_CardinalityType DEF CountInv
<1>16. ASSUME NEW w \in Workers, SpuriousWake(w)
     PROVE  CountInv'
  <2>1. /\ queue' = queue /\ Idle' \subseteq Idle
        /\ Notifying \subseteq Notifying' /\ Checking \subseteq Checking'
    BY <1>16, <1>t DEF SpuriousWake, Idle, Notifying, Checking, TypeInv, TypeOK, Threads, schedVars
  <2> QED BY <2>1, <1>t, <1>f, CountFrame
<1>17. ASSUME NEW w \in Workers, RunBegin(w)
     PROVE  CountInv'
  <2>1. /\ queue' = queue /\ Idle' \subseteq Idle
        /\ Notifying \subseteq Notifying' /\ Checking \subseteq Checking'
    BY <1>17, <1>t DEF RunBegin, Idle, Notifying, Checking, TypeInv, TypeOK, Threads, schedVars
  <2> QED BY <2>1, <1>t, <1>f, CountFrame
<1>18. ASSUME NEW w \in Workers, BatchDone(w)
     PROVE  CountInv'
  <2>1. /\ queue' = queue /\ Idle' \subseteq Idle
        /\ Notifying \subseteq Notifying' /\ Checking \subseteq Checking'
    BY <1>18, <1>t DEF BatchDone, Idle, Notifying, Checking, TypeInv, TypeOK, Threads, schedVars
  <2> QED BY <2>1, <1>t, <1>f, CountFrame
<1>19. ASSUME NEW w \in Workers, BodyReturn(w)
     PROVE  CountInv'
  <2>1. /\ queue' = queue /\ Idle' \subseteq Idle
        /\ Notifying \subseteq Notifying' /\ Checking \subseteq Checking'
    BY <1>19, <1>t DEF BodyReturn, RunEnd, Idle, Notifying, Checking, TypeInv, TypeOK, Threads, schedVars
  <2> QED BY <2>1, <1>t, <1>f, CountFrame
<1>20. ASSUME NEW w \in Workers, BodyThrow(w)
     PROVE  CountInv'
  <2>1. /\ queue' = queue /\ Idle' \subseteq Idle
        /\ Notifying \subseteq Notifying' /\ Checking \subseteq Checking'
    BY <1>20, <1>t DEF BodyThrow, RunEnd, Idle, Notifying, Checking, TypeInv, TypeOK, Threads, schedVars
  <2> QED BY <2>1, <1>t, <1>f, CountFrame
<1>21. ASSUME NEW w \in Workers, Publish(w)
     PROVE  CountInv'
  <2>1. /\ queue' = queue /\ Idle' \subseteq Idle
        /\ Notifying \subseteq Notifying' /\ Checking \subseteq Checking'
    BY <1>21, <1>t DEF Publish, Idle, Notifying, Checking, TypeInv, TypeOK, Threads, schedVars
  <2> QED BY <2>1, <1>t, <1>f, CountFrame
<1>22. ASSUME NEW w \in Workers, WakeAll(w)
     PROVE  CountInv'
  <2>1. /\ queue' = queue /\ Idle' \subseteq Idle
        /\ Notifying \subseteq Notifying' /\ Checking \subseteq Checking'
    BY <1>22, <1>t DEF WakeAll, Idle, Notifying, Checking, TypeInv, TypeOK, Threads, schedVars
  <2> QED BY <2>1, <1>t, <1>f, CountFrame
<1>23. ASSUME NEW w \in Workers, WorkerExit(w)
     PROVE  CountInv'
  <2>1. /\ queue' = queue /\ Idle' \subseteq Idle
        /\ Notifying \subseteq Notifying' /\ Checking \subseteq Checking'
    BY <1>23, <1>t DEF WorkerExit, Idle, Notifying, Checking, TypeInv, TypeOK, Threads, schedVars
  <2> QED BY <2>1, <1>t, <1>f, CountFrame
<1>24. CASE ProgramEnd
  <2>1. /\ queue' = queue /\ Idle' \subseteq Idle
        /\ Notifying \subseteq Notifying' /\ Checking \subseteq Checking'
    BY <1>24, <1>t DEF ProgramEnd, Idle, Notifying, Checking, TypeInv, TypeOK, Threads, schedVars
  <2> QED BY <2>1, <1>t, <1>f, CountFrame
<1>25. CASE SetStopping
  <2>1. /\ queue' = queue /\ Idle' \subseteq Idle
        /\ Notifying \subseteq Notifying' /\ Checking \subseteq Checking'
    BY <1>25, <1>t DEF SetStopping, Idle, Notifying, Checking, TypeInv, TypeOK, Threads, schedVars
  <2> QED BY <2>1, <1>t, <1>f, CountFrame
<1>26. CASE NotifyAllWorkers
  <2>1. Idle' = {}
    BY <1>26, <1>t DEF NotifyAllWorkers, Idle, TypeInv, TypeOK, Threads
  <2> QED BY <2>1 DEF CountInv
<1>27. CASE Join
  <2>1. /\ queue' = queue /\ Idle' \subseteq Idle
        /\ Notifying \subseteq Notifying' /\ Checking \subseteq Checking'
    BY <1>27, <1>t DEF Join, Idle, Notifying, Checking, TypeInv, TypeOK, Threads, schedVars
  <2> QED BY <2>1, <1>t, <1>f, CountFrame
<1>28. CASE UNCHANGED vars
  BY <1>28, <1>t DEF vars, CountInv, Idle, Notifying, Checking
<1> QED
  BY <1>1, <1>2, <1>3, <1>4, <1>5, <1>6, <1>7, <1>8, <1>9, <1>10, <1>11, <1>12, <1>13, <1>14, <1>15, <1>16, <1>17, <1>18, <1>19, <1>20, <1>21, <1>22, <1>23, <1>24, <1>25, <1>26, <1>27, <1>28
     DEF Next, UserStep, CallStep, CleanupStep, WorkerStep, BodyEnd, ShutdownStep, Terminated

\* Steps that neither publish nor put anybody to sleep.
LEMMA SleepFrame ==
  ASSUME SleepInv, ready' = ready, asleep' \subseteq asleep,
         \A th \in asleep : pc'[th] = pc[th] /\ target'[th] = target[th],
         \A w \in Workers : pc[w] = "wake" => pc'[w] = "wake" /\ batch'[w] = batch[w]
  PROVE  SleepInv'
BY DEF SleepInv, Waiting

\* Every step keeps sleepers accounted for.
LEMMA SleepStep == WakeInv /\ [Next]_vars => SleepInv'
<1> SUFFICES ASSUME WakeInv, [Next]_vars PROVE SleepInv'
  OBVIOUS
<1>t. TypeInv /\ OwnerInv /\ SleepInv
  BY DEF WakeInv, IInv
<1> USE SchedulerAssumption
<1>1. ASSUME NEW th \in Threads, OpError(th)
     PROVE  SleepInv'
  <2>1. /\ ready' = ready /\ asleep' \subseteq asleep
        /\ \A x \in asleep : pc'[x] = pc[x] /\ target'[x] = target[x]
        /\ \A x \in Workers : pc[x] = "wake" => pc'[x] = "wake" /\ batch'[x] = batch[x]
    BY <1>1, <1>t DEF OpError, SetErrorOnce, SleepInv, Waiting, TypeInv, TypeOK, Threads, schedVars, taskVars
  <2> QED BY <2>1, <1>t, SleepFrame
<1>2. ASSUME NEW th \in Threads, NEW t \in Tasks, Spawn(th, t)
     PROVE  SleepInv'
  <2>1. /\ pc[th] = "body" /\ \A x \in Threads \ {th} : pc[x] # "unborn" => pc'[x] = pc[x]
        /\ UNCHANGED <<ready, asleep, target, batch>>
    BY <1>2 DEF Spawn, MayLaunch
  <2>2. \A x \in asleep : x \in Threads \ {th} /\ pc[x] # "unborn"
    BY <2>1, <1>t DEF SleepInv, Waiting, TypeInv, TypeOK
  <2>3. \A x \in Workers : pc[x] = "wake" => pc'[x] = "wake"
    BY <2>1 DEF Threads
  <2> QED BY <2>1, <2>2, <2>3, <1>t, SleepFrame
<1>3. ASSUME NEW th \in Threads, NotifyOne(th)
     PROVE  SleepInv'
  <2>1. /\ ready' = ready /\ asleep' \subseteq asleep
        /\ \A x \in asleep : pc'[x] = pc[x] /\ target'[x] = target[x]
        /\ \A x \in Workers : pc[x] = "wake" => pc'[x] = "wake" /\ batch'[x] = batch[x]
    BY <1>3, <1>t DEF NotifyOne, SleepInv, Waiting, TypeInv, TypeOK, Threads, schedVars, taskVars
  <2> QED BY <2>1, <1>t, SleepFrame
<1>4. ASSUME NEW th \in Threads, NEW t \in Tasks, SpawnReady(th, t)
     PROVE  SleepInv'
  <2>1. /\ t \notin created /\ ready' = ready \cup {t}
        /\ UNCHANGED <<asleep, pc, target, batch>>
    BY <1>4 DEF SpawnReady, schedVars
  <2>2. \A x \in asleep : target[x] # t
    BY <2>1, <1>t DEF SleepInv, Waiting, OwnerInv, Closing, TypeInv, TypeOK
  <2> QED BY <2>1, <2>2, <1>t DEF SleepInv, Waiting
<1>5. ASSUME NEW th \in Threads, NEW fb \in BOOLEAN, PullInvalid(th, fb)
     PROVE  SleepInv'
  <2>1. /\ ready' = ready /\ asleep' \subseteq asleep
        /\ \A x \in asleep : pc'[x] = pc[x] /\ target'[x] = target[x]
        /\ \A x \in Workers : pc[x] = "wake" => pc'[x] = "wake" /\ batch'[x] = batch[x]
    BY <1>5, <1>t DEF PullInvalid, AfterPull, SleepInv, Waiting, TypeInv, TypeOK, Threads, schedVars, taskVars
  <2> QED BY <2>1, <1>t, SleepFrame
<1>6. ASSUME NEW th \in Threads, NEW t \in Tasks, PullBegin(th, t)
     PROVE  SleepInv'
  <2>1. /\ ready' = ready /\ asleep' \subseteq asleep
        /\ \A x \in asleep : pc'[x] = pc[x] /\ target'[x] = target[x]
        /\ \A x \in Workers : pc[x] = "wake" => pc'[x] = "wake" /\ batch'[x] = batch[x]
    BY <1>6, <1>t DEF PullBegin, SleepInv, Waiting, TypeInv, TypeOK, Threads, schedVars, taskVars
  <2> QED BY <2>1, <1>t, SleepFrame
<1>7. ASSUME NEW th \in Threads, WaitReady(th)
     PROVE  SleepInv'
  <2>1. /\ Waiting(th) /\ target[th] \notin ready /\ asleep' = asleep \cup {th}
        /\ UNCHANGED <<ready, pc, target, batch>>
    BY <1>7 DEF WaitReady, schedVars, taskVars
  <2> QED BY <2>1, <1>t DEF SleepInv, Waiting
<1>8. ASSUME NEW th \in Threads, NEW fb \in BOOLEAN, PullFailed(th, fb)
     PROVE  SleepInv'
  <2>1. /\ ready' = ready /\ asleep' \subseteq asleep
        /\ \A x \in asleep : pc'[x] = pc[x] /\ target'[x] = target[x]
        /\ \A x \in Workers : pc[x] = "wake" => pc'[x] = "wake" /\ batch'[x] = batch[x]
    BY <1>8, <1>t DEF PullFailed, AfterPull, Awake, Waiting, SleepInv, Waiting, TypeInv, TypeOK, Threads, schedVars, taskVars
  <2> QED BY <2>1, <1>t, SleepFrame
<1>9. ASSUME NEW th \in Threads, NEW fb \in BOOLEAN, PullAgain(th, fb)
     PROVE  SleepInv'
  <2>1. /\ ready' = ready /\ asleep' \subseteq asleep
        /\ \A x \in asleep : pc'[x] = pc[x] /\ target'[x] = target[x]
        /\ \A x \in Workers : pc[x] = "wake" => pc'[x] = "wake" /\ batch'[x] = batch[x]
    BY <1>9, <1>t DEF PullAgain, AfterPull, Awake, Waiting, SleepInv, Waiting, TypeInv, TypeOK, Threads, schedVars, taskVars
  <2> QED BY <2>1, <1>t, SleepFrame
<1>10. ASSUME NEW th \in Threads, NEW fb \in BOOLEAN, PullValue(th, fb)
     PROVE  SleepInv'
  <2>1. /\ ready' = ready /\ asleep' \subseteq asleep
        /\ \A x \in asleep : pc'[x] = pc[x] /\ target'[x] = target[x]
        /\ \A x \in Workers : pc[x] = "wake" => pc'[x] = "wake" /\ batch'[x] = batch[x]
    BY <1>10, <1>t DEF PullValue, AfterPull, Awake, Waiting, SleepInv, Waiting, TypeInv, TypeOK, Threads, schedVars, taskVars
  <2> QED BY <2>1, <1>t, SleepFrame
<1>11. ASSUME NEW th \in Threads, NEW t \in Tasks, ReleaseBegin(th, t)
     PROVE  SleepInv'
  <2>1. /\ ready' = ready /\ asleep' \subseteq asleep
        /\ \A x \in asleep : pc'[x] = pc[x] /\ target'[x] = target[x]
        /\ \A x \in Workers : pc[x] = "wake" => pc'[x] = "wake" /\ batch'[x] = batch[x]
    BY <1>11, <1>t DEF ReleaseBegin, ClosePc, SleepInv, Waiting, TypeInv, TypeOK, Threads, schedVars, taskVars
  <2> QED BY <2>1, <1>t, SleepFrame
<1>12. ASSUME NEW th \in Threads, NEW from \in DOMAIN ClosePc, CloseTask(th, from)
     PROVE  SleepInv'
  <2>1. /\ ready' = ready /\ asleep' \subseteq asleep
        /\ \A x \in asleep : pc'[x] = pc[x] /\ target'[x] = target[x]
        /\ \A x \in Workers : pc[x] = "wake" => pc'[x] = "wake" /\ batch'[x] = batch[x]
    BY <1>12, <1>t DEF CloseTask, ClosePc, Awake, Waiting, SleepInv, Waiting, TypeInv, TypeOK, Threads, schedVars, taskVars
  <2> QED BY <2>1, <1>t, SleepFrame
<1>13. ASSUME NEW w \in Workers, WorkerTake(w)
     PROVE  SleepInv'
  <2>1. /\ ready' = ready /\ asleep' \subseteq asleep
        /\ \A x \in asleep : pc'[x] = pc[x] /\ target'[x] = target[x]
        /\ \A x \in Workers : pc[x] = "wake" => pc'[x] = "wake" /\ batch'[x] = batch[x]
    BY <1>13, <1>t DEF WorkerTake, SleepInv, Waiting, TypeInv, TypeOK, Threads, schedVars, taskVars
  <2> QED BY <2>1, <1>t, SleepFrame
<1>14. ASSUME NEW w \in Workers, WorkerWait(w)
     PROVE  SleepInv'
  <2>1. /\ ready' = ready /\ asleep' \subseteq asleep
        /\ \A x \in asleep : pc'[x] = pc[x] /\ target'[x] = target[x]
        /\ \A x \in Workers : pc[x] = "wake" => pc'[x] = "wake" /\ batch'[x] = batch[x]
    BY <1>14, <1>t DEF WorkerWait, SleepInv, Waiting, TypeInv, TypeOK, Threads, schedVars, taskVars
  <2> QED BY <2>1, <1>t, SleepFrame
<1>15. ASSUME NEW w \in Workers, WorkerLeave(w)
     PROVE  SleepInv'
  <2>1. /\ ready' = ready /\ asleep' \subseteq asleep
        /\ \A x \in asleep : pc'[x] = pc[x] /\ target'[x] = target[x]
        /\ \A x \in Workers : pc[x] = "wake" => pc'[x] = "wake" /\ batch'[x] = batch[x]
    BY <1>15, <1>t DEF WorkerLeave, SleepInv, Waiting, TypeInv, TypeOK, Threads, schedVars, taskVars
  <2> QED BY <2>1, <1>t, SleepFrame
<1>16. ASSUME NEW w \in Workers, SpuriousWake(w)
     PROVE  SleepInv'
  <2>1. /\ ready' = ready /\ asleep' \subseteq asleep
        /\ \A x \in asleep : pc'[x] = pc[x] /\ target'[x] = target[x]
        /\ \A x \in Workers : pc[x] = "wake" => pc'[x] = "wake" /\ batch'[x] = batch[x]
    BY <1>16, <1>t DEF SpuriousWake, SleepInv, Waiting, TypeInv, TypeOK, Threads, schedVars, taskVars
  <2> QED BY <2>1, <1>t, SleepFrame
<1>17. ASSUME NEW w \in Workers, RunBegin(w)
     PROVE  SleepInv'
  <2>1. /\ ready' = ready /\ asleep' \subseteq asleep
        /\ \A x \in asleep : pc'[x] = pc[x] /\ target'[x] = target[x]
        /\ \A x \in Workers : pc[x] = "wake" => pc'[x] = "wake" /\ batch'[x] = batch[x]
    BY <1>17, <1>t DEF RunBegin, SleepInv, Waiting, TypeInv, TypeOK, Threads, schedVars, taskVars
  <2> QED BY <2>1, <1>t, SleepFrame
<1>18. ASSUME NEW w \in Workers, BatchDone(w)
     PROVE  SleepInv'
  <2>1. /\ ready' = ready /\ asleep' \subseteq asleep
        /\ \A x \in asleep : pc'[x] = pc[x] /\ target'[x] = target[x]
        /\ \A x \in Workers : pc[x] = "wake" => pc'[x] = "wake" /\ batch'[x] = batch[x]
    BY <1>18, <1>t DEF BatchDone, SleepInv, Waiting, TypeInv, TypeOK, Threads, schedVars, taskVars
  <2> QED BY <2>1, <1>t, SleepFrame
<1>19. ASSUME NEW w \in Workers, BodyReturn(w)
     PROVE  SleepInv'
  <2>1. /\ ready' = ready /\ asleep' \subseteq asleep
        /\ \A x \in asleep : pc'[x] = pc[x] /\ target'[x] = target[x]
        /\ \A x \in Workers : pc[x] = "wake" => pc'[x] = "wake" /\ batch'[x] = batch[x]
    BY <1>19, <1>t DEF BodyReturn, RunEnd, SleepInv, Waiting, TypeInv, TypeOK, Threads, schedVars, taskVars
  <2> QED BY <2>1, <1>t, SleepFrame
<1>20. ASSUME NEW w \in Workers, BodyThrow(w)
     PROVE  SleepInv'
  <2>1. /\ ready' = ready /\ asleep' \subseteq asleep
        /\ \A x \in asleep : pc'[x] = pc[x] /\ target'[x] = target[x]
        /\ \A x \in Workers : pc[x] = "wake" => pc'[x] = "wake" /\ batch'[x] = batch[x]
    BY <1>20, <1>t DEF BodyThrow, RunEnd, SleepInv, Waiting, TypeInv, TypeOK, Threads, schedVars, taskVars
  <2> QED BY <2>1, <1>t, SleepFrame
<1>21. ASSUME NEW w \in Workers, Publish(w)
     PROVE  SleepInv'
  <2>1. /\ pc[w] = "publish" /\ pc' = [pc EXCEPT ![w] = "wake"]
        /\ ready' = ready \cup {Head(batch[w])}
        /\ UNCHANGED <<asleep, target, batch>>
    BY <1>21 DEF Publish, schedVars
  <2>2. pc'[w] = "wake" /\ \A x \in Threads \ {w} : pc'[x] = pc[x]
    BY <2>1, <1>t DEF TypeInv, TypeOK, Threads
  <2>3. \A x \in asleep : x # w /\ x \in Threads
    BY <2>1, <1>t DEF SleepInv, Waiting, TypeInv, TypeOK
  <2>4. \A x \in asleep : Waiting(x)'
    BY <2>1, <2>2, <2>3, <1>t DEF SleepInv, Waiting
  <2>5. ASSUME NEW x \in asleep, target[x] \in ready'
        PROVE  \E v \in Workers : pc'[v] = "wake" /\ Head(batch[v]) = target[x]
    <3>1. CASE target[x] = Head(batch[w])
      BY <3>1, <2>2
    <3>2. CASE target[x] \in ready
      <4>1. PICK v \in Workers : pc[v] = "wake" /\ Head(batch[v]) = target[x]
        BY <3>2, <1>t DEF SleepInv
      <4> QED BY <4>1, <2>1, <2>2 DEF Threads
    <3> QED BY <2>5, <2>1, <3>1, <3>2
  <2> QED BY <2>1, <2>4, <2>5 DEF SleepInv
<1>22. ASSUME NEW w \in Workers, WakeAll(w)
     PROVE  SleepInv'
  <2>1. /\ pc[w] = "wake" /\ pc' = [pc EXCEPT ![w] = "next"]
        /\ asleep' = {x \in asleep : target[x] # Head(batch[w])}
        /\ batch' = [batch EXCEPT ![w] = Tail(batch[w])]
        /\ UNCHANGED <<ready, target>>
    BY <1>22 DEF WakeAll, taskVars
  <2>2. \A x \in asleep : x # w /\ x \in Threads
    BY <2>1, <1>t DEF SleepInv, Waiting, TypeInv, TypeOK
  <2>3. \A x \in asleep' : Waiting(x)'
    BY <2>1, <2>2, <1>t DEF SleepInv, Waiting, TypeInv, TypeOK
  <2>4. ASSUME NEW x \in asleep', target[x] \in ready
        PROVE  \E v \in Workers : pc'[v] = "wake" /\ Head(batch'[v]) = target[x]
    <3>1. PICK v \in Workers : pc[v] = "wake" /\ Head(batch[v]) = target[x]
      BY <2>1, <2>4, <1>t DEF SleepInv
    <3>2. v # w
      BY <3>1, <2>1
    <3> QED BY <3>1, <3>2, <2>1, <1>t DEF TypeInv, TypeOK, Threads
  <2> QED BY <2>1, <2>3, <2>4 DEF SleepInv
<1>23. ASSUME NEW w \in Workers, WorkerExit(w)
     PROVE  SleepInv'
  <2>1. /\ ready' = ready /\ asleep' \subseteq asleep
        /\ \A x \in asleep : pc'[x] = pc[x] /\ target'[x] = target[x]
        /\ \A x \in Workers : pc[x] = "wake" => pc'[x] = "wake" /\ batch'[x] = batch[x]
    BY <1>23, <1>t DEF WorkerExit, SleepInv, Waiting, TypeInv, TypeOK, Threads, schedVars, taskVars
  <2> QED BY <2>1, <1>t, SleepFrame
<1>24. CASE ProgramEnd
  <2>1. /\ ready' = ready /\ asleep' \subseteq asleep
        /\ \A x \in asleep : pc'[x] = pc[x] /\ target'[x] = target[x]
        /\ \A x \in Workers : pc[x] = "wake" => pc'[x] = "wake" /\ batch'[x] = batch[x]
    BY <1>24, <1>t DEF ProgramEnd, SleepInv, Waiting, TypeInv, TypeOK, Threads, schedVars, taskVars
  <2> QED BY <2>1, <1>t, SleepFrame
<1>25. CASE SetStopping
  <2>1. /\ ready' = ready /\ asleep' \subseteq asleep
        /\ \A x \in asleep : pc'[x] = pc[x] /\ target'[x] = target[x]
        /\ \A x \in Workers : pc[x] = "wake" => pc'[x] = "wake" /\ batch'[x] = batch[x]
    BY <1>25, <1>t DEF SetStopping, SleepInv, Waiting, TypeInv, TypeOK, Threads, schedVars, taskVars
  <2> QED BY <2>1, <1>t, SleepFrame
<1>26. CASE NotifyAllWorkers
  <2>1. /\ ready' = ready /\ asleep' \subseteq asleep
        /\ \A x \in asleep : pc'[x] = pc[x] /\ target'[x] = target[x]
        /\ \A x \in Workers : pc[x] = "wake" => pc'[x] = "wake" /\ batch'[x] = batch[x]
    BY <1>26, <1>t DEF NotifyAllWorkers, SleepInv, Waiting, TypeInv, TypeOK, Threads, schedVars, taskVars
  <2> QED BY <2>1, <1>t, SleepFrame
<1>27. CASE Join
  <2>1. /\ ready' = ready /\ asleep' \subseteq asleep
        /\ \A x \in asleep : pc'[x] = pc[x] /\ target'[x] = target[x]
        /\ \A x \in Workers : pc[x] = "wake" => pc'[x] = "wake" /\ batch'[x] = batch[x]
    BY <1>27, <1>t DEF Join, SleepInv, Waiting, TypeInv, TypeOK, Threads, schedVars, taskVars
  <2> QED BY <2>1, <1>t, SleepFrame
<1>28. CASE UNCHANGED vars
  BY <1>28, <1>t, SleepFrame DEF vars
<1> QED
  BY <1>1, <1>2, <1>3, <1>4, <1>5, <1>6, <1>7, <1>8, <1>9, <1>10, <1>11, <1>12, <1>13, <1>14, <1>15, <1>16, <1>17, <1>18, <1>19, <1>20, <1>21, <1>22, <1>23, <1>24, <1>25, <1>26, <1>27, <1>28
     DEF Next, UserStep, CallStep, CleanupStep, WorkerStep, BodyEnd, ShutdownStep, Terminated

\* No notification of cv_ and no wake-up from ready.wait is lost, for every
\* number of workers and tasks: enqueue notifies after its unlock, a worker
\* that is about to wait still sees what was queued, and run() announces what
\* it published.
THEOREM NoWakeupEverLost == Spec => []NoLostWakeup
<1>1. Init => WakeInv
  <2> SUFFICES ASSUME Init PROVE CountInv /\ SleepInv /\ IInv
    BY DEF WakeInv
  <2>1. IInv
    BY InitIInv
  <2>2. Idle = {}
    BY SchedulerAssumption DEF Init, Idle, Threads
  <2> QED BY <2>1, <2>2 DEF Init, CountInv, SleepInv
<1>2. WakeInv /\ [Next]_vars => WakeInv'
  BY TypeStep, PlaceStep, OwnerStep, CountStep, SleepStep DEF WakeInv, IInv
<1>3. WakeInv => NoLostWakeup
  BY DEF WakeInv, CountInv, SleepInv, Idle, Notifying, Checking, NoLostWakeup
<1> QED BY <1>1, <1>2, <1>3, PTL DEF Spec

-----------------------------------------------------------------------------
(* What is left behind when the process ends, and whose failures a task    *)
(* reports.                                                                *)

(***************************************************************************)
(* An allocated task has a handle or is being released; a thread that has  *)
(* ended, or not begun, has no handles.                                    *)
(***************************************************************************)
HeldInv ==
  /\ \A t \in alive : \E th \in Threads : t \in handles[th] \/ (Closing(th) /\ target[th] = t)
  /\ \A w \in Workers : pc[w] \in {"unborn", "exited"} => handles[w] = {}
  /\ pc[Main] \in {"stop", "join", "done"} => handles[Main] = {}

\* A captured context belongs to a task that is still to run, or runs.
CtxInv ==
  /\ ctx \subseteq created \ ready
  /\ \A w \in Workers : pc[w] = "publish" => Head(batch[w]) \notin ctx

\* Workers leave after main has, with an empty queue, and main after them.
Gone == {"unborn", "exit", "exitclose", "exited"}

LeaveInv ==
  /\ stopping => pc[Main] \in {"stop", "join", "done"}
  /\ \A w \in Workers : pc[w] \in {"exit", "exitclose", "exited"} => stopping
  /\ (\A w \in Workers : pc[w] \in Gone) => queue = <<>>
  /\ pc[Main] = "done" => \A w \in Workers : pc[w] \in {"unborn", "exited"}

ExitInv == IInv /\ HeldInv /\ CtxInv /\ LeaveInv

\* No step loses the last handle of an allocated task.
LEMMA HeldStep == ExitInv /\ [Next]_vars => HeldInv'
<1> SUFFICES ASSUME ExitInv, [Next]_vars PROVE HeldInv'
  OBVIOUS
<1>t. TypeInv /\ HeldInv
  BY DEF ExitInv, IInv
<1> USE SchedulerAssumption DEF HeldInv, Closing, TypeInv, TypeOK, Threads, schedVars, taskVars
<1>1. ASSUME NEW th \in Threads, OpError(th)
     PROVE  HeldInv'
  BY <1>1, <1>t DEF OpError, MayRaise
<1>2. ASSUME NEW th \in Threads, NEW t \in Tasks, Spawn(th, t)
     PROVE  HeldInv'
  BY <1>2, <1>t DEF Spawn, MayLaunch
<1>3. ASSUME NEW th \in Threads, NotifyOne(th)
     PROVE  HeldInv'
  <2>1. /\ UNCHANGED <<alive, handles, target>> /\ pc[th] = "notify"
        /\ \/ pc' = [pc EXCEPT ![th] = "body"]
           \/ \E w \in Workers : pc[w] = "wait" /\ pc' = [pc EXCEPT ![th] = "body", ![w] = "check"]
    BY <1>3 DEF NotifyOne
  <2>2. \A x \in Threads : pc'[x] # pc[x] => pc[x] \in {"notify", "wait"} /\ pc'[x] \in {"body", "check"}
    BY <2>1, <1>t
  <2>3. pc'[Main] \in {"stop", "join", "done"} => pc[Main] \in {"stop", "join", "done"}
    BY <2>2
  <2>4. \A w \in Workers : pc'[w] \in {"unborn", "exited"} => pc[w] \in {"unborn", "exited"}
    BY <2>2
  <2>5. \A x \in Threads : Closing(x) => Closing(x)'
    BY <2>2
  <2>6. \A t \in alive' : \E x \in Threads : t \in handles'[x] \/ (Closing(x)' /\ target'[x] = t)
    BY <2>1, <2>5, <1>t
  <2> QED BY <2>1, <2>3, <2>4, <2>6, <1>t
<1>4. ASSUME NEW th \in Threads, NEW t \in Tasks, SpawnReady(th, t)
     PROVE  HeldInv'
  BY <1>4, <1>t DEF SpawnReady, MayLaunch
<1>5. ASSUME NEW th \in Threads, NEW fb \in BOOLEAN, PullInvalid(th, fb)
     PROVE  HeldInv'
  BY <1>5, <1>t DEF PullInvalid, AfterPull, MayRaise
<1>6. ASSUME NEW th \in Threads, NEW t \in Tasks, PullBegin(th, t)
     PROVE  HeldInv'
  BY <1>6, <1>t DEF PullBegin
<1>7. ASSUME NEW th \in Threads, WaitReady(th)
     PROVE  HeldInv'
  BY <1>7, <1>t DEF WaitReady, Waiting
<1>8. ASSUME NEW th \in Threads, NEW fb \in BOOLEAN, PullFailed(th, fb)
     PROVE  HeldInv'
  BY <1>8, <1>t DEF PullFailed, AfterPull, Awake, Waiting
<1>9. ASSUME NEW th \in Threads, NEW fb \in BOOLEAN, PullAgain(th, fb)
     PROVE  HeldInv'
  BY <1>9, <1>t DEF PullAgain, AfterPull, Awake, Waiting
<1>10. ASSUME NEW th \in Threads, NEW fb \in BOOLEAN, PullValue(th, fb)
     PROVE  HeldInv'
  BY <1>10, <1>t DEF PullValue, AfterPull, Awake, Waiting
<1>11. ASSUME NEW th \in Threads, NEW t \in Tasks, ReleaseBegin(th, t)
     PROVE  HeldInv'
  <2>1. /\ t \in handles[th] /\ alive' = alive
        /\ pc[th] \in {"body", "return", "exit"}
        /\ pc'[th] \in {"close", "retclose", "exitclose"}
        /\ \A x \in Threads \ {th} : pc'[x] = pc[x] /\ target'[x] = target[x]
                                      /\ handles'[x] = handles[x]
        /\ target'[th] = t /\ handles'[th] = handles[th] \ {t}
    BY <1>11, <1>t DEF ReleaseBegin, ClosePc
  <2>2. ASSUME NEW s \in alive
        PROVE  \E x \in Threads : s \in handles'[x] \/ (Closing(x)' /\ target'[x] = s)
    <3>1. PICK x \in Threads : s \in handles[x] \/ (Closing(x) /\ target[x] = s)
      BY <1>t
    <3>2. CASE s = t
      BY <3>2, <2>1
    <3>3. CASE s # t
      BY <3>1, <3>3, <2>1
    <3> QED BY <3>2, <3>3
  <2>3. \A w \in Workers : pc'[w] \in {"unborn", "exited"} => w # th /\ handles'[w] = {}
    BY <2>1, <1>t
  <2>4. pc'[Main] \in {"stop", "join", "done"} => Main # th /\ handles'[Main] = {}
    BY <2>1, <1>t
  <2> QED BY <2>1, <2>2, <2>3, <2>4
<1>12. ASSUME NEW th \in Threads, NEW from \in DOMAIN ClosePc, CloseTask(th, from)
     PROVE  HeldInv'
  BY <1>12, <1>t DEF CloseTask, ClosePc, Awake, Waiting
<1>13. ASSUME NEW w \in Workers, WorkerTake(w)
     PROVE  HeldInv'
  BY <1>13, <1>t DEF WorkerTake
<1>14. ASSUME NEW w \in Workers, WorkerWait(w)
     PROVE  HeldInv'
  BY <1>14, <1>t DEF WorkerWait
<1>15. ASSUME NEW w \in Workers, WorkerLeave(w)
     PROVE  HeldInv'
  BY <1>15, <1>t DEF WorkerLeave
<1>16. ASSUME NEW w \in Workers, SpuriousWake(w)
     PROVE  HeldInv'
  BY <1>16, <1>t DEF SpuriousWake
<1>17. ASSUME NEW w \in Workers, RunBegin(w)
     PROVE  HeldInv'
  BY <1>17, <1>t DEF RunBegin
<1>18. ASSUME NEW w \in Workers, BatchDone(w)
     PROVE  HeldInv'
  BY <1>18, <1>t DEF BatchDone
<1>19. ASSUME NEW w \in Workers, BodyReturn(w)
     PROVE  HeldInv'
  BY <1>19, <1>t DEF BodyReturn, RunEnd
<1>20. ASSUME NEW w \in Workers, BodyThrow(w)
     PROVE  HeldInv'
  BY <1>20, <1>t DEF BodyThrow, RunEnd, MayRaise
<1>21. ASSUME NEW w \in Workers, Publish(w)
     PROVE  HeldInv'
  BY <1>21, <1>t DEF Publish
<1>22. ASSUME NEW w \in Workers, WakeAll(w)
     PROVE  HeldInv'
  BY <1>22, <1>t DEF WakeAll
<1>23. ASSUME NEW w \in Workers, WorkerExit(w)
     PROVE  HeldInv'
  BY <1>23, <1>t DEF WorkerExit
<1>24. CASE ProgramEnd
  BY <1>24, <1>t DEF ProgramEnd
<1>25. CASE SetStopping
  BY <1>25, <1>t DEF SetStopping
<1>26. CASE NotifyAllWorkers
  BY <1>26, <1>t DEF NotifyAllWorkers
<1>27. CASE Join
  BY <1>27, <1>t DEF Join
<1>28. CASE UNCHANGED vars
  BY <1>28, <1>t DEF vars
<1> HIDE DEF HeldInv, Closing, TypeInv, TypeOK, Threads, schedVars, taskVars
<1> QED
  BY <1>1, <1>2, <1>3, <1>4, <1>5, <1>6, <1>7, <1>8, <1>9, <1>10, <1>11, <1>12, <1>13, <1>14, <1>15, <1>16, <1>17, <1>18, <1>19, <1>20, <1>21, <1>22, <1>23, <1>24, <1>25, <1>26, <1>27, <1>28
     DEF Next, UserStep, CallStep, CleanupStep, WorkerStep, BodyEnd, ShutdownStep, Terminated

\* No step keeps the context of a task that has run.
LEMMA CtxStep == ExitInv /\ [Next]_vars => CtxInv'
<1> SUFFICES ASSUME ExitInv, [Next]_vars PROVE CtxInv'
  OBVIOUS
<1>t. TypeInv /\ PlaceInv /\ CtxInv
  BY DEF ExitInv, IInv
<1> USE SchedulerAssumption DEF CtxInv, TypeInv, TypeOK, Threads, schedVars, taskVars
<1>1. ASSUME NEW th \in Threads, OpError(th)
     PROVE  CtxInv'
  BY <1>1, <1>t DEF OpError, MayRaise
<1>2. ASSUME NEW th \in Threads, NEW t \in Tasks, Spawn(th, t)
     PROVE  CtxInv'
  <2>1. /\ t \notin created /\ created' = created \cup {t} /\ ctx' = ctx \cup {t}
        /\ UNCHANGED <<ready, batch>>
        /\ \A x \in Workers : pc'[x] = "publish" => pc[x] = "publish"
    BY <1>2, <1>t DEF Spawn, MayLaunch
  <2>2. t \notin ready
    BY <2>1, <1>t DEF PlaceInv, NoneLost
  <2>3. \A x \in Workers : pc[x] = "publish" => Head(batch[x]) \in created
    <3> SUFFICES ASSUME NEW x \in Workers, pc[x] = "publish" PROVE Head(batch[x]) \in created
      OBVIOUS
    <3>1. batch[x] # <<>>
      BY <1>t DEF Running, RunPc
    <3>2. 1 \in 1 .. Len(batch[x]) /\ Head(batch[x]) = batch[x][1]
      BY <3>1, <1>t
    <3> QED BY <3>2, <1>t DEF PlaceInv, BatchInv
  <2> QED BY <2>1, <2>2, <2>3, <1>t
<1>3. ASSUME NEW th \in Threads, NotifyOne(th)
     PROVE  CtxInv'
  BY <1>3, <1>t DEF NotifyOne
<1>4. ASSUME NEW th \in Threads, NEW t \in Tasks, SpawnReady(th, t)
     PROVE  CtxInv'
  BY <1>4, <1>t DEF SpawnReady, MayLaunch
<1>5. ASSUME NEW th \in Threads, NEW fb \in BOOLEAN, PullInvalid(th, fb)
     PROVE  CtxInv'
  BY <1>5, <1>t DEF PullInvalid, AfterPull, MayRaise
<1>6. ASSUME NEW th \in Threads, NEW t \in Tasks, PullBegin(th, t)
     PROVE  CtxInv'
  BY <1>6, <1>t DEF PullBegin
<1>7. ASSUME NEW th \in Threads, WaitReady(th)
     PROVE  CtxInv'
  BY <1>7, <1>t DEF WaitReady, Waiting
<1>8. ASSUME NEW th \in Threads, NEW fb \in BOOLEAN, PullFailed(th, fb)
     PROVE  CtxInv'
  BY <1>8, <1>t DEF PullFailed, AfterPull, Awake, Waiting
<1>9. ASSUME NEW th \in Threads, NEW fb \in BOOLEAN, PullAgain(th, fb)
     PROVE  CtxInv'
  BY <1>9, <1>t DEF PullAgain, AfterPull, Awake, Waiting
<1>10. ASSUME NEW th \in Threads, NEW fb \in BOOLEAN, PullValue(th, fb)
     PROVE  CtxInv'
  BY <1>10, <1>t DEF PullValue, AfterPull, Awake, Waiting
<1>11. ASSUME NEW th \in Threads, NEW t \in Tasks, ReleaseBegin(th, t)
     PROVE  CtxInv'
  BY <1>11, <1>t DEF ReleaseBegin, ClosePc
<1>12. ASSUME NEW th \in Threads, NEW from \in DOMAIN ClosePc, CloseTask(th, from)
     PROVE  CtxInv'
  BY <1>12, <1>t DEF CloseTask, ClosePc, Awake, Waiting
<1>13. ASSUME NEW w \in Workers, WorkerTake(w)
     PROVE  CtxInv'
  BY <1>13, <1>t DEF WorkerTake
<1>14. ASSUME NEW w \in Workers, WorkerWait(w)
     PROVE  CtxInv'
  BY <1>14, <1>t DEF WorkerWait
<1>15. ASSUME NEW w \in Workers, WorkerLeave(w)
     PROVE  CtxInv'
  BY <1>15, <1>t DEF WorkerLeave
<1>16. ASSUME NEW w \in Workers, SpuriousWake(w)
     PROVE  CtxInv'
  BY <1>16, <1>t DEF SpuriousWake
<1>17. ASSUME NEW w \in Workers, RunBegin(w)
     PROVE  CtxInv'
  BY <1>17, <1>t DEF RunBegin
<1>18. ASSUME NEW w \in Workers, BatchDone(w)
     PROVE  CtxInv'
  BY <1>18, <1>t DEF BatchDone
<1>19. ASSUME NEW w \in Workers, BodyReturn(w)
     PROVE  CtxInv'
  BY <1>19, <1>t DEF BodyReturn, RunEnd
<1>20. ASSUME NEW w \in Workers, BodyThrow(w)
     PROVE  CtxInv'
  BY <1>20, <1>t DEF BodyThrow, RunEnd, MayRaise
<1>21. ASSUME NEW w \in Workers, Publish(w)
     PROVE  CtxInv'
  BY <1>21, <1>t DEF Publish
<1>22. ASSUME NEW w \in Workers, WakeAll(w)
     PROVE  CtxInv'
  BY <1>22, <1>t DEF WakeAll
<1>23. ASSUME NEW w \in Workers, WorkerExit(w)
     PROVE  CtxInv'
  BY <1>23, <1>t DEF WorkerExit
<1>24. CASE ProgramEnd
  BY <1>24, <1>t DEF ProgramEnd
<1>25. CASE SetStopping
  BY <1>25, <1>t DEF SetStopping
<1>26. CASE NotifyAllWorkers
  BY <1>26, <1>t DEF NotifyAllWorkers
<1>27. CASE Join
  BY <1>27, <1>t DEF Join
<1>28. CASE UNCHANGED vars
  BY <1>28, <1>t DEF vars
<1> HIDE DEF CtxInv, TypeInv, TypeOK, Threads, schedVars, taskVars
<1> QED
  BY <1>1, <1>2, <1>3, <1>4, <1>5, <1>6, <1>7, <1>8, <1>9, <1>10, <1>11, <1>12, <1>13, <1>14, <1>15, <1>16, <1>17, <1>18, <1>19, <1>20, <1>21, <1>22, <1>23, <1>24, <1>25, <1>26, <1>27, <1>28
     DEF Next, UserStep, CallStep, CleanupStep, WorkerStep, BodyEnd, ShutdownStep, Terminated

\* No worker leaves before main stops, none with tasks queued.
LEMMA LeaveStep == ExitInv /\ [Next]_vars => LeaveInv'
<1> SUFFICES ASSUME ExitInv, [Next]_vars PROVE LeaveInv'
  OBVIOUS
<1>t. TypeInv /\ LeaveInv
  BY DEF ExitInv, IInv
<1> USE SchedulerAssumption DEF LeaveInv, Gone, TypeInv, TypeOK, Threads, schedVars, taskVars
<1>1. ASSUME NEW th \in Threads, OpError(th)
     PROVE  LeaveInv'
  BY <1>1, <1>t DEF OpError, MayRaise
<1>2. ASSUME NEW th \in Threads, NEW t \in Tasks, Spawn(th, t)
     PROVE  LeaveInv'
  BY <1>2, <1>t DEF Spawn, MayLaunch
<1>3. ASSUME NEW th \in Threads, NotifyOne(th)
     PROVE  LeaveInv'
  BY ZenonT(60), <1>3, <1>t DEF NotifyOne
<1>4. ASSUME NEW th \in Threads, NEW t \in Tasks, SpawnReady(th, t)
     PROVE  LeaveInv'
  BY <1>4, <1>t DEF SpawnReady, MayLaunch
<1>5. ASSUME NEW th \in Threads, NEW fb \in BOOLEAN, PullInvalid(th, fb)
     PROVE  LeaveInv'
  BY <1>5, <1>t DEF PullInvalid, AfterPull, MayRaise
<1>6. ASSUME NEW th \in Threads, NEW t \in Tasks, PullBegin(th, t)
     PROVE  LeaveInv'
  BY <1>6, <1>t DEF PullBegin
<1>7. ASSUME NEW th \in Threads, WaitReady(th)
     PROVE  LeaveInv'
  BY <1>7, <1>t DEF WaitReady, Waiting
<1>8. ASSUME NEW th \in Threads, NEW fb \in BOOLEAN, PullFailed(th, fb)
     PROVE  LeaveInv'
  BY <1>8, <1>t DEF PullFailed, AfterPull, Awake, Waiting
<1>9. ASSUME NEW th \in Threads, NEW fb \in BOOLEAN, PullAgain(th, fb)
     PROVE  LeaveInv'
  BY <1>9, <1>t DEF PullAgain, AfterPull, Awake, Waiting
<1>10. ASSUME NEW th \in Threads, NEW fb \in BOOLEAN, PullValue(th, fb)
     PROVE  LeaveInv'
  BY <1>10, <1>t DEF PullValue, AfterPull, Awake, Waiting
<1>11. ASSUME NEW th \in Threads, NEW t \in Tasks, ReleaseBegin(th, t)
     PROVE  LeaveInv'
  BY <1>11, <1>t DEF ReleaseBegin, ClosePc
<1>12. ASSUME NEW th \in Threads, NEW from \in DOMAIN ClosePc, CloseTask(th, from)
     PROVE  LeaveInv'
  BY <1>12, <1>t DEF CloseTask, ClosePc, Awake, Waiting
<1>13. ASSUME NEW w \in Workers, WorkerTake(w)
     PROVE  LeaveInv'
  BY <1>13, <1>t DEF WorkerTake
<1>14. ASSUME NEW w \in Workers, WorkerWait(w)
     PROVE  LeaveInv'
  BY <1>14, <1>t DEF WorkerWait
<1>15. ASSUME NEW w \in Workers, WorkerLeave(w)
     PROVE  LeaveInv'
  BY <1>15, <1>t DEF WorkerLeave
<1>16. ASSUME NEW w \in Workers, SpuriousWake(w)
     PROVE  LeaveInv'
  BY <1>16, <1>t DEF SpuriousWake
<1>17. ASSUME NEW w \in Workers, RunBegin(w)
     PROVE  LeaveInv'
  BY <1>17, <1>t DEF RunBegin
<1>18. ASSUME NEW w \in Workers, BatchDone(w)
     PROVE  LeaveInv'
  BY <1>18, <1>t DEF BatchDone
<1>19. ASSUME NEW w \in Workers, BodyReturn(w)
     PROVE  LeaveInv'
  BY <1>19, <1>t DEF BodyReturn, RunEnd
<1>20. ASSUME NEW w \in Workers, BodyThrow(w)
     PROVE  LeaveInv'
  BY <1>20, <1>t DEF BodyThrow, RunEnd, MayRaise
<1>21. ASSUME NEW w \in Workers, Publish(w)
     PROVE  LeaveInv'
  BY <1>21, <1>t DEF Publish
<1>22. ASSUME NEW w \in Workers, WakeAll(w)
     PROVE  LeaveInv'
  BY <1>22, <1>t DEF WakeAll
<1>23. ASSUME NEW w \in Workers, WorkerExit(w)
     PROVE  LeaveInv'
  BY <1>23, <1>t DEF WorkerExit
<1>24. CASE ProgramEnd
  BY <1>24, <1>t DEF ProgramEnd
<1>25. CASE SetStopping
  BY <1>25, <1>t DEF SetStopping
<1>26. CASE NotifyAllWorkers
  BY <1>26, <1>t DEF NotifyAllWorkers
<1>27. CASE Join
  BY <1>27, <1>t DEF Join
<1>28. CASE UNCHANGED vars
  BY <1>28, <1>t DEF vars
<1> HIDE DEF LeaveInv, Gone, TypeInv, TypeOK, Threads, schedVars, taskVars
<1> QED
  BY <1>1, <1>2, <1>3, <1>4, <1>5, <1>6, <1>7, <1>8, <1>9, <1>10, <1>11, <1>12, <1>13, <1>14, <1>15, <1>16, <1>17, <1>18, <1>19, <1>20, <1>21, <1>22, <1>23, <1>24, <1>25, <1>26, <1>27, <1>28
     DEF Next, UserStep, CallStep, CleanupStep, WorkerStep, BodyEnd, ShutdownStep, Terminated

\* At the end of the process every StyioTask is deleted, every captured
\* context freed and every launched task has run, for every number of workers
\* and tasks: HandleTableCleanup empties each thread's table, and a worker
\* leaves worker_loop only with an empty queue.
THEOREM ExitAlwaysClean == Spec => []CleanExit
<1>1. Init => ExitInv
  <2> SUFFICES ASSUME Init PROVE HeldInv /\ CtxInv /\ LeaveInv
    BY InitIInv DEF ExitInv
  <2> QED BY SchedulerAssumption DEF Init, HeldInv, CtxInv, LeaveInv, Threads
<1>2. ExitInv /\ [Next]_vars => ExitInv'
  BY TypeStep, PlaceStep, OwnerStep, HeldStep, CtxStep, LeaveStep DEF ExitInv, IInv
<1>3. ExitInv => CleanExit
  <2> SUFFICES ASSUME ExitInv, pc[Main] = "done" PROVE alive = {} /\ ctx = {} /\ queue = <<>> /\ created = ready
    BY DEF CleanExit
  <2>1. \A w \in Workers : pc[w] \in {"unborn", "exited"}
    BY DEF ExitInv, LeaveInv
  <2>2. queue = <<>> /\ Len(queue) = 0
    BY <2>1 DEF ExitInv, LeaveInv, Gone
  <2>3. \A w \in Workers : Len(batch[w]) = 0
    BY <2>1 DEF ExitInv, IInv, PlaceInv, BatchInv, IdlePc
  <2>4. created = ready
    <3>1. created \ ready = {}
      BY <2>2, <2>3 DEF ExitInv, IInv, PlaceInv, NoneLost
    <3> QED BY <3>1 DEF ExitInv, IInv, PlaceInv, NoneLost
  <2>5. \A th \in Threads : handles[th] = {} /\ ~Closing(th)
    BY <2>1 DEF ExitInv, HeldInv, Threads, Closing
  <2>6. alive = {}
    BY <2>5 DEF ExitInv, HeldInv
  <2> QED BY <2>2, <2>4, <2>6 DEF ExitInv, CtxInv
<1> QED BY <1>1, <1>2, <1>3, PTL DEF Spec
-----------------------------------------------------------------------------
(***************************************************************************)
(* When bodies launch nothing, a worker has no handles and so no pull; its *)
(* error slot is what the body it runs has raised.                         *)
(***************************************************************************)
OwnInv ==
  ~Nested =>
    /\ \A w \in Workers :
         /\ handles[w] = {}
         /\ pc[w] \notin {"notify", "pull", "close", "retclose", "exitclose"}
         /\ pc[w] \in {"body", "return"} /\ Head(batch[w]) \notin Faulty => err[w] = NoError
         /\ pc[w] = "publish" /\ Head(batch[w]) \notin Faulty => result[Head(batch[w])] = "ok"
    /\ \A t \in ready \ Faulty : result[t] = "ok"

FailInv == IInv /\ OwnInv

\* No step puts another task's failure into a result.
LEMMA OwnStep == FailInv /\ [Next]_vars => OwnInv'
<1> SUFFICES ASSUME FailInv, [Next]_vars PROVE OwnInv'
  OBVIOUS
<1>t. TypeInv /\ PlaceInv /\ OwnInv
  BY DEF FailInv, IInv
<1> USE SchedulerAssumption DEF OwnInv, NoError, TypeInv, TypeOK, Threads, schedVars, taskVars
<1>1. ASSUME NEW th \in Threads, OpError(th)
     PROVE  OwnInv'
  BY <1>1, <1>t DEF OpError, MayRaise
<1>2. ASSUME NEW th \in Threads, NEW t \in Tasks, Spawn(th, t)
     PROVE  OwnInv'
  BY <1>2, <1>t DEF Spawn, MayLaunch
<1>3. ASSUME NEW th \in Threads, NotifyOne(th)
     PROVE  OwnInv'
  BY <1>3, <1>t DEF NotifyOne
<1>4. ASSUME NEW th \in Threads, NEW t \in Tasks, SpawnReady(th, t)
     PROVE  OwnInv'
  BY <1>4, <1>t DEF SpawnReady, MayLaunch
<1>5. ASSUME NEW th \in Threads, NEW fb \in BOOLEAN, PullInvalid(th, fb)
     PROVE  OwnInv'
  BY <1>5, <1>t DEF PullInvalid, AfterPull, MayRaise
<1>6. ASSUME NEW th \in Threads, NEW t \in Tasks, PullBegin(th, t)
     PROVE  OwnInv'
  BY <1>6, <1>t DEF PullBegin
<1>7. ASSUME NEW th \in Threads, WaitReady(th)
     PROVE  OwnInv'
  BY <1>7, <1>t DEF WaitReady, Waiting
<1>8. ASSUME NEW th \in Threads, NEW fb \in BOOLEAN, PullFailed(th, fb)
     PROVE  OwnInv'
  BY <1>8, <1>t DEF PullFailed, AfterPull, Awake, Waiting
<1>9. ASSUME NEW th \in Threads, NEW fb \in BOOLEAN, PullAgain(th, fb)
     PROVE  OwnInv'
  BY <1>9, <1>t DEF PullAgain, AfterPull, Awake, Waiting
<1>10. ASSUME NEW th \in Threads, NEW fb \in BOOLEAN, PullValue(th, fb)
     PROVE  OwnInv'
  BY <1>10, <1>t DEF PullValue, AfterPull, Awake, Waiting
<1>11. ASSUME NEW th \in Threads, NEW t \in Tasks, ReleaseBegin(th, t)
     PROVE  OwnInv'
  BY <1>11, <1>t DEF ReleaseBegin, ClosePc
<1>12. ASSUME NEW th \in Threads, NEW from \in DOMAIN ClosePc, CloseTask(th, from)
     PROVE  OwnInv'
  BY <1>12, <1>t DEF CloseTask, ClosePc, Awake, Waiting
<1>13. ASSUME NEW w \in Workers, WorkerTake(w)
     PROVE  OwnInv'
  BY <1>13, <1>t DEF WorkerTake
<1>14. ASSUME NEW w \in Workers, WorkerWait(w)
     PROVE  OwnInv'
  BY <1>14, <1>t DEF WorkerWait
<1>15. ASSUME NEW w \in Workers, WorkerLeave(w)
     PROVE  OwnInv'
  BY <1>15, <1>t DEF WorkerLeave
<1>16. ASSUME NEW w \in Workers, SpuriousWake(w)
     PROVE  OwnInv'
  BY <1>16, <1>t DEF SpuriousWake
<1>17. ASSUME NEW w \in Workers, RunBegin(w)
     PROVE  OwnInv'
  BY <1>17, <1>t DEF RunBegin
<1>18. ASSUME NEW w \in Workers, BatchDone(w)
     PROVE  OwnInv'
  BY <1>18, <1>t DEF BatchDone
<1>19. ASSUME NEW w \in Workers, BodyReturn(w)
     PROVE  OwnInv'
  <2>1. /\ pc[w] \in {"body", "return"} /\ pc' = [pc EXCEPT ![w] = "publish"]
        /\ result' = [result EXCEPT ![Head(batch[w])] = IF err[w] = NoError THEN "ok" ELSE err[w]]
        /\ err' = [err EXCEPT ![w] = NoError]
        /\ UNCHANGED <<batch, handles, ready>>
    BY <1>19 DEF BodyReturn, RunEnd
  <2>2. batch[w] # <<>> /\ Head(batch[w]) \in Tasks
    BY <2>1, <1>t DEF Running, RunPc
  <2>3. /\ \A x \in Tasks : x # Head(batch[w]) => result'[x] = result[x]
        /\ ~Nested /\ Head(batch[w]) \notin Faulty => result'[Head(batch[w])] = "ok"
    BY <2>1, <2>2, <1>t
  <2>4. ~Nested => \A t \in ready \ Faulty : result'[t] = "ok"
    BY <2>3, <1>t
  <2>5. \A v \in Workers \ {w} : pc'[v] = pc[v] /\ err'[v] = err[v]
    BY <2>1, <1>t
  <2>6. \A v \in Workers : pc[v] = "publish" => Head(batch[v]) \in Tasks
    BY <1>t DEF Running, RunPc
  <2>7. ASSUME ~Nested, NEW v \in Workers
        PROVE  /\ handles'[v] = {}
               /\ pc'[v] \notin {"notify", "pull", "close", "retclose", "exitclose"}
               /\ pc'[v] \in {"body", "return"} /\ Head(batch'[v]) \notin Faulty => err'[v] = NoError
               /\ pc'[v] = "publish" /\ Head(batch'[v]) \notin Faulty => result'[Head(batch'[v])] = "ok"
    <3>1. CASE v = w
      BY <2>7, <3>1, <2>1, <2>3, <1>t
    <3>2. CASE v # w
      BY <2>7, <3>2, <2>1, <2>3, <2>5, <2>6, <1>t
    <3> QED BY <3>1, <3>2
  <2> QED BY <2>1, <2>4, <2>7
<1>20. ASSUME NEW w \in Workers, BodyThrow(w)
     PROVE  OwnInv'
  BY <1>20, <1>t DEF BodyThrow, RunEnd, MayRaise
<1>21. ASSUME NEW w \in Workers, Publish(w)
     PROVE  OwnInv'
  BY <1>21, <1>t DEF Publish
<1>22. ASSUME NEW w \in Workers, WakeAll(w)
     PROVE  OwnInv'
  BY <1>22, <1>t DEF WakeAll
<1>23. ASSUME NEW w \in Workers, WorkerExit(w)
     PROVE  OwnInv'
  BY <1>23, <1>t DEF WorkerExit
<1>24. CASE ProgramEnd
  BY <1>24, <1>t DEF ProgramEnd
<1>25. CASE SetStopping
  BY <1>25, <1>t DEF SetStopping
<1>26. CASE NotifyAllWorkers
  BY <1>26, <1>t DEF NotifyAllWorkers
<1>27. CASE Join
  BY <1>27, <1>t DEF Join
<1>28. CASE UNCHANGED vars
  BY <1>28, <1>t DEF vars
<1> HIDE DEF OwnInv, NoError, TypeInv, TypeOK, Threads, schedVars, taskVars
<1> QED
  BY <1>1, <1>2, <1>3, <1>4, <1>5, <1>6, <1>7, <1>8, <1>9, <1>10, <1>11, <1>12, <1>13, <1>14, <1>15, <1>16, <1>17, <1>18, <1>19, <1>20, <1>21, <1>22, <1>23, <1>24, <1>25, <1>26, <1>27, <1>28
     DEF Next, UserStep, CallStep, CleanupStep, WorkerStep, BodyEnd, ShutdownStep, Terminated

\* A task whose body raises nothing succeeds, whatever its worker ran before,
\* for every number of workers and tasks: run() clears the error slot that an
\* exception of an earlier body left set.
THEOREM FailuresAlwaysOwn == Spec => []FailuresAreOwn
<1>1. Init => FailInv
  <2> SUFFICES ASSUME Init PROVE OwnInv
    BY InitIInv DEF FailInv
  <2> QED BY SchedulerAssumption DEF Init, OwnInv, Threads
<1>2. FailInv /\ [Next]_vars => FailInv'
  BY TypeStep, PlaceStep, OwnerStep, OwnStep DEF FailInv, IInv
<1>3. FailInv => FailuresAreOwn
  BY DEF FailInv, OwnInv, FailuresAreOwn
<1> QED BY <1>1, <1>2, <1>3, PTL DEF Spec

-----------------------------------------------------------------------------
(* The scheduler implements TaskFuture: each step launches, completes,     *)
(* takes or drops one task, or changes nothing that a program can see of   *)
(* its handles.                                                            *)

phaseOf == [t \in Tasks |-> Phase(t)]
outcomeOf == [t \in Tasks |-> IF t \in ready THEN result[t] ELSE Pending]

FutureInv == IInv /\ consumed \subseteq ready

\* A change of one task, seen through the mapping.
LEMMA PhaseChange ==
  ASSUME NEW s \in Tasks,
         \A t \in Tasks \ {s} :
           /\ t \in created' <=> t \in created
           /\ t \in alive' <=> t \in alive
           /\ t \in ready' <=> t \in ready
           /\ t \in consumed' <=> t \in consumed
  PROVE  phaseOf' = [phaseOf EXCEPT ![s] = Phase(s)']
BY DEF phaseOf, Phase

\* The result of one task, seen through the mapping.
LEMMA OutcomeChange ==
  ASSUME NEW s \in Tasks,
         \A t \in Tasks \ {s} : (t \in ready' <=> t \in ready) /\ result'[t] = result[t]
  PROVE  outcomeOf' = [outcomeOf EXCEPT ![s] = outcomeOf'[s]]
BY DEF outcomeOf

\* Steps that a program cannot see through a handle.
LEMMA FutureFrame ==
  ASSUME UNCHANGED <<created, alive, ready, consumed>>, \A t \in ready : result'[t] = result[t]
  PROVE  UNCHANGED Future!futureVars
BY DEF Phase, Future!futureVars

\* What a queued, running or pulled task is.
LEMMA Facts ==
  ASSUME FutureInv
  PROVE  /\ consumed \subseteq ready /\ ready \subseteq created /\ created \subseteq Tasks
         /\ created \ ready \subseteq alive /\ alive \subseteq created
         /\ \A w \in Workers : pc[w] \in RunPc \ {"wake"} => Head(batch[w]) \in created \ ready
         /\ \A th \in Threads : pc[th] = "pull" \/ Closing(th) => target[th] \in alive
<1>1. \A w \in Workers : pc[w] \in RunPc \ {"wake"} => Head(batch[w]) \in created \ ready
  <2> SUFFICES ASSUME NEW w \in Workers, pc[w] \in RunPc \ {"wake"}
               PROVE  Head(batch[w]) \in created \ ready
    OBVIOUS
  <2>1. batch[w] # <<>> /\ batch[w] \in Seq(Tasks)
    BY DEF FutureInv, IInv, TypeInv, TypeOK, Running
  <2>2. 1 \in 1 .. Len(batch[w]) /\ Head(batch[w]) = batch[w][1]
    BY <2>1
  <2> QED BY <2>2 DEF FutureInv, IInv, PlaceInv, BatchInv
<1>2. \A th \in Threads : pc[th] = "pull" \/ Closing(th) => target[th] \in alive
  BY DEF FutureInv, IInv, OwnerInv
<1> QED BY <1>1, <1>2 DEF FutureInv, IInv, TypeInv, TypeOK, PlaceInv, NoneLost, OwnerInv

\* One step per action of TaskScheduler.
LEMMA FutureStep == FutureInv /\ [Next]_vars => [Future!FutureNext]_(Future!futureVars)
<1> SUFFICES ASSUME FutureInv, [Next]_vars PROVE [Future!FutureNext]_(Future!futureVars)
  OBVIOUS
<1>t. FutureInv
  OBVIOUS
<1>1. ASSUME NEW th \in Threads, OpError(th)
     PROVE  UNCHANGED Future!futureVars
  BY <1>1, FutureFrame DEF OpError, taskVars
<1>2. ASSUME NEW th \in Threads, NEW t \in Tasks, Spawn(th, t)
     PROVE  Future!FutureNext
  <2>1. /\ t \notin created /\ t \in created' /\ t \in alive' /\ UNCHANGED <<ready, result, consumed>>
        /\ created' = created \cup {t} /\ alive' = alive \cup {t}
    BY <1>2 DEF Spawn
  <2>2. t \notin ready
    BY <2>1, <1>t, Facts
  <2>3. Phase(t) = "unborn" /\ Phase(t)' = "pending"
    BY <2>1, <2>2 DEF Phase
  <2>4. phaseOf' = [phaseOf EXCEPT ![t] = "pending"]
    BY <2>1, <2>3, PhaseChange
  <2>5. outcomeOf' = outcomeOf
    BY <2>1 DEF outcomeOf
  <2>6. Future!Launch(t)
    BY <2>3, <2>4, <2>5 DEF phaseOf, outcomeOf, Future!Launch
  <2> QED BY <2>6 DEF Future!FutureNext
<1>3. ASSUME NEW th \in Threads, NotifyOne(th)
     PROVE  UNCHANGED Future!futureVars
  BY <1>3, FutureFrame DEF NotifyOne, taskVars
<1>4. ASSUME NEW th \in Threads, NEW t \in Tasks, SpawnReady(th, t)
     PROVE  Future!FutureNext
  <2>1. /\ t \notin created /\ created' = created \cup {t} /\ alive' = alive \cup {t}
        /\ ready' = ready \cup {t} /\ result' = [result EXCEPT ![t] = "ok"] /\ UNCHANGED consumed
    BY <1>4 DEF SpawnReady
  <2>2. t \notin ready /\ t \notin consumed
    BY <2>1, <1>t, Facts
  <2>3. Phase(t) = "unborn" /\ Phase(t)' = "complete"
    BY <2>1, <2>2 DEF Phase
  <2>4. phaseOf' = [phaseOf EXCEPT ![t] = "complete"]
    BY <2>1, <2>3, PhaseChange
  <2>5. outcomeOf'[t] = "ok"
    BY <2>1, <1>t DEF outcomeOf, FutureInv, IInv, TypeInv, TypeOK
  <2>6. outcomeOf' = [outcomeOf EXCEPT ![t] = "ok"]
    <3>1. \A s \in Tasks \ {t} : (s \in ready' <=> s \in ready) /\ result'[s] = result[s]
      BY <2>1, <1>t DEF FutureInv, IInv, TypeInv, TypeOK
    <3> QED BY <3>1, <2>5, OutcomeChange
  <2>7. Future!LaunchReady(t)
    BY <2>3, <2>4, <2>6 DEF phaseOf, outcomeOf, Future!LaunchReady
  <2> QED BY <2>7 DEF Future!FutureNext
<1>5. ASSUME NEW th \in Threads, NEW fb \in BOOLEAN, PullInvalid(th, fb)
     PROVE  UNCHANGED Future!futureVars
  BY <1>5, FutureFrame DEF PullInvalid, AfterPull, taskVars
<1>6. ASSUME NEW th \in Threads, NEW t \in Tasks, PullBegin(th, t)
     PROVE  UNCHANGED Future!futureVars
  BY <1>6, FutureFrame DEF PullBegin, taskVars
<1>7. ASSUME NEW th \in Threads, WaitReady(th)
     PROVE  UNCHANGED Future!futureVars
  BY <1>7, FutureFrame DEF WaitReady, taskVars
<1>8. ASSUME NEW th \in Threads, NEW fb \in BOOLEAN, PullFailed(th, fb)
     PROVE  UNCHANGED Future!futureVars
  BY <1>8, FutureFrame DEF PullFailed, taskVars
<1>9. ASSUME NEW th \in Threads, NEW fb \in BOOLEAN, PullAgain(th, fb)
     PROVE  UNCHANGED Future!futureVars
  BY <1>9, FutureFrame DEF PullAgain, taskVars
<1>10. ASSUME NEW th \in Threads, NEW fb \in BOOLEAN, PullValue(th, fb)
     PROVE  Future!FutureNext
  <2>0. PICK t : t = target[th]
    OBVIOUS
  <2>1. /\ pc[th] = "pull" /\ t \in ready /\ result[t] = "ok" /\ t \notin consumed
        /\ consumed' = consumed \cup {t} /\ UNCHANGED <<alive, created, ready, result>>
    BY <1>10, <2>0 DEF PullValue, Awake
  <2>2. t \in alive /\ t \in created /\ t \in Tasks
    BY <2>0, <2>1, <1>t, Facts
  <2>3. Phase(t) = "complete" /\ Phase(t)' = "taken"
    BY <2>1, <2>2 DEF Phase
  <2>4. phaseOf' = [phaseOf EXCEPT ![t] = "taken"]
    BY <2>1, <2>2, <2>3, PhaseChange
  <2>5. outcomeOf' = outcomeOf /\ outcomeOf[t] = "ok"
    BY <2>1, <2>2 DEF outcomeOf
  <2>6. Future!Take(t)
    BY <2>2, <2>3, <2>4, <2>5 DEF phaseOf, outcomeOf, Future!Take
  <2> QED BY <2>2, <2>6 DEF Future!FutureNext
<1>11. ASSUME NEW th \in Threads, NEW t \in Tasks, ReleaseBegin(th, t)
     PROVE  UNCHANGED Future!futureVars
  BY <1>11, FutureFrame DEF ReleaseBegin, taskVars
<1>12. ASSUME NEW th \in Threads, NEW from \in DOMAIN ClosePc, CloseTask(th, from)
     PROVE  Future!FutureNext
  <2>0. PICK t : t = target[th]
    OBVIOUS
  <2>1. /\ Closing(th) /\ t \in ready /\ alive' = alive \ {t}
        /\ UNCHANGED <<created, ready, result, consumed>>
    BY <1>12, <2>0 DEF CloseTask, ClosePc, Awake, Closing
  <2>2. t \in alive /\ t \in created /\ t \in Tasks
    BY <2>0, <2>1, <1>t, Facts
  <2>3. Phase(t) \in {"complete", "taken"} /\ Phase(t)' = "dropped"
    BY <2>1, <2>2 DEF Phase
  <2>4. phaseOf' = [phaseOf EXCEPT ![t] = "dropped"]
    BY <2>1, <2>2, <2>3, PhaseChange
  <2>5. outcomeOf' = outcomeOf
    BY <2>1 DEF outcomeOf
  <2>6. Future!Drop(t)
    BY <2>2, <2>3, <2>4, <2>5 DEF phaseOf, outcomeOf, Future!Drop
  <2> QED BY <2>2, <2>6 DEF Future!FutureNext
<1>13. ASSUME NEW w \in Workers, WorkerTake(w)
     PROVE  UNCHANGED Future!futureVars
  BY <1>13, FutureFrame DEF WorkerTake, taskVars
<1>14. ASSUME NEW w \in Workers, WorkerWait(w)
     PROVE  UNCHANGED Future!futureVars
  BY <1>14, FutureFrame DEF WorkerWait, taskVars
<1>15. ASSUME NEW w \in Workers, WorkerLeave(w)
     PROVE  UNCHANGED Future!futureVars
  BY <1>15, FutureFrame DEF WorkerLeave, taskVars
<1>16. ASSUME NEW w \in Workers, SpuriousWake(w)
     PROVE  UNCHANGED Future!futureVars
  BY <1>16, FutureFrame DEF SpuriousWake, taskVars
<1>17. ASSUME NEW w \in Workers, RunBegin(w)
     PROVE  UNCHANGED Future!futureVars
  BY <1>17, FutureFrame DEF RunBegin, taskVars
<1>18. ASSUME NEW w \in Workers, BatchDone(w)
     PROVE  UNCHANGED Future!futureVars
  BY <1>18, FutureFrame DEF BatchDone, taskVars
<1>19. ASSUME NEW w \in Workers, BodyReturn(w)
     PROVE  UNCHANGED Future!futureVars
  <2>1. /\ pc[w] \in {"body", "return"} /\ UNCHANGED <<created, alive, ready, consumed>>
        /\ \E o : result' = [result EXCEPT ![Head(batch[w])] = o]
    BY <1>19 DEF BodyReturn, RunEnd
  <2>2. Head(batch[w]) \notin ready
    BY <2>1, <1>t, Facts DEF RunPc
  <2>3. \A t \in ready : result'[t] = result[t]
    BY <2>1, <2>2, <1>t DEF FutureInv, IInv, TypeInv, TypeOK
  <2> QED BY <2>1, <2>3, FutureFrame
<1>20. ASSUME NEW w \in Workers, BodyThrow(w)
     PROVE  UNCHANGED Future!futureVars
  <2>1. /\ pc[w] \in {"body", "return"} /\ UNCHANGED <<created, alive, ready, consumed>>
        /\ \E o : result' = [result EXCEPT ![Head(batch[w])] = o]
    BY <1>20 DEF BodyThrow, RunEnd
  <2>2. Head(batch[w]) \notin ready
    BY <2>1, <1>t, Facts DEF RunPc
  <2>3. \A t \in ready : result'[t] = result[t]
    BY <2>1, <2>2, <1>t DEF FutureInv, IInv, TypeInv, TypeOK
  <2> QED BY <2>1, <2>3, FutureFrame
<1>21. ASSUME NEW w \in Workers, Publish(w)
     PROVE  Future!FutureNext
  <2>0. PICK t : t = Head(batch[w])
    OBVIOUS
  <2>1. /\ pc[w] = "publish" /\ ready' = ready \cup {t}
        /\ UNCHANGED <<alive, created, result, consumed>>
    BY <1>21, <2>0 DEF Publish
  <2>2. t \in created /\ t \in alive /\ t \in Tasks /\ t \notin ready /\ t \notin consumed
    BY <2>0, <2>1, <1>t, Facts DEF RunPc
  <2>3. Phase(t) = "pending" /\ Phase(t)' = "complete"
    BY <2>1, <2>2 DEF Phase
  <2>4. phaseOf' = [phaseOf EXCEPT ![t] = "complete"]
    BY <2>1, <2>2, <2>3, PhaseChange
  <2>5. PICK o \in ErrorCodes \cup {"ok"} : o = result[t]
    <3>1. result[t] \in ErrorCodes \cup {"ok", Pending}
      BY <2>2, <1>t DEF FutureInv, IInv, TypeInv, TypeOK
    <3>2. result[t] # Pending
      BY <2>0, <2>1, <1>t DEF FutureInv, IInv, TypeInv, ResultKnown
    <3> QED BY <3>1, <3>2
  <2>6. outcomeOf' = [outcomeOf EXCEPT ![t] = o]
    <3>1. outcomeOf'[t] = o
      BY <2>1, <2>2, <2>5 DEF outcomeOf
    <3> QED BY <3>1, <2>1, <2>2, OutcomeChange
  <2>7. Future!Complete(t, o)
    BY <2>2, <2>3, <2>4, <2>6 DEF phaseOf, outcomeOf, Future!Complete
  <2> QED BY <2>2, <2>5, <2>7 DEF Future!FutureNext
<1>22. ASSUME NEW w \in Workers, WakeAll(w)
     PROVE  UNCHANGED Future!futureVars
  BY <1>22, FutureFrame DEF WakeAll, taskVars
<1>23. ASSUME NEW w \in Workers, WorkerExit(w)
     PROVE  UNCHANGED Future!futureVars
  BY <1>23, FutureFrame DEF WorkerExit, taskVars
<1>24. ASSUME ProgramEnd
     PROVE  UNCHANGED Future!futureVars
  BY <1>24, FutureFrame DEF ProgramEnd, taskVars
<1>25. ASSUME SetStopping
     PROVE  UNCHANGED Future!futureVars
  BY <1>25, FutureFrame DEF SetStopping, taskVars
<1>26. ASSUME NotifyAllWorkers
     PROVE  UNCHANGED Future!futureVars
  BY <1>26, FutureFrame DEF NotifyAllWorkers, taskVars
<1>27. ASSUME Join
     PROVE  UNCHANGED Future!futureVars
  BY <1>27, FutureFrame DEF Join, taskVars
<1>28. ASSUME UNCHANGED vars
     PROVE  UNCHANGED Future!futureVars
  BY <1>28, FutureFrame DEF vars
<1> QED
  BY <1>1, <1>2, <1>3, <1>4, <1>5, <1>6, <1>7, <1>8, <1>9, <1>10, <1>11, <1>12, <1>13, <1>14, <1>15, <1>16, <1>17, <1>18, <1>19, <1>20, <1>21, <1>22, <1>23, <1>24, <1>25, <1>26, <1>27, <1>28
     DEF Next, UserStep, CallStep, CleanupStep, WorkerStep, BodyEnd, ShutdownStep, Terminated

\* Only a pull consumes, and it has waited for the task.
LEMMA ConsumedStep == FutureInv /\ [Next]_vars => consumed' \subseteq ready'
<1> SUFFICES ASSUME FutureInv, [Next]_vars PROVE consumed' \subseteq ready'
  OBVIOUS
<1>t. consumed \subseteq ready
  BY DEF FutureInv
<1>1. ASSUME NEW th \in Threads, OpError(th)
     PROVE  consumed' \subseteq ready'
  BY <1>1, <1>t DEF OpError, taskVars
<1>2. ASSUME NEW th \in Threads, NEW t \in Tasks, Spawn(th, t)
     PROVE  consumed' \subseteq ready'
  BY <1>2, <1>t DEF Spawn, taskVars
<1>3. ASSUME NEW th \in Threads, NotifyOne(th)
     PROVE  consumed' \subseteq ready'
  BY <1>3, <1>t DEF NotifyOne, taskVars
<1>4. ASSUME NEW th \in Threads, NEW t \in Tasks, SpawnReady(th, t)
     PROVE  consumed' \subseteq ready'
  BY <1>4, <1>t DEF SpawnReady, taskVars
<1>5. ASSUME NEW th \in Threads, NEW fb \in BOOLEAN, PullInvalid(th, fb)
     PROVE  consumed' \subseteq ready'
  BY <1>5, <1>t DEF PullInvalid, taskVars
<1>6. ASSUME NEW th \in Threads, NEW t \in Tasks, PullBegin(th, t)
     PROVE  consumed' \subseteq ready'
  BY <1>6, <1>t DEF PullBegin, taskVars
<1>7. ASSUME NEW th \in Threads, WaitReady(th)
     PROVE  consumed' \subseteq ready'
  BY <1>7, <1>t DEF WaitReady, taskVars
<1>8. ASSUME NEW th \in Threads, NEW fb \in BOOLEAN, PullFailed(th, fb)
     PROVE  consumed' \subseteq ready'
  BY <1>8, <1>t DEF PullFailed, taskVars
<1>9. ASSUME NEW th \in Threads, NEW fb \in BOOLEAN, PullAgain(th, fb)
     PROVE  consumed' \subseteq ready'
  BY <1>9, <1>t DEF PullAgain, taskVars
<1>10. ASSUME NEW th \in Threads, NEW fb \in BOOLEAN, PullValue(th, fb)
     PROVE  consumed' \subseteq ready'
  BY <1>10, <1>t DEF PullValue, Awake, taskVars
<1>11. ASSUME NEW th \in Threads, NEW t \in Tasks, ReleaseBegin(th, t)
     PROVE  consumed' \subseteq ready'
  BY <1>11, <1>t DEF ReleaseBegin, taskVars
<1>12. ASSUME NEW th \in Threads, NEW from \in DOMAIN ClosePc, CloseTask(th, from)
     PROVE  consumed' \subseteq ready'
  BY <1>12, <1>t DEF CloseTask, taskVars
<1>13. ASSUME NEW w \in Workers, WorkerTake(w)
     PROVE  consumed' \subseteq ready'
  BY <1>13, <1>t DEF WorkerTake, taskVars
<1>14. ASSUME NEW w \in Workers, WorkerWait(w)
     PROVE  consumed' \subseteq ready'
  BY <1>14, <1>t DEF WorkerWait, taskVars
<1>15. ASSUME NEW w \in Workers, WorkerLeave(w)
     PROVE  consumed' \subseteq ready'
  BY <1>15, <1>t DEF WorkerLeave, taskVars
<1>16. ASSUME NEW w \in Workers, SpuriousWake(w)
     PROVE  consumed' \subseteq ready'
  BY <1>16, <1>t DEF SpuriousWake, taskVars
<1>17. ASSUME NEW w \in Workers, RunBegin(w)
     PROVE  consumed' \subseteq ready'
  BY <1>17, <1>t DEF RunBegin, taskVars
<1>18. ASSUME NEW w \in Workers, BatchDone(w)
     PROVE  consumed' \subseteq ready'
  BY <1>18, <1>t DEF BatchDone, taskVars
<1>19. ASSUME NEW w \in Workers, BodyReturn(w)
     PROVE  consumed' \subseteq ready'
  BY <1>19, <1>t DEF BodyReturn, RunEnd, taskVars
<1>20. ASSUME NEW w \in Workers, BodyThrow(w)
     PROVE  consumed' \subseteq ready'
  BY <1>20, <1>t DEF BodyThrow, RunEnd, taskVars
<1>21. ASSUME NEW w \in Workers, Publish(w)
     PROVE  consumed' \subseteq ready'
  BY <1>21, <1>t DEF Publish, taskVars
<1>22. ASSUME NEW w \in Workers, WakeAll(w)
     PROVE  consumed' \subseteq ready'
  BY <1>22, <1>t DEF WakeAll, taskVars
<1>23. ASSUME NEW w \in Workers, WorkerExit(w)
     PROVE  consumed' \subseteq ready'
  BY <1>23, <1>t DEF WorkerExit, taskVars
<1>24. CASE ProgramEnd
  BY <1>24, <1>t DEF ProgramEnd, taskVars
<1>25. CASE SetStopping
  BY <1>25, <1>t DEF SetStopping, taskVars
<1>26. CASE NotifyAllWorkers
  BY <1>26, <1>t DEF NotifyAllWorkers, taskVars
<1>27. CASE Join
  BY <1>27, <1>t DEF Join, taskVars
<1>28. CASE UNCHANGED vars
  BY <1>28, <1>t DEF vars
<1> QED
  BY <1>1, <1>2, <1>3, <1>4, <1>5, <1>6, <1>7, <1>8, <1>9, <1>10, <1>11, <1>12, <1>13, <1>14, <1>15, <1>16, <1>17, <1>18, <1>19, <1>20, <1>21, <1>22, <1>23, <1>24, <1>25, <1>26, <1>27, <1>28
     DEF Next, UserStep, CallStep, CleanupStep, WorkerStep, BodyEnd, ShutdownStep, Terminated

\* A task handle is a one-shot future, for every number of workers and tasks:
\* it completes once, with an outcome that stays, hands out its value at most
\* once, and is dropped only when complete.
THEOREM SchedulerImplementsFuture == Spec => ImplementsFuture
<1>1. Init => FutureInv /\ Future!FutureInit
  <2> SUFFICES ASSUME Init PROVE consumed \subseteq ready /\ Future!FutureInit
    BY InitIInv DEF FutureInv
  <2> QED BY DEF Init, Future!FutureInit, Phase
<1>2. FutureInv /\ [Next]_vars => FutureInv'
  BY TypeStep, PlaceStep, OwnerStep, ConsumedStep DEF FutureInv, IInv
<1> QED BY <1>1, <1>2, FutureStep, PTL DEF Spec, ImplementsFuture, Future!FutureSpec
=============================================================================
