----------------------------- MODULE IvsrSdk_proofs -----------------------------
(***************************************************************************)
(* Proofs about the SDK, for any number of workers, calls, patches and     *)
(* inference requests, and whatever OpenVINO may fail to do.               *)
(***************************************************************************)
EXTENDS IvsrSdk, QueueLemmas, FiniteSetTheorems

LEMMA NotifyOneSubset ==
    ASSUME NEW S, NEW T \in NotifyOne(S)
    PROVE  T \subseteq S
  BY DEF NotifyOne

LEMMA TypeStep ==
    ASSUME SdkInv, [Next]_vars
    PROVE  TypeOK'
<1> USE DEF poolVars, executorVars, clientVars, workerVars, taskVars, processVars,
           Control, InProcess, InAsync, InDeinit, Stages, Pending, InUse, Over
<1>0. TypeOK /\ ModeInv /\ TaskInv
  BY DEF SdkInv
<1>c. cur \in 0 .. MaxCalls /\ MaxCalls \in Nat
  BY <1>0, MaxCallsAssumption DEF TypeOK
<1>r. requests \in Nat /\ idleIds \in Seq(Nat)
  BY <1>0 DEF TypeOK
<1>u. userCb \in [Calls -> Nat]
  BY <1>0 DEF TypeOK
<1>p. NPatches \in Nat \ {0} /\ 1 \in 1 .. NPatches + 1
  BY PatchAssumption
<1>1. CASE CallRejected
  <2>a. cur < MaxCalls
    BY <1>1 DEF CallRejected
  <2>1. cur + 1 \in 0 .. MaxCalls
    BY <2>a, <1>c
  <2> QED  BY <1>1, <1>0, <2>1 DEF CallRejected, TypeOK
<1>2. CASE Grow
  <2>1. requests \in Nat /\ idleIds \in Seq(Nat)
    BY <1>0 DEF TypeOK
  <2>2. requests' \in Nat /\ idleIds' \in Seq(Nat) /\ cvWaiters' = cvWaiters
    BY <1>2, <2>1, AppendFacts DEF Grow, CreateInferRequest
  <2>3. pc' \in Control
    BY <1>2 DEF Grow
  <2> QED  BY <1>2, <1>0, <2>2, <2>3 DEF Grow, TypeOK
<1>3. CASE GrowFails
  BY <1>3, <1>0 DEF GrowFails, TypeOK
<1>4. CASE Enqueue
  <2>1. cur \in Calls /\ nextPatch \in Patches /\ taskQueue \in Seq(Tasks)
    BY <1>4, <1>0 DEF Enqueue, TypeOK, ModeInv, TaskInv
  <2>2. [call |-> cur, patch |-> nextPatch] \in Tasks
    BY <2>1 DEF Tasks
  <2>3. taskQueue' \in Seq(Tasks)
    BY <1>4, <2>1, <2>2, AppendFacts DEF Enqueue, EnqueuePush
  <2>4. UNCHANGED <<cbCounter, isStopped, queueWaiters, syncWaiters>>
    BY <1>4 DEF Enqueue, EnqueuePush
  <2> QED  BY <1>4, <1>0, <2>3, <2>4 DEF Enqueue, TypeOK
<1>5. CASE Notify
  <2>1. nextPatch \in Patches
    BY <1>5, <1>0 DEF Notify, TaskInv
  <2>2. nextPatch' \in 1 .. NPatches + 1 /\ pc' \in Control
    BY <1>5, <1>p, <2>1 DEF Notify, Patches
  <2>3. /\ queueWaiters' \subseteq queueWaiters
        /\ UNCHANGED <<taskQueue, cbCounter, isStopped, syncWaiters>>
    BY <1>5, NotifyOneSubset DEF Notify, EnqueueNotify
  <2> QED  BY <1>5, <1>0, <2>2, <2>3 DEF Notify, TypeOK
<1>6. CASE SyncDone
  BY <1>6, <1>0 DEF SyncDone, SyncReturn, TypeOK
<1>7. CASE SyncWait
  BY <1>7, <1>0 DEF SyncWait, SyncSleep, TypeOK
<1>8. CASE ResetCounter
  BY <1>8, <1>0 DEF ResetCounter, Reset, TypeOK
<1>9. CASE Restore
  <2>1. cur \in Calls
    BY <1>9, <1>0 DEF Restore, ModeInv
  <2>a. userCb' = [userCb EXCEPT ![cur] = userCb[cur] + 1]
    BY <1>9 DEF Restore
  <2>b. userCb[cur] + 1 \in Nat
    BY <1>u, <2>1
  <2>2. userCb' \in [Calls -> Nat]
    BY <1>u, <2>a, <2>b
  <2> QED  BY <1>9, <1>0, <2>2 DEF Restore, TypeOK
<1>10. CASE RestoreToNull
  BY <1>10, <1>0 DEF RestoreToNull, TypeOK
<1>11. CASE AsyncNullOutput
  BY <1>11, <1>0 DEF AsyncNullOutput, TypeOK
<1>12. CASE AsyncGet
  <2>1. PICK id \in 0 .. requests - 1 :
             /\ GetIdleRequest(Client, id)
             /\ held' = [held EXCEPT ![AsyncTask] = id]
    BY <1>12 DEF AsyncGet
  <2>2. requests \in Nat /\ idleIds \in Seq(Nat) /\ id \in Nat
    BY <1>r, <2>1
  <2>3. idleIds' \in Seq(Nat) /\ UNCHANGED <<requests, cvWaiters>>
    BY <2>1, <2>2, TailFacts DEF GetIdleRequest
  <2>4. held' \in [Tasks -> Nat]
    BY <1>0, <2>1, <2>2 DEF TypeOK
  <2> QED  BY <1>12, <1>0, <2>3, <2>4 DEF AsyncGet, TypeOK
<1>13. CASE AsyncGetWait
  BY <1>13, <1>0 DEF AsyncGetWait, GetIdleRequestSleep, TypeOK
<1>14. CASE AsyncStart
  BY <1>14, <1>0 DEF AsyncStart, TypeOK
<1>15. CASE AsyncStartFails
  BY <1>15, <1>0 DEF AsyncStartFails, TypeOK
<1>16. CASE AsyncReturn
  BY <1>16, <1>0 DEF AsyncReturn, TypeOK
<1>17. CASE DeleteEngine
  BY <1>17, <1>0 DEF DeleteEngine, TypeOK
<1>18. CASE StopExecutor
  BY <1>18, <1>0 DEF StopExecutor, SetStopped, TypeOK
<1>19. CASE NotifyAllWorkers
  BY <1>19, <1>0 DEF NotifyAllWorkers, NotifyStopped, NotifyAll, TypeOK
<1>20. CASE Joined
  BY <1>20, <1>0 DEF Joined, TypeOK
<1>21. ASSUME NEW api \in Apis, NEW buffer \in Buffers, ProcessBegin(api, buffer)
      PROVE  TypeOK'
  <2>a. cur < MaxCalls
    BY <1>21 DEF ProcessBegin
  <2>b. buffer \in {"valid", "null_output"}
    BY <1>21, EnvironmentAssumption DEF ProcessBegin
  <2>1. cur + 1 \in 0 .. MaxCalls
    BY <2>a, <1>c
  <2>2. pc' \in Control
    BY <1>21 DEF ProcessBegin
  <2> QED  BY <1>21, <1>0, <1>p, <2>b, <2>1, <2>2 DEF ProcessBegin, TypeOK
<1>22. ASSUME NEW api \in Apis, NEW buffer \in Buffers, AsyncBegin(api, buffer)
      PROVE  TypeOK'
  <2>a. cur < MaxCalls
    BY <1>22 DEF AsyncBegin
  <2>b. buffer \in {"valid", "null_output"}
    BY <1>22, EnvironmentAssumption DEF AsyncBegin
  <2>1. cur + 1 \in 0 .. MaxCalls
    BY <2>a, <1>c
  <2>2. pc' \in Control
    BY <1>22 DEF AsyncBegin
  <2> QED  BY <1>22, <1>0, <1>p, <2>b, <2>1, <2>2 DEF AsyncBegin, TypeOK
<1>23. ASSUME NEW w \in Workers, WorkerTake(w)
      PROVE  TypeOK'
  <2>1. PICK u \in Tasks :
             /\ TakeTask(w, u)
             /\ took' = [took EXCEPT ![w] = u]
             /\ stage' = [stage EXCEPT ![u] = "taken"]
    BY <1>23 DEF WorkerTake
  <2>2. taskQueue \in Seq(Tasks)
    BY <1>0 DEF TypeOK
  <2>3. /\ taskQueue' \in Seq(Tasks)
        /\ UNCHANGED <<cbCounter, isStopped, queueWaiters, syncWaiters>>
    BY <2>1, <2>2, TailFacts DEF TakeTask
  <2>4. took' \in [Workers -> Tasks \cup {NoTask}] /\ stage' \in [Tasks -> Stages]
    BY <1>0, <2>1 DEF TypeOK
  <2> QED  BY <1>23, <1>0, <2>3, <2>4 DEF WorkerTake, TypeOK
<1>24. ASSUME NEW w \in Workers, WorkerWait(w)
      PROVE  TypeOK'
  BY <1>24, <1>0 DEF WorkerWait, WorkerSleep, TypeOK
<1>25. ASSUME NEW w \in Workers, WorkerLeave(w)
      PROVE  TypeOK'
  BY <1>25, <1>0 DEF WorkerLeave, WorkerStop, TypeOK
<1>26. ASSUME NEW w \in Workers, RunNullTask(w)
      PROVE  TypeOK'
  BY <1>26, <1>0 DEF RunNullTask, TypeOK
<1>27. ASSUME NEW w \in Workers, RunGet(w)
      PROVE  TypeOK'
  <2>1. PICK id \in 0 .. requests - 1 :
             /\ GetIdleRequest(w, id)
             /\ held' = [held EXCEPT ![took[w]] = id]
    BY <1>27 DEF RunGet
  <2>2. requests \in Nat /\ idleIds \in Seq(Nat) /\ id \in Nat
    BY <1>r, <2>1
  <2>3. idleIds' \in Seq(Nat) /\ UNCHANGED <<requests, cvWaiters>>
    BY <2>1, <2>2, TailFacts DEF GetIdleRequest
  <2>4. held' \in [Tasks -> Nat]
    BY <1>0, <2>1, <2>2 DEF TypeOK
  <2> QED  BY <1>27, <1>0, <2>3, <2>4 DEF RunGet, TypeOK
<1>28. ASSUME NEW w \in Workers, RunGetWait(w)
      PROVE  TypeOK'
  BY <1>28, <1>0 DEF RunGetWait, GetIdleRequestSleep, TypeOK
<1>29. ASSUME NEW w \in Workers, RunStart(w)
      PROVE  TypeOK'
  BY <1>29, <1>0 DEF RunStart, TypeOK
<1>30. ASSUME NEW w \in Workers, RunStartFails(w)
      PROVE  TypeOK'
  BY <1>30, <1>0 DEF RunStartFails, TypeOK
<1>32. ASSUME NEW t \in Tasks, InferDone(t)
      PROVE  TypeOK'
  BY <1>32, <1>0 DEF InferDone, TypeOK
<1>33. ASSUME NEW t \in Tasks, InferFails(t)
      PROVE  TypeOK'
  BY <1>33, <1>0 DEF InferFails, TypeOK
<1>34. ASSUME NEW t \in Tasks, InferCancelled(t)
      PROVE  TypeOK'
  BY <1>34, <1>0 DEF InferCancelled, TypeOK
<1>35. ASSUME NEW t \in Tasks, CallbackPutIdle(t)
      PROVE  TypeOK'
  <2>1. idleIds \in Seq(Nat) /\ held[t] \in Nat
    BY <1>0 DEF TypeOK
  <2>2. /\ idleIds' \in Seq(Nat)
        /\ cvWaiters' \subseteq cvWaiters
        /\ requests' = requests
    BY <1>35, <2>1, AppendFacts, NotifyOneSubset DEF CallbackPutIdle, PutIdleRequest
  <2> QED  BY <1>35, <1>0, <2>2 DEF CallbackPutIdle, TypeOK
<1>36. ASSUME NEW t \in Tasks, CallbackTask(t)
      PROVE  TypeOK'
  <2>1. /\ cbCounter' = cbCounter + 1
        /\ syncWaiters' \subseteq syncWaiters
        /\ UNCHANGED <<taskQueue, isStopped, queueWaiters>>
    <3>1. CompetitionCallBack
      BY <1>36 DEF CallbackTask
    <3> QED  BY <3>1, NotifyOneSubset DEF CompetitionCallBack
  <2>2. cbCounter' \in Nat
    <3>1. cbCounter \in Nat
      BY <1>0 DEF TypeOK
    <3> QED  BY <2>1, <3>1
  <2> QED  BY <1>36, <1>0, <2>1, <2>2 DEF CallbackTask, TypeOK
<1>37. ASSUME NEW t \in Tasks, CallbackUser(t)
      PROVE  TypeOK'
  <2>1. t.call \in Calls
    BY DEF Tasks
  <2>a. userCb' = [userCb EXCEPT ![t.call] = userCb[t.call] + 1]
    BY <1>37 DEF CallbackUser
  <2>b. userCb[t.call] + 1 \in Nat
    BY <1>u, <2>1
  <2>2. userCb' \in [Calls -> Nat]
    BY <1>u, <2>a, <2>b
  <2> QED  BY <1>37, <1>0, <2>2 DEF CallbackUser, TypeOK
<1>38. ASSUME NEW t \in Tasks, CallbackDeletedEngine(t)
      PROVE  TypeOK'
  BY <1>38, <1>0 DEF CallbackDeletedEngine, TypeOK
<1>39. ASSUME NEW t \in Workers \cup {Client}, SpuriousWakeup(t)
      PROVE  TypeOK'
  BY <1>39, <1>0 DEF SpuriousWakeup, PoolSpuriousWakeup, ExecutorSpuriousWakeup, TypeOK
<1>40. CASE UNCHANGED vars
  BY <1>40, <1>0 DEF vars, TypeOK
<1> QED
  BY <1>1, <1>2, <1>3, <1>4, <1>5, <1>6, <1>7, <1>8, <1>9, <1>10, <1>11, <1>12, <1>13, <1>14, <1>15, <1>16, <1>17, <1>18, <1>19, <1>20, <1>21, <1>22, <1>23, <1>24, <1>25, <1>26, <1>27, <1>28, <1>29, <1>30, <1>32, <1>33, <1>34, <1>35, <1>36, <1>37, <1>38, <1>39, <1>40
     DEF Next, InCall, Process, WorkerStep, Inference, Ended
--------------------------------------------------------------------------------
(* The rest of SdkInv: the state it is about, and three kinds of steps that  *)
(* most actions are.                                                         *)

CoreInv == ModeInv /\ TaskInv /\ QueueInv /\ WorkerInv /\ CounterCountsThisCall

coreVars == <<pc, cur, nextPatch, mode, stage, taskQueue, cbCounter, worker, took>>

\* Steps that leave the queue and what is queued alone.
LEMMA QueueFrame ==
    ASSUME QueueInv, taskQueue \in Seq(Tasks), taskQueue' = taskQueue,
           \A u \in Tasks : stage[u] = "queued" /\ mode[u.call] = "sync" =>
                            stage'[u] = "queued" /\ mode'[u.call] = "sync"
    PROVE  QueueInv'
<1>1. Len(taskQueue') = Len(taskQueue)
  OBVIOUS
<1>2. ASSUME NEW i \in 1 .. Len(taskQueue)
      PROVE  stage'[taskQueue[i]] = "queued" /\ mode'[taskQueue[i].call] = "sync"
  <2> DEFINE u == taskQueue[i]
  <2>1. u \in Tasks
    BY ElementFacts
  <2>2. stage[u] = "queued" /\ mode[u.call] = "sync"
    BY DEF QueueInv
  <2> HIDE DEF u
  <2>3. stage'[u] = "queued" /\ mode'[u.call] = "sync"
    BY <2>1, <2>2
  <2> QED  BY <2>3 DEF u
<1>3. \A i, j \in 1 .. Len(taskQueue') : taskQueue'[i] = taskQueue'[j] => i = j
  BY DEF QueueInv
<1> QED  BY <1>1, <1>2, <1>3 DEF QueueInv

\* Steps that change none of it.
LEMMA CoreFrame ==
    ASSUME CoreInv, UNCHANGED coreVars
    PROVE  CoreInv'
  BY DEF CoreInv, coreVars, ModeInv, TaskInv, QueueInv, WorkerInv,
         CounterCountsThisCall, NoTaskOutlivesItsCall, CompletedPatches

\* The application thread goes on, but not within ivsr_process.
OutsideProcess ==
    /\ pc \notin InProcess /\ pc' \notin InProcess
    /\ pc' \in InAsync => pc \in InAsync

LEMMA ControlStep ==
    ASSUME CoreInv, OutsideProcess,
           UNCHANGED <<cur, nextPatch, mode, stage, taskQueue, cbCounter, worker, took>>
    PROVE  CoreInv'
<1> USE DEF InProcess, InAsync, OutsideProcess
<1>1. ModeInv'
  BY DEF CoreInv, ModeInv
<1>2. TaskInv'
  BY DEF CoreInv, TaskInv, NoTaskOutlivesItsCall
<1>3. QueueInv' /\ WorkerInv'
  BY DEF CoreInv, QueueInv, WorkerInv
<1>4. CounterCountsThisCall'
  BY DEF CoreInv, CounterCountsThisCall
<1> QED  BY <1>1, <1>2, <1>3, <1>4 DEF CoreInv

\* A task of which the executor knows nothing, or no more than that it runs,
\* goes on, and does not complete.
LEMMA StageStep ==
    ASSUME CoreInv, stage \in [Tasks -> Stages], taskQueue \in Seq(Tasks),
           NEW t \in Tasks, NEW s,
           mode[t.call] # "none",
           \/ mode[t.call] # "sync"
           \/ stage[t] \in {"running", "finished"} /\ s \notin {"none", "completed"},
           stage' = [stage EXCEPT ![t] = s],
           pc' = pc \/ OutsideProcess,
           UNCHANGED <<cur, nextPatch, mode, taskQueue, cbCounter, worker, took>>
    PROVE  CoreInv'
<1> USE DEF InProcess, InAsync, OutsideProcess
<1>0. \A u \in Tasks : stage'[u] = IF u = t THEN s ELSE stage[u]
  OBVIOUS
<1>i. ModeInv /\ TaskInv /\ QueueInv /\ WorkerInv /\ CounterCountsThisCall
  BY DEF CoreInv
<1>1. ModeInv'
  BY <1>0, <1>i DEF ModeInv
<1>2. NoTaskOutlivesItsCall'
  BY <1>0, <1>i DEF TaskInv, NoTaskOutlivesItsCall
<1>3. ASSUME NEW p \in Patches, pc \in InProcess
      PROVE  /\ stage[[call |-> cur, patch |-> p]] \in {"none", "completed"} =>
                  stage'[[call |-> cur, patch |-> p]] = stage[[call |-> cur, patch |-> p]]
             /\ stage'[[call |-> cur, patch |-> p]] = "completed" =>
                  stage[[call |-> cur, patch |-> p]] = "completed"
  <2> DEFINE u == [call |-> cur, patch |-> p]
  <2>1. cur \in Calls /\ mode[cur] = "sync"
    BY <1>3, <1>i DEF ModeInv
  <2>2. u \in Tasks /\ u.call = cur
    BY <2>1 DEF Tasks
  <2>3. CASE u = t
    <3>1. stage[t] \in {"running", "finished"} /\ s \notin {"none", "completed"}
      BY <2>1, <2>2, <2>3
    <3> QED  BY <1>0, <2>2, <2>3, <3>1
  <2>4. CASE u # t
    BY <1>0, <2>2, <2>4
  <2> QED  BY <2>3, <2>4
<1>4. pc \in InProcess => CompletedPatches' = CompletedPatches
  <2> SUFFICES ASSUME pc \in InProcess
               PROVE  CompletedPatches' = CompletedPatches
    OBVIOUS
  <2>1. \A p \in Patches : stage'[[call |-> cur, patch |-> p]] = "completed"
                       <=> stage[[call |-> cur, patch |-> p]] = "completed"
    BY <1>3
  <2> QED  BY <2>1 DEF CompletedPatches
<1>5. TaskInv'
  BY <1>2, <1>3, <1>4, <1>i DEF TaskInv
<1>6. QueueInv'
  <2>1. \A u \in Tasks : stage[u] = "queued" /\ mode[u.call] = "sync" =>
                         stage'[u] = "queued" /\ mode'[u.call] = "sync"
    BY <1>0
  <2> QED  BY <2>1, <1>i, QueueFrame
<1>7. WorkerInv'
  <2>1. \A w \in Workers : worker[w] = "run" =>
            /\ took[w] \in Tasks
            /\ stage[took[w]] \in {"taken", "acquired"}
            /\ mode[took[w].call] = "sync"
    BY <1>i DEF WorkerInv
  <2>2. ASSUME NEW w \in Workers, worker[w] = "run"
        PROVE  stage'[took[w]] = stage[took[w]]
    <3>1. took[w] # t
      BY <2>1, <2>2
    <3> QED  BY <1>0, <2>1, <2>2, <3>1
  <2> QED  BY <1>i, <2>2 DEF WorkerInv
<1>8. CounterCountsThisCall'
  BY <1>4, <1>i DEF CounterCountsThisCall
<1> QED  BY <1>1, <1>5, <1>6, <1>7, <1>8 DEF CoreInv
--------------------------------------------------------------------------------
(* The steps of ivsr_process, each of which moves the invariant on.          *)

\* What the invariant says of the parts of the state these steps use.
LEMMA CoreFacts ==
    ASSUME SdkInv
    PROVE  /\ ModeInv /\ TaskInv /\ QueueInv /\ WorkerInv /\ CounterCountsThisCall
           /\ CoreInv
           /\ cur \in 0 .. MaxCalls /\ MaxCalls \in Nat /\ NPatches \in Nat \ {0}
           /\ stage \in [Tasks -> Stages]
           /\ mode \in [Calls -> {"none", "sync", "async"}]
           /\ taskQueue \in Seq(Tasks)
           /\ worker \in [Workers -> {"loop", "run", "stopped"}]
           /\ took \in [Workers -> Tasks \cup {NoTask}]
  BY MaxCallsAssumption, PatchAssumption DEF SdkInv, CoreInv, TypeOK

\* Outside of the loop over the patches and of wait_all no task is alive.
LEMMA NothingAlive ==
    ASSUME SdkInv, pc \notin {"enqueue", "notify", "sync"},
           NEW t \in Tasks, mode[t.call] = "sync"
    PROVE  stage[t] \in {"none", "completed"}
  BY DEF SdkInv, TaskInv, NoTaskOutlivesItsCall

\* Before the first Enqueue nothing is completed.
LEMMA NothingCompleted ==
    ASSUME \A p \in Patches : stage[[call |-> cur, patch |-> p]] = "none"
    PROVE  CompletedPatches = {} /\ Cardinality(CompletedPatches) = 0
<1>1. CompletedPatches = {}
  BY DEF CompletedPatches
<1> QED  BY <1>1, FS_EmptySet

LEMMA CallRejectedStep ==
    ASSUME SdkInv, CallRejected
    PROVE  CoreInv'
<1> USE DEF InProcess, InAsync
<1>1. /\ pc = "idle" /\ cur' = cur + 1 /\ cur < MaxCalls
      /\ UNCHANGED <<pc, nextPatch, mode, stage, taskQueue, cbCounter, worker, took>>
  BY DEF CallRejected, workerVars, taskVars, executorVars
<1>2. cur \in 0 .. MaxCalls /\ CoreInv
  BY CoreFacts
<1>3. \A c \in Calls : c > cur' => c > cur
  BY <1>1, <1>2 DEF Calls
<1>4. ModeInv'
  BY <1>1, <1>2, <1>3 DEF CoreInv, ModeInv
<1>5. TaskInv'
  BY <1>1, <1>2 DEF CoreInv, TaskInv, NoTaskOutlivesItsCall
<1>6. QueueInv' /\ WorkerInv'
  BY <1>1, <1>2 DEF CoreInv, QueueInv, WorkerInv
<1>7. CounterCountsThisCall'
  BY <1>1, <1>2 DEF CoreInv, CounterCountsThisCall
<1> QED  BY <1>4, <1>5, <1>6, <1>7 DEF CoreInv

LEMMA ProcessBeginStep ==
    ASSUME SdkInv, NEW api, NEW buffer, ProcessBegin(api, buffer)
    PROVE  CoreInv'
<1> USE DEF InProcess, InAsync
<1>1. /\ pc = "idle" /\ cur' = cur + 1 /\ cur < MaxCalls
      /\ mode' = [mode EXCEPT ![cur + 1] = "sync"]
      /\ nextPatch' = 1 /\ pc' \in {"grow", "enqueue"}
      /\ UNCHANGED <<stage, taskQueue, cbCounter, worker, took>>
  BY DEF ProcessBegin, workerVars, taskVars, executorVars
<1>2. /\ cur \in 0 .. MaxCalls /\ MaxCalls \in Nat /\ CoreInv
      /\ mode \in [Calls -> {"none", "sync", "async"}]
  BY CoreFacts
<1>3. cur' \in Calls /\ cur' > cur /\ (\A c \in Calls : c > cur' => c > cur)
  BY <1>1, <1>2 DEF Calls
<1>4. \A c \in Calls : mode'[c] = IF c = cur' THEN "sync" ELSE mode[c]
  BY <1>1, <1>2
<1>5. mode[cur'] = "none"
  BY <1>2, <1>3 DEF CoreInv, ModeInv
<1>6. \A t \in Tasks : t.call \in Calls /\ (t.call = cur' => stage[t] = "none")
  BY <1>2, <1>5 DEF Tasks, CoreInv, ModeInv
<1>7. \A t \in Tasks : mode[t.call] = "sync" => stage[t] \in {"none", "completed"}
  BY <1>1, NothingAlive
<1>8. \A p \in Patches : stage'[[call |-> cur', patch |-> p]] = "none"
  <2>1. \A p \in Patches : [call |-> cur', patch |-> p] \in Tasks
    BY <1>3 DEF Tasks
  <2> QED  BY <1>1, <1>6, <2>1
<1>9. ModeInv'
  BY <1>1, <1>2, <1>3, <1>4, <1>5, <1>6 DEF CoreInv, ModeInv
<1>10. NoTaskOutlivesItsCall'
  BY <1>1, <1>4, <1>6, <1>7 DEF NoTaskOutlivesItsCall
<1>11. TaskInv'
  <2>1. nextPatch' \in Patches
    BY <1>1, PatchAssumption DEF Patches
  <2> QED  BY <1>1, <1>8, <1>10, <2>1 DEF TaskInv
<1>12. QueueInv'
  <2>1. QueueInv /\ taskQueue \in Seq(Tasks)
    BY CoreFacts
  <2>2. \A u \in Tasks : stage[u] = "queued" /\ mode[u.call] = "sync" =>
                         stage'[u] = "queued" /\ mode'[u.call] = "sync"
    BY <1>1, <1>4, <1>6
  <2> QED  BY <1>1, <2>1, <2>2, QueueFrame
<1>13. WorkerInv'
  <2>1. ASSUME NEW w \in Workers, worker[w] = "run"
        PROVE  mode'[took[w].call] = "sync"
    <3>1. took[w] \in Tasks /\ mode[took[w].call] = "sync"
      BY <1>2, <2>1 DEF CoreInv, WorkerInv
    <3> QED  BY <1>4, <1>6, <3>1
  <2> QED  BY <1>1, <1>2, <2>1 DEF CoreInv, WorkerInv
<1>14. CounterCountsThisCall'
  <2>1. cbCounter = 0
    BY <1>1, <1>2 DEF CoreInv, CounterCountsThisCall
  <2>2. CompletedPatches' = {}
    BY <1>8 DEF CompletedPatches
  <2>3. Cardinality(CompletedPatches') = 0
    BY <2>2, FS_EmptySet
  <2>4. Cardinality(CompletedPatches)' = Cardinality(CompletedPatches')
    OBVIOUS
  <2> QED  BY <1>1, <2>1, <2>3, <2>4 DEF CounterCountsThisCall
<1> QED  BY <1>9, <1>11, <1>12, <1>13, <1>14 DEF CoreInv

LEMMA GrowStep ==
    ASSUME SdkInv, Grow \/ GrowFails
    PROVE  CoreInv'
<1> USE DEF InProcess, InAsync
<1>1. /\ pc = "grow" /\ pc' \in {"grow", "enqueue", "idle"}
      /\ UNCHANGED <<cur, nextPatch, mode, stage, taskQueue, cbCounter, worker, took>>
  BY DEF Grow, GrowFails, workerVars, taskVars, executorVars
<1>2. CoreInv
  BY CoreFacts
<1>3. ModeInv'
  BY <1>1, <1>2 DEF CoreInv, ModeInv
<1>4. nextPatch = 1 /\ 1 \in Patches /\ \A p \in Patches : p > 1 \/ p = 1
  BY <1>1, <1>2, PatchAssumption DEF Patches, CoreInv, TaskInv
<1>5. \A p \in Patches : stage[[call |-> cur, patch |-> p]] = "none"
  BY <1>1, <1>2, <1>4 DEF CoreInv, TaskInv
<1>6. NoTaskOutlivesItsCall'
  BY <1>1, <1>2 DEF CoreInv, TaskInv, NoTaskOutlivesItsCall
<1>7. TaskInv'
  BY <1>1, <1>4, <1>5, <1>6 DEF TaskInv
<1>8. QueueInv' /\ WorkerInv'
  BY <1>1, <1>2 DEF CoreInv, QueueInv, WorkerInv
<1>9. CounterCountsThisCall'
  <2>1. cbCounter = 0
    BY <1>1, <1>2 DEF CoreInv, CounterCountsThisCall
  <2>2. CompletedPatches' = CompletedPatches
    BY <1>1 DEF CompletedPatches
  <2>3. Cardinality(CompletedPatches) = 0
    BY <1>5, NothingCompleted
  <2> QED  BY <1>1, <2>1, <2>2, <2>3 DEF CounterCountsThisCall
<1> QED  BY <1>3, <1>7, <1>8, <1>9 DEF CoreInv

LEMMA EnqueueStep ==
    ASSUME SdkInv, Enqueue
    PROVE  CoreInv'
<1> USE DEF InProcess, InAsync
<1> DEFINE t == [call |-> cur, patch |-> nextPatch]
<1>1. /\ pc = "enqueue" /\ pc' = "notify"
      /\ taskQueue' = Append(taskQueue, t)
      /\ stage' = [stage EXCEPT ![t] = "queued"]
      /\ UNCHANGED <<cur, nextPatch, mode, cbCounter, worker, took>>
  BY DEF Enqueue, EnqueuePush, workerVars
<1>2. CoreInv /\ stage \in [Tasks -> Stages] /\ taskQueue \in Seq(Tasks)
  BY CoreFacts
<1>3. cur \in Calls /\ mode[cur] = "sync" /\ nextPatch \in Patches
  BY <1>1, <1>2 DEF CoreInv, ModeInv, TaskInv
<1>4. t \in Tasks /\ t.call = cur /\ t.patch = nextPatch
  BY <1>3 DEF Tasks
<1>5. stage[t] = "none"
  BY <1>1, <1>2, <1>3 DEF CoreInv, TaskInv
<1> HIDE DEF t
<1>6. \A u \in Tasks : stage'[u] = IF u = t THEN "queued" ELSE stage[u]
  BY <1>1, <1>2
<1>7. ModeInv'
  BY <1>1, <1>2, <1>3, <1>4, <1>6 DEF CoreInv, ModeInv
<1>8. NoTaskOutlivesItsCall'
  BY <1>1, <1>2, <1>4, <1>6 DEF CoreInv, TaskInv, NoTaskOutlivesItsCall
<1>9. ASSUME NEW p \in Patches
      PROVE  /\ p > nextPatch => stage'[[call |-> cur, patch |-> p]] = "none"
             /\ stage'[[call |-> cur, patch |-> p]] = "completed" <=>
                    stage[[call |-> cur, patch |-> p]] = "completed"
  <2> DEFINE u == [call |-> cur, patch |-> p]
  <2>1. u \in Tasks /\ u.patch = p
    BY <1>3 DEF Tasks
  <2>2. p > nextPatch => stage[u] = "none"
    BY <1>1, <1>2 DEF CoreInv, TaskInv
  <2>3. p > nextPatch => p # nextPatch
    BY <1>3 DEF Patches
  <2> HIDE DEF u
  <2>4. p > nextPatch => stage'[u] = "none"
    BY <1>4, <1>6, <2>1, <2>2, <2>3
  <2>5. stage'[u] = "completed" <=> stage[u] = "completed"
    BY <1>5, <1>6, <2>1
  <2> QED  BY <2>4, <2>5 DEF u
<1>10. TaskInv'
  BY <1>1, <1>3, <1>8, <1>9 DEF TaskInv
<1>11. QueueInv'
  <2>1. /\ Len(taskQueue') = Len(taskQueue) + 1
        /\ \A i \in 1 .. Len(taskQueue) : taskQueue'[i] = taskQueue[i]
        /\ taskQueue'[Len(taskQueue) + 1] = t
        /\ \A i \in 1 .. Len(taskQueue') :
             i \in 1 .. Len(taskQueue) \/ i = Len(taskQueue) + 1
    BY <1>1, <1>2, <1>4, AppendFacts
  <2>2. \A i \in 1 .. Len(taskQueue) :
           /\ taskQueue[i] \in Tasks
           /\ stage[taskQueue[i]] = "queued" /\ mode[taskQueue[i].call] = "sync"
    BY <1>2, ElementFacts DEF CoreInv, QueueInv
  <2>3. \A i \in 1 .. Len(taskQueue) : taskQueue[i] # t
    BY <1>5, <2>2
  <2>4. \A i \in 1 .. Len(taskQueue') :
           stage'[taskQueue'[i]] = "queued" /\ mode'[taskQueue'[i].call] = "sync"
    <3> SUFFICES ASSUME NEW i \in 1 .. Len(taskQueue')
                 PROVE  stage'[taskQueue'[i]] = "queued" /\ mode'[taskQueue'[i].call] = "sync"
      OBVIOUS
    <3>1. CASE i \in 1 .. Len(taskQueue)
      <4> DEFINE u == taskQueue[i]
      <4>1. u \in Tasks /\ stage[u] = "queued" /\ mode[u.call] = "sync" /\ u # t
        BY <2>2, <2>3, <3>1
      <4>2. taskQueue'[i] = u
        BY <2>1, <3>1
      <4> HIDE DEF u
      <4>3. stage'[u] = "queued" /\ mode'[u.call] = "sync"
        BY <1>1, <1>6, <4>1
      <4> QED  BY <4>2, <4>3
    <3>2. CASE i = Len(taskQueue) + 1
      <4>1. stage'[t] = "queued" /\ mode'[t.call] = "sync"
        BY <1>1, <1>3, <1>4, <1>6
      <4> QED  BY <2>1, <3>2, <4>1
    <3> QED  BY <2>1, <3>1, <3>2
  <2>5. \A i, j \in 1 .. Len(taskQueue) : taskQueue[i] = taskQueue[j] => i = j
    BY <1>2 DEF CoreInv, QueueInv
  <2>6. \A i, j \in 1 .. Len(taskQueue') : taskQueue'[i] = taskQueue'[j] => i = j
    BY <2>1, <2>3, <2>5
  <2> QED  BY <2>4, <2>6 DEF QueueInv
<1>12. WorkerInv'
  <2>1. ASSUME NEW w \in Workers, worker[w] = "run"
        PROVE  stage'[took[w]] = stage[took[w]]
    <3>1. took[w] \in Tasks /\ stage[took[w]] \in {"taken", "acquired"}
      BY <1>2, <2>1 DEF CoreInv, WorkerInv
    <3> QED  BY <1>5, <1>6, <3>1
  <2> QED  BY <1>1, <1>2, <2>1 DEF CoreInv, WorkerInv
<1>13. CounterCountsThisCall'
  <2>1. CompletedPatches' = CompletedPatches
    BY <1>1, <1>9 DEF CompletedPatches
  <2> QED  BY <1>1, <1>2, <2>1 DEF CoreInv, CounterCountsThisCall
<1> QED  BY <1>7, <1>10, <1>11, <1>12, <1>13 DEF CoreInv
LEMMA NotifyStep ==
    ASSUME SdkInv, Notify
    PROVE  CoreInv'
<1> USE DEF InProcess, InAsync
<1>1. /\ pc = "notify" /\ pc' = IF nextPatch = NPatches THEN "sync" ELSE "enqueue"
      /\ nextPatch' = nextPatch + 1
      /\ UNCHANGED <<cur, mode, stage, taskQueue, cbCounter, worker, took>>
  BY DEF Notify, EnqueueNotify, workerVars, taskVars
<1>2. CoreInv
  BY CoreFacts
<1>3. nextPatch \in Patches /\ NPatches \in Nat \ {0}
  BY <1>1, <1>2, PatchAssumption DEF CoreInv, TaskInv
<1>4. /\ pc' = "enqueue" => nextPatch' \in Patches
      /\ \A p \in Patches : p > nextPatch' \/ p = nextPatch' => p > nextPatch
  BY <1>1, <1>3 DEF Patches
<1>5. ModeInv'
  BY <1>1, <1>2 DEF CoreInv, ModeInv
<1>6. NoTaskOutlivesItsCall'
  BY <1>1, <1>2 DEF CoreInv, TaskInv, NoTaskOutlivesItsCall
<1>7. \A p \in Patches : p > nextPatch => stage[[call |-> cur, patch |-> p]] = "none"
  BY <1>1, <1>2 DEF CoreInv, TaskInv
<1>8. TaskInv'
  BY <1>1, <1>4, <1>6, <1>7 DEF TaskInv
<1>9. QueueInv' /\ WorkerInv'
  BY <1>1, <1>2 DEF CoreInv, QueueInv, WorkerInv
<1>10. CompletedPatches' = CompletedPatches
  BY <1>1 DEF CompletedPatches
<1>11. CounterCountsThisCall'
  BY <1>1, <1>2, <1>10 DEF CoreInv, CounterCountsThisCall
<1> QED  BY <1>5, <1>8, <1>9, <1>11 DEF CoreInv

\* The heart of it: wait_all returns only when all patches are completed, since
\* the counter is their number and no other task was counted.
LEMMA SyncDoneStep ==
    ASSUME SdkInv, SyncDone
    PROVE  CoreInv'
<1> USE DEF InProcess, InAsync
<1>1. /\ pc = "sync" /\ pc' = "reset" /\ cbCounter = NPatches
      /\ UNCHANGED <<cur, nextPatch, mode, stage, taskQueue, cbCounter, worker, took>>
  BY DEF SyncDone, SyncReturn, executorVars, workerVars, taskVars
<1>2. CoreInv /\ NPatches \in Nat \ {0}
  BY CoreFacts
<1>3. CompletedPatches = Patches
  <2>1. Cardinality(CompletedPatches) = NPatches
    BY <1>1, <1>2 DEF CoreInv, CounterCountsThisCall
  <2>2. IsFiniteSet(Patches) /\ Cardinality(Patches) = NPatches
    BY <1>2, FS_Interval DEF Patches
  <2>3. CompletedPatches \subseteq Patches
    BY DEF CompletedPatches
  <2> QED  BY <2>1, <2>2, <2>3, FS_Subset
<1>4. ModeInv'
  BY <1>1, <1>2 DEF CoreInv, ModeInv
<1>5. NoTaskOutlivesItsCall'
  <2> SUFFICES ASSUME NEW t \in Tasks, mode[t.call] = "sync",
                      stage[t] \notin {"none", "completed"}
               PROVE  FALSE
    BY <1>1 DEF NoTaskOutlivesItsCall
  <2>1. t.call = cur
    BY <1>2 DEF CoreInv, TaskInv, NoTaskOutlivesItsCall
  <2>2. t = [call |-> cur, patch |-> t.patch] /\ t.patch \in Patches
    BY <2>1 DEF Tasks
  <2>3. stage[t] = "completed"
    BY <1>3, <2>2 DEF CompletedPatches
  <2> QED  BY <2>3
<1>6. CompletedPatches' = CompletedPatches /\ Patches' = Patches
  BY <1>1 DEF CompletedPatches
<1>7. TaskInv'
  BY <1>1, <1>3, <1>5, <1>6 DEF TaskInv
<1>8. QueueInv' /\ WorkerInv'
  BY <1>1, <1>2 DEF CoreInv, QueueInv, WorkerInv
<1>9. CounterCountsThisCall'
  BY <1>1, <1>2, <1>6 DEF CoreInv, CounterCountsThisCall
<1> QED  BY <1>4, <1>7, <1>8, <1>9 DEF CoreInv

LEMMA AfterSyncStep ==
    ASSUME SdkInv, ResetCounter \/ Restore
    PROVE  CoreInv'
<1> USE DEF InProcess, InAsync
<1>1. /\ \/ pc = "reset" /\ pc' = "restore" /\ cbCounter' = 0
         \/ pc = "restore" /\ pc' = "idle" /\ cbCounter' = cbCounter
      /\ UNCHANGED <<cur, nextPatch, mode, stage, taskQueue, worker, took>>
  BY DEF ResetCounter, Reset, Restore, executorVars, workerVars, taskVars
<1>2. CoreInv
  BY CoreFacts
<1>3. ModeInv'
  BY <1>1, <1>2 DEF CoreInv, ModeInv
<1>4. NoTaskOutlivesItsCall'
  BY <1>1, <1>2 DEF CoreInv, TaskInv, NoTaskOutlivesItsCall
<1>5. CompletedPatches' = CompletedPatches /\ Patches' = Patches
  BY <1>1 DEF CompletedPatches
<1>6. TaskInv'
  BY <1>1, <1>2, <1>4, <1>5 DEF CoreInv, TaskInv
<1>7. QueueInv' /\ WorkerInv'
  BY <1>1, <1>2 DEF CoreInv, QueueInv, WorkerInv
<1>8. CounterCountsThisCall'
  BY <1>1, <1>2 DEF CoreInv, CounterCountsThisCall
<1> QED  BY <1>3, <1>6, <1>7, <1>8 DEF CoreInv

--------------------------------------------------------------------------------
(* The steps of the workers and of the callbacks.                            *)

\* A task goes on before it is completed: the patches that have not begun and
\* those that are completed stay what they are.
LEMMA ProgressFrame ==
    ASSUME CoreInv, stage \in [Tasks -> Stages],
           NEW t \in Tasks, NEW s \in Stages \ {"none", "completed"},
           stage[t] \notin {"none", "completed"}, mode[t.call] = "sync",
           stage' = [stage EXCEPT ![t] = s],
           UNCHANGED <<pc, cur, nextPatch, mode, cbCounter>>
    PROVE  /\ ModeInv' /\ TaskInv' /\ CounterCountsThisCall'
           /\ \A u \in Tasks : stage'[u] = IF u = t THEN s ELSE stage[u]
<1> USE DEF InProcess, InAsync
<1>1. \A u \in Tasks : stage'[u] = IF u = t THEN s ELSE stage[u]
  OBVIOUS
<1>2. ModeInv'
  BY <1>1 DEF CoreInv, ModeInv
<1>3. NoTaskOutlivesItsCall'
  BY <1>1 DEF CoreInv, TaskInv, NoTaskOutlivesItsCall
<1>4. cur \in Calls
  BY DEF CoreInv, TaskInv, NoTaskOutlivesItsCall, ModeInv
<1>5. \A p \in Patches :
        /\ stage[[call |-> cur, patch |-> p]] = "none" =>
               stage'[[call |-> cur, patch |-> p]] = "none"
        /\ stage'[[call |-> cur, patch |-> p]] = "completed" <=>
               stage[[call |-> cur, patch |-> p]] = "completed"
  <2>1. \A p \in Patches : [call |-> cur, patch |-> p] \in Tasks
    BY <1>4 DEF Tasks
  <2> QED  BY <1>1, <2>1
<1>6. CompletedPatches' = CompletedPatches /\ Patches' = Patches
  BY <1>5 DEF CompletedPatches
<1>7. TaskInv'
  BY <1>3, <1>5, <1>6 DEF CoreInv, TaskInv
<1>8. CounterCountsThisCall'
  BY <1>6 DEF CoreInv, CounterCountsThisCall
<1> QED  BY <1>1, <1>2, <1>7, <1>8

LEMMA WorkerTakeStep ==
    ASSUME SdkInv, NEW w \in Workers, WorkerTake(w)
    PROVE  CoreInv'
<1>1. PICK t \in Tasks :
           /\ TakeTask(w, t)
           /\ took' = [took EXCEPT ![w] = t]
           /\ stage' = [stage EXCEPT ![t] = "taken"]
  BY DEF WorkerTake
<1>2. /\ worker' = [worker EXCEPT ![w] = "run"]
      /\ UNCHANGED <<pc, cur, nextPatch, mode>>
  BY DEF WorkerTake, clientVars
<1>3. /\ taskQueue # <<>> /\ t = Head(taskQueue) /\ taskQueue' = Tail(taskQueue)
      /\ cbCounter' = cbCounter
  BY <1>1 DEF TakeTask
<1>4. /\ CoreInv /\ stage \in [Tasks -> Stages] /\ taskQueue \in Seq(Tasks)
      /\ worker \in [Workers -> {"loop", "run", "stopped"}]
      /\ took \in [Workers -> Tasks \cup {NoTask}]
  BY CoreFacts
<1>5. /\ Len(taskQueue) \in Nat \ {0} /\ t = taskQueue[1]
      /\ Len(taskQueue') = Len(taskQueue) - 1
      /\ \A i \in 1 .. Len(taskQueue') :
           i + 1 \in 1 .. Len(taskQueue) /\ taskQueue'[i] = taskQueue[i + 1]
  BY <1>3, <1>4, TailFacts
<1>6. 1 \in 1 .. Len(taskQueue)
  BY <1>5
<1>7. stage[t] = "queued" /\ mode[t.call] = "sync"
  BY <1>4, <1>5, <1>6 DEF CoreInv, QueueInv
<1>8. /\ ModeInv' /\ TaskInv' /\ CounterCountsThisCall'
      /\ \A u \in Tasks : stage'[u] = IF u = t THEN "taken" ELSE stage[u]
  BY <1>1, <1>2, <1>3, <1>4, <1>7, ProgressFrame DEF Stages, Pending
<1>9. QueueInv'
  <2>1. \A i, j \in 1 .. Len(taskQueue) : taskQueue[i] = taskQueue[j] => i = j
    BY <1>4 DEF CoreInv, QueueInv
  <2>2. ASSUME NEW i \in 1 .. Len(taskQueue')
        PROVE  stage'[taskQueue'[i]] = "queued" /\ mode'[taskQueue'[i].call] = "sync"
    <3>1. i + 1 \in 1 .. Len(taskQueue) /\ taskQueue'[i] = taskQueue[i + 1] /\ i + 1 # 1
      BY <1>5
    <3> DEFINE u == taskQueue[i + 1]
    <3>2. u # t
      BY <1>5, <1>6, <2>1, <3>1
    <3>3. stage[u] = "queued" /\ mode[u.call] = "sync"
      BY <1>4, <3>1 DEF CoreInv, QueueInv
    <3>4. u \in Tasks
      BY <1>4, <3>1, ElementFacts
    <3>5. taskQueue'[i] = u
      BY <3>1
    <3> HIDE DEF u
    <3>6. stage'[u] = "queued" /\ mode'[u.call] = "sync"
      BY <1>2, <1>8, <3>2, <3>3, <3>4
    <3> QED  BY <3>5, <3>6
  <2>3. ASSUME NEW i \in 1 .. Len(taskQueue'), NEW j \in 1 .. Len(taskQueue'),
               taskQueue'[i] = taskQueue'[j]
        PROVE  i = j
    <3>1. i + 1 = j + 1
      BY <1>5, <2>1, <2>3
    <3> QED  BY <3>1
  <2> QED  BY <2>2, <2>3 DEF QueueInv
<1>10. WorkerInv'
  <2>1. ASSUME NEW v \in Workers, worker[v] = "run"
        PROVE  /\ took[v] \in Tasks /\ took[v] # t
               /\ stage[took[v]] \in {"taken", "acquired"}
               /\ mode[took[v].call] = "sync"
    BY <1>4, <1>7, <2>1 DEF CoreInv, WorkerInv
  <2>2. \A v \in Workers : /\ worker'[v] = IF v = w THEN "run" ELSE worker[v]
                           /\ took'[v] = IF v = w THEN t ELSE took[v]
    BY <1>1, <1>2, <1>4
  <2>3. ASSUME NEW v \in Workers, worker'[v] = "run"
        PROVE  /\ took'[v] \in Tasks
               /\ stage'[took'[v]] \in {"taken", "acquired"}
               /\ mode'[took'[v].call] = "sync"
    <3>1. CASE v = w
      BY <1>2, <1>7, <1>8, <2>2, <3>1
    <3>2. CASE v # w
      BY <1>2, <1>8, <2>1, <2>2, <2>3, <3>2
    <3> QED  BY <3>1, <3>2
  <2>4. \A v, x \in Workers :
           worker'[v] = "run" /\ worker'[x] = "run" /\ took'[v] = took'[x] => v = x
    BY <1>4, <2>1, <2>2 DEF CoreInv, WorkerInv
  <2> QED  BY <2>3, <2>4 DEF WorkerInv
<1> QED  BY <1>8, <1>9, <1>10 DEF CoreInv

LEMMA WorkerLeaveStep ==
    ASSUME SdkInv, NEW w \in Workers, WorkerLeave(w)
    PROVE  CoreInv'
<1>1. /\ worker' = [worker EXCEPT ![w] = "stopped"]
      /\ UNCHANGED <<pc, cur, nextPatch, mode, stage, taskQueue, cbCounter, took>>
  BY DEF WorkerLeave, WorkerStop, executorVars, clientVars, taskVars
<1>2. CoreInv /\ worker \in [Workers -> {"loop", "run", "stopped"}]
  BY CoreFacts
<1>3. \A v \in Workers : worker'[v] = "run" => worker[v] = "run"
  BY <1>1, <1>2
<1>4. ModeInv' /\ QueueInv'
  BY <1>1, <1>2 DEF CoreInv, ModeInv, QueueInv
<1>5. TaskInv' /\ CounterCountsThisCall'
  BY <1>1, <1>2 DEF CoreInv, TaskInv, NoTaskOutlivesItsCall, CounterCountsThisCall,
                    CompletedPatches
<1>6. WorkerInv'
  BY <1>1, <1>2, <1>3 DEF CoreInv, WorkerInv
<1> QED  BY <1>4, <1>5, <1>6 DEF CoreInv

\* A worker inside run_impl goes on with its task, or leaves run_impl.
LEMMA RunStep ==
    ASSUME SdkInv, NEW w \in Workers, RunNullTask(w) \/ RunGet(w) \/ RunStart(w)
    PROVE  CoreInv'
<1>1. PICK s \in {"acquired", "dropped", "running"} :
        /\ worker[w] = "run"
        /\ stage' = [stage EXCEPT ![took[w]] = s]
        /\ \/ s = "acquired" /\ UNCHANGED <<worker, took>>
           \/ /\ worker' = [worker EXCEPT ![w] = "loop"]
              /\ took' = [took EXCEPT ![w] = NoTask]
        /\ UNCHANGED <<pc, cur, nextPatch, mode, taskQueue, cbCounter>>
  BY DEF RunNullTask, RunGet, RunStart, clientVars, executorVars, workerVars
<1>2. /\ CoreInv /\ stage \in [Tasks -> Stages] /\ taskQueue \in Seq(Tasks)
      /\ worker \in [Workers -> {"loop", "run", "stopped"}]
      /\ took \in [Workers -> Tasks \cup {NoTask}]
  BY CoreFacts
<1>3. /\ took[w] \in Tasks /\ stage[took[w]] \in {"taken", "acquired"}
      /\ mode[took[w].call] = "sync"
  BY <1>1, <1>2 DEF CoreInv, WorkerInv
<1>4. s \in Stages \ {"none", "completed"} /\ stage[took[w]] \notin {"none", "completed"}
  BY <1>3 DEF Stages, InUse, Over
<1>5. /\ ModeInv' /\ TaskInv' /\ CounterCountsThisCall'
      /\ \A u \in Tasks : stage'[u] = IF u = took[w] THEN s ELSE stage[u]
  BY <1>1, <1>2, <1>3, <1>4, ProgressFrame
<1>6. QueueInv'
  <2>1. \A u \in Tasks : stage[u] = "queued" /\ mode[u.call] = "sync" =>
                         stage'[u] = "queued" /\ mode'[u.call] = "sync"
    BY <1>1, <1>3, <1>5
  <2> QED  BY <1>1, <1>2, <2>1, QueueFrame DEF CoreInv
<1>7. WorkerInv'
  <2>1. \A v \in Workers : worker'[v] = "run" =>
            worker[v] = "run" /\ took'[v] = took[v] /\ (v = w => s = "acquired")
    BY <1>1, <1>2
  <2>2. ASSUME NEW v \in Workers, worker'[v] = "run"
        PROVE  /\ took'[v] \in Tasks
               /\ stage'[took'[v]] \in {"taken", "acquired"}
               /\ mode'[took'[v].call] = "sync"
    <3>1. /\ took[v] \in Tasks /\ stage[took[v]] \in {"taken", "acquired"}
          /\ mode[took[v].call] = "sync"
          /\ took[v] = took[w] => v = w
      BY <1>1, <1>2, <2>1, <2>2 DEF CoreInv, WorkerInv
    <3> QED  BY <1>1, <1>5, <2>1, <2>2, <3>1
  <2>3. \A v, x \in Workers :
           worker'[v] = "run" /\ worker'[x] = "run" /\ took'[v] = took'[x] => v = x
    BY <1>2, <2>1 DEF CoreInv, WorkerInv
  <2> QED  BY <2>2, <2>3 DEF WorkerInv
<1> QED  BY <1>5, <1>6, <1>7 DEF CoreInv
\* competition_call_back counts one more patch of the current call.
LEMMA CallbackTaskStep ==
    ASSUME SdkInv, NEW t \in Tasks, CallbackTask(t)
    PROVE  CoreInv'
<1> USE DEF InProcess, InAsync
<1>1. /\ stage[t] = "returned" /\ mode[t.call] = "sync"
      /\ stage' = [stage EXCEPT ![t] = "completed"]
      /\ UNCHANGED <<pc, cur, nextPatch, mode, worker, took>>
  BY DEF CallbackTask, clientVars, workerVars
<1>2. cbCounter' = cbCounter + 1 /\ taskQueue' = taskQueue
  BY DEF CallbackTask, CompetitionCallBack
<1>3. CoreInv /\ stage \in [Tasks -> Stages] /\ taskQueue \in Seq(Tasks)
  BY CoreFacts
<1>4. t.call = cur /\ pc \in {"enqueue", "notify", "sync"} /\ cur \in Calls
  BY <1>1, <1>3 DEF CoreInv, TaskInv, NoTaskOutlivesItsCall, ModeInv
<1>5. t.patch \in Patches /\ t = [call |-> cur, patch |-> t.patch]
  BY <1>4 DEF Tasks
<1>6. \A u \in Tasks : stage'[u] = IF u = t THEN "completed" ELSE stage[u]
  BY <1>1, <1>3
<1>7. ModeInv'
  BY <1>1, <1>3, <1>6 DEF CoreInv, ModeInv
<1>8. TaskInv'
  <2>1. NoTaskOutlivesItsCall'
    BY <1>1, <1>3, <1>6 DEF CoreInv, TaskInv, NoTaskOutlivesItsCall
  <2>2. ASSUME NEW p \in Patches, stage[[call |-> cur, patch |-> p]] = "none"
        PROVE  stage'[[call |-> cur, patch |-> p]] = "none"
    <3>1. [call |-> cur, patch |-> p] \in Tasks
      BY <1>4 DEF Tasks
    <3> QED  BY <1>1, <1>6, <2>2, <3>1
  <2> QED  BY <1>1, <1>3, <1>4, <2>1, <2>2 DEF CoreInv, TaskInv
<1>9. QueueInv'
  <2>1. \A u \in Tasks : stage[u] = "queued" /\ mode[u.call] = "sync" =>
                         stage'[u] = "queued" /\ mode'[u.call] = "sync"
    BY <1>1, <1>6
  <2> QED  BY <1>2, <1>3, <2>1, QueueFrame DEF CoreInv
<1>10. WorkerInv'
  <2>1. ASSUME NEW w \in Workers, worker[w] = "run"
        PROVE  stage'[took[w]] = stage[took[w]]
    <3>1. took[w] \in Tasks /\ stage[took[w]] \in {"taken", "acquired"}
      BY <1>3, <2>1 DEF CoreInv, WorkerInv
    <3> QED  BY <1>1, <1>6, <3>1
  <2> QED  BY <1>1, <1>3, <2>1 DEF CoreInv, WorkerInv
<1>11. CounterCountsThisCall'
  <2>1. \A p \in Patches : stage'[[call |-> cur, patch |-> p]] = "completed" <=>
            p = t.patch \/ stage[[call |-> cur, patch |-> p]] = "completed"
    <3>1. \A p \in Patches : [call |-> cur, patch |-> p] \in Tasks
      BY <1>4 DEF Tasks
    <3>2. \A p \in Patches : [call |-> cur, patch |-> p] = t <=> p = t.patch
      BY <1>5
    <3> QED  BY <1>6, <3>1, <3>2
  <2>2. CompletedPatches' = CompletedPatches \cup {t.patch}
    BY <1>1, <1>5, <2>1 DEF CompletedPatches
  <2>3. t.patch \notin CompletedPatches
    BY <1>1, <1>5 DEF CompletedPatches
  <2>4. IsFiniteSet(CompletedPatches)
    <3>1. IsFiniteSet(Patches)
      BY PatchAssumption, FS_Interval DEF Patches
    <3>2. CompletedPatches \subseteq Patches
      BY DEF CompletedPatches
    <3> QED  BY <3>1, <3>2, FS_Subset
  <2>5. Cardinality(CompletedPatches') = Cardinality(CompletedPatches) + 1
    BY <2>2, <2>3, <2>4, FS_AddElement
  <2>6. cbCounter = Cardinality(CompletedPatches)
    BY <1>3, <1>4 DEF CoreInv, CounterCountsThisCall
  <2>7. cbCounter' = Cardinality(CompletedPatches')
    BY <1>2, <2>5, <2>6
  <2> QED  BY <1>1, <1>4, <2>7 DEF CounterCountsThisCall
<1> QED  BY <1>7, <1>8, <1>9, <1>10, <1>11 DEF CoreInv

\* The asynchronous call begins outside of the executor.
LEMMA AsyncBeginStep ==
    ASSUME SdkInv, NEW api, NEW buffer, AsyncBegin(api, buffer)
    PROVE  CoreInv'
<1> USE DEF InProcess, InAsync
<1>1. /\ pc = "idle" /\ pc' = "async_get" /\ cur' = cur + 1 /\ cur < MaxCalls
      /\ mode' = [mode EXCEPT ![cur + 1] = "async"]
      /\ UNCHANGED <<nextPatch, stage, taskQueue, cbCounter, worker, took>>
  BY DEF AsyncBegin, workerVars, taskVars, executorVars
<1>2. /\ cur \in 0 .. MaxCalls /\ MaxCalls \in Nat /\ CoreInv
      /\ mode \in [Calls -> {"none", "sync", "async"}] /\ taskQueue \in Seq(Tasks)
  BY CoreFacts
<1>3. cur' \in Calls /\ cur' > cur /\ (\A c \in Calls : c > cur' => c > cur)
  BY <1>1, <1>2 DEF Calls
<1>4. \A c \in Calls : mode'[c] = IF c = cur' THEN "async" ELSE mode[c]
  BY <1>1, <1>2
<1>5. mode[cur'] = "none"
  BY <1>2, <1>3 DEF CoreInv, ModeInv
<1>6. \A t \in Tasks : t.call \in Calls /\ (t.call = cur' => stage[t] = "none")
  BY <1>2, <1>5 DEF Tasks, CoreInv, ModeInv
<1>7. \A t \in Tasks : mode'[t.call] = "sync" <=> mode[t.call] = "sync"
  BY <1>4, <1>5, <1>6
<1>8. ModeInv'
  BY <1>1, <1>2, <1>3, <1>4, <1>5, <1>6 DEF CoreInv, ModeInv
<1>9. TaskInv'
  BY <1>1, <1>2, <1>7 DEF CoreInv, TaskInv, NoTaskOutlivesItsCall
<1>10. QueueInv'
  BY <1>1, <1>2, <1>7, QueueFrame DEF CoreInv
<1>11. WorkerInv'
  BY <1>1, <1>2, <1>7 DEF CoreInv, WorkerInv
<1>12. CounterCountsThisCall'
  BY <1>1, <1>2 DEF CoreInv, CounterCountsThisCall
<1> QED  BY <1>8, <1>9, <1>10, <1>11, <1>12 DEF CoreInv

--------------------------------------------------------------------------------
(* The step of the whole system.                                             *)

\* Steps of which the executor's part of the state sees nothing.
LEMMA UnseenStep ==
    ASSUME SdkInv,
           \/ SyncWait \/ AsyncGetWait \/ RestoreToNull \/ UNCHANGED vars
           \/ \E w \in Workers : \/ WorkerWait(w) \/ RunGetWait(w)
                                 \/ RunStartFails(w)
           \/ \E t \in Tasks : CallbackDeletedEngine(t)
           \/ \E t \in Workers \cup {Client} : SpuriousWakeup(t)
    PROVE  CoreInv'
<1>1. UNCHANGED coreVars
  BY DEF coreVars, vars, clientVars, workerVars, taskVars, executorVars,
         SyncWait, SyncSleep, AsyncGetWait, RestoreToNull, WorkerWait, WorkerSleep,
         RunGetWait, RunStartFails, CallbackDeletedEngine,
         SpuriousWakeup, ExecutorSpuriousWakeup
<1> QED  BY <1>1, CoreFacts, CoreFrame

LEMMA OutsideStep ==
    ASSUME SdkInv,
           \/ AsyncNullOutput \/ AsyncReturn \/ DeleteEngine
           \/ StopExecutor \/ NotifyAllWorkers \/ Joined
    PROVE  CoreInv'
<1>1. OutsideProcess
  BY DEF OutsideProcess, InProcess, InAsync, AsyncNullOutput, AsyncReturn,
         DeleteEngine, StopExecutor, NotifyAllWorkers, Joined
<1>2. UNCHANGED <<cur, nextPatch, mode, stage, taskQueue, cbCounter, worker, took>>
  BY DEF workerVars, taskVars, executorVars, AsyncNullOutput, AsyncReturn,
         DeleteEngine, StopExecutor, SetStopped, NotifyAllWorkers, NotifyStopped,
         Joined
<1> QED  BY <1>1, <1>2, CoreFacts, ControlStep

\* What happens to a task of an asynchronous call, and to a started inference.
LEMMA InferenceStep ==
    ASSUME SdkInv,
           \/ AsyncGet \/ AsyncStart \/ AsyncStartFails
           \/ \E t \in Tasks : \/ InferDone(t) \/ InferFails(t) \/ InferCancelled(t)
                               \/ CallbackPutIdle(t) \/ CallbackUser(t)
    PROVE  CoreInv'
<1> USE DEF clientVars, workerVars, executorVars
<1>1. CoreInv /\ stage \in [Tasks -> Stages] /\ taskQueue \in Seq(Tasks)
  BY CoreFacts
<1>2. \A t \in Tasks : mode[t.call] = "none" => stage[t] = "none"
  BY <1>1 DEF CoreInv, ModeInv
<1>3. CASE AsyncGet \/ AsyncStart \/ AsyncStartFails
  <2>1. /\ pc \in InAsync
        /\ \E s \in {"acquired", "running", "lost"} :
               stage' = [stage EXCEPT ![AsyncTask] = s]
        /\ OutsideProcess
        /\ UNCHANGED <<cur, nextPatch, mode, taskQueue, cbCounter, worker, took>>
    BY <1>3 DEF AsyncGet, AsyncStart, AsyncStartFails, OutsideProcess, InProcess, InAsync
  <2>2. cur \in Calls /\ mode[cur] = "async"
    BY <1>1, <2>1 DEF CoreInv, ModeInv
  <2>3. AsyncTask \in Tasks /\ AsyncTask.call = cur
    BY <2>2, PatchAssumption DEF AsyncTask, Tasks, Patches
  <2> QED  BY <1>1, <2>1, <2>2, <2>3, StageStep
<1>4. ASSUME NEW t \in Tasks,
             InferDone(t) \/ InferFails(t) \/ InferCancelled(t) \/ CallbackPutIdle(t)
      PROVE  CoreInv'
  <2>1. /\ stage[t] \in {"running", "finished"}
        /\ \E s \in {"finished", "lost", "cancelled", "returned"} :
               stage' = [stage EXCEPT ![t] = s]
        /\ UNCHANGED <<pc, cur, nextPatch, mode, taskQueue, cbCounter, worker, took>>
    BY <1>4 DEF InferDone, InferFails, InferCancelled, CallbackPutIdle
  <2>2. mode[t.call] # "none"
    BY <1>2, <2>1
  <2> QED  BY <1>1, <2>1, <2>2, StageStep
<1>5. ASSUME NEW t \in Tasks, CallbackUser(t)
      PROVE  CoreInv'
  <2>1. /\ mode[t.call] = "async"
        /\ stage' = [stage EXCEPT ![t] = "completed"]
        /\ UNCHANGED <<pc, cur, nextPatch, mode, taskQueue, cbCounter, worker, took>>
    BY <1>5 DEF CallbackUser
  <2> QED  BY <1>1, <2>1, StageStep
<1> QED  BY <1>3, <1>4, <1>5

LEMMA CoreStep ==
    ASSUME SdkInv, [Next]_vars
    PROVE  CoreInv'
  BY CallRejectedStep, ProcessBeginStep, GrowStep, EnqueueStep, NotifyStep,
     SyncDoneStep, AfterSyncStep, WorkerTakeStep, WorkerLeaveStep, RunStep,
     CallbackTaskStep, AsyncBeginStep, UnseenStep, OutsideStep, InferenceStep
  DEF Next, Process, InCall, WorkerStep, Inference, Ended

LEMMA SdkInvStep ==
    ASSUME SdkInv, [Next]_vars
    PROVE  SdkInv'
  BY TypeStep, CoreStep DEF SdkInv, CoreInv

LEMMA SdkInvInit ==
    ASSUME Init
    PROVE  SdkInv
<1> USE DEF Init, PoolInit, ExecutorInit
<1>1. TypeOK
  <2>1. requests \in Nat
    BY InferReqNumAssumption
  <2>2. idleIds \in Seq(Nat)
    BY InferReqNumAssumption
  <2>3. cur \in 0 .. MaxCalls /\ nextPatch \in 1 .. NPatches + 1
    BY MaxCallsAssumption, PatchAssumption
  <2>4. taskQueue \in Seq(Tasks)
    OBVIOUS
  <2> QED  BY <2>1, <2>2, <2>3, <2>4 DEF TypeOK, Control, InProcess, InAsync,
              InDeinit, Stages, Pending
<1>2. \A t \in Tasks : stage[t] = "none" /\ mode[t.call] = "none"
  BY DEF Tasks
<1>3. ModeInv /\ WorkerInv
  BY <1>2 DEF ModeInv, WorkerInv, InProcess, InAsync
<1>4. TaskInv
  BY <1>2 DEF TaskInv, NoTaskOutlivesItsCall
<1>5. QueueInv /\ CounterCountsThisCall
  BY DEF QueueInv, CounterCountsThisCall
<1> QED  BY <1>1, <1>3, <1>4, <1>5 DEF SdkInv

--------------------------------------------------------------------------------
(* The theorems.                                                             *)

\* The inductive invariant holds in every state the SDK reaches, whatever
\* OpenVINO fails to do and whenever the application calls ivsr_deinit.
THEOREM Invariance == Spec => []SdkInv
<1>1. SdkInv /\ [Next]_vars => SdkInv'
  BY SdkInvStep
<1> QED  BY SdkInvInit, <1>1, PTL DEF Spec

\* The state stays well formed.
THEOREM TypeCorrect == Spec => []TypeOK
<1>1. SdkInv => TypeOK
  BY DEF SdkInv
<1> QED  BY Invariance, <1>1, PTL

\* The counter of wait_all counts the finished tasks of the current call only.
THEOREM CounterExact == Spec => []CounterCountsThisCall
<1>1. SdkInv => CounterCountsThisCall
  BY DEF SdkInv
<1> QED  BY Invariance, <1>1, PTL

\* The patch buffers of a call are freed only when no task uses them any more.
THEOREM NoTaskOutlives == Spec => []NoTaskOutlivesItsCall
<1>1. SdkInv => NoTaskOutlivesItsCall
  BY DEF SdkInv, TaskInv
<1> QED  BY Invariance, <1>1, PTL

\* The image is put together only from patches that are all done.
THEOREM PatchesDone == Spec => []PatchesDoneAtRestore
<1>1. SdkInv => PatchesDoneAtRestore
  BY DEF SdkInv, TaskInv, PatchesDoneAtRestore, CompletedPatches
<1> QED  BY Invariance, <1>1, PTL
================================================================================
