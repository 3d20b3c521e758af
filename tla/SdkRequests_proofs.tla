--------------------------- MODULE SdkRequests_proofs ---------------------------
(***************************************************************************)
(* Proofs about the inference requests inside the SDK: who owns them, who  *)
(* sleeps for them, who is left when the engine is deleted.  They hold for *)
(* any number of workers, calls, patches and requests, and build on the    *)
(* inductive invariant of the executor, SdkInv.  At the end: the SDK       *)
(* implements the promise of its interface.                                *)
(***************************************************************************)
EXTENDS IvsrSdk_proofs

--------------------------------------------------------------------------------
(* The strengthening.                                                        *)

\* The pool grows only for frames that are split, until it has a request for every
\* patch, and an application whose frames are split has no asynchronous call.
PathInv ==
    /\ requests \in Nat \ {0}
    /\ pc = "grow" => PatchSolution
    /\ pc \in {"enqueue", "notify", "sync"} => requests >= NPatches
    /\ PatchSolution => \A c \in Calls : mode[c] # "async"

\* The task of the asynchronous call that is on its way through process_impl.
AsyncInv ==
    /\ pc = "async_get" => stage[AsyncTask] = "none"
    /\ pc = "async_start" => stage[AsyncTask] = "acquired"

\* Only a thread inside get_idle_request sleeps on cv_.
SleepInv ==
    /\ \A w \in Workers : w \in cvWaiters =>
         worker[w] = "run" /\ stage[took[w]] = "taken" /\ ~NullTask
    /\ Client \in cvWaiters => pc = "async_get" /\ output = "valid"

\* Where frames are split, there is a request for every patch and nobody waits.
SplitInv == PatchSolution => cvWaiters = {}

\* EachRequestOwnedOnce, element by element.
OwnInv ==
    engineAlive =>
        /\ \A i \in 1 .. Len(idleIds) : idleIds[i] < requests
        /\ \A i, j \in 1 .. Len(idleIds) : idleIds[i] = idleIds[j] => i = j
        /\ \A t \in Tasks : stage[t] \in InUse => held[t] < requests
        /\ \A t \in Tasks, i \in 1 .. Len(idleIds) :
             stage[t] \in InUse => idleIds[i] # held[t]
        /\ \A t, u \in Tasks :
             stage[t] \in InUse /\ stage[u] \in InUse /\ held[t] = held[u] => t = u
        /\ \A id \in 0 .. requests - 1 :
             \/ \E i \in 1 .. Len(idleIds) : idleIds[i] = id
             \/ \E t \in Tasks : stage[t] \in InUse /\ held[t] = id

\* The engine is deleted by ivsr_deinit and by nothing else.
DeinitInv == ~engineAlive => pc \in InDeinit \cup {"done"}

\* An asynchronous call whose inference is still to come back is in progress or
\* has returned OK, and its callback has not run.
ReturnInv ==
    /\ \A c \in Calls : mode[c] = "none" => userCb[c] = 0
    /\ \A t \in Tasks : mode[t.call] = "async" =>
         /\ stage[t] # "completed" => userCb[t.call] = 0
         /\ stage[t] \in {"acquired", "running", "finished", "returned"} =>
              \/ result[t.call] = "OK"
              \/ t.call = cur /\ pc \in {"async_start", "async_return"}

RequestsInv ==
    /\ SdkInv
    /\ PathInv
    /\ AsyncInv
    /\ SleepInv
    /\ OwnInv
    /\ DeinitInv
    /\ ReturnInv
    /\ SplitInv
    /\ NoLostNotification
    /\ NoSleepBesideIdle

\* What the invariants say of the types of the state.
LEMMA RequestFacts ==
    ASSUME SdkInv
    PROVE  /\ requests \in Nat /\ idleIds \in Seq(Nat)
           /\ held \in [Tasks -> Nat] /\ stage \in [Tasks -> Stages]
           /\ mode \in [Calls -> {"none", "sync", "async"}]
           /\ result \in [Calls -> {"none", "OK", "GENERAL_ERROR", "UNKNOWN_ERROR"}]
           /\ userCb \in [Calls -> Nat]
           /\ worker \in [Workers -> {"loop", "run", "stopped"}]
           /\ took \in [Workers -> Tasks \cup {NoTask}]
           /\ cvWaiters \subseteq Workers \cup {Client}
           /\ cur \in 0 .. MaxCalls /\ MaxCalls \in Nat /\ NPatches \in Nat \ {0}
  BY MaxCallsAssumption, PatchAssumption DEF SdkInv, TypeOK

\* A worker inside run_impl has its own task of the synchronous call in progress.
LEMMA RunningWorker ==
    ASSUME SdkInv, NEW w \in Workers, worker[w] = "run"
    PROVE  /\ took[w] \in Tasks /\ stage[took[w]] \in {"taken", "acquired"}
           /\ mode[took[w].call] = "sync"
           /\ pc \in {"enqueue", "notify", "sync"}
           /\ \A v \in Workers : worker[v] = "run" /\ took[v] = took[w] => v = w
<1>1. WorkerInv /\ NoTaskOutlivesItsCall
  BY DEF SdkInv, TaskInv
<1>2. /\ took[w] \in Tasks /\ stage[took[w]] \in {"taken", "acquired"}
      /\ mode[took[w].call] = "sync"
      /\ \A v \in Workers : worker[v] = "run" /\ took[v] = took[w] => v = w
  BY <1>1 DEF WorkerInv
<1> QED  BY <1>1, <1>2 DEF NoTaskOutlivesItsCall

\* The task of the asynchronous call in progress.
LEMMA AsyncTaskFacts ==
    ASSUME SdkInv, pc \in InAsync
    PROVE  cur \in Calls /\ AsyncTask \in Tasks /\ AsyncTask.call = cur /\ mode[cur] = "async"
<1>1. cur \in Calls /\ mode[cur] = "async"
  BY DEF SdkInv, ModeInv
<1> QED  BY <1>1, PatchAssumption DEF AsyncTask, Tasks, Patches

\* The task a worker takes is one of a synchronous call, from the queue.
LEMMA TakenTask ==
    ASSUME SdkInv, NEW w \in Workers, WorkerTake(w)
    PROVE  \E t \in Tasks :
             /\ stage[t] = "queued" /\ mode[t.call] = "sync"
             /\ stage' = [stage EXCEPT ![t] = "taken"]
             /\ took' = [took EXCEPT ![w] = t]
             /\ worker[w] = "loop" /\ worker' = [worker EXCEPT ![w] = "run"]
             /\ taskQueue # <<>> /\ w \notin queueWaiters
             /\ UNCHANGED <<poolVars, clientVars, held, processVars, queueWaiters,
                            syncWaiters, cbCounter>>
<1>1. PICK t \in Tasks :
           /\ TakeTask(w, t)
           /\ took' = [took EXCEPT ![w] = t]
           /\ stage' = [stage EXCEPT ![t] = "taken"]
  BY DEF WorkerTake
<1>2. /\ taskQueue # <<>> /\ t = Head(taskQueue) /\ w \notin queueWaiters
      /\ UNCHANGED <<cbCounter, queueWaiters, syncWaiters>>
  BY <1>1 DEF TakeTask
<1>3. taskQueue \in Seq(Tasks) /\ QueueInv
  BY DEF SdkInv, TypeOK
<1>4. t = taskQueue[1] /\ 1 \in 1 .. Len(taskQueue)
  BY <1>2, <1>3, TailFacts
<1>5. stage[t] = "queued" /\ mode[t.call] = "sync"
  BY <1>3, <1>4 DEF QueueInv
<1> QED  BY <1>1, <1>2, <1>5 DEF WorkerTake

--------------------------------------------------------------------------------
(* PathInv.                                                                  *)

LEMMA PathStep ==
    ASSUME SdkInv, PathInv, [Next]_vars
    PROVE  PathInv'
<1> USE DEF poolVars, executorVars, clientVars, workerVars, taskVars, processVars
<1>1. ASSUME UNCHANGED <<requests, mode>>,
             \/ pc' = pc
             \/ pc \in {"enqueue", "notify", "sync"} /\ pc' # "grow"
             \/ pc' \notin {"grow", "enqueue", "notify", "sync"}
      PROVE  PathInv'
  BY <1>1 DEF PathInv
<1>2. CASE Grow
  <2>1. /\ pc = "grow" /\ requests' = requests + 1 /\ mode' = mode
        /\ requests \in Nat
        /\ pc' = IF requests + 1 = NPatches THEN "enqueue" ELSE "grow"
    BY <1>2, RequestFacts DEF Grow, CreateInferRequest
  <2> QED  BY <2>1 DEF PathInv
<1>3. ASSUME NEW api \in Apis, NEW buffer \in Buffers, ProcessBegin(api, buffer)
      PROVE  PathInv'
  <2>1. /\ mode' = [mode EXCEPT ![cur + 1] = "sync"] /\ requests' = requests
        /\ pc' = IF NPatches > requests THEN "grow" ELSE "enqueue"
    BY <1>3 DEF ProcessBegin
  <2>2. /\ pc' = "grow" => PatchSolution
        /\ pc' = "enqueue" => requests >= NPatches
    BY <2>1, PatchAssumption DEF PathInv
  <2>3. mode \in [Calls -> {"none", "sync", "async"}]
    BY RequestFacts
  <2> QED  BY <2>1, <2>2, <2>3 DEF PathInv
<1>4. ASSUME NEW api \in Apis, NEW buffer \in Buffers, AsyncBegin(api, buffer)
      PROVE  PathInv'
  <2>1. ~PatchSolution /\ requests' = requests /\ pc' = "async_get"
    BY <1>4 DEF AsyncBegin, ThroughExecutor
  <2> QED  BY <2>1 DEF PathInv
<1>5. ASSUME CallRejected \/ GrowFails \/ Enqueue \/ Notify \/ SyncDone \/ SyncWait
             \/ ResetCounter \/ Restore \/ RestoreToNull \/ DeleteEngine
             \/ StopExecutor \/ NotifyAllWorkers \/ Joined \/ UNCHANGED vars
      PROVE  PathInv'
  BY <1>5, <1>1 DEF CallRejected, GrowFails, Enqueue, Notify, SyncDone, SyncWait,
     ResetCounter, Restore, RestoreToNull, DeleteEngine, StopExecutor,
     NotifyAllWorkers, Joined, vars
<1>6. ASSUME AsyncNullOutput \/ AsyncGet \/ AsyncGetWait \/ AsyncStart
             \/ AsyncStartFails \/ AsyncReturn
      PROVE  PathInv'
  BY <1>6, <1>1 DEF AsyncNullOutput, AsyncGet, AsyncGetWait, AsyncStart,
     AsyncStartFails, AsyncReturn, GetIdleRequest, GetIdleRequestSleep
<1>7. ASSUME NEW w \in Workers, WorkerStep(w)
      PROVE  PathInv'
  BY <1>7, <1>1 DEF WorkerStep, WorkerTake, WorkerWait, WorkerLeave, RunNullTask,
     RunGet, RunGetWait, RunStart, RunStartFails, GetIdleRequest, GetIdleRequestSleep
<1>8. ASSUME NEW t \in Tasks, Inference(t)
      PROVE  PathInv'
  BY <1>8, <1>1 DEF Inference, InferDone, InferFails, InferCancelled,
     CallbackPutIdle, PutIdleRequest, CallbackTask, CallbackUser, CallbackDeletedEngine
<1>9. ASSUME NEW t \in Workers \cup {Client}, SpuriousWakeup(t)
      PROVE  PathInv'
  BY <1>9, <1>1 DEF SpuriousWakeup, PoolSpuriousWakeup
<1> QED
  BY <1>2, <1>3, <1>4, <1>5, <1>6, <1>7, <1>8, <1>9 DEF Next, InCall, Process, Ended

--------------------------------------------------------------------------------
(* AsyncInv.                                                                 *)

LEMMA AsyncStep ==
    ASSUME SdkInv, AsyncInv, [Next]_vars
    PROVE  AsyncInv'
<1> USE DEF poolVars, executorVars, clientVars, workerVars, taskVars, processVars
<1>f. stage \in [Tasks -> Stages]
  BY RequestFacts
<1>1. ASSUME pc' \notin {"async_get", "async_start"}
      PROVE  AsyncInv'
  BY <1>1 DEF AsyncInv
<1>2. ASSUME UNCHANGED <<pc, cur, stage>>
      PROVE  AsyncInv'
  BY <1>2 DEF AsyncInv, AsyncTask
\* Other tasks, and this one once it runs.
<1>3. ASSUME NEW t \in Tasks, NEW s, stage' = [stage EXCEPT ![t] = s],
             mode[t.call] = "sync" \/ stage[t] \notin {"none", "acquired"},
             UNCHANGED <<pc, cur>>
      PROVE  AsyncInv'
  <2> SUFFICES ASSUME pc \in {"async_get", "async_start"}
               PROVE  stage'[AsyncTask] = stage[AsyncTask] /\ AsyncTask' = AsyncTask
    BY <1>3 DEF AsyncInv
  <2>1. AsyncTask \in Tasks /\ AsyncTask.call = cur /\ mode[cur] = "async"
    BY AsyncTaskFacts DEF InAsync
  <2>2. stage[AsyncTask] \in {"none", "acquired"}
    BY DEF AsyncInv
  <2>3. AsyncTask # t
    BY <1>3, <2>1, <2>2
  <2>4. AsyncTask' = AsyncTask
    BY <1>3 DEF AsyncTask
  <2>5. stage'[AsyncTask] = stage[AsyncTask]
    BY <1>3, <1>f, <2>1, <2>3
  <2> QED  BY <2>4, <2>5
<1>4. ASSUME NEW api \in Apis, NEW buffer \in Buffers, AsyncBegin(api, buffer)
      PROVE  AsyncInv'
  <2>1. /\ pc' = "async_get" /\ cur' = cur + 1 /\ cur < MaxCalls /\ stage' = stage
    BY <1>4 DEF AsyncBegin
  <2>2. cur + 1 \in Calls /\ cur + 1 > cur
    BY <2>1, RequestFacts DEF Calls
  <2>3. mode[cur + 1] = "none"
    BY <2>2 DEF SdkInv, ModeInv
  <2>4. AsyncTask' = [call |-> cur + 1, patch |-> 1]
    BY <2>1 DEF AsyncTask
  <2>5. AsyncTask' \in Tasks /\ AsyncTask'.call = cur + 1
    BY <2>2, <2>4, PatchAssumption DEF Tasks, Patches
  <2> HIDE DEF AsyncTask
  <2>6. stage[AsyncTask'] = "none"
    BY <2>3, <2>5 DEF SdkInv, ModeInv
  <2> QED  BY <2>1, <2>6 DEF AsyncInv
<1>5. CASE AsyncGet
  <2>1. /\ pc = "async_get" /\ pc' = "async_start" /\ cur' = cur
        /\ stage' = [stage EXCEPT ![AsyncTask] = "acquired"]
    BY <1>5 DEF AsyncGet
  <2>2. AsyncTask \in Tasks
    BY <2>1, AsyncTaskFacts DEF InAsync
  <2>3. AsyncTask' = AsyncTask
    BY <2>1 DEF AsyncTask
  <2>4. stage'[AsyncTask] = "acquired"
    BY <1>f, <2>1, <2>2
  <2> QED  BY <2>1, <2>3, <2>4 DEF AsyncInv
<1>6. ASSUME \E api \in Apis, buffer \in Buffers : ProcessBegin(api, buffer)
      PROVE  AsyncInv'
  BY <1>6, <1>1 DEF ProcessBegin
<1>7. ASSUME CallRejected \/ Grow \/ GrowFails \/ Enqueue \/ Notify \/ SyncDone \/ SyncWait
             \/ ResetCounter \/ Restore \/ RestoreToNull \/ DeleteEngine
             \/ StopExecutor \/ NotifyAllWorkers \/ Joined \/ AsyncNullOutput
             \/ AsyncStart \/ AsyncStartFails \/ AsyncReturn
      PROVE  AsyncInv'
  BY <1>7, <1>1 DEF CallRejected, Grow, GrowFails, Enqueue, Notify, SyncDone, SyncWait,
     ResetCounter, Restore, RestoreToNull, DeleteEngine, StopExecutor,
     NotifyAllWorkers, Joined, AsyncNullOutput, AsyncStart, AsyncStartFails, AsyncReturn
<1>8. ASSUME \/ AsyncGetWait \/ UNCHANGED vars
             \/ \E w \in Workers : WorkerWait(w) \/ WorkerLeave(w) \/ RunGetWait(w)
                                   \/ RunStartFails(w)
             \/ \E t \in Tasks : CallbackDeletedEngine(t)
             \/ \E t \in Workers \cup {Client} : SpuriousWakeup(t)
      PROVE  AsyncInv'
  BY <1>8, <1>2 DEF AsyncGetWait, vars, WorkerWait, WorkerLeave, RunGetWait,
     RunStartFails, CallbackDeletedEngine, SpuriousWakeup
<1>9. ASSUME NEW w \in Workers, WorkerTake(w)
      PROVE  AsyncInv'
  BY <1>9, <1>3, TakenTask
<1>10. ASSUME NEW w \in Workers, RunNullTask(w) \/ RunGet(w) \/ RunStart(w)
      PROVE  AsyncInv'
  <2>1. took[w] \in Tasks /\ mode[took[w].call] = "sync"
    BY <1>10, RunningWorker DEF RunNullTask, RunGet, RunStart
  <2>2. /\ \E s : stage' = [stage EXCEPT ![took[w]] = s]
        /\ UNCHANGED <<pc, cur>>
    BY <1>10 DEF RunNullTask, RunGet, RunStart
  <2> QED  BY <1>3, <2>1, <2>2
<1>11. ASSUME NEW t \in Tasks,
              InferDone(t) \/ InferFails(t) \/ InferCancelled(t)
              \/ CallbackPutIdle(t) \/ CallbackTask(t) \/ CallbackUser(t)
      PROVE  AsyncInv'
  <2>1. /\ stage[t] \notin {"none", "acquired"}
        /\ \E s : stage' = [stage EXCEPT ![t] = s]
        /\ UNCHANGED <<pc, cur>>
    BY <1>11 DEF InferDone, InferFails, InferCancelled, CallbackPutIdle, CallbackTask,
       CallbackUser
  <2> QED  BY <1>3, <2>1
<1> QED
  BY <1>4, <1>5, <1>6, <1>7, <1>8, <1>9, <1>10, <1>11
     DEF Next, InCall, Process, WorkerStep, Inference, Ended

--------------------------------------------------------------------------------
(* OwnInv: an id is idle or in use, by one task, through every hand-over.    *)

\* Steps that hand no request over.
LEMMA OwnFrame ==
    ASSUME OwnInv, engineAlive' => engineAlive, UNCHANGED <<requests, idleIds>>,
           \A t \in Tasks : /\ stage'[t] \in InUse <=> stage[t] \in InUse
                            /\ stage[t] \in InUse => held'[t] = held[t]
    PROVE  OwnInv'
  BY DEF OwnInv

\* get_idle_request: the oldest idle id goes to task t.
LEMMA OwnTake ==
    ASSUME SdkInv, OwnInv, NEW t \in Tasks, stage[t] \notin InUse,
           idleIds # <<>>, idleIds' = Tail(idleIds),
           held' = [held EXCEPT ![t] = Head(idleIds)],
           stage' = [stage EXCEPT ![t] = "acquired"],
           UNCHANGED <<requests, engineAlive>>
    PROVE  OwnInv'
<1>1. /\ requests \in Nat /\ idleIds \in Seq(Nat)
      /\ held \in [Tasks -> Nat] /\ stage \in [Tasks -> Stages]
  BY RequestFacts
<1>2. /\ Head(idleIds) = idleIds[1] /\ Len(idleIds) \in Nat \ {0}
      /\ Len(idleIds') = Len(idleIds) - 1
      /\ \A i \in 1 .. Len(idleIds) - 1 : idleIds'[i] = idleIds[i + 1]
  BY <1>1, TailFacts
<1>3. /\ 1 \in 1 .. Len(idleIds)
      /\ \A i \in 1 .. Len(idleIds') :
           i + 1 \in 1 .. Len(idleIds) /\ i + 1 # 1 /\ idleIds'[i] = idleIds[i + 1]
  BY <1>2
<1>4. \A u \in Tasks : /\ stage'[u] \in InUse <=> u = t \/ stage[u] \in InUse
                       /\ held'[u] = IF u = t THEN idleIds[1] ELSE held[u]
  BY <1>1, <1>2 DEF InUse
<1> SUFFICES ASSUME engineAlive
             PROVE  OwnInv'
  BY DEF OwnInv
<1>5. /\ \A i \in 1 .. Len(idleIds) : idleIds[i] < requests
      /\ \A i, j \in 1 .. Len(idleIds) : idleIds[i] = idleIds[j] => i = j
      /\ \A u \in Tasks : stage[u] \in InUse => held[u] < requests
      /\ \A u \in Tasks, i \in 1 .. Len(idleIds) :
             stage[u] \in InUse => idleIds[i] # held[u]
      /\ \A u, v \in Tasks :
             stage[u] \in InUse /\ stage[v] \in InUse /\ held[u] = held[v] => u = v
      /\ \A id \in 0 .. requests - 1 :
             \/ \E i \in 1 .. Len(idleIds) : idleIds[i] = id
             \/ \E u \in Tasks : stage[u] \in InUse /\ held[u] = id
  BY DEF OwnInv
<1>6. \A i \in 1 .. Len(idleIds') : idleIds'[i] < requests
  BY <1>3, <1>5
<1>7. \A i, j \in 1 .. Len(idleIds') : idleIds'[i] = idleIds'[j] => i = j
  BY <1>3, <1>5
<1>8. \A u \in Tasks : stage'[u] \in InUse => held'[u] < requests
  BY <1>3, <1>4, <1>5
<1>9. \A u \in Tasks, i \in 1 .. Len(idleIds') :
          stage'[u] \in InUse => idleIds'[i] # held'[u]
  BY <1>3, <1>4, <1>5
<1>10. \A u, v \in Tasks :
          stage'[u] \in InUse /\ stage'[v] \in InUse /\ held'[u] = held'[v] => u = v
  BY <1>3, <1>4, <1>5
<1>11. ASSUME NEW id \in 0 .. requests - 1
       PROVE  \/ \E i \in 1 .. Len(idleIds') : idleIds'[i] = id
              \/ \E u \in Tasks : stage'[u] \in InUse /\ held'[u] = id
  <2>1. CASE id = idleIds[1]
    BY <1>4, <2>1
  <2>2. ASSUME NEW i \in 1 .. Len(idleIds), idleIds[i] = id, i # 1
        PROVE  \E j \in 1 .. Len(idleIds') : idleIds'[j] = id
    <3>1. i - 1 \in 1 .. Len(idleIds') /\ (i - 1) + 1 = i
      BY <1>2, <2>2
    <3>2. idleIds'[i - 1] = id
      BY <1>3, <2>2, <3>1
    <3> QED  BY <3>1, <3>2
  <2>3. ASSUME NEW u \in Tasks, stage[u] \in InUse, held[u] = id
        PROVE  \E v \in Tasks : stage'[v] \in InUse /\ held'[v] = id
    BY <1>4, <2>3
  <2> QED  BY <1>5, <2>1, <2>2, <2>3
<1> QED  BY <1>6, <1>7, <1>8, <1>9, <1>10, <1>11 DEF OwnInv

\* put_idle_request: the id of task t is idle again, behind the others.
LEMMA OwnPut ==
    ASSUME SdkInv, OwnInv, NEW t \in Tasks, stage[t] \in InUse, engineAlive,
           idleIds' = Append(idleIds, held[t]),
           held' = [held EXCEPT ![t] = 0],
           stage' = [stage EXCEPT ![t] = "returned"],
           UNCHANGED <<requests, engineAlive>>
    PROVE  OwnInv'
<1>1. /\ requests \in Nat /\ idleIds \in Seq(Nat)
      /\ held \in [Tasks -> Nat] /\ stage \in [Tasks -> Stages]
  BY RequestFacts
<1>2. /\ Len(idleIds) \in Nat /\ Len(idleIds') = Len(idleIds) + 1
      /\ idleIds'[Len(idleIds) + 1] = held[t]
      /\ \A i \in 1 .. Len(idleIds) : idleIds'[i] = idleIds[i]
  BY <1>1, AppendFacts
<1>3. \A i \in 1 .. Len(idleIds') : i \in 1 .. Len(idleIds) \/ i = Len(idleIds) + 1
  BY <1>2
<1>4. \A u \in Tasks : /\ stage'[u] \in InUse <=> u # t /\ stage[u] \in InUse
                       /\ u # t => held'[u] = held[u]
  BY <1>1 DEF InUse
<1>5. /\ \A i \in 1 .. Len(idleIds) : idleIds[i] < requests
      /\ \A i, j \in 1 .. Len(idleIds) : idleIds[i] = idleIds[j] => i = j
      /\ \A u \in Tasks : stage[u] \in InUse => held[u] < requests
      /\ \A u \in Tasks, i \in 1 .. Len(idleIds) :
             stage[u] \in InUse => idleIds[i] # held[u]
      /\ \A u, v \in Tasks :
             stage[u] \in InUse /\ stage[v] \in InUse /\ held[u] = held[v] => u = v
      /\ \A id \in 0 .. requests - 1 :
             \/ \E i \in 1 .. Len(idleIds) : idleIds[i] = id
             \/ \E u \in Tasks : stage[u] \in InUse /\ held[u] = id
  BY DEF OwnInv
<1>6. \A i \in 1 .. Len(idleIds') : idleIds'[i] < requests
  BY <1>2, <1>3, <1>5
<1>7. \A i, j \in 1 .. Len(idleIds') : idleIds'[i] = idleIds'[j] => i = j
  BY <1>2, <1>3, <1>5
<1>8. \A u \in Tasks : stage'[u] \in InUse => held'[u] < requests
  BY <1>4, <1>5
<1>9. \A u \in Tasks, i \in 1 .. Len(idleIds') :
          stage'[u] \in InUse => idleIds'[i] # held'[u]
  BY <1>2, <1>3, <1>4, <1>5
<1>10. \A u, v \in Tasks :
          stage'[u] \in InUse /\ stage'[v] \in InUse /\ held'[u] = held'[v] => u = v
  BY <1>4, <1>5
<1>11. ASSUME NEW id \in 0 .. requests - 1
       PROVE  \/ \E i \in 1 .. Len(idleIds') : idleIds'[i] = id
              \/ \E u \in Tasks : stage'[u] \in InUse /\ held'[u] = id
  <2>1. CASE id = held[t]
    <3>1. Len(idleIds) + 1 \in 1 .. Len(idleIds')
      BY <1>2
    <3> QED  BY <1>2, <2>1, <3>1
  <2>2. ASSUME NEW i \in 1 .. Len(idleIds), idleIds[i] = id
        PROVE  \E j \in 1 .. Len(idleIds') : idleIds'[j] = id
    <3>1. i \in 1 .. Len(idleIds')
      BY <1>2
    <3> QED  BY <1>2, <2>2, <3>1
  <2>3. ASSUME NEW u \in Tasks, stage[u] \in InUse, held[u] = id, u # t
        PROVE  \E v \in Tasks : stage'[v] \in InUse /\ held'[v] = id
    BY <1>4, <2>3
  <2> QED  BY <1>5, <2>1, <2>2, <2>3
<1> QED  BY <1>6, <1>7, <1>8, <1>9, <1>10, <1>11 DEF OwnInv

\* create_infer_requests: a new id, idle.
LEMMA OwnGrow ==
    ASSUME SdkInv, OwnInv, idleIds' = Append(idleIds, requests), requests' = requests + 1,
           UNCHANGED <<stage, held, engineAlive>>
    PROVE  OwnInv'
<1>1. requests \in Nat /\ idleIds \in Seq(Nat) /\ held \in [Tasks -> Nat]
  BY RequestFacts
<1>2. /\ Len(idleIds) \in Nat /\ Len(idleIds') = Len(idleIds) + 1
      /\ idleIds'[Len(idleIds) + 1] = requests
      /\ \A i \in 1 .. Len(idleIds) : idleIds'[i] = idleIds[i] /\ idleIds[i] \in Nat
  BY <1>1, AppendFacts, ElementFacts
<1>3. \A i \in 1 .. Len(idleIds') : i \in 1 .. Len(idleIds) \/ i = Len(idleIds) + 1
  BY <1>2
<1>h. \A u \in Tasks : held[u] \in Nat
  BY <1>1
<1> SUFFICES ASSUME engineAlive
             PROVE  OwnInv'
  BY DEF OwnInv
<1>5. /\ \A i \in 1 .. Len(idleIds) : idleIds[i] < requests
      /\ \A i, j \in 1 .. Len(idleIds) : idleIds[i] = idleIds[j] => i = j
      /\ \A u \in Tasks : stage[u] \in InUse => held[u] < requests
      /\ \A u \in Tasks, i \in 1 .. Len(idleIds) :
             stage[u] \in InUse => idleIds[i] # held[u]
      /\ \A u, v \in Tasks :
             stage[u] \in InUse /\ stage[v] \in InUse /\ held[u] = held[v] => u = v
      /\ \A id \in 0 .. requests - 1 :
             \/ \E i \in 1 .. Len(idleIds) : idleIds[i] = id
             \/ \E u \in Tasks : stage[u] \in InUse /\ held[u] = id
  BY DEF OwnInv
<1>6. \A i \in 1 .. Len(idleIds') : idleIds'[i] < requests'
  BY <1>1, <1>2, <1>3, <1>5
<1>7. \A i, j \in 1 .. Len(idleIds') : idleIds'[i] = idleIds'[j] => i = j
  BY <1>1, <1>2, <1>3, <1>5
<1>8. \A u \in Tasks : stage'[u] \in InUse => held'[u] < requests'
  BY <1>1, <1>h, <1>5
<1>9. \A u \in Tasks, i \in 1 .. Len(idleIds') :
          stage'[u] \in InUse => idleIds'[i] # held'[u]
  BY <1>1, <1>h, <1>2, <1>3, <1>5
<1>10. \A u, v \in Tasks :
          stage'[u] \in InUse /\ stage'[v] \in InUse /\ held'[u] = held'[v] => u = v
  BY <1>5
<1>11. ASSUME NEW id \in 0 .. requests' - 1
       PROVE  \/ \E i \in 1 .. Len(idleIds') : idleIds'[i] = id
              \/ \E u \in Tasks : stage'[u] \in InUse /\ held'[u] = id
  <2>1. CASE id = requests
    <3>1. Len(idleIds) + 1 \in 1 .. Len(idleIds')
      BY <1>2
    <3> QED  BY <1>2, <2>1, <3>1
  <2>2. CASE id # requests
    <3>1. id \in 0 .. requests - 1
      BY <1>1, <2>2
    <3>2. \A i \in 1 .. Len(idleIds) : i \in 1 .. Len(idleIds')
      BY <1>2
    <3> QED  BY <1>2, <1>5, <3>1, <3>2
  <2> QED  BY <2>1, <2>2
<1> QED  BY <1>6, <1>7, <1>8, <1>9, <1>10, <1>11 DEF OwnInv

LEMMA OwnStep ==
    ASSUME SdkInv, AsyncInv, OwnInv, [Next]_vars
    PROVE  OwnInv'
<1> USE DEF poolVars, executorVars, clientVars, workerVars, taskVars, processVars
<1>f. stage \in [Tasks -> Stages] /\ held \in [Tasks -> Nat]
  BY RequestFacts
<1>1. ASSUME engineAlive' => engineAlive, UNCHANGED <<requests, idleIds, stage, held>>
      PROVE  OwnInv'
  BY <1>1, OwnFrame
\* A task moves on and keeps its request, or has none before and after.
<1>2. ASSUME NEW t \in Tasks, NEW s, stage' = [stage EXCEPT ![t] = s],
             s \in InUse <=> stage[t] \in InUse,
             UNCHANGED <<requests, idleIds, held, engineAlive>>
      PROVE  OwnInv'
  <2>1. \A u \in Tasks : stage'[u] \in InUse <=> stage[u] \in InUse
    BY <1>f, <1>2
  <2> QED  BY <1>2, <2>1, OwnFrame
<1>3. CASE Grow
  BY <1>3, OwnGrow DEF Grow, CreateInferRequest
<1>4. CASE Enqueue
  <2>1. pc = "enqueue"
    BY <1>4 DEF Enqueue
  <2>2. cur \in Calls /\ nextPatch \in Patches
    BY <2>1 DEF SdkInv, ModeInv, TaskInv, InProcess
  <2> DEFINE t == [call |-> cur, patch |-> nextPatch]
  <2>3. t \in Tasks
    BY <2>2 DEF Tasks
  <2>4. stage[t] = "none"
    BY <2>1, <2>2 DEF SdkInv, TaskInv
  <2>5. /\ stage' = [stage EXCEPT ![t] = "queued"]
        /\ UNCHANGED <<requests, idleIds, held, engineAlive>>
    BY <1>4 DEF Enqueue
  <2> HIDE DEF t
  <2> QED  BY <1>2, <2>3, <2>4, <2>5 DEF InUse
<1>5. CASE AsyncGet
  <2>1. PICK id \in 0 .. requests - 1 :
             /\ GetIdleRequest(Client, id)
             /\ held' = [held EXCEPT ![AsyncTask] = id]
    BY <1>5 DEF AsyncGet
  <2>2. /\ pc = "async_get" /\ stage' = [stage EXCEPT ![AsyncTask] = "acquired"]
        /\ UNCHANGED engineAlive
    BY <1>5 DEF AsyncGet
  <2>3. AsyncTask \in Tasks /\ stage[AsyncTask] \notin InUse
    BY <2>2, AsyncTaskFacts DEF InAsync, AsyncInv, InUse
  <2> QED  BY <2>1, <2>2, <2>3, OwnTake DEF GetIdleRequest
<1>6. CASE AsyncStart \/ AsyncStartFails
  <2>1. /\ pc = "async_start"
        /\ \E s \in {"running", "lost"} : stage' = [stage EXCEPT ![AsyncTask] = s]
        /\ UNCHANGED <<requests, idleIds, held, engineAlive>>
    BY <1>6 DEF AsyncStart, AsyncStartFails
  <2>2. AsyncTask \in Tasks /\ stage[AsyncTask] \in InUse
    BY <2>1, AsyncTaskFacts DEF InAsync, AsyncInv, InUse
  <2> QED  BY <1>2, <2>1, <2>2 DEF InUse
<1>7. ASSUME NEW w \in Workers, WorkerTake(w)
      PROVE  OwnInv'
  <2>1. PICK t \in Tasks : /\ stage[t] = "queued"
                           /\ stage' = [stage EXCEPT ![t] = "taken"]
                           /\ UNCHANGED <<poolVars, held, processVars>>
    BY <1>7, TakenTask
  <2> QED  BY <1>2, <2>1 DEF InUse
<1>8. ASSUME NEW w \in Workers, RunNullTask(w) \/ RunStart(w)
      PROVE  OwnInv'
  <2>1. took[w] \in Tasks
    BY <1>8, RunningWorker DEF RunNullTask, RunStart
  <2>2. /\ \E s : /\ stage' = [stage EXCEPT ![took[w]] = s]
                  /\ s \in InUse <=> stage[took[w]] \in InUse
        /\ UNCHANGED <<requests, idleIds, held, engineAlive>>
    BY <1>8 DEF RunNullTask, RunStart, InUse
  <2> QED  BY <1>2, <2>1, <2>2
<1>9. ASSUME NEW w \in Workers, RunGet(w)
      PROVE  OwnInv'
  <2>1. PICK id \in 0 .. requests - 1 :
             /\ GetIdleRequest(w, id)
             /\ held' = [held EXCEPT ![took[w]] = id]
    BY <1>9 DEF RunGet
  <2>2. /\ worker[w] = "run" /\ stage[took[w]] = "taken"
        /\ stage' = [stage EXCEPT ![took[w]] = "acquired"]
        /\ UNCHANGED engineAlive
    BY <1>9 DEF RunGet
  <2>3. took[w] \in Tasks /\ stage[took[w]] \notin InUse
    BY <2>2, RunningWorker DEF InUse
  <2> QED  BY <2>1, <2>2, <2>3, OwnTake DEF GetIdleRequest
<1>10. ASSUME NEW t \in Tasks, CallbackPutIdle(t)
       PROVE  OwnInv'
  BY <1>10, OwnPut DEF CallbackPutIdle, PutIdleRequest, InUse
<1>11. ASSUME NEW t \in Tasks, InferCancelled(t)
       PROVE  OwnInv'
  BY <1>11 DEF InferCancelled, OwnInv
<1>12. ASSUME NEW t \in Tasks,
              InferDone(t) \/ InferFails(t) \/ CallbackTask(t) \/ CallbackUser(t)
       PROVE  OwnInv'
  <2>1. /\ \E s : /\ stage' = [stage EXCEPT ![t] = s]
                  /\ s \in InUse <=> stage[t] \in InUse
        /\ UNCHANGED <<requests, idleIds, held, engineAlive>>
    BY <1>12 DEF InferDone, InferFails, CallbackTask, CallbackUser, InUse
  <2> QED  BY <1>2, <2>1
<1>13. ASSUME CallRejected \/ GrowFails \/ Notify \/ SyncDone \/ SyncWait
              \/ ResetCounter \/ Restore \/ RestoreToNull \/ DeleteEngine
              \/ StopExecutor \/ NotifyAllWorkers \/ Joined \/ AsyncNullOutput
              \/ AsyncReturn \/ AsyncGetWait
       PROVE  OwnInv'
  BY <1>13, <1>1 DEF CallRejected, GrowFails, Notify, SyncDone, SyncWait,
     ResetCounter, Restore, RestoreToNull, DeleteEngine, StopExecutor,
     NotifyAllWorkers, Joined, AsyncNullOutput, AsyncReturn, AsyncGetWait,
     GetIdleRequestSleep
<1>14. ASSUME \/ UNCHANGED vars \/ Process
              \/ \E w \in Workers : WorkerWait(w) \/ WorkerLeave(w) \/ RunGetWait(w)
                                    \/ RunStartFails(w)
              \/ \E t \in Tasks : CallbackDeletedEngine(t)
              \/ \E t \in Workers \cup {Client} : SpuriousWakeup(t)
       PROVE  OwnInv'
  BY <1>14, <1>1 DEF vars, Process, ProcessBegin, AsyncBegin, WorkerWait, WorkerLeave,
     RunGetWait, GetIdleRequestSleep, RunStartFails, CallbackDeletedEngine,
     SpuriousWakeup, PoolSpuriousWakeup
<1> QED
  BY <1>3, <1>4, <1>5, <1>6, <1>7, <1>8, <1>9, <1>10, <1>11, <1>12, <1>13, <1>14
     DEF Next, InCall, WorkerStep, Inference, Ended

\* OwnInv is what EachRequestOwnedOnce says.
LEMMA OwnedOnce == OwnInv => EachRequestOwnedOnce
<1> SUFFICES ASSUME OwnInv, engineAlive
             PROVE  EachRequestOwnedOnce
  BY DEF EachRequestOwnedOnce
<1>1. /\ \A i \in 1 .. Len(idleIds) : idleIds[i] < requests
      /\ \A i, j \in 1 .. Len(idleIds) : idleIds[i] = idleIds[j] => i = j
      /\ \A u \in Tasks, i \in 1 .. Len(idleIds) :
             stage[u] \in InUse => idleIds[i] # held[u]
      /\ \A u, v \in Tasks :
             stage[u] \in InUse /\ stage[v] \in InUse /\ held[u] = held[v] => u = v
      /\ \A id \in 0 .. requests - 1 :
             \/ \E i \in 1 .. Len(idleIds) : idleIds[i] = id
             \/ \E u \in Tasks : stage[u] \in InUse /\ held[u] = id
  BY DEF OwnInv
<1>2. \A i \in 1 .. Len(idleIds) : InferenceUses(idleIds[i]) = {}
  BY <1>1 DEF InferenceUses
<1>3. \A u \in Tasks : stage[u] \in InUse => InferenceUses(held[u]) = {u}
  BY <1>1 DEF InferenceUses
<1>4. ASSUME NEW id \in 0 .. requests - 1
      PROVE  \/ \E i \in 1 .. Len(idleIds) : idleIds[i] = id
             \/ \E t \in Tasks : InferenceUses(id) = {t}
  <2>1. ASSUME NEW u \in Tasks, stage[u] \in InUse, held[u] = id
        PROVE  InferenceUses(id) = {u}
    BY <1>3, <2>1
  <2> QED  BY <1>1, <2>1
<1> QED  BY <1>1, <1>2, <1>4 DEF EachRequestOwnedOnce

--------------------------------------------------------------------------------
(* SleepInv.                                                                 *)

LEMMA SleepStep ==
    ASSUME SdkInv, AsyncInv, SleepInv, [Next]_vars
    PROVE  SleepInv'
<1> USE DEF poolVars, executorVars, clientVars, workerVars, taskVars, processVars
<1>f. /\ stage \in [Tasks -> Stages] /\ Client \notin Workers
      /\ worker \in [Workers -> {"loop", "run", "stopped"}]
      /\ took \in [Workers -> Tasks \cup {NoTask}]
  BY RequestFacts, ClientAssumption
<1>w. ASSUME NEW v \in Workers, v \in cvWaiters
      PROVE  /\ worker[v] = "run" /\ took[v] \in Tasks /\ stage[took[v]] = "taken"
             /\ ~NullTask /\ pc \in {"enqueue", "notify", "sync"}
             /\ mode[took[v].call] = "sync"
             /\ \A u \in Workers : worker[u] = "run" /\ took[u] = took[v] => u = v
  <2>1. worker[v] = "run" /\ stage[took[v]] = "taken" /\ ~NullTask
    BY <1>w DEF SleepInv
  <2> QED  BY <2>1, RunningWorker
<1>c. Client \in cvWaiters => pc = "async_get" /\ output = "valid"
  BY DEF SleepInv
\* Those who sleep on are not disturbed.
<1>1. ASSUME \A v \in Workers : v \in cvWaiters' =>
               /\ v \in cvWaiters /\ worker'[v] = worker[v] /\ took'[v] = took[v]
               /\ stage'[took[v]] = stage[took[v]],
             output' = output,
             Client \in cvWaiters' => Client \in cvWaiters /\ pc' = pc
      PROVE  SleepInv'
  BY <1>1, <1>c, <1>w DEF SleepInv, NullTask
\* The application goes on, awake.
<1>2. ASSUME pc # "async_get" \/ output # "valid" \/ pc' = pc,
             UNCHANGED <<cvWaiters, worker, took, stage, output>>
      PROVE  SleepInv'
  BY <1>1, <1>2, <1>c
\* Task t moves on, which is not that of a sleeping worker.
<1>3. ASSUME NEW t \in Tasks, NEW s, stage' = [stage EXCEPT ![t] = s],
             stage[t] # "taken", cvWaiters' \subseteq cvWaiters,
             Client \in cvWaiters' => pc' = pc,
             UNCHANGED <<worker, took, output>>
      PROVE  SleepInv'
  <2>1. \A v \in Workers : v \in cvWaiters => stage'[took[v]] = stage[took[v]]
    BY <1>3, <1>w, <1>f
  <2> QED  BY <1>1, <1>3, <2>1
<1>4. ASSUME pc = "idle", cvWaiters' = cvWaiters
      PROVE  SleepInv'
  BY <1>4, <1>w, <1>c DEF SleepInv
<1>5. CASE Enqueue
  <2>1. pc = "enqueue"
    BY <1>5 DEF Enqueue
  <2>2. cur \in Calls /\ nextPatch \in Patches
    BY <2>1 DEF SdkInv, ModeInv, TaskInv, InProcess
  <2> DEFINE t == [call |-> cur, patch |-> nextPatch]
  <2>3. t \in Tasks
    BY <2>2 DEF Tasks
  <2>4. stage[t] = "none"
    BY <2>1, <2>2 DEF SdkInv, TaskInv
  <2>5. /\ stage' = [stage EXCEPT ![t] = "queued"]
        /\ UNCHANGED <<cvWaiters, worker, took, output>>
    BY <1>5 DEF Enqueue
  <2> HIDE DEF t
  <2> QED  BY <1>3, <1>c, <2>1, <2>3, <2>4, <2>5
<1>6. CASE AsyncGet \/ AsyncStart \/ AsyncStartFails
  <2>1. /\ pc \in {"async_get", "async_start"}
        /\ \E s : stage' = [stage EXCEPT ![AsyncTask] = s]
        /\ UNCHANGED <<cvWaiters, worker, took, output>>
        /\ pc = "async_get" => Client \notin cvWaiters
    BY <1>6 DEF AsyncGet, GetIdleRequest, AsyncStart, AsyncStartFails
  <2>2. AsyncTask \in Tasks /\ stage[AsyncTask] # "taken"
    BY <2>1, AsyncTaskFacts DEF InAsync, AsyncInv
  <2> QED  BY <1>3, <1>c, <2>1, <2>2
<1>7. CASE AsyncGetWait
  BY <1>7, <1>w, <1>f DEF AsyncGetWait, GetIdleRequestSleep, SleepInv, NullTask
<1>8. ASSUME NEW w \in Workers, WorkerTake(w)
      PROVE  SleepInv'
  <2>1. PICK t \in Tasks :
             /\ stage[t] = "queued" /\ stage' = [stage EXCEPT ![t] = "taken"]
             /\ took' = [took EXCEPT ![w] = t]
             /\ worker[w] = "loop" /\ worker' = [worker EXCEPT ![w] = "run"]
             /\ UNCHANGED <<poolVars, clientVars>>
    BY <1>8, TakenTask
  <2>2. \A v \in Workers : v \in cvWaiters =>
           /\ worker'[v] = worker[v] /\ took'[v] = took[v]
           /\ stage'[took[v]] = stage[took[v]]
    BY <1>f, <1>w, <2>1
  <2> QED  BY <1>1, <2>1, <2>2
<1>9. ASSUME NEW w \in Workers, RunNullTask(w) \/ RunGet(w) \/ RunStart(w)
      PROVE  SleepInv'
  <2>1. /\ worker[w] = "run" /\ w \notin cvWaiters
        /\ \E s : stage' = [stage EXCEPT ![took[w]] = s]
        /\ \/ UNCHANGED <<worker, took>>
           \/ /\ worker' = [worker EXCEPT ![w] = "loop"]
              /\ took' = [took EXCEPT ![w] = NoTask]
        /\ UNCHANGED <<cvWaiters, output, pc>>
    BY <1>9, <1>w DEF RunNullTask, RunGet, GetIdleRequest, RunStart
  <2>2. took[w] \in Tasks
    BY <2>1, RunningWorker
  <2>3. \A v \in Workers : v \in cvWaiters =>
           /\ worker'[v] = worker[v] /\ took'[v] = took[v]
           /\ stage'[took[v]] = stage[took[v]]
    BY <1>f, <1>w, <2>1, <2>2
  <2> QED  BY <1>1, <2>1, <2>3
<1>10. ASSUME NEW w \in Workers, RunGetWait(w)
       PROVE  SleepInv'
  BY <1>10, <1>w, <1>c, <1>f DEF RunGetWait, GetIdleRequestSleep, SleepInv, NullTask
<1>11. ASSUME NEW w \in Workers, WorkerLeave(w)
       PROVE  SleepInv'
  <2>1. /\ worker[w] = "loop" /\ worker' = [worker EXCEPT ![w] = "stopped"]
        /\ UNCHANGED <<cvWaiters, output, pc, took, stage>>
    BY <1>11 DEF WorkerLeave
  <2>2. \A v \in Workers : v \in cvWaiters => worker'[v] = worker[v]
    BY <1>f, <1>w, <2>1
  <2> QED  BY <1>1, <2>1, <2>2
<1>12. ASSUME NEW t \in Tasks,
              InferDone(t) \/ InferFails(t) \/ InferCancelled(t)
              \/ CallbackPutIdle(t) \/ CallbackTask(t) \/ CallbackUser(t)
       PROVE  SleepInv'
  <2>1. /\ stage[t] # "taken"
        /\ \E s : stage' = [stage EXCEPT ![t] = s]
        /\ cvWaiters' = cvWaiters \/ cvWaiters' \in NotifyOne(cvWaiters)
        /\ UNCHANGED <<worker, took, output, pc>>
    BY <1>12 DEF InferDone, InferFails, InferCancelled, CallbackPutIdle, PutIdleRequest,
       CallbackTask, CallbackUser
  <2>2. cvWaiters' \subseteq cvWaiters
    BY <2>1, NotifyOneSubset
  <2> QED  BY <1>3, <2>1, <2>2
<1>13. ASSUME \/ AsyncNullOutput \/ CallRejected \/ Grow \/ GrowFails \/ Notify
              \/ SyncDone \/ SyncWait \/ ResetCounter \/ Restore \/ RestoreToNull
              \/ StopExecutor \/ NotifyAllWorkers \/ Joined \/ AsyncReturn
              \/ UNCHANGED vars \/ \E w \in Workers : WorkerWait(w) \/ RunStartFails(w)
              \/ \E t \in Tasks : CallbackDeletedEngine(t)
       PROVE  SleepInv'
  BY <1>13, <1>2 DEF AsyncNullOutput, CallRejected, Grow, CreateInferRequest, GrowFails,
     Notify, SyncDone, SyncWait, ResetCounter, Restore, RestoreToNull, StopExecutor,
     NotifyAllWorkers, Joined, AsyncReturn, vars, WorkerWait, RunStartFails,
     CallbackDeletedEngine
<1>14. ASSUME Process \/ DeleteEngine
       PROVE  SleepInv'
  BY <1>14, <1>4 DEF Process, ProcessBegin, AsyncBegin, DeleteEngine
<1>15. ASSUME NEW t \in Workers \cup {Client}, SpuriousWakeup(t)
       PROVE  SleepInv'
  BY <1>15, <1>1 DEF SpuriousWakeup, PoolSpuriousWakeup
<1> QED
  BY <1>5, <1>6, <1>7, <1>8, <1>9, <1>10, <1>11, <1>12, <1>13, <1>14, <1>15
     DEF Next, InCall, WorkerStep, Inference, Ended

--------------------------------------------------------------------------------
(* DeinitInv and ReturnInv.                                                  *)

LEMMA DeinitStep ==
    ASSUME SdkInv, DeinitInv, [Next]_vars
    PROVE  DeinitInv'
<1> USE DEF poolVars, executorVars, clientVars, workerVars, taskVars, processVars,
           InDeinit, DeinitInv
<1>1. ASSUME UNCHANGED <<pc, engineAlive>>
      PROVE  DeinitInv'
  BY <1>1
<1>2. ASSUME pc \notin InDeinit \cup {"done"}, engineAlive' = engineAlive
      PROVE  DeinitInv'
  BY <1>2
<1>3. CASE DeleteEngine \/ StopExecutor \/ NotifyAllWorkers \/ Joined
  BY <1>3 DEF DeleteEngine, StopExecutor, NotifyAllWorkers, Joined
<1>4. CASE CallRejected \/ Process \/ Grow \/ GrowFails \/ Enqueue \/ Notify \/ SyncDone
           \/ SyncWait \/ ResetCounter \/ Restore \/ RestoreToNull \/ AsyncNullOutput
           \/ AsyncGet \/ AsyncGetWait \/ AsyncStart \/ AsyncStartFails \/ AsyncReturn
  BY <1>4, <1>2 DEF CallRejected, Process, ProcessBegin, AsyncBegin, Grow, GrowFails,
     Enqueue, Notify, SyncDone, SyncWait, ResetCounter, Restore, RestoreToNull,
     AsyncNullOutput, AsyncGet, AsyncGetWait, AsyncStart, AsyncStartFails, AsyncReturn
<1>5. ASSUME \/ UNCHANGED vars \/ \E w \in Workers : WorkerStep(w)
             \/ \E t \in Workers \cup {Client} : SpuriousWakeup(t)
      PROVE  DeinitInv'
  BY <1>5, <1>1 DEF vars, WorkerStep, WorkerTake, WorkerWait, WorkerLeave, RunNullTask,
     RunGet, RunGetWait, RunStart, RunStartFails, SpuriousWakeup
<1>6. ASSUME NEW t \in Tasks, Inference(t)
      PROVE  DeinitInv'
  BY <1>6, <1>1 DEF Inference, InferDone, InferFails, InferCancelled, CallbackPutIdle,
     CallbackTask, CallbackUser, CallbackDeletedEngine
<1> QED  BY <1>3, <1>4, <1>5, <1>6 DEF Next, InCall, Ended

\* An asynchronous call has one task.
LEMMA OneAsyncTask ==
    ASSUME PathInv, NEW t \in Tasks, NEW u \in Tasks, mode[t.call] = "async", u.call = t.call
    PROVE  u = t
<1>1. t.call \in Calls
  BY DEF Tasks
<1>2. NPatches = 1
  BY <1>1, PatchAssumption DEF PathInv
<1> QED  BY <1>2 DEF Tasks, Patches

LEMMA ReturnStep ==
    ASSUME SdkInv, PathInv, AsyncInv, ReturnInv, [Next]_vars
    PROVE  ReturnInv'
<1> USE DEF poolVars, executorVars, clientVars, workerVars, taskVars, processVars
<1>f. /\ stage \in [Tasks -> Stages]
      /\ mode \in [Calls -> {"none", "sync", "async"}]
      /\ result \in [Calls -> {"none", "OK", "GENERAL_ERROR", "UNKNOWN_ERROR"}]
      /\ userCb \in [Calls -> Nat] /\ \A t \in Tasks : t.call \in Calls
  BY RequestFacts DEF Tasks
<1>r. /\ \A c \in Calls : mode[c] = "none" => userCb[c] = 0
      /\ \A t \in Tasks : mode[t.call] = "async" =>
           /\ stage[t] # "completed" => userCb[t.call] = 0
           /\ stage[t] \in {"acquired", "running", "finished", "returned"} =>
                \/ result[t.call] = "OK"
                \/ t.call = cur /\ pc \in {"async_start", "async_return"}
  BY DEF ReturnInv
\* The calls are what they were.
<1>1. ASSUME UNCHANGED <<mode, userCb, result, stage>>,
             UNCHANGED <<cur, pc>> \/ pc \notin {"async_start", "async_return"}
      PROVE  ReturnInv'
  BY <1>1 DEF ReturnInv
\* A task moves on: of a synchronous call, or from a request it has.
<1>2. ASSUME NEW t \in Tasks, NEW s, stage' = [stage EXCEPT ![t] = s],
             \/ mode[t.call] = "sync"
             \/ /\ stage[t] \in {"acquired", "running", "finished", "returned"}
                /\ s # "completed",
             UNCHANGED <<mode, userCb, result>>,
             UNCHANGED <<cur, pc>> \/ pc \notin {"async_start", "async_return"}
      PROVE  ReturnInv'
  <2>1. \A u \in Tasks : mode[u.call] = "async" =>
          /\ stage'[u] # "completed" => stage[u] # "completed"
          /\ stage'[u] \in {"acquired", "running", "finished", "returned"} =>
               stage[u] \in {"acquired", "running", "finished", "returned"}
    BY <1>f, <1>2
  <2> QED  BY <1>2, <1>r, <2>1 DEF ReturnInv
\* The results and callbacks of calls that are not asynchronous.
<1>3. ASSUME NEW c \in Calls, mode[c] # "async",
             mode[c] = "none" => userCb' = userCb,
             \A d \in Calls \ {c} : result'[d] = result[d] /\ userCb'[d] = userCb[d],
             UNCHANGED <<mode, stage>>, pc \notin {"async_start", "async_return"}
      PROVE  ReturnInv'
  BY <1>3, <1>r, <1>f DEF ReturnInv
<1>c. pc = "idle" /\ cur < MaxCalls => /\ cur + 1 \in Calls /\ mode[cur + 1] = "none"
                                      /\ \A t \in Tasks : t.call = cur + 1 => stage[t] = "none"
  <2> SUFFICES ASSUME cur < MaxCalls
               PROVE  /\ cur + 1 \in Calls /\ mode[cur + 1] = "none"
                      /\ \A t \in Tasks : t.call = cur + 1 => stage[t] = "none"
    OBVIOUS
  <2>1. cur + 1 \in Calls /\ cur + 1 > cur
    BY RequestFacts DEF Calls
  <2>2. mode[cur + 1] = "none"
    BY <2>1 DEF SdkInv, ModeInv
  <2> QED  BY <2>1, <2>2 DEF SdkInv, ModeInv
<1>s. pc \in InProcess => cur \in Calls /\ mode[cur] = "sync"
  BY DEF SdkInv, ModeInv
<1>4. CASE CallRejected
  <2>1. /\ pc = "idle" /\ cur < MaxCalls
        /\ result' = [result EXCEPT ![cur + 1] = "GENERAL_ERROR"]
        /\ UNCHANGED <<mode, userCb, stage>>
    BY <1>4 DEF CallRejected
  <2>2. \A d \in Calls \ {cur + 1} : result'[d] = result[d]
    BY <1>f, <2>1
  <2> QED  BY <1>3, <1>c, <2>1, <2>2
<1>5. CASE GrowFails
  <2>1. /\ pc = "grow" /\ result' = [result EXCEPT ![cur] = "UNKNOWN_ERROR"]
        /\ UNCHANGED <<mode, userCb, stage>>
    BY <1>5 DEF GrowFails
  <2>2. cur \in Calls /\ mode[cur] = "sync"
    BY <1>s, <2>1 DEF InProcess
  <2>3. \A d \in Calls \ {cur} : result'[d] = result[d]
    BY <1>f, <2>1
  <2> QED  BY <1>3, <2>1, <2>2, <2>3
<1>6. CASE Restore
  <2>1. /\ pc = "restore" /\ result' = [result EXCEPT ![cur] = "OK"]
        /\ userCb' = [userCb EXCEPT ![cur] = userCb[cur] + 1]
        /\ UNCHANGED <<mode, stage>>
    BY <1>6 DEF Restore
  <2>2. cur \in Calls /\ mode[cur] = "sync"
    BY <1>s, <2>1 DEF InProcess
  <2>3. \A d \in Calls \ {cur} : result'[d] = result[d] /\ userCb'[d] = userCb[d]
    BY <1>f, <2>1
  <2> QED  BY <1>3, <2>1, <2>2, <2>3
<1>7. ASSUME NEW api \in Apis, NEW buffer \in Buffers,
             ProcessBegin(api, buffer) \/ AsyncBegin(api, buffer)
      PROVE  ReturnInv'
  <2>1. /\ pc = "idle" /\ cur < MaxCalls
        /\ \E m \in {"sync", "async"} : mode' = [mode EXCEPT ![cur + 1] = m]
        /\ UNCHANGED <<userCb, result, stage>>
    BY <1>7 DEF ProcessBegin, AsyncBegin
  <2>2. \A c \in Calls : c # cur + 1 => mode'[c] = mode[c]
    BY <1>f, <2>1
  <2>3. userCb[cur + 1] = 0 /\ mode'[cur + 1] # "none"
    BY <1>c, <1>r, <1>f, <2>1
  <2> QED  BY <1>c, <1>r, <1>f, <2>1, <2>2, <2>3 DEF ReturnInv
<1>8. CASE AsyncGet \/ AsyncStart
  <2>1. /\ \/ pc = "async_get" /\ pc' = "async_start"
           \/ pc = "async_start" /\ pc' = "async_return"
        /\ \E s \in {"acquired", "running"} : stage' = [stage EXCEPT ![AsyncTask] = s]
        /\ UNCHANGED <<mode, userCb, result, cur>>
    BY <1>8 DEF AsyncGet, AsyncStart
  <2>2. /\ AsyncTask \in Tasks /\ AsyncTask.call = cur /\ mode[cur] = "async"
        /\ stage[AsyncTask] # "completed"
    BY <2>1, AsyncTaskFacts DEF InAsync, AsyncInv
  <2>3. \A u \in Tasks : u # AsyncTask => stage'[u] = stage[u]
    BY <1>f, <2>1
  <2>4. stage'[AsyncTask] # "completed"
    BY <1>f, <2>1, <2>2
  <2> QED  BY <1>r, <2>1, <2>2, <2>3, <2>4 DEF ReturnInv
<1>9. CASE AsyncStartFails
  <2>1. /\ pc = "async_start" /\ pc' = "idle"
        /\ stage' = [stage EXCEPT ![AsyncTask] = "lost"]
        /\ result' = [result EXCEPT ![cur] = "UNKNOWN_ERROR"]
        /\ UNCHANGED <<mode, userCb, cur>>
    BY <1>9 DEF AsyncStartFails
  <2>2. /\ AsyncTask \in Tasks /\ AsyncTask.call = cur /\ mode[cur] = "async"
        /\ stage[AsyncTask] # "completed" /\ cur \in Calls
    BY <2>1, AsyncTaskFacts DEF InAsync, AsyncInv
  <2>3. \A u \in Tasks : u # AsyncTask => stage'[u] = stage[u] /\ u.call # cur
    BY <1>f, <2>1, <2>2, OneAsyncTask
  <2>4. stage'[AsyncTask] = "lost" /\ \A c \in Calls : c # cur => result'[c] = result[c]
    BY <1>f, <2>1, <2>2
  <2>5. userCb[cur] = 0
    BY <1>r, <2>2
  <2> HIDE DEF AsyncTask
  <2> QED  BY <1>r, <1>f, <2>1, <2>2, <2>3, <2>4, <2>5 DEF ReturnInv
<1>10. CASE AsyncReturn
  <2>1. /\ result' = [result EXCEPT ![cur] = "OK"] /\ pc = "async_return"
        /\ UNCHANGED <<mode, userCb, stage, cur>>
    BY <1>10 DEF AsyncReturn
  <2>2. cur \in Calls
    BY <2>1, AsyncTaskFacts DEF InAsync
  <2>3. \A c \in Calls : result'[c] = IF c = cur THEN "OK" ELSE result[c]
    BY <1>f, <2>1, <2>2
  <2> QED  BY <1>r, <1>f, <2>1, <2>3 DEF ReturnInv
<1>11. CASE Enqueue
  <2>1. pc = "enqueue" /\ UNCHANGED <<mode, userCb, result>>
    BY <1>11 DEF Enqueue
  <2>2. cur \in Calls /\ nextPatch \in Patches /\ mode[cur] = "sync"
    BY <2>1 DEF SdkInv, ModeInv, TaskInv, InProcess
  <2> DEFINE t == [call |-> cur, patch |-> nextPatch]
  <2>3. t \in Tasks /\ t.call = cur
    BY <2>2 DEF Tasks
  <2>4. stage' = [stage EXCEPT ![t] = "queued"]
    BY <1>11 DEF Enqueue
  <2> HIDE DEF t
  <2> QED  BY <1>2, <2>1, <2>2, <2>3, <2>4
<1>12. ASSUME NEW w \in Workers, WorkerTake(w)
       PROVE  ReturnInv'
  <2>1. PICK t \in Tasks :
             /\ mode[t.call] = "sync" /\ stage' = [stage EXCEPT ![t] = "taken"]
             /\ UNCHANGED clientVars
    BY <1>12, TakenTask
  <2> QED  BY <1>2, <2>1
<1>13. ASSUME NEW w \in Workers, RunNullTask(w) \/ RunGet(w) \/ RunStart(w)
       PROVE  ReturnInv'
  <2>1. took[w] \in Tasks /\ mode[took[w].call] = "sync"
    BY <1>13, RunningWorker DEF RunNullTask, RunGet, RunStart
  <2>2. /\ \E s : stage' = [stage EXCEPT ![took[w]] = s]
        /\ UNCHANGED clientVars
    BY <1>13 DEF RunNullTask, RunGet, RunStart
  <2> QED  BY <1>2, <2>1, <2>2
<1>14. ASSUME NEW t \in Tasks,
              InferDone(t) \/ InferFails(t) \/ InferCancelled(t)
              \/ CallbackPutIdle(t) \/ CallbackTask(t)
       PROVE  ReturnInv'
  <2>1. /\ \E s : /\ stage' = [stage EXCEPT ![t] = s]
                  /\ \/ mode[t.call] = "sync"
                     \/ s # "completed" /\ stage[t] \in {"running", "finished"}
        /\ UNCHANGED clientVars
    BY <1>14 DEF InferDone, InferFails, InferCancelled, CallbackPutIdle, CallbackTask
  <2> QED  BY <1>2, <2>1
<1>15. ASSUME NEW t \in Tasks, CallbackUser(t)
       PROVE  ReturnInv'
  <2>1. /\ mode[t.call] = "async" /\ stage' = [stage EXCEPT ![t] = "completed"]
        /\ userCb' = [userCb EXCEPT ![t.call] = userCb[t.call] + 1]
        /\ UNCHANGED <<mode, result, cur, pc>>
    BY <1>15 DEF CallbackUser
  <2>2. \A u \in Tasks : u # t => stage'[u] = stage[u] /\ u.call # t.call
    BY <1>f, <2>1, OneAsyncTask
  <2>3. stage'[t] = "completed" /\ \A c \in Calls : c # t.call => userCb'[c] = userCb[c]
    BY <1>f, <2>1
  <2> QED  BY <1>r, <1>f, <2>1, <2>2, <2>3 DEF ReturnInv
<1>16. ASSUME \/ Grow \/ Notify \/ SyncDone \/ SyncWait \/ ResetCounter \/ RestoreToNull
              \/ DeleteEngine \/ StopExecutor \/ NotifyAllWorkers \/ Joined
              \/ AsyncNullOutput \/ AsyncGetWait \/ UNCHANGED vars
              \/ \E w \in Workers : WorkerWait(w) \/ WorkerLeave(w) \/ RunGetWait(w)
                                    \/ RunStartFails(w)
              \/ \E t \in Tasks : CallbackDeletedEngine(t)
              \/ \E t \in Workers \cup {Client} : SpuriousWakeup(t)
       PROVE  ReturnInv'
  BY <1>16, <1>1 DEF Grow, Notify, SyncDone, SyncWait, ResetCounter, RestoreToNull,
     DeleteEngine, StopExecutor, NotifyAllWorkers, Joined, AsyncNullOutput, AsyncGetWait,
     vars, WorkerWait, WorkerLeave, RunGetWait, RunStartFails, CallbackDeletedEngine,
     SpuriousWakeup
<1> QED
  BY <1>4, <1>5, <1>6, <1>7, <1>8, <1>9, <1>10, <1>11, <1>12, <1>13, <1>14, <1>15, <1>16
     DEF Next, InCall, Process, WorkerStep, Inference, Ended

--------------------------------------------------------------------------------
(* The sleepers on each of the three condition variables.                    *)

QueueWakeup == queueWaiters = Workers /\ taskQueue # <<>> => pc = "notify"
SyncWakeup == Client \in syncWaiters => cbCounter # NPatches

LEMMA QueueWakeupStep ==
    ASSUME SdkInv, QueueWakeup, [Next]_vars
    PROVE  QueueWakeup'
<1> USE DEF poolVars, executorVars, clientVars, workerVars, taskVars, processVars
<1>f. queueWaiters \subseteq Workers /\ Workers # {}
  BY WorkersAssumption DEF SdkInv, TypeOK
<1>1. ASSUME queueWaiters' \subseteq queueWaiters, taskQueue' = taskQueue,
             pc' = pc \/ pc # "notify"
      PROVE  QueueWakeup'
  BY <1>1, <1>f DEF QueueWakeup
<1>2. CASE Enqueue
  BY <1>2 DEF Enqueue, QueueWakeup
<1>3. CASE Notify
  <2>1. queueWaiters' \in NotifyOne(queueWaiters)
    BY <1>3 DEF Notify, EnqueueNotify
  <2>2. queueWaiters' # Workers
    BY <1>f, <2>1 DEF NotifyOne
  <2> QED  BY <2>2 DEF QueueWakeup
<1>4. CASE NotifyAllWorkers
  BY <1>4, <1>f DEF NotifyAllWorkers, NotifyStopped, NotifyAll, QueueWakeup
<1>5. ASSUME NEW w \in Workers, WorkerTake(w)
      PROVE  QueueWakeup'
  <2>1. w \notin queueWaiters /\ queueWaiters' = queueWaiters
    BY <1>5, TakenTask
  <2> QED  BY <2>1 DEF QueueWakeup
<1>6. ASSUME NEW w \in Workers, WorkerWait(w)
      PROVE  QueueWakeup'
  BY <1>6 DEF WorkerWait, WorkerSleep, QueueWakeup
<1>7. CASE CallRejected \/ Process \/ Grow \/ GrowFails \/ SyncDone \/ SyncWait
           \/ ResetCounter \/ Restore \/ RestoreToNull \/ AsyncNullOutput \/ AsyncGet
           \/ AsyncGetWait \/ AsyncStart \/ AsyncStartFails \/ AsyncReturn
           \/ DeleteEngine \/ StopExecutor \/ Joined
  BY <1>7, <1>1 DEF CallRejected, Process, ProcessBegin, AsyncBegin, Grow, GrowFails,
     SyncDone, SyncReturn, SyncWait, SyncSleep, ResetCounter, Reset, Restore,
     RestoreToNull, AsyncNullOutput, AsyncGet, AsyncGetWait, AsyncStart, AsyncStartFails,
     AsyncReturn, DeleteEngine, StopExecutor, SetStopped, Joined
<1>8. ASSUME NEW w \in Workers,
             WorkerLeave(w) \/ RunNullTask(w) \/ RunGet(w) \/ RunGetWait(w)
             \/ RunStart(w) \/ RunStartFails(w)
      PROVE  QueueWakeup'
  BY <1>8, <1>1 DEF WorkerLeave, WorkerStop, RunNullTask, RunGet, RunGetWait, RunStart,
     RunStartFails
<1>9. ASSUME NEW t \in Tasks, Inference(t)
      PROVE  QueueWakeup'
  BY <1>9, <1>1 DEF Inference, InferDone, InferFails, InferCancelled, CallbackPutIdle,
     CallbackTask, CompetitionCallBack, CallbackUser, CallbackDeletedEngine
<1>10. ASSUME \/ UNCHANGED vars \/ \E t \in Workers \cup {Client} : SpuriousWakeup(t)
       PROVE  QueueWakeup'
  BY <1>10, <1>1 DEF vars, SpuriousWakeup, ExecutorSpuriousWakeup
<1> QED
  BY <1>2, <1>3, <1>4, <1>5, <1>6, <1>7, <1>8, <1>9, <1>10
     DEF Next, InCall, WorkerStep, Ended

LEMMA SyncWakeupStep ==
    ASSUME SdkInv, SyncWakeup, [Next]_vars
    PROVE  SyncWakeup'
<1> USE DEF poolVars, executorVars, clientVars, workerVars, taskVars, processVars
<1>f. syncWaiters \subseteq {Client} /\ NPatches # 0
  BY PatchAssumption DEF SdkInv, TypeOK
<1>1. ASSUME syncWaiters' \subseteq syncWaiters, cbCounter' = cbCounter
      PROVE  SyncWakeup'
  BY <1>1 DEF SyncWakeup
<1>2. CASE SyncWait
  BY <1>2 DEF SyncWait, SyncSleep, SyncWakeup
<1>3. CASE ResetCounter
  BY <1>3, <1>f DEF ResetCounter, Reset, SyncWakeup
<1>4. ASSUME NEW t \in Tasks, CallbackTask(t)
      PROVE  SyncWakeup'
  <2>1. syncWaiters' \in NotifyOne(syncWaiters)
    BY <1>4 DEF CallbackTask, CompetitionCallBack
  <2>2. syncWaiters' = {}
    BY <1>f, <2>1 DEF NotifyOne
  <2> QED  BY <2>2 DEF SyncWakeup
<1>5. CASE CallRejected \/ Process \/ Grow \/ GrowFails \/ Enqueue \/ Notify \/ SyncDone
           \/ Restore \/ RestoreToNull \/ AsyncNullOutput \/ AsyncGet
           \/ AsyncGetWait \/ AsyncStart \/ AsyncStartFails \/ AsyncReturn
           \/ DeleteEngine \/ StopExecutor \/ NotifyAllWorkers \/ Joined
  BY <1>5, <1>1 DEF CallRejected, Process, ProcessBegin, AsyncBegin, Grow, GrowFails,
     Enqueue, EnqueuePush, Notify, EnqueueNotify, SyncDone, SyncReturn, Restore,
     RestoreToNull, AsyncNullOutput, AsyncGet, AsyncGetWait, AsyncStart, AsyncStartFails,
     AsyncReturn, DeleteEngine, StopExecutor, SetStopped, NotifyAllWorkers,
     NotifyStopped, Joined
<1>6. ASSUME NEW w \in Workers, WorkerStep(w)
      PROVE  SyncWakeup'
  BY <1>6, <1>1, TakenTask DEF WorkerStep, WorkerWait, WorkerSleep, WorkerLeave,
     WorkerStop, RunNullTask, RunGet, RunGetWait, RunStart, RunStartFails
<1>7. ASSUME NEW t \in Tasks,
             InferDone(t) \/ InferFails(t) \/ InferCancelled(t) \/ CallbackPutIdle(t)
             \/ CallbackUser(t) \/ CallbackDeletedEngine(t)
      PROVE  SyncWakeup'
  BY <1>7, <1>1 DEF InferDone, InferFails, InferCancelled, CallbackPutIdle,
     CallbackUser, CallbackDeletedEngine
<1>8. ASSUME \/ UNCHANGED vars \/ \E t \in Workers \cup {Client} : SpuriousWakeup(t)
      PROVE  SyncWakeup'
  BY <1>8, <1>1 DEF vars, SpuriousWakeup, ExecutorSpuriousWakeup
<1> QED
  BY <1>2, <1>3, <1>4, <1>5, <1>6, <1>7, <1>8 DEF Next, InCall, Inference, Ended

\* A worker on its way to get_idle_request finds a request if frames are split: the
\* requests are at least as many as the patches, and its own patch has none.
LEMMA SpareRequest ==
    ASSUME SdkInv, PathInv, OwnInv, DeinitInv, PatchSolution,
           NEW w \in Workers, worker[w] = "run", stage[took[w]] = "taken"
    PROVE  idleIds # <<>>
<1> SUFFICES ASSUME idleIds = <<>>
             PROVE  FALSE
  OBVIOUS
<1> DEFINE ids == 0 .. requests - 1
           others == Patches \ {took[w].patch}
           task(p) == [call |-> cur, patch |-> p]
<1>1. /\ took[w] \in Tasks /\ mode[took[w].call] = "sync"
      /\ pc \in {"enqueue", "notify", "sync"}
  BY RunningWorker
<1>2. /\ requests \in Nat /\ NPatches \in Nat \ {0} /\ requests >= NPatches /\ engineAlive
      /\ took[w].patch \in Patches
  BY <1>1, RequestFacts DEF PathInv, DeinitInv, InDeinit, Tasks
<1>3. \A k \in ids : \E t \in Tasks : stage[t] \in InUse /\ held[t] = k
  BY <1>2 DEF OwnInv
<1>4. ASSUME NEW t \in Tasks, stage[t] \in InUse
      PROVE  t.patch \in others /\ t = task(t.patch)
  <2>1. t.call \in Calls /\ mode[t.call] # "async" /\ t.patch \in Patches
    BY DEF PathInv, Tasks
  <2>2. mode[t.call] = "sync"
    BY <1>4, <2>1, RequestFacts DEF SdkInv, ModeInv, InUse
  <2>3. t.call = cur /\ took[w].call = cur
    BY <1>1, <1>4, <2>2 DEF SdkInv, TaskInv, NoTaskOutlivesItsCall, InUse
  <2>4. t # took[w]
    BY <1>4 DEF InUse
  <2> QED  BY <1>1, <2>1, <2>3, <2>4 DEF Tasks
<1>5. \A k \in ids : \E p \in others : held[task(p)] = k
  BY <1>3, <1>4
<1> DEFINE g == [k \in ids |-> CHOOSE p \in others : held[task(p)] = k]
<1>6. \A k \in ids : g[k] \in others /\ held[task(g[k])] = k
  BY <1>5
<1>7. g \in [ids -> others] /\ \A j, k \in ids : g[j] = g[k] => j = k
  <2> HIDE DEF ids, others, task
  <2>1. g \in [ids -> others]
    BY <1>6
  <2> HIDE DEF g
  <2> QED  BY <1>6, <2>1
<1>8. IsFiniteSet(ids) /\ Cardinality(ids) = requests
  <2>1. /\ IsFiniteSet(0 .. requests - 1)
        /\ Cardinality(0 .. requests - 1)
              = IF 0 > requests - 1 THEN 0 ELSE (requests - 1) - 0 + 1
    BY <1>2, FS_Interval
  <2> QED  BY <1>2, <2>1
<1>9. IsFiniteSet(others) /\ Cardinality(others) = NPatches - 1
  <2>1. IsFiniteSet(Patches) /\ Cardinality(Patches) = NPatches
    BY <1>2, FS_Interval DEF Patches
  <2> QED  BY <1>2, <2>1, FS_RemoveElement
<1> HIDE DEF ids, others, g, task
<1>10. Cardinality(others) < Cardinality(ids)
  BY <1>2, <1>8, <1>9
<1> QED  BY <1>7, <1>8, <1>9, <1>10, FS_PigeonHole

LEMMA SplitStep ==
    ASSUME SdkInv, PathInv, SleepInv, OwnInv, DeinitInv, SplitInv, [Next]_vars
    PROVE  SplitInv'
<1> USE DEF poolVars, executorVars, clientVars, workerVars, taskVars, processVars
<1>1. ASSUME cvWaiters' \subseteq cvWaiters
      PROVE  SplitInv'
  BY <1>1 DEF SplitInv
<1>2. ASSUME NEW w \in Workers, RunGetWait(w)
      PROVE  SplitInv'
  <2>1. worker[w] = "run" /\ stage[took[w]] = "taken" /\ idleIds = <<>>
    BY <1>2 DEF RunGetWait, GetIdleRequestSleep
  <2> QED  BY <2>1, SpareRequest DEF SplitInv
<1>3. CASE AsyncGetWait
  <2>1. pc \in InAsync
    BY <1>3 DEF AsyncGetWait, InAsync
  <2>2. cur \in Calls /\ mode[cur] = "async"
    BY <2>1, AsyncTaskFacts
  <2> QED  BY <2>2 DEF PathInv, SplitInv
<1>4. ASSUME NEW t \in Tasks, CallbackPutIdle(t)
      PROVE  SplitInv'
  BY <1>4, <1>1, NotifyOneSubset DEF CallbackPutIdle, PutIdleRequest
<1>5. CASE CallRejected \/ Process \/ Grow \/ GrowFails \/ Enqueue \/ Notify \/ SyncDone
           \/ SyncWait \/ ResetCounter \/ Restore \/ RestoreToNull \/ AsyncNullOutput
           \/ AsyncGet \/ AsyncStart \/ AsyncStartFails \/ AsyncReturn
           \/ DeleteEngine \/ StopExecutor \/ NotifyAllWorkers \/ Joined
  BY <1>5, <1>1 DEF CallRejected, Process, ProcessBegin, AsyncBegin, Grow,
     CreateInferRequest, GrowFails, Enqueue, Notify, SyncDone, SyncWait, ResetCounter,
     Restore, RestoreToNull, AsyncNullOutput, AsyncGet, GetIdleRequest, AsyncStart,
     AsyncStartFails, AsyncReturn, DeleteEngine, StopExecutor, NotifyAllWorkers, Joined
<1>6. ASSUME NEW w \in Workers,
             WorkerTake(w) \/ WorkerWait(w) \/ WorkerLeave(w) \/ RunNullTask(w)
             \/ RunGet(w) \/ RunStart(w) \/ RunStartFails(w)
      PROVE  SplitInv'
  BY <1>6, <1>1 DEF WorkerTake, WorkerWait, WorkerLeave, RunNullTask, RunGet,
     GetIdleRequest, RunStart, RunStartFails
<1>7. ASSUME NEW t \in Tasks,
             InferDone(t) \/ InferFails(t) \/ InferCancelled(t) \/ CallbackTask(t)
             \/ CallbackUser(t) \/ CallbackDeletedEngine(t)
      PROVE  SplitInv'
  BY <1>7, <1>1 DEF InferDone, InferFails, InferCancelled, CallbackTask,
     CallbackUser, CallbackDeletedEngine
<1>8. ASSUME \/ UNCHANGED vars \/ \E t \in Workers \cup {Client} : SpuriousWakeup(t)
      PROVE  SplitInv'
  BY <1>8, <1>1 DEF vars, SpuriousWakeup, PoolSpuriousWakeup
<1> QED
  BY <1>2, <1>3, <1>4, <1>5, <1>6, <1>7, <1>8 DEF Next, InCall, WorkerStep, Inference, Ended

\* A handle never has two threads asleep in get_idle_request: where nothing is split a
\* synchronous call has one task, and meanwhile the application is in wait_all.
LEMMA OneSleeper ==
    ASSUME SdkInv, SleepInv, SplitInv, NEW s \in cvWaiters, NEW t \in cvWaiters
    PROVE  s = t
<1>1. s \in Workers \cup {Client} /\ t \in Workers \cup {Client}
  BY RequestFacts
<1>2. ASSUME NEW w \in Workers, w \in cvWaiters
      PROVE  /\ worker[w] = "run" /\ took[w] \in Tasks
             /\ took[w] = [call |-> cur, patch |-> 1]
             /\ pc # "async_get"
             /\ \A v \in Workers : worker[v] = "run" /\ took[v] = took[w] => v = w
  <2>1. worker[w] = "run" /\ stage[took[w]] = "taken"
    BY <1>2 DEF SleepInv
  <2>2. /\ took[w] \in Tasks /\ mode[took[w].call] = "sync"
        /\ pc \in {"enqueue", "notify", "sync"}
        /\ \A v \in Workers : worker[v] = "run" /\ took[v] = took[w] => v = w
    BY <2>1, RunningWorker
  <2>3. took[w].call = cur
    BY <2>1, <2>2 DEF SdkInv, TaskInv, NoTaskOutlivesItsCall
  <2>4. NPatches = 1
    BY <1>2, PatchAssumption DEF SplitInv
  <2>5. took[w].patch = 1
    BY <2>2, <2>4 DEF Tasks, Patches
  <2> QED  BY <2>1, <2>2, <2>3, <2>5 DEF Tasks
<1>3. Client \in cvWaiters => pc = "async_get"
  BY DEF SleepInv
<1> QED  BY <1>1, <1>2, <1>3

\* So the single notification of put_idle_request leaves nobody asleep.
LEMMA PoolWakeupStep ==
    ASSUME SdkInv, SleepInv, SplitInv, NoSleepBesideIdle, [Next]_vars
    PROVE  NoSleepBesideIdle'
<1> USE DEF poolVars, executorVars, clientVars, workerVars, taskVars, processVars
<1>1. ASSUME cvWaiters' \subseteq cvWaiters, idleIds' = idleIds
      PROVE  NoSleepBesideIdle'
  BY <1>1 DEF NoSleepBesideIdle
<1>2. CASE Grow
  <2>1. pc = "grow" /\ cvWaiters' = cvWaiters
    BY <1>2 DEF Grow, CreateInferRequest
  <2>2. ASSUME NEW s \in cvWaiters
        PROVE  FALSE
    <3>1. s \in Workers \cup {Client}
      BY RequestFacts
    <3> QED  BY <2>1, <3>1, RunningWorker DEF SleepInv
  <2> QED  BY <2>1, <2>2 DEF NoSleepBesideIdle
<1>3. ASSUME NEW t, NEW id, GetIdleRequest(t, id)
      PROVE  NoSleepBesideIdle'
  BY <1>3 DEF GetIdleRequest, NoSleepBesideIdle
<1>4. ASSUME NEW t, GetIdleRequestSleep(t)
      PROVE  NoSleepBesideIdle'
  BY <1>4 DEF GetIdleRequestSleep, NoSleepBesideIdle
<1>5. ASSUME NEW t \in Tasks, CallbackPutIdle(t)
      PROVE  NoSleepBesideIdle'
  <2>1. cvWaiters' \in NotifyOne(cvWaiters)
    BY <1>5 DEF CallbackPutIdle, PutIdleRequest
  <2>2. cvWaiters' = {}
    BY <2>1, OneSleeper DEF NotifyOne
  <2> QED  BY <2>2 DEF NoSleepBesideIdle
<1>6. CASE CallRejected \/ Process \/ GrowFails \/ Enqueue \/ Notify \/ SyncDone
           \/ SyncWait \/ ResetCounter \/ Restore \/ RestoreToNull \/ AsyncNullOutput
           \/ AsyncStart \/ AsyncStartFails \/ AsyncReturn
           \/ DeleteEngine \/ StopExecutor \/ NotifyAllWorkers \/ Joined
  BY <1>6, <1>1 DEF CallRejected, Process, ProcessBegin, AsyncBegin, GrowFails,
     Enqueue, Notify, SyncDone, SyncWait, ResetCounter, Restore,
     RestoreToNull, AsyncNullOutput, AsyncStart, AsyncStartFails,
     AsyncReturn, DeleteEngine, StopExecutor, NotifyAllWorkers, Joined
<1>7. CASE AsyncGet \/ AsyncGetWait
  BY <1>7, <1>3, <1>4 DEF AsyncGet, AsyncGetWait
<1>8. ASSUME NEW w \in Workers, WorkerStep(w)
      PROVE  NoSleepBesideIdle'
  BY <1>8, <1>1, <1>3, <1>4, TakenTask DEF WorkerStep, WorkerWait, WorkerLeave,
     RunNullTask, RunGet, RunGetWait, RunStart, RunStartFails
<1>9. ASSUME NEW t \in Tasks,
             InferDone(t) \/ InferFails(t) \/ InferCancelled(t) \/ CallbackTask(t)
             \/ CallbackUser(t) \/ CallbackDeletedEngine(t)
      PROVE  NoSleepBesideIdle'
  BY <1>9, <1>1 DEF InferDone, InferFails, InferCancelled, CallbackTask,
     CallbackUser, CallbackDeletedEngine
<1>10. ASSUME \/ UNCHANGED vars \/ \E t \in Workers \cup {Client} : SpuriousWakeup(t)
       PROVE  NoSleepBesideIdle'
  BY <1>10, <1>1 DEF vars, SpuriousWakeup, PoolSpuriousWakeup
<1> QED
  BY <1>2, <1>5, <1>6, <1>7, <1>8, <1>9, <1>10 DEF Next, InCall, Inference, Ended

--------------------------------------------------------------------------------
(* The theorems.                                                             *)

LEMMA RequestsInvStep ==
    ASSUME RequestsInv, [Next]_vars
    PROVE  RequestsInv'
<1>1. SdkInv /\ PathInv /\ AsyncInv /\ SleepInv /\ OwnInv /\ DeinitInv /\ ReturnInv
  BY DEF RequestsInv
<1>2. SplitInv /\ NoSleepBesideIdle /\ QueueWakeup /\ SyncWakeup
  BY DEF RequestsInv, NoLostNotification, QueueWakeup, SyncWakeup
<1>3. SdkInv' /\ PathInv' /\ AsyncInv' /\ SleepInv'
  BY <1>1, SdkInvStep, PathStep, AsyncStep, SleepStep
<1>4. OwnInv' /\ DeinitInv' /\ ReturnInv'
  BY <1>1, OwnStep, DeinitStep, ReturnStep
<1>5. QueueWakeup' /\ SyncWakeup'
  BY <1>1, <1>2, QueueWakeupStep, SyncWakeupStep
<1>6. NoLostNotification'
  BY <1>5 DEF NoLostNotification, QueueWakeup, SyncWakeup
<1>7. SplitInv' /\ NoSleepBesideIdle'
  BY <1>1, <1>2, SplitStep, PoolWakeupStep
<1> QED  BY <1>3, <1>4, <1>6, <1>7 DEF RequestsInv

LEMMA RequestsInvInit ==
    ASSUME Init
    PROVE  RequestsInv
<1>1. SdkInv
  BY SdkInvInit
<1>2. /\ requests = InferReqNum /\ InferReqNum \in Nat \ {0}
      /\ idleIds = [i \in 1 .. InferReqNum |-> i - 1] /\ cvWaiters = {}
      /\ taskQueue = <<>> /\ syncWaiters = {}
      /\ pc = "idle" /\ engineAlive /\ \A c \in Calls : mode[c] = "none" /\ userCb[c] = 0
      /\ \A t \in Tasks : stage[t] = "none" /\ t.call \in Calls
  BY InferReqNumAssumption DEF Init, PoolInit, ExecutorInit, Tasks
<1>3. /\ PathInv /\ AsyncInv /\ SleepInv /\ DeinitInv /\ ReturnInv
      /\ SplitInv /\ NoLostNotification /\ NoSleepBesideIdle
  BY <1>2 DEF PathInv, AsyncInv, SleepInv, DeinitInv, ReturnInv, SplitInv,
     NoLostNotification, NoSleepBesideIdle
<1>4. OwnInv
  <2>1. Len(idleIds) = InferReqNum /\ \A i \in 1 .. InferReqNum : idleIds[i] = i - 1
    BY <1>2
  <2>2. \A t \in Tasks : stage[t] \notin InUse
    BY <1>2 DEF InUse
  <2>3. ASSUME NEW id \in 0 .. requests - 1
        PROVE  \E i \in 1 .. Len(idleIds) : idleIds[i] = id
    <3>1. id + 1 \in 1 .. InferReqNum /\ (id + 1) - 1 = id
      BY <1>2
    <3> QED  BY <2>1, <3>1
  <2> QED  BY <1>2, <2>1, <2>2, <2>3 DEF OwnInv
<1> QED  BY <1>1, <1>3, <1>4 DEF RequestsInv

\* The invariant of the requests, the sleepers and the asynchronous calls holds
\* throughout, whatever OpenVINO fails to do.
THEOREM RequestsInvariance == Spec => []RequestsInv
<1>1. RequestsInv /\ [Next]_vars => RequestsInv'
  BY RequestsInvStep
<1> QED  BY RequestsInvInit, <1>1, PTL DEF Spec

\* No request of the engine is handed out twice and none is lost between
\* get_idle_request, put_idle_request and create_infer_requests.
THEOREM OwnedOnceAlways == Spec => []EachRequestOwnedOnce
<1>1. RequestsInv => EachRequestOwnedOnce
  BY OwnedOnce DEF RequestsInv
<1> QED  BY RequestsInvariance, <1>1, PTL

\* The pool grows without its mutex only when no other thread is in it: the
\* counter has kept every task inside its call, and a handle whose frames are
\* split has no asynchronous call.
THEOREM GrowthExclusive == Spec => []GrowthIsExclusive
<1>1. RequestsInv => GrowthIsExclusive
  <2> SUFFICES ASSUME RequestsInv, pc = "grow"
               PROVE  /\ cvWaiters = {}
                      /\ \A w \in Workers : worker[w] # "run"
                      /\ \A t \in Tasks : stage[t] \notin InUse
    BY DEF GrowthIsExclusive
  <2>1. SdkInv /\ PathInv /\ SleepInv
    BY DEF RequestsInv
  <2>2. \A w \in Workers : worker[w] # "run"
    BY <2>1, RunningWorker
  <2>3. cvWaiters = {}
    <3>1. cvWaiters \subseteq Workers \cup {Client}
      BY <2>1, RequestFacts
    <3>2. \A t \in Workers \cup {Client} : t \notin cvWaiters
      BY <2>1, <2>2 DEF SleepInv
    <3> QED  BY <3>1, <3>2
  <2>4. ASSUME NEW t \in Tasks, stage[t] \in InUse
        PROVE  FALSE
    <3>1. t.call \in Calls /\ mode[t.call] # "async"
      BY <2>1 DEF PathInv, Tasks
    <3>2. mode[t.call] = "sync"
      BY <2>1, <2>4, <3>1, RequestFacts DEF SdkInv, ModeInv, InUse
    <3> QED  BY <2>1, <2>4, <3>2, NothingAlive DEF InUse
  <2> QED  BY <2>2, <2>3, <2>4
<1> QED  BY RequestsInvariance, <1>1, PTL

\* Enqueue and competition_call_back wake those who wait for them: the workers do not
\* all sleep beside a queued task, nor does wait_all with all tasks counted.
THEOREM NotificationNotLost == Spec => []NoLostNotification
<1>1. RequestsInv => NoLostNotification
  BY DEF RequestsInv
<1> QED  BY RequestsInvariance, <1>1, PTL

\* No worker and no application sleeps in get_idle_request beside an idle request,
\* although put_idle_request wakes a single thread.
THEOREM SleepersFindNothingIdle == Spec => []NoSleepBesideIdle
<1>1. RequestsInv => NoSleepBesideIdle
  BY DEF RequestsInv
<1> QED  BY RequestsInvariance, <1>1, PTL

\* ivsr_deinit may delete the engine before the executor, once the application has
\* had the callbacks of its calls.
THEOREM DeletedQuiescent == Spec => []DeletedEngineIsQuiescent
<1>1. RequestsInv => DeletedEngineIsQuiescent
  <2> SUFFICES ASSUME RequestsInv, ~engineAlive, CallbacksDone
               PROVE  /\ taskQueue = <<>>
                      /\ \A w \in Workers : worker[w] # "run"
                      /\ \A t \in Tasks : stage[t] \notin {"acquired", "running", "finished"}
    BY DEF DeletedEngineIsQuiescent
  <2>1. SdkInv /\ ReturnInv /\ pc \in InDeinit \cup {"done"}
    BY DEF RequestsInv, DeinitInv
  <2>2. pc \notin {"enqueue", "notify", "sync", "async_start", "async_return"}
    BY <2>1 DEF InDeinit
  <2>3. \A w \in Workers : worker[w] # "run"
    BY <2>1, <2>2, RunningWorker
  <2>4. ASSUME taskQueue # <<>>
        PROVE  FALSE
    <3>1. taskQueue \in Seq(Tasks) /\ QueueInv
      BY <2>1 DEF SdkInv, TypeOK
    <3>2. taskQueue[1] \in Tasks /\ 1 \in 1 .. Len(taskQueue)
      BY <2>4, <3>1, TailFacts
    <3>3. stage[taskQueue[1]] = "queued" /\ mode[taskQueue[1].call] = "sync"
      BY <3>1, <3>2 DEF QueueInv
    <3> QED  BY <2>1, <2>2, <3>2, <3>3, NothingAlive
  <2>5. ASSUME NEW t \in Tasks, stage[t] \in {"acquired", "running", "finished"}
        PROVE  FALSE
    <3>1. t.call \in Calls /\ mode[t.call] \in {"none", "sync", "async"}
      BY <2>1, RequestFacts DEF Tasks
    <3>2. mode[t.call] # "none"
      BY <2>1, <2>5 DEF SdkInv, ModeInv
    <3>3. mode[t.call] # "sync"
      BY <2>1, <2>2, <2>5, NothingAlive
    <3>4. mode[t.call] = "async"
      BY <3>1, <3>2, <3>3
    <3>5. result[t.call] = "OK" /\ userCb[t.call] = 0
      BY <2>1, <2>2, <2>5, <3>4 DEF ReturnInv
    <3> QED  BY <3>1, <3>4, <3>5 DEF CallbacksDone
  <2> QED  BY <2>3, <2>4, <2>5
<1> QED  BY RequestsInvariance, <1>1, PTL

--------------------------------------------------------------------------------
(* The SDK implements the promise of its interface, IvsrApi: every step of   *)
(* the application, of a worker or of OpenVINO is one step of a call, or     *)
(* none.                                                                     *)

\* A call is open while the application is inside of it, and at no other time.
CallInv ==
    /\ pc \in InProcess \cup InAsync => result[cur] = "none"
    /\ pc \in InProcess => userCb[cur] = 0
    /\ \A c \in Calls : c > cur => result[c] = "none"
    /\ \A c \in Calls : mode[c] # "none" /\ result[c] = "none" =>
         c = cur /\ pc \in InProcess \cup InAsync

LEMMA NextCall ==
    ASSUME SdkInv, CallInv, cur < MaxCalls
    PROVE  /\ cur + 1 \in Calls /\ mode[cur + 1] = "none" /\ result[cur + 1] = "none"
           /\ \A c \in Calls : c > cur + 1 => c > cur /\ c # cur + 1
<1>1. /\ cur + 1 \in Calls /\ cur + 1 > cur
      /\ \A c \in Calls : c > cur + 1 => c > cur /\ c # cur + 1
  BY RequestFacts DEF Calls
<1> QED  BY <1>1 DEF SdkInv, ModeInv, CallInv

LEMMA CallInvStep ==
    ASSUME RequestsInv, CallInv, [Next]_vars
    PROVE  CallInv'
<1> USE DEF poolVars, executorVars, clientVars, workerVars, taskVars, processVars,
           InProcess, InAsync
<1>i. SdkInv /\ ReturnInv
  BY DEF RequestsInv
<1>f. /\ mode \in [Calls -> {"none", "sync", "async"}]
      /\ result \in [Calls -> {"none", "OK", "GENERAL_ERROR", "UNKNOWN_ERROR"}]
      /\ userCb \in [Calls -> Nat] /\ \A c \in Calls : c > cur => c # cur
  BY <1>i, RequestFacts DEF Calls
<1>m. /\ pc \in InProcess => cur \in Calls /\ mode[cur] = "sync"
      /\ pc \in InAsync => cur \in Calls /\ mode[cur] = "async"
  BY <1>i DEF SdkInv, ModeInv
\* The application stays inside, or outside, of its call.
<1>1. ASSUME pc' \in InProcess <=> pc \in InProcess, pc' \in InAsync <=> pc \in InAsync,
             UNCHANGED <<cur, mode, result, userCb>>
      PROVE  CallInv'
  BY <1>1 DEF CallInv
\* The call returns.
<1>2. ASSUME pc \in InProcess \cup InAsync, pc' = "idle",
             NEW s \in {"OK", "UNKNOWN_ERROR"}, result' = [result EXCEPT ![cur] = s],
             UNCHANGED <<cur, mode>>
      PROVE  CallInv'
  <2>1. \A c \in Calls : result'[c] = IF c = cur THEN s ELSE result[c]
    BY <1>2, <1>f, <1>m
  <2> QED  BY <1>2, <1>f, <1>m, <2>1 DEF CallInv
<1>3. CASE CallRejected
  <2>1. /\ pc = "idle" /\ pc' = pc /\ cur < MaxCalls /\ cur' = cur + 1
        /\ result' = [result EXCEPT ![cur + 1] = "GENERAL_ERROR"]
        /\ UNCHANGED <<mode, userCb>>
    BY <1>3 DEF CallRejected
  <2>2. /\ cur + 1 \in Calls /\ mode[cur + 1] = "none"
        /\ \A c \in Calls : c > cur + 1 => c > cur /\ c # cur + 1
    BY <1>i, <2>1, NextCall
  <2>3. \A c \in Calls : result'[c] = IF c = cur + 1 THEN "GENERAL_ERROR" ELSE result[c]
    BY <1>f, <2>1, <2>2
  <2> QED  BY <2>1, <2>2, <2>3 DEF CallInv
<1>4. ASSUME NEW api \in Apis, NEW buffer \in Buffers,
             ProcessBegin(api, buffer) \/ AsyncBegin(api, buffer)
      PROVE  CallInv'
  <2>1. /\ pc = "idle" /\ cur < MaxCalls /\ cur' = cur + 1
        /\ pc' \in {"grow", "enqueue", "async_get"}
        /\ \E m \in {"sync", "async"} : mode' = [mode EXCEPT ![cur + 1] = m]
        /\ UNCHANGED <<result, userCb>>
    BY <1>4 DEF ProcessBegin, AsyncBegin
  <2>2. /\ cur + 1 \in Calls /\ mode[cur + 1] = "none" /\ result[cur + 1] = "none"
        /\ \A c \in Calls : c > cur + 1 => c > cur /\ c # cur + 1
    BY <1>i, <2>1, NextCall
  <2>3. \A c \in Calls : c # cur + 1 => mode'[c] = mode[c]
    BY <1>f, <2>1
  <2>4. userCb[cur + 1] = 0
    BY <1>i, <2>2 DEF ReturnInv
  <2> QED  BY <2>1, <2>2, <2>3, <2>4 DEF CallInv
<1>5. CASE GrowFails \/ Restore \/ AsyncStartFails \/ AsyncReturn
  BY <1>5, <1>2 DEF GrowFails, Restore, AsyncStartFails, AsyncReturn
<1>6. CASE Grow \/ Enqueue \/ Notify \/ SyncDone \/ SyncWait \/ ResetCounter
           \/ RestoreToNull \/ AsyncNullOutput \/ AsyncGet \/ AsyncGetWait \/ AsyncStart
           \/ DeleteEngine \/ StopExecutor \/ NotifyAllWorkers \/ Joined
  BY <1>6, <1>1 DEF Grow, Enqueue, Notify, SyncDone, SyncWait, ResetCounter,
     RestoreToNull, AsyncNullOutput, AsyncGet, AsyncGetWait, AsyncStart, DeleteEngine,
     StopExecutor, NotifyAllWorkers, Joined
<1>7. ASSUME \/ UNCHANGED vars \/ \E w \in Workers : WorkerStep(w)
             \/ \E t \in Workers \cup {Client} : SpuriousWakeup(t)
      PROVE  CallInv'
  BY <1>7, <1>1 DEF vars, WorkerStep, WorkerTake, WorkerWait, WorkerLeave, RunNullTask,
     RunGet, RunGetWait, RunStart, RunStartFails, SpuriousWakeup
<1>8. ASSUME NEW t \in Tasks,
             InferDone(t) \/ InferFails(t) \/ InferCancelled(t) \/ CallbackPutIdle(t)
             \/ CallbackTask(t) \/ CallbackDeletedEngine(t)
      PROVE  CallInv'
  BY <1>8, <1>1 DEF InferDone, InferFails, InferCancelled, CallbackPutIdle,
     CallbackTask, CallbackDeletedEngine
<1>9. ASSUME NEW t \in Tasks, CallbackUser(t)
      PROVE  CallInv'
  <2>1. /\ mode[t.call] = "async" /\ userCb' = [userCb EXCEPT ![t.call] = userCb[t.call] + 1]
        /\ UNCHANGED <<pc, cur, mode, result>>
    BY <1>9 DEF CallbackUser
  <2>2. pc \in InProcess => userCb'[cur] = userCb[cur]
    BY <1>f, <1>m, <2>1
  <2> QED  BY <2>1, <2>2 DEF CallInv
<1> QED
  BY <1>3, <1>4, <1>5, <1>6, <1>7, <1>8, <1>9
     DEF Next, InCall, Process, Inference, Ended

LEMMA CallInvInit == Init => CallInv
  BY DEF Init, CallInv, InProcess, InAsync

--------------------------------------------------------------------------------
(* The refinement mapping.                                                   *)

\* The value of inferred in the mapping Api.
Done == {"finished", "returned", "completed"}
Inferred ==
    [c \in Calls |-> {p \in Patches : stage[[call |-> c, patch |-> p]] \in Done}]

\* The steps of the promise, in terms of the SDK's variables.
LEMMA StutterStep ==
    ASSUME UNCHANGED <<mode, result, userCb>>, Inferred' = Inferred
    PROVE  [Api!Next]_(Api!vars)
  BY DEF Api!vars, Inferred, Done

LEMMA AcceptStep ==
    ASSUME NEW c \in Calls, NEW k \in {"sync", "async"},
           \A d \in Calls : mode[d] = "none" \/ result[d] # "none",
           mode[c] = "none", result[c] = "none",
           mode' = [mode EXCEPT ![c] = k],
           UNCHANGED <<result, userCb>>, Inferred' = Inferred
    PROVE  [Api!Next]_(Api!vars)
<1>1. Api!Accept(c, k)
  BY DEF Api!Accept, Api!InProgress, Inferred, Done
<1> QED  BY <1>1 DEF Api!Next

LEMMA RejectStep ==
    ASSUME NEW c \in Calls,
           \A d \in Calls : mode[d] = "none" \/ result[d] # "none",
           mode[c] = "none", result[c] = "none",
           result' = [result EXCEPT ![c] = "GENERAL_ERROR"],
           UNCHANGED <<mode, userCb>>, Inferred' = Inferred
    PROVE  [Api!Next]_(Api!vars)
<1>1. Api!Reject(c)
  BY DEF Api!Reject, Api!InProgress, Inferred, Done
<1> QED  BY <1>1 DEF Api!Next

LEMMA InferStep ==
    ASSUME NEW c \in Calls, NEW p \in Patches, mode[c] # "none",
           mode[c] = "async" => p = 1, p \notin Inferred[c],
           Inferred' = [Inferred EXCEPT ![c] = Inferred[c] \cup {p}],
           UNCHANGED <<mode, result, userCb>>
    PROVE  [Api!Next]_(Api!vars)
<1>1. Api!Infer(c, p)
  BY DEF Api!Infer, Api!PatchesOf, Inferred, Done
<1> QED  BY <1>1 DEF Api!Next

LEMMA CompleteStep ==
    ASSUME NEW c \in Calls, mode[c] = "sync", result[c] = "none", Inferred[c] = Patches,
           userCb' = [userCb EXCEPT ![c] = 1], result' = [result EXCEPT ![c] = "OK"],
           mode' = mode, Inferred' = Inferred
    PROVE  [Api!Next]_(Api!vars)
<1>1. Api!Complete(c)
  BY DEF Api!Complete, Api!InProgress, Inferred, Done
<1> QED  BY <1>1 DEF Api!Next

LEMMA ReturnAsyncStep ==
    ASSUME NEW c \in Calls, mode[c] = "async", result[c] = "none",
           result' = [result EXCEPT ![c] = "OK"],
           UNCHANGED <<mode, userCb>>, Inferred' = Inferred
    PROVE  [Api!Next]_(Api!vars)
<1>1. Api!ReturnAsync(c)
  BY DEF Api!ReturnAsync, Api!InProgress, Inferred, Done
<1> QED  BY <1>1 DEF Api!Next

LEMMA NotifyAsyncStep ==
    ASSUME NEW c \in Calls, mode[c] = "async", userCb[c] = 0, Inferred[c] = {1},
           userCb' = [userCb EXCEPT ![c] = 1],
           UNCHANGED <<mode, result>>, Inferred' = Inferred
    PROVE  [Api!Next]_(Api!vars)
<1>1. Api!NotifyAsync(c)
  BY DEF Api!NotifyAsync, Inferred, Done
<1> QED  BY <1>1 DEF Api!Next

LEMMA FailStep ==
    ASSUME NEW c \in Calls, mode[c] # "none", result[c] = "none", Inferred[c] = {},
           result' = [result EXCEPT ![c] = "UNKNOWN_ERROR"],
           UNCHANGED <<mode, userCb>>, Inferred' = Inferred
    PROVE  [Api!Next]_(Api!vars)
<1>1. Api!Fail(c)
  BY DEF Api!Fail, Api!InProgress, Inferred, Done
<1> QED  BY <1>1 DEF Api!Next

--------------------------------------------------------------------------------
(* What each step of the SDK does to the patches inferred.                   *)

LEMMA TaskOf ==
    ASSUME NEW c \in Calls, NEW p \in Patches
    PROVE  [call |-> c, patch |-> p] \in Tasks
  BY DEF Tasks

LEMMA SameTask ==
    ASSUME NEW t \in Tasks, NEW c, NEW p
    PROVE  [call |-> c, patch |-> p] = t <=> c = t.call /\ p = t.patch
  BY DEF Tasks

\* Steps that neither end an inference nor forget one.
LEMMA InferredFrame ==
    ASSUME \A t \in Tasks : stage'[t] \in Done <=> stage[t] \in Done
    PROVE  Inferred' = Inferred
<1>1. \A c \in Calls, p \in Patches :
         stage'[[call |-> c, patch |-> p]] \in Done <=>
         stage[[call |-> c, patch |-> p]] \in Done
  BY TaskOf
<1>2. \A c \in Calls : {p \in Patches : stage'[[call |-> c, patch |-> p]] \in Done}
                     = {p \in Patches : stage[[call |-> c, patch |-> p]] \in Done}
  BY <1>1
<1> QED  BY <1>2 DEF Inferred, Done

\* One task moves on and counts as inferred after it if it did before.
LEMMA InferredMove ==
    ASSUME SdkInv, NEW t \in Tasks, NEW s, stage' = [stage EXCEPT ![t] = s],
           s \in Done <=> stage[t] \in Done
    PROVE  Inferred' = Inferred
<1>1. \A u \in Tasks : stage'[u] \in Done <=> stage[u] \in Done
  BY RequestFacts
<1> QED  BY <1>1, InferredFrame

LEMMA InferredAdd ==
    ASSUME SdkInv, NEW t \in Tasks, stage' = [stage EXCEPT ![t] = "finished"],
           stage[t] = "running"
    PROVE  /\ t.call \in Calls /\ t.patch \in Patches
           /\ t.patch \notin Inferred[t.call]
           /\ Inferred' = [Inferred EXCEPT ![t.call] = Inferred[t.call] \cup {t.patch}]
<1> DEFINE c == t.call
           p == t.patch
           After(d) == {q \in Patches : stage'[[call |-> d, patch |-> q]] \in Done}
           Before(d) == {q \in Patches : stage[[call |-> d, patch |-> q]] \in Done}
<1>1. c \in Calls /\ p \in Patches /\ t = [call |-> c, patch |-> p]
  BY DEF Tasks
<1>2. \A u \in Tasks : stage'[u] = IF u = t THEN "finished" ELSE stage[u]
  BY RequestFacts
<1>3. \A d \in Calls, q \in Patches :
         /\ [call |-> d, patch |-> q] \in Tasks
         /\ [call |-> d, patch |-> q] = t <=> d = c /\ q = p
  BY TaskOf, SameTask
<1>4. p \notin Before(c)
  BY <1>1 DEF Done
<1>5. \A d \in Calls : After(d) = IF d = c THEN Before(c) \cup {p} ELSE Before(d)
  BY <1>1, <1>2, <1>3 DEF Done
<1>6. /\ Inferred = [d \in Calls |-> Before(d)]
      /\ Inferred' = [d \in Calls |-> After(d)]
  BY DEF Inferred, Done
<1> HIDE DEF c, p, After, Before
<1>7. Inferred' = [Inferred EXCEPT ![c] = Inferred[c] \cup {p}]
  BY <1>1, <1>5, <1>6
<1>8. p \notin Inferred[c]
  BY <1>1, <1>4, <1>6
<1> QED  BY <1>1, <1>7, <1>8 DEF c, p

\* An asynchronous call has inferred its only patch or nothing.
LEMMA InferredAsync ==
    ASSUME PathInv, NEW t \in Tasks, mode[t.call] = "async"
    PROVE  /\ t.patch = 1
           /\ Inferred[t.call] = IF stage[t] \in Done THEN {1} ELSE {}
<1>1. t.call \in Calls /\ t.patch \in Patches /\ t = [call |-> t.call, patch |-> t.patch]
  BY DEF Tasks
<1>2. NPatches = 1
  BY <1>1, PatchAssumption DEF PathInv
<1>3. Patches = {1} /\ t.patch = 1
  BY <1>1, <1>2 DEF Patches
<1>4. Inferred[t.call] =
        {p \in Patches : stage[[call |-> t.call, patch |-> p]] \in Done}
  BY <1>1 DEF Inferred
<1> QED  BY <1>1, <1>3, <1>4

LEMMA InferredOf ==
    ASSUME NEW c \in Calls
    PROVE  Inferred[c] = {p \in Patches : stage[[call |-> c, patch |-> p]] \in Done}
  BY DEF Inferred

\* A call that has enqueued nothing, and a call of which every patch came back.
LEMMA InferredNone ==
    ASSUME NEW c \in Calls, \A p \in Patches : stage[[call |-> c, patch |-> p]] = "none"
    PROVE  Inferred[c] = {}
<1>1. \A p \in Patches : stage[[call |-> c, patch |-> p]] \notin Done
  BY DEF Done
<1>2. {p \in Patches : stage[[call |-> c, patch |-> p]] \in Done} = {}
  BY ONLY <1>1
<1> QED  BY <1>2, InferredOf

LEMMA InferredAll ==
    ASSUME NEW c \in Calls, \A p \in Patches : stage[[call |-> c, patch |-> p]] = "completed"
    PROVE  Inferred[c] = Patches
<1>1. \A p \in Patches : stage[[call |-> c, patch |-> p]] \in Done
  BY DEF Done
<1>2. {p \in Patches : stage[[call |-> c, patch |-> p]] \in Done} = Patches
  BY <1>1
<1> QED  BY <1>2, InferredOf

--------------------------------------------------------------------------------
(* Every step maps to a step of the promise or to none.                      *)

LEMMA ApiStep ==
    ASSUME RequestsInv, CallInv, [Next]_vars
    PROVE  [Api!Next]_(Api!vars)
<1> USE DEF poolVars, executorVars, clientVars, workerVars, taskVars, processVars
<1>i. SdkInv /\ PathInv /\ AsyncInv /\ ReturnInv
  BY DEF RequestsInv
<1>f. /\ stage \in [Tasks -> Stages] /\ mode \in [Calls -> {"none", "sync", "async"}]
      /\ userCb \in [Calls -> Nat]
  BY <1>i, RequestFacts
<1>m. /\ pc \in InProcess => cur \in Calls /\ mode[cur] = "sync"
                             /\ result[cur] = "none" /\ userCb[cur] = 0
      /\ pc \in InAsync => cur \in Calls /\ mode[cur] = "async" /\ result[cur] = "none"
  BY <1>i DEF SdkInv, ModeInv, CallInv
<1>o. pc = "idle" => \A d \in Calls : mode[d] = "none" \/ result[d] # "none"
  BY DEF CallInv, InProcess, InAsync
\* No call sees the step.
<1>1. ASSUME UNCHANGED <<mode, result, userCb, stage>>
      PROVE  [Api!Next]_(Api!vars)
  <2>1. Inferred' = Inferred
    BY <1>1, InferredFrame
  <2> QED  BY <1>1, <2>1, StutterStep
\* A task moves on, and counts as inferred after it if it did before.
<1>2. ASSUME NEW t \in Tasks, NEW s, stage' = [stage EXCEPT ![t] = s],
             s \in Done <=> stage[t] \in Done,
             UNCHANGED <<mode, result, userCb>>
      PROVE  [Api!Next]_(Api!vars)
  <2>1. Inferred' = Inferred
    BY <1>i, <1>2, InferredMove
  <2> QED  BY <1>2, <2>1, StutterStep
<1>3. CASE CallRejected
  <2>1. /\ pc = "idle" /\ cur < MaxCalls
        /\ result' = [result EXCEPT ![cur + 1] = "GENERAL_ERROR"]
        /\ UNCHANGED <<mode, userCb, stage>>
    BY <1>3 DEF CallRejected
  <2>2. Inferred' = Inferred
    BY <2>1, InferredFrame
  <2> QED  BY <1>i, <1>o, <2>1, <2>2, NextCall, RejectStep
<1>4. ASSUME NEW api \in Apis, NEW buffer \in Buffers,
             ProcessBegin(api, buffer) \/ AsyncBegin(api, buffer)
      PROVE  [Api!Next]_(Api!vars)
  <2>1. /\ pc = "idle" /\ cur < MaxCalls
        /\ \E m \in {"sync", "async"} : mode' = [mode EXCEPT ![cur + 1] = m]
        /\ UNCHANGED <<userCb, result, stage>>
    BY <1>4 DEF ProcessBegin, AsyncBegin
  <2>2. Inferred' = Inferred
    BY <2>1, InferredFrame
  <2> QED  BY <1>i, <1>o, <2>1, <2>2, NextCall, AcceptStep
<1>5. CASE GrowFails
  <2>1. /\ pc = "grow" /\ result' = [result EXCEPT ![cur] = "UNKNOWN_ERROR"]
        /\ UNCHANGED <<mode, userCb, stage>>
    BY <1>5 DEF GrowFails
  <2>2. cur \in Calls /\ mode[cur] = "sync" /\ result[cur] = "none"
    BY <1>m, <2>1 DEF InProcess
  <2>3. \A p \in Patches : stage[[call |-> cur, patch |-> p]] = "none"
    <3>1. \A p \in Patches : p > 1 \/ p = 1
      BY PatchAssumption DEF Patches
    <3> QED  BY <1>i, <2>1, <3>1 DEF SdkInv, TaskInv
  <2>4. Inferred[cur] = {}
    BY <2>2, <2>3, InferredNone
  <2>5. Inferred' = Inferred
    BY <2>1, InferredFrame
  <2> QED  BY <2>1, <2>2, <2>4, <2>5, FailStep
<1>6. CASE Enqueue
  <2>1. pc = "enqueue" /\ UNCHANGED <<mode, userCb, result>>
    BY <1>6 DEF Enqueue
  <2>2. cur \in Calls /\ nextPatch \in Patches
    BY <1>i, <2>1 DEF SdkInv, ModeInv, TaskInv, InProcess
  <2> DEFINE t == [call |-> cur, patch |-> nextPatch]
  <2>3. t \in Tasks
    BY <2>2, TaskOf
  <2>4. stage[t] = "none"
    BY <1>i, <2>1, <2>2 DEF SdkInv, TaskInv
  <2>5. stage' = [stage EXCEPT ![t] = "queued"]
    BY <1>6 DEF Enqueue
  <2> HIDE DEF t
  <2> QED  BY <1>2, <2>1, <2>3, <2>4, <2>5 DEF Done
\* wait_all has seen every patch of the call come back.
<1>7. CASE Restore
  <2>1. /\ pc = "restore" /\ result' = [result EXCEPT ![cur] = "OK"]
        /\ userCb' = [userCb EXCEPT ![cur] = userCb[cur] + 1]
        /\ UNCHANGED <<mode, stage>>
    BY <1>7 DEF Restore
  <2>2. /\ cur \in Calls /\ mode[cur] = "sync" /\ result[cur] = "none" /\ userCb[cur] = 0
    BY <1>m, <2>1 DEF InProcess
  <2>3. CompletedPatches = Patches
    BY <1>i, <2>1 DEF SdkInv, TaskInv
  <2>4. \A p \in Patches : stage[[call |-> cur, patch |-> p]] = "completed"
    BY <2>3 DEF CompletedPatches
  <2>5. Inferred[cur] = Patches
    BY <2>2, <2>4, InferredAll
  <2>6. Inferred' = Inferred
    BY <2>1, InferredFrame
  <2>7. userCb' = [userCb EXCEPT ![cur] = 1]
    BY <2>1, <2>2
  <2> QED  BY <2>1, <2>2, <2>5, <2>6, <2>7, CompleteStep
<1>8. CASE AsyncGet \/ AsyncStart
  <2>1. /\ pc \in {"async_get", "async_start"}
        /\ \E s \in {"acquired", "running"} : stage' = [stage EXCEPT ![AsyncTask] = s]
        /\ UNCHANGED <<mode, userCb, result>>
    BY <1>8 DEF AsyncGet, AsyncStart
  <2>2. AsyncTask \in Tasks /\ stage[AsyncTask] \notin Done
    BY <1>i, <2>1, AsyncTaskFacts DEF InAsync, AsyncInv, Done
  <2> QED  BY <1>2, <2>1, <2>2 DEF Done
<1>9. CASE AsyncStartFails
  <2>1. /\ pc = "async_start" /\ stage' = [stage EXCEPT ![AsyncTask] = "lost"]
        /\ result' = [result EXCEPT ![cur] = "UNKNOWN_ERROR"]
        /\ UNCHANGED <<mode, userCb>>
    BY <1>9 DEF AsyncStartFails
  <2>2. cur \in Calls /\ mode[cur] = "async" /\ result[cur] = "none"
    BY <1>m, <2>1 DEF InAsync
  <2>3. AsyncTask \in Tasks /\ AsyncTask.call = cur /\ stage[AsyncTask] \notin Done
    BY <1>i, <2>1, AsyncTaskFacts DEF InAsync, AsyncInv, Done
  <2>4. Inferred' = Inferred
    BY <1>i, <2>1, <2>3, InferredMove DEF Done
  <2>5. Inferred[cur] = {}
    BY <1>i, <2>2, <2>3, InferredAsync
  <2> QED  BY <2>1, <2>2, <2>4, <2>5, FailStep
<1>10. CASE AsyncReturn
  <2>1. /\ pc = "async_return" /\ result' = [result EXCEPT ![cur] = "OK"]
        /\ UNCHANGED <<mode, userCb, stage>>
    BY <1>10 DEF AsyncReturn
  <2>2. Inferred' = Inferred
    BY <2>1, InferredFrame
  <2> QED  BY <1>m, <2>1, <2>2, ReturnAsyncStep DEF InAsync
<1>11. ASSUME NEW w \in Workers, WorkerTake(w)
       PROVE  [Api!Next]_(Api!vars)
  <2>1. PICK t \in Tasks :
             /\ stage[t] = "queued" /\ stage' = [stage EXCEPT ![t] = "taken"]
             /\ UNCHANGED clientVars
    BY <1>i, <1>11, TakenTask
  <2> QED  BY <1>2, <2>1 DEF Done
<1>12. ASSUME NEW w \in Workers, RunNullTask(w) \/ RunGet(w) \/ RunStart(w)
       PROVE  [Api!Next]_(Api!vars)
  <2>1. took[w] \in Tasks /\ stage[took[w]] \in {"taken", "acquired"}
    BY <1>i, <1>12, RunningWorker DEF RunNullTask, RunGet, RunStart
  <2>2. /\ \E s \in {"dropped", "acquired", "running"} :
              stage' = [stage EXCEPT ![took[w]] = s]
        /\ UNCHANGED clientVars
    BY <1>12 DEF RunNullTask, RunGet, RunStart
  <2> QED  BY <1>2, <2>1, <2>2 DEF Done
<1>13. ASSUME NEW t \in Tasks, InferDone(t)
       PROVE  [Api!Next]_(Api!vars)
  <2>1. /\ stage[t] = "running" /\ stage' = [stage EXCEPT ![t] = "finished"]
        /\ UNCHANGED <<mode, result, userCb>>
    BY <1>13 DEF InferDone
  <2>2. mode[t.call] # "none"
    BY <1>i, <2>1 DEF SdkInv, ModeInv
  <2>3. mode[t.call] = "async" => t.patch = 1
    BY <1>i, InferredAsync
  <2> QED  BY <1>i, <2>1, <2>2, <2>3, InferredAdd, InferStep
<1>14. ASSUME NEW t \in Tasks,
              InferFails(t) \/ InferCancelled(t) \/ CallbackPutIdle(t) \/ CallbackTask(t)
       PROVE  [Api!Next]_(Api!vars)
  <2>1. /\ \E s : /\ stage' = [stage EXCEPT ![t] = s]
                  /\ s \in Done <=> stage[t] \in Done
        /\ UNCHANGED <<mode, result, userCb>>
    BY <1>14 DEF InferFails, InferCancelled, CallbackPutIdle, CallbackTask, Done
  <2> QED  BY <1>2, <2>1
<1>15. ASSUME NEW t \in Tasks, CallbackUser(t)
       PROVE  [Api!Next]_(Api!vars)
  <2>1. /\ stage[t] = "returned" /\ mode[t.call] = "async"
        /\ stage' = [stage EXCEPT ![t] = "completed"]
        /\ userCb' = [userCb EXCEPT ![t.call] = userCb[t.call] + 1]
        /\ UNCHANGED <<mode, result>>
    BY <1>15 DEF CallbackUser
  <2>2. t.call \in Calls
    BY DEF Tasks
  <2>3. userCb[t.call] = 0
    BY <1>i, <2>1 DEF ReturnInv
  <2>4. Inferred[t.call] = {1}
    BY <1>i, <2>1, InferredAsync DEF Done
  <2>5. Inferred' = Inferred
    BY <1>i, <2>1, InferredMove DEF Done
  <2>6. userCb' = [userCb EXCEPT ![t.call] = 1]
    BY <2>1, <2>3
  <2> QED  BY <2>1, <2>2, <2>3, <2>4, <2>5, <2>6, NotifyAsyncStep
<1>16. ASSUME \/ Grow \/ Notify \/ SyncDone \/ SyncWait \/ ResetCounter \/ RestoreToNull
              \/ DeleteEngine \/ StopExecutor \/ NotifyAllWorkers \/ Joined
              \/ AsyncNullOutput \/ AsyncGetWait \/ UNCHANGED vars
              \/ \E w \in Workers : WorkerWait(w) \/ WorkerLeave(w) \/ RunGetWait(w)
                                    \/ RunStartFails(w)
              \/ \E t \in Tasks : CallbackDeletedEngine(t)
              \/ \E t \in Workers \cup {Client} : SpuriousWakeup(t)
       PROVE  [Api!Next]_(Api!vars)
  BY <1>16, <1>1 DEF Grow, Notify, SyncDone, SyncWait, ResetCounter, RestoreToNull,
     DeleteEngine, StopExecutor, NotifyAllWorkers, Joined, AsyncNullOutput, AsyncGetWait,
     vars, WorkerWait, WorkerLeave, RunGetWait, RunStartFails, CallbackDeletedEngine,
     SpuriousWakeup
<1> QED
  BY <1>3, <1>4, <1>5, <1>6, <1>7, <1>8, <1>9, <1>10, <1>11, <1>12, <1>13, <1>14, <1>15,
     <1>16 DEF Next, InCall, Process, WorkerStep, Inference, Ended

LEMMA ApiInit ==
    ASSUME Init
    PROVE  Api!Init
<1>1. /\ mode = [c \in Calls |-> "none"] /\ result = [c \in Calls |-> "none"]
      /\ userCb = [c \in Calls |-> 0]
      /\ \A t \in Tasks : stage[t] = "none"
  BY DEF Init
<1>2. \A c \in Calls : {p \in Patches : stage[[call |-> c, patch |-> p]] \in Done} = {}
  BY <1>1, TaskOf DEF Done
<1> QED  BY <1>1, <1>2 DEF Api!Init, Done

\* The SDK implements IvsrApi: each patch is inferred once, each callback runs once
\* and after the work, ivsr_process returns OK only after both.
THEOREM Refinement == Spec => ImplementsApi
<1>1. Init => RequestsInv /\ CallInv /\ Api!Init
  BY RequestsInvInit, CallInvInit, ApiInit
<1>2. RequestsInv /\ CallInv /\ [Next]_vars =>
         RequestsInv' /\ CallInv' /\ [Api!Next]_(Api!vars)
  BY RequestsInvStep, CallInvStep, ApiStep
<1> QED  BY <1>1, <1>2, PTL DEF Spec, ImplementsApi, Api!Spec
================================================================================
