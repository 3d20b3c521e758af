---------------------------- MODULE VsrSample_proofs ----------------------------
(***************************************************************************)
(* The sample, for any number of images, workers and requests: when its    *)
(* count of callbacks has reached its count of calls, every output is      *)
(* complete, the pool is whole, and nothing is left that would enter the   *)
(* engine that ivsr_deinit then deletes.                                   *)
(***************************************************************************)
EXTENDS VsrSample, SdkRequests_proofs

InCallPc == InProcess \cup InAsync
Called == {c \in Calls : userCb[c] = 1}
FirstPatch(c) == [call |-> c, patch |-> 1]

\* main is inside of the SDK only in its loop of calls and in ivsr_deinit.
MainInv ==
    /\ id \in Nat
    /\ phase \in {"read", "infer", "wait", "save", "deinit", "end"}
    /\ phase = "read" => cur = 0
    /\ phase \in {"infer", "wait", "save", "deinit"} => id = cur
    /\ phase \in {"wait", "save", "deinit"} => id = Groups
    /\ pc \in InCallPc => phase = "infer"
    /\ pc \in InDeinit \cup {"done"} => phase \in {"deinit", "end"}

\* The sample makes no call that is refused, and counts each callback once.
CountInv ==
    /\ \A c \in Calls : c <= cur => mode[c] # "none"
    /\ \A c \in Calls : userCb[c] \in {0, 1}
    /\ \A c \in Calls : userCb[c] = 1 => stage[FirstPatch(c)] = "completed"
    /\ count = Cardinality(Called)

\* From the end of the wait on, everything has come back.
RestInv ==
    phase \in {"save", "deinit"} \/ pc \in InDeinit \cup {"done"} =>
        /\ \A c \in Calls : c <= cur => userCb[c] = 1
        /\ Len(idleIds) = requests

FoundInv == found \in [Calls -> Nat] /\ CallbackArgumentsLive

SampleInv ==
    /\ RequestsInv /\ CallInv
    /\ MainInv /\ CountInv /\ RestInv /\ FoundInv

LEMMA FirstPatchIsTask ==
    ASSUME NEW c \in Calls
    PROVE  FirstPatch(c) \in Tasks
  BY PatchAssumption, TaskOf DEF FirstPatch, Patches

\* A frame that is not split is its own only patch.
LEMMA OnlyTask ==
    ASSUME NEW t \in Tasks
    PROVE  t.call \in Calls /\ t = FirstPatch(t.call)
  BY PatchAssumption, SampleAssumption DEF Tasks, Patches, FirstPatch

LEMMA CalledFinite ==
    /\ IsFiniteSet(Called) /\ Cardinality(Called) \in Nat
    /\ IsFiniteSet(Called') /\ Cardinality(Called') \in Nat
<1>1. IsFiniteSet(Calls)
  BY MaxCallsAssumption, FS_Interval DEF Calls
<1>2. Called \in SUBSET Calls /\ Called' \in SUBSET Calls
  BY DEF Called
<1>3. IsFiniteSet(Called) /\ IsFiniteSet(Called')
  BY <1>1, <1>2, FS_Subset
<1> QED  BY <1>3, FS_CardinalityType

--------------------------------------------------------------------------------
(* What a step of the SDK does to what the sample sees.                      *)

LEMMA SdkIsNext ==
    ASSUME running, Sdk
    PROVE  Next
  BY DEF Sdk, Next

\* The SDK begins no call.
LEMMA SdkFrame ==
    ASSUME Sdk
    PROVE  /\ UNCHANGED <<cur, mode>>
           /\ \/ pc' = pc
              \/ pc \in InCallPc /\ pc' \in InCallPc \cup {"idle"}
              \/ pc \in InDeinit /\ pc' \in InDeinit \cup {"done"}
<1> USE DEF poolVars, executorVars, clientVars, workerVars, taskVars, processVars,
           InCallPc, InProcess, InAsync, InDeinit
<1>1. CASE Grow \/ GrowFails \/ Enqueue \/ Notify \/ SyncDone \/ SyncWait
           \/ ResetCounter \/ Restore \/ RestoreToNull
  BY <1>1 DEF Grow, GrowFails, Enqueue, Notify, SyncDone, SyncWait, ResetCounter,
     Restore, RestoreToNull
<1>2. CASE AsyncNullOutput \/ AsyncGet \/ AsyncGetWait \/ AsyncStart \/ AsyncStartFails
           \/ AsyncReturn \/ StopExecutor \/ NotifyAllWorkers \/ Joined
  BY <1>2 DEF AsyncNullOutput, AsyncGet, AsyncGetWait, AsyncStart, AsyncStartFails,
     AsyncReturn, StopExecutor, NotifyAllWorkers, Joined
<1>3. CASE \/ \E w \in Workers : WorkerStep(w)
           \/ \E t \in Workers \cup {Client} : SpuriousWakeup(t)
  BY <1>3 DEF WorkerStep, WorkerTake, WorkerWait, WorkerLeave, RunNullTask, RunGet,
     RunGetWait, RunStart, RunStartFails, SpuriousWakeup
<1>4. ASSUME NEW t \in Tasks, Inference(t)
      PROVE  UNCHANGED <<cur, mode, pc>>
  BY <1>4 DEF Inference, InferDone, InferFails, InferCancelled, CallbackPutIdle,
     CallbackTask, CallbackUser, CallbackDeletedEngine
<1> QED  BY <1>1, <1>2, <1>3, <1>4 DEF Sdk, InCall

\* What is completed stays so.
LEMMA CompletedStays ==
    ASSUME RequestsInv, Sdk, NEW u \in Tasks, stage[u] = "completed"
    PROVE  stage'[u] = "completed"
<1> USE DEF poolVars, executorVars, clientVars, workerVars, taskVars, processVars
<1>i. SdkInv /\ AsyncInv
  BY DEF RequestsInv
<1>f. stage \in [Tasks -> Stages]
  BY <1>i, RequestFacts
<1>1. ASSUME UNCHANGED stage
      PROVE  stage'[u] = "completed"
  BY <1>1
<1>2. ASSUME NEW t \in Tasks, NEW s, stage[t] # "completed",
             stage' = [stage EXCEPT ![t] = s]
      PROVE  stage'[u] = "completed"
  BY <1>2, <1>f
<1>3. CASE Enqueue
  <2>1. pc = "enqueue" /\ stage' = [stage EXCEPT ![[call |-> cur, patch |-> nextPatch]] = "queued"]
    BY <1>3 DEF Enqueue
  <2>2. cur \in Calls /\ nextPatch \in Patches
    BY <1>i, <2>1 DEF SdkInv, ModeInv, TaskInv, InProcess
  <2> DEFINE t == [call |-> cur, patch |-> nextPatch]
  <2>3. t \in Tasks /\ stage[t] = "none"
    BY <1>i, <2>1, <2>2, TaskOf DEF SdkInv, TaskInv
  <2> HIDE DEF t
  <2> QED  BY <1>2, <2>1, <2>3 DEF t
<1>4. CASE AsyncGet \/ AsyncStart \/ AsyncStartFails
  <2>1. /\ pc \in {"async_get", "async_start"}
        /\ \E s : stage' = [stage EXCEPT ![AsyncTask] = s]
    BY <1>4 DEF AsyncGet, AsyncStart, AsyncStartFails
  <2>2. AsyncTask \in Tasks /\ stage[AsyncTask] # "completed"
    BY <1>i, <2>1, AsyncTaskFacts DEF InAsync, AsyncInv
  <2> QED  BY <1>2, <2>1, <2>2
<1>5. ASSUME NEW w \in Workers, WorkerTake(w)
      PROVE  stage'[u] = "completed"
  <2>1. PICK t \in Tasks : stage[t] = "queued" /\ stage' = [stage EXCEPT ![t] = "taken"]
    BY <1>i, <1>5, TakenTask
  <2> QED  BY <1>2, <2>1
<1>6. ASSUME NEW w \in Workers, RunNullTask(w) \/ RunGet(w) \/ RunStart(w)
      PROVE  stage'[u] = "completed"
  <2>1. took[w] \in Tasks /\ stage[took[w]] \in {"taken", "acquired"}
    BY <1>i, <1>6, RunningWorker DEF RunNullTask, RunGet, RunStart
  <2>2. \E s : stage' = [stage EXCEPT ![took[w]] = s]
    BY <1>6 DEF RunNullTask, RunGet, RunStart
  <2> QED  BY <1>2, <2>1, <2>2
<1>7. ASSUME NEW t \in Tasks, Inference(t)
      PROVE  stage'[u] = "completed"
  <2>1. \/ stage' = stage
        \/ stage[t] # "completed" /\ \E s : stage' = [stage EXCEPT ![t] = s]
    BY <1>7 DEF Inference, InferDone, InferFails, InferCancelled, CallbackPutIdle,
       CallbackTask, CallbackUser, CallbackDeletedEngine
  <2> QED  BY <1>1, <1>2, <2>1
<1>8. CASE Grow \/ GrowFails \/ Notify \/ SyncDone \/ SyncWait \/ ResetCounter \/ Restore
           \/ RestoreToNull \/ AsyncNullOutput \/ AsyncGetWait \/ AsyncReturn
           \/ StopExecutor \/ NotifyAllWorkers \/ Joined
  BY <1>8, <1>1 DEF Grow, GrowFails, Notify, SyncDone, SyncWait, ResetCounter, Restore,
     RestoreToNull, AsyncNullOutput, AsyncGetWait, AsyncReturn, StopExecutor,
     NotifyAllWorkers, Joined
<1>9. ASSUME \/ \E w \in Workers : WorkerWait(w) \/ WorkerLeave(w) \/ RunGetWait(w)
                                   \/ RunStartFails(w)
             \/ \E t \in Workers \cup {Client} : SpuriousWakeup(t)
      PROVE  stage'[u] = "completed"
  BY <1>9, <1>1 DEF WorkerWait, WorkerLeave, RunGetWait, RunStartFails, SpuriousWakeup
<1> QED
  BY <1>3, <1>4, <1>5, <1>6, <1>7, <1>8, <1>9 DEF Sdk, InCall, WorkerStep

\* A step runs no callback, or the first one of a call whose work is done.
LEMMA CallbackEffect ==
    ASSUME RequestsInv, CallInv, Sdk
    PROVE  \/ userCb' = userCb
           \/ \E c \in Calls :
                /\ userCb[c] = 0 /\ userCb' = [userCb EXCEPT ![c] = 1]
                /\ mode[c] # "none" /\ stage'[FirstPatch(c)] = "completed"
                /\ mode[c] = "sync" => c = cur /\ pc \in InProcess
<1> USE DEF poolVars, executorVars, clientVars, workerVars, taskVars, processVars
<1>i. SdkInv /\ PathInv /\ ReturnInv
  BY DEF RequestsInv
<1>f. stage \in [Tasks -> Stages]
  BY <1>i, RequestFacts
<1>1. CASE Restore
  <2>1. /\ pc = "restore" /\ userCb' = [userCb EXCEPT ![cur] = userCb[cur] + 1]
        /\ stage' = stage
    BY <1>1 DEF Restore
  <2>2. cur \in Calls /\ mode[cur] = "sync" /\ userCb[cur] = 0
    BY <1>i, <2>1 DEF SdkInv, ModeInv, CallInv, InProcess
  <2>3. CompletedPatches = Patches /\ 1 \in Patches
    BY <1>i, <2>1, PatchAssumption DEF SdkInv, TaskInv, Patches
  <2>4. stage[FirstPatch(cur)] = "completed"
    BY <2>3 DEF CompletedPatches, FirstPatch
  <2>5. userCb' = [userCb EXCEPT ![cur] = 1]
    BY <2>1, <2>2
  <2> QED  BY <2>1, <2>2, <2>4, <2>5 DEF InProcess
<1>2. ASSUME NEW t \in Tasks, CallbackUser(t)
      PROVE  \E c \in Calls :
                /\ userCb[c] = 0 /\ userCb' = [userCb EXCEPT ![c] = 1]
                /\ mode[c] = "async" /\ stage'[FirstPatch(c)] = "completed"
  <2>1. /\ stage[t] = "returned" /\ mode[t.call] = "async"
        /\ stage' = [stage EXCEPT ![t] = "completed"]
        /\ userCb' = [userCb EXCEPT ![t.call] = userCb[t.call] + 1]
    BY <1>2 DEF CallbackUser
  <2>2. userCb[t.call] = 0
    BY <1>i, <2>1 DEF ReturnInv
  <2>3. t.call \in Calls /\ t = FirstPatch(t.call)
    BY OnlyTask
  <2>4. stage'[FirstPatch(t.call)] = "completed"
    BY <1>f, <2>1, <2>3
  <2>5. userCb' = [userCb EXCEPT ![t.call] = 1]
    BY <2>1, <2>2
  <2> QED  BY <2>1, <2>2, <2>3, <2>4, <2>5
<1>3. CASE Grow \/ GrowFails \/ Enqueue \/ Notify \/ SyncDone \/ SyncWait \/ ResetCounter
           \/ RestoreToNull \/ AsyncNullOutput \/ AsyncGet \/ AsyncGetWait \/ AsyncStart
           \/ AsyncStartFails \/ AsyncReturn \/ StopExecutor \/ NotifyAllWorkers \/ Joined
  BY <1>3 DEF Grow, GrowFails, Enqueue, Notify, SyncDone, SyncWait, ResetCounter,
     RestoreToNull, AsyncNullOutput, AsyncGet, AsyncGetWait, AsyncStart,
     AsyncStartFails, AsyncReturn, StopExecutor, NotifyAllWorkers, Joined
<1>4. CASE \/ \E w \in Workers : WorkerStep(w)
           \/ \E t \in Workers \cup {Client} : SpuriousWakeup(t)
  BY <1>4 DEF WorkerStep, WorkerTake, WorkerWait, WorkerLeave, RunNullTask, RunGet,
     RunGetWait, RunStart, RunStartFails, SpuriousWakeup
<1>5. ASSUME NEW t \in Tasks, Inference(t), ~CallbackUser(t)
      PROVE  userCb' = userCb
  BY <1>5 DEF Inference, InferDone, InferFails, InferCancelled, CallbackPutIdle,
     CallbackTask, CallbackDeletedEngine
<1> QED  BY <1>1, <1>2, <1>3, <1>4, <1>5 DEF Sdk, InCall, Inference

--------------------------------------------------------------------------------
(* The pool when everything has come back.                                   *)

\* With no request in use, all of them are idle.
LEMMA WholePool ==
    ASSUME SdkInv, OwnInv, engineAlive, \A t \in Tasks : stage[t] \notin InUse
    PROVE  Len(idleIds) = requests
<1>1. requests \in Nat /\ idleIds \in Seq(Nat)
  BY RequestFacts
<1> DEFINE n == Len(idleIds)
           ids == 0 .. requests - 1
<1>2. /\ n \in Nat /\ idleIds \in [1 .. n -> Nat]
  BY <1>1
<1>3. /\ \A i \in 1 .. n : idleIds[i] < requests
      /\ \A i, j \in 1 .. n : idleIds[i] = idleIds[j] => i = j
      /\ \A k \in ids : \E i \in 1 .. n : idleIds[i] = k
  BY DEF OwnInv
<1>4. Cardinality(1 .. n) = n /\ Cardinality(ids) = requests /\ IsFiniteSet(ids)
  <2>1. /\ IsFiniteSet(0 .. requests - 1)
        /\ Cardinality(0 .. requests - 1)
              = IF 0 > requests - 1 THEN 0 ELSE (requests - 1) - 0 + 1
    BY <1>1, FS_Interval
  <2> HIDE DEF n
  <2>2. Cardinality(1 .. n) = IF 1 > n THEN 0 ELSE n - 1 + 1
    BY <1>2, FS_Interval
  <2> QED  BY <1>1, <1>2, <2>1, <2>2
<1>5. \A i \in 1 .. n : idleIds[i] \in ids
  BY <1>1, <1>2, <1>3
<1> HIDE DEF n, ids
<1>6. idleIds \in [1 .. n -> ids]
  BY <1>2, <1>5
<1>7. idleIds \in Injection(1 .. n, ids) /\ idleIds \in Surjection(1 .. n, ids)
  BY <1>3, <1>6 DEF Injection, Surjection, IsInjective
<1>8. Cardinality(1 .. n) = Cardinality(ids)
  BY <1>4, <1>7, FS_Injection
<1> QED  BY <1>4, <1>8 DEF n

\* Every call has been called back, so no task of any call is alive.
LEMMA NothingLeft ==
    ASSUME SdkInv, CountInv, \A c \in Calls : c <= cur => userCb[c] = 1
    PROVE  \A t \in Tasks : stage[t] \in {"none", "completed"}
<1> SUFFICES ASSUME NEW t \in Tasks
             PROVE  stage[t] \in {"none", "completed"}
  OBVIOUS
<1>1. t.call \in Calls /\ t = FirstPatch(t.call)
  BY OnlyTask
<1>2. CASE t.call <= cur
  BY <1>1, <1>2 DEF CountInv
<1>3. CASE ~(t.call <= cur)
  <2>1. t.call > cur
    BY <1>1, <1>3, RequestFacts DEF Calls
  <2> QED  BY <1>1, <2>1 DEF SdkInv, ModeInv
<1> QED  BY <1>2, <1>3

\* As many callbacks as calls: each call had its own.
LEMMA AllCalled ==
    ASSUME RequestsInv, CountInv, count = cur
    PROVE  \A c \in Calls : c <= cur => userCb[c] = 1
<1>1. SdkInv /\ ReturnInv
  BY DEF RequestsInv
<1>2. cur \in 0 .. MaxCalls /\ MaxCalls \in Nat
  BY <1>1, RequestFacts
<1>3. \A c \in Called : c <= cur
  <2> SUFFICES ASSUME NEW c \in Called, ~(c <= cur) PROVE FALSE
    OBVIOUS
  <2>1. c \in Calls /\ userCb[c] = 1 /\ c > cur
    BY <1>2 DEF Called, Calls
  <2>2. mode[c] = "none"
    BY <1>1, <2>1 DEF SdkInv, ModeInv
  <2> QED  BY <1>1, <2>1, <2>2 DEF ReturnInv
<1>4. Called \in SUBSET (1 .. cur)
  BY <1>2, <1>3 DEF Called, Calls
<1>5. IsFiniteSet(1 .. cur) /\ Cardinality(1 .. cur) = cur
  BY <1>2, FS_Interval
<1>6. Called = 1 .. cur
  BY <1>4, <1>5, FS_Subset DEF CountInv
<1>7. \A c \in Calls : c <= cur => c \in 1 .. cur
  BY <1>2 DEF Calls
<1> QED  BY <1>6, <1>7 DEF Called

\* Nothing is handed out any more, and nothing comes back.
LEMMA PoolRests ==
    ASSUME SdkInv, Sdk, pc \notin InCallPc,
           \A t \in Tasks : stage[t] \in {"none", "completed"}
    PROVE  UNCHANGED <<requests, idleIds>>
<1> USE DEF poolVars, executorVars, clientVars, workerVars, taskVars, processVars,
           InCallPc, InProcess, InAsync
<1>1. \A w \in Workers : worker[w] # "run"
  BY RunningWorker
<1>2. CASE InCall
  BY <1>2 DEF InCall, Grow, GrowFails, Enqueue, Notify, SyncDone, SyncWait, ResetCounter,
     Restore, RestoreToNull, AsyncNullOutput, AsyncGet, AsyncGetWait, AsyncStart,
     AsyncStartFails, AsyncReturn, StopExecutor, NotifyAllWorkers, Joined
<1>3. ASSUME NEW w \in Workers, WorkerStep(w)
      PROVE  UNCHANGED <<requests, idleIds>>
  BY <1>1, <1>3 DEF WorkerStep, WorkerTake, WorkerWait, WorkerLeave, RunNullTask, RunGet,
     RunGetWait, RunStart, RunStartFails
<1>4. ASSUME NEW t \in Tasks, Inference(t)
      PROVE  UNCHANGED <<requests, idleIds>>
  BY <1>4 DEF Inference, InferDone, InferFails, InferCancelled, CallbackPutIdle,
     CallbackTask, CallbackUser, CallbackDeletedEngine
<1>5. ASSUME NEW t \in Workers \cup {Client}, SpuriousWakeup(t)
      PROVE  UNCHANGED <<requests, idleIds>>
  BY <1>5 DEF SpuriousWakeup, PoolSpuriousWakeup
<1> QED  BY <1>2, <1>3, <1>4, <1>5 DEF Sdk

--------------------------------------------------------------------------------
(* The steps of the sample.                                                  *)

\* Reads past a buffer end the process and touch nothing else.
LEMMA RunningUnseen ==
    ASSUME RequestsInv, CallInv, running' = FALSE,
           UNCHANGED <<poolVars, executorVars, clientVars, workerVars, taskVars, engineAlive>>
    PROVE  RequestsInv' /\ CallInv'
<1> USE DEF poolVars, executorVars, clientVars, workerVars, taskVars
<1>1. TypeOK'
  BY DEF RequestsInv, SdkInv, TypeOK
<1>2. ModeInv' /\ QueueInv' /\ WorkerInv'
  BY DEF RequestsInv, SdkInv, ModeInv, QueueInv, WorkerInv
<1>3. CompletedPatches' = CompletedPatches
  BY DEF CompletedPatches
<1>4. TaskInv' /\ CounterCountsThisCall'
  BY <1>3 DEF RequestsInv, SdkInv, TaskInv, NoTaskOutlivesItsCall, CounterCountsThisCall
<1>5. PathInv' /\ AsyncInv' /\ SleepInv'
  BY DEF RequestsInv, PathInv, AsyncInv, AsyncTask, SleepInv, NullTask
<1>6. OwnInv' /\ DeinitInv' /\ ReturnInv'
  BY DEF RequestsInv, OwnInv, DeinitInv, ReturnInv
<1>7. SplitInv' /\ NoLostNotification' /\ NoSleepBesideIdle' /\ CallInv'
  BY DEF RequestsInv, SplitInv, NoLostNotification, NoSleepBesideIdle, CallInv
<1> QED  BY <1>1, <1>2, <1>4, <1>5, <1>6, <1>7 DEF RequestsInv, SdkInv

LEMMA GroupsFixed ==
    ASSUME args' = args
    PROVE  Groups' = Groups
  BY DEF Groups

\* main itself, outside of the SDK.
LEMMA MainStep ==
    ASSUME SampleInv, UNCHANGED <<poolVars, executorVars, clientVars, workerVars, taskVars, engineAlive>>,
           running' = running \/ running' = FALSE,
           UNCHANGED <<args, count, found>>, MainInv', RestInv'
    PROVE  SampleInv'
<1> USE DEF poolVars, executorVars, clientVars, workerVars, taskVars
<1>1. RequestsInv' /\ CallInv'
  <2>1. CASE running' = running
    BY <2>1, RequestsInvStep, CallInvStep DEF SampleInv, vars
  <2>2. CASE running' = FALSE
    BY <2>2, RunningUnseen DEF SampleInv
  <2> QED  BY <2>1, <2>2
<1>2. Called' = Called
  BY DEF Called
<1>3. CountInv'
  BY <1>2 DEF SampleInv, CountInv, FirstPatch
<1>4. FoundInv'
  BY DEF SampleInv, FoundInv, CallbackArgumentsLive
<1> QED  BY <1>1, <1>3, <1>4 DEF SampleInv

\* The next iteration of the loop of the inference.
LEMMA CallProcessStep ==
    ASSUME SampleInv, running, CallProcess
    PROVE  SampleInv'
<1> USE DEF poolVars, executorVars, clientVars, workerVars, taskVars, processVars
<1>i. SdkInv /\ ReturnInv
  BY DEF SampleInv, RequestsInv
<1>1. /\ phase = "infer" /\ id' = id + 1
      /\ ProcessBegin(ProcessFn, "valid") \/ AsyncBegin(ProcessFn, "valid")
      /\ UNCHANGED <<args, phase, count, found>>
  BY DEF CallProcess
<1>2. Next
  <2>1. ProcessFn \in Apis /\ "valid" \in Buffers
    BY SampleAssumption DEF ProcessFn
  <2> QED  BY <1>1, <2>1 DEF Next, Process
<1>3. RequestsInv' /\ CallInv'
  BY <1>2, RequestsInvStep, CallInvStep DEF SampleInv
<1>4. /\ pc = "idle" /\ cur < MaxCalls /\ cur' = cur + 1
      /\ pc' \in {"grow", "enqueue", "async_get"}
      /\ \E m \in {"sync", "async"} : mode' = [mode EXCEPT ![cur + 1] = m]
      /\ UNCHANGED <<userCb, stage>>
  BY <1>1 DEF ProcessBegin, AsyncBegin
<1>5. /\ cur \in Nat /\ cur + 1 \in Calls
      /\ \A c \in Calls : c <= cur + 1 => c <= cur \/ c = cur + 1
      /\ mode \in [Calls -> {"none", "sync", "async"}]
      /\ userCb[cur + 1] = 0
  <2>1. cur + 1 \in Calls /\ mode[cur + 1] = "none"
    BY <1>i, <1>4, NextCall DEF SampleInv
  <2>2. cur \in Nat /\ mode \in [Calls -> {"none", "sync", "async"}]
    BY <1>i, RequestFacts
  <2>3. \A c \in Calls : c <= cur + 1 => c <= cur \/ c = cur + 1
    BY <2>2 DEF Calls
  <2> QED  BY <1>i, <2>1, <2>2, <2>3 DEF ReturnInv
<1>6. MainInv'
  BY <1>1, <1>4, <1>5 DEF SampleInv, MainInv, InCallPc, InProcess, InAsync, InDeinit
<1>7. CountInv'
  <2>1. Called' = Called
    BY <1>4 DEF Called
  <2>2. \A c \in Calls : c <= cur' => mode'[c] # "none"
    BY <1>4, <1>5 DEF SampleInv, CountInv
  <2> QED  BY <1>1, <1>4, <2>1, <2>2 DEF SampleInv, CountInv, FirstPatch
<1>8. RestInv'
  BY <1>1, <1>4 DEF RestInv, InDeinit
<1>9. FoundInv'
  BY <1>1, <1>4, <1>5 DEF SampleInv, FoundInv, CallbackArgumentsLive
<1> QED  BY <1>3, <1>6, <1>7, <1>8, <1>9 DEF SampleInv

\* The outputs are saved, and ivsr_deinit begins.
LEMMA SaveAndDeinitStep ==
    ASSUME SampleInv, running, SaveAndDeinit
    PROVE  SampleInv'
<1> USE DEF poolVars, executorVars, clientVars, workerVars, taskVars, processVars
<1>1. /\ phase = "save" /\ phase' = "deinit" /\ DeleteEngine
      /\ UNCHANGED <<args, id, count, found>>
  BY DEF SaveAndDeinit
<1>2. RequestsInv' /\ CallInv'
  BY <1>1, RequestsInvStep, CallInvStep DEF SampleInv, Next
<1>3. pc' = "stop" /\ UNCHANGED <<requests, idleIds, cur, mode, userCb, stage>>
  BY <1>1 DEF DeleteEngine
<1>4. MainInv'
  BY <1>1, <1>3, GroupsFixed DEF SampleInv, MainInv, InCallPc, InProcess, InAsync
<1>5. Called' = Called
  BY <1>3 DEF Called
<1>6. CountInv' /\ RestInv'
  BY <1>1, <1>3, <1>5 DEF SampleInv, CountInv, RestInv, FirstPatch
<1>7. FoundInv'
  BY <1>1, <1>3 DEF SampleInv, FoundInv, CallbackArgumentsLive
<1> QED  BY <1>2, <1>4, <1>6, <1>7 DEF SampleInv

\* The other steps of main leave the SDK alone.
LEMMA OutsideSdkStep ==
    ASSUME SampleInv,
           \/ NotEnoughFrames \/ ReadGroup \/ ReadOverruns \/ LoopEnds \/ WaitMore
           \/ WaitEnds \/ MainEnds \/ SampleEnded
    PROVE  SampleInv'
<1> USE DEF poolVars, executorVars, clientVars, workerVars, taskVars, processVars,
           sdkVars, vars, allVars, sampleVars
<1>m. MainInv /\ RestInv /\ RequestsInv /\ CountInv
  BY DEF SampleInv
<1>1. ASSUME NEW ph, phase' = ph, UNCHANGED <<args, count, found>>, UNCHANGED vars,
             MainInv', RestInv'
      PROVE  SampleInv'
  BY <1>1, MainStep
<1>2. CASE WaitMore \/ SampleEnded
  <2>1. UNCHANGED <<args, phase, id, count, found>> /\ UNCHANGED vars
    BY <1>2 DEF WaitMore, SampleEnded
  <2>2. MainInv' /\ RestInv'
    BY <1>m, <2>1, GroupsFixed DEF MainInv, RestInv
  <2> QED  BY <1>1, <2>1, <2>2
<1>3. CASE ReadOverruns
  <2>1. /\ UNCHANGED <<args, phase, id, count, found>> /\ running' = FALSE
        /\ UNCHANGED <<poolVars, executorVars, clientVars, workerVars, taskVars, engineAlive>>
    BY <1>3 DEF ReadOverruns
  <2>2. MainInv' /\ RestInv'
    BY <1>m, <2>1, GroupsFixed DEF MainInv, RestInv
  <2> QED  BY <2>1, <2>2, MainStep
<1>4. CASE NotEnoughFrames \/ ReadGroup
  <2>1. /\ phase = "read" /\ UNCHANGED <<args, count, found>> /\ UNCHANGED vars
        /\ phase' \in {"read", "infer", "end"} /\ id' \in {id, id + 1, 0}
        /\ phase' = "infer" => id' = 0
    BY <1>4 DEF NotEnoughFrames, ReadGroup
  <2>2. pc \notin InCallPc \cup InDeinit \cup {"done"}
    BY <1>m, <2>1 DEF MainInv
  <2>3. MainInv' /\ RestInv'
    BY <1>m, <2>1, <2>2 DEF MainInv, RestInv
  <2> QED  BY <1>1, <2>1, <2>3
<1>5. CASE LoopEnds
  <2>1. /\ phase = "infer" /\ pc = "idle" /\ id = Groups /\ phase' = "wait"
        /\ UNCHANGED <<args, id, count, found>> /\ UNCHANGED vars
    BY <1>5 DEF LoopEnds
  <2>2. MainInv' /\ RestInv'
    BY <1>m, <2>1, GroupsFixed DEF MainInv, RestInv, InCallPc, InProcess, InAsync, InDeinit
  <2> QED  BY <1>1, <2>1, <2>2
<1>6. CASE WaitEnds
  <2>1. /\ phase = "wait" /\ count = id /\ phase' = "save"
        /\ UNCHANGED <<args, id, count, found>> /\ UNCHANGED vars
    BY <1>6 DEF WaitEnds
  <2>2. count = cur /\ pc \notin InCallPc \cup InDeinit \cup {"done"}
    BY <1>m, <2>1 DEF MainInv
  <2>3. \A c \in Calls : c <= cur => userCb[c] = 1
    BY <1>m, <2>2, AllCalled
  <2>4. SdkInv /\ OwnInv /\ engineAlive
    BY <1>m, <2>2 DEF RequestsInv, DeinitInv
  <2>5. \A t \in Tasks : stage[t] \notin InUse
    BY <1>m, <2>3, <2>4, NothingLeft DEF InUse
  <2>6. Len(idleIds) = requests
    BY <2>4, <2>5, WholePool
  <2>7. MainInv' /\ RestInv'
    BY <1>m, <2>1, <2>2, <2>3, <2>6, GroupsFixed DEF MainInv, RestInv
  <2> QED  BY <1>1, <2>1, <2>7
<1>7. CASE MainEnds
  <2>1. /\ phase = "deinit" /\ pc = "done" /\ phase' = "end"
        /\ UNCHANGED <<args, id, count, found>> /\ UNCHANGED vars
    BY <1>7 DEF MainEnds
  <2>2. MainInv' /\ RestInv'
    BY <1>m, <2>1 DEF MainInv, RestInv, InCallPc, InProcess, InAsync
  <2> QED  BY <1>1, <2>1, <2>2
<1> QED  BY <1>2, <1>3, <1>4, <1>5, <1>6, <1>7

\* A step of the SDK, with completion_callback if it calls the application.
LEMMA SdkStepOfSample ==
    ASSUME SampleInv, running, Sdk, CompletionCallback
    PROVE  SampleInv'
<1>i. /\ RequestsInv /\ CallInv /\ MainInv /\ CountInv /\ RestInv /\ FoundInv
      /\ SdkInv /\ ReturnInv
  BY DEF SampleInv, RequestsInv
<1>f. /\ userCb \in [Calls -> Nat] /\ cur \in Nat /\ id \in Nat
      /\ mode \in [Calls -> {"none", "sync", "async"}]
      /\ \A c \in Calls : mode[c] # "none" => c <= cur
  <2>1. /\ userCb \in [Calls -> Nat] /\ cur \in Nat
        /\ mode \in [Calls -> {"none", "sync", "async"}]
    BY <1>i, RequestFacts
  <2>2. \A c \in Calls : c > cur => mode[c] = "none"
    BY <1>i DEF SdkInv, ModeInv
  <2>3. \A c \in Calls : c <= cur \/ c > cur
    BY <2>1 DEF Calls
  <2> QED  BY <1>i, <2>1, <2>2, <2>3 DEF MainInv
<1>1. RequestsInv' /\ CallInv'
  BY <1>i, SdkIsNext, RequestsInvStep, CallInvStep
<1>2. /\ UNCHANGED <<cur, mode>>
      /\ \/ pc' = pc
         \/ pc \in InCallPc /\ pc' \in InCallPc \cup {"idle"}
         \/ pc \in InDeinit /\ pc' \in InDeinit \cup {"done"}
  BY SdkFrame
<1>3. /\ UNCHANGED <<args, phase, id>>
      /\ count' = IF userCb' = userCb THEN count ELSE count + 1
      /\ found' = [c \in Calls |-> IF userCb'[c] = userCb[c] THEN found[c]
                                   ELSE IF phase = "infer" THEN id ELSE 0]
  BY DEF CompletionCallback
<1>4. \/ userCb' = userCb
      \/ \E c \in Calls :
           /\ userCb[c] = 0 /\ userCb' = [userCb EXCEPT ![c] = 1]
           /\ mode[c] # "none" /\ stage'[FirstPatch(c)] = "completed"
           /\ mode[c] = "sync" => c = cur /\ pc \in InProcess
  BY <1>i, CallbackEffect
<1>5. \A c \in Calls : stage[FirstPatch(c)] = "completed" =>
                         stage'[FirstPatch(c)] = "completed"
  BY <1>i, FirstPatchIsTask, CompletedStays
<1>p. /\ pc' \in InCallPc => pc \in InCallPc
      /\ pc' \in InDeinit \cup {"done"} => pc \in InDeinit \cup {"done"}
  BY <1>2 DEF InCallPc, InProcess, InAsync, InDeinit
<1>6. MainInv'
  BY <1>i, <1>2, <1>3, <1>p, GroupsFixed DEF MainInv
<1>7. CountInv'
  <2>1. \A c \in Calls : c <= cur' => mode'[c] # "none"
    BY <1>i, <1>2 DEF CountInv
  <2>2. CASE userCb' = userCb
    <3>1. Called' = Called /\ count' = count
      BY <1>3, <2>2 DEF Called
    <3> QED  BY <1>i, <1>5, <2>1, <2>2, <3>1 DEF CountInv, FirstPatch
  <2>3. ASSUME NEW c \in Calls, userCb[c] = 0, userCb' = [userCb EXCEPT ![c] = 1],
               stage'[FirstPatch(c)] = "completed"
        PROVE  CountInv'
    <3>1. userCb'[c] = 1 /\ \A d \in Calls : d # c => userCb'[d] = userCb[d]
      BY <1>f, <2>3
    <3>2. Called' = Called \cup {c} /\ c \notin Called
      BY <2>3, <3>1 DEF Called
    <3>3. Cardinality(Called') = Cardinality(Called) + 1
      BY <3>2, CalledFinite, FS_AddElement
    <3>4. count' = count + 1
      BY <1>3, <2>3, <3>1
    <3>5. \A d \in Calls : userCb'[d] \in {0, 1}
      BY <1>i, <3>1 DEF CountInv
    <3>6. \A d \in Calls : userCb'[d] = 1 => stage'[FirstPatch(d)] = "completed"
      BY <1>i, <1>5, <2>3, <3>1 DEF CountInv
    <3> QED  BY <1>i, <2>1, <3>3, <3>4, <3>5, <3>6 DEF CountInv, FirstPatch
  <2> QED  BY <1>4, <2>2, <2>3
<1>8. RestInv'
  <2> SUFFICES ASSUME phase \in {"save", "deinit"} \/ pc \in InDeinit \cup {"done"}
               PROVE  /\ \A c \in Calls : c <= cur => userCb'[c] = 1
                      /\ Len(idleIds') = requests'
    BY <1>2, <1>3, <1>p DEF RestInv
  <2>1. /\ \A c \in Calls : c <= cur => userCb[c] = 1
        /\ Len(idleIds) = requests
    BY <1>i DEF RestInv
  <2>2. pc \notin InCallPc
    BY <1>i DEF MainInv, InCallPc, InProcess, InAsync, InDeinit
  <2>3. \A t \in Tasks : stage[t] \in {"none", "completed"}
    BY <1>i, <2>1, NothingLeft
  <2>4. UNCHANGED <<requests, idleIds>>
    BY <1>i, <2>2, <2>3, PoolRests
  <2>5. userCb' = userCb
    BY <1>4, <1>f, <2>1
  <2> QED  BY <2>1, <2>4, <2>5
<1>9. FoundInv'
  <2>1. found' \in [Calls -> Nat]
    BY <1>i, <1>f, <1>3 DEF FoundInv
  <2> SUFFICES ASSUME NEW c \in Calls, userCb'[c] > 0
               PROVE  /\ mode[c] = "sync" => found'[c] = c
                      /\ found'[c] = 0 \/ found'[c] >= c
    BY <1>2, <2>1 DEF FoundInv, CallbackArgumentsLive
  <2>2. CASE userCb'[c] = userCb[c]
    BY <1>i, <1>3, <2>2 DEF FoundInv, CallbackArgumentsLive
  <2>3. CASE userCb'[c] # userCb[c]
    <3>1. /\ mode[c] # "none"
          /\ mode[c] = "sync" => c = cur /\ pc \in InProcess
      BY <1>4, <1>f, <2>3
    <3>2. found'[c] = IF phase = "infer" THEN id ELSE 0
      BY <1>3, <2>3
    <3>3. pc \in InProcess => phase = "infer"
      BY <1>i DEF MainInv, InCallPc
    <3>4. phase = "infer" => id = cur
      BY <1>i DEF MainInv
    <3> QED  BY <1>f, <3>1, <3>2, <3>3, <3>4
  <2> QED  BY <2>2, <2>3
<1> QED  BY <1>1, <1>6, <1>7, <1>8, <1>9 DEF SampleInv

LEMMA SampleInvInit ==
    ASSUME SampleInit
    PROVE  SampleInv
<1>1. RequestsInv /\ CallInv
  BY RequestsInvInit, CallInvInit DEF SampleInit
<1>2. /\ phase = "read" /\ id = 0 /\ count = 0 /\ found = [c \in Calls |-> 0]
      /\ pc = "idle" /\ cur = 0 /\ \A c \in Calls : userCb[c] = 0
      /\ \A c \in Calls : ~(c <= 0)
  BY DEF SampleInit, Init, Calls
<1>3. MainInv /\ RestInv
  BY <1>2 DEF MainInv, RestInv, InCallPc, InProcess, InAsync, InDeinit
<1>4. CountInv
  <2>1. Called = {}
    BY <1>2 DEF Called
  <2> QED  BY <1>2, <2>1, FS_EmptySet DEF CountInv
<1>5. FoundInv
  BY <1>2 DEF FoundInv, CallbackArgumentsLive
<1> QED  BY <1>1, <1>3, <1>4, <1>5 DEF SampleInv

LEMMA SampleInvStep ==
    ASSUME SampleInv, [SampleNext]_allVars
    PROVE  SampleInv'
<1>1. CASE UNCHANGED allVars
  <2>1. UNCHANGED <<args, phase, id, count, found>> /\ UNCHANGED vars
    BY <1>1 DEF allVars, sampleVars
  <2>2. MainInv' /\ RestInv'
    BY <2>1, GroupsFixed DEF SampleInv, MainInv, RestInv, vars, poolVars, executorVars,
       clientVars, workerVars, taskVars, processVars
  <2> QED
    BY <2>1, <2>2, MainStep DEF vars, poolVars, executorVars, clientVars, workerVars,
       taskVars, processVars
<1>2. CASE running /\ Main
  BY <1>2, CallProcessStep, SaveAndDeinitStep, OutsideSdkStep DEF Main
<1>3. CASE running /\ Sdk /\ CompletionCallback
  BY <1>3, SdkStepOfSample
<1>4. CASE SampleEnded
  BY <1>4, OutsideSdkStep
<1> QED  BY <1>1, <1>2, <1>3, <1>4 DEF SampleNext

--------------------------------------------------------------------------------
(* The theorems.                                                             *)

\* The sample keeps the invariants of the SDK although its steps are interleaved
\* with those of the SDK, and relates its own counters to them (main).
THEOREM SampleInvariance == SampleSpec => []SampleInv
<1>1. SampleInit => SampleInv
  BY SampleInvInit
<1>2. SampleInv /\ [SampleNext]_allVars => SampleInv'
  BY SampleInvStep
<1> QED  BY <1>1, <1>2, PTL DEF SampleSpec

\* The outputs are saved, and the engine deleted, only when every group of images is
\* done and every request is back: the wait of main on count # id is enough.
THEOREM OutputsDone == SampleSpec => []OutputsDoneAtSave
<1>1. SampleInv => OutputsDoneAtSave
  <2> SUFFICES ASSUME SampleInv, phase \in {"save", "deinit"}
               PROVE  /\ id = Groups
                      /\ \A c \in 1 .. id : stage[[call |-> c, patch |-> 1]] = "completed"
                      /\ Len(idleIds) = requests
    BY DEF OutputsDoneAtSave
  <2>1. MainInv /\ CountInv /\ RestInv /\ SdkInv
    BY DEF SampleInv, RequestsInv
  <2>2. id = Groups /\ id = cur
    BY <2>1 DEF MainInv
  <2>3. \A c \in 1 .. cur : c \in Calls /\ c <= cur
    BY <2>1, RequestFacts DEF Calls
  <2>4. \A c \in 1 .. cur : stage[FirstPatch(c)] = "completed"
    BY <2>1, <2>3 DEF RestInv, CountInv
  <2> QED  BY <2>1, <2>2, <2>4 DEF RestInv, FirstPatch
<1> QED  BY SampleInvariance, <1>1, PTL

\* A synchronous callback reads the cb_args of its own iteration; an asynchronous one
\* never those of an earlier iteration (the locals cb and cb_args of main's loop).
THEOREM ArgumentsLive == SampleSpec => []CallbackArgumentsLive
<1>1. SampleInv => CallbackArgumentsLive
  BY DEF SampleInv, FoundInv
<1> QED  BY SampleInvariance, <1>1, PTL

\* The engine that ivsr_deinit deletes is entered by no thread any more.  The SDK
\* alone promises this to an application that waits for its callbacks: main does.
THEOREM SampleDeinitQuiescent ==
    SampleSpec => [](~engineAlive => CallbacksDone /\ taskQueue = <<>>
                       /\ \A w \in Workers : worker[w] # "run")
<1>1. SampleInv => (~engineAlive => CallbacksDone /\ taskQueue = <<>>
                       /\ \A w \in Workers : worker[w] # "run")
  <2> SUFFICES ASSUME SampleInv, ~engineAlive
               PROVE  CallbacksDone /\ taskQueue = <<>> /\ \A w \in Workers : worker[w] # "run"
    OBVIOUS
  <2>1. RequestsInv /\ CountInv /\ RestInv /\ SdkInv /\ ReturnInv
    BY DEF SampleInv, RequestsInv
  <2>2. pc \in InDeinit \cup {"done"}
    BY <2>1 DEF RequestsInv, DeinitInv
  <2>3. \A c \in Calls : c <= cur => userCb[c] = 1
    BY <2>1, <2>2 DEF RestInv
  <2>4. \A t \in Tasks : stage[t] \in {"none", "completed"}
    BY <2>1, <2>3, NothingLeft
  <2>5. \A c \in Calls : mode[c] # "none" => c <= cur
    <3>1. \A c \in Calls : c > cur => mode[c] = "none"
      BY <2>1 DEF SdkInv, ModeInv
    <3>2. \A c \in Calls : c <= cur \/ c > cur
      BY <2>1, RequestFacts DEF Calls
    <3> QED  BY <3>1, <3>2
  <2>6. CallbacksDone
    BY <2>3, <2>5 DEF CallbacksDone
  <2>7. \A w \in Workers : worker[w] # "run"
    BY <2>1, <2>4, RunningWorker
  <2>8. ASSUME taskQueue # <<>>
        PROVE  FALSE
    <3>1. taskQueue \in Seq(Tasks) /\ QueueInv
      BY <2>1 DEF SdkInv, TypeOK
    <3>2. taskQueue[1] \in Tasks /\ 1 \in 1 .. Len(taskQueue)
      BY <2>8, <3>1, TailFacts
    <3> QED  BY <2>4, <3>1, <3>2 DEF QueueInv
  <2> QED  BY <2>6, <2>7, <2>8
<1> QED  BY SampleInvariance, <1>1, PTL

\* A step of the sample is one the promise of the SDK's interface allows: it is a step
\* of the SDK, or leaves alone what the promise speaks of.
LEMMA SampleApiStep ==
    ASSUME SampleInv, [SampleNext]_allVars
    PROVE  [Api!Next]_(Api!vars)
<1> USE DEF poolVars, executorVars, clientVars, workerVars, taskVars, processVars
<1>1. ASSUME UNCHANGED <<clientVars, taskVars>>
      PROVE  [Api!Next]_(Api!vars)
  <2>1. UNCHANGED <<mode, result, userCb>> /\ Inferred' = Inferred
    BY <1>1 DEF Inferred
  <2> QED  BY <2>1, StutterStep
<1>2. ASSUME Next
      PROVE  [Api!Next]_(Api!vars)
  BY <1>2, ApiStep DEF SampleInv
<1>3. CASE running /\ Sdk /\ CompletionCallback
  BY <1>2, <1>3, SdkIsNext
<1>4. CASE running /\ CallProcess
  <2>1. ProcessFn \in Apis /\ "valid" \in Buffers
    BY SampleAssumption DEF ProcessFn
  <2> QED  BY <1>2, <1>4, <2>1 DEF CallProcess, Next, Process
<1>5. CASE running /\ SaveAndDeinit
  BY <1>2, <1>5 DEF SaveAndDeinit, Next
<1>6. CASE \/ NotEnoughFrames \/ ReadGroup \/ ReadOverruns \/ LoopEnds \/ WaitMore
           \/ WaitEnds \/ MainEnds \/ SampleEnded \/ UNCHANGED allVars
  <2>1. UNCHANGED <<clientVars, taskVars>>
    BY <1>6 DEF NotEnoughFrames, ReadGroup, ReadOverruns, LoopEnds, WaitMore, WaitEnds,
       MainEnds, SampleEnded, sdkVars, allVars, vars
  <2> QED  BY <1>1, <2>1
<1> QED  BY <1>3, <1>4, <1>5, <1>6 DEF SampleNext, Main

\* What the SDK promises of its two functions holds in the sample as well, although main
\* adds steps of its own and a read past its buffers may end the process at any time.
THEOREM SampleSeesTheApi == SampleSpec => ImplementsApi
<1>1. SampleInit => SampleInv /\ Api!Init
  BY SampleInvInit, ApiInit DEF SampleInit
<1>2. SampleInv /\ [SampleNext]_allVars => SampleInv' /\ [Api!Next]_(Api!vars)
  BY SampleInvStep, SampleApiStep
<1> QED  BY <1>1, <1>2, PTL DEF SampleSpec, ImplementsApi, Api!Spec
================================================================================
