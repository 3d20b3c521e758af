-------------------------------- MODULE IvsrSdk --------------------------------
(***************************************************************************)
(* The run time of the iVSR SDK on one handle, from the moment ivsr_init   *)
(* has returned it until ivsr_deinit has deleted it.  Three kinds of       *)
(* actors share the request pool and the executor:                         *)
(*                                                                         *)
(*   - the application thread, inside ivsr_process, ivsr_process_async or  *)
(*     ivsr_deinit (ivsr.cpp);                                             *)
(*   - the worker threads of IVSRThreadExecutor, inside ov_engine::run_impl *)
(*     for the task they took;                                             *)
(*   - OpenVINO, which infers the started requests and calls the lambda    *)
(*     given to set_callback.                                              *)
(*                                                                         *)
(* A task is one patch of one call.  A call that is not split has a single *)
(* patch, and so has an asynchronous call, which OpenVINO is given without *)
(* passing through the executor.                                           *)
(***************************************************************************)
EXTENDS RequestPool, TaskExecutor, FiniteSets

CONSTANTS
    Client,            \* the application thread
    Workers,           \* the worker threads (ivsr_init creates 8)
    MaxCalls,          \* bound: the calls the application makes
    PatchSolution,     \* the frame exceeds the model input in H or in W
    NPatches,          \* patches generatePatch makes of a frame
    InferReqNum,       \* INFER_REQ_NUMBER given to ivsr_init
    Apis,              \* the functions the application calls
    Buffers,           \* the buffers it passes
    Failures,          \* what OpenVINO may fail to do
    WaitsForCallbacks  \* the application awaits its callbacks before deinit

ASSUME ClientAssumption == Client \notin Workers
ASSUME WorkersAssumption == IsFiniteSet(Workers) /\ Workers # {}
ASSUME MaxCallsAssumption == MaxCalls \in Nat
ASSUME PatchAssumption ==
    /\ PatchSolution \in BOOLEAN
    /\ NPatches \in Nat \ {0}
    /\ ~PatchSolution => NPatches = 1
ASSUME InferReqNumAssumption == InferReqNum \in Nat \ {0}
ASSUME EnvironmentAssumption ==
    /\ Apis \subseteq {"ivsr_process", "ivsr_process_async"}
    /\ Buffers \subseteq {"valid", "null_input", "null_output"}
    /\ Failures \subseteq {"create", "start", "infer"}
    /\ WaitsForCallbacks \in BOOLEAN

Calls == 1 .. MaxCalls
Patches == 1 .. NPatches
Tasks == [call : Calls, patch : Patches]
NoTask == [call |-> 0, patch |-> 0]

VARIABLES
    pc,           \* where the application thread is
    cur,          \* the calls begun so far, the last of them the current one
    nextPatch,    \* idx of the loop that enqueues the patches
    output,       \* the buffer arguments of the current call
    mode,         \* per call: the path it took, through the executor or not
    result,       \* per call: the IVSRStatus it returned
    userCb,       \* per call: how often the application's callback ran
    worker,       \* per worker: where it is
    took,         \* per worker: the task it runs
    stage,        \* per task: how far it got
    held,         \* per task: the id of the request it uses
    engineAlive,  \* the ov_engine is not deleted
    running       \* the process is alive: no std::terminate, no bad access

clientVars == <<pc, cur, nextPatch, output, mode, result, userCb>>
workerVars == <<worker, took>>
taskVars == <<stage, held>>
processVars == <<engineAlive, running>>
vars == <<requests, idleIds, cvWaiters, taskQueue, cbCounter, isStopped,
          queueWaiters, syncWaiters, pc, cur, nextPatch, output, mode, result,
          userCb, worker, took, stage, held, engineAlive, running>>

\* The stages of a task.  In the first group nothing runs on its behalf yet, in
\* the second it owns a request, in the third it is over.  "lost" is a request
\* whose inference failed or was never started: nothing returns it to the pool.
Pending == {"none", "queued", "taken"}
InUse == {"acquired", "running", "finished", "lost"}
Over == {"returned", "completed", "dropped", "cancelled"}
Stages == Pending \cup InUse \cup Over

InProcess == {"grow", "enqueue", "notify", "sync", "reset", "restore"}
InAsync == {"async_get", "async_start", "async_return"}
InDeinit == {"stop", "notify_all", "join"}
Control == {"idle", "done"} \cup InProcess \cup InAsync \cup InDeinit

\* ivsr_init: engine, requests and workers exist, the handle is returned.
Init ==
    /\ PoolInit(InferReqNum)
    /\ ExecutorInit
    /\ pc = "idle"
    /\ cur = 0
    /\ nextPatch = 1
    /\ output = "valid"
    /\ mode = [c \in Calls |-> "none"]
    /\ result = [c \in Calls |-> "none"]
    /\ userCb = [c \in Calls |-> 0]
    /\ worker = [w \in Workers |-> "loop"]
    /\ took = [w \in Workers |-> NoTask]
    /\ stage = [t \in Tasks |-> "none"]
    /\ held = [t \in Tasks |-> 0]
    /\ engineAlive = TRUE
    /\ running = TRUE

--------------------------------------------------------------------------------
(* The application thread in ivsr_process.                                   *)

\* Mutant of ThroughExecutor: no fallback for a frame that is split.
ThroughExecutorByName(api) == api = "ivsr_process"

\* ivsr_process_async falls back to ivsr_process when the frame is split.
ThroughExecutor(api) == api = "ivsr_process" \/ PatchSolution

\* Either function, given a null input: an early return with an error.
CallRejected ==
    /\ pc = "idle"
    /\ cur < MaxCalls
    /\ "null_input" \in Buffers
    /\ cur' = cur + 1
    /\ result' = [result EXCEPT ![cur + 1] = "GENERAL_ERROR"]
    /\ UNCHANGED <<poolVars, executorVars, pc, nextPatch, output, mode, userCb,
                   workerVars, taskVars, processVars>>

\* ivsr_process up to the decision to create more inference requests.
ProcessBegin(api, buffer) ==
    /\ pc = "idle"
    /\ cur < MaxCalls
    /\ ThroughExecutor(api)
    /\ buffer # "null_input"
    /\ cur' = cur + 1
    /\ mode' = [mode EXCEPT ![cur + 1] = "sync"]
    /\ output' = buffer
    /\ nextPatch' = 1
    /\ pc' = IF NPatches > requests THEN "grow" ELSE "enqueue"
    /\ UNCHANGED <<poolVars, executorVars, result, userCb, workerVars,
                   taskVars, processVars>>

\* create_infer_requests, one request at a time.
Grow ==
    /\ pc = "grow"
    /\ CreateInferRequest
    /\ pc' = IF requests + 1 = NPatches THEN "enqueue" ELSE "grow"
    /\ UNCHANGED <<executorVars, cur, nextPatch, output, mode, result, userCb,
                   workerVars, taskVars, processVars>>

\* OpenVINO throws while it creates a request; what was created stays, and
\* ivsr_process turns the exception into UNKNOWN_ERROR.
GrowFails ==
    /\ pc = "grow"
    /\ "create" \in Failures
    /\ pc' = "idle"
    /\ result' = [result EXCEPT ![cur] = "UNKNOWN_ERROR"]
    /\ UNCHANGED <<poolVars, executorVars, cur, nextPatch, output, mode, userCb,
                   workerVars, taskVars, processVars>>

\* The loop over the patches: CreateTask and the first half of Enqueue ...
Enqueue ==
    /\ pc = "enqueue"
    /\ EnqueuePush([call |-> cur, patch |-> nextPatch])
    /\ stage' = [stage EXCEPT ![[call |-> cur, patch |-> nextPatch]] = "queued"]
    /\ pc' = "notify"
    /\ UNCHANGED <<poolVars, cur, nextPatch, output, mode, result, userCb,
                   workerVars, held, processVars>>

\* Mutant of Notify: the loop runs once too often.
NotifyOncePastTheEnd ==
    /\ pc = "notify"
    /\ EnqueueNotify
    /\ nextPatch' = nextPatch + 1
    /\ pc' = IF nextPatch > NPatches THEN "sync" ELSE "enqueue"
    /\ UNCHANGED <<poolVars, cur, output, mode, result, userCb, workerVars,
                   taskVars, processVars>>

\* ... and its second half, which wakes a worker after the lock is released.
Notify ==
    /\ pc = "notify"
    /\ EnqueueNotify
    /\ nextPatch' = nextPatch + 1
    /\ pc' = IF nextPatch = NPatches THEN "sync" ELSE "enqueue"
    /\ UNCHANGED <<poolVars, cur, output, mode, result, userCb, workerVars,
                   taskVars, processVars>>

\* wait_all is sync followed by reset.
SyncDone ==
    /\ pc = "sync"
    /\ SyncReturn(Client, NPatches)
    /\ pc' = "reset"
    /\ UNCHANGED <<poolVars, cur, nextPatch, output, mode, result, userCb,
                   workerVars, taskVars, processVars>>

SyncWait ==
    /\ pc = "sync"
    /\ SyncSleep(Client, NPatches)
    /\ UNCHANGED <<poolVars, clientVars, workerVars, taskVars, processVars>>

ResetCounter ==
    /\ pc = "reset"
    /\ Reset
    /\ pc' = "restore"
    /\ UNCHANGED <<poolVars, cur, nextPatch, output, mode, result, userCb,
                   workerVars, taskVars, processVars>>

\* restoreImageFromPatches, the application's callback, the end of the
\* SmartPatch and of its buffers, and the return.  restoreImageFromPatches never
\* returns the -1 that ivsr_process checks for, and what is left out is a lack of
\* memory in it (UNKNOWN_ERROR).
Restore ==
    /\ pc = "restore"
    /\ ~(PatchSolution /\ output = "null_output")
    /\ userCb' = [userCb EXCEPT ![cur] = @ + 1]
    /\ result' = [result EXCEPT ![cur] = "OK"]
    /\ pc' = "idle"
    /\ UNCHANGED <<poolVars, executorVars, cur, nextPatch, output, mode,
                   workerVars, taskVars, processVars>>

\* fill_image writes the image through a null pointer.
RestoreToNull ==
    /\ pc = "restore"
    /\ PatchSolution /\ output = "null_output"
    /\ running' = FALSE
    /\ UNCHANGED <<poolVars, executorVars, clientVars, workerVars, taskVars,
                   engineAlive>>

--------------------------------------------------------------------------------
(* The application thread in ivsr_process_async, frame not split.            *)

AsyncTask == [call |-> cur, patch |-> 1]

\* ivsr_process_async up to process_impl.
AsyncBegin(api, buffer) ==
    /\ pc = "idle"
    /\ cur < MaxCalls
    /\ ~ThroughExecutor(api)
    /\ buffer # "null_input"
    /\ cur' = cur + 1
    /\ mode' = [mode EXCEPT ![cur + 1] = "async"]
    /\ output' = buffer
    /\ pc' = "async_get"
    /\ UNCHANGED <<poolVars, executorVars, nextPatch, result, userCb,
                   workerVars, taskVars, processVars>>

\* process_impl returns GENERAL_ERROR for a null output; ivsr_process_async
\* does not look at what proc returned and goes on to return OK.
AsyncNullOutput ==
    /\ pc = "async_get"
    /\ output = "null_output"
    /\ pc' = "async_return"
    /\ UNCHANGED <<poolVars, executorVars, cur, nextPatch, output, mode, result,
                   userCb, workerVars, taskVars, processVars>>

AsyncGet ==
    /\ pc = "async_get"
    /\ output = "valid"
    /\ \E id \in 0 .. requests - 1 :
         /\ GetIdleRequest(Client, id)
         /\ held' = [held EXCEPT ![AsyncTask] = id]
    /\ stage' = [stage EXCEPT ![AsyncTask] = "acquired"]
    /\ pc' = "async_start"
    /\ UNCHANGED <<executorVars, cur, nextPatch, output, mode, result, userCb,
                   workerVars, processVars>>

AsyncGetWait ==
    /\ pc = "async_get"
    /\ output = "valid"
    /\ GetIdleRequestSleep(Client)
    /\ UNCHANGED <<executorVars, clientVars, workerVars, taskVars, processVars>>

\* set_callback, the tensors, start_async.
AsyncStart ==
    /\ pc = "async_start"
    /\ stage' = [stage EXCEPT ![AsyncTask] = "running"]
    /\ pc' = "async_return"
    /\ UNCHANGED <<poolVars, executorVars, cur, nextPatch, output, mode, result,
                   userCb, workerVars, held, processVars>>

\* One of them throws: ivsr_process_async returns UNKNOWN_ERROR and the request
\* is in nobody's hands.
AsyncStartFails ==
    /\ pc = "async_start"
    /\ "start" \in Failures
    /\ stage' = [stage EXCEPT ![AsyncTask] = "lost"]
    /\ result' = [result EXCEPT ![cur] = "UNKNOWN_ERROR"]
    /\ pc' = "idle"
    /\ UNCHANGED <<poolVars, executorVars, cur, nextPatch, output, mode, userCb,
                   workerVars, held, processVars>>

\* The return, which the callback may well have overtaken.
AsyncReturn ==
    /\ pc = "async_return"
    /\ result' = [result EXCEPT ![cur] = "OK"]
    /\ pc' = "idle"
    /\ UNCHANGED <<poolVars, executorVars, cur, nextPatch, output, mode, userCb,
                   workerVars, taskVars, processVars>>

--------------------------------------------------------------------------------
(* The application thread in ivsr_deinit.                                    *)

\* Every accepted asynchronous call has called back.
CallbacksDone == \A c \in Calls : mode[c] = "async" /\ result[c] = "OK" => userCb[c] = 1

\* A careful application, like the sample, holds back ivsr_deinit until then.
CallbacksAwaited == WaitsForCallbacks => CallbacksDone

\* ivsr_deinit deletes the engine, and with it the requests, before it stops
\* the workers.
DeleteEngine ==
    /\ pc = "idle"
    /\ CallbacksAwaited
    /\ engineAlive' = FALSE
    /\ pc' = "stop"
    /\ UNCHANGED <<poolVars, executorVars, cur, nextPatch, output, mode, result,
                   userCb, workerVars, taskVars, running>>

\* ~IVSRThreadExecutor in three steps: the flag, the notification, the joins.
StopExecutor ==
    /\ pc = "stop"
    /\ SetStopped
    /\ pc' = "notify_all"
    /\ UNCHANGED <<poolVars, cur, nextPatch, output, mode, result, userCb,
                   workerVars, taskVars, processVars>>

NotifyAllWorkers ==
    /\ pc = "notify_all"
    /\ NotifyStopped
    /\ pc' = "join"
    /\ UNCHANGED <<poolVars, cur, nextPatch, output, mode, result, userCb,
                   workerVars, taskVars, processVars>>

\* The last join has returned; executor and handle are deleted.
Joined ==
    /\ pc = "join"
    /\ \A w \in Workers : worker[w] = "stopped"
    /\ pc' = "done"
    /\ UNCHANGED <<poolVars, executorVars, cur, nextPatch, output, mode, result,
                   userCb, workerVars, taskVars, processVars>>

--------------------------------------------------------------------------------
(* A worker thread.                                                          *)

\* The task's output pointer is the application's own only if nothing is split.
NullTask == output = "null_output" /\ ~PatchSolution

WorkerTake(w) ==
    /\ worker[w] = "loop"
    /\ \E t \in Tasks :
         /\ TakeTask(w, t)
         /\ took' = [took EXCEPT ![w] = t]
         /\ stage' = [stage EXCEPT ![t] = "taken"]
    /\ worker' = [worker EXCEPT ![w] = "run"]
    /\ UNCHANGED <<poolVars, clientVars, held, processVars>>

WorkerWait(w) ==
    /\ worker[w] = "loop"
    /\ WorkerSleep(w)
    /\ UNCHANGED <<poolVars, clientVars, workerVars, taskVars, processVars>>

WorkerLeave(w) ==
    /\ worker[w] = "loop"
    /\ WorkerStop(w)
    /\ worker' = [worker EXCEPT ![w] = "stopped"]
    /\ UNCHANGED <<poolVars, clientVars, took, taskVars, processVars>>

\* run_impl rejects a null buffer with GENERAL_ERROR, which Execute drops: the
\* task ends without its callback.
RunNullTask(w) ==
    /\ worker[w] = "run"
    /\ stage[took[w]] = "taken"
    /\ NullTask
    /\ stage' = [stage EXCEPT ![took[w]] = "dropped"]
    /\ worker' = [worker EXCEPT ![w] = "loop"]
    /\ took' = [took EXCEPT ![w] = NoTask]
    /\ UNCHANGED <<poolVars, executorVars, clientVars, held, processVars>>

RunGet(w) ==
    /\ worker[w] = "run"
    /\ stage[took[w]] = "taken"
    /\ ~NullTask
    /\ \E id \in 0 .. requests - 1 :
         /\ GetIdleRequest(w, id)
         /\ held' = [held EXCEPT ![took[w]] = id]
    /\ stage' = [stage EXCEPT ![took[w]] = "acquired"]
    /\ UNCHANGED <<executorVars, clientVars, workerVars, processVars>>

RunGetWait(w) ==
    /\ worker[w] = "run"
    /\ stage[took[w]] = "taken"
    /\ ~NullTask
    /\ GetIdleRequestSleep(w)
    /\ UNCHANGED <<executorVars, clientVars, workerVars, taskVars, processVars>>

\* set_callback, the tensors, start_async, and back to the loop.
RunStart(w) ==
    /\ worker[w] = "run"
    /\ stage[took[w]] = "acquired"
    /\ stage' = [stage EXCEPT ![took[w]] = "running"]
    /\ worker' = [worker EXCEPT ![w] = "loop"]
    /\ took' = [took EXCEPT ![w] = NoTask]
    /\ UNCHANGED <<poolVars, executorVars, clientVars, held, processVars>>

\* One of them throws; nothing in the worker loop catches it: std::terminate.
RunStartFails(w) ==
    /\ worker[w] = "run"
    /\ stage[took[w]] = "acquired"
    /\ "start" \in Failures
    /\ running' = FALSE
    /\ UNCHANGED <<poolVars, executorVars, clientVars, workerVars, taskVars,
                   engineAlive>>

--------------------------------------------------------------------------------
(* OpenVINO, and the lambda it calls when an inference is over.              *)

InferDone(t) ==
    /\ stage[t] = "running"
    /\ stage' = [stage EXCEPT ![t] = "finished"]
    /\ UNCHANGED <<poolVars, executorVars, clientVars, workerVars, held,
                   processVars>>

\* The lambda gets the inference's exception and throws the exception_ptr
\* itself, which its handler for std::exception does not catch: the lambda is
\* left before the request is returned and before the callback is called.
InferFails(t) ==
    /\ stage[t] = "running"
    /\ "infer" \in Failures
    /\ stage' = [stage EXCEPT ![t] = "lost"]
    /\ UNCHANGED <<poolVars, executorVars, clientVars, workerVars, held,
                   processVars>>

\* request->call_back(), that is put_idle_request.
CallbackPutIdle(t) ==
    /\ stage[t] = "finished"
    /\ engineAlive
    /\ PutIdleRequest(held[t])
    /\ stage' = [stage EXCEPT ![t] = "returned"]
    /\ held' = [held EXCEPT ![t] = 0]
    /\ UNCHANGED <<executorVars, clientVars, workerVars, processVars>>

\* Then the task's callback, competition_call_back ...
CallbackTask(t) ==
    /\ stage[t] = "returned"
    /\ mode[t.call] = "sync"
    /\ CompetitionCallBack
    /\ stage' = [stage EXCEPT ![t] = "completed"]
    /\ UNCHANGED <<poolVars, clientVars, workerVars, held, processVars>>

\* Mutant of CallbackUser: the application hears of it before the request is
\* back in the pool.
CallbackUserFirst(t) ==
    /\ stage[t] = "finished"
    /\ mode[t.call] = "async"
    /\ userCb[t.call] = 0
    /\ userCb' = [userCb EXCEPT ![t.call] = @ + 1]
    /\ UNCHANGED <<poolVars, executorVars, pc, cur, nextPatch, output, mode,
                   result, workerVars, taskVars, processVars>>

\* Mutant of CallbackUser: the callback may be called again.
CallbackUserAgain(t) ==
    /\ stage[t] = "returned"
    /\ mode[t.call] = "async"
    /\ userCb[t.call] < 2
    /\ userCb' = [userCb EXCEPT ![t.call] = @ + 1]
    /\ UNCHANGED <<poolVars, executorVars, pc, cur, nextPatch, output, mode,
                   result, workerVars, taskVars, processVars>>

\* Mutant of CallbackUser: the application's callback is forgotten.
CallbackUserForgotten(t) ==
    /\ stage[t] = "returned"
    /\ mode[t.call] = "async"
    /\ stage' = [stage EXCEPT ![t] = "completed"]
    /\ UNCHANGED <<poolVars, executorVars, clientVars, workerVars, held,
                   processVars>>

\* ... or, of an asynchronous call, the application's.
CallbackUser(t) ==
    /\ stage[t] = "returned"
    /\ mode[t.call] = "async"
    /\ userCb' = [userCb EXCEPT ![t.call] = @ + 1]
    /\ stage' = [stage EXCEPT ![t] = "completed"]
    /\ UNCHANGED <<poolVars, executorVars, pc, cur, nextPatch, output, mode,
                   result, workerVars, held, processVars>>

\* The request is destroyed while it infers: OpenVINO may drop the lambda ...
InferCancelled(t) ==
    /\ stage[t] = "running"
    /\ ~engineAlive
    /\ stage' = [stage EXCEPT ![t] = "cancelled"]
    /\ held' = [held EXCEPT ![t] = 0]
    /\ UNCHANGED <<poolVars, executorVars, clientVars, workerVars, processVars>>

\* ... or call it, with an expired weak_ptr or into the deleted engine.
CallbackDeletedEngine(t) ==
    /\ stage[t] = "finished"
    /\ ~engineAlive
    /\ running' = FALSE
    /\ UNCHANGED <<poolVars, executorVars, clientVars, workerVars, taskVars,
                   engineAlive>>

--------------------------------------------------------------------------------

Process == \E api \in Apis, buffer \in Buffers :
    ProcessBegin(api, buffer) \/ AsyncBegin(api, buffer)

\* The steps of the application inside a function of the SDK.
InCall ==
    \/ Grow \/ GrowFails \/ Enqueue \/ Notify
    \/ SyncDone \/ SyncWait \/ ResetCounter \/ Restore \/ RestoreToNull
    \/ AsyncNullOutput \/ AsyncGet \/ AsyncGetWait
    \/ AsyncStart \/ AsyncStartFails \/ AsyncReturn
    \/ StopExecutor \/ NotifyAllWorkers \/ Joined

WorkerStep(w) ==
    \/ WorkerTake(w) \/ WorkerWait(w) \/ WorkerLeave(w)
    \/ RunNullTask(w) \/ RunGet(w) \/ RunGetWait(w)
    \/ RunStart(w) \/ RunStartFails(w)

Inference(t) ==
    \/ InferDone(t) \/ InferFails(t) \/ InferCancelled(t)
    \/ CallbackPutIdle(t) \/ CallbackTask(t) \/ CallbackUser(t)
    \/ CallbackDeletedEngine(t)

SpuriousWakeup(t) ==
    \/ /\ PoolSpuriousWakeup(t)
       /\ UNCHANGED <<executorVars, clientVars, workerVars, taskVars, processVars>>
    \/ /\ ExecutorSpuriousWakeup(t)
       /\ UNCHANGED <<poolVars, clientVars, workerVars, taskVars, processVars>>

\* The process has ended, well or not.
Ended ==
    /\ pc = "done" \/ ~running
    /\ UNCHANGED vars

Next ==
    \/ /\ running
       /\ \/ CallRejected
          \/ Process
          \/ InCall
          \/ DeleteEngine
          \/ \E w \in Workers : WorkerStep(w)
          \/ \E t \in Tasks : Inference(t)
          \/ \E t \in Workers \cup {Client} : SpuriousWakeup(t)
    \/ Ended

Spec == Init /\ [][Next]_vars

\* Every thread keeps running and every inference OpenVINO has started ends.
\* The application need not make a call; once it is in one it goes on.
Fairness ==
    /\ WF_vars(running /\ InCall)
    /\ \A w \in Workers : WF_vars(running /\ WorkerStep(w))
    /\ \A t \in Tasks : WF_vars(running /\ Inference(t))

FairSpec == Spec /\ Fairness

--------------------------------------------------------------------------------
(* Properties.                                                               *)

\* The state is always well formed: the index stays in the patch list, and every
\* queued task is a patch of a call (the loop over patchList in ivsr.cpp).
TypeOK ==
    /\ requests \in Nat
    /\ idleIds \in Seq(Nat)
    /\ cvWaiters \subseteq Workers \cup {Client}
    /\ taskQueue \in Seq(Tasks)
    /\ cbCounter \in Nat
    /\ isStopped \in BOOLEAN
    /\ queueWaiters \subseteq Workers
    /\ syncWaiters \subseteq {Client}
    /\ pc \in Control
    /\ cur \in 0 .. MaxCalls
    /\ nextPatch \in 1 .. NPatches + 1
    /\ output \in {"valid", "null_output"}
    /\ mode \in [Calls -> {"none", "sync", "async"}]
    /\ result \in [Calls -> {"none", "OK", "GENERAL_ERROR", "UNKNOWN_ERROR"}]
    /\ userCb \in [Calls -> Nat]
    /\ worker \in [Workers -> {"loop", "run", "stopped"}]
    /\ took \in [Workers -> Tasks \cup {NoTask}]
    /\ stage \in [Tasks -> Stages]
    /\ held \in [Tasks -> Nat]
    /\ engineAlive \in BOOLEAN
    /\ running \in BOOLEAN

InferenceUses(id) == {t \in Tasks : stage[t] \in InUse /\ held[t] = id}

\* Every inference request is either idle, and then queued once, or in the hands
\* of exactly one task, as long as there is an engine: no request is handed out
\* twice (get_idle_request, put_idle_request and the unlocked create_infer_requests).
\* A request whose inference failed is never put back: it stays with its task, and
\* the property counts it as in use.
EachRequestOwnedOnce ==
    engineAlive =>
        /\ \A i, j \in 1 .. Len(idleIds) : idleIds[i] = idleIds[j] => i = j
        /\ \A i \in 1 .. Len(idleIds) :
             idleIds[i] < requests /\ InferenceUses(idleIds[i]) = {}
        /\ \A id \in 0 .. requests - 1 :
             \/ \E i \in 1 .. Len(idleIds) : idleIds[i] = id
             \/ \E t \in Tasks : InferenceUses(id) = {t}

\* ivsr_process puts the image together, and tells the application, only when
\* the callback of every patch of this very call has run: the counter that
\* wait_all compares has counted these patches and no others.
PatchesDoneAtRestore ==
    pc = "restore" =>
        \A p \in Patches : stage[[call |-> cur, patch |-> p]] = "completed"

CompletedPatches ==
    {p \in Patches : stage[[call |-> cur, patch |-> p]] = "completed"}

\* _cb_counter counts the finished tasks of the current call, from its first
\* Enqueue until wait_all resets it, and is zero at all other times.  (sync tests
\* it for equality, so one callback too many, counted late or left over from the
\* call before, would never let it return.)
CounterCountsThisCall ==
    cbCounter = IF pc \in {"enqueue", "notify", "sync", "reset"}
                THEN Cardinality(CompletedPatches)
                ELSE 0

\* No task of a synchronous call outlives the wait of that call: when the call
\* frees its patch buffers, or returns them to the application, nothing queued
\* or running still points to them.
NoTaskOutlivesItsCall ==
    \A t \in Tasks :
        mode[t.call] = "sync" /\ stage[t] \notin {"none", "completed"} =>
            t.call = cur /\ pc \in {"enqueue", "notify", "sync"}

\* create_infer_requests changes requests_ and idleIds_ without the mutex.  That
\* is no race because nobody else is in the pool then: no thread takes or awaits
\* a request and none is due to come back.
GrowthIsExclusive ==
    pc = "grow" =>
        /\ cvWaiters = {}
        /\ \A w \in Workers : worker[w] # "run"
        /\ \A t \in Tasks : stage[t] \notin InUse

\* ivsr_deinit deletes the engine before it stops the workers.  That is safe once
\* the application has had its callbacks: no task is left that would still enter
\* the engine, and no inference that would call back into it.
DeletedEngineIsQuiescent ==
    ~engineAlive /\ CallbacksDone =>
        /\ taskQueue = <<>>
        /\ \A w \in Workers : worker[w] # "run"
        /\ \A t \in Tasks : stage[t] \notin {"acquired", "running", "finished"}

\* No notification of the executor is lost: not all workers sleep while a task is
\* queued, other than between the two halves of Enqueue, and wait_all does not sleep
\* when the count is complete (Enqueue and competition_call_back notify one thread,
\* the former after it has unlocked).
NoLostNotification ==
    /\ queueWaiters = Workers /\ taskQueue # <<>> => pc = "notify"
    /\ Client \in syncWaiters => cbCounter # NPatches

\* No thread, be it a worker in run_impl or the application in process_impl, sleeps in
\* get_idle_request beside an idle request.  The single notify_one of put_idle_request
\* is enough because a handle never has two threads asleep there.
NoSleepBesideIdle == cvWaiters # {} => idleIds = <<>>

--------------------------------------------------------------------------------
(* What makes the counter exact: the inductive invariant of the executor.    *)

\* The current call took the path it is on; what has not begun has no trace.
ModeInv ==
    /\ pc \in InProcess => cur \in Calls /\ mode[cur] = "sync"
    /\ pc \in InAsync => cur \in Calls /\ mode[cur] = "async"
    /\ \A c \in Calls : c > cur => mode[c] = "none"
    /\ \A t \in Tasks : mode[t.call] = "none" => stage[t] = "none"

\* How far the tasks of the current call are, given where ivsr_process is.
TaskInv ==
    /\ NoTaskOutlivesItsCall
    /\ pc = "grow" => nextPatch = 1
    /\ pc \in {"enqueue", "notify"} => nextPatch \in Patches
    /\ pc \in {"grow", "enqueue", "notify"} =>
         \A p \in Patches :
             p > nextPatch \/ (p = nextPatch /\ pc # "notify") =>
                 stage[[call |-> cur, patch |-> p]] = "none"
    /\ pc \in {"reset", "restore"} => CompletedPatches = Patches

\* The queue holds each queued task once, and tasks of synchronous calls only.
QueueInv ==
    /\ \A i \in 1 .. Len(taskQueue) :
         stage[taskQueue[i]] = "queued" /\ mode[taskQueue[i].call] = "sync"
    /\ \A i, j \in 1 .. Len(taskQueue) : taskQueue[i] = taskQueue[j] => i = j

\* A worker inside run_impl has a task of its own that is not started yet.
WorkerInv ==
    /\ \A w \in Workers : worker[w] = "run" =>
         /\ took[w] \in Tasks
         /\ stage[took[w]] \in {"taken", "acquired"}
         /\ mode[took[w].call] = "sync"
    /\ \A v, w \in Workers :
         worker[v] = "run" /\ worker[w] = "run" /\ took[v] = took[w] => v = w

\* A state that satisfies SdkInv satisfies PatchesDoneAtRestore, and every step
\* of the SDK leads from it to another: the counter of wait_all, the queue and
\* the tasks that workers hold always agree on what is left of the current call.
SdkInv ==
    /\ TypeOK
    /\ ModeInv
    /\ TaskInv
    /\ QueueInv
    /\ WorkerInv
    /\ CounterCountsThisCall

--------------------------------------------------------------------------------
(* Refinement and liveness.                                                  *)

\* The SDK keeps the promise of its interface.
Api == INSTANCE IvsrApi WITH
    kind <- mode,
    status <- result,
    inferred <- [c \in Calls |->
                    {p \in Patches : stage[[call |-> c, patch |-> p]] \in
                                        {"finished", "returned", "completed"}}],
    notified <- userCb

\* Every behaviour of the two process functions is one IvsrApi allows: each
\* patch inferred once, each callback once and not before the work is done, OK
\* from ivsr_process only after both.
ImplementsApi == Api!Spec

\* A call of ivsr_process or of ivsr_process_async returns (the @return of both
\* in ivsr.h: a status, of success or of failure).
CallReturns == pc \in InProcess \cup InAsync ~> pc = "idle"

\* Every call returns unless an inference or a task was lost to an error, however the
\* patches, the workers, the requests and the notifications interleave.
CallSettles ==
    pc \in InProcess \cup InAsync ~>
        \/ pc = "idle"
        \/ \E t \in Tasks : stage[t] \in {"lost", "dropped"}
        \/ ~running

\* A successful asynchronous call is called back upon completion (ivsr.h), if its
\* inference was started, did not fail and was not cut off by ivsr_deinit.
AsyncNotified ==
    \A c \in Calls : mode[c] = "async" /\ result[c] = "OK" ~>
        \/ userCb[c] = 1
        \/ stage[[call |-> c, patch |-> 1]] \in {"none", "lost", "cancelled"}
        \/ ~running

\* ivsr_deinit returns: the workers see the flag and leave.
DeinitReturns == pc \in InDeinit ~> pc = "done"
================================================================================
