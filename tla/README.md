# TLA+ models of iVSR

This directory specifies the part of iVSR that decides *when* things happen: the
SDK under `src/ivsr_sdk`, which splits frames into patches, queues them, infers them
on a pool of OpenVINO requests and tells the application when a frame is done; how
`ivsr_init` builds the handle all of this runs on; and two applications of the SDK, its
sample and the backend of the FFmpeg filter. The models are checked with TLC on small
instances; the results that matter most are proved with TLAPS for every value of the
constants.

Run a check from this directory with `tlc -config sdk_async.cfg IvsrSdk`, a proof with
`tlapm SdkRequests_proofs.tla`. `PROJECT.json` lists the runs, the lines each
definition stands for, the mutants that show that each property can fail, the hazards
and the theorems.

## 1. Inventory

### The parts of the system

| Part | Source | State it keeps | Operations |
|---|---|---|---|
| Request pool | `ov_engine.hpp`, `ov_engine.cpp:352` | `requests_` (only grows), `idleIds_` (FIFO), `mutex_`, `cv_` | `get_idle_request`, `put_idle_request`, `wait_all_impl`, `create_infer_requests_impl` |
| Inference | `ov_engine.cpp:231-350` | the lambda given to each request | `run_impl` (task of a worker), `process_impl` (asynchronous call), the callback |
| Thread executor | `ivsr_thread_executor.cpp` | `_taskQueue`, `_cb_counter`, `_isStopped`, two condition variables, 8 threads | `Enqueue`, the worker loop, `competition_call_back`, `wait_all` = `sync` + `reset`, the destructor |
| Patch solution | `smart_patch.cpp` | patch buffers and pointer lists of one call | constructor, `generatePatch`, `restoreImageFromPatches`; serial and OpenMP variants |
| Entry points | `ivsr.cpp` | the handle: engine, executor, `patchConfig`, `patchSolution`, shape | `ivsr_process`, `ivsr_process_async`, `ivsr_deinit` |
| Configuration | `ivsr.cpp:210-440`, `ov_engine.cpp:26-230` | the variables of `ivsr_init`, the properties told to OpenVINO, the compiled model | `ivsr_init`, `parse_engine_config`, `init_impl`, `ivsr_reconfig`, `ivsr_get_attr` |
| Sample | `samples/vsr_sample.cpp` | a counter of callbacks, `cb` and `cb_args` on the stack of the loop | reading the groups, the loop over them, the wait, `ivsr_deinit` |
| FFmpeg backend | `ivsr_ffmpeg_plugin/patches/0001-*.patch` | task, last-level-task, request and frame queues; `in_queue` and `out_queue` of the filter; a static frame number | `execute_model`, `fill_model_input`, `infer_completion_callback`, `get_result`, `flush`, `free_model`; `activate` and `flush_frame` of the filter |
| Others | `ivsr_ov`, `privates`, build scripts, containers | | third-party patches, a binary, no program state |

### How they interact

`ivsr_init` reads the list of entries, makes the engine (the compiled model and the first
requests), the executor with its eight workers, and the patch configuration.

`ivsr_process` makes a `SmartPatch`, grows the pool to one request per patch,
enqueues one task per patch and waits in `wait_all` until `_cb_counter` equals the
number of patches. A worker takes a task, takes an idle request (or sleeps), sets
the request's callback and starts it. OpenVINO calls the lambda on a thread of its
own: it puts the request back and then calls `competition_call_back`, which counts
and notifies. `ivsr_process` then restores the image, calls the application's
callback and returns. `ivsr_process_async` does the same if the frame is split;
otherwise the application thread takes the request itself, starts it and returns,
and the lambda calls the application. `ivsr_deinit` deletes the engine first and
the executor, with its workers, afterwards.

Three kinds of threads meet in this: the application, the workers and OpenVINO.
They share the pool (one mutex), the executor (another) and, while the pool grows,
`requests_` and `idleIds_` without any mutex. The sample adds a counter that its callback
and `main` share; the FFmpeg backend adds queues that the filter thread and the callbacks
share.

### What is hard here, and what makes each part correct

| Part | Hard behaviour | What makes it correct |
|---|---|---|
| Pool | one `notify_one` per returned request, spurious wake-ups, newcomers; growth without the lock | a request is idle or in one pair of hands; no sleeper is forgotten; nobody is in the pool while it grows |
| Executor | notification after the unlock; `sync` tests for equality; `sync` and `reset` are two critical sections; stopping | the counter counts the patches of this call, all of them and no others; every worker leaves |
| Inference | callbacks that overtake the return of the call; failures of OpenVINO | each patch inferred once, each application callback once and after the work |
| Entry points | buffers that die with the call; a deinit that deletes the engine under its workers | no task outlives its call; when the engine is deleted nothing is left that would enter it |
| Patch solution | rounding when the overlap is shared out; threads that write the same rows; buffers allocated before the patches are counted | patches lie in the frame, fit their buffers, cover the frame, and together they are the frame |
| Configuration | entries in any order and number, exits by return and by exception | what the handle comes with agrees with what the list asked for; an error leaves no thread |
| Sample | waits for a number of callbacks, not for the calls; arguments of callbacks on the stack | outputs are complete when saved; a callback never finds the arguments of an earlier iteration; it ends |
| FFmpeg backend | inferences end in any order; callbacks write to whatever is at the head of a queue; early returns; flushing | frames leave in order, once, from their own neighbours; items owned once; the filter is not stuck |

All hazards, each at its line, are listed under `hazards` in `PROJECT.json`.

## 2. Modules

```
CondVar ── RequestPool ──┬── RequestPoolClients ── MCRequestPoolClients
   │           │         │          └── RequestPoolClients_proofs
   │           ├─────────┼── IvsrInit ── MCIvsrInit
   │           │         │       └── IvsrInit_proofs
   └────── TaskExecutor ─┴── IvsrSdk ─ ─ implements ─ ─ IvsrApi
                               ├── VsrSample ───────────────────────────┐
                               └── IvsrSdk_proofs ── SdkRequests_proofs ┴── VsrSample_proofs
DnnBackend ─ ─ implements ─ ─ FrameStream
    └── DnnBackend_proofs
PatchGrid ── SmartPatch ── MCSmartPatch
                 └── SmartPatch_proofs
QueueLemmas: extended by all *_proofs but that of SmartPatch
```

**`CondVar`** is `std::condition_variable`: a set of sleepers, from which
`notify_one` removes any one and `notify_all` all. A thread asleep evaluates its
predicate again when it is out of the set, so a stolen or spurious wake-up sends it
back to sleep. It is external code.

**`RequestPool`** has one operator per critical section of the engine. `requests`
is the size of `requests_`, which stands for the vector because the ids are the
indices; `idleIds` is the FIFO; `cvWaiters` are the sleepers on `cv_`.

**`RequestPoolClients`** puts any number of threads on the pool that take and
return requests, and others in `wait_all`. It asks more of the pool than the SDK
does on one handle. `Create` needs all clients outside of the pool, because the
code takes no lock there; that the SDK keeps this condition is `GrowthIsExclusive`
in `IvsrSdk`.

**`TaskExecutor`** has one operator per critical section of
`IVSRThreadExecutor::Impl` and one for each notification that is made outside.

**`IvsrSdk`** composes pool and executor with the threads. `pc` is where the
application is in `ivsr_process` (`grow`, `enqueue`, `notify`, `sync`, `reset`,
`restore`), in `ivsr_process_async` (`async_get`, `async_start`, `async_return`) or
in `ivsr_deinit` (`stop`, `notify_all`, `join`); `worker` and `took` are where each
worker is; `stage` is how far each task is, from `queued` through `acquired`,
`running`, `finished` (OpenVINO is done) and `returned` (the request is back) to
`completed` (the callback has run), or to `lost`, `dropped` or `cancelled`. Actions
are as long as the code holds a lock or touches nothing that others see. A task is a
pair of a call and a patch. What stays out: the contents of buffers, log output, time
stamps, and the callback field of a task, which `ivsr_process` never sets.

`patchSolution` is a constant: it follows from the shape of the frames, which a
handle keeps for its life. The number of patches is a constant too; `SmartPatch`
is where it comes from. The control modelled here does not depend on
whether the shape was well formed, since `generatePatch` returns success and a full
list of patches either way (see `patch_shape`).

A null buffer reaches the code through `Buffers`, OpenVINO's exceptions through
`Failures`. A worker whose `start_async` throws ends the process, as nothing in
the worker loop catches it; so does an image restored into a null pointer. After
that `running` is false and nothing moves. A callback into the deleted engine is
undefined behaviour, modelled as the end of the process; OpenVINO may also drop the
callback of a request that is destroyed while it runs (`InferCancelled`).

**`IvsrApi`** is the abstract promise of the two process functions: per call, whether
it was accepted, what it returned, which patches were inferred and how often the
callback ran. `IvsrSdk` implements it with `mode`, `result` and `userCb` for
`kind`, `status` and `notified`; a patch is `inferred` when its task is `finished`,
`returned` or `completed`.

**`VsrSample`** puts `main` of the sample on top of `IvsrSdk`: a step is one of `main`
outside of the SDK, one that enters it (`CallProcess`, `SaveAndDeinit`), or one of the
SDK, which carries `completion_callback` with it if it calls the application. It does not
assume `WaitsForCallbacks`: its own loop on `count != id` has to do that. `args` is the
command line, `found` the history of which iteration's `cb_args` a callback saw. The
sample passes no null buffer and uses both process functions, which `SampleAssumption`
says. Its frames are taken to fit the model, so nothing is split (splitting is the business
of `sdk_patched`); the pool has `InferReqNum` requests for either function.

**`IvsrInit`** reads the application's list one entry per step (`Parse`), then takes
`ivsr_init` and `init_impl` stage by stage; a stage may return an error or be left by an
exception, which escapes `ivsr_init`, as it has no try block (its comment at `ivsr.h:132`
speaks of a returned status only). Once the handle is there, `ivsr_get_attr` and
`ivsr_reconfig` may be called. Strings and shapes are abstracted to what the code tells
apart in them: a device string to its target and members, a resolution to the tokens that
are numbers. What a read past the end of such a list finds is any value of `Garbage`.
The requests it creates are those of `RequestPool`.

**`DnnBackend`** is the iVSR backend of the FFmpeg filter with the part of the filter that
drives it: the filter thread in `activate` and `flush_frame`, and for each request item
the completion callback, step by step (`stage`: `infer`, `write`, `mark`, `push`). The
three kinds of models differ in what they take: a frame, three neighbouring frames
(TSENet), or a batch of `Nif` frames (BasicVSR). Frames are numbers; what an output shows
is the sequence of inputs it was computed from. The SDK under it is taken as
`ivsr_process_async` of an unsplit frame that finds an idle request, since the backend
creates as many items as requests; FFmpeg's queues are sequences.

**`FrameStream`** is what a filter promises of a stream: frames out in the order they went
in, once each, from their own neighbourhood, all of them at a regular end. `DnnBackend`
implements it.

**`PatchGrid`** is the arithmetic of `calculatePatchCoordinateList` and of
`multithread_p_5w` along one axis. **`SmartPatch`** takes one call from
`generatePatch` through the inference of the patches, in any order, to
`restoreImageFromPatches`. A pixel is its offset in the frame and the inference
enlarges each pixel to `Scale` x `Scale` equal ones, so the image is right if each
of its pixels shows the pixel of the frame that it enlarges. In the serial build a
pixel collects the *set* of values added to it; their average is the pixel if the
set has one element and that is the right one. In the OpenMP build every patch has a
thread that copies one row per step over what is there. Batch, frames and channels
are planes treated alike; the model has one.

`MC*` modules hold symmetry sets, frames, models and devices; every definition with
*Mutant of* in its comment is a plausible bug that shows that a property can fail, and is
no part of the specification.

## 3. What is checked

| Run | Instance | What it shows |
|---|---|---|
| `sdk_patched` | 2 calls of 3 patches, 2 workers, pool of 1 that grows to 3, all failures, null output (140 000 states) | the inductive invariant `SdkInv`; requests owned once; the image only after every patch; no task outlives its call; growth is exclusive; no notification of the executor is lost; `IvsrApi` is implemented; a call in which nothing was lost returns, and so does `ivsr_deinit` |
| `sdk_async` | 3 unsplit calls of both kinds, 2 workers, 2 requests, null buffers, failing starts and inferences, a deinit that need not wait (42 000) | the same for calls in flight at once; the counter is exact; no worker and no application thread sleeps in `get_idle_request` beside an idle request; every accepted call whose inference does not fail is called back; an application that has its callbacks leaves nothing that would enter the engine it deletes |
| `pool_clients` | 5 threads and one that may use `wait_all`, 2 then 3 requests (900, with symmetry) | no request in two hands; one `notify_one` per returned request is enough while nobody uses `wait_all`; `wait_all` returns only when nobody has a request |
| `patch_restore` | serial build: ten frames, patches 3 x 2, scale 1; OpenMP build: three frames with even overlap, patches 2 x 3, scale 2, output not cleared; shapes of 2 and of 5 dimensions (18 000) | the patches lie in the frame, fit their buffers, and together they are the frame, whatever the order of the threads' rows |
| `ivsr_init` | lists of up to seven entries, four models, five devices, every stage failing (1.2 million) | see the comments of the five properties in `IvsrInit` |
| `dnn_backend` | up to 5 frames, 3 items, batches of 2, first and later streams, failing starts and inferences (114 000) | `FrameStream` is implemented; items are owned once; a task in flight is still the filter's; nothing runs when the model is freed at a regular end; the flush leaves no task behind, but that of the last frame in a later TSENet stream of the process; the filter is not stuck unless an item was lost, or there |
| `sample` | 1 or 3 images, 1 or 2 to a group, 3 groups, both functions, 2 workers, 2 requests, failing starts and inferences (8 200) | outputs complete when saved; live arguments of callbacks; the deleted engine is quiescent; `main` ends unless an inference was lost or it read past a buffer |

### Disagreements found

| Run | Property | What the code does |
|---|---|---|
| `infer_failure` | `CallReturns` | The lambda throws the `exception_ptr` instead of rethrowing what it holds (`ov_engine.cpp:255`), and its handler does not catch that. The request is not put back, the task is not counted, `ivsr_process` waits for ever. |
| `patch_shape` | `EveryFrameIsSplit` | `ivsr_init` stores height and width (`ivsr.cpp:428-430`), `generatePatch` expects five dimensions and reads past the end of the two it gets. |
| `patch_past_the_edge` | `PatchesInsideFrame` | `multithread_p_5w` ignores the rest of the division (`smart_patch.cpp:211`): if the overlap does not divide evenly the last patch reaches past the edge of the frame. |
| `dnn_second_stream` | `FirstPictureRepeated` | The number of the frame is a static local of `fill_model_input_ivsr` (line 511 of the patch): the first picture is repeated only in the first stream of the process. Later streams compute their first output from frames 1, 2 and 3, and their flush waits for a task that is never started. |
| `dnn_batches` | `BatchShowsItsOwnFrames` | The callback writes a batch of BasicVSR to the frames at the head of `out_queue` (line 646), which are those of an earlier batch if two are in flight. |

The same modules show more with other constants, which are not runs of their own:

- `infer_failure.cfg` with `Buffers = {"valid", "null_output"}` and `Failures = {}`:
  `ivsr_process` with a null output never returns, since `Impl::Execute` drops the
  status of `run_impl` (`ivsr_thread_executor.cpp:94`). The asynchronous call returns OK
  and never calls back (`ivsr.cpp:560`); this is why `AsyncNotified` speaks of calls whose
  inference was started.
- `infer_failure.cfg` with `Apis = {"ivsr_process_async"}`, `MaxCalls = 2`,
  `Failures = {"start"}`: the first call keeps its request, the second waits for it
  for ever (`ov_engine.cpp:343`).
- `RestoredExactly` for a serial frame of 8 x 5 with `scale |-> 2`: the grid of the image
  is computed anew from the enlarged sizes (`smart_patch.cpp:322`) and differs from the
  enlarged grid of the frame when the overlap leaves a rest, so pixels of neighbouring
  places are averaged.
- `EveryFrameIsSplit` with `ShapeDims = {5}` for a frame that exceeds the model in one
  direction only: division by zero (`smart_patch.cpp:17`, `205`).
- `RestoredExactly` for a serial frame with `zeroed |-> FALSE`: the serial build adds
  to what the application's buffer holds (`smart_patch.cpp:123`). The sample clears
  its buffers, so `patch_restore` does.
- `dnn_backend.cfg` without the last disjunct of `FilterReturns`, `LaterStreamStuck`: a
  later TSENet stream of a process does not end. Its first picture is not repeated (line
  511 of the patch), so at the end two tasks are pending where `ff_dnn_flush_ivsr` takes
  one; the last stays in `lltask_queue` (`FlushLeavesNoTask` says just that), and
  `flush_frame` polls for its result (line 2262).
- `PRECISION` before `DEVICE`: the check in `ivsr_init` (`ivsr.cpp:274`) is made against
  the empty string and not again, so the handle may have `bf16` on a GPU. That a handle's
  precision fits its device is therefore not a property here.

### Bounds, and why they are enough

- **Two workers** for the code's eight: enough for a worker that is asleep, running
  or leaving while the other is elsewhere, for two workers competing for one request,
  and, with three patches, for more tasks than workers. The proofs hold for any number.
- **Two calls** are needed for a counter left over from the call before, **three**
  asynchronous calls on two requests for waiting on the pool with others in flight.
- **Five getters** on three requests: two more than requests, so that sleepers,
  notified threads and newcomers compete.
- **Frames** of 3 to 8 rows with patches of 3: one, two and three rows of patches,
  with and without a rest in the overlap.
- **Seven entries** of `ivsr_init`'s list: all kinds of entries that one property relates
  fit in one list, some of them twice, in any order.
- **Five frames and three items** in the FFmpeg backend: a window of TSENet in the middle
  of the stream with one behind and one before it in flight, two full batches of two and a
  rest, more frames than items.
- **Three groups** in the sample: an asynchronous callback may find the arguments of its
  own, the next or the last iteration, or none.

Deadlock is checked except where the code does hang or stop (`sdk_patched`, `sdk_async`
and `infer_failure`, where a lost patch is waited for). In all others a step of its own is
the only way to stop (`Ended`, `SampleEnded`), or to wait (`WaitMore`).

### Fairness

`FairSpec` of `IvsrSdk` assumes weak fairness of the application inside a call
(`InCall`), of each worker and of each started inference: threads are scheduled, OpenVINO
ends what it starts. Weak fairness of a *thread*, not of each of its actions, is all the
code can count on. The application need not call anything, and nothing forces a
sleeper to be woken: `notify_one` chooses adversarially, spurious wake-ups are never
required. A mutex has no queue in the model: a thread that is awake and whose
predicate holds may be overtaken as often as the others get there. `VsrSample` has the same
fairness, and of `main`; its wait on the counter is a busy loop that takes steps and
changes nothing. `DnnBackend` assumes it of the filter thread, which FFmpeg calls again as
long as there are frames, and of each completion callback, which is what the SDK's
`AsyncNotified` says of inferences that do not fail.

## 4. What is proved

All theorems hold for any set of workers, number of calls, patches and requests, any APIs,
buffers and failures, any list of entries, stream and frame, from the assumptions named
beside the constants.

**The counter** (`IvsrSdk_proofs`). `Invariance`: `Spec => []SdkInv`.
`CounterCountsThisCall` alone is not inductive. To know that `competition_call_back`
counts a patch of *this* call one needs that no task of an earlier call is left
(`NoTaskOutlivesItsCall`), for which the queue must hold tasks of the current call only,
each once (`QueueInv`), no two workers the same task (`WorkerInv`), and the loop must not
have enqueued the patches to come (`TaskInv`); that a call that has not begun has no task
is in `ModeInv`. The proof has one step for each action and treats the pool only through
its types. `TypeCorrect`, `CounterExact`, `NoTaskOutlives`, `PatchesDone` follow.

**The requests** (`SdkRequests_proofs`). `RequestsInvariance`: `Spec => []RequestsInv`, which
adds to `SdkInv` what relates the pool to the tasks. `OwnInv` is `EachRequestOwnedOnce`
element by element; it needs `AsyncInv`, or the request that an asynchronous call took
could be taken for free. `SleepInv` says who may sleep on `cv_`, without which growing the
pool, which wakes nobody, could leave a sleeper beside an idle request; `PathInv` keeps
growth and asynchronous calls on different handles, which is why a pool that grows has
nothing in flight. `DeinitInv` and `ReturnInv` relate the deleted engine and the results of
calls to the tasks that are left. `OwnedOnceAlways`, `GrowthExclusive`, `NotificationNotLost`
and `DeletedQuiescent` follow.

That nobody sleeps in `get_idle_request` beside an idle request (`SleepersFindNothingIdle`)
has two reasons, one for each kind of handle. A handle that splits has had its pool grown
to the number of patches before a worker gets near it, and a task that wants a request has
none yet: the others are too few to hold them all (`SpareRequest`, by the pigeonhole
principle), so nobody ever sleeps (`SplitInv`). On a handle that does not split, the
application is in one call at a time, so a synchronous call has one task and an
asynchronous one none for a worker: there is one thread that can sleep (`OneSleeper`), and
the single notification of `put_idle_request` is for it (`PoolWakeupStep`).

**The interface** (end of `SdkRequests_proofs`). `Refinement`: `Spec => ImplementsApi`. Every step of the
application, a worker or OpenVINO is shown to be a step of `IvsrApi` or none. Beside
`RequestsInv` it needs `CallInv`: a call that was accepted and has no result yet is the one
in progress, and a synchronous call in progress has not called back.

**The sample** (`VsrSample_proofs`). `SampleInvariance`: `SampleSpec => []SampleInv`. Every
step of the SDK inside of the sample is a step of `IvsrSdk`, so `RequestsInv` and `CallInv`
carry over by their lemmas. `MainInv` says where `main` is while the application is inside
of the SDK, `CountInv` that `count` is the number of calls that were called back, each
once, `RestInv` what the end of the wait leaves. The heart is the step that ends the wait:
as many callbacks as calls means that each call had its own (`AllCalled`, by cardinality),
so no task is alive (`NothingLeft`) and the pool, whose ids are then an injection onto all
requests, is whole (`WholePool`). `OutputsDone` and `ArgumentsLive` state the properties of
the run; `SampleDeinitQuiescent` discharges the condition of `DeletedQuiescent`; and
`SampleSeesTheApi` says that the sample implements `IvsrApi` as the SDK does, its own steps
being stutters.

**The pool alone** (`RequestPoolClients_proofs`). `TypeCorrect`, `Exclusive` and
`WakeupNotLost`, for any finite set of threads and any number of requests. That an id is an
index of `requests_`, which `TypeOK` says, follows from who has which id (`Exclusive`), so
`TypeCorrect` is proved from the weaker `ShapeOK`. The last one is about a pool on which nobody uses `wait_all`: with a thread in `wait_all` on the same
condition variable a single notification can go to the wrong sleeper. The SDK never calls
`wait_all` of the engine. `WaitAllWaitsForAll` is an action property: the step in which
`wait_all` returns finds as many ids as requests; they are distinct and below that number
(`FullQueue`), so they are all of them and no thread holds one.

**The initialisation** (`IvsrInit_proofs`). `InitInvariance`: `Spec => []InitInv`. `InitInv` has
one part for each thing a later stage relies on: the number of requests is the largest asked
for (`AskedInv`), what OpenVINO was told is `EngineConfig` of the entries (`ToldInv`), the
compiled model has the size of `RESHAPE_SETTINGS` or its own (`CompiledInv`), the pool is
whole once its loop is over (`PoolInv`), and threads and the handle come last, behind every
return of an error (`HandleInv`, `ErrorInv`). `PoolAsAsked`, `PatchesFit`,
`HardwareTold` and `ErrorsLeaveNoThread` follow, for lists of any length
and any models, devices and values. The proof of `HardwareTold` failed at first for a device
string that names `GPU` beside a numbered GPU: `parse_engine_config` configures the kernels of
the numbered ones only (`ivsr.cpp:44-66`). The property now excepts that case, and
`MCDevices` has such a device.

**The FFmpeg backend** (`DnnBackend_proofs`). `BackendInvariance`: `Spec => []BackendInv`.
Everything is counted by the frames consumed: `task_queue` and `lltask_queue` end with the
newest task and hold consecutive ones (`QueueInv`), so that their lengths tell how many
tasks are delivered and started; the frames sent are those of the delivered tasks, the
others are in `out_queue` in order (`SentInv`). `ItemInv` gives each inference in flight a
task of its own, started and neither done nor delivered; `OffsetInv` keeps a callback within
its batch; `TsenetInv` says which pictures `frame_queue` has at each point of `activate`, in
the first stream; `ShowInv` that buffers and frames show the neighbourhood due at their
place. `ItemsHaveOneOwner`, `TasksAreHeld`, `FreedAfterFlush` follow, and `BackendIsAStream`:
every step is one of `FrameStream` or none. `FlushTakesTheTask` needs `PendingInv`, which
follows the lengths of `frame_queue` and `lltask_queue` in TSENet's later streams too. The pixels promised are those `FrameStream` promises
(`ShowsPromised`): the two findings about TSENet's later streams and about batches are the
rest; order and number of the frames are proved for all.

**The patches** (`SmartPatch_proofs`). For all sizes with `size > crop`
the serial grid begins at 0, ends at the end of the frame (`GridSpansFrame`), stays
inside (`GridInsideFrame`) and leaves no gap (`GridCoversFrame`); if the overlap divides
evenly the threads' grid is the same and the image's grid is the enlarged one
(`EvenGridScales`). `EveryPatchInside`: both builds fill every patch from inside the frame,
the OpenMP build if the overlap leaves no rest. `PatchBuffersSuffice`: the patches fit their
buffers, always. Patches overlap so much at worst that they take twice the frame along each
axis (`GridWithinTwice`), and the constructor allocates four times the frame only because
it counts `sizeof(float)` in a number of floats, which is just this bound.

`ImageRestored`: the image shows the frame, for every frame and scale for which `ImagesFit`
holds: the overlap leaves no rest, or the build is serial and the scale 1; and the serial
build finds its output cleared. Outside of it the property is false (see the findings and the
list below them). Three facts carry it, for all sizes: a patch's corner in the image is `Scale` times
that in the frame (`Corners`), so each output pixel is put where its input was taken from
(`PlacedRight`), and every pixel of the image lies in some patch (`ImageCovered`). `RestoreInv`
adds how far the image is: `fill_image` has added the patches before `idx`, and nothing but
the right value is anywhere; or the threads have copied the rows before `rows[p]`, and what
another thread copies over them is the same.

`QueueLemmas` holds what is needed about `Append`, `Head` and `Tail`.

Every invariant, action property and refinement that a passing run checks is stated by a
theorem: the run checks it on a small instance, the theorem for all. `EveryPatchInside` and
`ImageRestored` have an assumption on the frames, which those of `patch_restore` satisfy; the
others assume only what is named beside the constants.

Only model-checked: the liveness properties (`CallSettles`, `AsyncNotified`, `DeinitReturns`,
`SampleEnds`, `FilterReturns`), which are out of the prover's reach, as is `ENABLED`, and with
it the absence of deadlocks; and the five counterexamples, which are single behaviours.

## 5. What is not modelled

- `IVSRThreadExecutor::Execute` outside of the worker loop and `Defer`: reached only with
  zero threads, and `ivsr_init` always asks for eight. The streams of `ThreadLocal`:
  `Execute` ignores the stream it is given, nothing observable depends on it.
- `setInput` and `setOutput` of `SmartPatch`, which nothing calls.
- The hidden state of models made stateful (`ov_engine.cpp:142-159`): what an inference
  computes is abstract here. It is listed as a hazard without a property.
- Two application threads on one handle: the header does not say that this is allowed, and
  the counter of the executor is not made for it.
- The lambda of an inference locks a `weak_ptr` to its request (`ov_engine.cpp:241`, `300`)
  and so keeps the request alive until it has ended, perhaps beyond `ivsr_deinit`; which of
  OpenVINO's objects go when is not modelled.
- In the FFmpeg backend the conversions of pixels and layouts, returns for lack of memory,
  and the other functions of FFmpeg the patch touches.
- The image input and output of the sample (OpenCV), the number that `stoul` makes of "-1".
- OpenVINO patches, the model guard, build scripts, containers: no logic of the SDK, or
  third-party.

## 6. Plan

Done, in this order: `CondVar`, `RequestPool`, `TaskExecutor`, `IvsrSdk`, `IvsrApi`,
`RequestPoolClients`, `PatchGrid`, `SmartPatch`, `IvsrInit`, `DnnBackend`, `FrameStream`,
`VsrSample`, and the proofs above. What is left:

1. The order and shape of what TSENet's later streams show, as they are rather than as
   they should be, and of batches with no more than one in flight.
2. The safety part of the liveness properties: that a call in progress always has a thread or
   an inference that can take a step for it.
3. Hidden state per request in `IvsrSdk`, once the code says which request a stream is for.
