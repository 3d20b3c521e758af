------------------------------ MODULE DnnBackend -------------------------------
(***************************************************************************)
(* The iVSR backend of the FFmpeg filter dnn_processing (patch 0001 of the *)
(* plugin): the filter thread, which takes frames in, hands them to        *)
(* ivsr_process_async and sends frames on, and the completion callbacks,   *)
(* which run on threads of OpenVINO.                                       *)
(*                                                                         *)
(* The plugin has the model reshaped to the size of the frames, so nothing *)
(* is split and ivsr_process_async really is asynchronous.  A free request *)
(* item of the plugin means an idle request of the SDK, which has as many: *)
(* the call does not block.                                                *)
(*                                                                         *)
(* A frame is its number in the stream; what an output frame shows is the  *)
(* sequence of the input frames it was computed from.                      *)
(***************************************************************************)
EXTENDS Integers, Sequences, SequencesExt, FiniteSets

CONSTANTS
    Kinds,        \* the kinds of models: "single", "tsenet", "basicvsr"
    MaxFrames,    \* bound: the frames of a stream
    Items,        \* the request items, nireq of them
    Nif,          \* the frames in a batch of BasicVSR
    FirstStream,  \* may a stream be the first one filtered in this process?
    Failures      \* what the SDK may fail to do: "start", "infer"

ASSUME KindsAssumption == Kinds \subseteq {"single", "tsenet", "basicvsr"}
ASSUME FirstAssumption == FirstStream \subseteq BOOLEAN
ASSUME ItemsAssumption == IsFiniteSet(Items) /\ Items # {}
ASSUME BoundAssumption == MaxFrames \in Nat /\ Nif \in Nat \ {0, 1}

VARIABLES
    kind,           \* the kind of the model of this stream
    first,          \* no TSENet stream was filtered before in this process
    pc,             \* where the filter thread is
    fed,            \* the frames it has consumed
    got,            \* got_frame of activate
    taskQueue,      \* task_queue
    lltaskQueue,    \* lltask_queue
    frameQueue,     \* frame_queue of TSENet
    frameNum,       \* the static frame_num
    inQueue,        \* in_queue of the filter, for batches
    outQueue,       \* out_queue
    requestQueue,   \* request_queue: the free items
    stage,          \* per item: how far its inference is
    taskOf,         \* per item: the task of its lltask
    window,         \* per item: the frames in its in_frames buffer
    offset,         \* per item: the frames of a batch its callback has written
    inferenceDone,  \* the tasks whose inference_done is 1
    pixels,         \* per output frame: what it shows
    sent,           \* the frames sent to the next filter
    freed,          \* ff_dnn_free_model_ivsr has run
    running         \* the process is alive

queueVars == <<taskQueue, lltaskQueue, frameQueue, frameNum, inQueue, outQueue>>
itemVars == <<stage, taskOf, window, offset>>
outVars == <<inferenceDone, pixels>>
endVars == <<freed, running>>
vars == <<kind, first, pc, fed, got, taskQueue, lltaskQueue, frameQueue, frameNum, inQueue,
          outQueue, requestQueue, stage, taskOf, window, offset, inferenceDone,
          pixels, sent, freed, running>>

Frames == 1 .. MaxFrames

\* ff_dnn_load_model_ivsr: all items are free.
Init ==
    /\ kind \in Kinds
    /\ first \in FirstStream
    /\ kind # "tsenet" => first
    /\ pc = "activate"
    /\ fed = 0
    /\ got = FALSE
    /\ taskQueue = <<>> /\ lltaskQueue = <<>>
    /\ frameQueue = <<>> /\ inQueue = <<>> /\ outQueue = <<>>
    /\ frameNum = IF first THEN 0 ELSE 1
    /\ requestQueue = SetToSeq(Items)
    /\ stage = [r \in Items |-> "free"]
    /\ taskOf = [r \in Items |-> 0]
    /\ window = [r \in Items |-> <<>>]
    /\ offset = [r \in Items |-> 0]
    /\ inferenceDone = {}
    /\ pixels = [f \in Frames |-> <<>>]
    /\ sent = <<>>
    /\ freed = FALSE
    /\ running = TRUE

--------------------------------------------------------------------------------
(* activate: frames in.                                                      *)

\* ff_dnn_execute_model_ivsr queues a task with its one last-level task.
QueueTask(t) ==
    /\ taskQueue' = Append(taskQueue, t)
    /\ lltaskQueue' = Append(lltaskQueue, t)

\* A frame of a stream that is not batched becomes a task at once.
Consume ==
    /\ pc = "activate"
    /\ kind # "basicvsr"
    /\ fed < MaxFrames
    /\ fed' = fed + 1
    /\ QueueTask(fed + 1)
    /\ pc' = "request"
    /\ UNCHANGED <<kind, first, got, frameQueue, frameNum, inQueue, outQueue, requestQueue,
                   itemVars, outVars, sent, endVars>>

\* A frame of a batched stream is collected; the last one of a batch makes a task.
ConsumeIntoBatch ==
    /\ pc = "activate"
    /\ kind = "basicvsr"
    /\ fed < MaxFrames
    /\ fed' = fed + 1
    /\ inQueue' = Append(inQueue, fed + 1)
    /\ outQueue' = Append(outQueue, fed + 1)
    /\ IF Len(inQueue) + 1 = Nif
       THEN QueueTask((fed + 1) \div Nif) /\ pc' = "request"
       ELSE UNCHANGED <<taskQueue, lltaskQueue>> /\ pc' = "settle"
    /\ UNCHANGED <<kind, first, got, frameQueue, frameNum, requestQueue, itemVars, outVars,
                   sent, endVars>>

\* No frame to consume.
NothingToConsume ==
    /\ pc = "activate"
    /\ pc' = IF kind = "basicvsr" THEN "settle" ELSE "drain"
    /\ UNCHANGED <<kind, first, fed, got, queueVars, requestQueue, itemVars, outVars, sent,
                   endVars>>

--------------------------------------------------------------------------------
(* fill_model_input_ivsr and ivsr_process_async.                             *)

\* Mutant of TsenetFrames: the first picture of the stream is not repeated.
TsenetFramesUnrepeated == frameQueue \o <<Last(lltaskQueue)>>

\* The frame of the newest last-level task joins the queue; the first picture of
\* the stream joins it twice.
TsenetFrames ==
    frameQueue \o (IF frameNum = 0 THEN <<Last(lltaskQueue), Last(lltaskQueue)>>
                                   ELSE <<Last(lltaskQueue)>>)

\* DNN_MORE_FRAMES: TSENet has fewer than three frames.
NeedsMoreFrames == kind = "tsenet" /\ Len(TsenetFrames) < 3

\* The frames that go into the input buffer.
FilledWindow ==
    CASE kind = "tsenet" -> TsenetFrames
      [] kind = "basicvsr" -> inQueue
      [] OTHER -> <<Last(lltaskQueue)>>

\* TSENet keeps the last two frames, a batch is taken whole.
FillQueues ==
    /\ frameQueue' = IF kind = "tsenet" THEN Tail(TsenetFrames) ELSE frameQueue
    /\ frameNum' = IF kind = "tsenet" THEN 1 ELSE frameNum
    /\ inQueue' = IF kind = "basicvsr" THEN <<>> ELSE inQueue
    /\ lltaskQueue' = Tail(lltaskQueue)
    /\ UNCHANGED <<taskQueue, outQueue>>

\* Mutant of FillMore: frame_num counts every picture.
FillMoreCounts ==
    /\ frameQueue' = TsenetFrames
    /\ frameNum' = frameNum + 1
    /\ UNCHANGED <<taskQueue, lltaskQueue, inQueue, outQueue>>

\* The frame was queued but there are too few.
FillMore ==
    /\ frameQueue' = TsenetFrames
    /\ frameNum' = 1
    /\ UNCHANGED <<taskQueue, lltaskQueue, inQueue, outQueue>>

\* The oldest last-level task is started with item r.
Start(r) ==
    /\ FillQueues
    /\ requestQueue' = Tail(requestQueue)
    /\ stage' = [stage EXCEPT ![r] = "infer"]
    /\ taskOf' = [taskOf EXCEPT ![r] = Head(lltaskQueue)]
    /\ window' = [window EXCEPT ![r] = FilledWindow]
    /\ offset' = [offset EXCEPT ![r] = 0]

\* What follows ff_dnn_execute_model_ivsr in activate.
AfterExecute == IF kind = "basicvsr" THEN "result" ELSE "activate"

\* execute_model_ivsr; ff_safe_queue_pop_front waits for a free item.
Execute ==
    /\ pc = "request"
    /\ requestQueue # <<>>
    /\ ~NeedsMoreFrames
    /\ Start(Head(requestQueue))
    /\ pc' = AfterExecute
    /\ UNCHANGED <<kind, first, fed, got, outVars, sent, endVars>>

\* Too few frames: the item goes back to the front.
ExecuteMore ==
    /\ pc = "request"
    /\ requestQueue # <<>>
    /\ NeedsMoreFrames
    /\ FillMore
    /\ pc' = AfterExecute
    /\ UNCHANGED <<kind, first, fed, got, requestQueue, itemVars, outVars, sent, endVars>>

\* ivsr_process_async fails: the item goes to the back, the task stays in
\* task_queue, and activate returns the error.
ExecuteFails ==
    /\ pc = "request"
    /\ requestQueue # <<>>
    /\ ~NeedsMoreFrames
    /\ "start" \in Failures
    /\ FillQueues
    /\ requestQueue' = Append(Tail(requestQueue), Head(requestQueue))
    /\ pc' = "error"
    /\ UNCHANGED <<kind, first, fed, got, itemVars, outVars, sent, endVars>>

--------------------------------------------------------------------------------
(* activate: frames out.                                                     *)

\* ff_dnn_get_result_common: the oldest task, if its inference is done.
ResultReady == taskQueue # <<>> /\ Head(taskQueue) \in inferenceDone

Shown(f) == [frame |-> f, shows |-> pixels[f]]

\* Mutant of SendResult: the newest frame is sent.
SendResultNewest ==
    /\ taskQueue' = Front(taskQueue)
    /\ sent' = Append(sent, Shown(Last(taskQueue)))
    /\ UNCHANGED outQueue

\* The task's own output frame is sent, or the oldest Nif frames of out_queue.
SendResult ==
    /\ taskQueue' = Tail(taskQueue)
    /\ IF kind = "basicvsr"
       THEN /\ sent' = sent \o [i \in 1 .. Nif |-> Shown(outQueue[i])]
            /\ outQueue' = SubSeq(outQueue, Nif + 1, Len(outQueue))
       ELSE /\ sent' = Append(sent, Shown(Head(taskQueue)))
            /\ UNCHANGED outQueue

\* Unbatched, all results that are ready are taken; of a batch one, once.
GetResult ==
    /\ pc \in {"drain", "result"}
    /\ ResultReady
    /\ SendResult
    /\ got' = TRUE
    /\ pc' = IF pc = "drain" THEN "drain" ELSE "settle"
    /\ UNCHANGED <<kind, first, fed, lltaskQueue, frameQueue, frameNum, inQueue, requestQueue,
                   itemVars, outVars, endVars>>

NoResult ==
    /\ pc \in {"drain", "result"}
    /\ ~ResultReady
    /\ pc' = "settle"
    /\ UNCHANGED <<kind, first, fed, got, queueVars, requestQueue, itemVars, outVars, sent,
                   endVars>>

\* The end of activate.
Settle ==
    /\ pc = "settle"
    /\ got' = FALSE
    /\ pc' = "activate"
    /\ UNCHANGED <<kind, first, fed, queueVars, requestQueue, itemVars, outVars, sent, endVars>>

\* The end of the stream is looked at only if no frame was sent.
AcknowledgeEof ==
    /\ pc = "settle"
    /\ ~got
    /\ pc' = "flush"
    /\ UNCHANGED <<kind, first, fed, got, queueVars, requestQueue, itemVars, outVars, sent,
                   endVars>>

--------------------------------------------------------------------------------
(* flush_frame: ff_dnn_flush_ivsr, then results until there is no task left. *)

\* Mutant of FlushNothing: the pending task is overlooked.
FlushNothingEver ==
    /\ pc = "flush"
    /\ pc' = "flush_wait"
    /\ UNCHANGED <<kind, first, fed, got, queueVars, requestQueue, itemVars, outVars, sent,
                   endVars>>

FlushNothing ==
    /\ pc = "flush"
    /\ lltaskQueue = <<>>
    /\ pc' = "flush_wait"
    /\ UNCHANGED <<kind, first, fed, got, queueVars, requestQueue, itemVars, outVars, sent,
                   endVars>>

\* The last frame is filled in once more.
FlushStart ==
    /\ pc = "flush"
    /\ lltaskQueue # <<>>
    /\ requestQueue # <<>>
    /\ ~NeedsMoreFrames
    /\ Start(Head(requestQueue))
    /\ pc' = "flush_wait"
    /\ UNCHANGED <<kind, first, fed, got, outVars, sent, endVars>>

\* Item r is in nobody's hands.
Lose(r) ==
    /\ requestQueue' = Tail(requestQueue)
    /\ stage' = [stage EXCEPT ![r] = "lost"]
    /\ UNCHANGED <<taskOf, window, offset>>

\* Too few frames even so: flush returns DNN_MORE_FRAMES and keeps the item.
FlushMore ==
    /\ pc = "flush"
    /\ lltaskQueue # <<>>
    /\ requestQueue # <<>>
    /\ NeedsMoreFrames
    /\ FillMore
    /\ Lose(Head(requestQueue))
    /\ pc' = "error"
    /\ UNCHANGED <<kind, first, fed, got, outVars, sent, endVars>>

\* ivsr_process_async fails: flush returns 0 all the same, and keeps the item.
FlushStartFails ==
    /\ pc = "flush"
    /\ lltaskQueue # <<>>
    /\ requestQueue # <<>>
    /\ ~NeedsMoreFrames
    /\ "start" \in Failures
    /\ FillQueues
    /\ Lose(Head(requestQueue))
    /\ pc' = "flush_wait"
    /\ UNCHANGED <<kind, first, fed, got, outVars, sent, endVars>>

\* A result, and the loop goes on.
FlushResult ==
    /\ pc = "flush_wait"
    /\ ResultReady
    /\ SendResult
    /\ UNCHANGED <<kind, first, pc, fed, got, lltaskQueue, frameQueue, frameNum, inQueue,
                   requestQueue, itemVars, outVars, endVars>>

\* DAST_NOT_READY makes the loop try again.
FlushNotReady ==
    /\ pc = "flush_wait"
    /\ taskQueue # <<>>
    /\ ~ResultReady
    /\ UNCHANGED vars

\* DAST_EMPTY_QUEUE ends it.
FlushEnd ==
    /\ pc = "flush_wait"
    /\ taskQueue = <<>>
    /\ pc' = "eof"
    /\ UNCHANGED <<kind, first, fed, got, queueVars, requestQueue, itemVars, outVars, sent,
                   endVars>>

\* ff_dnn_free_model_ivsr, at the end of the stream, after an error, or because
\* nobody wants frames any more.  It waits for nothing.
FreeModel ==
    /\ pc \in {"activate", "eof", "error"}
    /\ ~freed
    /\ freed' = TRUE
    /\ pc' = IF pc = "activate" THEN "error" ELSE pc
    /\ UNCHANGED <<kind, first, fed, got, queueVars, requestQueue, itemVars, outVars, sent,
                   running>>

--------------------------------------------------------------------------------
(* OpenVINO and infer_completion_callback of item r.                         *)

\* Mutant of InferDone: the callback counts inference_done before it writes.
InferDoneMarks(r) ==
    /\ stage[r] = "infer"
    /\ stage' = [stage EXCEPT ![r] = "write"]
    /\ inferenceDone' = inferenceDone \cup {taskOf[r]}
    /\ UNCHANGED <<kind, first, pc, fed, got, queueVars, requestQueue, taskOf, window,
                   offset, pixels, sent, endVars>>

\* The inference has ended and the callback begins.
InferDone(r) ==
    /\ stage[r] = "infer"
    /\ stage' = [stage EXCEPT ![r] = "write"]
    /\ UNCHANGED <<kind, first, pc, fed, got, queueVars, requestQueue, taskOf, window, offset,
                   outVars, sent, endVars>>

\* The inference fails: the SDK calls nobody back.
InferFails(r) ==
    /\ stage[r] = "infer"
    /\ "infer" \in Failures
    /\ stage' = [stage EXCEPT ![r] = "lost"]
    /\ UNCHANGED <<kind, first, pc, fed, got, queueVars, requestQueue, taskOf, window, offset,
                   outVars, sent, endVars>>

\* The output frame of the task is written.
CallbackWrite(r) ==
    /\ stage[r] = "write"
    /\ kind # "basicvsr"
    /\ ~freed
    /\ pixels' = [pixels EXCEPT ![taskOf[r]] = window[r]]
    /\ stage' = [stage EXCEPT ![r] = "mark"]
    /\ UNCHANGED <<kind, first, pc, fed, got, queueVars, requestQueue, taskOf, window, offset,
                   inferenceDone, sent, endVars>>

\* A frame of the batch is written, to the place in out_queue as it now is.
CallbackWriteBatch(r) ==
    /\ stage[r] = "write"
    /\ kind = "basicvsr"
    /\ ~freed
    /\ pixels' = IF offset[r] < Len(outQueue)
                 THEN [pixels EXCEPT ![outQueue[offset[r] + 1]] =
                           <<window[r][offset[r] + 1]>>]
                 ELSE pixels
    /\ offset' = [offset EXCEPT ![r] = @ + 1]
    /\ stage' = [stage EXCEPT ![r] = IF offset[r] + 1 = Nif THEN "mark" ELSE "write"]
    /\ UNCHANGED <<kind, first, pc, fed, got, queueVars, requestQueue, taskOf, window,
                   inferenceDone, sent, endVars>>

\* Mutant of CallbackMark: the item goes back before the task is done.
CallbackMarkPushes(r) ==
    /\ stage[r] = "mark"
    /\ ~freed
    /\ requestQueue' = Append(requestQueue, r)
    /\ stage' = [stage EXCEPT ![r] = "push"]
    /\ UNCHANGED <<kind, first, pc, fed, got, queueVars, taskOf, window, offset, outVars,
                   sent, endVars>>

\* Mutant of CallbackMark: inference_done is not counted.
CallbackMarkForgets(r) ==
    /\ stage[r] = "mark"
    /\ ~freed
    /\ stage' = [stage EXCEPT ![r] = "push"]
    /\ UNCHANGED <<kind, first, pc, fed, got, queueVars, requestQueue, taskOf, window, offset,
                   outVars, sent, endVars>>

\* inference_done++
CallbackMark(r) ==
    /\ stage[r] = "mark"
    /\ ~freed
    /\ inferenceDone' = inferenceDone \cup {taskOf[r]}
    /\ stage' = [stage EXCEPT ![r] = "push"]
    /\ UNCHANGED <<kind, first, pc, fed, got, queueVars, requestQueue, taskOf, window, offset,
                   pixels, sent, endVars>>

\* The item is free again.
CallbackPush(r) ==
    /\ stage[r] = "push"
    /\ ~freed
    /\ requestQueue' = Append(requestQueue, r)
    /\ stage' = [stage EXCEPT ![r] = "free"]
    /\ UNCHANGED <<kind, first, pc, fed, got, queueVars, taskOf, window, offset, outVars,
                   sent, endVars>>

\* The engine is deleted with the request: its callback is dropped ...
InferCancelled(r) ==
    /\ stage[r] = "infer"
    /\ freed
    /\ stage' = [stage EXCEPT ![r] = "lost"]
    /\ UNCHANGED <<kind, first, pc, fed, got, queueVars, requestQueue, taskOf, window, offset,
                   outVars, sent, endVars>>

\* ... or goes on, with a task and a queue that are freed: this may end the process.
CallbackAfterFree(r) ==
    /\ stage[r] \in {"write", "mark", "push"}
    /\ freed
    /\ running' \in BOOLEAN
    /\ stage' = [stage EXCEPT ![r] = "lost"]
    /\ UNCHANGED <<kind, first, pc, fed, got, queueVars, requestQueue, taskOf, window,
                   offset, outVars, sent, freed>>

--------------------------------------------------------------------------------

\* The steps that do not depend on what the filter's neighbours do.
Filter ==
    \/ Execute \/ ExecuteMore \/ ExecuteFails
    \/ GetResult \/ NoResult \/ Settle
    \/ FlushNothing \/ FlushStart \/ FlushMore \/ FlushStartFails
    \/ FlushResult \/ FlushNotReady \/ FlushEnd

Neighbours ==
    \/ Consume \/ ConsumeIntoBatch \/ NothingToConsume \/ AcknowledgeEof \/ FreeModel

Callback(r) ==
    \/ InferDone(r) \/ InferFails(r)
    \/ CallbackWrite(r) \/ CallbackWriteBatch(r) \/ CallbackMark(r) \/ CallbackPush(r)
    \/ InferCancelled(r) \/ CallbackAfterFree(r)

\* The model is freed, the process has ended, or ff_safe_queue_pop_front waits for an
\* item when failed inferences have lost them all.
Ended ==
    /\ freed \/ ~running \/ \A r \in Items : stage[r] = "lost"
    /\ UNCHANGED vars

Next ==
    \/ running /\ (Filter \/ Neighbours \/ \E r \in Items : Callback(r))
    \/ Ended

Spec == Init /\ [][Next]_vars

\* The filter thread goes on in the middle of its work, and OpenVINO ends what it
\* was given.
Fairness ==
    /\ WF_vars(running /\ Filter)
    /\ \A r \in Items : WF_vars(running /\ Callback(r))

FairSpec == Spec /\ Fairness

--------------------------------------------------------------------------------
(* Properties.                                                               *)

InFlight == {"infer", "write", "mark", "push"}

\* The state is always well formed: the queues hold frames, tasks and items, and a
\* callback stays within its batch (IVSRModel and its queues).
TypeOK ==
    /\ kind \in Kinds /\ first \in BOOLEAN
    /\ pc \in {"activate", "request", "drain", "result", "settle", "flush",
               "flush_wait", "eof", "error"}
    /\ fed \in 0 .. MaxFrames
    /\ got \in BOOLEAN
    /\ taskQueue \in Seq(Frames) /\ lltaskQueue \in Seq(Frames)
    /\ frameQueue \in Seq(Frames) /\ inQueue \in Seq(Frames) /\ outQueue \in Seq(Frames)
    /\ frameNum \in {0, 1}
    /\ requestQueue \in Seq(Items)
    /\ stage \in [Items -> {"free", "lost"} \cup InFlight]
    /\ taskOf \in [Items -> Frames \cup {0}]
    /\ window \in [Items -> Seq(Frames)]
    /\ offset \in [Items -> 0 .. Nif]
    /\ inferenceDone \subseteq Frames
    /\ pixels \in [Frames -> Seq(Frames)]
    /\ freed \in BOOLEAN /\ running \in BOOLEAN

\* Every request item is either in request_queue, once, or in flight or lost: no
\* buffer is filled while OpenVINO still reads it or a callback still writes from it.
ItemsOwnedOnce ==
    /\ \A i, j \in 1 .. Len(requestQueue) : requestQueue[i] = requestQueue[j] => i = j
    /\ {requestQueue[i] : i \in 1 .. Len(requestQueue)} = {r \in Items : stage[r] = "free"}

\* No task is in flight twice, and a task is in flight only while it is the filter's:
\* its frames are not sent, and so not freed, before the callback has written them.
TasksInFlightAreHeld ==
    ~freed =>
        /\ \A r, s \in Items :
             stage[r] \in InFlight /\ stage[s] \in InFlight /\ taskOf[r] = taskOf[s] => r = s
        /\ \A r \in Items : stage[r] \in {"infer", "write", "mark"} =>
             \E i \in 1 .. Len(taskQueue) : taskQueue[i] = taskOf[r]

\* When the model is freed after a regular end of the stream no inference is running
\* and no callback still writes: at most the return of an item is outstanding (the
\* flush waits for inference_done, which is counted before the item is pushed back).
FlushedBeforeFree ==
    pc = "eof" => \A r \in Items : stage[r] \in {"free", "push", "lost"}

\* When the flush has run, every task has left lltask_queue, on which the results that
\* flush_frame waits for depend.  The exception is a later TSENet stream of a process:
\* its first picture is not repeated, so two tasks are pending at the end of the stream,
\* of which ff_dnn_flush_ivsr takes one.  The task of the last frame then stays.
FlushLeavesNoTask ==
    pc \in {"flush_wait", "eof"} =>
        lltaskQueue = IF kind = "tsenet" /\ ~first /\ fed > 0 THEN <<fed>> ELSE <<>>

\* A frame of a batch shows the input frame of its own number, not that of another
\* batch in flight (infer_completion_callback writes to the head of out_queue).
BatchShowsItsOwnFrames ==
    \A i \in 1 .. Len(sent) :
        kind = "basicvsr" => sent[i].shows = <<sent[i].frame>>

\* The backend keeps the promise of a filter: frames in order, once each, computed
\* from their own neighbours, and all out at the end of the stream.
Stream == INSTANCE FrameStream WITH
    Batch <- Nif,
    outcome <- IF pc \in {"eof", "error"} THEN pc ELSE "open"
ImplementsStream == Stream!Spec

\* The first picture of a stream stands for its missing predecessor: the first frame
\* that TSENet puts out is computed from frames 1, 1 and 2 (fill_model_input_ivsr).
FirstPictureRepeated ==
    kind = "tsenet" /\ sent # <<>> => sent[1].shows[1] = 1 /\ sent[1].shows[2] = 1

\* A later TSENet stream of a process at its end: every result is out but that of the
\* last task, which was never started.  flush_frame asks for it again and again.
LaterStreamStuck ==
    /\ kind = "tsenet" /\ ~first
    /\ pc = "flush_wait"
    /\ taskQueue = <<fed>> /\ lltaskQueue = <<fed>>

\* The filter is never stuck waiting for a free item or, at the end of the stream, for
\* a result, unless an item was lost to a failure (execute_model, flush_frame).  A later
\* TSENet stream of a process gets as far as its last frame and is stuck there.
FilterReturns ==
    pc \in {"request", "flush", "flush_wait"} ~>
        \/ pc \notin {"request", "flush", "flush_wait"}
        \/ \E r \in Items : stage[r] = "lost"
        \/ ~running
        \/ LaterStreamStuck
================================================================================
