------------------------------- MODULE VsrSample -------------------------------
(***************************************************************************)
(* The sample application (vsr_sample.cpp) on top of the SDK: it reads the *)
(* images in groups, hands each group to ivsr_process or, when requests    *)
(* are asked for on its command line, to ivsr_process_async, waits until   *)
(* its callback has been called as often as it made calls, saves the       *)
(* outputs and calls ivsr_deinit.                                          *)
(*                                                                         *)
(* It is composed with IvsrSdk: a step is one of the main thread outside   *)
(* of the SDK, or one of the SDK.  Nothing else makes the application wait *)
(* for its callbacks (WaitsForCallbacks is not assumed).                   *)
(***************************************************************************)
EXTENDS IvsrSdk

CONSTANTS
    FileCounts,  \* how many images the data path may hold
    Nifs,        \* the input frames of the model
    Nigs         \* the groups asked for (--nig)

ASSUME SampleAssumption ==
    /\ FileCounts \subseteq Nat \ {0} /\ Nifs \subseteq Nat \ {0} /\ Nigs \subseteq Nat
    /\ \A n \in Nigs : n <= MaxCalls
    /\ ~PatchSolution /\ ~WaitsForCallbacks
    /\ Apis = {"ivsr_process", "ivsr_process_async"} /\ "valid" \in Buffers

VARIABLES
    args,   \* the command line, the images found, and what the model asks for
    phase,  \* where main is
    id,     \* the groups read; from the loop of the inference on, those processed
    count,  \* the callbacks counted by completion_callback
    found   \* per call: the iteration whose cb_args its callback found, 0 if none

sdkVars == vars
sampleVars == <<args, phase, id, count, found>>
allVars == <<vars, sampleVars>>

\* The groups of the loop that reads the images.
Groups == CHOOSE g \in 0 .. args.nig :
    /\ g < args.nig => g * args.nif >= args.files
    /\ \A k \in 0 .. g - 1 : k * args.nif < args.files

SampleInit ==
    /\ Init
    /\ args \in [files : FileCounts, nif : Nifs, nig : Nigs, nireq : BOOLEAN]
    /\ phase = "read"
    /\ id = 0
    /\ count = 0
    /\ found = [c \in Calls |-> 0]

--------------------------------------------------------------------------------
(* main, outside of the SDK.                                                 *)

NotEnoughFrames ==
    /\ phase = "read"
    /\ args.files < args.nif
    /\ phase' = "end"
    /\ UNCHANGED <<sdkVars, args, id, count, found>>

ReadGroup ==
    /\ phase = "read"
    /\ args.files >= args.nif
    /\ IF id < Groups THEN id' = id + 1 /\ UNCHANGED phase
                      ELSE id' = 0 /\ phase' = "infer"
    /\ UNCHANGED <<sdkVars, args, count, found>>

\* With more than one frame to a group the frames are cloned from the buffer of the
\* first one, and the last group may have fewer files than frames: reads past either.
ReadOverruns ==
    /\ phase = "read"
    /\ args.files >= args.nif
    /\ id < Groups
    /\ args.nif > 1
    /\ running' = FALSE
    /\ UNCHANGED <<poolVars, executorVars, clientVars, workerVars, taskVars, engineAlive,
                   sampleVars>>

ProcessFn == IF args.nireq THEN "ivsr_process_async" ELSE "ivsr_process"

\* The next iteration of the loop: its cb and cb_args take the place of the last ones.
CallProcess ==
    /\ phase = "infer"
    /\ id < Groups
    /\ ProcessBegin(ProcessFn, "valid") \/ AsyncBegin(ProcessFn, "valid")
    /\ id' = id + 1
    /\ UNCHANGED <<args, phase, count, found>>

\* Mutant of LoopEnds: the outputs are saved without waiting.
LoopEndsUnawaited ==
    /\ phase = "infer"
    /\ pc = "idle"
    /\ id = Groups
    /\ phase' = "save"
    /\ UNCHANGED <<sdkVars, args, id, count, found>>

LoopEnds ==
    /\ phase = "infer"
    /\ pc = "idle"
    /\ id = Groups
    /\ phase' = "wait"
    /\ UNCHANGED <<sdkVars, args, id, count, found>>

\* while (count != id)
WaitMore ==
    /\ phase = "wait"
    /\ count # id
    /\ UNCHANGED allVars

WaitEnds ==
    /\ phase = "wait"
    /\ count = id
    /\ phase' = "save"
    /\ UNCHANGED <<sdkVars, args, id, count, found>>

\* The outputs are saved; ivsr_deinit.
SaveAndDeinit ==
    /\ phase = "save"
    /\ DeleteEngine
    /\ phase' = "deinit"
    /\ UNCHANGED <<args, id, count, found>>

MainEnds ==
    /\ phase = "deinit"
    /\ pc = "done"
    /\ phase' = "end"
    /\ UNCHANGED <<sdkVars, args, id, count, found>>

--------------------------------------------------------------------------------
(* A step of the SDK, and completion_callback if it calls the application.   *)

\* Mutant of CompletionCallback: the counter starts again with each call.
CompletionCallbackAnew ==
    /\ count' = IF userCb' = userCb THEN count ELSE 1
    /\ UNCHANGED <<args, phase, id, found>>

\* Mutant of CompletionCallback: cb_args is set up after the call instead of before.
CompletionCallbackStale ==
    /\ count' = IF userCb' = userCb THEN count ELSE count + 1
    /\ found' = [c \in Calls |-> IF userCb'[c] = userCb[c] THEN found[c]
                                 ELSE IF phase = "infer" THEN id - 1 ELSE 0]
    /\ UNCHANGED <<args, phase, id>>

\* cb_args is the stack slot of the iteration that the loop is in.
CompletionCallback ==
    /\ count' = IF userCb' = userCb THEN count ELSE count + 1
    /\ found' = [c \in Calls |-> IF userCb'[c] = userCb[c] THEN found[c]
                                 ELSE IF phase = "infer" THEN id ELSE 0]
    /\ UNCHANGED <<args, phase, id>>

--------------------------------------------------------------------------------

Main ==
    \/ NotEnoughFrames \/ ReadGroup \/ ReadOverruns
    \/ CallProcess \/ LoopEnds \/ WaitMore \/ WaitEnds \/ SaveAndDeinit \/ MainEnds

Sdk ==
    \/ InCall
    \/ \E w \in Workers : WorkerStep(w)
    \/ \E t \in Tasks : Inference(t)
    \/ \E t \in Workers \cup {Client} : SpuriousWakeup(t)

SampleEnded ==
    /\ phase = "end" \/ ~running
    /\ UNCHANGED allVars

SampleNext ==
    \/ running /\ Main
    \/ running /\ Sdk /\ CompletionCallback
    \/ SampleEnded

\* Every thread keeps running, main too, and every inference ends.
SampleFairness ==
    /\ WF_allVars(running /\ Main)
    /\ WF_allVars(running /\ InCall /\ CompletionCallback)
    /\ \A w \in Workers : WF_allVars(running /\ WorkerStep(w) /\ CompletionCallback)
    /\ \A t \in Tasks : WF_allVars(running /\ Inference(t) /\ CompletionCallback)

SampleSpec == SampleInit /\ [][SampleNext]_allVars /\ SampleFairness

--------------------------------------------------------------------------------
(* Properties.                                                               *)

\* The outputs are saved only when every group is done: no inference still writes to
\* an output, none was left out, and the pool is whole (the loop on count != id).
OutputsDoneAtSave ==
    phase \in {"save", "deinit"} =>
        /\ id = Groups
        /\ \A c \in 1 .. id : stage[[call |-> c, patch |-> 1]] = "completed"
        /\ Len(idleIds) = requests

\* The callback of a synchronous call finds the arguments of its own iteration; that
\* of an asynchronous call may find those of a later one, or none (cb_args is a local
\* of the loop's body), but never those of an earlier one.
CallbackArgumentsLive ==
    \A c \in Calls : userCb[c] > 0 =>
        /\ mode[c] = "sync" => found[c] = c
        /\ found[c] = 0 \/ found[c] >= c

\* main ends, unless it read past its buffers or the callback of a call is lost with
\* its inference: the wait on count # id is over by then, since every call that is
\* accepted is called back once (the loop on count and completion_callback).
SampleEnds ==
    <>(\/ phase = "end"
       \/ ~running
       \/ \E t \in Tasks : stage[t] = "lost")
================================================================================
