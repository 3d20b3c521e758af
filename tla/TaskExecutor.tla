----------------------------- MODULE TaskExecutor ------------------------------
(***************************************************************************)
(* IVSRThreadExecutor::Impl (ivsr_thread_executor.cpp): the task queue the *)
(* worker threads serve, the counter of finished tasks that wait_all waits *)
(* on, and the shutdown flag.  One mutex guards all three; _queueCondVar   *)
(* is for the workers, _taskCondVar for the thread in wait_all.            *)
(*                                                                         *)
(* Each operator is one critical section, or one notification made         *)
(* outside of it.                                                          *)
(***************************************************************************)
EXTENDS Integers, Sequences, CondVar

VARIABLES
    taskQueue,     \* _taskQueue
    cbCounter,     \* _cb_counter
    isStopped,     \* _isStopped
    queueWaiters,  \* the threads asleep on _queueCondVar
    syncWaiters    \* the threads asleep on _taskCondVar

executorVars == <<taskQueue, cbCounter, isStopped, queueWaiters, syncWaiters>>

ExecutorInit ==
    /\ taskQueue = <<>>
    /\ cbCounter = 0
    /\ isStopped = FALSE
    /\ queueWaiters = {}
    /\ syncWaiters = {}

--------------------------------------------------------------------------------

\* Impl::Enqueue, its critical section.
EnqueuePush(task) ==
    /\ taskQueue' = Append(taskQueue, task)
    /\ UNCHANGED <<cbCounter, isStopped, queueWaiters, syncWaiters>>

\* Impl::Enqueue, notify_one after the lock is released.
EnqueueNotify ==
    /\ queueWaiters' \in NotifyOne(queueWaiters)
    /\ UNCHANGED <<taskQueue, cbCounter, isStopped, syncWaiters>>

\* The worker loop: there is a task, which short-circuits the test of
\* _isStopped, so a worker never leaves a task behind.
TakeTask(w, task) ==
    /\ w \notin queueWaiters
    /\ taskQueue # <<>>
    /\ task = Head(taskQueue)
    /\ taskQueue' = Tail(taskQueue)
    /\ UNCHANGED <<cbCounter, isStopped, queueWaiters, syncWaiters>>

\* The worker loop: no task and no shutdown, the worker goes to sleep.
WorkerSleep(w) ==
    /\ w \notin queueWaiters
    /\ taskQueue = <<>>
    /\ ~isStopped
    /\ queueWaiters' = queueWaiters \cup {w}
    /\ UNCHANGED <<taskQueue, cbCounter, isStopped, syncWaiters>>

\* The worker loop: no task and _isStopped, the worker leaves the loop.
WorkerStop(w) ==
    /\ w \notin queueWaiters
    /\ taskQueue = <<>>
    /\ isStopped
    /\ UNCHANGED executorVars

\* Mutant of CompetitionCallBack: it counts but does not notify.
CompetitionCallBackSilently ==
    /\ cbCounter' = cbCounter + 1
    /\ UNCHANGED <<taskQueue, isStopped, queueWaiters, syncWaiters>>

\* competition_call_back: count the task and wake the thread in wait_all.
CompetitionCallBack ==
    /\ cbCounter' = cbCounter + 1
    /\ syncWaiters' \in NotifyOne(syncWaiters)
    /\ UNCHANGED <<taskQueue, isStopped, queueWaiters>>

\* Mutant of SyncReturn: wait_all is content one task too early.
SyncReturnEarly(t, size) ==
    /\ t \notin syncWaiters
    /\ cbCounter >= size - 1
    /\ UNCHANGED executorVars

\* sync: the counter equals the number of tasks.
SyncReturn(t, size) ==
    /\ t \notin syncWaiters
    /\ cbCounter = size
    /\ UNCHANGED executorVars

\* sync: it does not yet, the thread goes to sleep on _taskCondVar.
SyncSleep(t, size) ==
    /\ t \notin syncWaiters
    /\ cbCounter # size
    /\ syncWaiters' = syncWaiters \cup {t}
    /\ UNCHANGED <<taskQueue, cbCounter, isStopped, queueWaiters>>

\* Mutant of Reset: wait_all forgets it.
ResetForgotten == UNCHANGED executorVars

\* reset, a critical section of its own after sync has released the mutex.
Reset ==
    /\ cbCounter' = 0
    /\ UNCHANGED <<taskQueue, isStopped, queueWaiters, syncWaiters>>

\* ~IVSRThreadExecutor: raise the flag under the lock.
SetStopped ==
    /\ isStopped' = TRUE
    /\ UNCHANGED <<taskQueue, cbCounter, queueWaiters, syncWaiters>>

\* Mutant of NotifyStopped: one worker is told to stop instead of all.
NotifyOneStopped ==
    /\ queueWaiters' \in NotifyOne(queueWaiters)
    /\ UNCHANGED <<taskQueue, cbCounter, isStopped, syncWaiters>>

\* ~IVSRThreadExecutor: notify_all.
NotifyStopped ==
    /\ queueWaiters' = NotifyAll(queueWaiters)
    /\ UNCHANGED <<taskQueue, cbCounter, isStopped, syncWaiters>>

\* std::condition_variable may return from wait without a notification.
ExecutorSpuriousWakeup(t) ==
    /\ t \in queueWaiters \cup syncWaiters
    /\ queueWaiters' = queueWaiters \ {t}
    /\ syncWaiters' = syncWaiters \ {t}
    /\ UNCHANGED <<taskQueue, cbCounter, isStopped>>
================================================================================
