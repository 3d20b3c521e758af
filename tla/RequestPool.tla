------------------------------ MODULE RequestPool ------------------------------
(***************************************************************************)
(* The pool of inference requests of ov_engine (ov_engine.hpp,             *)
(* ov_engine.cpp).  requests_ is a vector that only grows, so its size     *)
(* stands for it and 0 .. requests-1 are the ids; idleIds_ is the FIFO of  *)
(* the ids nobody uses; cv_ is the condition variable under mutex_.        *)
(*                                                                         *)
(* Each operator is one critical section of the engine, executed by thread *)
(* t.  The modules that extend this one decide which thread is where.      *)
(***************************************************************************)
EXTENDS Integers, Sequences, CondVar

VARIABLES
    requests,   \* requests_.size()
    idleIds,    \* idleIds_
    cvWaiters   \* the threads asleep on cv_

poolVars == <<requests, idleIds, cvWaiters>>

PoolInit(n) ==
    /\ requests = n
    /\ idleIds = [i \in 1 .. n |-> i - 1]
    /\ cvWaiters = {}

--------------------------------------------------------------------------------

\* Mutant of GetIdleRequest: the id is read but not popped.
GetIdleRequestWithoutPop(t, id) ==
    /\ t \notin cvWaiters
    /\ idleIds # <<>>
    /\ id = Head(idleIds)
    /\ UNCHANGED poolVars

\* get_idle_request: the predicate holds and the oldest idle id is taken.
GetIdleRequest(t, id) ==
    /\ t \notin cvWaiters
    /\ idleIds # <<>>
    /\ id = Head(idleIds)
    /\ idleIds' = Tail(idleIds)
    /\ UNCHANGED <<requests, cvWaiters>>

\* get_idle_request: nothing is idle and cv_.wait puts the thread to sleep.
GetIdleRequestSleep(t) ==
    /\ t \notin cvWaiters
    /\ idleIds = <<>>
    /\ cvWaiters' = cvWaiters \cup {t}
    /\ UNCHANGED <<requests, idleIds>>

\* Mutant of PutIdleRequest: the notify_one is forgotten.
PutIdleRequestSilently(id) ==
    /\ idleIds' = Append(idleIds, id)
    /\ UNCHANGED <<requests, cvWaiters>>

\* put_idle_request: one thread asleep on cv_ is woken, whatever it waits for.
PutIdleRequest(id) ==
    /\ idleIds' = Append(idleIds, id)
    /\ cvWaiters' \in NotifyOne(cvWaiters)
    /\ UNCHANGED requests

\* Mutant of WaitAllReturn: one idle request is taken for all of them.
WaitAllReturnOnAny(t) ==
    /\ t \notin cvWaiters
    /\ idleIds # <<>>
    /\ UNCHANGED poolVars

\* wait_all_impl: every request is idle.
WaitAllReturn(t) ==
    /\ t \notin cvWaiters
    /\ Len(idleIds) = requests
    /\ UNCHANGED poolVars

\* wait_all_impl: some request is in use and the thread goes to sleep on cv_.
WaitAllSleep(t) ==
    /\ t \notin cvWaiters
    /\ Len(idleIds) # requests
    /\ cvWaiters' = cvWaiters \cup {t}
    /\ UNCHANGED <<requests, idleIds>>

\* Mutant of CreateInferRequest: the id is taken after the vector has grown.
CreateInferRequestLateId ==
    /\ requests' = requests + 1
    /\ idleIds' = Append(idleIds, requests + 1)
    /\ UNCHANGED cvWaiters

\* One turn of the loop of create_infer_requests_impl.  It takes no lock and
\* notifies nobody.
CreateInferRequest ==
    /\ requests' = requests + 1
    /\ idleIds' = Append(idleIds, requests)
    /\ UNCHANGED cvWaiters

\* std::condition_variable may return from wait without a notification.
PoolSpuriousWakeup(t) ==
    /\ t \in cvWaiters
    /\ cvWaiters' = cvWaiters \ {t}
    /\ UNCHANGED <<requests, idleIds>>
================================================================================
