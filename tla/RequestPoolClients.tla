-------------------------- MODULE RequestPoolClients ---------------------------
(***************************************************************************)
(* The request pool of ov_engine used by any number of threads at once,    *)
(* which is more than the SDK on one handle does: threads that take a      *)
(* request and give it back, again and again, and threads in wait_all.     *)
(*                                                                         *)
(* A getter stands for the thread that calls get_idle_request together     *)
(* with the OpenVINO thread that later calls put_idle_request for it.      *)
(***************************************************************************)
EXTENDS RequestPool, FiniteSets

CONSTANTS
    Getters,         \* the threads that take requests
    WaitAllCallers,  \* the threads that call wait_all
    InitRequests,    \* requests the pool starts with
    MaxRequests      \* bound: requests create_infer_requests brings it to

ASSUME ThreadsAssumption ==
    /\ IsFiniteSet(Getters)
    /\ Getters \cap WaitAllCallers = {}
ASSUME RequestsAssumption ==
    /\ InitRequests \in Nat
    /\ MaxRequests \in Nat

VARIABLES
    user,   \* per thread: outside of the pool, inside of a call, or holding;
            \* "absent" is a thread that never calls
    holds   \* per getter: the id of the request it has, if it is "holding"

userVars == <<user, holds>>
vars == <<requests, idleIds, cvWaiters, user, holds>>

Init ==
    /\ PoolInit(InitRequests)
    /\ \E caller \in {"out", "absent"} :
         user = [t \in Getters \cup WaitAllCallers |->
                     IF t \in Getters THEN "out" ELSE caller]
    /\ holds = [t \in Getters |-> 0]

--------------------------------------------------------------------------------

CallGet(t) ==
    /\ user[t] = "out"
    /\ user' = [user EXCEPT ![t] = "get"]
    /\ UNCHANGED <<poolVars, holds>>

Get(t) ==
    /\ user[t] = "get"
    /\ \E id \in 0 .. requests - 1 :
         /\ GetIdleRequest(t, id)
         /\ holds' = [holds EXCEPT ![t] = id]
    /\ user' = [user EXCEPT ![t] = "holding"]

GetSleep(t) ==
    /\ user[t] = "get"
    /\ GetIdleRequestSleep(t)
    /\ UNCHANGED userVars

Put(t) ==
    /\ user[t] = "holding"
    /\ PutIdleRequest(holds[t])
    /\ user' = [user EXCEPT ![t] = "out"]
    /\ holds' = [holds EXCEPT ![t] = 0]

CallWaitAll(t) ==
    /\ user[t] = "out"
    /\ user' = [user EXCEPT ![t] = "wait_all"]
    /\ UNCHANGED <<poolVars, holds>>

WaitAll(t) ==
    /\ user[t] = "wait_all"
    /\ WaitAllReturn(t)
    /\ user' = [user EXCEPT ![t] = "out"]
    /\ UNCHANGED holds

WaitAllWait(t) ==
    /\ user[t] = "wait_all"
    /\ WaitAllSleep(t)
    /\ UNCHANGED userVars

\* create_infer_requests takes no lock; its caller has the pool to itself.
Create ==
    /\ requests < MaxRequests
    /\ \A t \in Getters \cup WaitAllCallers : user[t] \in {"out", "absent"}
    /\ CreateInferRequest
    /\ UNCHANGED userVars

SpuriousWakeup(t) ==
    /\ PoolSpuriousWakeup(t)
    /\ UNCHANGED userVars

Next ==
    \/ \E t \in Getters : CallGet(t) \/ Get(t) \/ GetSleep(t) \/ Put(t)
    \/ \E t \in WaitAllCallers : CallWaitAll(t) \/ WaitAll(t) \/ WaitAllWait(t)
    \/ \E t \in Getters \cup WaitAllCallers : SpuriousWakeup(t)
    \/ Create

Spec == Init /\ [][Next]_vars

--------------------------------------------------------------------------------

Holding == {t \in Getters : user[t] = "holding"}
AwakeInGet == {t \in Getters : user[t] = "get" /\ t \notin cvWaiters}

\* The state is well formed: idleIds_ lists indices of requests_, which
\* requests_[id] is taken with, and only a thread inside a call sleeps.
TypeOK ==
    /\ requests \in Nat
    /\ idleIds \in Seq(0 .. requests - 1)
    /\ user \in [Getters \cup WaitAllCallers ->
                    {"out", "get", "holding", "wait_all", "absent"}]
    /\ \A t \in Getters : user[t] \in {"out", "get", "holding"}
    /\ \A t \in WaitAllCallers : user[t] \in {"out", "wait_all", "absent"}
    /\ holds \in [Getters -> Nat]
    /\ cvWaiters \subseteq {t \in Getters \cup WaitAllCallers :
                                user[t] \in {"get", "wait_all"}}

\* No request is in two hands: idleIds_ lists an id once, and not while a thread
\* has it; two threads never have the same (get_idle_request and
\* put_idle_request under mutex_).
RequestsExclusive ==
    /\ \A i \in 1 .. Len(idleIds) : idleIds[i] < requests
    /\ \A i, j \in 1 .. Len(idleIds) : idleIds[i] = idleIds[j] => i = j
    /\ \A t \in Holding : holds[t] < requests
    /\ \A t \in Holding, i \in 1 .. Len(idleIds) : idleIds[i] # holds[t]
    /\ \A t, u \in Holding : holds[t] = holds[u] => t = u

\* There are at least as many threads awake in get_idle_request as idle requests.
TakersOnTheWay == cvWaiters = {} \/ Len(idleIds) <= Cardinality(AwakeInGet)
NobodyWaitsForAll == \A t \in WaitAllCallers : user[t] = "absent"

\* No notification is lost: while a thread sleeps in get_idle_request an idle
\* request always has a taker on its way, however the single notifications, the
\* newcomers and the spurious wake-ups interleave.  It holds if nobody ever calls
\* wait_all, which shares cv_ with them.
NoLostWakeup == NobodyWaitsForAll => TakersOnTheWay

\* wait_all returns only when no thread has a request.
WaitAllMeansIdle ==
    [][\A t \in WaitAllCallers :
            user[t] = "wait_all" /\ user'[t] = "out" => Holding = {}]_vars
================================================================================
