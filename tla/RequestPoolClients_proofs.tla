---------------------- MODULE RequestPoolClients_proofs ------------------------
(***************************************************************************)
(* Proofs about the request pool, for any number of threads and requests.  *)
(***************************************************************************)
EXTENDS RequestPoolClients, QueueLemmas, FiniteSetTheorems

\* The type invariant without the bound on the ids, which follows from who has
\* which id: the part of it that is inductive on its own.
ShapeOK ==
    /\ requests \in Nat
    /\ idleIds \in Seq(Nat)
    /\ user \in [Getters \cup WaitAllCallers ->
                    {"out", "get", "holding", "wait_all", "absent"}]
    /\ \A t \in Getters : user[t] \in {"out", "get", "holding"}
    /\ \A t \in WaitAllCallers : user[t] \in {"out", "wait_all", "absent"}
    /\ holds \in [Getters -> Nat]
    /\ cvWaiters \subseteq {t \in Getters \cup WaitAllCallers :
                                user[t] \in {"get", "wait_all"}}

\* What notify_one leaves of the sleepers is among them.
LEMMA NotifyOneSubset ==
    ASSUME NEW S, NEW T \in NotifyOne(S)
    PROVE  T \subseteq S
  BY DEF NotifyOne

\* If anybody sleeps, notify_one wakes exactly one thread.
LEMMA NotifyOneWakes ==
    ASSUME NEW S, S # {}, NEW T \in NotifyOne(S)
    PROVE  \E t \in S : T = S \ {t}
  BY DEF NotifyOne

\* The effect of each operation on the queue of idle ids.
LEMMA GetEffect ==
    ASSUME ShapeOK, NEW t \in Getters, Get(t)
    PROVE  /\ idleIds # <<>> /\ idleIds' = Tail(idleIds)
           /\ UNCHANGED <<requests, cvWaiters>>
           /\ t \notin cvWaiters /\ user[t] = "get"
           /\ user' = [user EXCEPT ![t] = "holding"]
           /\ holds' = [holds EXCEPT ![t] = Head(idleIds)]
           /\ Head(idleIds) \in 0 .. requests - 1
  BY DEF Get, GetIdleRequest

LEMMA PutEffect ==
    ASSUME ShapeOK, NEW t \in Getters, Put(t)
    PROVE  /\ idleIds' = Append(idleIds, holds[t])
           /\ UNCHANGED requests
           /\ cvWaiters' \in NotifyOne(cvWaiters)
           /\ user[t] = "holding" /\ t \notin cvWaiters
           /\ user' = [user EXCEPT ![t] = "out"]
           /\ holds' = [holds EXCEPT ![t] = 0]
           /\ holds[t] \in Nat
  BY DEF Put, PutIdleRequest, ShapeOK

\* Every step keeps the state well formed.
LEMMA ShapeStep == ShapeOK /\ [Next]_vars => ShapeOK'
<1> SUFFICES ASSUME ShapeOK, [Next]_vars
             PROVE  ShapeOK'
  OBVIOUS
<1>q. requests \in Nat /\ idleIds \in Seq(Nat)
  BY DEF ShapeOK
<1>1. ASSUME NEW t \in Getters, CallGet(t)
      PROVE  ShapeOK'
  BY <1>1, ThreadsAssumption DEF CallGet, poolVars, ShapeOK
<1>2. ASSUME NEW t \in Getters, Get(t)
      PROVE  ShapeOK'
  <2>0. /\ idleIds # <<>> /\ idleIds' = Tail(idleIds)
        /\ UNCHANGED <<requests, cvWaiters>>
        /\ t \notin cvWaiters
        /\ user' = [user EXCEPT ![t] = "holding"]
        /\ holds' = [holds EXCEPT ![t] = Head(idleIds)]
    BY <1>2, GetEffect
  <2>1. idleIds' \in Seq(Nat) /\ Head(idleIds) \in Nat
    BY <2>0, <1>q, TailFacts
  <2> QED  BY <2>0, <2>1, ThreadsAssumption DEF ShapeOK
<1>3. ASSUME NEW t \in Getters, GetSleep(t)
      PROVE  ShapeOK'
  BY <1>3 DEF GetSleep, GetIdleRequestSleep, userVars, ShapeOK
<1>4. ASSUME NEW t \in Getters, Put(t)
      PROVE  ShapeOK'
  <2>0. /\ idleIds' = Append(idleIds, holds[t])
        /\ UNCHANGED requests
        /\ cvWaiters' \in NotifyOne(cvWaiters)
        /\ t \notin cvWaiters /\ holds[t] \in Nat
        /\ user' = [user EXCEPT ![t] = "out"]
        /\ holds' = [holds EXCEPT ![t] = 0]
    BY <1>4, PutEffect
  <2>1. cvWaiters' \subseteq cvWaiters
    BY <2>0, NotifyOneSubset
  <2>2. idleIds' \in Seq(Nat)
    BY <2>0, <1>q, AppendFacts
  <2> QED  BY <2>0, <2>1, <2>2, ThreadsAssumption DEF ShapeOK
<1>5. ASSUME NEW t \in WaitAllCallers, CallWaitAll(t)
      PROVE  ShapeOK'
  BY <1>5, ThreadsAssumption DEF CallWaitAll, poolVars, ShapeOK
<1>6. ASSUME NEW t \in WaitAllCallers, WaitAll(t)
      PROVE  ShapeOK'
  BY <1>6, ThreadsAssumption DEF WaitAll, WaitAllReturn, poolVars, ShapeOK
<1>7. ASSUME NEW t \in WaitAllCallers, WaitAllWait(t)
      PROVE  ShapeOK'
  BY <1>7 DEF WaitAllWait, WaitAllSleep, userVars, ShapeOK
<1>8. ASSUME NEW t \in Getters \cup WaitAllCallers, SpuriousWakeup(t)
      PROVE  ShapeOK'
  BY <1>8 DEF SpuriousWakeup, PoolSpuriousWakeup, userVars, ShapeOK
<1>9. CASE Create
  <2>1. idleIds' \in Seq(Nat) /\ requests' \in Nat
    BY <1>9, <1>q, AppendFacts DEF Create, CreateInferRequest
  <2> QED  BY <1>9, <2>1 DEF Create, CreateInferRequest, userVars, ShapeOK
<1>10. CASE UNCHANGED vars
  BY <1>10 DEF vars, ShapeOK
<1> QED
  BY <1>1, <1>2, <1>3, <1>4, <1>5, <1>6, <1>7, <1>8, <1>9, <1>10 DEF Next

\* The state of the pool and of its clients always has this shape.
LEMMA ShapeCorrect == Spec => []ShapeOK
<1>1. Init => ShapeOK
  BY RequestsAssumption, ThreadsAssumption DEF Init, PoolInit, ShapeOK
<1> QED  BY <1>1, ShapeStep, PTL DEF Spec

--------------------------------------------------------------------------------

\* Get, Put and Create are the only steps that touch ids; the other steps leave
\* every id where it is.
LEMMA ExclusiveStep == ShapeOK /\ RequestsExclusive /\ [Next]_vars => RequestsExclusive'
<1> SUFFICES ASSUME ShapeOK, RequestsExclusive, [Next]_vars
             PROVE  RequestsExclusive'
  OBVIOUS
<1>q. requests \in Nat /\ idleIds \in Seq(Nat)
  BY DEF ShapeOK
<1>u. /\ user \in [Getters \cup WaitAllCallers ->
                     {"out", "get", "holding", "wait_all", "absent"}]
      /\ holds \in [Getters -> Nat]
  BY DEF ShapeOK
<1>1. ASSUME Holding' = Holding, UNCHANGED <<requests, idleIds, holds>>
      PROVE  RequestsExclusive'
  BY <1>1 DEF RequestsExclusive
<1>2. ASSUME NEW t \in Getters, CallGet(t)
      PROVE  RequestsExclusive'
  <2>1. Holding' = Holding
    BY <1>2, <1>u DEF CallGet, Holding
  <2> QED  BY <1>2, <2>1, <1>1 DEF CallGet, poolVars
<1>3. ASSUME NEW t \in Getters, Get(t)
      PROVE  RequestsExclusive'
  <2>0. /\ idleIds # <<>> /\ idleIds' = Tail(idleIds)
        /\ requests' = requests
        /\ user' = [user EXCEPT ![t] = "holding"]
        /\ holds' = [holds EXCEPT ![t] = Head(idleIds)]
    BY <1>3, GetEffect
  <2>1. /\ Head(idleIds) = idleIds[1]
        /\ Len(idleIds) \in Nat \ {0}
        /\ Len(idleIds') = Len(idleIds) - 1
        /\ \A i \in 1 .. Len(idleIds) - 1 : idleIds'[i] = idleIds[i + 1]
    BY <2>0, <1>q, TailFacts
  <2>2. Holding' = Holding \cup {t}
    BY <2>0, <1>u DEF Holding
  <2>3. holds'[t] = idleIds[1] /\ \A u \in Getters \ {t} : holds'[u] = holds[u]
    BY <2>0, <2>1, <1>u
  <2>t. t \notin Holding
    BY <1>3 DEF Get, Holding
  <2>4. \A i \in 1 .. Len(idleIds') :
            /\ i + 1 \in 1 .. Len(idleIds)
            /\ i + 1 # 1
            /\ idleIds'[i] = idleIds[i + 1]
    BY <2>1
  <2>5. /\ 1 \in 1 .. Len(idleIds)
        /\ \A i \in 1 .. Len(idleIds) : idleIds[i] < requests
        /\ \A i, j \in 1 .. Len(idleIds) : idleIds[i] = idleIds[j] => i = j
        /\ \A u \in Holding : holds[u] < requests
        /\ \A u \in Holding, i \in 1 .. Len(idleIds) : idleIds[i] # holds[u]
        /\ \A u, v \in Holding : holds[u] = holds[v] => u = v
    BY <2>1 DEF RequestsExclusive
  <2>6. \A u \in Holding : u \in Getters \ {t}
    BY <2>t DEF Holding
  <2>7. \A i, j \in 1 .. Len(idleIds') : idleIds'[i] = idleIds'[j] => i = j
    BY <2>4, <2>5
  <2>8. \A i \in 1 .. Len(idleIds') : idleIds'[i] < requests'
    BY <2>0, <2>4, <2>5
  <2>9. \A u \in Holding' : holds'[u] < requests'
    BY <2>0, <2>2, <2>3, <2>5, <2>6
  <2>10. \A u \in Holding', i \in 1 .. Len(idleIds') : idleIds'[i] # holds'[u]
    BY <2>2, <2>3, <2>4, <2>5, <2>6
  <2>11. \A u, v \in Holding' : holds'[u] = holds'[v] => u = v
    BY <2>2, <2>3, <2>5, <2>6
  <2> QED  BY <2>7, <2>8, <2>9, <2>10, <2>11 DEF RequestsExclusive
<1>4. ASSUME NEW t \in Getters, GetSleep(t)
      PROVE  RequestsExclusive'
  <2>1. Holding' = Holding
    BY <1>4 DEF GetSleep, userVars, Holding
  <2> QED  BY <1>4, <2>1, <1>1 DEF GetSleep, GetIdleRequestSleep, userVars
<1>5. ASSUME NEW t \in Getters, Put(t)
      PROVE  RequestsExclusive'
  <2>0. /\ idleIds' = Append(idleIds, holds[t])
        /\ requests' = requests
        /\ user[t] = "holding"
        /\ user' = [user EXCEPT ![t] = "out"]
        /\ holds' = [holds EXCEPT ![t] = 0]
        /\ holds[t] \in Nat
    BY <1>5, PutEffect
  <2>1. /\ Len(idleIds') = Len(idleIds) + 1
        /\ idleIds'[Len(idleIds) + 1] = holds[t]
        /\ \A i \in 1 .. Len(idleIds) : idleIds'[i] = idleIds[i]
        /\ Len(idleIds) \in Nat
    BY <2>0, <1>q, AppendFacts
  <2>2. Holding' = Holding \ {t} /\ t \in Holding
    BY <2>0, <1>u DEF Holding
  <2>3. \A u \in Holding' : holds'[u] = holds[u]
    BY <2>0, <2>2, <1>u DEF Holding
  <2>4. \A i \in 1 .. Len(idleIds') : i \in 1 .. Len(idleIds) \/ i = Len(idleIds) + 1
    BY <2>1
  <2>5. /\ \A i \in 1 .. Len(idleIds) : idleIds[i] < requests
        /\ \A i, j \in 1 .. Len(idleIds) : idleIds[i] = idleIds[j] => i = j
        /\ \A u \in Holding : holds[u] < requests
        /\ \A u \in Holding, i \in 1 .. Len(idleIds) : idleIds[i] # holds[u]
        /\ \A u, v \in Holding : holds[u] = holds[v] => u = v
    BY DEF RequestsExclusive
  <2>7. \A i, j \in 1 .. Len(idleIds') : idleIds'[i] = idleIds'[j] => i = j
    BY <2>1, <2>2, <2>4, <2>5
  <2>8. \A i \in 1 .. Len(idleIds') : idleIds'[i] < requests'
    BY <2>0, <2>1, <2>2, <2>4, <2>5
  <2>9. \A u \in Holding' : holds'[u] < requests'
    BY <2>0, <2>2, <2>3, <2>5
  <2>10. \A u \in Holding', i \in 1 .. Len(idleIds') : idleIds'[i] # holds'[u]
    BY <2>1, <2>2, <2>3, <2>4, <2>5
  <2>11. \A u, v \in Holding' : holds'[u] = holds'[v] => u = v
    BY <2>2, <2>3, <2>5
  <2> QED  BY <2>7, <2>8, <2>9, <2>10, <2>11 DEF RequestsExclusive
<1>6. ASSUME NEW t \in WaitAllCallers,
             CallWaitAll(t) \/ WaitAll(t) \/ WaitAllWait(t)
      PROVE  RequestsExclusive'
  <2>1. Holding' = Holding
    BY <1>6, <1>u, ThreadsAssumption
       DEF CallWaitAll, WaitAll, WaitAllWait, userVars, Holding
  <2> QED
    BY <1>6, <2>1, <1>1
       DEF CallWaitAll, WaitAll, WaitAllWait, WaitAllReturn, WaitAllSleep,
           userVars, poolVars
<1>7. ASSUME NEW t \in Getters \cup WaitAllCallers, SpuriousWakeup(t)
      PROVE  RequestsExclusive'
  <2>1. Holding' = Holding
    BY <1>7 DEF SpuriousWakeup, userVars, Holding
  <2> QED  BY <1>7, <2>1, <1>1 DEF SpuriousWakeup, PoolSpuriousWakeup, userVars
<1>8. CASE Create
  <2>0. /\ idleIds' = Append(idleIds, requests)
        /\ requests' = requests + 1
        /\ holds' = holds /\ user' = user
        /\ \A t \in Getters : user[t] = "out"
    BY <1>8 DEF Create, CreateInferRequest, userVars, ShapeOK
  <2>1. /\ Len(idleIds') = Len(idleIds) + 1
        /\ idleIds'[Len(idleIds) + 1] = requests
        /\ \A i \in 1 .. Len(idleIds) : idleIds'[i] = idleIds[i]
        /\ Len(idleIds) \in Nat
    BY <2>0, <1>q, AppendFacts
  <2>2. Holding' = {} /\ Holding = {}
    BY <2>0 DEF Holding
  <2>3. \A i \in 1 .. Len(idleIds) : idleIds[i] \in Nat /\ idleIds[i] < requests
    BY <1>q DEF RequestsExclusive
  <2>4. \A i \in 1 .. Len(idleIds') : i \in 1 .. Len(idleIds) \/ i = Len(idleIds) + 1
    BY <2>1
  <2>5. \A i, j \in 1 .. Len(idleIds') : idleIds'[i] = idleIds'[j] => i = j
    BY <2>1, <2>3, <2>4, <1>q DEF RequestsExclusive
  <2>6. \A i \in 1 .. Len(idleIds') : idleIds'[i] < requests'
    BY <2>0, <2>1, <2>3, <2>4, <1>q
  <2> QED  BY <2>2, <2>5, <2>6 DEF RequestsExclusive
<1>9. CASE UNCHANGED vars
  <2>1. Holding' = Holding
    BY <1>9 DEF vars, Holding
  <2> QED  BY <1>9, <2>1, <1>1 DEF vars
<1> QED
  BY <1>2, <1>3, <1>4, <1>5, <1>6, <1>7, <1>8, <1>9 DEF Next

\* No request is ever in two hands.
THEOREM Exclusive == Spec => []RequestsExclusive
<1>1. Init => ShapeOK /\ RequestsExclusive
  <2>1. Init => ShapeOK
    BY RequestsAssumption, ThreadsAssumption DEF Init, PoolInit, ShapeOK
  <2>2. Init => RequestsExclusive
    <3> SUFFICES ASSUME Init
                 PROVE  RequestsExclusive
      OBVIOUS
    <3>1. Len(idleIds) = InitRequests
      BY RequestsAssumption DEF Init, PoolInit
    <3>2. \A i \in 1 .. InitRequests : idleIds[i] = i - 1
      BY DEF Init, PoolInit
    <3>3. Holding = {} /\ requests = InitRequests
      BY DEF Init, PoolInit, Holding
    <3> QED  BY <3>1, <3>2, <3>3, RequestsAssumption DEF RequestsExclusive
  <2> QED  BY <2>1, <2>2
<1>2. ShapeOK /\ RequestsExclusive /\ [Next]_vars => (ShapeOK /\ RequestsExclusive)'
  BY ShapeStep, ExclusiveStep
<1> QED  BY <1>1, <1>2, PTL DEF Spec

\* The state of the pool and of its clients is always well formed, and an id in
\* idleIds_ is always an index of requests_.
THEOREM TypeCorrect == Spec => []TypeOK
<1>1. ShapeOK /\ RequestsExclusive => TypeOK
  <2> SUFFICES ASSUME ShapeOK, RequestsExclusive
               PROVE  TypeOK
    OBVIOUS
  <2>1. /\ requests \in Nat /\ idleIds \in Seq(Nat)
        /\ \A i \in 1 .. Len(idleIds) : idleIds[i] < requests
    BY DEF ShapeOK, RequestsExclusive
  <2> DEFINE ids == 0 .. requests - 1
  <2>2. Len(idleIds) \in Nat /\ \A i \in 1 .. Len(idleIds) : idleIds[i] \in ids
    BY <2>1
  <2>3. idleIds = [i \in 1 .. Len(idleIds) |-> idleIds[i]]
    BY <2>1
  <2> HIDE DEF ids
  <2>4. [i \in 1 .. Len(idleIds) |-> idleIds[i]] \in Seq(ids)
    BY <2>2
  <2>5. idleIds \in Seq(ids)
    BY <2>3, <2>4
  <2> QED  BY <2>5 DEF ids, ShapeOK, TypeOK
<1> QED  BY <1>1, ShapeCorrect, Exclusive, PTL

--------------------------------------------------------------------------------

\* AwakeInGet is a finite set and its cardinality a number.
LEMMA AwakeFinite == IsFiniteSet(AwakeInGet) /\ Cardinality(AwakeInGet) \in Nat
<1>1. AwakeInGet \subseteq Getters
  BY DEF AwakeInGet
<1>2. IsFiniteSet(AwakeInGet)
  BY <1>1, ThreadsAssumption, FS_Subset
<1> QED  BY <1>2, FS_CardinalityType

LEMMA AwakeFinitePrime ==
    IsFiniteSet(AwakeInGet') /\ Cardinality(AwakeInGet') \in Nat
<1>1. AwakeInGet' \subseteq Getters
  BY DEF AwakeInGet
<1>2. IsFiniteSet(AwakeInGet')
  BY <1>1, ThreadsAssumption, FS_Subset
<1> QED  BY <1>2, FS_CardinalityType

\* A notification, a newcomer and a spurious wake-up put one more thread on its
\* way; a thread that takes a request takes one idle request with it; a thread
\* goes to sleep only if nothing is idle.
LEMMA TakersStep ==
    ASSUME ShapeOK, NobodyWaitsForAll, TakersOnTheWay, [Next]_vars
    PROVE  TakersOnTheWay'
<1>q. idleIds \in Seq(Nat) /\ Len(idleIds) \in Nat
  <2>1. idleIds \in Seq(Nat)
    BY DEF ShapeOK
  <2> QED  BY <2>1
<1>u. /\ user \in [Getters \cup WaitAllCallers ->
                     {"out", "get", "holding", "wait_all", "absent"}]
      /\ cvWaiters \subseteq {t \in Getters : user[t] = "get"}
  BY DEF ShapeOK, NobodyWaitsForAll
<1>f. /\ IsFiniteSet(AwakeInGet) /\ Cardinality(AwakeInGet) \in Nat
      /\ IsFiniteSet(AwakeInGet') /\ Cardinality(AwakeInGet') \in Nat
  BY AwakeFinite, AwakeFinitePrime
<1>1. ASSUME UNCHANGED <<idleIds, cvWaiters>>, AwakeInGet \subseteq AwakeInGet'
      PROVE  TakersOnTheWay'
  <2>1. Cardinality(AwakeInGet) <= Cardinality(AwakeInGet')
    BY <1>1, <1>f, FS_Subset
  <2>2. Len(idleIds') = Len(idleIds) /\ cvWaiters' = cvWaiters
    BY <1>1
  <2> QED  BY <2>1, <2>2, <1>q, <1>f DEF TakersOnTheWay
<1>2. ASSUME NEW t \in Getters, CallGet(t)
      PROVE  TakersOnTheWay'
  <2>1. AwakeInGet \subseteq AwakeInGet'
    BY <1>2, <1>u DEF CallGet, poolVars, AwakeInGet
  <2> QED  BY <1>2, <2>1, <1>1 DEF CallGet, poolVars
<1>3. ASSUME NEW t \in Getters, Get(t)
      PROVE  TakersOnTheWay'
  <2>0. /\ idleIds # <<>> /\ idleIds' = Tail(idleIds)
        /\ cvWaiters' = cvWaiters
        /\ user' = [user EXCEPT ![t] = "holding"]
        /\ t \notin cvWaiters /\ user[t] = "get"
    BY <1>3, GetEffect
  <2>1. Len(idleIds') = Len(idleIds) - 1
    BY <2>0, <1>q, TailFacts
  <2>2. AwakeInGet' = AwakeInGet \ {t} /\ t \in AwakeInGet
    BY <2>0, <1>u DEF AwakeInGet
  <2>3. Cardinality(AwakeInGet') = Cardinality(AwakeInGet) - 1
    BY <2>2, <1>f, FS_RemoveElement
  <2> QED  BY <2>0, <2>1, <2>3, <1>q, <1>f DEF TakersOnTheWay
<1>4. ASSUME NEW t \in Getters, GetSleep(t)
      PROVE  TakersOnTheWay'
  <2>1. Len(idleIds') = 0
    BY <1>4 DEF GetSleep, GetIdleRequestSleep
  <2> QED  BY <2>1, <1>f DEF TakersOnTheWay
<1>5. ASSUME NEW t \in Getters, Put(t)
      PROVE  TakersOnTheWay'
  <2>0. /\ idleIds' = Append(idleIds, holds[t])
        /\ cvWaiters' \in NotifyOne(cvWaiters)
        /\ user[t] = "holding"
        /\ user' = [user EXCEPT ![t] = "out"]
        /\ holds[t] \in Nat
    BY <1>5, PutEffect
  <2>1. Len(idleIds') = Len(idleIds) + 1
    BY <2>0, <1>q, AppendFacts
  <2>2. CASE cvWaiters = {}
    <3>1. cvWaiters' = {}
      BY <2>0, <2>2, NotifyOneSubset
    <3> QED  BY <3>1 DEF TakersOnTheWay
  <2>3. CASE cvWaiters # {}
    <3>1. PICK w \in cvWaiters : cvWaiters' = cvWaiters \ {w}
      BY <2>0, <2>3, NotifyOneWakes
    <3>2. w \in Getters /\ user[w] = "get" /\ w # t
      BY <2>0, <1>u
    <3>3. AwakeInGet' = AwakeInGet \cup {w} /\ w \notin AwakeInGet
      BY <2>0, <3>1, <3>2, <1>u DEF AwakeInGet
    <3>4. Cardinality(AwakeInGet') = Cardinality(AwakeInGet) + 1
      BY <3>3, <1>f, FS_AddElement
    <3>5. Len(idleIds) <= Cardinality(AwakeInGet)
      BY <2>3 DEF TakersOnTheWay
    <3> QED  BY <2>1, <3>4, <3>5, <1>q, <1>f DEF TakersOnTheWay
  <2> QED  BY <2>2, <2>3
<1>6. ASSUME NEW t \in Getters \cup WaitAllCallers, SpuriousWakeup(t)
      PROVE  TakersOnTheWay'
  <2>1. cvWaiters' = cvWaiters \ {t} /\ t \in cvWaiters
        /\ UNCHANGED <<idleIds, user>>
    BY <1>6 DEF SpuriousWakeup, PoolSpuriousWakeup, userVars
  <2>2. AwakeInGet \subseteq AwakeInGet'
    BY <2>1 DEF AwakeInGet
  <2>3. Cardinality(AwakeInGet) <= Cardinality(AwakeInGet')
    BY <2>2, <1>f, FS_Subset
  <2>4. Len(idleIds') = Len(idleIds) /\ cvWaiters # {}
    BY <2>1
  <2> QED  BY <2>3, <2>4, <1>q, <1>f DEF TakersOnTheWay
<1>7. CASE Create
  <2>1. cvWaiters' = cvWaiters /\ \A t \in Getters : user[t] = "out"
    BY <1>7 DEF Create, CreateInferRequest, ShapeOK
  <2>2. cvWaiters = {}
    BY <2>1, <1>u
  <2> QED  BY <2>1, <2>2 DEF TakersOnTheWay
<1>8. CASE UNCHANGED vars
  <2>1. AwakeInGet' = AwakeInGet
    BY <1>8 DEF vars, AwakeInGet
  <2> QED  BY <1>8, <2>1, <1>1 DEF vars
<1>9. ASSUME NEW t \in WaitAllCallers,
             CallWaitAll(t) \/ WaitAll(t) \/ WaitAllWait(t)
      PROVE  FALSE
  BY <1>9 DEF NobodyWaitsForAll, CallWaitAll, WaitAll, WaitAllWait
<1> QED
  BY <1>2, <1>3, <1>4, <1>5, <1>6, <1>7, <1>8, <1>9 DEF Next

\* A thread that never calls wait_all has never called it before.
LEMMA AbsentStep ==
    ASSUME ShapeOK, [Next]_vars, NobodyWaitsForAll'
    PROVE  NobodyWaitsForAll
<1> SUFFICES ASSUME NEW t \in WaitAllCallers
             PROVE  user[t] = "absent"
  BY DEF NobodyWaitsForAll
<1>1. user'[t] = "absent"
  BY DEF NobodyWaitsForAll
<1>2. /\ user \in [Getters \cup WaitAllCallers ->
                     {"out", "get", "holding", "wait_all", "absent"}]
      /\ t \notin Getters
  BY ThreadsAssumption DEF ShapeOK
<1>3. \/ user' = user
      \/ \E u \in Getters \cup WaitAllCallers, s \in {"out", "get", "holding", "wait_all"} :
            user' = [user EXCEPT ![u] = s]
  BY DEF Next, CallGet, Get, GetSleep, Put, CallWaitAll, WaitAll, WaitAllWait,
         SpuriousWakeup, Create, userVars, vars
<1> QED  BY <1>1, <1>2, <1>3

\* No step loses a notification.
LEMMA WakeupStep ==
    ASSUME ShapeOK, NoLostWakeup, [Next]_vars
    PROVE  NoLostWakeup'
  BY AbsentStep, TakersStep DEF NoLostWakeup

\* With get_idle_request and put_idle_request alone, no notification is lost:
\* whenever a thread sleeps, every idle request has a taker on its way.
THEOREM WakeupNotLost == Spec => []NoLostWakeup
<1>1. Init => ShapeOK /\ NoLostWakeup
  BY RequestsAssumption, ThreadsAssumption
     DEF Init, PoolInit, ShapeOK, NoLostWakeup, TakersOnTheWay
<1>2. ShapeOK /\ NoLostWakeup /\ [Next]_vars => (ShapeOK /\ NoLostWakeup)'
  BY ShapeStep, WakeupStep
<1> QED  BY <1>1, <1>2, PTL DEF Spec

--------------------------------------------------------------------------------
(* wait_all                                                                  *)

\* When all ids are in the pool nobody has one.
LEMMA AllIdle ==
    ASSUME ShapeOK, RequestsExclusive, Len(idleIds) = requests
    PROVE  Holding = {}
<1> SUFFICES ASSUME NEW t \in Holding PROVE FALSE
  OBVIOUS
<1>1. /\ requests \in Nat /\ idleIds \in Seq(Nat)
      /\ holds[t] \in Nat /\ holds[t] < requests
  BY DEF ShapeOK, RequestsExclusive, Holding
<1>2. /\ \A i \in 1 .. Len(idleIds) : idleIds[i] < requests
      /\ \A i, j \in 1 .. Len(idleIds) : idleIds[i] = idleIds[j] => i = j
  BY DEF RequestsExclusive
<1>3. holds[t] \in 0 .. requests - 1
  BY <1>1
<1>4. \E i \in 1 .. Len(idleIds) : idleIds[i] = holds[t]
  BY <1>1, <1>2, <1>3, FullQueue
<1> QED  BY <1>4 DEF RequestsExclusive

\* Only WaitAll takes a thread out of wait_all, and it does so when all are idle.
LEMMA WaitAllStep ==
    ASSUME ShapeOK, RequestsExclusive, [Next]_vars, NEW t \in WaitAllCallers,
           user[t] = "wait_all", user'[t] = "out"
    PROVE  Holding = {}
<1>1. user \in [Getters \cup WaitAllCallers ->
                   {"out", "get", "holding", "wait_all", "absent"}]
  BY DEF ShapeOK
<1>2. PICK u \in Getters \cup WaitAllCallers :
          CallGet(u) \/ Get(u) \/ Put(u) \/ CallWaitAll(u) \/ WaitAll(u)
  BY <1>1 DEF Next, GetSleep, WaitAllWait, SpuriousWakeup, Create, userVars, vars
<1>3. u = t
  BY <1>1, <1>2 DEF CallGet, Get, Put, CallWaitAll, WaitAll
<1>4. WaitAll(t)
  BY <1>2, <1>3 DEF CallGet, Get, Put, CallWaitAll
<1>5. Len(idleIds) = requests
  BY <1>4 DEF WaitAll, WaitAllReturn
<1> QED  BY <1>5, AllIdle

\* wait_all_impl returns only when no thread has a request: as many ids in idleIds_
\* as there are requests means all of them, since none is listed twice.
THEOREM WaitAllWaitsForAll == Spec => WaitAllMeansIdle
<1>1. ShapeOK /\ RequestsExclusive /\ [Next]_vars =>
          [\A t \in WaitAllCallers :
              user[t] = "wait_all" /\ user'[t] = "out" => Holding = {}]_vars
  BY WaitAllStep
<1> QED  BY <1>1, ShapeCorrect, Exclusive, PTL DEF Spec, WaitAllMeansIdle
================================================================================
