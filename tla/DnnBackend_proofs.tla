--------------------------- MODULE DnnBackend_proofs ----------------------------
(***************************************************************************)
(* Proofs about the FFmpeg backend, for streams, batches and sets of       *)
(* request items of any size, every kind of model, and whatever the SDK    *)
(* may fail to do.                                                         *)
(***************************************************************************)
EXTENDS DnnBackend, QueueLemmas

\* The tasks made so far, the frames of a task, and the tasks whose frames are sent
\* or that have left lltask_queue.
Queued == IF kind = "basicvsr" THEN fed \div Nif ELSE fed
Size == IF kind = "basicvsr" THEN Nif ELSE 1
Delivered == Queued - Len(taskQueue)
Started == Queued - Len(lltaskQueue)

\* The queue holds consecutive numbers, the last of which is n.
EndsWith(q, n) ==
    /\ Len(q) <= n
    /\ \A i \in 1 .. Len(q) : q[i] = (n - Len(q)) + i

\* The queues hold the newest tasks, in order.
QueueInv ==
    /\ EndsWith(taskQueue, Queued)
    /\ EndsWith(lltaskQueue, Queued)
    /\ pc = "request" => lltaskQueue # <<>>
    /\ kind # "tsenet" => Len(lltaskQueue) = IF pc = "request" THEN 1 ELSE 0

\* The frames of the delivered tasks are sent; of a batched stream the others are in
\* out_queue, in order, and in in_queue as long as they wait for a batch.
SentInv ==
    /\ sent \in Seq([frame : Frames, shows : Seq(Frames)])
    /\ Len(sent) = Size * Delivered
    /\ kind = "basicvsr" =>
         /\ Len(outQueue) = fed - Len(sent) /\ EndsWith(outQueue, fed)
         /\ Len(inQueue) = IF pc = "request" THEN Nif ELSE fed % Nif
         /\ pc = "request" => fed % Nif = 0

\* An item works on a task of its own, which has been started and, before the
\* callback is through with it, is neither done nor delivered; only started tasks are
\* delivered.
ItemInv ==
    /\ ItemsOwnedOnce
    /\ \A r \in Items : stage[r] \in InFlight => taskOf[r] \in 1 .. Started
    /\ \A r, s \in Items :
         stage[r] \in InFlight /\ stage[s] \in InFlight /\ taskOf[r] = taskOf[s] => r = s
    /\ \A r \in Items : stage[r] \in {"infer", "write", "mark"} =>
         taskOf[r] \notin inferenceDone /\ taskOf[r] > Delivered
    /\ inferenceDone \subseteq 1 .. Started
    /\ Delivered <= Started

\* A callback has the whole batch in its buffer and not yet written all of it.
OffsetInv ==
    kind = "basicvsr" =>
        \A r \in Items : stage[r] \in {"infer", "write"} =>
            offset[r] < Nif /\ Len(window[r]) = Nif

\* The newest pictures of the first stream of TSENet: the frame that is in hand, the
\* task that waits for its successor, and the two pictures before that.
TsenetInv ==
    kind = "tsenet" /\ first =>
        /\ pc = "request" =>
             IF frameNum = 0
             THEN fed = 1 /\ Len(lltaskQueue) = 1 /\ frameQueue = <<>>
             ELSE /\ fed >= 2 /\ Len(lltaskQueue) = 2
                  /\ frameQueue = IF fed = 2 THEN <<1, 1>> ELSE <<fed - 2, fed - 1>>
        /\ pc \notin {"request", "flush_wait", "eof", "error"} =>
             IF frameNum = 0
             THEN fed = 0 /\ Len(lltaskQueue) = 0 /\ frameQueue = <<>>
             ELSE /\ fed >= 1 /\ Len(lltaskQueue) = 1
                  /\ frameQueue = IF fed = 1 THEN <<1, 1>> ELSE <<fed - 1, fed>>

\* The neighbourhood is in the buffer of an item that works for it and, once written,
\* in the output frame.
ShowInv ==
    Stream!ShowsPromised =>
        /\ \A r \in Items : stage[r] \in {"infer", "write"} =>
             window[r] = Stream!Neighbourhood(taskOf[r], fed)
        /\ \A r \in Items : stage[r] = "mark" =>
             pixels[taskOf[r]] = Stream!Neighbourhood(taskOf[r], fed)
        /\ \A t \in inferenceDone : pixels[t] = Stream!Neighbourhood(t, fed)

\* A regular end comes when every task is delivered.
EofInv ==
    /\ pc = "eof" => taskQueue = <<>>
    /\ kind # "tsenet" => first

BackendInv ==
    /\ TypeOK /\ QueueInv /\ SentInv /\ ItemInv /\ OffsetInv /\ TsenetInv /\ ShowInv /\ EofInv

--------------------------------------------------------------------------------
(* Lemmas about the operators.                                               *)

\* Euclid's division.
LEMMA BatchDivision ==
    ASSUME NEW n \in Nat, NEW b \in Nat \ {0}
    PROVE  /\ n \div b \in Nat /\ n % b \in Nat
           /\ n = b * (n \div b) + (n % b) /\ n % b < b
  OBVIOUS

\* What one frame more does to the number of whole batches.
LEMMA NextBatch ==
    ASSUME NEW n \in Nat, NEW b \in Nat \ {0}
    PROVE  IF (n % b) + 1 = b
           THEN (n + 1) \div b = n \div b + 1 /\ (n + 1) % b = 0
           ELSE (n + 1) \div b = n \div b /\ (n + 1) % b = (n % b) + 1
<1>1. /\ n \div b \in Nat /\ n % b \in Nat
      /\ n = b * (n \div b) + (n % b) /\ n % b < b
  BY BatchDivision
<1>2. /\ (n + 1) \div b \in Nat /\ (n + 1) % b \in Nat
      /\ n + 1 = b * ((n + 1) \div b) + ((n + 1) % b) /\ (n + 1) % b < b
  BY BatchDivision
<1> DEFINE q == n \div b
           r == n % b
           s == (n + 1) \div b
           t == (n + 1) % b
<1>3. /\ q \in Nat /\ r \in Nat /\ n = b * q + r /\ r < b
      /\ s \in Nat /\ t \in Nat /\ n + 1 = b * s + t /\ t < b
  BY <1>1, <1>2
<1> HIDE DEF q, r, s, t
<1>4. b * s + t = b * q + r + 1
  BY <1>3
<1>5. ~(s < q)
  <2> SUFFICES ASSUME s <= q - 1 PROVE FALSE
    BY <1>3
  <2>1. b * s <= b * (q - 1)
    BY <1>3
  <2>2. b * (q - 1) = b * q - b
    BY <1>3
  <2>3. b * s \in Nat /\ b * q \in Nat
    BY <1>3
  <2> QED  BY <1>3, <1>4, <2>1, <2>2, <2>3
<1>6. ~(s > q + 1)
  <2> SUFFICES ASSUME s >= q + 2 PROVE FALSE
    BY <1>3
  <2>1. b * s >= b * (q + 2)
    BY <1>3
  <2>2. b * (q + 2) = b * q + 2 * b
    BY <1>3
  <2>3. b * s \in Nat /\ b * q \in Nat
    BY <1>3
  <2> QED  BY <1>3, <1>4, <2>1, <2>2, <2>3
<1>7. s = q \/ s = q + 1
  BY <1>3, <1>5, <1>6
<1>8. CASE s = q
  <2>1. b * q \in Nat
    BY <1>3
  <2>2. t = r + 1
    BY <1>3, <1>4, <1>8, <2>1
  <2> QED  BY <1>1, <1>3, <1>8, <2>2 DEF q, r, s, t
<1>9. CASE s = q + 1
  <2>1. b * q \in Nat /\ b * (q + 1) = b * q + b
    BY <1>3
  <2>2. t + b = r + 1
    BY <1>3, <1>4, <1>9, <2>1
  <2>3. t = 0 /\ r + 1 = b
    BY <1>3, <2>2
  <2> QED  BY <1>1, <1>9, <2>3 DEF q, r, s, t
<1> QED  BY <1>7, <1>8, <1>9

\* The order in which request_queue has the items at first.
LEMMA AllItems ==
    /\ SetToSeq(Items) \in Seq(Items)
    /\ \A i, j \in 1 .. Len(SetToSeq(Items)) :
         SetToSeq(Items)[i] = SetToSeq(Items)[j] => i = j
    /\ {SetToSeq(Items)[i] : i \in 1 .. Len(SetToSeq(Items))} = Items
<1> DEFINE n == Cardinality(Items)
           q == SetToSeq(Items)
<1>1. n \in Nat /\ ExistsBijection(1 .. n, Items)
  BY ItemsAssumption, FS_CardinalityType
<1>2. \E f \in [1 .. n -> Items] : IsInjective(f)
  BY <1>1 DEF ExistsBijection, Bijection, Injection
<1>3. q \in [1 .. n -> Items] /\ IsInjective(q)
  BY <1>2 DEF SetToSeq
<1>4. IsFiniteSet(1 .. n) /\ Cardinality(1 .. n) = n
  <2>1. /\ IsFiniteSet(1 .. n)
        /\ Cardinality(1 .. n) = IF 1 > n THEN 0 ELSE n - 1 + 1
    BY <1>1, FS_Interval
  <2> QED  BY <1>1, <2>1
<1> HIDE DEF n, q
<1>5. q \in Injection(1 .. n, Items)
  BY <1>3 DEF Injection
<1>6. q \in Surjection(1 .. n, Items)
  BY <1>4, <1>5, ItemsAssumption, FS_Injection DEF n
<1>7. q \in Seq(Items) /\ Len(q) = n
  BY <1>1, <1>3
<1>8. \A i, j \in 1 .. n : q[i] = q[j] => i = j
  BY <1>3 DEF IsInjective
<1>9. {q[i] : i \in 1 .. n} = Items
  <2>1. \A x \in Items : \E i \in 1 .. n : q[i] = x
    BY <1>6 DEF Surjection
  <2> QED  BY <1>3, <2>1
<1> QED  BY <1>7, <1>8, <1>9 DEF q

--------------------------------------------------------------------------------
(* The initial states, and what the numbers are in every state.              *)

\* How the number of frames, of tasks and of frames sent relate.
LEMMA Counts ==
    ASSUME BackendInv
    PROVE  /\ fed \in Nat /\ fed <= MaxFrames /\ MaxFrames \in Nat
           /\ Queued \in Nat /\ Size \in Nat \ {0} /\ Size * Queued \in Nat
           /\ Size * Queued <= fed /\ Queued <= fed
           /\ kind = "basicvsr" => fed = Nif * Queued + (fed % Nif) /\ fed % Nif \in Nat
           /\ Len(taskQueue) \in Nat /\ Delivered \in Nat /\ Delivered <= Queued
           /\ Len(lltaskQueue) \in Nat /\ Started \in Nat /\ Started <= Queued
<1>1. /\ fed \in Nat /\ fed <= MaxFrames /\ MaxFrames \in Nat
      /\ taskQueue \in Seq(Frames) /\ lltaskQueue \in Seq(Frames)
      /\ Len(taskQueue) <= Queued /\ Len(lltaskQueue) <= Queued
  BY BoundAssumption DEF BackendInv, TypeOK, QueueInv, EndsWith
<1>2. Nif \in Nat \ {0}
  BY BoundAssumption
<1>3. /\ Queued \in Nat /\ Size \in Nat \ {0} /\ Size * Queued \in Nat
      /\ Size * Queued <= fed
      /\ kind = "basicvsr" => fed = Nif * Queued + (fed % Nif) /\ fed % Nif \in Nat
  <2>1. CASE kind = "basicvsr"
    <3>1. Queued = fed \div Nif /\ Size = Nif
      BY <2>1 DEF Queued, Size
    <3>2. Queued \in Nat /\ fed % Nif \in Nat /\ fed = Nif * Queued + (fed % Nif)
      <4>1. /\ fed \div Nif \in Nat /\ fed % Nif \in Nat
            /\ fed = Nif * (fed \div Nif) + (fed % Nif)
        BY <1>1, <1>2, BatchDivision
      <4> QED  BY <3>1, <4>1
    <3>3. Nif * Queued \in Nat
      BY <1>2, <3>2
    <3> QED  BY <1>1, <1>2, <3>1, <3>2, <3>3
  <2>2. CASE kind # "basicvsr"
    <3>1. Queued = fed /\ Size = 1
      BY <2>2 DEF Queued, Size
    <3> QED  BY <1>1, <2>2, <3>1
  <2> QED  BY <2>1, <2>2
<1>4. Queued <= fed
  <2>1. 1 * Queued <= Size * Queued
    BY <1>3
  <2> QED  BY <1>1, <1>3, <2>1
<1>5. Len(taskQueue) \in Nat /\ Len(lltaskQueue) \in Nat
  BY <1>1
<1>6. Delivered \in Nat /\ Delivered <= Queued /\ Started \in Nat /\ Started <= Queued
  BY <1>1, <1>3, <1>5 DEF Delivered, Started
<1> QED  BY <1>1, <1>3, <1>4, <1>5, <1>6

LEMMA BackendInit == Init => BackendInv
<1> SUFFICES ASSUME Init PROVE BackendInv
  OBVIOUS
<1>1. /\ kind \in Kinds /\ first \in BOOLEAN /\ (kind # "tsenet" => first)
      /\ pc = "activate" /\ fed = 0 /\ sent = <<>> /\ inferenceDone = {}
      /\ taskQueue = <<>> /\ lltaskQueue = <<>>
      /\ frameQueue = <<>> /\ inQueue = <<>> /\ outQueue = <<>>
      /\ frameNum = IF first THEN 0 ELSE 1
      /\ requestQueue = SetToSeq(Items) /\ stage = [r \in Items |-> "free"]
  BY FirstAssumption DEF Init
<1>2. Queued = 0 /\ Delivered = 0 /\ Started = 0 /\ Size \in Nat
  <2>1. 0 \div Nif = 0
    <3>1. 0 \div Nif \in Nat /\ 0 = Nif * (0 \div Nif) + (0 % Nif) /\ 0 % Nif \in Nat
      BY BoundAssumption, BatchDivision
    <3> DEFINE q == 0 \div Nif
    <3> HIDE DEF q
    <3>2. q \in Nat /\ (q > 0 => Nif * q >= Nif) /\ Nif * q \in Nat
      BY <3>1, BoundAssumption DEF q
    <3>3. Nif * q = 0
      BY <3>1, <3>2, BoundAssumption DEF q
    <3> QED  BY <3>2, <3>3, BoundAssumption DEF q
  <2>2. Len(<<>>) = 0
    OBVIOUS
  <2> QED  BY <1>1, <2>1, <2>2, BoundAssumption DEF Queued, Delivered, Started, Size
<1>3. TypeOK
  <2>1. 0 \in 0 .. MaxFrames /\ 0 \in 0 .. Nif
    BY BoundAssumption
  <2>2. <<>> \in Seq(Frames)
    OBVIOUS
  <2>3. requestQueue \in Seq(Items)
    BY <1>1, AllItems
  <2> QED  BY <1>1, <2>1, <2>2, <2>3 DEF Init, TypeOK
<1>4. QueueInv
  <2>1. EndsWith(<<>>, 0)
    BY DEF EndsWith
  <2> QED  BY <1>1, <1>2, <2>1 DEF QueueInv
<1>5. SentInv
  <2>1. 0 % Nif = 0
    BY BoundAssumption
  <2>2. Size * 0 = 0
    BY <1>2
  <2>3. <<>> \in Seq([frame : Frames, shows : Seq(Frames)]) /\ Len(<<>>) = 0
    OBVIOUS
  <2>4. sent \in Seq([frame : Frames, shows : Seq(Frames)]) /\ Len(sent) = Size * Delivered
    BY <1>1, <1>2, <2>2, <2>3
  <2>5. Len(outQueue) = fed - Len(sent) /\ EndsWith(outQueue, fed)
    <3>1. Len(outQueue) = 0 /\ Len(sent) = 0 /\ fed = 0
      BY <1>1, <2>3
    <3>2. Len(outQueue) = fed - Len(sent)
      BY <3>1
    <3>3. 1 .. Len(outQueue) = {}
      BY <3>1
    <3> QED  BY <3>1, <3>2, <3>3 DEF EndsWith
  <2>6. Len(inQueue) = fed % Nif
    BY <1>1, <2>1, <2>3
  <2> QED  BY <1>1, <2>4, <2>5, <2>6 DEF SentInv
<1>6. ItemInv
  <2>1. ItemsOwnedOnce
    BY <1>1, AllItems DEF ItemsOwnedOnce
  <2>2. Delivered <= Started
    BY <1>2
  <2> QED  BY <1>1, <2>1, <2>2 DEF ItemInv, InFlight
<1>7. OffsetInv /\ ShowInv /\ EofInv
  BY <1>1 DEF OffsetInv, ShowInv, EofInv
<1>8. TsenetInv
  BY <1>1 DEF TsenetInv
<1> QED  BY <1>3, <1>4, <1>5, <1>6, <1>7, <1>8 DEF BackendInv

--------------------------------------------------------------------------------
(* Steps that only move the filter thread.                                   *)

\* The tasks are numbered the same after a step that feeds and queues nothing.
LEMMA SameTasks ==
    ASSUME UNCHANGED <<kind, fed>>
    PROVE  /\ Queued' = Queued /\ Size' = Size
           /\ taskQueue' = taskQueue => Delivered' = Delivered
           /\ lltaskQueue' = lltaskQueue => Started' = Started
<1>1. Queued' = Queued /\ Size' = Size
  BY DEF Queued, Size
<1> QED  BY <1>1 DEF Delivered, Started

\* The parts of the invariant about items depend on little else.
LEMMA ItemsKept ==
    ASSUME ItemInv, UNCHANGED <<itemVars, requestQueue, inferenceDone>>,
           Started' = Started, Delivered' = Delivered
    PROVE  ItemInv'
  BY DEF ItemInv, ItemsOwnedOnce, itemVars

LEMMA ShowKept ==
    ASSUME ShowInv, UNCHANGED <<kind, first, fed, itemVars, outVars>>
    PROVE  ShowInv'
  BY DEF ShowInv, itemVars, outVars, Stream!ShowsPromised, Stream!Neighbourhood

\* What lies behind the stream.
Behind == {"flush_wait", "eof", "error"}

LEMMA MoveKeeps ==
    ASSUME BackendInv,
           UNCHANGED <<kind, first, fed, queueVars, requestQueue, itemVars, outVars, sent>>,
           got' \in BOOLEAN, freed' \in BOOLEAN, running' \in BOOLEAN,
           pc' \in {"activate", "drain", "result", "settle", "flush"} \cup Behind,
           pc # "request", pc \in Behind => pc' \in Behind,
           pc' = "eof" => taskQueue = <<>>
    PROVE  BackendInv'
<1> USE DEF BackendInv, queueVars, Behind
<1>1. /\ Queued' = Queued /\ Size' = Size /\ Delivered' = Delivered /\ Started' = Started
  BY SameTasks
<1>2. TypeOK'
  BY DEF TypeOK, itemVars, outVars
<1>3. QueueInv' /\ SentInv'
  BY <1>1 DEF QueueInv, SentInv
<1>4. ItemInv' /\ OffsetInv'
  BY <1>1, ItemsKept DEF OffsetInv, outVars, itemVars
<1>5. TsenetInv'
  BY DEF TsenetInv
<1>6. ShowInv' /\ EofInv'
  BY ShowKept DEF EofInv
<1> QED  BY <1>2, <1>3, <1>4, <1>5, <1>6

--------------------------------------------------------------------------------
(* Frames in.                                                                *)

\* A queue of consecutive numbers stays one.
LEMMA OrderedAppend ==
    ASSUME NEW S, NEW q \in Seq(S), NEW n \in Nat, EndsWith(q, n), n + 1 \in S
    PROVE  /\ Append(q, n + 1) \in Seq(S) /\ EndsWith(Append(q, n + 1), n + 1)
           /\ Len(Append(q, n + 1)) = Len(q) + 1
<1> DEFINE p == Append(q, n + 1)
<1>1. /\ p \in Seq(S) /\ Len(p) = Len(q) + 1 /\ p[Len(q) + 1] = n + 1
      /\ \A i \in 1 .. Len(q) : p[i] = q[i]
  BY AppendFacts
<1>2. /\ Len(q) \in Nat /\ Len(q) <= n
      /\ \A i \in 1 .. Len(q) : q[i] = (n - Len(q)) + i
  BY DEF EndsWith
<1> HIDE DEF p
<1>3. (n + 1) - Len(p) = n - Len(q) /\ Len(p) <= n + 1
  BY <1>1, <1>2
<1>4. ASSUME NEW i \in 1 .. Len(p) PROVE p[i] = ((n + 1) - Len(p)) + i
  <2>1. CASE i = Len(q) + 1
    BY <1>1, <1>2, <1>3, <2>1
  <2>2. CASE i \in 1 .. Len(q)
    BY <1>1, <1>2, <1>3, <2>2
  <2> QED  BY <1>1, <1>2, <2>1, <2>2
<1> QED  BY <1>1, <1>3, <1>4 DEF EndsWith, p

LEMMA OrderedTail ==
    ASSUME NEW S, NEW q \in Seq(S), NEW n \in Nat, EndsWith(q, n), q # <<>>
    PROVE  /\ Tail(q) \in Seq(S) /\ EndsWith(Tail(q), n)
           /\ Len(q) \in Nat \ {0} /\ Len(q) <= n /\ Len(Tail(q)) = Len(q) - 1
           /\ Head(q) \in S /\ Head(q) = (n - Len(q)) + 1
<1> DEFINE p == Tail(q)
<1>1. /\ Head(q) = q[1] /\ Head(q) \in S /\ Len(q) \in Nat \ {0}
      /\ p \in Seq(S) /\ Len(p) = Len(q) - 1
      /\ \A i \in 1 .. Len(q) - 1 : p[i] = q[i + 1]
  BY TailFacts
<1>0. Len(q) <= n /\ \A i \in 1 .. Len(q) : q[i] = (n - Len(q)) + i
  BY DEF EndsWith
<1> HIDE DEF p
<1>2. q[1] = (n - Len(q)) + 1
  BY <1>0, <1>1
<1>3. n - Len(p) = (n - Len(q)) + 1 /\ Len(p) \in Nat /\ Len(p) <= n
  BY <1>0, <1>1
<1>4. ASSUME NEW i \in 1 .. Len(p) PROVE p[i] = (n - Len(p)) + i
  <2>1. p[i] = q[i + 1] /\ i + 1 \in 1 .. Len(q)
    BY <1>1
  <2>2. q[i + 1] = (n - Len(q)) + (i + 1)
    BY <1>0, <2>1
  <2> QED  BY <1>1, <1>3, <2>1, <2>2
<1> QED  BY <1>0, <1>1, <1>2, <1>3, <1>4 DEF EndsWith, p

\* A new task goes to the end of both queues.
LEMMA QueueTaskFacts ==
    ASSUME BackendInv, Queued' = Queued + 1, Queued + 1 \in Frames, QueueTask(Queued + 1)
    PROVE  /\ taskQueue' \in Seq(Frames) /\ lltaskQueue' \in Seq(Frames)
           /\ EndsWith(taskQueue', Queued') /\ EndsWith(lltaskQueue', Queued')
           /\ Len(lltaskQueue') = Len(lltaskQueue) + 1
           /\ Delivered' = Delivered /\ Started' = Started
<1>1. /\ taskQueue \in Seq(Frames) /\ lltaskQueue \in Seq(Frames)
      /\ EndsWith(taskQueue, Queued) /\ EndsWith(lltaskQueue, Queued)
  BY DEF BackendInv, TypeOK, QueueInv
<1>2. Queued \in Nat /\ Len(taskQueue) \in Nat /\ Len(lltaskQueue) \in Nat
  BY Counts
<1>3. /\ taskQueue' = Append(taskQueue, Queued + 1)
      /\ lltaskQueue' = Append(lltaskQueue, Queued + 1)
  BY DEF QueueTask
<1>4. /\ taskQueue' \in Seq(Frames) /\ EndsWith(taskQueue', Queued')
      /\ Len(taskQueue') = Len(taskQueue) + 1
  BY <1>1, <1>2, <1>3, OrderedAppend
<1>5. /\ lltaskQueue' \in Seq(Frames) /\ EndsWith(lltaskQueue', Queued')
      /\ Len(lltaskQueue') = Len(lltaskQueue) + 1
  BY <1>1, <1>2, <1>3, OrderedAppend
<1>6. /\ Delivered' = Queued' - Len(taskQueue') /\ Delivered = Queued - Len(taskQueue)
      /\ Started' = Queued' - Len(lltaskQueue') /\ Started = Queued - Len(lltaskQueue)
  BY DEF Delivered, Started
<1> HIDE DEF Queued, Delivered, Started
<1>7. Delivered' = Delivered /\ Started' = Started
  BY <1>2, <1>4, <1>5, <1>6
<1> QED  BY <1>4, <1>5, <1>7

\* What the frames in hand are computed from does not change when one more comes, as
\* each of them has its successor already.
LEMMA ShowFed ==
    ASSUME BackendInv, pc = "activate", fed' = fed + 1,
           UNCHANGED <<kind, first, itemVars, outVars>>
    PROVE  ShowInv'
<1> SUFFICES ASSUME Stream!ShowsPromised
             PROVE  /\ \A r \in Items : stage[r] \in {"infer", "write"} =>
                         window[r] = Stream!Neighbourhood(taskOf[r], fed)'
                    /\ \A r \in Items : stage[r] = "mark" =>
                         pixels[taskOf[r]] = Stream!Neighbourhood(taskOf[r], fed)'
                    /\ \A t \in inferenceDone : pixels[t] = Stream!Neighbourhood(t, fed)'
  BY DEF ShowInv, Stream!ShowsPromised, itemVars, outVars, Stream!Neighbourhood
<1>1. ASSUME NEW t \in 1 .. Started
      PROVE  Stream!Neighbourhood(t, fed)' = Stream!Neighbourhood(t, fed)
  <2>1. CASE kind = "tsenet"
    <3>1. first
      BY <2>1 DEF Stream!ShowsPromised
    <3>2. fed = 0 \/ Len(lltaskQueue) = 1
      BY <2>1, <3>1 DEF BackendInv, TsenetInv
    <3>3. Started = fed - Len(lltaskQueue) /\ fed \in Nat /\ Len(lltaskQueue) \in Nat
          /\ Started \in Nat
      BY <2>1, Counts DEF Started, Queued
    <3>4. t < fed
      BY <3>2, <3>3
    <3>5. t # fed /\ t # fed + 1
      BY <3>3, <3>4
    <3> QED  BY <3>5 DEF Stream!Neighbourhood
  <2>2. CASE kind # "tsenet"
    BY <2>2 DEF Stream!Neighbourhood
  <2> QED  BY <2>1, <2>2
<1>2. /\ \A r \in Items : stage[r] \in InFlight => taskOf[r] \in 1 .. Started
      /\ inferenceDone \subseteq 1 .. Started
  BY DEF BackendInv, ItemInv
<1>3. ASSUME NEW r \in Items, stage[r] \in {"infer", "write", "mark"}
      PROVE  Stream!Neighbourhood(taskOf[r], fed)' = Stream!Neighbourhood(taskOf[r], fed)
  <2>1. taskOf[r] \in 1 .. Started /\ taskOf'[r] = taskOf[r]
    BY <1>2, <1>3 DEF InFlight, itemVars
  <2> QED  BY <1>1, <2>1
<1>4. ShowInv
  BY DEF BackendInv
<1> QED  BY <1>1, <1>2, <1>3, <1>4 DEF ShowInv

LEMMA ConsumeStep ==
    ASSUME BackendInv, Consume
    PROVE  BackendInv'
<1>1. /\ TypeOK /\ QueueInv /\ SentInv /\ ItemInv /\ OffsetInv /\ TsenetInv /\ ShowInv /\ EofInv
  BY DEF BackendInv
<1>2. /\ pc = "activate" /\ pc' = "request" /\ kind # "basicvsr"
      /\ fed < MaxFrames /\ fed' = fed + 1 /\ QueueTask(fed + 1)
      /\ UNCHANGED <<kind, first, got, frameQueue, frameNum, inQueue, outQueue, requestQueue,
                     stage, taskOf, window, offset, inferenceDone, pixels, sent, freed, running>>
  BY DEF Consume, itemVars, outVars, endVars
<1>3. /\ Queued = fed /\ Queued' = fed + 1 /\ Size' = Size
  BY <1>2 DEF Queued, Size
<1>4. fed \in Nat /\ MaxFrames \in Nat /\ fed + 1 \in Frames /\ fed + 1 \in 0 .. MaxFrames
  BY <1>2, Counts DEF Frames
<1>5. /\ taskQueue' \in Seq(Frames) /\ lltaskQueue' \in Seq(Frames)
      /\ EndsWith(taskQueue', Queued') /\ EndsWith(lltaskQueue', Queued')
      /\ Len(lltaskQueue') = Len(lltaskQueue) + 1 /\ Len(lltaskQueue) \in Nat
      /\ Delivered' = Delivered /\ Started' = Started
  BY <1>2, <1>3, <1>4, QueueTaskFacts, Counts
<1>6. TypeOK'
  BY <1>1, <1>2, <1>4, <1>5 DEF TypeOK
<1>7. QueueInv'
  <2>1. lltaskQueue' # <<>>
    BY <1>5
  <2>2. kind # "tsenet" => Len(lltaskQueue') = 1
    BY <1>1, <1>2, <1>5 DEF QueueInv
  <2> QED  BY <1>2, <1>5, <2>1, <2>2 DEF QueueInv
<1>8. SentInv'
  BY <1>1, <1>2, <1>3, <1>5 DEF SentInv
<1>9. ItemInv' /\ OffsetInv'
  <2>1. UNCHANGED <<itemVars, requestQueue, inferenceDone>>
    BY <1>2 DEF itemVars
  <2> QED  BY <1>1, <1>2, <1>5, <2>1, ItemsKept DEF OffsetInv
<1>10. TsenetInv'
  <2> SUFFICES ASSUME kind = "tsenet", first
               PROVE  IF frameNum = 0
                      THEN fed' = 1 /\ Len(lltaskQueue') = 1 /\ frameQueue = <<>>
                      ELSE /\ fed' >= 2 /\ Len(lltaskQueue') = 2
                           /\ frameQueue = IF fed' = 2 THEN <<1, 1>> ELSE <<fed' - 2, fed' - 1>>
    BY <1>2 DEF TsenetInv
  <2>1. IF frameNum = 0
        THEN fed = 0 /\ Len(lltaskQueue) = 0 /\ frameQueue = <<>>
        ELSE /\ fed >= 1 /\ Len(lltaskQueue) = 1
             /\ frameQueue = IF fed = 1 THEN <<1, 1>> ELSE <<fed - 1, fed>>
    BY <1>1, <1>2 DEF TsenetInv
  <2>2. fed' - 2 = fed - 1 /\ fed' - 1 = fed /\ (fed' = 2 <=> fed = 1)
    BY <1>2, <1>4
  <2>3. CASE frameNum = 0
    BY <1>2, <1>5, <2>1, <2>3
  <2>4. CASE frameNum # 0
    <3>1. fed' >= 2 /\ Len(lltaskQueue') = 2
      <4>1. fed >= 1 /\ Len(lltaskQueue) = 1
        BY <2>1, <2>4
      <4>2. fed' = fed + 1 /\ fed \in Nat /\ Len(lltaskQueue') = Len(lltaskQueue) + 1
        BY <1>2, <1>4, <1>5
      <4> QED  BY <4>1, <4>2
    <3>2. frameQueue = IF fed = 1 THEN <<1, 1>> ELSE <<fed - 1, fed>>
      BY <2>1, <2>4
    <3> HIDE DEF Frames
    <3>3. frameQueue = IF fed' = 2 THEN <<1, 1>> ELSE <<fed' - 2, fed' - 1>>
      BY <2>2, <3>2
    <3> QED  BY <2>4, <3>1, <3>3
  <2> QED  BY <2>3, <2>4
<1>11. ShowInv'
  BY <1>2, ShowFed DEF itemVars, outVars
<1>12. EofInv'
  BY <1>1, <1>2 DEF EofInv
<1> QED  BY <1>6, <1>7, <1>8, <1>9, <1>10, <1>11, <1>12 DEF BackendInv

LEMMA ConsumeIntoBatchStep ==
    ASSUME BackendInv, ConsumeIntoBatch
    PROVE  BackendInv'
<1>1. /\ TypeOK /\ QueueInv /\ SentInv /\ ItemInv /\ OffsetInv /\ TsenetInv /\ ShowInv /\ EofInv
  BY DEF BackendInv
<1>2. /\ pc = "activate" /\ kind = "basicvsr"
      /\ fed < MaxFrames /\ fed' = fed + 1
      /\ inQueue' = Append(inQueue, fed + 1) /\ outQueue' = Append(outQueue, fed + 1)
      /\ UNCHANGED <<kind, first, got, frameQueue, frameNum, requestQueue,
                     stage, taskOf, window, offset, inferenceDone, pixels, sent, freed, running>>
  BY DEF ConsumeIntoBatch, itemVars, outVars, endVars
<1>3. /\ fed \in Nat /\ MaxFrames \in Nat /\ fed + 1 \in Frames /\ fed + 1 \in 0 .. MaxFrames
      /\ Nif \in Nat \ {0}
  <2>1. Nif \in Nat \ {0}
    BY BoundAssumption
  <2>2. fed \in Nat /\ MaxFrames \in Nat /\ fed < MaxFrames
    BY <1>2, Counts
  <2>3. fed + 1 \in 1 .. MaxFrames /\ fed + 1 \in 0 .. MaxFrames
    BY <2>2
  <2> QED  BY <2>1, <2>2, <2>3 DEF Frames
<1>4. /\ inQueue' \in Seq(Frames) /\ Len(inQueue') = (fed % Nif) + 1
      /\ Len(inQueue) = fed % Nif /\ fed % Nif \in Nat
  <2>1. inQueue \in Seq(Frames) /\ Len(inQueue) = fed % Nif
    BY <1>1, <1>2 DEF TypeOK, SentInv
  <2>2. fed % Nif \in Nat
    BY <1>2, Counts
  <2> QED  BY <1>2, <1>3, <2>1, <2>2, AppendFacts
<1>5. /\ outQueue' \in Seq(Frames) /\ EndsWith(outQueue', fed')
      /\ Len(outQueue') = fed' - Len(sent')
  <2>1. /\ outQueue \in Seq(Frames) /\ EndsWith(outQueue, fed)
        /\ Len(outQueue) = fed - Len(sent) /\ Len(sent) \in Nat
    BY <1>1, <1>2 DEF TypeOK, SentInv
  <2>2. /\ outQueue' \in Seq(Frames) /\ EndsWith(outQueue', fed + 1)
        /\ Len(outQueue') = Len(outQueue) + 1
    BY <1>2, <1>3, <2>1, OrderedAppend
  <2> QED  BY <1>2, <1>3, <2>1, <2>2
<1>6. Size' = Size /\ Queued = fed \div Nif /\ Queued' = (fed + 1) \div Nif /\ Queued \in Nat
  BY <1>2, Counts DEF Queued, Size
<1>7. /\ taskQueue' \in Seq(Frames) /\ lltaskQueue' \in Seq(Frames)
      /\ EndsWith(taskQueue', Queued') /\ EndsWith(lltaskQueue', Queued')
      /\ Delivered' = Delivered /\ Started' = Started
      /\ pc' \in {"request", "settle"}
      /\ Len(lltaskQueue') = IF pc' = "request" THEN 1 ELSE 0
      /\ Len(inQueue') = IF pc' = "request" THEN Nif ELSE fed' % Nif
      /\ pc' = "request" => fed' % Nif = 0
  <2>1. Len(lltaskQueue) = 0 /\ Len(lltaskQueue) \in Nat /\ Len(taskQueue) \in Nat
    BY <1>1, <1>2, Counts DEF QueueInv
  <2>2. CASE (fed % Nif) + 1 = Nif
    <3>1. Queued' = Queued + 1 /\ fed' % Nif = 0
      <4>1. (fed + 1) \div Nif = (fed \div Nif) + 1 /\ (fed + 1) % Nif = 0
        BY <1>3, <2>2, NextBatch
      <4> QED  BY <1>2, <1>6, <4>1
    <3>2. pc' = "request" /\ QueueTask(Queued + 1)
      BY <1>4, <1>6, <2>2, <3>1 DEF ConsumeIntoBatch
    <3>3. Queued + 1 \in Frames
      <4>1. Nif * (Queued + 1) = Nif * Queued + Nif
        BY <1>3, <1>6
      <4>2. fed = Nif * Queued + (fed % Nif) /\ Nif * Queued \in Nat
        BY <1>2, <1>3, <1>6, Counts
      <4>3. Nif * (Queued + 1) = fed + 1
        BY <1>3, <1>4, <2>2, <4>1, <4>2
      <4>4. 1 * (Queued + 1) <= Nif * (Queued + 1)
        BY <1>3, <1>6
      <4> QED  BY <1>3, <1>6, <4>3, <4>4 DEF Frames
    <3>4. /\ taskQueue' \in Seq(Frames) /\ lltaskQueue' \in Seq(Frames)
          /\ EndsWith(taskQueue', Queued') /\ EndsWith(lltaskQueue', Queued')
          /\ Len(lltaskQueue') = Len(lltaskQueue) + 1
          /\ Delivered' = Delivered /\ Started' = Started
      BY <3>1, <3>2, <3>3, QueueTaskFacts
    <3> QED  BY <1>4, <2>1, <2>2, <3>1, <3>2, <3>4
  <2>3. CASE (fed % Nif) + 1 # Nif
    <3>1. Queued' = Queued /\ fed' % Nif = (fed % Nif) + 1
      <4>1. (fed + 1) \div Nif = fed \div Nif /\ (fed + 1) % Nif = (fed % Nif) + 1
        BY <1>3, <2>3, NextBatch
      <4> QED  BY <1>2, <1>6, <4>1
    <3>2. pc' = "settle" /\ UNCHANGED <<taskQueue, lltaskQueue>>
      BY <1>4, <2>3 DEF ConsumeIntoBatch
    <3>3. Delivered' = Delivered /\ Started' = Started
      BY <3>1, <3>2 DEF Delivered, Started
    <3> QED  BY <1>1, <1>4, <2>1, <3>1, <3>2, <3>3 DEF TypeOK, QueueInv
  <2> QED  BY <2>2, <2>3
<1>8. TypeOK'
  BY <1>1, <1>2, <1>3, <1>4, <1>5, <1>7 DEF TypeOK
<1>9. QueueInv'
  <2>1. pc' = "request" => lltaskQueue' # <<>>
    BY <1>7
  <2> QED  BY <1>2, <1>7, <2>1 DEF QueueInv
<1>10. SentInv'
  BY <1>1, <1>2, <1>5, <1>6, <1>7 DEF SentInv
<1>11. ItemInv' /\ OffsetInv'
  <2>1. UNCHANGED <<itemVars, requestQueue, inferenceDone>>
    BY <1>2 DEF itemVars
  <2> QED  BY <1>1, <1>2, <1>7, <2>1, ItemsKept DEF OffsetInv
<1>12. TsenetInv' /\ EofInv'
  BY <1>1, <1>2, <1>7 DEF TsenetInv, EofInv
<1>13. ShowInv'
  BY <1>2, ShowFed DEF itemVars, outVars
<1> QED  BY <1>8, <1>9, <1>10, <1>11, <1>12, <1>13 DEF BackendInv

--------------------------------------------------------------------------------
(* Items and buffers.                                                        *)

\* request_queue, taken apart and put together.
FreeItems(q) == {q[i] : i \in 1 .. Len(q)}
Distinct(q) == \A i, j \in 1 .. Len(q) : q[i] = q[j] => i = j

LEMMA TailItems ==
    ASSUME NEW q \in Seq(Items), q # <<>>, Distinct(q)
    PROVE  /\ Head(q) \in Items /\ Head(q) \in FreeItems(q)
           /\ Tail(q) \in Seq(Items) /\ Distinct(Tail(q))
           /\ FreeItems(Tail(q)) = FreeItems(q) \ {Head(q)}
<1> DEFINE p == Tail(q)
<1>1. /\ Head(q) = q[1] /\ Head(q) \in Items /\ Len(q) \in Nat \ {0}
      /\ p \in Seq(Items) /\ Len(p) = Len(q) - 1
      /\ \A i \in 1 .. Len(q) - 1 : p[i] = q[i + 1]
  BY TailFacts
<1> HIDE DEF p
<1>2. \A i, j \in 1 .. Len(q) : q[i] = q[j] => i = j
  BY DEF Distinct
<1>3. 1 \in 1 .. Len(q)
  BY <1>1
<1>4. \A i \in 1 .. Len(p) : i + 1 \in 1 .. Len(q) /\ i + 1 # 1 /\ p[i] = q[i + 1]
  BY <1>1
<1>5. Distinct(p)
  <2> SUFFICES ASSUME NEW i \in 1 .. Len(p), NEW j \in 1 .. Len(p), p[i] = p[j]
               PROVE  i = j
    BY DEF Distinct
  <2>1. i + 1 = j + 1
    BY <1>2, <1>4
  <2> QED  BY <2>1
<1>6. \A i \in 1 .. Len(p) : p[i] \in FreeItems(q) \ {Head(q)}
  BY <1>1, <1>2, <1>3, <1>4 DEF FreeItems
<1>7. ASSUME NEW x \in FreeItems(q), x # Head(q) PROVE x \in FreeItems(p)
  <2>1. PICK k \in 1 .. Len(q) : q[k] = x
    BY DEF FreeItems
  <2>2. k # 1
    BY <1>1, <1>7, <2>1
  <2>3. k - 1 \in 1 .. Len(p) /\ (k - 1) + 1 = k
    BY <1>1, <2>2
  <2>4. p[k - 1] = x
    BY <1>4, <2>1, <2>3
  <2> QED  BY <2>3, <2>4 DEF FreeItems
<1>8. FreeItems(p) = FreeItems(q) \ {Head(q)}
  <2>1. FreeItems(p) \subseteq FreeItems(q) \ {Head(q)}
    BY <1>6 DEF FreeItems
  <2> QED  BY <1>7, <2>1
<1>9. Head(q) \in FreeItems(q)
  BY <1>1, <1>3 DEF FreeItems
<1> QED  BY <1>1, <1>5, <1>8, <1>9 DEF p

LEMMA AppendItem ==
    ASSUME NEW q \in Seq(Items), Distinct(q), NEW r \in Items, r \notin FreeItems(q)
    PROVE  /\ Append(q, r) \in Seq(Items) /\ Distinct(Append(q, r))
           /\ FreeItems(Append(q, r)) = FreeItems(q) \cup {r}
<1> DEFINE p == Append(q, r)
<1>1. /\ p \in Seq(Items) /\ Len(p) = Len(q) + 1 /\ p[Len(q) + 1] = r
      /\ \A i \in 1 .. Len(q) : p[i] = q[i]
  BY AppendFacts
<1>2. Len(q) \in Nat
  OBVIOUS
<1> HIDE DEF p
<1>3. \A i \in 1 .. Len(p) : i \in 1 .. Len(q) \/ i = Len(q) + 1
  BY <1>1, <1>2
<1>4. \A i \in 1 .. Len(q) : i \in 1 .. Len(p) /\ p[i] # r
  BY <1>1, <1>2 DEF FreeItems
<1>5. Distinct(p)
  <2>1. \A i, j \in 1 .. Len(q) : q[i] = q[j] => i = j
    BY DEF Distinct
  <2> SUFFICES ASSUME NEW i \in 1 .. Len(p), NEW j \in 1 .. Len(p), p[i] = p[j]
               PROVE  i = j
    BY DEF Distinct
  <2> QED  BY <1>1, <1>3, <1>4, <2>1
<1>6. FreeItems(p) \subseteq FreeItems(q) \cup {r}
  BY <1>1, <1>3 DEF FreeItems
<1>7. FreeItems(q) \subseteq FreeItems(p)
  BY <1>1, <1>4 DEF FreeItems
<1>8. r \in FreeItems(p)
  <2>1. Len(q) + 1 \in 1 .. Len(p)
    BY <1>1, <1>2
  <2> QED  BY <1>1, <2>1 DEF FreeItems
<1>9. FreeItems(p) = FreeItems(q) \cup {r}
  BY <1>6, <1>7, <1>8
<1> QED  BY <1>1, <1>5, <1>9 DEF p

LEMMA OwnedOnce ==
    ItemsOwnedOnce <=>
        Distinct(requestQueue) /\ FreeItems(requestQueue) = {r \in Items : stage[r] = "free"}
  BY DEF ItemsOwnedOnce, Distinct, FreeItems

\* The oldest free item is taken and no longer free.
LEMMA TakeItem ==
    ASSUME TypeOK, ItemsOwnedOnce, requestQueue # <<>>,
           requestQueue' = Tail(requestQueue),
           NEW s, s # "free", stage' = [stage EXCEPT ![Head(requestQueue)] = s]
    PROVE  /\ Head(requestQueue) \in Items /\ stage[Head(requestQueue)] = "free"
           /\ requestQueue' \in Seq(Items) /\ ItemsOwnedOnce'
<1> DEFINE r == Head(requestQueue)
<1>1. /\ requestQueue \in Seq(Items)
      /\ stage \in [Items -> {"free", "lost"} \cup InFlight]
  BY DEF TypeOK
<1>2. Distinct(requestQueue) /\ FreeItems(requestQueue) = {x \in Items : stage[x] = "free"}
  BY OwnedOnce
<1>3. /\ r \in Items /\ r \in FreeItems(requestQueue)
      /\ requestQueue' \in Seq(Items) /\ Distinct(requestQueue')
      /\ FreeItems(requestQueue') = FreeItems(requestQueue) \ {r}
  BY <1>1, <1>2, TailItems
<1> HIDE DEF r
<1>4. stage' = [stage EXCEPT ![r] = s]
  BY DEF r
<1>5. {x \in Items : stage'[x] = "free"} = {x \in Items : stage[x] = "free"} \ {r}
  BY <1>1, <1>3, <1>4
<1>6. Distinct(requestQueue)' /\ FreeItems(requestQueue)' = {x \in Items : stage'[x] = "free"}
  BY <1>2, <1>3, <1>5 DEF Distinct, FreeItems
<1>7. ItemsOwnedOnce'
  BY <1>6 DEF ItemsOwnedOnce, Distinct, FreeItems
<1> QED  BY <1>2, <1>3, <1>7 DEF r

\* It is put back at the end after all.
LEMMA RotateItem ==
    ASSUME TypeOK, ItemsOwnedOnce, requestQueue # <<>>,
           requestQueue' = Append(Tail(requestQueue), Head(requestQueue)), stage' = stage
    PROVE  requestQueue' \in Seq(Items) /\ ItemsOwnedOnce'
<1> DEFINE r == Head(requestQueue)
           q == Tail(requestQueue)
<1>1. /\ requestQueue \in Seq(Items)
      /\ Distinct(requestQueue) /\ FreeItems(requestQueue) = {x \in Items : stage[x] = "free"}
  BY OwnedOnce DEF TypeOK
<1>2. /\ r \in Items /\ r \in FreeItems(requestQueue)
      /\ q \in Seq(Items) /\ Distinct(q) /\ FreeItems(q) = FreeItems(requestQueue) \ {r}
  BY <1>1, TailItems
<1> HIDE DEF r, q
<1>3. requestQueue' = Append(q, r)
  BY DEF q, r
<1>4. /\ requestQueue' \in Seq(Items) /\ Distinct(requestQueue')
      /\ FreeItems(requestQueue') = FreeItems(q) \cup {r}
  BY <1>2, <1>3, AppendItem
<1>5. FreeItems(requestQueue') = {x \in Items : stage'[x] = "free"}
  BY <1>1, <1>2, <1>4
<1> QED  BY <1>4, <1>5 DEF ItemsOwnedOnce, Distinct, FreeItems

\* An item that was not free becomes so.
LEMMA PutItem ==
    ASSUME TypeOK, ItemsOwnedOnce, NEW r \in Items, stage[r] # "free",
           requestQueue' = Append(requestQueue, r),
           stage' = [stage EXCEPT ![r] = "free"]
    PROVE  requestQueue' \in Seq(Items) /\ ItemsOwnedOnce'
<1>1. /\ requestQueue \in Seq(Items)
      /\ stage \in [Items -> {"free", "lost"} \cup InFlight]
      /\ Distinct(requestQueue) /\ FreeItems(requestQueue) = {x \in Items : stage[x] = "free"}
  BY OwnedOnce DEF TypeOK
<1>2. /\ requestQueue' \in Seq(Items) /\ Distinct(requestQueue')
      /\ FreeItems(requestQueue') = FreeItems(requestQueue) \cup {r}
  BY <1>1, AppendItem
<1>3. {x \in Items : stage'[x] = "free"} = {x \in Items : stage[x] = "free"} \cup {r}
  BY <1>1
<1>4. FreeItems(requestQueue') = {x \in Items : stage'[x] = "free"}
  BY <1>1, <1>2, <1>3
<1> QED  BY <1>2, <1>4 DEF ItemsOwnedOnce, Distinct, FreeItems

\* An item that is not free goes on to another stage in which it is not.
LEMMA MoveItem ==
    ASSUME TypeOK, ItemsOwnedOnce, NEW r \in Items, stage[r] # "free",
           requestQueue' = requestQueue,
           NEW s, s # "free", stage' = [stage EXCEPT ![r] = s]
    PROVE  ItemsOwnedOnce'
<1>1. stage \in [Items -> {"free", "lost"} \cup InFlight]
  BY DEF TypeOK
<1>2. {x \in Items : stage'[x] = "free"} = {x \in Items : stage[x] = "free"}
  BY <1>1
<1> QED  BY <1>2 DEF ItemsOwnedOnce

--------------------------------------------------------------------------------
(* Inferences started.                                                       *)

\* What fill_model_input_ivsr puts together for TSENet is a sequence of frames.
LEMMA TsenetFramesType ==
    ASSUME BackendInv, lltaskQueue # <<>>
    PROVE  /\ Last(lltaskQueue) \in Frames /\ Last(lltaskQueue) = Queued
           /\ TsenetFrames \in Seq(Frames) /\ Len(TsenetFrames) \in Nat \ {0}
           /\ Tail(TsenetFrames) \in Seq(Frames)
<1>1. lltaskQueue \in Seq(Frames) /\ frameQueue \in Seq(Frames) /\ EndsWith(lltaskQueue, Queued)
  BY DEF BackendInv, TypeOK, QueueInv
<1>2. Len(lltaskQueue) \in Nat \ {0} /\ Queued \in Nat
  BY <1>1, Counts
<1> DEFINE x == Last(lltaskQueue)
<1>3. x \in Frames /\ x = Queued
  <2>1. Len(lltaskQueue) \in 1 .. Len(lltaskQueue)
    BY <1>2
  <2>2. x = (Queued - Len(lltaskQueue)) + Len(lltaskQueue)
    BY <1>1, <2>1 DEF EndsWith, Last
  <2> QED  BY <1>1, <1>2, <2>1, <2>2, ElementFacts DEF Last
<1>4. TsenetFrames = frameQueue \o (IF frameNum = 0 THEN <<x, x>> ELSE <<x>>)
  BY DEF TsenetFrames
<1> HIDE DEF x
<1>5. TsenetFrames \in Seq(Frames) /\ Len(TsenetFrames) \in Nat \ {0}
  <2>1. CASE frameNum = 0
    BY <1>1, <1>3, <1>4, <2>1
  <2>2. CASE frameNum # 0
    BY <1>1, <1>3, <1>4, <2>2
  <2> QED  BY <2>1, <2>2
<1>6. Tail(TsenetFrames) \in Seq(Frames)
  <2>1. TsenetFrames # <<>>
    BY <1>5
  <2> QED  BY <1>5, <2>1, TailFacts
<1> QED  BY <1>3, <1>5, <1>6 DEF x

\* Two pictures and a third.
LEMMA Joined ==
    ASSUME NEW a \in Int, NEW b \in Int, NEW c \in Int
    PROVE  <<a, b>> \o <<c>> = <<a, b, c>>
<1> DEFINE p == <<a, b>>
           q == <<c>>
           s == p \o q
           t == <<a, b, c>>
<1>1. p \in Seq(Int) /\ q \in Seq(Int) /\ Len(p) = 2 /\ Len(q) = 1
  OBVIOUS
<1>2. p[1] = a /\ p[2] = b /\ q[1] = c
  OBVIOUS
<1>3. s \in Seq(Int) /\ Len(s) = 3 /\ s[1] = p[1] /\ s[2] = p[2] /\ s[3] = q[1]
  BY <1>1
<1>4. t \in Seq(Int) /\ Len(t) = 3 /\ t[1] = a /\ t[2] = b /\ t[3] = c
  OBVIOUS
<1> HIDE DEF s, t
<1>5. s = [i \in 1 .. 3 |-> s[i]] /\ t = [i \in 1 .. 3 |-> t[i]]
  BY <1>3, <1>4
<1>6. \A i \in 1 .. 3 : s[i] = t[i]
  BY <1>2, <1>3, <1>4
<1>7. s = t
  BY <1>5, <1>6
<1> QED  BY <1>7 DEF s, t

\* In the first stream the newest picture completes the neighbourhood of the task
\* that waited for it; the first picture has none to complete.
LEMMA TsenetWindow ==
    ASSUME BackendInv, lltaskQueue # <<>>, kind = "tsenet", first, pc \in {"request", "flush"}
    PROVE  /\ frameNum = 0 => TsenetFrames = <<1, 1>> /\ fed = 1 /\ Len(lltaskQueue) = 1
           /\ frameNum # 0 =>
                /\ TsenetFrames = Stream!Neighbourhood(Started + 1, fed)
                /\ pc = "request" =>
                     /\ fed >= 2 /\ Len(lltaskQueue) = 2
                     /\ Tail(TsenetFrames) = <<fed - 1, fed>>
<1>1. Last(lltaskQueue) = fed /\ fed \in Nat /\ Started = fed - Len(lltaskQueue)
  BY TsenetFramesType, Counts DEF Queued, Started
<1>2. Len(lltaskQueue) # 0
  BY DEF BackendInv, TypeOK
<1>3. TsenetInv
  BY DEF BackendInv
<1>4. CASE frameNum = 0
  <2>1. fed = 1 /\ Len(lltaskQueue) = 1 /\ frameQueue = <<>>
    BY <1>2, <1>3, <1>4 DEF TsenetInv
  <2>2. TsenetFrames = <<>> \o <<1, 1>>
    BY <1>1, <1>4, <2>1 DEF TsenetFrames
  <2> QED  BY <1>4, <2>1, <2>2
<1>5. CASE frameNum # 0 /\ pc = "request"
  <2>1. /\ fed >= 2 /\ Len(lltaskQueue) = 2
        /\ frameQueue = IF fed = 2 THEN <<1, 1>> ELSE <<fed - 2, fed - 1>>
    BY <1>3, <1>5 DEF TsenetInv
  <2>2. Started + 1 = fed - 1
    BY <1>1, <2>1
  <2>3. CASE fed = 2
    <3>1. TsenetFrames = <<1, 1>> \o <<2>>
      BY <1>1, <1>5, <2>1, <2>3 DEF TsenetFrames
    <3>2. TsenetFrames = <<1, 1, 2>>
      BY <3>1, Joined
    <3>3. Tail(<<1, 1, 2>>) = <<1, 2>>
      OBVIOUS
    <3>4. Stream!Neighbourhood(1, 2) = <<1, 1, 2>>
      BY DEF Stream!Neighbourhood
    <3> QED  BY <1>5, <2>1, <2>2, <2>3, <3>2, <3>3, <3>4
  <2>4. CASE fed # 2
    <3>1. TsenetFrames = <<fed - 2, fed - 1>> \o <<fed>>
      BY <1>1, <1>5, <2>1, <2>4 DEF TsenetFrames
    <3>2. TsenetFrames = <<fed - 2, fed - 1, fed>>
      BY <1>1, <3>1, Joined
    <3>3. Tail(<<fed - 2, fed - 1, fed>>) = <<fed - 1, fed>>
      OBVIOUS
    <3>4. fed - 1 # 1 /\ fed - 1 # fed /\ (fed - 1) - 1 = fed - 2 /\ (fed - 1) + 1 = fed
      BY <1>1, <2>1, <2>4
    <3>5. Stream!Neighbourhood(fed - 1, fed) = <<fed - 2, fed - 1, fed>>
      BY <3>4 DEF Stream!Neighbourhood
    <3> QED  BY <1>5, <2>1, <2>2, <3>2, <3>3, <3>5
  <2> QED  BY <2>3, <2>4
<1>6. CASE frameNum # 0 /\ pc = "flush"
  <2>1. /\ fed >= 1 /\ Len(lltaskQueue) = 1
        /\ frameQueue = IF fed = 1 THEN <<1, 1>> ELSE <<fed - 1, fed>>
    BY <1>3, <1>6 DEF TsenetInv
  <2>2. Started + 1 = fed
    BY <1>1, <2>1
  <2>3. CASE fed = 1
    <3>1. TsenetFrames = <<1, 1>> \o <<1>>
      BY <1>1, <1>6, <2>1, <2>3 DEF TsenetFrames
    <3>2. TsenetFrames = <<1, 1, 1>>
      BY <3>1, Joined
    <3>3. Stream!Neighbourhood(1, 1) = <<1, 1, 1>>
      BY DEF Stream!Neighbourhood
    <3> QED  BY <1>6, <2>2, <2>3, <3>2, <3>3
  <2>4. CASE fed # 1
    <3>1. TsenetFrames = <<fed - 1, fed>> \o <<fed>>
      BY <1>1, <1>6, <2>1, <2>4 DEF TsenetFrames
    <3>2. TsenetFrames = <<fed - 1, fed, fed>>
      BY <1>1, <3>1, Joined
    <3>3. Stream!Neighbourhood(fed, fed) = <<fed - 1, fed, fed>>
      BY <2>4 DEF Stream!Neighbourhood
    <3> QED  BY <1>6, <2>2, <3>2, <3>3
  <2> QED  BY <2>3, <2>4
<1> QED  BY <1>4, <1>5, <1>6

\* The oldest last-level task is the one after those that were started before; what is
\* filled in for it are frames.
LEMMA NextTask ==
    ASSUME BackendInv, lltaskQueue # <<>>
    PROVE  /\ Head(lltaskQueue) = Started + 1 /\ Head(lltaskQueue) \in Frames
           /\ Started + 1 <= Queued /\ Len(lltaskQueue) \in Nat \ {0}
           /\ Tail(lltaskQueue) \in Seq(Frames) /\ EndsWith(Tail(lltaskQueue), Queued)
           /\ Len(Tail(lltaskQueue)) = Len(lltaskQueue) - 1
           /\ Queued - Len(Tail(lltaskQueue)) = Started + 1
           /\ FilledWindow \in Seq(Frames)
<1>1. /\ lltaskQueue \in Seq(Frames) /\ EndsWith(lltaskQueue, Queued)
      /\ inQueue \in Seq(Frames) /\ kind \in {"single", "tsenet", "basicvsr"}
  BY KindsAssumption DEF BackendInv, TypeOK, QueueInv
<1>2. Queued \in Nat /\ Started = Queued - Len(lltaskQueue)
  BY Counts DEF Started
<1>3. /\ Tail(lltaskQueue) \in Seq(Frames) /\ EndsWith(Tail(lltaskQueue), Queued)
      /\ Len(lltaskQueue) \in Nat \ {0} /\ Len(lltaskQueue) <= Queued
      /\ Len(Tail(lltaskQueue)) = Len(lltaskQueue) - 1
      /\ Head(lltaskQueue) \in Frames /\ Head(lltaskQueue) = (Queued - Len(lltaskQueue)) + 1
  BY <1>1, <1>2, OrderedTail
<1>4. Started + 1 <= Queued /\ Queued - Len(Tail(lltaskQueue)) = Started + 1
  BY <1>2, <1>3
<1>5. FilledWindow \in Seq(Frames)
  <2>1. Last(lltaskQueue) \in Frames
    BY <1>1, <1>3, ElementFacts DEF Last
  <2>2. TsenetFrames \in Seq(Frames) /\ <<Last(lltaskQueue)>> \in Seq(Frames)
    BY <1>3, <2>1, TsenetFramesType
  <2> QED  BY <1>1, <2>2 DEF FilledWindow
<1> QED  BY <1>2, <1>3, <1>4, <1>5

\* What filling in the oldest last-level task does to the queues, whatever becomes of
\* the inference.
LEMMA FillKeeps ==
    ASSUME BackendInv, lltaskQueue # <<>>, ~NeedsMoreFrames, FillQueues,
           UNCHANGED <<kind, first, fed, sent>>,
           \/ pc = "request" /\ pc' \in {AfterExecute, "error"}
           \/ pc = "flush" /\ pc' = "flush_wait"
    PROVE  /\ lltaskQueue' \in Seq(Frames) /\ frameQueue' \in Seq(Frames)
           /\ inQueue' \in Seq(Frames) /\ frameNum' \in {0, 1}
           /\ Started' = Started + 1 /\ Delivered' = Delivered
           /\ QueueInv' /\ SentInv' /\ TsenetInv' /\ EofInv'
<1>1. /\ TypeOK /\ QueueInv /\ SentInv /\ TsenetInv /\ EofInv
  BY DEF BackendInv
<1>2. /\ frameQueue' = IF kind = "tsenet" THEN Tail(TsenetFrames) ELSE frameQueue
      /\ frameNum' = IF kind = "tsenet" THEN 1 ELSE frameNum
      /\ inQueue' = IF kind = "basicvsr" THEN <<>> ELSE inQueue
      /\ lltaskQueue' = Tail(lltaskQueue)
      /\ taskQueue' = taskQueue /\ outQueue' = outQueue
  BY DEF FillQueues
<1>3. /\ lltaskQueue' \in Seq(Frames) /\ EndsWith(lltaskQueue', Queued)
      /\ Len(lltaskQueue') = Len(lltaskQueue) - 1 /\ Len(lltaskQueue) \in Nat \ {0}
      /\ Queued - Len(lltaskQueue') = Started + 1
  BY <1>2, NextTask
<1>4. Queued' = Queued /\ Size' = Size /\ Delivered' = Delivered
  BY <1>2, SameTasks
<1>5. Started' = Started + 1
  BY <1>3, <1>4 DEF Started
<1>6. frameQueue' \in Seq(Frames) /\ inQueue' \in Seq(Frames) /\ frameNum' \in {0, 1}
  BY <1>1, <1>2, TsenetFramesType DEF TypeOK
<1>7. pc' \in {"result", "activate", "error", "flush_wait"}
  BY DEF AfterExecute
<1>8. kind # "tsenet" => pc = "request" /\ Len(lltaskQueue) = 1
  BY <1>1, <1>3 DEF QueueInv
<1>9. QueueInv'
  <2>1. kind # "tsenet" => Len(lltaskQueue') = 0
    BY <1>3, <1>8
  <2> QED  BY <1>1, <1>2, <1>3, <1>4, <1>7, <2>1 DEF QueueInv
<1>10. SentInv'
  <2>1. kind = "basicvsr" => Len(inQueue') = fed % Nif
    BY <1>1, <1>2, <1>8 DEF SentInv
  <2> QED  BY <1>1, <1>2, <1>4, <1>7, <2>1 DEF SentInv
<1>11. TsenetInv'
  <2> SUFFICES ASSUME kind = "tsenet", first, pc' \notin {"flush_wait", "eof", "error"}
               PROVE  /\ frameNum' # 0 /\ fed >= 1 /\ Len(lltaskQueue') = 1
                      /\ frameQueue' = IF fed = 1 THEN <<1, 1>> ELSE <<fed - 1, fed>>
    BY <1>7 DEF TsenetInv
  <2>1. pc = "request"
    OBVIOUS
  <2>2. frameNum # 0
    <3> SUFFICES ASSUME frameNum = 0 PROVE FALSE
      OBVIOUS
    <3>1. TsenetFrames = <<1, 1>>
      BY <2>1, TsenetWindow
    <3> QED  BY <3>1 DEF NeedsMoreFrames
  <2>3. fed >= 2 /\ Len(lltaskQueue) = 2 /\ Tail(TsenetFrames) = <<fed - 1, fed>>
    BY <2>1, <2>2, TsenetWindow
  <2>4. fed \in Nat
    BY Counts
  <2>5. Len(lltaskQueue') = 1 /\ fed >= 1 /\ fed # 1
    BY <1>3, <2>3, <2>4
  <2> QED  BY <1>2, <2>3, <2>5
<1>12. EofInv'
  BY <1>1, <1>7 DEF EofInv
<1> QED  BY <1>3, <1>4, <1>5, <1>6, <1>9, <1>10, <1>11, <1>12

\* Nothing is started, and no item goes further than it was: it may be lost or freed.
LEMMA NoneStarted ==
    ASSUME BackendInv, ItemsOwnedOnce', stage' \in [Items -> {"free", "lost"} \cup InFlight],
           \A r \in Items : stage'[r] \in InFlight => stage'[r] = stage[r],
           UNCHANGED <<kind, first, fed, taskOf, window, offset, outVars>>,
           Started' \in {Started, Started + 1}, Delivered' = Delivered
    PROVE  ItemInv' /\ OffsetInv' /\ ShowInv'
<1>1. ItemInv /\ OffsetInv /\ ShowInv /\ Started \in Nat /\ Delivered \in Nat
  BY Counts DEF BackendInv
<1>2. \A r \in Items : stage'[r] \in InFlight => stage'[r] = stage[r]
  OBVIOUS
<1>3. Started' \in Nat /\ Started <= Started'
  BY <1>1
<1>4. \A t \in 1 .. Started : t \in 1 .. Started'
  BY <1>1, <1>3
<1>5. ItemInv'
  <2>1. \A r \in Items : stage'[r] \in InFlight => taskOf'[r] \in 1 .. Started'
    BY <1>1, <1>2, <1>4 DEF ItemInv
  <2>2. \A r, s \in Items :
           stage'[r] \in InFlight /\ stage'[s] \in InFlight /\ taskOf'[r] = taskOf'[s] => r = s
    BY <1>1, <1>2 DEF ItemInv
  <2>3. \A r \in Items : stage'[r] \in {"infer", "write", "mark"} =>
           taskOf'[r] \notin inferenceDone' /\ taskOf'[r] > Delivered'
    BY <1>1, <1>2 DEF ItemInv, InFlight, outVars
  <2>4. inferenceDone' \subseteq 1 .. Started'
    BY <1>1, <1>4 DEF ItemInv, outVars
  <2>5. Delivered' <= Started'
    BY <1>1, <1>3 DEF ItemInv
  <2> QED  BY <2>1, <2>2, <2>3, <2>4, <2>5 DEF ItemInv
<1>6. OffsetInv'
  BY <1>1, <1>2 DEF OffsetInv, InFlight
<1>7. ShowInv'
  BY <1>1, <1>2 DEF ShowInv, InFlight, outVars, Stream!ShowsPromised, Stream!Neighbourhood
<1> QED  BY <1>5, <1>6, <1>7

\* What is filled in is what the task's output frame is to be computed from, and of a
\* batch it is the whole.
LEMMA FilledRight ==
    ASSUME BackendInv, lltaskQueue # <<>>, ~NeedsMoreFrames, pc \in {"request", "flush"}
    PROVE  /\ Stream!ShowsPromised => FilledWindow = Stream!Neighbourhood(Started + 1, fed)
           /\ kind = "basicvsr" => Len(FilledWindow) = Nif
<1>1. Head(lltaskQueue) = Started + 1 /\ Len(lltaskQueue) \in Nat \ {0}
  BY NextTask
<1>2. CASE kind = "tsenet"
  <2>1. FilledWindow = TsenetFrames
    BY <1>2 DEF FilledWindow
  <2>2. ASSUME first PROVE TsenetFrames = Stream!Neighbourhood(Started + 1, fed)
    <3>1. frameNum # 0
      <4> SUFFICES ASSUME frameNum = 0 PROVE FALSE
        OBVIOUS
      <4>1. TsenetFrames = <<1, 1>>
        BY <1>2, <2>2, TsenetWindow
      <4> QED  BY <1>2, <4>1 DEF NeedsMoreFrames
    <3> QED  BY <1>2, <2>2, <3>1, TsenetWindow
  <2> QED  BY <1>2, <2>1, <2>2 DEF Stream!ShowsPromised
<1>3. CASE kind = "basicvsr"
  <2>1. pc = "request"
    BY <1>1, <1>3 DEF BackendInv, QueueInv
  <2>2. Len(inQueue) = Nif
    BY <1>3, <2>1 DEF BackendInv, SentInv
  <2> QED  BY <1>3, <2>2 DEF FilledWindow, Stream!ShowsPromised
<1>4. CASE kind \notin {"tsenet", "basicvsr"}
  <2>1. Len(lltaskQueue) = 1 /\ lltaskQueue \in Seq(Frames)
    BY <1>1, <1>4 DEF BackendInv, TypeOK, QueueInv
  <2>2. Last(lltaskQueue) = Started + 1
    BY <1>1, <2>1 DEF Last
  <2>3. FilledWindow = <<Started + 1>>
    BY <1>4, <2>2 DEF FilledWindow
  <2> QED  BY <1>4, <2>3 DEF Stream!Neighbourhood
<1> QED  BY <1>2, <1>3, <1>4

\* An inference is started: the item gets the next task, and what is in hand stays.
LEMMA StartKeeps ==
    ASSUME BackendInv, pc \in {"request", "flush"}, lltaskQueue # <<>>, requestQueue # <<>>,
           ~NeedsMoreFrames, Start(Head(requestQueue)),
           UNCHANGED <<kind, first, fed, outVars>>,
           Started' = Started + 1, Delivered' = Delivered
    PROVE  /\ requestQueue' \in Seq(Items) /\ stage' \in [Items -> {"free", "lost"} \cup InFlight]
           /\ taskOf' \in [Items -> Frames \cup {0}] /\ window' \in [Items -> Seq(Frames)]
           /\ offset' \in [Items -> 0 .. Nif]
           /\ ItemInv' /\ OffsetInv' /\ ShowInv'
<1> DEFINE r == Head(requestQueue)
           t == Started + 1
<1>1. TypeOK /\ ItemInv /\ OffsetInv /\ ShowInv
  BY DEF BackendInv
<1>2. /\ requestQueue' = Tail(requestQueue)
      /\ stage' = [stage EXCEPT ![r] = "infer"]
      /\ taskOf' = [taskOf EXCEPT ![r] = Head(lltaskQueue)]
      /\ window' = [window EXCEPT ![r] = FilledWindow]
      /\ offset' = [offset EXCEPT ![r] = 0]
      /\ inferenceDone' = inferenceDone /\ pixels' = pixels
  BY DEF Start, outVars
<1>3. r \in Items /\ stage[r] = "free" /\ requestQueue' \in Seq(Items) /\ ItemsOwnedOnce'
  BY <1>1, <1>2, TakeItem DEF ItemInv
<1>4. Head(lltaskQueue) = t /\ t \in Frames /\ FilledWindow \in Seq(Frames)
  BY NextTask
<1>5. /\ stage \in [Items -> {"free", "lost"} \cup InFlight] /\ taskOf \in [Items -> Frames \cup {0}]
      /\ window \in [Items -> Seq(Frames)] /\ offset \in [Items -> 0 .. Nif]
      /\ Nif \in Nat \ {0, 1}
  BY <1>1, BoundAssumption DEF TypeOK
<1>6. Started \in Nat /\ Delivered \in Nat /\ Delivered <= Started
  BY <1>1, Counts DEF ItemInv
<1>7. /\ t \in 1 .. Started' /\ t > Delivered' /\ t \notin 1 .. Started
      /\ \A u \in 1 .. Started : u \in 1 .. Started'
      /\ Delivered' <= Started'
  <2> HIDE DEF Started, Delivered
  <2> QED  BY <1>6
<1> HIDE DEF r, t
<1>8. /\ stage'[r] = "infer" /\ taskOf'[r] = t /\ window'[r] = FilledWindow /\ offset'[r] = 0
      /\ \A x \in Items \ {r} : /\ stage'[x] = stage[x] /\ taskOf'[x] = taskOf[x]
                                /\ window'[x] = window[x] /\ offset'[x] = offset[x]
  BY <1>2, <1>3, <1>4, <1>5
<1>9. /\ stage' \in [Items -> {"free", "lost"} \cup InFlight]
      /\ taskOf' \in [Items -> Frames \cup {0}] /\ window' \in [Items -> Seq(Frames)]
      /\ offset' \in [Items -> 0 .. Nif]
  BY <1>2, <1>3, <1>4, <1>5 DEF InFlight
<1>10. ItemInv'
  <2>1. \A x \in Items : stage'[x] \in InFlight => taskOf'[x] \in 1 .. Started'
    BY <1>1, <1>7, <1>8 DEF ItemInv
  <2>2. ASSUME NEW x \in Items, NEW y \in Items, stage'[x] \in InFlight, stage'[y] \in InFlight,
               taskOf'[x] = taskOf'[y]
        PROVE  x = y
    <3>1. \A z \in Items \ {r} : stage'[z] \in InFlight => taskOf'[z] # t
      BY <1>1, <1>7, <1>8 DEF ItemInv
    <3> QED  BY <1>1, <1>8, <2>2, <3>1 DEF ItemInv
  <2>3. t \notin inferenceDone
    BY <1>1, <1>7 DEF ItemInv
  <2>4. \A x \in Items : stage'[x] \in {"infer", "write", "mark"} =>
           taskOf'[x] \notin inferenceDone' /\ taskOf'[x] > Delivered'
    BY <1>1, <1>2, <1>7, <1>8, <2>3 DEF ItemInv
  <2>5. inferenceDone' \subseteq 1 .. Started'
    BY <1>1, <1>2, <1>7 DEF ItemInv
  <2> QED  BY <1>3, <1>7, <2>1, <2>2, <2>4, <2>5 DEF ItemInv
<1>11. OffsetInv'
  <2>1. kind = "basicvsr" => Len(FilledWindow) = Nif
    BY FilledRight
  <2> QED  BY <1>1, <1>5, <1>8, <2>1 DEF OffsetInv
<1>12. ShowInv'
  <2>1. Stream!ShowsPromised => FilledWindow = Stream!Neighbourhood(t, fed)
    BY FilledRight DEF t
  <2>2. ASSUME Stream!ShowsPromised
        PROVE  /\ \A x \in Items : stage'[x] \in {"infer", "write"} =>
                    window'[x] = Stream!Neighbourhood(taskOf'[x], fed)
               /\ \A x \in Items : stage'[x] = "mark" =>
                    pixels[taskOf'[x]] = Stream!Neighbourhood(taskOf'[x], fed)
               /\ \A u \in inferenceDone : pixels[u] = Stream!Neighbourhood(u, fed)
    BY <1>1, <1>8, <2>1, <2>2 DEF ShowInv
  <2>3. UNCHANGED <<kind, first, fed, pixels, inferenceDone>>
    BY <1>2
  <2>4. Stream!ShowsPromised' => Stream!ShowsPromised
    BY <2>3 DEF Stream!ShowsPromised
  <2> SUFFICES ASSUME Stream!ShowsPromised
               PROVE  (/\ \A x \in Items : stage[x] \in {"infer", "write"} =>
                            window[x] = Stream!Neighbourhood(taskOf[x], fed)
                       /\ \A x \in Items : stage[x] = "mark" =>
                            pixels[taskOf[x]] = Stream!Neighbourhood(taskOf[x], fed)
                       /\ \A u \in inferenceDone : pixels[u] = Stream!Neighbourhood(u, fed))'
    BY <2>4 DEF ShowInv
  <2>5. (\A x \in Items : stage[x] \in {"infer", "write"} =>
            window[x] = Stream!Neighbourhood(taskOf[x], fed))'
    BY <2>2, <2>3 DEF Stream!Neighbourhood
  <2>6. (\A x \in Items : stage[x] = "mark" =>
            pixels[taskOf[x]] = Stream!Neighbourhood(taskOf[x], fed))'
    BY <2>2, <2>3 DEF Stream!Neighbourhood
  <2>7. (\A u \in inferenceDone : pixels[u] = Stream!Neighbourhood(u, fed))'
    BY <2>2, <2>3 DEF Stream!Neighbourhood
  <2> QED  BY <2>5, <2>6, <2>7
<1> QED  BY <1>3, <1>9, <1>10, <1>11, <1>12

LEMMA ExecuteStep ==
    ASSUME BackendInv, Execute \/ FlushStart
    PROVE  BackendInv'
<1>1. /\ pc \in {"request", "flush"} /\ requestQueue # <<>> /\ ~NeedsMoreFrames
      /\ Start(Head(requestQueue))
      /\ \/ pc = "request" /\ pc' = AfterExecute
         \/ pc = "flush" /\ pc' = "flush_wait" /\ lltaskQueue # <<>>
      /\ UNCHANGED <<kind, first, fed, got, outVars, sent, endVars>>
  BY DEF Execute, FlushStart
<1>2. lltaskQueue # <<>>
  BY <1>1 DEF BackendInv, QueueInv
<1>3. FillQueues
  BY <1>1 DEF Start
<1>4. /\ lltaskQueue' \in Seq(Frames) /\ frameQueue' \in Seq(Frames)
      /\ inQueue' \in Seq(Frames) /\ frameNum' \in {0, 1}
      /\ Started' = Started + 1 /\ Delivered' = Delivered
      /\ QueueInv' /\ SentInv' /\ TsenetInv' /\ EofInv'
  BY <1>1, <1>2, <1>3, FillKeeps
<1>5. /\ requestQueue' \in Seq(Items) /\ stage' \in [Items -> {"free", "lost"} \cup InFlight]
      /\ taskOf' \in [Items -> Frames \cup {0}] /\ window' \in [Items -> Seq(Frames)]
      /\ offset' \in [Items -> 0 .. Nif]
      /\ ItemInv' /\ OffsetInv' /\ ShowInv'
  BY <1>1, <1>2, <1>4, StartKeeps
<1>6. TypeOK'
  <2>1. taskQueue' = taskQueue /\ outQueue' = outQueue
    BY <1>3 DEF FillQueues
  <2>2. pc' \in {"activate", "result", "flush_wait"}
    BY <1>1 DEF AfterExecute
  <2>3. TypeOK
    BY DEF BackendInv
  <2> QED  BY <1>1, <1>4, <1>5, <2>1, <2>2, <2>3 DEF TypeOK, outVars, endVars
<1> QED  BY <1>4, <1>5, <1>6 DEF BackendInv

\* Too few frames: the picture is queued, and nothing else happens or, in a flush, the
\* item is lost.
LEMMA ExecuteMoreStep ==
    ASSUME BackendInv, ExecuteMore \/ FlushMore
    PROVE  BackendInv'
<1>1. TypeOK /\ QueueInv /\ SentInv /\ ItemInv /\ TsenetInv /\ EofInv
  BY DEF BackendInv
<1>2. /\ pc \in {"request", "flush"} /\ requestQueue # <<>> /\ NeedsMoreFrames /\ FillMore
      /\ \/ pc = "request" /\ pc' = AfterExecute /\ requestQueue' = requestQueue /\ stage' = stage
         \/ pc = "flush" /\ pc' = "error" /\ lltaskQueue # <<>> /\ Lose(Head(requestQueue))
      /\ UNCHANGED <<kind, first, fed, got, taskOf, window, offset, outVars, sent, endVars>>
  BY DEF ExecuteMore, FlushMore, Lose, itemVars
<1>3. kind = "tsenet" /\ lltaskQueue # <<>> /\ Len(TsenetFrames) < 3
  BY <1>1, <1>2 DEF NeedsMoreFrames, QueueInv
<1>4. /\ frameQueue' = TsenetFrames /\ frameNum' = 1
      /\ UNCHANGED <<taskQueue, lltaskQueue, inQueue, outQueue>>
  BY <1>2 DEF FillMore
<1>5. Queued' = Queued /\ Size' = Size /\ Delivered' = Delivered /\ Started' = Started
  BY <1>2, <1>4, SameTasks
<1>6. TsenetFrames \in Seq(Frames)
  BY <1>3, TsenetFramesType
<1>7. pc' \in {"activate", "error"} /\ (pc' = "activate" => pc = "request")
  BY <1>2, <1>3 DEF AfterExecute
<1>8. /\ ItemsOwnedOnce' /\ requestQueue' \in Seq(Items)
      /\ stage' \in [Items -> {"free", "lost"} \cup InFlight]
      /\ \A r \in Items : stage'[r] \in InFlight => stage'[r] = stage[r]
  <2>1. CASE requestQueue' = requestQueue /\ stage' = stage
    BY <1>1, <2>1 DEF ItemInv, ItemsOwnedOnce, TypeOK
  <2>2. CASE Lose(Head(requestQueue))
    <3>1. /\ requestQueue' = Tail(requestQueue)
          /\ stage' = [stage EXCEPT ![Head(requestQueue)] = "lost"]
      BY <2>2 DEF Lose
    <3>2. /\ Head(requestQueue) \in Items /\ requestQueue' \in Seq(Items) /\ ItemsOwnedOnce'
      BY <1>1, <1>2, <3>1, TakeItem DEF ItemInv
    <3> QED  BY <1>1, <3>1, <3>2 DEF TypeOK, InFlight
  <2> QED  BY <1>2, <2>1, <2>2
<1>9. ItemInv' /\ OffsetInv' /\ ShowInv'
  BY <1>2, <1>5, <1>8, NoneStarted
<1>10. TypeOK'
  BY <1>1, <1>2, <1>4, <1>6, <1>7, <1>8 DEF TypeOK, outVars, endVars
<1>11. QueueInv' /\ SentInv' /\ EofInv'
  BY <1>1, <1>2, <1>3, <1>4, <1>5, <1>7 DEF QueueInv, SentInv, EofInv
<1>12. TsenetInv'
  <2> SUFFICES ASSUME first, pc' = "activate"
               PROVE  /\ fed >= 1 /\ Len(lltaskQueue) = 1
                      /\ TsenetFrames = IF fed = 1 THEN <<1, 1>> ELSE <<fed - 1, fed>>
    BY <1>2, <1>3, <1>4, <1>7 DEF TsenetInv
  <2>1. pc = "request"
    BY <1>7
  <2>2. frameNum = 0
    <3> SUFFICES ASSUME frameNum # 0 PROVE FALSE
      OBVIOUS
    <3>1. TsenetFrames = Stream!Neighbourhood(Started + 1, fed)
      BY <1>3, <2>1, TsenetWindow
    <3>2. Len(TsenetFrames) = 3
      BY <1>3, <3>1 DEF Stream!Neighbourhood
    <3> QED  BY <1>3, <3>2
  <2>3. TsenetFrames = <<1, 1>> /\ fed = 1 /\ Len(lltaskQueue) = 1
    BY <1>3, <2>1, <2>2, TsenetWindow
  <2> QED  BY <2>3
<1> QED  BY <1>9, <1>10, <1>11, <1>12 DEF BackendInv

\* ivsr_process_async fails: the task has left lltask_queue all the same.
LEMMA ExecuteFailsStep ==
    ASSUME BackendInv, ExecuteFails \/ FlushStartFails
    PROVE  BackendInv'
<1>1. TypeOK /\ QueueInv /\ ItemInv
  BY DEF BackendInv
<1>2. /\ requestQueue # <<>> /\ ~NeedsMoreFrames /\ FillQueues
      /\ \/ /\ pc = "request" /\ pc' = "error" /\ stage' = stage
            /\ requestQueue' = Append(Tail(requestQueue), Head(requestQueue))
         \/ pc = "flush" /\ pc' = "flush_wait" /\ lltaskQueue # <<>> /\ Lose(Head(requestQueue))
      /\ UNCHANGED <<kind, first, fed, got, taskOf, window, offset, outVars, sent, endVars>>
  BY DEF ExecuteFails, FlushStartFails, Lose, itemVars
<1>3. lltaskQueue # <<>>
  BY <1>1, <1>2 DEF QueueInv
<1>4. /\ lltaskQueue' \in Seq(Frames) /\ frameQueue' \in Seq(Frames)
      /\ inQueue' \in Seq(Frames) /\ frameNum' \in {0, 1}
      /\ Started' = Started + 1 /\ Delivered' = Delivered
      /\ QueueInv' /\ SentInv' /\ TsenetInv' /\ EofInv'
  BY <1>2, <1>3, FillKeeps
<1>5. /\ ItemsOwnedOnce' /\ requestQueue' \in Seq(Items)
      /\ stage' \in [Items -> {"free", "lost"} \cup InFlight]
      /\ \A r \in Items : stage'[r] \in InFlight => stage'[r] = stage[r]
  <2>1. CASE /\ requestQueue' = Append(Tail(requestQueue), Head(requestQueue))
             /\ stage' = stage
    BY <1>1, <1>2, <2>1, RotateItem DEF ItemInv, TypeOK
  <2>2. CASE Lose(Head(requestQueue))
    <3>1. /\ requestQueue' = Tail(requestQueue)
          /\ stage' = [stage EXCEPT ![Head(requestQueue)] = "lost"]
      BY <2>2 DEF Lose
    <3>2. /\ Head(requestQueue) \in Items /\ requestQueue' \in Seq(Items) /\ ItemsOwnedOnce'
      BY <1>1, <1>2, <3>1, TakeItem DEF ItemInv
    <3> QED  BY <1>1, <3>1, <3>2 DEF TypeOK, InFlight
  <2> QED  BY <1>2, <2>1, <2>2
<1>6. ItemInv' /\ OffsetInv' /\ ShowInv'
  BY <1>2, <1>4, <1>5, NoneStarted
<1>7. TypeOK'
  <2>1. taskQueue' = taskQueue /\ outQueue' = outQueue
    BY <1>2 DEF FillQueues
  <2> QED  BY <1>1, <1>2, <1>4, <1>5, <2>1 DEF TypeOK, outVars, endVars
<1> QED  BY <1>4, <1>6, <1>7 DEF BackendInv

--------------------------------------------------------------------------------
(* Frames out.                                                               *)

\* The oldest task is the one after those that were delivered, and its inference was
\* started; the frames of as many tasks as are delivered went in.
LEMMA OldestTask ==
    ASSUME BackendInv, ResultReady
    PROVE  /\ Head(taskQueue) = Delivered + 1 /\ Head(taskQueue) \in Frames
           /\ Head(taskQueue) \in inferenceDone /\ Delivered + 1 <= Started
           /\ Tail(taskQueue) \in Seq(Frames) /\ EndsWith(Tail(taskQueue), Queued)
           /\ Queued - Len(Tail(taskQueue)) = Delivered + 1
           /\ Len(sent) = Size * Delivered /\ Len(sent) \in Nat
           /\ Size * (Delivered + 1) = Len(sent) + Size /\ Size * (Delivered + 1) <= fed
<1>1. /\ taskQueue \in Seq(Frames) /\ EndsWith(taskQueue, Queued) /\ taskQueue # <<>>
      /\ Head(taskQueue) \in inferenceDone
      /\ Len(sent) = Size * Delivered /\ inferenceDone \subseteq 1 .. Started
  BY DEF BackendInv, TypeOK, QueueInv, SentInv, ItemInv, ResultReady
<1>2. /\ Queued \in Nat /\ Started \in Nat /\ Started <= Queued /\ Delivered \in Nat
      /\ Delivered = Queued - Len(taskQueue)
      /\ Size \in Nat \ {0} /\ Size * Queued \in Nat /\ Size * Queued <= fed /\ fed \in Nat
  BY Counts DEF Delivered
<1>3. /\ Tail(taskQueue) \in Seq(Frames) /\ EndsWith(Tail(taskQueue), Queued)
      /\ Len(taskQueue) \in Nat \ {0} /\ Len(taskQueue) <= Queued
      /\ Len(Tail(taskQueue)) = Len(taskQueue) - 1
      /\ Head(taskQueue) \in Frames /\ Head(taskQueue) = (Queued - Len(taskQueue)) + 1
  BY <1>1, <1>2, OrderedTail
<1>4. /\ Head(taskQueue) = Delivered + 1 /\ Queued - Len(Tail(taskQueue)) = Delivered + 1
      /\ Delivered + 1 <= Started
  <2>1. Head(taskQueue) = Delivered + 1 /\ Queued - Len(Tail(taskQueue)) = Delivered + 1
    BY <1>2, <1>3
  <2>2. Head(taskQueue) \in 1 .. Started
    BY <1>1
  <2>3. Head(taskQueue) <= Started
    BY <1>2, <2>2
  <2> QED  BY <2>1, <2>3
<1> HIDE DEF Size, Delivered, Queued, Started
<1>5. Len(sent) \in Nat /\ Size * (Delivered + 1) = Len(sent) + Size
  BY <1>1, <1>2
<1>6. Size * (Delivered + 1) <= fed
  <2>1. Size * (Delivered + 1) <= Size * Queued
    BY <1>2, <1>4
  <2>2. Size * (Delivered + 1) \in Nat
    BY <1>2
  <2> QED  BY <1>2, <2>1, <2>2
<1> QED  BY <1>1, <1>3, <1>4, <1>5, <1>6

\* Joining two sequences, and leaving out the first k elements of one.
LEMMA ConcatFacts ==
    ASSUME NEW S, NEW p \in Seq(S), NEW q \in Seq(S)
    PROVE  /\ p \o q \in Seq(S) /\ Len(p \o q) = Len(p) + Len(q)
           /\ \A i \in 1 .. Len(p) : (p \o q)[i] = p[i]
           /\ \A i \in 1 .. Len(q) : (p \o q)[Len(p) + i] = q[i]
  OBVIOUS

LEMMA RestFacts ==
    ASSUME NEW S, NEW q \in Seq(S), NEW k \in Nat, k <= Len(q)
    PROVE  /\ SubSeq(q, k + 1, Len(q)) \in Seq(S)
           /\ Len(SubSeq(q, k + 1, Len(q))) = Len(q) - k
           /\ \A i \in 1 .. Len(q) - k : SubSeq(q, k + 1, Len(q))[i] = q[k + i]
  OBVIOUS

\* The frames of the oldest task are sent, in order, as they are now.
LEMMA SendFacts ==
    ASSUME BackendInv, ResultReady, SendResult
    PROVE  /\ sent' \in Seq([frame : Frames, shows : Seq(Frames)])
           /\ Len(sent') = Len(sent) + Size
           /\ \A i \in 1 .. Len(sent) : sent'[i] = sent[i]
           /\ \A i \in Len(sent) + 1 .. Len(sent) + Size : sent'[i] = Shown(i)
           /\ outQueue' \in Seq(Frames)
           /\ kind = "basicvsr" => Len(outQueue') = fed - Len(sent') /\ EndsWith(outQueue', fed)
<1> DEFINE R == [frame : Frames, shows : Seq(Frames)]
<1>1. /\ TypeOK /\ SentInv /\ sent \in Seq(R) /\ outQueue \in Seq(Frames)
      /\ pixels \in [Frames -> Seq(Frames)]
  BY DEF BackendInv, SentInv, TypeOK
<1>2. \A f \in Frames : Shown(f) \in R
  BY <1>1 DEF Shown
<1>3. /\ Head(taskQueue) = Delivered + 1 /\ Head(taskQueue) \in Frames
      /\ Len(sent) = Size * Delivered /\ Len(sent) \in Nat /\ Delivered \in Nat
      /\ Len(sent) + Size <= fed /\ fed \in Nat /\ fed <= MaxFrames /\ MaxFrames \in Nat
  BY OldestTask, Counts
<1> HIDE DEF R
<1>4. CASE kind # "basicvsr"
  <2>1. Size = 1
    BY <1>4 DEF Size
  <2>2. Len(sent) = Delivered
    <3> HIDE DEF Delivered
    <3> QED  BY <1>3, <2>1
  <2>3. sent' = Append(sent, Shown(Head(taskQueue))) /\ outQueue' = outQueue
    BY <1>4 DEF SendResult
  <2> DEFINE x == Shown(Head(taskQueue))
  <2>4. x \in R
    BY <1>2, <1>3
  <2>5. x = Shown(Len(sent) + 1)
    BY <1>3, <2>2
  <2> HIDE DEF x
  <2>6. /\ Append(sent, x) \in Seq(R) /\ Len(Append(sent, x)) = Len(sent) + 1
        /\ Append(sent, x)[Len(sent) + 1] = x
        /\ \A i \in 1 .. Len(sent) : Append(sent, x)[i] = sent[i]
    BY <1>1, <2>4, AppendFacts
  <2>7. sent' = Append(sent, x)
    BY <2>3 DEF x
  <2>8. \A i \in Len(sent) + 1 .. Len(sent) + Size : i = Len(sent) + 1
    BY <1>3, <2>1
  <2> QED  BY <1>1, <1>4, <2>1, <2>3, <2>5, <2>6, <2>7, <2>8 DEF R
<1>5. CASE kind = "basicvsr"
  <2>1. Size = Nif /\ Nif \in Nat
    BY <1>5, BoundAssumption DEF Size
  <2>2. /\ Len(outQueue) = fed - Len(sent)
        /\ \A i \in 1 .. Len(outQueue) : outQueue[i] = (fed - Len(outQueue)) + i
    BY <1>1, <1>5 DEF SentInv, EndsWith
  <2>3. Len(outQueue) \in Nat /\ Nif <= Len(outQueue)
    BY <1>1, <1>3, <2>1, <2>2
  <2> DEFINE batch == [i \in 1 .. Nif |-> Shown(outQueue[i])]
  <2>4. /\ sent' = sent \o batch
        /\ outQueue' = SubSeq(outQueue, Nif + 1, Len(outQueue))
    BY <1>5 DEF SendResult
  <2>5. \A i \in 1 .. Nif : outQueue[i] = Len(sent) + i /\ outQueue[i] \in Frames
    BY <1>1, <1>3, <2>1, <2>2, <2>3, ElementFacts
  <2>6. batch \in Seq(R) /\ Len(batch) = Nif
    <3>1. \A i \in 1 .. Nif : Shown(outQueue[i]) \in R
      BY <1>2, <2>5
    <3> QED  BY <2>1, <3>1
  <2>7. \A i \in 1 .. Nif : batch[i] = Shown(Len(sent) + i)
    BY <2>5
  <2> HIDE DEF batch
  <2>8. /\ sent' \in Seq(R) /\ Len(sent') = Len(sent) + Nif
        /\ \A i \in 1 .. Len(sent) : sent'[i] = sent[i]
        /\ \A i \in 1 .. Nif : sent'[Len(sent) + i] = batch[i]
    <3>1. sent \in Seq(R) /\ batch \in Seq(R)
      BY <1>1, <2>6
    <3>2. /\ sent \o batch \in Seq(R) /\ Len(sent \o batch) = Len(sent) + Len(batch)
          /\ \A i \in 1 .. Len(sent) : (sent \o batch)[i] = sent[i]
          /\ \A i \in 1 .. Len(batch) : (sent \o batch)[Len(sent) + i] = batch[i]
      BY <3>1, ConcatFacts
    <3> QED  BY <2>4, <2>6, <3>2
  <2>9. ASSUME NEW i \in Len(sent) + 1 .. Len(sent) + Nif PROVE sent'[i] = Shown(i)
    <3>1. i - Len(sent) \in 1 .. Nif /\ Len(sent) + (i - Len(sent)) = i
      BY <1>3, <2>1
    <3> QED  BY <2>7, <2>8, <3>1
  <2>10. /\ outQueue' \in Seq(Frames) /\ Len(outQueue') = Len(outQueue) - Nif
         /\ \A i \in 1 .. Len(outQueue) - Nif : outQueue'[i] = outQueue[Nif + i]
    BY <1>1, <2>1, <2>3, <2>4, RestFacts
  <2>11. Len(outQueue') = fed - Len(sent') /\ Len(outQueue') <= fed
    BY <1>3, <2>1, <2>2, <2>8, <2>10
  <2>12. ASSUME NEW i \in 1 .. Len(outQueue')
         PROVE  outQueue'[i] = (fed - Len(outQueue')) + i
    <3>1. Nif + i \in 1 .. Len(outQueue) /\ i \in 1 .. Len(outQueue) - Nif
      BY <2>1, <2>3, <2>10
    <3>2. outQueue'[i] = (fed - Len(outQueue)) + (Nif + i)
      BY <2>2, <2>10, <3>1
    <3> QED  BY <1>3, <2>1, <2>3, <2>10, <3>2
  <2>13. EndsWith(outQueue', fed)
    BY <2>11, <2>12 DEF EndsWith
  <2> QED  BY <2>1, <2>8, <2>9, <2>10, <2>11, <2>13 DEF R
<1> QED  BY <1>4, <1>5

LEMMA SendStep ==
    ASSUME BackendInv, GetResult \/ FlushResult
    PROVE  BackendInv'
<1>1. TypeOK /\ QueueInv /\ SentInv /\ ItemInv /\ OffsetInv /\ TsenetInv /\ ShowInv /\ EofInv
  BY DEF BackendInv
<1>2. /\ ResultReady /\ SendResult /\ taskQueue' = Tail(taskQueue) /\ got' \in BOOLEAN
      /\ \/ pc = "drain" /\ pc' = "drain"
         \/ pc = "result" /\ pc' = "settle"
         \/ pc = "flush_wait" /\ pc' = "flush_wait"
      /\ UNCHANGED <<kind, first, fed, lltaskQueue, frameQueue, frameNum, inQueue, requestQueue,
                     itemVars, outVars, endVars>>
  BY <1>1 DEF GetResult, FlushResult, SendResult, TypeOK
<1>3. Queued' = Queued /\ Size' = Size /\ Started' = Started
  BY <1>2, SameTasks
<1>4. /\ Head(taskQueue) = Delivered + 1 /\ Head(taskQueue) \in inferenceDone
      /\ Delivered + 1 <= Started
      /\ taskQueue' \in Seq(Frames) /\ EndsWith(taskQueue', Queued)
      /\ Queued - Len(taskQueue') = Delivered + 1
      /\ Len(sent) + Size = Size * (Delivered + 1)
  BY <1>2, OldestTask
<1>5. Delivered' = Delivered + 1 /\ Delivered \in Nat
  BY <1>3, <1>4, Counts DEF Delivered
<1>6. /\ sent' \in Seq([frame : Frames, shows : Seq(Frames)])
      /\ Len(sent') = Len(sent) + Size /\ outQueue' \in Seq(Frames)
      /\ kind = "basicvsr" => Len(outQueue') = fed - Len(sent') /\ EndsWith(outQueue', fed)
  BY <1>2, SendFacts
<1>7. TypeOK'
  BY <1>1, <1>2, <1>4, <1>6 DEF TypeOK, itemVars, outVars, endVars
<1>8. QueueInv'
  BY <1>1, <1>2, <1>3, <1>4 DEF QueueInv
<1>9. SentInv'
  <2>1. Len(sent') = Size' * Delivered'
    BY <1>3, <1>4, <1>5, <1>6
  <2> QED  BY <1>1, <1>2, <1>6, <2>1 DEF SentInv
<1>10. ItemInv'
  <2>1. ASSUME NEW r \in Items, stage[r] \in {"infer", "write", "mark"}
        PROVE  taskOf[r] > Delivered + 1
    <3>1. taskOf[r] # Delivered + 1 /\ taskOf[r] > Delivered /\ taskOf[r] \in 1 .. Started
      BY <1>1, <1>4, <2>1 DEF ItemInv, InFlight
    <3>2. taskOf[r] \in Nat
      BY <3>1
    <3> HIDE DEF Delivered
    <3> QED  BY <1>5, <3>1, <3>2
  <2> QED  BY <1>1, <1>2, <1>3, <1>4, <1>5, <2>1
           DEF ItemInv, ItemsOwnedOnce, itemVars, outVars
<1>11. OffsetInv'
  BY <1>1, <1>2 DEF OffsetInv, itemVars
<1>12. TsenetInv'
  BY <1>1, <1>2 DEF TsenetInv
<1>13. ShowInv' /\ EofInv'
  BY <1>1, <1>2, ShowKept DEF EofInv
<1> QED  BY <1>7, <1>8, <1>9, <1>10, <1>11, <1>12, <1>13 DEF BackendInv

--------------------------------------------------------------------------------
(* Callbacks.                                                                *)

\* What a callback does not touch.
LEMMA CallbackRest ==
    ASSUME BackendInv, UNCHANGED <<kind, first, pc, fed, got, queueVars, sent>>
    PROVE  /\ QueueInv' /\ SentInv' /\ TsenetInv' /\ EofInv'
           /\ Started' = Started /\ Delivered' = Delivered
<1>1. Queued' = Queued /\ Size' = Size /\ Delivered' = Delivered /\ Started' = Started
  BY SameTasks DEF queueVars
<1>2. QueueInv /\ SentInv /\ TsenetInv /\ EofInv
  BY DEF BackendInv
<1> QED  BY <1>1, <1>2 DEF queueVars, QueueInv, SentInv, TsenetInv, EofInv

\* An item goes on with its task, which is done when it comes to the push.
LEMMA CallbackMoves ==
    ASSUME BackendInv, NEW r \in Items, stage[r] \in {"infer", "write", "mark"},
           NEW s \in InFlight, stage' = [stage EXCEPT ![r] = s],
           inferenceDone' = IF s = "push" THEN inferenceDone \cup {taskOf[r]} ELSE inferenceDone,
           UNCHANGED <<requestQueue, taskOf>>, Started' = Started, Delivered' = Delivered
    PROVE  /\ stage' \in [Items -> {"free", "lost"} \cup InFlight]
           /\ inferenceDone' \subseteq Frames
           /\ ItemInv'
<1>1. TypeOK /\ ItemInv
  BY DEF BackendInv
<1>2. s # "free" /\ stage[r] # "free" /\ stage[r] \in InFlight
  BY DEF InFlight
<1>3. ItemsOwnedOnce'
  BY <1>1, <1>2, MoveItem DEF ItemInv
<1>4. /\ stage' \in [Items -> {"free", "lost"} \cup InFlight]
      /\ stage'[r] = s /\ \A x \in Items \ {r} : stage'[x] = stage[x]
  BY <1>1 DEF TypeOK
<1>5. taskOf[r] \in 1 .. Started /\ taskOf[r] \in Frames
  <2>1. taskOf[r] \in 1 .. Started
    BY <1>1, <1>2 DEF ItemInv
  <2>2. Started \in Nat /\ Started <= MaxFrames /\ MaxFrames \in Nat
    <3>1. Started \in Nat /\ Started <= Queued /\ Queued <= fed /\ fed <= MaxFrames
          /\ Queued \in Nat /\ fed \in Nat /\ MaxFrames \in Nat
      BY Counts
    <3> QED  BY <3>1
  <2> QED  BY <2>1, <2>2 DEF Frames
<1>6. ItemInv'
  <2>1. \A x \in Items : stage'[x] \in InFlight => taskOf'[x] \in 1 .. Started'
    BY <1>1, <1>4, <1>5 DEF ItemInv
  <2>2. \A x, y \in Items :
           stage'[x] \in InFlight /\ stage'[y] \in InFlight /\ taskOf'[x] = taskOf'[y] => x = y
    BY <1>1, <1>2, <1>4 DEF ItemInv
  <2>3. ASSUME NEW x \in Items, stage'[x] \in {"infer", "write", "mark"}
        PROVE  taskOf'[x] \notin inferenceDone' /\ taskOf'[x] > Delivered'
    <3>1. CASE x = r
      BY <1>1, <1>4, <2>3, <3>1 DEF ItemInv
    <3>2. CASE x # r
      <4>1. taskOf[x] # taskOf[r] /\ taskOf[x] \notin inferenceDone /\ taskOf[x] > Delivered
        BY <1>1, <1>2, <1>4, <2>3, <3>2 DEF ItemInv, InFlight
      <4> QED  BY <4>1
    <3> QED  BY <3>1, <3>2
  <2>4. inferenceDone' \subseteq 1 .. Started' /\ Delivered' <= Started'
    BY <1>1, <1>5 DEF ItemInv
  <2> QED  BY <1>3, <2>1, <2>2, <2>3, <2>4 DEF ItemInv
<1>7. inferenceDone' \subseteq Frames
  BY <1>1, <1>5 DEF TypeOK
<1> QED  BY <1>4, <1>6, <1>7

\* The callback begins.
LEMMA InferDoneStep ==
    ASSUME BackendInv, NEW r \in Items, InferDone(r)
    PROVE  BackendInv'
<1>1. TypeOK /\ OffsetInv /\ ShowInv
  BY DEF BackendInv
<1>2. /\ stage[r] = "infer" /\ stage' = [stage EXCEPT ![r] = "write"]
      /\ UNCHANGED <<kind, first, pc, fed, got, queueVars, requestQueue, taskOf, window, offset,
                     inferenceDone, pixels, sent, freed, running>>
  BY DEF InferDone, outVars, endVars
<1>3. /\ QueueInv' /\ SentInv' /\ TsenetInv' /\ EofInv'
      /\ Started' = Started /\ Delivered' = Delivered
  BY <1>2, CallbackRest
<1>4. stage' \in [Items -> {"free", "lost"} \cup InFlight] /\ ItemInv'
  BY <1>2, <1>3, CallbackMoves DEF InFlight
<1>5. /\ stage'[r] = "write" /\ \A x \in Items \ {r} : stage'[x] = stage[x]
  BY <1>1, <1>2 DEF TypeOK
<1>6. TypeOK'
  BY <1>1, <1>2, <1>4 DEF TypeOK, queueVars
<1>7. OffsetInv'
  BY <1>1, <1>2, <1>5 DEF OffsetInv
<1>8. ShowInv'
  <2>1. UNCHANGED <<kind, first, fed, taskOf, window, inferenceDone, pixels>>
    BY <1>2
  <2>2. \A x \in Items : /\ stage'[x] \in {"infer", "write"} => stage[x] \in {"infer", "write"}
                         /\ stage'[x] = "mark" => stage[x] = "mark"
    BY <1>2, <1>5
  <2> QED  BY <1>1, <2>1, <2>2 DEF ShowInv, Stream!ShowsPromised, Stream!Neighbourhood
<1> QED  BY <1>3, <1>4, <1>6, <1>7, <1>8 DEF BackendInv

\* An item is lost, or given back when the callback ends.
LEMMA ItemLeavesStep ==
    ASSUME BackendInv, NEW r \in Items,
           InferFails(r) \/ InferCancelled(r) \/ CallbackAfterFree(r) \/ CallbackPush(r)
    PROVE  BackendInv'
<1>1. TypeOK /\ ItemInv
  BY DEF BackendInv
<1>2. /\ stage[r] \in InFlight
      /\ \/ stage' = [stage EXCEPT ![r] = "lost"] /\ requestQueue' = requestQueue
         \/ stage' = [stage EXCEPT ![r] = "free"] /\ requestQueue' = Append(requestQueue, r)
      /\ UNCHANGED <<kind, first, pc, fed, got, queueVars, taskOf, window, offset,
                     outVars, sent, freed>>
      /\ running' \in BOOLEAN
  BY <1>1 DEF InferFails, InferCancelled, CallbackAfterFree, CallbackPush, InFlight, endVars, TypeOK
<1>3. /\ QueueInv' /\ SentInv' /\ TsenetInv' /\ EofInv'
      /\ Started' = Started /\ Delivered' = Delivered
  BY <1>2, CallbackRest
<1>4. requestQueue' \in Seq(Items) /\ ItemsOwnedOnce'
  <2>1. stage[r] # "free"
    BY <1>2 DEF InFlight
  <2>2. CASE stage' = [stage EXCEPT ![r] = "lost"] /\ requestQueue' = requestQueue
    BY <1>1, <2>1, <2>2, MoveItem DEF ItemInv, TypeOK
  <2>3. CASE stage' = [stage EXCEPT ![r] = "free"] /\ requestQueue' = Append(requestQueue, r)
    BY <1>1, <2>1, <2>3, PutItem DEF ItemInv
  <2> QED  BY <1>2, <2>2, <2>3
<1>5. /\ stage' \in [Items -> {"free", "lost"} \cup InFlight]
      /\ \A x \in Items : stage'[x] \in InFlight => stage'[x] = stage[x]
  BY <1>1, <1>2 DEF TypeOK, InFlight
<1>6. ItemInv' /\ OffsetInv' /\ ShowInv'
  BY <1>2, <1>3, <1>4, <1>5, NoneStarted
<1>7. TypeOK'
  BY <1>1, <1>2, <1>4, <1>5 DEF TypeOK, queueVars, outVars
<1> QED  BY <1>3, <1>6, <1>7 DEF BackendInv

\* The output frame of the task is written; nobody else writes or has written it.
LEMMA CallbackWriteStep ==
    ASSUME BackendInv, NEW r \in Items, CallbackWrite(r)
    PROVE  BackendInv'
<1>1. TypeOK /\ ItemInv /\ OffsetInv /\ ShowInv
  BY DEF BackendInv
<1>2. /\ stage[r] = "write" /\ kind # "basicvsr"
      /\ pixels' = [pixels EXCEPT ![taskOf[r]] = window[r]]
      /\ stage' = [stage EXCEPT ![r] = "mark"]
      /\ UNCHANGED <<kind, first, pc, fed, got, queueVars, requestQueue, taskOf, window, offset,
                     inferenceDone, sent, freed, running>>
  BY DEF CallbackWrite, endVars
<1>3. /\ QueueInv' /\ SentInv' /\ TsenetInv' /\ EofInv'
      /\ Started' = Started /\ Delivered' = Delivered
  BY <1>2, CallbackRest
<1>4. stage' \in [Items -> {"free", "lost"} \cup InFlight] /\ ItemInv'
  BY <1>2, <1>3, CallbackMoves DEF InFlight
<1>5. /\ stage'[r] = "mark" /\ \A x \in Items \ {r} : stage'[x] = stage[x]
  BY <1>1, <1>2 DEF TypeOK
<1>6. taskOf[r] \in Frames /\ inferenceDone \subseteq Frames
  <2>1. taskOf[r] \in 1 .. Started
    BY <1>1, <1>2 DEF ItemInv, InFlight
  <2>2. /\ Started \in Nat /\ Started <= Queued /\ Queued <= fed /\ fed <= MaxFrames
        /\ Queued \in Nat /\ fed \in Nat /\ MaxFrames \in Nat
    BY Counts
  <2>3. Started <= MaxFrames
    BY <2>2
  <2> QED  BY <1>1, <2>1, <2>2, <2>3 DEF Frames, TypeOK
<1>7. pixels' \in [Frames -> Seq(Frames)]
  BY <1>1, <1>2, <1>6 DEF TypeOK
<1>8. TypeOK'
  BY <1>1, <1>2, <1>4, <1>7 DEF TypeOK, queueVars
<1>9. OffsetInv'
  BY <1>2 DEF OffsetInv
<1>10. ShowInv'
  <2>1. pixels'[taskOf[r]] = window[r] /\ \A t \in Frames \ {taskOf[r]} : pixels'[t] = pixels[t]
    BY <1>1, <1>2, <1>6 DEF TypeOK
  <2>2. \A x \in Items \ {r} : stage[x] = "mark" =>
           taskOf[x] \in Frames /\ taskOf[x] # taskOf[r]
    <3>1. \A x \in Items : stage[x] \in InFlight => taskOf[x] \in Frames
      <4>1. \A x \in Items : stage[x] \in InFlight => taskOf[x] \in 1 .. Started
        BY <1>1 DEF ItemInv
      <4>2. taskOf \in [Items -> Frames \cup {0}] /\ 0 \notin 1 .. Started
        BY <1>1 DEF TypeOK
      <4> QED  BY <4>1, <4>2
    <3> QED  BY <1>1, <1>2, <3>1 DEF ItemInv, InFlight
  <2>3. \A t \in inferenceDone : t \in Frames /\ t # taskOf[r]
    BY <1>1, <1>2, <1>6 DEF ItemInv
  <2>4. UNCHANGED <<kind, first, fed, taskOf, window, inferenceDone>>
    BY <1>2
  <2>5. ASSUME Stream!ShowsPromised
        PROVE  /\ \A x \in Items : stage'[x] \in {"infer", "write"} =>
                    window[x] = Stream!Neighbourhood(taskOf[x], fed)
               /\ \A x \in Items : stage'[x] = "mark" =>
                    pixels'[taskOf[x]] = Stream!Neighbourhood(taskOf[x], fed)
               /\ \A t \in inferenceDone : pixels'[t] = Stream!Neighbourhood(t, fed)
    BY <1>1, <1>2, <1>5, <2>1, <2>2, <2>3, <2>5 DEF ShowInv
  <2> QED  BY <2>4, <2>5 DEF ShowInv, Stream!ShowsPromised, Stream!Neighbourhood
<1> QED  BY <1>3, <1>4, <1>8, <1>9, <1>10 DEF BackendInv

\* A frame of a batch is written, within the batch.
LEMMA CallbackWriteBatchStep ==
    ASSUME BackendInv, NEW r \in Items, CallbackWriteBatch(r)
    PROVE  BackendInv'
<1> DEFINE n == offset[r] + 1
           s == IF n = Nif THEN "mark" ELSE "write"
<1>1. TypeOK /\ ItemInv /\ OffsetInv
  BY DEF BackendInv
<1>2. /\ stage[r] = "write" /\ kind = "basicvsr"
      /\ pixels' = IF offset[r] < Len(outQueue)
                   THEN [pixels EXCEPT ![outQueue[n]] = <<window[r][n]>>]
                   ELSE pixels
      /\ offset' = [offset EXCEPT ![r] = n]
      /\ stage' = [stage EXCEPT ![r] = s]
      /\ UNCHANGED <<kind, first, pc, fed, got, queueVars, requestQueue, taskOf, window,
                     inferenceDone, sent, freed, running>>
  BY <1>1 DEF CallbackWriteBatch, endVars, TypeOK
<1>3. /\ QueueInv' /\ SentInv' /\ TsenetInv' /\ EofInv'
      /\ Started' = Started /\ Delivered' = Delivered
  BY <1>2, CallbackRest
<1>4. stage' \in [Items -> {"free", "lost"} \cup InFlight] /\ ItemInv'
  BY <1>2, <1>3, CallbackMoves DEF InFlight
<1>5. /\ offset[r] \in Nat /\ offset[r] < Nif /\ Len(window[r]) = Nif
      /\ window[r] \in Seq(Frames) /\ outQueue \in Seq(Frames) /\ Nif \in Nat
      /\ pixels \in [Frames -> Seq(Frames)] /\ offset \in [Items -> 0 .. Nif]
  <2>1. /\ offset \in [Items -> 0 .. Nif] /\ window \in [Items -> Seq(Frames)]
        /\ outQueue \in Seq(Frames) /\ pixels \in [Frames -> Seq(Frames)]
    BY <1>1 DEF TypeOK
  <2>2. offset[r] < Nif /\ Len(window[r]) = Nif
    BY <1>1, <1>2 DEF OffsetInv
  <2>3. Nif \in Nat
    BY BoundAssumption
  <2>4. offset[r] \in Nat /\ window[r] \in Seq(Frames)
    BY <2>1
  <2> QED  BY <2>1, <2>2, <2>3, <2>4
<1>6. n \in 0 .. Nif /\ n \in 1 .. Len(window[r]) /\ (n # Nif => n < Nif)
      /\ (offset[r] < Len(outQueue) => n \in 1 .. Len(outQueue))
  BY <1>5
<1> HIDE DEF n
<1>7. pixels' \in [Frames -> Seq(Frames)]
  <2>1. window[r][n] \in Frames
    BY <1>5, <1>6, ElementFacts
  <2>2. <<window[r][n]>> \in Seq(Frames)
    BY <2>1
  <2> QED  BY <1>2, <1>5, <2>2
<1>8. offset' \in [Items -> 0 .. Nif]
  BY <1>2, <1>5, <1>6
<1>9. TypeOK'
  BY <1>1, <1>2, <1>4, <1>7, <1>8 DEF TypeOK, queueVars
<1>10. OffsetInv'
  <2>1. /\ stage'[r] = s /\ offset'[r] = n
        /\ \A x \in Items \ {r} : stage'[x] = stage[x] /\ offset'[x] = offset[x]
    BY <1>1, <1>2 DEF TypeOK
  <2>2. s \in {"infer", "write"} => n < Nif
    BY <1>6
  <2>3. window' = window
    BY <1>2
  <2> HIDE DEF s
  <2> QED  BY <1>1, <1>2, <1>5, <2>1, <2>2, <2>3 DEF OffsetInv
<1>11. ShowInv'
  BY <1>2 DEF ShowInv, Stream!ShowsPromised
<1> QED  BY <1>3, <1>4, <1>9, <1>10, <1>11 DEF BackendInv

\* The task is done.
LEMMA CallbackMarkStep ==
    ASSUME BackendInv, NEW r \in Items, CallbackMark(r)
    PROVE  BackendInv'
<1>1. TypeOK /\ OffsetInv /\ ShowInv
  BY DEF BackendInv
<1>2. /\ stage[r] = "mark" /\ stage' = [stage EXCEPT ![r] = "push"]
      /\ inferenceDone' = inferenceDone \cup {taskOf[r]}
      /\ UNCHANGED <<kind, first, pc, fed, got, queueVars, requestQueue, taskOf, window, offset,
                     pixels, sent, freed, running>>
  BY DEF CallbackMark, endVars
<1>3. /\ QueueInv' /\ SentInv' /\ TsenetInv' /\ EofInv'
      /\ Started' = Started /\ Delivered' = Delivered
  BY <1>2, CallbackRest
<1>4. /\ stage' \in [Items -> {"free", "lost"} \cup InFlight] /\ inferenceDone' \subseteq Frames
      /\ ItemInv'
  BY <1>2, <1>3, CallbackMoves DEF InFlight
<1>5. /\ stage'[r] = "push" /\ \A x \in Items \ {r} : stage'[x] = stage[x]
  BY <1>1, <1>2 DEF TypeOK
<1>6. TypeOK'
  BY <1>1, <1>2, <1>4 DEF TypeOK, queueVars
<1>7. OffsetInv'
  BY <1>1, <1>2, <1>5 DEF OffsetInv
<1>8. ShowInv'
  <2>1. UNCHANGED <<kind, first, fed, taskOf, window, pixels>>
    BY <1>2
  <2>2. ASSUME Stream!ShowsPromised
        PROVE  /\ \A x \in Items : stage'[x] \in {"infer", "write"} =>
                    window[x] = Stream!Neighbourhood(taskOf[x], fed)
               /\ \A x \in Items : stage'[x] = "mark" =>
                    pixels[taskOf[x]] = Stream!Neighbourhood(taskOf[x], fed)
               /\ \A t \in inferenceDone' : pixels[t] = Stream!Neighbourhood(t, fed)
    BY <1>1, <1>2, <1>5, <2>2 DEF ShowInv
  <2> QED  BY <2>1, <2>2 DEF ShowInv, Stream!ShowsPromised, Stream!Neighbourhood
<1> QED  BY <1>3, <1>4, <1>6, <1>7, <1>8 DEF BackendInv

--------------------------------------------------------------------------------
(* The invariant.                                                            *)

LEMMA MoveStep ==
    ASSUME BackendInv,
           \/ NothingToConsume \/ NoResult \/ Settle \/ AcknowledgeEof
           \/ FlushNothing \/ FlushEnd \/ FreeModel
    PROVE  BackendInv'
<1>1. TypeOK
  BY DEF BackendInv
<1>2. UNCHANGED <<kind, first, fed, queueVars, requestQueue, itemVars, outVars, sent>>
  BY DEF NothingToConsume, NoResult, Settle, AcknowledgeEof, FlushNothing, FlushEnd, FreeModel
<1>3. got' \in BOOLEAN /\ freed' \in BOOLEAN /\ running' \in BOOLEAN
  BY <1>1 DEF TypeOK, endVars, NothingToConsume, NoResult, Settle, AcknowledgeEof, FlushNothing,
              FlushEnd, FreeModel
<1>4. /\ pc' \in {"activate", "drain", "result", "settle", "flush"} \cup Behind
      /\ pc # "request" /\ (pc \in Behind => pc' \in Behind)
      /\ pc' = "eof" => taskQueue = <<>>
  <2>1. EofInv
    BY DEF BackendInv
  <2> QED  BY <2>1 DEF EofInv, Behind, NothingToConsume, NoResult, Settle, AcknowledgeEof,
                       FlushNothing, FlushEnd, FreeModel
<1> QED  BY <1>2, <1>3, <1>4, MoveKeeps

\* A callback keeps the invariant.
LEMMA CallbackStep ==
    ASSUME BackendInv, NEW r \in Items, Callback(r)
    PROVE  BackendInv'
  BY InferDoneStep, ItemLeavesStep, CallbackWriteStep, CallbackWriteBatchStep,
     CallbackMarkStep DEF Callback

LEMMA BackendStep == BackendInv /\ [Next]_vars => BackendInv'
<1> SUFFICES ASSUME BackendInv, [Next]_vars PROVE BackendInv'
  OBVIOUS
<1>1. CASE Consume \/ ConsumeIntoBatch
  BY <1>1, ConsumeStep, ConsumeIntoBatchStep
<1>2. CASE Execute \/ FlushStart
  BY <1>2, ExecuteStep
<1>3. CASE ExecuteMore \/ FlushMore
  BY <1>3, ExecuteMoreStep
<1>4. CASE ExecuteFails \/ FlushStartFails
  BY <1>4, ExecuteFailsStep
<1>5. CASE GetResult \/ FlushResult
  BY <1>5, SendStep
<1>6. CASE \/ NothingToConsume \/ NoResult \/ Settle \/ AcknowledgeEof
           \/ FlushNothing \/ FlushEnd \/ FreeModel
  BY <1>6, MoveStep
<1>7. CASE \E r \in Items : Callback(r)
  BY <1>7, CallbackStep
<1>8. CASE UNCHANGED vars
  <2>1. UNCHANGED <<kind, first, fed, taskQueue, lltaskQueue, frameQueue, frameNum, inQueue,
                    outQueue, requestQueue, pc, got>>
    BY <1>8 DEF vars
  <2>2. UNCHANGED <<stage, taskOf, window, offset, inferenceDone, pixels, sent, freed, running>>
    BY <1>8 DEF vars
  <2>3. TypeOK /\ QueueInv /\ SentInv /\ ItemInv /\ OffsetInv /\ TsenetInv /\ ShowInv /\ EofInv
    BY DEF BackendInv
  <2>4. Queued' = Queued /\ Size' = Size /\ Delivered' = Delivered /\ Started' = Started
    BY <2>1, SameTasks
  <2>5. TypeOK' /\ OffsetInv'
    BY <2>1, <2>2, <2>3 DEF TypeOK, OffsetInv
  <2>6. QueueInv' /\ SentInv' /\ TsenetInv' /\ EofInv'
    BY <2>1, <2>2, <2>3, <2>4 DEF QueueInv, SentInv, TsenetInv, EofInv
  <2>7. ItemInv' /\ ShowInv'
    BY <2>1, <2>2, <2>3, <2>4, ItemsKept, ShowKept DEF itemVars, outVars
  <2> QED  BY <2>5, <2>6, <2>7 DEF BackendInv
<1> QED  BY <1>1, <1>2, <1>3, <1>4, <1>5, <1>6, <1>7, <1>8
         DEF Next, Filter, Neighbours, Ended, FlushNotReady

\* The invariant holds in every state that the filter can be in.
THEOREM BackendInvariance == Spec => []BackendInv
<1>1. Init => BackendInv
  BY BackendInit
<1>2. BackendInv /\ [Next]_vars => BackendInv'
  BY BackendStep
<1> QED  BY <1>1, <1>2, PTL DEF Spec

\* The state is always well formed: the queues hold frames, tasks and items, and a
\* callback stays within its batch, for every number of frames and items.
THEOREM BackendTypeCorrect == Spec => []TypeOK
<1>1. BackendInv => TypeOK
  BY DEF BackendInv
<1> QED  BY <1>1, BackendInvariance, PTL

\* No request item is ever handed out twice or lost from request_queue but to a failure:
\* no buffer is filled while somebody else still uses it.
THEOREM ItemsHaveOneOwner == Spec => []ItemsOwnedOnce
<1>1. BackendInv => ItemsOwnedOnce
  BY DEF BackendInv, ItemInv
<1> QED  BY <1>1, BackendInvariance, PTL

\* A task in flight is in task_queue: its output frame is not sent before the callback
\* has written it.
THEOREM TasksAreHeld == Spec => []TasksInFlightAreHeld
<1>1. BackendInv => TasksInFlightAreHeld
  <2> SUFFICES ASSUME BackendInv PROVE TasksInFlightAreHeld
    OBVIOUS
  <2>1. ItemInv /\ taskQueue \in Seq(Frames) /\ EndsWith(taskQueue, Queued)
    BY DEF BackendInv, QueueInv, TypeOK
  <2>2. /\ Started \in Nat /\ Started <= Queued /\ Queued \in Nat /\ Len(taskQueue) \in Nat
        /\ Delivered = Queued - Len(taskQueue) /\ Delivered \in Nat
    BY Counts DEF Delivered
  <2>3. ASSUME NEW r \in Items, stage[r] \in {"infer", "write", "mark"}
        PROVE  \E i \in 1 .. Len(taskQueue) : taskQueue[i] = taskOf[r]
    <3> DEFINE t == taskOf[r]
    <3>1. t \in 1 .. Started /\ t > Delivered
      BY <2>1, <2>3 DEF ItemInv, InFlight
    <3> HIDE DEF t, Delivered, Started
    <3>2. t - Delivered \in 1 .. Len(taskQueue) /\ (Queued - Len(taskQueue)) + (t - Delivered) = t
      BY <2>2, <3>1
    <3>3. taskQueue[t - Delivered] = t
      BY <2>1, <3>2 DEF EndsWith
    <3> QED  BY <3>2, <3>3 DEF t
  <2> QED  BY <2>1, <2>3 DEF TasksInFlightAreHeld, ItemInv
<1> QED  BY <1>1, BackendInvariance, PTL

\* At the regular end of a stream no inference runs and no callback still writes: what
\* ff_dnn_free_model_ivsr frees is at most about to be given back.
THEOREM FreedAfterFlush == Spec => []FlushedBeforeFree
<1>1. BackendInv => FlushedBeforeFree
  <2> SUFFICES ASSUME BackendInv, pc = "eof", NEW r \in Items
               PROVE  stage[r] \in {"free", "push", "lost"}
    BY DEF FlushedBeforeFree
  <2>1. /\ ItemInv /\ stage[r] \in {"free", "lost"} \cup InFlight /\ Len(taskQueue) = 0
    BY DEF BackendInv, EofInv, TypeOK
  <2>2. /\ Started \in Nat /\ Started <= Queued /\ Queued \in Nat
        /\ Delivered = Queued - Len(taskQueue)
    BY Counts DEF Delivered
  <2>3. stage[r] \notin {"infer", "write", "mark"}
    <3> SUFFICES ASSUME stage[r] \in {"infer", "write", "mark"} PROVE FALSE
      OBVIOUS
    <3>1. taskOf[r] \in 1 .. Started /\ taskOf[r] > Delivered
      BY <2>1 DEF ItemInv, InFlight
    <3>2. Delivered = Queued
      BY <2>1, <2>2
    <3> QED  BY <2>2, <3>1, <3>2
  <2> QED  BY <2>1, <2>3 DEF InFlight
<1> QED  BY <1>1, BackendInvariance, PTL

--------------------------------------------------------------------------------
(* What the flush leaves.                                                    *)

\* In a later TSENet stream the first picture is not repeated: frame_queue and
\* lltask_queue fill up to two, and a third is taken out again in the same call.  So the
\* flush finds two tasks, or fewer if the stream has fewer frames.
PendingInv ==
    /\ kind = "tsenet" /\ ~first =>
         /\ frameNum = 1
         /\ pc = "request" =>
              /\ Len(lltaskQueue) = IF fed < 3 THEN fed ELSE 3
              /\ Len(frameQueue) = Len(lltaskQueue) - 1
         /\ pc \notin {"request", "flush_wait", "eof", "error"} =>
              /\ Len(lltaskQueue) = IF fed < 2 THEN fed ELSE 2
              /\ Len(frameQueue) = Len(lltaskQueue)
    /\ pc \in {"flush_wait", "eof"} =>
         Len(lltaskQueue) = IF kind = "tsenet" /\ ~first /\ fed > 0 THEN 1 ELSE 0

\* A later stream joins one picture to those in frame_queue.
LEMMA LaterWindow ==
    ASSUME BackendInv, frameNum = 1
    PROVE  /\ Len(frameQueue) \in Nat /\ Len(TsenetFrames) = Len(frameQueue) + 1
           /\ Len(Tail(TsenetFrames)) = Len(frameQueue)
<1> DEFINE x == Last(lltaskQueue)
<1>1. frameQueue \in Seq(Frames)
  BY DEF BackendInv, TypeOK
<1>2. TsenetFrames = frameQueue \o <<x>>
  BY DEF TsenetFrames
<1> HIDE DEF x
<1>3. TsenetFrames = Append(frameQueue, x)
  BY <1>1, <1>2
<1>4. Len(TsenetFrames) = Len(frameQueue) + 1 /\ Len(frameQueue) \in Nat
  BY <1>1, <1>3
<1>5. frameQueue \in Seq(Frames \cup {x})
  BY <1>1
<1>6. TsenetFrames \in Seq(Frames \cup {x}) /\ TsenetFrames # <<>>
  BY <1>3, <1>4, <1>5
<1> QED  BY <1>4, <1>6

\* Filling in takes one task and one picture out; what follows is not a request.
LEMMA PendingFill ==
    ASSUME BackendInv, PendingInv, FillQueues, lltaskQueue # <<>>, ~NeedsMoreFrames,
           UNCHANGED <<kind, first, fed>>, kind = "tsenet", ~first,
           \/ pc = "request" /\ pc' \in {AfterExecute, "error"}
           \/ pc = "flush" /\ pc' = "flush_wait"
    PROVE  PendingInv'
<1>1. /\ frameNum = 1 /\ frameNum' = 1
      /\ frameQueue' = Tail(TsenetFrames) /\ lltaskQueue' = Tail(lltaskQueue)
  BY DEF PendingInv, FillQueues
<1>2. /\ Len(lltaskQueue) \in Nat \ {0} /\ Len(lltaskQueue') = Len(lltaskQueue) - 1
  BY <1>1, NextTask
<1>3. /\ Len(frameQueue) \in Nat /\ Len(frameQueue) + 1 >= 3
      /\ Len(frameQueue') = Len(frameQueue)
  BY <1>1, LaterWindow DEF NeedsMoreFrames
<1>4. fed \in Nat /\ fed' = fed
  BY Counts
<1>5. CASE pc = "request"
  <2>0. /\ Len(lltaskQueue) = IF fed < 3 THEN fed ELSE 3
        /\ Len(frameQueue) = Len(lltaskQueue) - 1
    BY <1>5 DEF PendingInv
  <2>1. Len(lltaskQueue) = 3 /\ Len(frameQueue) = 2 /\ fed >= 3
    <3> DEFINE l == Len(lltaskQueue)
               q == Len(frameQueue)
    <3>1. q \in Nat /\ q + 1 >= 3 /\ l = (IF fed < 3 THEN fed ELSE 3) /\ q = l - 1
      BY <1>3, <2>0
    <3> HIDE DEF l, q
    <3>2. l = 3 /\ q = 2 /\ fed >= 3
      BY <1>4, <3>1
    <3> QED  BY <3>2 DEF l, q
  <2>2. pc' \in {"activate", "error"}
    BY <1>5 DEF AfterExecute
  <2>3. Len(lltaskQueue') = 2 /\ Len(frameQueue') = 2 /\ ~(fed' < 2)
    BY <1>2, <1>3, <1>4, <2>1
  <2> QED  BY <1>1, <2>2, <2>3 DEF PendingInv
<1>6. CASE pc = "flush"
  <2>1. Len(lltaskQueue) = 2 /\ fed >= 2
    BY <1>2, <1>3, <1>4, <1>6 DEF PendingInv
  <2>2. Len(lltaskQueue') = 1 /\ fed > 0 /\ pc' = "flush_wait"
    BY <1>2, <1>4, <1>6, <2>1
  <2> QED  BY <1>1, <1>4, <2>2 DEF PendingInv
<1> QED  BY <1>5, <1>6

\* A later TSENet stream.
LEMMA PendingLater ==
    ASSUME BackendInv, PendingInv, [Next]_vars, kind = "tsenet", ~first
    PROVE  PendingInv'
<1>k. fed \in Nat /\ Len(lltaskQueue) \in Nat /\ Len(frameQueue) \in Nat
  <2>1. lltaskQueue \in Seq(Frames) /\ frameQueue \in Seq(Frames)
    BY DEF BackendInv, TypeOK
  <2> QED  BY <2>1, Counts
<1>u. kind' = kind /\ first' = first
  BY DEF Next, Filter, Neighbours, Callback, Ended, vars, Consume, ConsumeIntoBatch,
         NothingToConsume, AcknowledgeEof, FreeModel, Execute, ExecuteMore, ExecuteFails,
         GetResult, NoResult, Settle, FlushNothing, FlushStart, FlushMore, FlushStartFails,
         FlushResult, FlushNotReady, FlushEnd, InferDone, InferFails, CallbackWrite,
         CallbackWriteBatch, CallbackMark, CallbackPush, InferCancelled, CallbackAfterFree
<1>1. CASE Consume
  <2>1. /\ pc = "activate" /\ pc' = "request" /\ fed' = fed + 1
        /\ lltaskQueue' = Append(lltaskQueue, fed + 1)
        /\ frameQueue' = frameQueue /\ frameNum' = frameNum
    BY <1>1 DEF Consume, QueueTask
  <2>2. Len(lltaskQueue') = Len(lltaskQueue) + 1
    <3>1. lltaskQueue \in Seq(Frames)
      BY DEF BackendInv, TypeOK
    <3> DEFINE x == fed + 1
    <3>2. lltaskQueue \in Seq(Frames \cup {x})
      BY <3>1
    <3> HIDE DEF x
    <3>3. Len(Append(lltaskQueue, x)) = Len(lltaskQueue) + 1
      BY <3>2, AppendFacts
    <3> QED  BY <2>1, <3>3 DEF x
  <2> QED  BY <1>k, <1>u, <2>1, <2>2 DEF PendingInv
<1>2. CASE ConsumeIntoBatch
  BY <1>2 DEF ConsumeIntoBatch
<1>3. CASE Execute \/ ExecuteFails \/ FlushStart \/ FlushStartFails
  <2>1. /\ FillQueues /\ ~NeedsMoreFrames /\ fed' = fed
        /\ \/ pc = "request" /\ pc' \in {AfterExecute, "error"}
           \/ pc = "flush" /\ pc' = "flush_wait"
    BY <1>3 DEF Execute, ExecuteFails, FlushStart, FlushStartFails, Start
  <2>2. lltaskQueue # <<>>
    BY <1>3 DEF Execute, ExecuteFails, FlushStart, FlushStartFails, BackendInv, QueueInv
  <2> QED  BY <1>u, <2>1, <2>2, PendingFill
<1>4. CASE ExecuteMore
  <2>1. /\ pc = "request" /\ pc' = "activate" /\ fed' = fed /\ NeedsMoreFrames
        /\ lltaskQueue' = lltaskQueue /\ frameQueue' = TsenetFrames /\ frameNum' = 1
    BY <1>4 DEF ExecuteMore, FillMore, AfterExecute
  <2>2. Len(TsenetFrames) = Len(frameQueue) + 1 /\ Len(TsenetFrames) < 3
    BY <2>1, LaterWindow DEF NeedsMoreFrames, PendingInv
  <2>3. /\ Len(lltaskQueue) = IF fed < 3 THEN fed ELSE 3
        /\ Len(frameQueue) = Len(lltaskQueue) - 1
    BY <2>1 DEF PendingInv
  <2>4. Len(frameQueue') = Len(lltaskQueue') /\ Len(lltaskQueue') = IF fed' < 2 THEN fed' ELSE 2
    BY <1>k, <2>1, <2>2, <2>3
  <2> QED  BY <1>u, <2>1, <2>4 DEF PendingInv
<1>5. CASE FlushMore
  BY <1>5, <1>u DEF FlushMore, FillMore, PendingInv
<1>6. CASE \/ NothingToConsume \/ AcknowledgeEof \/ FreeModel \/ NoResult \/ Settle
           \/ FlushNothing \/ FlushEnd \/ GetResult \/ FlushResult
  <2>1. /\ UNCHANGED <<kind, first, fed, frameQueue, lltaskQueue, frameNum>>
        /\ \/ /\ pc \notin {"request", "flush_wait", "eof", "error"}
              /\ pc' \in {"drain", "settle", "activate", "flush", "error"}
           \/ pc = "flush" /\ pc' = "flush_wait" /\ lltaskQueue = <<>>
           \/ pc = "flush_wait" /\ pc' \in {"flush_wait", "eof"}
           \/ pc' = pc
    BY <1>6, <1>u
       DEF NothingToConsume, AcknowledgeEof, FreeModel, NoResult, Settle, FlushNothing,
           FlushEnd, GetResult, FlushResult, queueVars
  <2>2. pc = "flush" /\ lltaskQueue = <<>> => fed = 0 /\ Len(lltaskQueue) = 0
    BY <1>k DEF PendingInv
  <2> QED  BY <2>1, <2>2 DEF PendingInv
<1>7. ASSUME NEW r \in Items, Callback(r) PROVE PendingInv'
  <2>1. UNCHANGED <<kind, first, pc, fed, queueVars>>
    BY <1>7
       DEF Callback, InferDone, InferFails, CallbackWrite, CallbackWriteBatch, CallbackMark,
           CallbackPush, InferCancelled, CallbackAfterFree
  <2> QED  BY <2>1 DEF PendingInv, queueVars
<1>8. CASE UNCHANGED vars
  BY <1>8 DEF vars, PendingInv
<1> QED  BY <1>1, <1>2, <1>3, <1>4, <1>5, <1>6, <1>7, <1>8
         DEF Next, Filter, Neighbours, Ended, FlushNotReady

\* The other streams: at the end one task of a first TSENet stream is pending, and the
\* flush starts it; the others have none.
LEMMA PendingOthers ==
    ASSUME BackendInv, BackendInv', PendingInv, [Next]_vars, kind # "tsenet" \/ first
    PROVE  PendingInv'
<1>u. kind' = kind /\ first' = first
  BY DEF Next, Filter, Neighbours, Callback, Ended, vars, Consume, ConsumeIntoBatch,
         NothingToConsume, AcknowledgeEof, FreeModel, Execute, ExecuteMore, ExecuteFails,
         GetResult, NoResult, Settle, FlushNothing, FlushStart, FlushMore, FlushStartFails,
         FlushResult, FlushNotReady, FlushEnd, InferDone, InferFails, CallbackWrite,
         CallbackWriteBatch, CallbackMark, CallbackPush, InferCancelled, CallbackAfterFree
<1> SUFFICES ASSUME pc' \in {"flush_wait", "eof"} PROVE Len(lltaskQueue') = 0
  BY <1>u DEF PendingInv
<1>1. CASE kind # "tsenet"
  BY <1>1, <1>u DEF BackendInv, QueueInv
<1>2. CASE kind = "tsenet" /\ first /\ pc \in {"flush_wait", "eof"}
  <2>1. lltaskQueue' = lltaskQueue
    BY <1>2
       DEF Next, Filter, Neighbours, Callback, Ended, vars, queueVars, Consume,
           ConsumeIntoBatch, NothingToConsume, AcknowledgeEof, FreeModel, Execute,
           ExecuteMore, ExecuteFails, GetResult, NoResult, Settle, FlushNothing, FlushStart,
           FlushMore, FlushStartFails, FlushResult, FlushNotReady, FlushEnd, InferDone,
           InferFails, CallbackWrite, CallbackWriteBatch, CallbackMark, CallbackPush,
           InferCancelled, CallbackAfterFree
  <2> QED  BY <1>2, <2>1 DEF PendingInv
<1>3. CASE kind = "tsenet" /\ first /\ pc \notin {"flush_wait", "eof"}
  <2>1. \/ FlushNothing
        \/ FlushStart \/ FlushStartFails
    BY <1>3
       DEF Next, Filter, Neighbours, Callback, Ended, vars, Consume, ConsumeIntoBatch,
           NothingToConsume, AcknowledgeEof, FreeModel, Execute, ExecuteMore, ExecuteFails,
           AfterExecute, GetResult, NoResult, Settle, FlushMore, FlushResult,
           FlushNotReady, FlushEnd, InferDone, InferFails, CallbackWrite,
           CallbackWriteBatch, CallbackMark, CallbackPush, InferCancelled,
           CallbackAfterFree
  <2>2. CASE FlushNothing
    BY <2>2 DEF FlushNothing, queueVars
  <2>3. CASE FlushStart \/ FlushStartFails
    <3>1. lltaskQueue # <<>> /\ pc = "flush" /\ lltaskQueue' = Tail(lltaskQueue)
      BY <2>3 DEF FlushStart, FlushStartFails, Start, FillQueues
    <3>2. Len(lltaskQueue') = Len(lltaskQueue) - 1 /\ Len(lltaskQueue) \in Nat \ {0}
      BY <3>1, NextTask
    <3>3. Len(lltaskQueue) \in {0, 1}
      BY <1>3, <3>1 DEF BackendInv, TsenetInv
    <3> QED  BY <3>2, <3>3
  <2> QED  BY <2>1, <2>2, <2>3
<1> QED  BY <1>1, <1>2, <1>3

\* The flush leaves no task in lltask_queue, but that of the last frame of a later
\* TSENet stream of the process.
THEOREM FlushTakesTheTask == Spec => []FlushLeavesNoTask
<1>1. Init => PendingInv
  BY BoundAssumption DEF Init, PendingInv
<1>2. BackendInv /\ BackendInv' /\ PendingInv /\ [Next]_vars => PendingInv'
  BY PendingLater, PendingOthers
<1>3. BackendInv /\ PendingInv => FlushLeavesNoTask
  <2> SUFFICES ASSUME BackendInv, PendingInv, pc \in {"flush_wait", "eof"}
               PROVE  lltaskQueue = IF kind = "tsenet" /\ ~first /\ fed > 0
                                    THEN <<fed>> ELSE <<>>
    BY DEF FlushLeavesNoTask
  <2>1. lltaskQueue \in Seq(Frames) /\ EndsWith(lltaskQueue, Queued) /\ fed \in Nat
    BY Counts DEF BackendInv, TypeOK, QueueInv
  <2>2. CASE kind = "tsenet" /\ ~first /\ fed > 0
    <3>1. Len(lltaskQueue) = 1 /\ Queued = fed
      BY <2>2 DEF PendingInv, Queued
    <3>2. lltaskQueue[1] = fed
      BY <2>1, <3>1 DEF EndsWith
    <3> QED  BY <2>1, <2>2, <3>1, <3>2
  <2>3. CASE ~(kind = "tsenet" /\ ~first /\ fed > 0)
    <3>1. Len(lltaskQueue) = 0
      BY <2>3 DEF PendingInv
    <3>2. lltaskQueue = <<>>
      BY <2>1, <3>1
    <3> QED  BY <2>3, <3>2
  <2> QED  BY <2>2, <2>3
<1> QED  BY <1>1, <1>2, <1>3, BackendInvariance, PTL DEF Spec

--------------------------------------------------------------------------------
(* The backend implements FrameStream.                                       *)

\* The beginning of a sequence, taken from a longer one.
LEMMA PrefixFacts ==
    ASSUME NEW S, NEW p \in Seq(S), NEW q \in Seq(S), Len(p) <= Len(q),
           \A i \in 1 .. Len(p) : q[i] = p[i]
    PROVE  SubSeq(q, 1, Len(p)) = p
<1> DEFINE b == SubSeq(q, 1, Len(p))
           n == Len(p)
<1>1. n \in Nat
  OBVIOUS
<1>2. b = [i \in 1 .. n |-> q[i]] /\ p = [i \in 1 .. n |-> p[i]]
  OBVIOUS
<1> HIDE DEF b
<1> QED  BY <1>2 DEF b

\* The initial states.
LEMMA StreamInit == Init => Stream!Init
  BY KindsAssumption, FirstAssumption DEF Init, Stream!Init

\* What is sent are the next frames, in order, computed as promised.
LEMMA StreamEmit ==
    ASSUME BackendInv, GetResult \/ FlushResult
    PROVE  \E n \in 1 .. MaxFrames : Stream!Emit(n)
<1>1. /\ ResultReady /\ SendResult
      /\ pc \notin {"eof", "error"} /\ pc' \notin {"eof", "error"}
      /\ UNCHANGED <<kind, first, fed>>
  BY DEF GetResult, FlushResult
<1>2. /\ sent' \in Seq([frame : Frames, shows : Seq(Frames)])
      /\ Len(sent') = Len(sent) + Size
      /\ \A i \in 1 .. Len(sent) : sent'[i] = sent[i]
      /\ \A i \in Len(sent) + 1 .. Len(sent) + Size : sent'[i] = Shown(i)
  BY <1>1, SendFacts
<1>3. /\ Head(taskQueue) = Delivered + 1 /\ Head(taskQueue) \in inferenceDone
      /\ Len(sent) = Size * Delivered /\ Len(sent) \in Nat
      /\ Len(sent) + Size <= fed
  BY <1>1, OldestTask
<1>4. /\ fed \in Nat /\ fed <= MaxFrames /\ MaxFrames \in Nat /\ Delivered \in Nat
      /\ Size \in Nat \ {0}
  BY Counts
<1> HIDE DEF Delivered
<1>5. Size \in 1 .. MaxFrames
  <2> HIDE DEF Size
  <2> QED  BY <1>3, <1>4
<1>6. SubSeq(sent', 1, Len(sent)) = sent
  <2>1. sent \in Seq([frame : Frames, shows : Seq(Frames)]) /\ Len(sent) <= Len(sent')
    BY <1>2, <1>3, <1>4 DEF BackendInv, SentInv
  <2> QED  BY <1>2, <2>1, PrefixFacts
<1>7. ASSUME NEW i \in Len(sent) + 1 .. Len(sent) + Size
      PROVE  /\ sent'[i].frame = i
             /\ Stream!ShowsPromised => sent'[i].shows = Stream!Neighbourhood(i, fed)
  <2>1. sent'[i] = [frame |-> i, shows |-> pixels[i]]
    BY <1>2 DEF Shown
  <2>2. ASSUME Stream!ShowsPromised PROVE pixels[i] = Stream!Neighbourhood(i, fed)
    <3>1. kind # "basicvsr"
      BY <2>2 DEF Stream!ShowsPromised
    <3>2. Size = 1
      BY <3>1 DEF Size
    <3>3. i = Delivered + 1
      BY <1>3, <1>4, <3>2
    <3> QED  BY <1>3, <2>2, <3>3 DEF BackendInv, ShowInv
  <2> QED  BY <2>1, <2>2
<1>8. Stream!Emit(Size)
  BY <1>1, <1>2, <1>3, <1>6, <1>7 DEF Stream!Emit
<1> QED  BY <1>5, <1>8

\* A regular end comes when whatever can come out of the frames has come out.
LEMMA StreamEnd ==
    ASSUME BackendInv, FlushEnd
    PROVE  Stream!End
<1>1. /\ taskQueue = <<>> /\ pc = "flush_wait" /\ pc' = "eof"
      /\ UNCHANGED <<kind, first, fed, sent>>
  BY DEF FlushEnd
<1>2. /\ Delivered = Queued - Len(taskQueue) /\ Queued \in Nat /\ fed \in Nat
      /\ kind = "basicvsr" => fed = Nif * Queued + (fed % Nif) /\ fed % Nif \in Nat
      /\ Len(sent) = Size * Delivered /\ Nif \in Nat
  BY Counts, BoundAssumption DEF Delivered, BackendInv, SentInv
<1>3. Delivered = Queued
  <2>1. Len(taskQueue) = 0
    BY <1>1
  <2> QED  BY <1>2, <2>1
<1>4. Len(sent) = Stream!Complete(fed)
  <2>1. CASE kind = "basicvsr"
    <3>1. Len(sent) = Nif * Queued /\ Nif * Queued \in Nat
      BY <1>2, <1>3, <2>1 DEF Size
    <3>2. fed - (fed % Nif) = Nif * Queued
      BY <1>2, <2>1, <3>1
    <3> QED  BY <2>1, <3>1, <3>2 DEF Stream!Complete
  <2>2. CASE kind # "basicvsr"
    <3>1. Size = 1 /\ Queued = fed
      BY <2>2 DEF Size, Queued
    <3>2. Len(sent) = fed
      BY <1>2, <1>3, <3>1
    <3> QED  BY <2>2, <3>2 DEF Stream!Complete
  <2> QED  BY <2>1, <2>2
<1> QED  BY <1>1, <1>4 DEF Stream!End

\* Every step of the backend is one of the stream's, or none.
LEMMA StreamStep ==
    ASSUME BackendInv, [Next]_vars
    PROVE  [Stream!Next]_(Stream!vars)
<1>1. CASE Consume \/ ConsumeIntoBatch
  <2>1. Stream!Feed
    BY <1>1 DEF Consume, ConsumeIntoBatch, Stream!Feed
  <2> QED  BY <2>1 DEF Stream!Next
<1>2. CASE GetResult \/ FlushResult
  BY <1>2, StreamEmit DEF Stream!Next
<1>3. CASE FlushEnd
  BY <1>3, StreamEnd DEF Stream!Next
<1>4. CASE ExecuteFails \/ FlushMore \/ FreeModel
  <2>1. Stream!Abort \/ UNCHANGED Stream!vars
    BY <1>4 DEF ExecuteFails, FlushMore, FreeModel, Stream!Abort, Stream!vars
  <2> QED  BY <2>1 DEF Stream!Next
<1>5. CASE \/ Execute \/ ExecuteMore \/ FlushStart \/ FlushStartFails
           \/ NothingToConsume \/ NoResult \/ Settle \/ AcknowledgeEof \/ FlushNothing
  <2>1. pc \notin {"eof", "error"} /\ pc' \notin {"eof", "error"}
    BY <1>5 DEF AfterExecute, Execute, ExecuteMore, FlushStart, FlushStartFails,
                NothingToConsume, NoResult, Settle, AcknowledgeEof, FlushNothing
  <2>2. UNCHANGED <<kind, first, fed, sent>>
    BY <1>5 DEF Execute, ExecuteMore, FlushStart, FlushStartFails,
                NothingToConsume, NoResult, Settle, AcknowledgeEof, FlushNothing
  <2> QED  BY <2>1, <2>2 DEF Stream!vars
<1>6. CASE \E r \in Items : Callback(r)
  <2>1. UNCHANGED <<kind, first, fed, sent, pc>>
    BY <1>6 DEF Callback, InferDone, InferFails, CallbackWrite, CallbackWriteBatch, CallbackMark,
                CallbackPush, InferCancelled, CallbackAfterFree
  <2> QED  BY <2>1 DEF Stream!vars
<1>7. CASE UNCHANGED vars
  BY <1>7 DEF vars, Stream!vars
<1> QED  BY <1>1, <1>2, <1>3, <1>4, <1>5, <1>6, <1>7
         DEF Next, Filter, Neighbours, Ended, FlushNotReady

\* The backend keeps the promise of a filter, for every stream, kind of model and number
\* of items: frames come out in order, once each, computed from their own neighbours
\* (single frames, and TSENet in the first stream), and all of them by a regular end.
THEOREM BackendIsAStream == Spec => ImplementsStream
<1>1. Init => Stream!Init
  BY StreamInit
<1>2. BackendInv /\ [Next]_vars => [Stream!Next]_(Stream!vars)
  BY StreamStep
<1> QED  BY <1>1, <1>2, BackendInvariance, PTL DEF Spec, ImplementsStream, Stream!Spec
================================================================================
