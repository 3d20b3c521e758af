------------------------------ MODULE QueueLemmas ------------------------------
(***************************************************************************)
(* What appending to and taking from a FIFO queue do, stated once for the  *)
(* queues of the SDK (idleIds_ and _taskQueue).                            *)
(***************************************************************************)
EXTENDS Integers, Sequences, FiniteSetTheorems, TLAPS

\* What is in a queue is of the queue's type.
LEMMA ElementFacts ==
    ASSUME NEW S, NEW q \in Seq(S)
    PROVE  \A i \in 1 .. Len(q) : q[i] \in S
  OBVIOUS

\* std::queue::push: one element more, at the end.
LEMMA AppendFacts ==
    ASSUME NEW S, NEW q \in Seq(S), NEW x \in S
    PROVE  /\ Append(q, x) \in Seq(S)
           /\ Len(Append(q, x)) = Len(q) + 1
           /\ Append(q, x)[Len(q) + 1] = x
           /\ \A i \in 1 .. Len(q) : Append(q, x)[i] = q[i]
  OBVIOUS

\* std::queue::front and pop: the first element goes, the others move up.
LEMMA TailFacts ==
    ASSUME NEW S, NEW q \in Seq(S), q # <<>>
    PROVE  /\ Head(q) = q[1]
           /\ Head(q) \in S
           /\ Len(q) \in Nat \ {0}
           /\ Tail(q) \in Seq(S)
           /\ Len(Tail(q)) = Len(q) - 1
           /\ \A i \in 1 .. Len(q) - 1 : Tail(q)[i] = q[i + 1]
  OBVIOUS

\* A queue of as many different ids as there are lists every one of them.
LEMMA FullQueue ==
    ASSUME NEW n \in Nat, NEW q \in Seq(Nat), Len(q) = n,
           \A i \in 1 .. Len(q) : q[i] < n,
           \A i, j \in 1 .. Len(q) : q[i] = q[j] => i = j
    PROVE  \A k \in 0 .. n - 1 : \E i \in 1 .. Len(q) : q[i] = k
<1> DEFINE ids == 0 .. n - 1
<1>1. q \in [1 .. n -> Nat]
  OBVIOUS
<1>2. \A i \in 1 .. n : q[i] \in ids
  BY <1>1
<1>3. /\ IsFiniteSet(1 .. n) /\ Cardinality(1 .. n) = n
      /\ IsFiniteSet(ids) /\ Cardinality(ids) = n
  <2>1. /\ IsFiniteSet(1 .. n)
        /\ Cardinality(1 .. n) = IF 1 > n THEN 0 ELSE n - 1 + 1
    BY FS_Interval
  <2>2. /\ IsFiniteSet(0 .. n - 1)
        /\ Cardinality(0 .. n - 1) = IF 0 > n - 1 THEN 0 ELSE (n - 1) - 0 + 1
    BY FS_Interval
  <2> QED  BY <2>1, <2>2
<1> HIDE DEF ids
<1>4. q \in Injection(1 .. n, ids)
  BY <1>1, <1>2 DEF Injection, IsInjective
<1>5. q \in Surjection(1 .. n, ids)
  BY <1>3, <1>4, FS_Injection
<1> QED  BY <1>5 DEF Surjection, ids
================================================================================
