---------------------------- MODULE IvsrInit_proofs -----------------------------
(***************************************************************************)
(* Proofs about ivsr_init, for every list of entries, every model, device  *)
(* and value in it, and whatever OpenVINO may throw: what the handle is    *)
(* built from fits together, and an error leaves nothing running.          *)
(***************************************************************************)
EXTENDS IvsrInit, QueueLemmas, FiniteSetTheorems

ConfigSet ==
    [model : Models \cup {NoModel}, device : Devices \cup {NoDevice},
     precision : Precisions \cup {""}, customLib : BOOLEAN, cldnn : BOOLEAN,
     reshape : Seq(Nat), width : Nat, height : Nat,
     inferRequestNum : Nat \ {0}, numStreams : Nat \ {0},
     inputDesc : Descriptors \cup {"null"}, outputDesc : Descriptors \cup {"null"}]

\* The request number is the largest of those asked for, and of the default.
AskedInv ==
    /\ config.inferRequestNum \in asked \cup {1}
    /\ \A n \in asked : n <= config.inferRequestNum

\* What OpenVINO has been told is what the entries say.
ToldInv ==
    handle \/ pc \in {"read", "compile", "requests", "describe"} =>
        properties = EngineConfig

\* The compiled model has the size of RESHAPE_SETTINGS, or else its own.
CompiledInv ==
    handle \/ pc \in {"compile", "requests", "describe"} =>
        /\ compiled.dims = config.model.rank
        /\ Len(config.reshape) >= 3 =>
             compiled.height = config.reshape[2] /\ compiled.width = config.reshape[3]
        /\ config.reshape = <<>> =>
             compiled.height = config.model.height /\ compiled.width = config.model.width

\* The pool has no request in use; it is whole once the loop is over.
PoolInv ==
    /\ idleIds = [i \in 1 .. requests |-> i - 1]
    /\ requests # 0 => handle \/ pc \in {"requests", "describe", "escaped", "crashed"}
    /\ handle \/ pc = "describe" => requests = config.inferRequestNum

\* The handle is made last, from what was compiled.
HandleInv ==
    /\ pc = "ready" => handle
    /\ handle =>
         /\ pc \in {"ready", "crashed"} /\ status = "OK"
         /\ patchConfig.patchHeight = compiled.height
         /\ patchConfig.patchWidth = compiled.width
         /\ patchConfig.nif > 1 => compiled.dims = 5

\* The engine and its threads come late, and errors are returned early.
ErrorInv ==
    /\ pc = "parse" => engine = "none"
    /\ workers # 0 => handle \/ pc \in {"describe", "escaped", "crashed"}
    /\ status = "none" \/ handle \/ pc = "returned"
    /\ status = "UNSUPPORTED_CONFIG" => engine = "none"

InitInv ==
    /\ TypeOK /\ config \in ConfigSet
    /\ AskedInv /\ ToldInv /\ CompiledInv /\ PoolInv /\ HandleInv /\ ErrorInv

--------------------------------------------------------------------------------
(* The strings.                                                              *)

\* Of a finite set of numbers, the one that n of them do not exceed exists.
LEMMA NthNumber ==
    ASSUME NEW S \in SUBSET Nat, IsFiniteSet(S), NEW n \in 1 .. Cardinality(S)
    PROVE  \E i \in S : Cardinality({j \in S : j <= i}) = n
<1> DEFINE rank == [i \in S |-> Cardinality({j \in S : j <= i})]
<1>1. ASSUME NEW i \in S
      PROVE  /\ IsFiniteSet({j \in S : j <= i})
             /\ rank[i] \in 1 .. Cardinality(S)
  <2>1. {j \in S : j <= i} \in SUBSET S
    OBVIOUS
  <2>2. IsFiniteSet({j \in S : j <= i}) /\ Cardinality({j \in S : j <= i}) <= Cardinality(S)
    BY <2>1, FS_Subset
  <2>3. Cardinality({j \in S : j <= i}) \in Nat /\ Cardinality(S) \in Nat
    BY <2>2, FS_CardinalityType
  <2>4. {j \in S : j <= i} # {}
    OBVIOUS
  <2>5. Cardinality({j \in S : j <= i}) # 0
    BY <2>2, <2>4, FS_EmptySet
  <2> QED  BY <2>2, <2>3, <2>5
<1>2. ASSUME NEW i \in S, NEW k \in S, i < k PROVE rank[i] # rank[k]
  <2> DEFINE A == {j \in S : j <= i}
             B == {j \in S : j <= k}
  <2>1. i \in Nat /\ k \in Nat
    OBVIOUS
  <2>2. \A j \in S : j \in Nat
    OBVIOUS
  <2>3. A \subseteq B
    <3>1. \A j \in S : j <= i => j <= k
      BY <1>2, <2>1, <2>2
    <3> QED  BY <3>1
  <2>4. k \in B /\ k \notin A
    BY <1>2, <2>1
  <2>5. IsFiniteSet(B)
    BY <1>1
  <2>6. Cardinality(B) = Cardinality(A) => B = A
    BY <2>3, <2>5, FS_Subset
  <2> QED  BY <2>4, <2>6
<1>3. \A i, k \in S : rank[i] = rank[k] => i = k
  <2> SUFFICES ASSUME NEW i \in S, NEW k \in S, i # k PROVE rank[i] # rank[k]
    OBVIOUS
  <2>1. i < k \/ k < i
    OBVIOUS
  <2> QED  BY <1>2, <2>1
<1>4. rank \in Injection(S, 1 .. Cardinality(S))
  BY <1>1, <1>3 DEF Injection, IsInjective
<1>5. Cardinality(S) \in Nat
  BY FS_CardinalityType
<1>6. IsFiniteSet(1 .. Cardinality(S)) /\ Cardinality(1 .. Cardinality(S)) = Cardinality(S)
  BY <1>5, FS_Interval
<1>7. rank \in Surjection(S, 1 .. Cardinality(S))
  BY <1>4, <1>6, FS_Injection
<1>8. \E i \in S : rank[i] = n
  BY <1>7 DEF Surjection
<1> QED  BY <1>8

\* convert_string_to_vector returns numbers, whatever the tokens are.
LEMMA VectorOfNumbers ==
    ASSUME NEW tokens \in Seq(Int)
    PROVE  ConvertStringToVector(tokens) \in Seq(Nat)
<1> DEFINE numbers == {i \in DOMAIN tokens : tokens[i] >= 0}
           nth(n) == CHOOSE i \in numbers : Cardinality({j \in numbers : j <= i}) = n
<1>1. numbers \in SUBSET (1 .. Len(tokens))
  OBVIOUS
<1>2. Len(tokens) \in Nat
  OBVIOUS
<1>3. IsFiniteSet(1 .. Len(tokens))
  BY <1>2, FS_Interval
<1>4. IsFiniteSet(numbers)
  BY <1>1, <1>3, FS_Subset
<1>5. Cardinality(numbers) \in Nat
  BY <1>4, FS_CardinalityType
<1>6. numbers \in SUBSET Nat
  BY <1>1
<1>7. \A i \in numbers : tokens[i] \in Nat
  BY ElementFacts
<1>8. ASSUME NEW n \in 1 .. Cardinality(numbers) PROVE tokens[nth(n)] \in Nat
  <2> HIDE DEF numbers
  <2>1. \E i \in numbers : Cardinality({j \in numbers : j <= i}) = n
    BY <1>4, <1>6, NthNumber
  <2>2. nth(n) \in numbers
    BY <2>1
  <2> QED  BY <1>7, <2>2
<1>9. ConvertStringToVector(tokens) = [n \in 1 .. Cardinality(numbers) |-> tokens[nth(n)]]
  BY DEF ConvertStringToVector
<1> HIDE DEF numbers, nth
<1> QED  BY <1>5, <1>8, <1>9

--------------------------------------------------------------------------------
(* The inductive invariant.                                                  *)

\* The ids that PoolInit puts into the pool.
LEMMA IdsOfPool ==
    ASSUME NEW n \in Nat
    PROVE  [i \in 1 .. n |-> i - 1] \in Seq(Nat)
  OBVIOUS

\* create_infer_requests puts the next id behind them.
LEMMA NextId ==
    ASSUME NEW n \in Nat
    PROVE  Append([i \in 1 .. n |-> i - 1], n) = [i \in 1 .. n + 1 |-> i - 1]
  OBVIOUS

\* The numbers of a configuration.
LEMMA ConfigTypes ==
    ASSUME NEW c \in ConfigSet
    PROVE  /\ c.reshape \in Seq(Nat) /\ c.width \in Nat /\ c.height \in Nat
           /\ c.inferRequestNum \in Nat \ {0} /\ c.numStreams \in Nat \ {0}
  BY DEF ConfigSet

LEMMA InitHolds == Init => InitInv
<1>1. <<>> \in Seq(Nat) /\ 0 \in 0 .. MaxEntries
  BY BoundsAssumption
<1>2. [i \in 1 .. 0 |-> i - 1] \in Seq(Nat)
  BY IdsOfPool
<1> SUFFICES ASSUME Init PROVE InitInv
  OBVIOUS
<1> DEFINE start == [model |-> NoModel, device |-> NoDevice, precision |-> "",
                     customLib |-> FALSE, cldnn |-> FALSE, reshape |-> <<>>,
                     width |-> 0, height |-> 0, inferRequestNum |-> 1,
                     numStreams |-> 1, inputDesc |-> "null", outputDesc |-> "null"]
<1>3. start \in ConfigSet /\ start.inferRequestNum = 1
  BY <1>1 DEF ConfigSet
<1>4. config = start
  BY DEF Init
<1> HIDE DEF start
<1> USE DEF Init, PoolInit
<1>5. TypeOK
  BY <1>1, <1>2, <1>3, <1>4, ConfigTypes DEF TypeOK
<1>6. AskedInv
  BY <1>3, <1>4 DEF AskedInv
<1>7. ToldInv /\ CompiledInv /\ PoolInv
  BY DEF ToldInv, CompiledInv, PoolInv
<1>8. HandleInv /\ ErrorInv
  BY DEF HandleInv, ErrorInv
<1> QED  BY <1>3, <1>4, <1>5, <1>6, <1>7, <1>8 DEF InitInv

\* While the list is read nothing is built yet, so only the entries can go wrong.
LEMMA ReadKeeps ==
    ASSUME InitInv, NEW c \in ConfigSet, Read(c), UNCHANGED pc,
           asked' \subseteq Nat, AskedInv'
    PROVE  InitInv'
<1> USE DEF InitInv, Read, Reading, poolVars, built, returned, used
<1>1. config' = c /\ config' \in ConfigSet
  BY DEF ConfigSet
<1>2. TypeOK'
  <2>1. entries' \in 0 .. MaxEntries
    BY BoundsAssumption DEF TypeOK
  <2> QED  BY <1>1, <2>1, ConfigTypes DEF TypeOK
<1>3. ~handle
  BY DEF HandleInv
<1>4. ToldInv' /\ CompiledInv'
  BY <1>3 DEF ToldInv, CompiledInv
<1>5. PoolInv'
  BY <1>3 DEF PoolInv
<1>6. HandleInv' /\ ErrorInv'
  BY <1>3 DEF HandleInv, ErrorInv
<1> QED  BY <1>1, <1>2, <1>4, <1>5, <1>6

\* Every entry of the list.
LEMMA ReadEntryStep ==
    ASSUME InitInv, ReadEntry
    PROVE  InitInv'
<1> USE DEF given
<1>1. config \in ConfigSet /\ asked \subseteq Nat /\ AskedInv
  BY DEF InitInv, TypeOK
<1>2. ASSUME NEW c \in ConfigSet, Read(c), UNCHANGED <<pc, asked>>,
             c.inferRequestNum = config.inferRequestNum
      PROVE  InitInv'
  <2>1. config' = c
    BY <1>2 DEF Read
  <2>2. AskedInv'
    BY <1>1, <1>2, <2>1 DEF AskedInv
  <2> QED  BY <1>1, <1>2, <2>2, ReadKeeps
<1>3. ASSUME NEW m \in Models, ReadModel(m) PROVE InitInv'
  BY <1>1, <1>2, <1>3 DEF ReadModel, ConfigSet
<1>4. ASSUME NEW d \in Devices, ReadDevice(d) PROVE InitInv'
  BY <1>1, <1>2, <1>4 DEF ReadDevice, ConfigSet
<1>5. CASE ReadCustomLib
  BY <1>1, <1>2, <1>5 DEF ReadCustomLib, ConfigSet
<1>6. CASE ReadCldnnConfig
  BY <1>1, <1>2, <1>6 DEF ReadCldnnConfig, ConfigSet
<1>7. CASE ReadIgnored
  BY <1>1, <1>2, <1>7 DEF ReadIgnored
<1>8. ASSUME NEW p \in Precisions, ReadPrecision(p) PROVE InitInv'
  BY <1>1, <1>2, <1>8 DEF ReadPrecision, ConfigSet
<1>9. ASSUME NEW p \in Precisions, RejectPrecision(p) PROVE InitInv'
  <2> USE <1>9 DEF InitInv, RejectPrecision, Reading, poolVars, built, used
  <2>1. ~handle /\ workers = 0 /\ engine = "none" /\ requests = 0
    BY DEF HandleInv, ErrorInv, PoolInv, TypeOK
  <2>2. TypeOK' /\ config' \in ConfigSet
    BY DEF TypeOK
  <2>3. AskedInv'
    BY DEF AskedInv
  <2>4. ToldInv' /\ CompiledInv' /\ PoolInv'
    BY <2>1 DEF ToldInv, CompiledInv, PoolInv
  <2>5. HandleInv' /\ ErrorInv'
    BY <2>1 DEF HandleInv, ErrorInv
  <2> QED  BY <2>2, <2>3, <2>4, <2>5
<1>10. ASSUME NEW t \in Shapes, ReadReshape(t) PROVE InitInv'
  <2>1. ConvertStringToVector(t) \in Seq(Nat)
    BY TokensAssumption, VectorOfNumbers
  <2> QED  BY <1>1, <1>2, <1>10, <2>1 DEF ReadReshape, ConfigSet
<1>11. ASSUME NEW t \in Resolutions, ReadResolution(t) PROVE InitInv'
  <2> DEFINE reso == ConvertStringToVector(t)
  <2>1. reso \in Seq(Nat)
    BY TokensAssumption, VectorOfNumbers
  <2>2. reso # <<>> /\ UNCHANGED <<pc, asked>>
    BY <1>11 DEF ReadResolution
  <2>3. PICK beyond \in Garbage :
             Read([config EXCEPT !.width = reso[1],
                                 !.height = IF Len(reso) > 1 THEN reso[2] ELSE beyond])
    BY <1>11 DEF ReadResolution
  <2> HIDE DEF reso
  <2>4. reso[1] \in Nat /\ (IF Len(reso) > 1 THEN reso[2] ELSE beyond) \in Nat
    BY <2>1, <2>2, BoundsAssumption, ElementFacts
  <2> QED  BY <1>1, <1>2, <2>2, <2>3, <2>4 DEF ConfigSet
<1>12. ASSUME NEW t \in Resolutions, ReadNoResolution(t) PROVE InitInv'
  <2> USE <1>12 DEF InitInv, ReadNoResolution, Reading, poolVars, built, returned, used
  <2>1. ~handle /\ workers = 0 /\ requests = 0 /\ status = "none"
    BY DEF HandleInv, ErrorInv, PoolInv, TypeOK
  <2>2. TypeOK' /\ config' \in ConfigSet
    BY DEF TypeOK
  <2>3. AskedInv'
    BY DEF AskedInv
  <2>4. ToldInv' /\ CompiledInv' /\ PoolInv'
    BY <2>1 DEF ToldInv, CompiledInv, PoolInv
  <2>5. HandleInv' /\ ErrorInv'
    BY <2>1 DEF HandleInv, ErrorInv
  <2> QED  BY <2>2, <2>3, <2>4, <2>5
<1>13. ASSUME NEW n \in Numbers, ReadInferReqNumber(n) PROVE InitInv'
  <2> DEFINE max == IF n > config.inferRequestNum THEN n ELSE config.inferRequestNum
             c == [config EXCEPT !.inferRequestNum = max]
  <2>1. n \in Nat /\ config.inferRequestNum \in Nat \ {0}
    BY <1>1, NumbersAssumption DEF ConfigSet
  <2>2. c \in ConfigSet /\ c.inferRequestNum = max
    <3>1. max \in Nat \ {0}
      BY <2>1
    <3> HIDE DEF max
    <3> QED  BY <1>1, <3>1 DEF ConfigSet
  <2>3. Read(c) /\ UNCHANGED pc /\ asked' = asked \cup {n} /\ config' = c
    BY <1>13 DEF ReadInferReqNumber, Read
  <2> HIDE DEF c
  <2>4. AskedInv'
    BY <1>1, <2>1, <2>2, <2>3 DEF AskedInv
  <2> QED  BY <1>1, <2>1, <2>2, <2>3, <2>4, ReadKeeps
<1>14. ASSUME NEW n \in Numbers, ReadNumStreams(n) PROVE InitInv'
  <2> DEFINE max == IF n > config.numStreams THEN n ELSE config.numStreams
             c == [config EXCEPT !.numStreams = max]
  <2>1. max \in Nat \ {0}
    <3>1. n \in Nat /\ config.numStreams \in Nat \ {0}
      BY <1>1, NumbersAssumption, ConfigTypes
    <3> QED  BY <3>1
  <2>2. Read(c) /\ UNCHANGED <<pc, asked>>
    BY <1>14 DEF ReadNumStreams
  <2> HIDE DEF max
  <2> QED  BY <1>1, <1>2, <2>1, <2>2 DEF ConfigSet
<1>15. ASSUME NEW t \in Descriptors, ReadInputDesc(t) PROVE InitInv'
  BY <1>1, <1>2, <1>15 DEF ReadInputDesc, ConfigSet
<1>16. ASSUME NEW t \in Descriptors, ReadOutputDesc(t) PROVE InitInv'
  BY <1>1, <1>2, <1>16 DEF ReadOutputDesc, ConfigSet
<1> QED
  BY <1>3, <1>4, <1>5, <1>6, <1>7, <1>8, <1>9, <1>10, <1>11, <1>12, <1>13, <1>14, <1>15,
     <1>16 DEF ReadEntry

\* Once the list is read, the entries stay what they are.
LEMMA EntriesKept ==
    ASSUME InitInv, UNCHANGED given, TypeOK', ToldInv', CompiledInv', PoolInv',
           HandleInv', ErrorInv'
    PROVE  InitInv'
<1>1. config' \in ConfigSet
  BY DEF InitInv, given
<1>2. AskedInv'
  BY DEF InitInv, given, AskedInv
<1> QED  BY <1>1, <1>2 DEF InitInv

\* The stages of ivsr_init after the list is read.
LEMMA BuildStep ==
    ASSUME InitInv, Build
    PROVE  InitInv'
<1>1. /\ TypeOK /\ ToldInv /\ CompiledInv /\ PoolInv /\ HandleInv /\ ErrorInv
      /\ config \in ConfigSet
  BY DEF InitInv
<1>2. ASSUME UNCHANGED given, TypeOK', ToldInv', CompiledInv', PoolInv', HandleInv', ErrorInv'
      PROVE  InitInv'
  BY <1>2, EntriesKept
<1> USE DEF given, poolVars, built, returned, used, ReturnError
<1>3. CASE RejectNull
  <2> USE <1>3 DEF RejectNull
  <2>1. TypeOK'
    BY <1>1 DEF TypeOK
  <2>2. ToldInv' /\ CompiledInv'
    BY <1>1 DEF ToldInv, CompiledInv, EngineConfig
  <2>3. PoolInv'
    BY <1>1 DEF PoolInv
  <2>4. HandleInv' /\ ErrorInv'
    BY <1>1 DEF HandleInv, ErrorInv
  <2> QED  BY <1>2, <2>1, <2>2, <2>3, <2>4
<1>4. CASE RejectIncomplete
  <2> USE <1>4 DEF RejectIncomplete
  <2>1. TypeOK'
    BY <1>1 DEF TypeOK
  <2>2. ToldInv' /\ CompiledInv'
    BY <1>1 DEF ToldInv, CompiledInv, EngineConfig
  <2>3. PoolInv'
    BY <1>1 DEF PoolInv
  <2>4. HandleInv' /\ ErrorInv'
    BY <1>1 DEF HandleInv, ErrorInv
  <2> QED  BY <1>2, <2>1, <2>2, <2>3, <2>4
<1>5. CASE RejectMissingDescriptor
  <2> USE <1>5 DEF RejectMissingDescriptor
  <2>1. TypeOK'
    BY <1>1 DEF TypeOK
  <2>2. ToldInv' /\ CompiledInv'
    BY <1>1 DEF ToldInv, CompiledInv, EngineConfig
  <2>3. PoolInv'
    BY <1>1 DEF PoolInv
  <2>4. HandleInv' /\ ErrorInv'
    BY <1>1 DEF HandleInv, ErrorInv
  <2> QED  BY <1>2, <2>1, <2>2, <2>3, <2>4
<1>6. CASE AllocateEngine
  <2> USE <1>6 DEF AllocateEngine
  <2>1. TypeOK'
    BY <1>1 DEF TypeOK
  <2>2. ToldInv' /\ CompiledInv'
    BY <1>1 DEF ToldInv, CompiledInv, EngineConfig
  <2>3. PoolInv'
    BY <1>1 DEF PoolInv
  <2>4. HandleInv' /\ ErrorInv'
    BY <1>1 DEF HandleInv, ErrorInv
  <2> QED  BY <1>2, <2>1, <2>2, <2>3, <2>4
<1>7. CASE ExtensionThrows
  <2> USE <1>7 DEF ExtensionThrows, Escape
  <2>1. TypeOK'
    BY <1>1 DEF TypeOK
  <2>2. ToldInv' /\ CompiledInv'
    BY <1>1 DEF ToldInv, CompiledInv, EngineConfig
  <2>3. PoolInv'
    BY <1>1 DEF PoolInv
  <2>4. HandleInv' /\ ErrorInv'
    BY <1>1 DEF HandleInv, ErrorInv
  <2> QED  BY <1>2, <2>1, <2>2, <2>3, <2>4
<1>8. CASE SetProperties
  <2> USE <1>8 DEF SetProperties
  <2>1. TypeOK'
    BY <1>1 DEF TypeOK
  <2>2. ToldInv' /\ CompiledInv'
    BY <1>1 DEF ToldInv, CompiledInv, EngineConfig
  <2>3. PoolInv'
    BY <1>1 DEF PoolInv
  <2>4. HandleInv' /\ ErrorInv'
    BY <1>1 DEF HandleInv, ErrorInv
  <2> QED  BY <1>2, <2>1, <2>2, <2>3, <2>4
<1>9. CASE SetPropertiesFails
  <2> USE <1>9 DEF SetPropertiesFails
  <2>1. TypeOK'
    BY <1>1 DEF TypeOK
  <2>2. ToldInv' /\ CompiledInv'
    BY <1>1 DEF ToldInv, CompiledInv, EngineConfig
  <2>3. PoolInv'
    BY <1>1 DEF PoolInv
  <2>4. HandleInv' /\ ErrorInv'
    BY <1>1 DEF HandleInv, ErrorInv
  <2> QED  BY <1>2, <2>1, <2>2, <2>3, <2>4
<1>10. CASE ReadModelThrows
  <2> USE <1>10 DEF ReadModelThrows, Escape
  <2>1. TypeOK'
    BY <1>1 DEF TypeOK
  <2>2. ToldInv' /\ CompiledInv'
    BY <1>1 DEF ToldInv, CompiledInv, EngineConfig
  <2>3. PoolInv'
    BY <1>1 DEF PoolInv
  <2>4. HandleInv' /\ ErrorInv'
    BY <1>1 DEF HandleInv, ErrorInv
  <2> QED  BY <1>2, <2>1, <2>2, <2>3, <2>4
<1>11. CASE ReadAndReshape
  <2> USE <1>11 DEF ReadAndReshape
  <2>1. TypeOK'
    BY <1>1 DEF TypeOK
  <2>2. ToldInv' /\ CompiledInv'
    <3>1. ToldInv'
      BY <1>1 DEF ToldInv, EngineConfig
    <3>2. compiled'.dims = config.model.rank
      OBVIOUS
    <3>3. config.reshape = <<>> =>
            compiled'.height = config.model.height /\ compiled'.width = config.model.width
      OBVIOUS
    <3>4. Len(config.reshape) \in Nat
      BY <1>1, ConfigTypes
    <3>5. config.reshape = <<>> => Len(config.reshape) = 0
      OBVIOUS
    <3>6. Len(config.reshape) >= 3 =>
            compiled'.height = config.reshape[2] /\ compiled'.width = config.reshape[3]
      BY <3>4, <3>5
    <3>7. ~handle
      BY <1>1 DEF HandleInv
    <3> QED  BY <3>1, <3>2, <3>3, <3>6, <3>7 DEF CompiledInv
  <2>3. PoolInv'
    BY <1>1 DEF PoolInv
  <2>4. HandleInv' /\ ErrorInv'
    BY <1>1 DEF HandleInv, ErrorInv
  <2> QED  BY <1>2, <2>1, <2>2, <2>3, <2>4
<1>12. CASE ReshapeThrows
  <2> USE <1>12 DEF ReshapeThrows, Escape
  <2>1. TypeOK'
    BY <1>1 DEF TypeOK
  <2>2. ToldInv' /\ CompiledInv'
    BY <1>1 DEF ToldInv, CompiledInv, EngineConfig
  <2>3. PoolInv'
    BY <1>1 DEF PoolInv
  <2>4. HandleInv' /\ ErrorInv'
    BY <1>1 DEF HandleInv, ErrorInv
  <2> QED  BY <1>2, <2>1, <2>2, <2>3, <2>4
<1>13. CASE Compile
  <2> USE <1>13 DEF Compile
  <2>1. TypeOK'
    BY <1>1 DEF TypeOK
  <2>2. ToldInv' /\ CompiledInv'
    BY <1>1 DEF ToldInv, CompiledInv, EngineConfig
  <2>3. PoolInv'
    BY <1>1 DEF PoolInv
  <2>4. HandleInv' /\ ErrorInv'
    BY <1>1 DEF HandleInv, ErrorInv
  <2> QED  BY <1>2, <2>1, <2>2, <2>3, <2>4
<1>14. CASE CompileThrows
  <2> USE <1>14 DEF CompileThrows, Escape
  <2>1. TypeOK'
    BY <1>1 DEF TypeOK
  <2>2. ToldInv' /\ CompiledInv'
    BY <1>1 DEF ToldInv, CompiledInv, EngineConfig
  <2>3. PoolInv'
    BY <1>1 DEF PoolInv
  <2>4. HandleInv' /\ ErrorInv'
    BY <1>1 DEF HandleInv, ErrorInv
  <2> QED  BY <1>2, <2>1, <2>2, <2>3, <2>4
<1>15. CASE CreateRequest
  <2> USE <1>15 DEF CreateRequest, CreateInferRequest
  <2>1. TypeOK'
    BY <1>1 DEF TypeOK
  <2>2. ToldInv' /\ CompiledInv'
    BY <1>1 DEF ToldInv, CompiledInv, EngineConfig
  <2>3. PoolInv'
    <3>1. requests \in Nat /\ ~handle /\ idleIds = [i \in 1 .. requests |-> i - 1]
      BY <1>1 DEF TypeOK, HandleInv, PoolInv
    <3>2. idleIds' = [i \in 1 .. requests' |-> i - 1]
      BY <3>1, NextId
    <3> QED  BY <1>1, <3>1, <3>2 DEF PoolInv
  <2>4. HandleInv' /\ ErrorInv'
    BY <1>1 DEF HandleInv, ErrorInv
  <2> QED  BY <1>2, <2>1, <2>2, <2>3, <2>4
<1>16. CASE CreateRequestThrows
  <2> USE <1>16 DEF CreateRequestThrows, Escape
  <2>1. TypeOK'
    BY <1>1 DEF TypeOK
  <2>2. ToldInv' /\ CompiledInv'
    BY <1>1 DEF ToldInv, CompiledInv, EngineConfig
  <2>3. PoolInv'
    BY <1>1 DEF PoolInv
  <2>4. HandleInv' /\ ErrorInv'
    BY <1>1 DEF HandleInv, ErrorInv
  <2> QED  BY <1>2, <2>1, <2>2, <2>3, <2>4
<1>17. CASE StartExecutor
  <2> USE <1>17 DEF StartExecutor
  <2>1. TypeOK'
    BY <1>1 DEF TypeOK
  <2>2. ToldInv' /\ CompiledInv'
    BY <1>1 DEF ToldInv, CompiledInv, EngineConfig
  <2>3. PoolInv'
    BY <1>1 DEF PoolInv
  <2>4. HandleInv' /\ ErrorInv'
    BY <1>1 DEF HandleInv, ErrorInv
  <2> QED  BY <1>2, <2>1, <2>2, <2>3, <2>4
<1>18. CASE MakeHandle
  <2> USE <1>18 DEF MakeHandle
  <2>1. TypeOK'
    BY <1>1 DEF TypeOK
  <2>2. ToldInv' /\ CompiledInv'
    BY <1>1 DEF ToldInv, CompiledInv, EngineConfig
  <2>3. PoolInv'
    BY <1>1 DEF PoolInv
  <2>4. HandleInv' /\ ErrorInv'
    BY <1>1 DEF HandleInv, ErrorInv
  <2> QED  BY <1>2, <2>1, <2>2, <2>3, <2>4
<1>19. CASE DescribeThrows
  <2> USE <1>19 DEF DescribeThrows, Escape
  <2>1. TypeOK'
    BY <1>1 DEF TypeOK
  <2>2. ToldInv' /\ CompiledInv'
    BY <1>1 DEF ToldInv, CompiledInv, EngineConfig
  <2>3. PoolInv'
    BY <1>1 DEF PoolInv
  <2>4. HandleInv' /\ ErrorInv'
    BY <1>1 DEF HandleInv, ErrorInv
  <2> QED  BY <1>2, <2>1, <2>2, <2>3, <2>4
<1>20. CASE DivideByZero
  <2> USE <1>20 DEF DivideByZero
  <2>1. TypeOK'
    BY <1>1 DEF TypeOK
  <2>2. ToldInv' /\ CompiledInv'
    BY <1>1 DEF ToldInv, CompiledInv, EngineConfig
  <2>3. PoolInv'
    BY <1>1 DEF PoolInv
  <2>4. HandleInv' /\ ErrorInv'
    BY <1>1 DEF HandleInv, ErrorInv
  <2> QED  BY <1>2, <2>1, <2>2, <2>3, <2>4
<1> QED
  BY <1>3, <1>4, <1>5, <1>6, <1>7, <1>8, <1>9, <1>10, <1>11, <1>12, <1>13, <1>14, <1>15, <1>16, <1>17, <1>18, <1>19, <1>20
     DEF Build, InitEngine

\* Nothing that is asked of the handle changes what it was built from.
LEMMA UseStep ==
    ASSUME InitInv, Use
    PROVE  InitInv'
<1>1. /\ TypeOK /\ ToldInv /\ CompiledInv /\ PoolInv /\ HandleInv /\ ErrorInv
      /\ config \in ConfigSet
  BY DEF InitInv
<1>2. /\ pc = "ready" /\ pc' \in {"ready", "crashed"}
      /\ UNCHANGED <<poolVars, given, built, returned>>
  BY DEF Use, GetAttr, GetVersion, GetUnknownAttr, Reconfig
<1> USE <1>1, <1>2 DEF given, poolVars, built, returned
<1>3. TypeOK'
  BY DEF TypeOK
<1>4. ToldInv' /\ CompiledInv' /\ PoolInv'
  BY DEF ToldInv, CompiledInv, PoolInv, HandleInv, EngineConfig
<1>5. HandleInv' /\ ErrorInv'
  BY DEF HandleInv, ErrorInv
<1> QED  BY <1>3, <1>4, <1>5, EntriesKept

LEMMA InitStep == InitInv /\ [Next]_vars => InitInv'
<1> SUFFICES ASSUME InitInv, [Next]_vars PROVE InitInv'
  OBVIOUS
<1>1. CASE ReadEntry
  BY <1>1, ReadEntryStep
<1>2. CASE Build
  BY <1>2, BuildStep
<1>3. CASE Use
  BY <1>3, UseStep
<1>4. CASE UNCHANGED vars
  <2> USE <1>4 DEF vars, given, InitInv
  <2>1. TypeOK'
    BY DEF TypeOK
  <2>2. ToldInv' /\ CompiledInv' /\ PoolInv'
    BY DEF ToldInv, EngineConfig, CompiledInv, PoolInv
  <2>3. HandleInv' /\ ErrorInv'
    BY DEF HandleInv, ErrorInv
  <2> QED  BY <2>1, <2>2, <2>3, EntriesKept
<1> QED  BY <1>1, <1>2, <1>3, <1>4 DEF Next, Ended

--------------------------------------------------------------------------------
(* The results.                                                              *)

\* The inductive invariant holds of every state.
THEOREM InitInvariance == Spec => []InitInv
<1>1. Init => InitInv
  BY InitHolds
<1>2. InitInv /\ [Next]_vars => InitInv'
  BY InitStep
<1> QED  BY <1>1, <1>2, PTL DEF Spec

\* The variables of ivsr_init are always well formed; in particular the vectors
\* hold numbers, whatever the strings of the list are.
THEOREM InitTypeCorrect == Spec => []TypeOK
<1>1. InitInv => TypeOK
  BY DEF InitInv
<1> QED  BY <1>1, InitInvariance, PTL

\* A handle comes with the largest number of requests its list asks for, all idle.
THEOREM PoolAsAsked == Spec => []PoolAsLargeAsAsked
<1>1. InitInv => PoolAsLargeAsAsked
  <2> SUFFICES ASSUME InitInv, handle PROVE PoolAsLargeAsAsked
    BY DEF PoolAsLargeAsAsked
  <2>1. requests = config.inferRequestNum /\ config.inferRequestNum \in Nat \ {0}
    BY ConfigTypes DEF InitInv, PoolInv
  <2>2. PoolInit(requests)
    BY DEF InitInv, TypeOK, PoolInv, PoolInit
  <2>3. requests \in asked \cup {1} /\ \A n \in asked : n <= requests
    BY <2>1 DEF InitInv, AskedInv
  <2> QED  BY <2>1, <2>2, <2>3 DEF PoolAsLargeAsAsked
<1> QED  BY <1>1, InitInvariance, PTL

\* The handle's patches have the size of the compiled model's input.
THEOREM PatchesFit == Spec => []PatchesFitTheRequests
<1>1. InitInv => PatchesFitTheRequests
  BY DEF InitInv, CompiledInv, HandleInv, PatchesFitTheRequests
<1> QED  BY <1>1, InitInvariance, PTL

\* Every hardware device that is named directly is told what the list says.
THEOREM HardwareTold == Spec => []HardwareIsConfigured
<1>1. InitInv => HardwareIsConfigured
  <2> SUFFICES ASSUME InitInv, handle, config.device.target # "AUTO",
                      ~(config.device.target = "MULTI" /\ LegacyOpenVino),
                      NEW d \in MembersOf(config.device)
               PROVE  /\ config.precision # "" => d \in properties.precision
                      /\ IsGpu(d) => d \in properties.streams
                      /\ IsGpu(d) /\ config.cldnn
                         /\ (d = "GPU" => MembersOf(config.device) \cap {"GPU.0", "GPU.1"} = {})
                           => d \in properties.kernels
    BY DEF HardwareIsConfigured
  <2>1. properties = EngineConfig
    BY DEF InitInv, ToldInv
  <2>2. SetDevices(config.device) = MembersOf(config.device)
    BY DEF SetDevices
  <2>3. config.precision # "" => d \in properties.precision
    BY <2>1, <2>2 DEF EngineConfig
  <2>4. IsGpu(d) => d \in properties.streams
    BY <2>1, <2>2 DEF EngineConfig
  <2>5. ASSUME IsGpu(d), config.cldnn,
               d = "GPU" => MembersOf(config.device) \cap {"GPU.0", "GPU.1"} = {}
        PROVE  d \in KernelDevices(config.device, config.cldnn)
    <3> DEFINE numbered == {m \in MembersOf(config.device) : IsGpu(m) /\ m # "GPU"}
    <3>1. NamesGpu(config.device)
      BY <2>5 DEF NamesGpu
    <3>2. KernelDevices(config.device, config.cldnn) =
            IF numbered = {} THEN {"GPU"} ELSE numbered
      BY <2>5, <3>1 DEF KernelDevices
    <3>3. CASE d = "GPU"
      <4>1. numbered = {}
        BY <2>5, <3>3 DEF IsGpu
      <4> QED  BY <3>2, <3>3, <4>1
    <3>4. CASE d # "GPU"
      <4>1. d \in numbered
        BY <2>5, <3>4
      <4> QED  BY <3>2, <4>1
    <3> QED  BY <3>3, <3>4
  <2>6. properties.kernels = KernelDevices(config.device, config.cldnn)
    BY <2>1 DEF EngineConfig
  <2> QED  BY <2>3, <2>4, <2>5, <2>6
<1> QED  BY <1>1, InitInvariance, PTL

\* A returned error leaves no thread, no request and no handle behind.
THEOREM ErrorsLeaveNoThread == Spec => []ErrorLeavesNoThread
<1>1. InitInv => ErrorLeavesNoThread
  BY DEF InitInv, TypeOK, HandleInv, ErrorInv, PoolInv, ErrorLeavesNoThread
<1> QED  BY <1>1, InitInvariance, PTL
================================================================================
