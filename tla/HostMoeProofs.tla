---------------------------- MODULE HostMoeProofs ----------------------------
(***************************************************************************)
(* Proofs about the host-routed section, for any number of layers, experts *)
(* and slots, any batch, any fraction of the misses to fetch and streams   *)
(* that are arbitrarily late.                                              *)
(***************************************************************************)
EXTENDS HostMoe, SlotCacheProofs, SequenceTheorems

-----------------------------------------------------------------------------
(***************************************************************************)
(* Types, and how far the host thread has got: TypeOK by itself does not   *)
(* say that the compute stream is a queue, or that what its guards take    *)
(* the head of is there.                                                   *)
(***************************************************************************)
Ops == [op : {"wait", "gemv"}, event : Nat, reads : SUBSET Pairs]

InStep == pc \in {"lookup", "admit", "serve", "record", "launch"}

QueueInv ==
  /\ gpuQ \in Seq(Ops)
  /\ copying => copyQ # <<>>
  /\ gemvOn => gpuQ # <<>> /\ gpuQ[1].op = "gemv"
  /\ anyFetch => issued > 0

StepInv ==
  /\ InStep => seq <= nseq
  /\ pc \in {"record", "launch"} => seq = nseq
  /\ InStep => \A i \in Sequence : IF i <= nseq THEN route[i] \in Routes ELSE route[i] = {}

(***************************************************************************)
(* The result of a lookup: hits and misses are apart and have slots, and   *)
(* what is fetched or left to the CPU is part of the misses.               *)
(***************************************************************************)
SplitInv ==
  /\ hits \cap misses = {} /\ hits \cap todo = {} /\ misses \cap todo = {}
  /\ \A k \in hits \cup misses : grant[k] \in Slots
  /\ pc # "admit" => todo = {}
  /\ pc # "serve" => toForget = {} /\ toFetch = {}
  /\ toForget \subseteq misses /\ toFetch \subseteq misses /\ toForget \cap toFetch = {}

HostInv == TypeOK /\ QueueInv /\ StepInv /\ SplitInv

(***************************************************************************)
(* Of a sequence the section is done with, every routed expert is a GPU    *)
(* pair or a CPU pair; of the one at hand the lookup accounts for all.     *)
(***************************************************************************)
Routed(i) == {layer} \X route[i]

Done(i) == i < seq \/ (i = seq /\ pc \in {"record", "launch"})

GpuOf(i, k) == {p \in pairs : p.seq = i /\ p.key = k}

CpuKeys == {k \in Keys : <<seq, k>> \in cpuPairs}

RoutedOnce(i) ==
  \A k \in Keys :
    \/ k \in Routed(i) /\ <<i, k>> \notin cpuPairs /\ \E p \in pairs : GpuOf(i, k) = {p}
    \/ k \in Routed(i) /\ <<i, k>> \in cpuPairs /\ GpuOf(i, k) = {}
    \/ k \notin Routed(i) /\ <<i, k>> \notin cpuPairs /\ GpuOf(i, k) = {}

PairsInv ==
  InStep =>
    /\ \A i \in Sequence : Done(i) => RoutedOnce(i)
    /\ \A i \in Sequence : ~Done(i) =>
         \A k \in Keys : /\ GpuOf(i, k) = {}
                         /\ <<i, k>> \in cpuPairs => pc = "serve" /\ i = seq
    /\ pc = "admit" => hits \cup misses \cup todo = Routed(seq)
    /\ pc = "serve" => /\ hits \cup misses \cup CpuKeys = Routed(seq)
                       /\ misses \cap CpuKeys = toForget /\ hits \cap CpuKeys = {}

(***************************************************************************)
(* For one sequence per pass.  The copies on their way are those the wait  *)
(* at the head of the compute stream is for, and those of the layer at     *)
(* hand, into the slots of its misses; a GEMV reads the slots of its hits. *)
(***************************************************************************)
Covered(i) ==
  /\ gpuQ # <<>> /\ gpuQ[1].op = "wait"
  /\ issued - Len(copyQ) + i <= gpuQ[1].event

OfThisLayer(i) ==
  /\ copyQ[i][1] \in misses \ (toForget \cup toFetch)
  /\ copyQ[i][2] = grant[copyQ[i][1]]

ReadsHits(P) == \A p \in P : p.slot # None => p.key \in hits /\ p.slot = grant[p.key]

FetchOrder ==
  /\ InStep => pending = None \/ (pc = "launch" /\ pending = issued)
  /\ ~InStep => pending \in {None, issued}
  /\ \A i \in DOMAIN copyQ :
       Covered(i) \/ (OfThisLayer(i) /\ IF pc \in {"serve", "record"} THEN anyFetch
                                                               ELSE pending = issued)

GemvOrder ==
  /\ pc \in {"lookup", "admit", "serve"} => pairs = {}
  /\ pc \in {"record", "launch"} => ReadsHits(pairs)
  /\ \A i \in DOMAIN gpuQ :
       IF gpuQ[i].op = "wait" THEN i = 1
       ELSE ~InStep /\ ReadsHits(gpuQ[i].reads)

OneSequenceInv == ~cutShort => FetchOrder /\ GemvOrder

-----------------------------------------------------------------------------
\* Facts about the constants and the operators

\* There is a first sequence and a first layer.
LEMMA FirstSequence == Batch \in Nat /\ 1 \in Sequence /\ 0 \in Layers
  BY HostAssumption, SizesAssumption DEF Sequence, Layers

\* The sets of experts the router chooses are routes of the cache.
LEMMA RouterChoice ==
  ASSUME NEW E \in kSubset(TopK, Experts)
  PROVE  E \in Routes
  <1>1. E \in SUBSET Experts /\ Cardinality(E) = TopK
    BY DEF kSubset
  <1>2. E # {}
    BY <1>1, FS_EmptySet, HostAssumption
  <1> QED BY <1>1, <1>2, SizesAssumption DEF Routes

\* Waits and GEMVs are operations of the compute stream.
LEMMA OpTypes ==
  /\ \A e \in Nat : Wait(e) \in Ops
  /\ \A P \in SUBSET Pairs : Gemv(P) \in Ops
  BY DEF Ops, Wait, Gemv

-----------------------------------------------------------------------------
\* What the host thread does to the cache are steps of the cache.
LEMMA CacheSteps ==
  ASSUME HostInv, [Next]_vars
  PROVE  [CacheNext]_cacheVars
  <1> USE DEF streamVars, copyVars, gpuVars
  <1>1. CASE LookupSequence
    <2>1. layer \in Layers /\ route[seq] \in Routes /\ Lookup(layer, route[seq])
      BY <1>1 DEF LookupSequence, HostInv, TypeOK, StepInv, InStep, Sequence
    <2> QED BY <2>1 DEF CacheNext
  <1>2. CASE AdmitMiss
    BY <1>2 DEF AdmitMiss, CacheNext
  <1>3. CASE ForgetMiss
    <2>1. \E k \in toForget : Forget(k)
      BY <1>3 DEF ForgetMiss
    <2> QED BY <2>1 DEF HostInv, TypeOK, CacheNext
  <1>4. CASE BeginPass \/ SyncAndRoute \/ SplitMisses \/ FetchMiss \/ AddPairs
             \/ RecordFetch \/ LaunchPairs \/ FinishPass \/ FailPass
    BY <1>4 DEF BeginPass, SyncAndRoute, SplitMisses, FetchMiss, AddPairs, RecordFetch,
                LaunchPairs, FinishPass, FailPass
  <1>5. CASE CopyStream \/ ComputeStream
    BY <1>5 DEF CopyStream, ComputeStream, CopyStart, CopyEnd, PassWait, GemvStart, GemvEnd
  <1>6. CASE UNCHANGED vars
    BY <1>6 DEF vars
  <1> QED BY <1>1, <1>2, <1>3, <1>4, <1>5, <1>6 DEF Next, Host, HostStep

\* Streams leave the cache and the host thread alone.
LEMMA StreamsOnly ==
  ASSUME CopyStream \/ ComputeStream
  PROVE  UNCHANGED <<cacheVars, hostVars, issued>>
  BY DEF CopyStream, ComputeStream, CopyStart, CopyEnd, PassWait, GemvStart, GemvEnd

\* SplitInv is inductive.
LEMMA SplitStep ==
  ASSUME HostInv, [Next]_vars
  PROVE  SplitInv'
  <1> USE DEF HostInv, SplitInv, splitVars
  <1>1. CASE BeginPass
    BY <1>1 DEF BeginPass, cacheVars
  <1>2. CASE SyncAndRoute
    BY <1>2 DEF SyncAndRoute, cacheVars
  <1>3. CASE LookupSequence
    <2> DEFINE R == Routed(seq)
    <2>1. R \subseteq Keys
      BY <1>3, RoutedKeys DEF LookupSequence, TypeOK, StepInv, InStep, Sequence, Routed
    <2>2. /\ pc = "lookup" /\ pc' = "admit" /\ hits' = Hits(R) /\ todo' = R \ Hits(R)
          /\ misses' = {} /\ UNCHANGED splitVars
          /\ grant' = [k \in Keys |-> IF k \in Hits(R) THEN map[k] ELSE None]
      BY <1>3 DEF LookupSequence, Lookup, Routed
    <2>3. \A k \in hits' : grant'[k] \in Slots
      BY <2>1, <2>2 DEF Hits, TypeOK, CacheTypeOK
    <2> QED BY <2>2, <2>3
  <1>4. CASE AdmitMiss
    <2>1. pc = "admit" /\ pc' = "admit" /\ UNCHANGED splitVars
      BY <1>4 DEF AdmitMiss, hostVars
    <2>2. PICK k \in Keys : Admit(k)
      BY <1>4 DEF AdmitMiss
    <2>3. PICK s \in Slots : grant' = [grant EXCEPT ![k] = s]
      BY <2>2 DEF Admit
    <2>4. /\ k \in todo /\ todo' = todo \ {k} /\ misses' = misses \cup {k} /\ hits' = hits
      BY <2>2 DEF Admit
    <2>5. \A j \in hits' \cup misses' : grant'[j] \in Slots
      BY <2>3, <2>4 DEF TypeOK, CacheTypeOK
    <2> QED BY <2>1, <2>4, <2>5
  <1>5. CASE SplitMisses
    <2>1. PICK F \in SUBSET misses : toFetch' = F /\ toForget' = misses \ F
      BY <1>5 DEF SplitMisses, kSubset
    <2>2. pc = "admit" /\ todo = {} /\ pc' = "serve" /\ UNCHANGED <<hits, misses, todo, grant>>
      BY <1>5 DEF SplitMisses, cacheVars
    <2> QED BY <2>1, <2>2
  <1>6. CASE ForgetMiss
    <2>1. PICK k \in toForget : Forget(k) /\ toForget' = toForget \ {k}
      BY <1>6 DEF ForgetMiss
    <2>2. pc = "serve" /\ pc' = "serve" /\ toFetch' = toFetch
      BY <1>6 DEF ForgetMiss
    <2>3. /\ misses' = misses \ {k} /\ grant' = [grant EXCEPT ![k] = None]
          /\ UNCHANGED <<todo, hits>>
      BY <2>1 DEF Forget
    <2>4. \A j \in hits' \cup misses' : grant'[j] = grant[j]
      BY <2>1, <2>3 DEF TypeOK, CacheTypeOK
    <2> QED BY <2>1, <2>2, <2>3, <2>4
  <1>7. CASE FetchMiss
    <2>1. PICK k \in toFetch : toFetch' = toFetch \ {k}
      BY <1>7 DEF FetchMiss
    <2> QED BY <1>7, <2>1 DEF FetchMiss, cacheVars
  <1>8. CASE AddPairs
    BY <1>8 DEF AddPairs, cacheVars
  <1>9. CASE RecordFetch
    BY <1>9 DEF RecordFetch, cacheVars
  <1>10. CASE LaunchPairs
    BY <1>10 DEF LaunchPairs, cacheVars
  <1>11. CASE FinishPass
    BY <1>11 DEF FinishPass, cacheVars
  <1>12. CASE FailPass
    BY <1>12 DEF FailPass, cacheVars
  <1>13. CASE CopyStream \/ ComputeStream
    BY <1>13, StreamsOnly DEF cacheVars, hostVars
  <1>14. CASE UNCHANGED vars
    BY <1>14 DEF vars, cacheVars, hostVars
  <1> QED
    BY <1>1, <1>2, <1>3, <1>4, <1>5, <1>6, <1>7, <1>8, <1>9, <1>10, <1>11, <1>12,
       <1>13, <1>14 DEF Next, Host, HostStep

\* StepInv is inductive.
LEMMA StepStep ==
  ASSUME HostInv, [Next]_vars
  PROVE  StepInv'
  <1> USE DEF HostInv, StepInv, InStep, loopVars
  <1>a. seq \in Nat /\ nseq \in Nat /\ nseq \in Sequence
    BY FirstSequence DEF TypeOK, Sequence
  <1>1. CASE BeginPass
    BY <1>1 DEF BeginPass
  <1>2. CASE SyncAndRoute
    <2>1. PICK R \in [1..nseq -> kSubset(TopK, Experts)] :
            route' = [i \in Sequence |-> IF i <= nseq THEN R[i] ELSE {}]
      BY <1>2 DEF SyncAndRoute
    <2>2. \A i \in Sequence : i <= nseq => i \in 1..nseq
      BY <1>a, FirstSequence DEF Sequence
    <2>3. \A i \in Sequence : IF i <= nseq THEN route'[i] \in Routes ELSE route'[i] = {}
      BY <2>1, <2>2, RouterChoice
    <2>4. pc' = "lookup" /\ seq' = 1 /\ nseq' = nseq /\ 1 <= nseq
      BY <1>2, <1>a DEF SyncAndRoute, Sequence
    <2> QED BY <2>3, <2>4
  <1>3. CASE LookupSequence \/ SplitMisses \/ ForgetMiss
    BY <1>3 DEF LookupSequence, SplitMisses, ForgetMiss
  <1>4. CASE AdmitMiss
    BY <1>4 DEF AdmitMiss, hostVars
  <1>7. CASE FetchMiss
    BY <1>7 DEF FetchMiss
  <1>8. CASE AddPairs
    BY <1>8, <1>a DEF AddPairs
  <1>9. CASE RecordFetch
    BY <1>9 DEF RecordFetch
  <1>10. CASE LaunchPairs
    BY <1>10 DEF LaunchPairs
  <1>11. CASE FinishPass
    BY <1>11 DEF FinishPass
  <1>12. CASE FailPass
    BY <1>12 DEF FailPass
  <1>13. CASE CopyStream \/ ComputeStream
    BY <1>13, StreamsOnly DEF hostVars
  <1>14. CASE UNCHANGED vars
    BY <1>14 DEF vars, hostVars
  <1> QED
    BY <1>1, <1>2, <1>3, <1>4, <1>7, <1>8, <1>9, <1>10, <1>11, <1>12,
       <1>13, <1>14 DEF Next, Host, HostStep

-----------------------------------------------------------------------------
(* Types *)

\* What TypeOK says of a compute stream q after n copies.
GpuOps(q, n) ==
  \A i \in DOMAIN q : \/ \E e \in 1..n : q[i] = Wait(e)
                      \/ q[i].op = "gemv" /\ q[i].reads \subseteq Pairs

\* What TypeOK says of the host thread and of the copy stream.
HostTypes ==
  /\ pc \in {"idle", "route", "lookup", "admit", "serve", "record", "launch", "finish"}
  /\ layer \in Layers /\ seq \in Sequence /\ nseq \in Sequence
  /\ route \in [Sequence -> SUBSET Experts]
  /\ toForget \subseteq Keys /\ toFetch \subseteq Keys
  /\ pairs \subseteq Pairs /\ cpuPairs \subseteq Sequence \X Keys
  /\ anyFetch \in BOOLEAN /\ cutShort \in BOOLEAN
  /\ pending \in 1..issued \cup {None}

CopyTypes ==
  /\ issued \in Nat
  /\ copyQ \in Seq(Keys \X Slots)
  /\ copying \in BOOLEAN /\ gemvOn \in BOOLEAN
  /\ slotData \in [Slots -> Keys \cup {None}]

\* These are the parts of TypeOK.
LEMMA TypeParts == TypeOK <=> CacheTypeOK /\ HostTypes /\ CopyTypes /\ GpuOps(gpuQ, issued)
  BY DEF TypeOK, HostTypes, CopyTypes, GpuOps

\* What is left of a queue when its head is taken.
LEMMA QueueTail ==
  ASSUME NEW S, NEW q \in Seq(S), q # <<>>
  PROVE  /\ Head(q) = q[1] /\ Head(q) \in S /\ Tail(q) \in Seq(S)
         /\ Len(Tail(q)) = Len(q) - 1 /\ Len(q) \in Nat \ {0}
         /\ DOMAIN q = 1..Len(q) /\ DOMAIN Tail(q) = 1..(Len(q) - 1)
         /\ \A i \in 1..(Len(q) - 1) : Tail(q)[i] = q[i + 1] /\ i + 1 \in DOMAIN q
  <1>1. Len(q) \in Nat \ {0} /\ DOMAIN q = 1..Len(q)
    BY EmptySeq, LenProperties
  <1>2. /\ Tail(q) \in Seq(S) /\ Head(q) \in S
        /\ Len(Tail(q)) = Len(q) - 1 /\ \A i \in 1..Len(Tail(q)) : Tail(q)[i] = q[i + 1]
    BY HeadTailProperties
  <1>3. Head(q) = q[1]
    OBVIOUS
  <1>4. DOMAIN Tail(q) = 1..(Len(q) - 1)
    BY <1>2, LenProperties
  <1>5. \A i \in 1..(Len(q) - 1) : i + 1 \in DOMAIN q
    BY <1>1
  <1> QED BY <1>1, <1>2, <1>3, <1>4, <1>5

\* A queue after an enqueue.
LEMMA QueueAppend ==
  ASSUME NEW S, NEW q \in Seq(S), NEW o \in S
  PROVE  /\ Append(q, o) \in Seq(S) /\ Append(q, o) # <<>>
         /\ Len(q) \in Nat /\ Len(Append(q, o)) = Len(q) + 1
         /\ DOMAIN q = 1..Len(q) /\ DOMAIN Append(q, o) = 1..(Len(q) + 1)
         /\ \A i \in 1..Len(q) : Append(q, o)[i] = q[i]
         /\ Append(q, o)[Len(q) + 1] = o
  BY AppendProperties, LenProperties

\* The operations of a stream stay what they are when its head is done, when
\* one more is enqueued and when more copies are.
LEMMA GpuOpsKept ==
  ASSUME NEW q \in Seq(Ops), NEW n \in Nat, GpuOps(q, n)
  PROVE  /\ q # <<>> => GpuOps(Tail(q), n)
         /\ GpuOps(q, n + 1)
         /\ \A e \in 1..n : GpuOps(Append(q, Wait(e)), n)
         /\ \A P \in SUBSET Pairs : GpuOps(Append(q, Gemv(P)), n)
  <1>1. ASSUME q # <<>>
        PROVE  GpuOps(Tail(q), n)
    BY <1>1, QueueTail DEF GpuOps
  <1>2. GpuOps(q, n + 1)
    BY DEF GpuOps
  <1>3. ASSUME NEW o \in Ops,
               (\E e \in 1..n : o = Wait(e)) \/ (o.op = "gemv" /\ o.reads \subseteq Pairs)
        PROVE  GpuOps(Append(q, o), n)
    <2>1. \A i \in 1..(Len(q) + 1) : i \in 1..Len(q) \/ i = Len(q) + 1
      BY QueueAppend
    <2> QED BY <1>3, <2>1, QueueAppend DEF GpuOps
  <1>4. \A e \in 1..n : GpuOps(Append(q, Wait(e)), n)
    BY <1>3, OpTypes
  <1>5. \A P \in SUBSET Pairs : Gemv(P).op = "gemv" /\ Gemv(P).reads = P
    BY DEF Gemv
  <1>6. \A P \in SUBSET Pairs : GpuOps(Append(q, Gemv(P)), n)
    BY <1>3, <1>5, OpTypes
  <1> QED BY <1>1, <1>2, <1>4, <1>6

\* What the host thread keeps stays typed.
LEMMA HostTypesStep ==
  ASSUME HostInv, [Next]_vars
  PROVE  HostTypes' /\ (anyFetch' => issued' > 0)
  <1> USE DEF loopVars, splitVars, pairVars, eventVars, copyVars, streamVars, HostTypes
  <1>a. HostTypes /\ CacheTypeOK /\ issued \in Nat /\ (anyFetch => issued > 0)
    BY TypeParts DEF HostInv, CopyTypes, QueueInv
  <1>b. 1 \in Sequence /\ 0 \in Layers /\ seq \in Nat /\ nseq \in Nat /\ Batch \in Nat
    BY <1>a, FirstSequence DEF Sequence
  <1>1. CASE BeginPass
    BY <1>1, <1>a, <1>b DEF BeginPass
  <1>2. CASE SyncAndRoute
    <2>1. PICK R \in [1..nseq -> kSubset(TopK, Experts)] :
            route' = [i \in Sequence |-> IF i <= nseq THEN R[i] ELSE {}]
      BY <1>2 DEF SyncAndRoute
    <2>2. \A i \in Sequence : i <= nseq => R[i] \subseteq Experts
      BY <1>b DEF Sequence, kSubset
    <2>3. route' \in [Sequence -> SUBSET Experts]
      BY <2>1, <2>2
    <2> QED BY <1>2, <1>a, <1>b, <2>3 DEF SyncAndRoute
  <1>3. CASE LookupSequence
    BY <1>3, <1>a DEF LookupSequence
  <1>4. CASE AdmitMiss
    BY <1>4, <1>a DEF AdmitMiss, hostVars
  <1>5. CASE SplitMisses
    <2>1. PICK F \in SUBSET misses :
            /\ toFetch' = F /\ toForget' = misses \ F
            /\ cpuPairs' = cpuPairs \cup ({seq} \X (misses \ F))
      BY <1>5 DEF SplitMisses, kSubset
    <2>2. cpuPairs' \subseteq Sequence \X Keys
      BY <1>a, <2>1 DEF CacheTypeOK
    <2> QED BY <1>5, <1>a, <2>1, <2>2 DEF SplitMisses, CacheTypeOK
  <1>6. CASE ForgetMiss
    BY <1>6, <1>a DEF ForgetMiss
  <1>7. CASE FetchMiss
    BY <1>7, <1>a DEF FetchMiss
  <1>8. CASE AddPairs
    <2>1. {[seq |-> seq, key |-> k, slot |-> grant[k]] : k \in hits} \subseteq Pairs
      BY <1>a DEF HostInv, SplitInv, CacheTypeOK, Pairs
    <2>2. {[seq |-> seq, key |-> k, slot |-> None] : k \in misses} \subseteq Pairs
      BY <1>a DEF CacheTypeOK, Pairs
    <2>3. pairs' \subseteq Pairs
      BY <1>8, <1>a, <2>1, <2>2 DEF AddPairs
    <2>4. seq' \in Sequence
      BY <1>8, <1>a, <1>b DEF AddPairs, Sequence
    <2> QED BY <1>8, <1>a, <2>3, <2>4 DEF AddPairs
  <1>9. CASE RecordFetch
    BY <1>9, <1>a DEF RecordFetch
  <1>10. CASE LaunchPairs
    BY <1>10, <1>a DEF LaunchPairs
  <1>11. CASE FinishPass
    BY <1>11, <1>a DEF FinishPass
  <1>12. CASE FailPass
    BY <1>12, <1>a DEF FailPass
  <1>13. CASE CopyStream \/ ComputeStream
    BY <1>13, <1>a, StreamsOnly DEF hostVars
  <1>14. CASE UNCHANGED vars
    BY <1>14, <1>a DEF vars, hostVars
  <1> QED
    BY <1>1, <1>2, <1>3, <1>4, <1>5, <1>6, <1>7, <1>8, <1>9, <1>10, <1>11, <1>12,
       <1>13, <1>14 DEF Next, Host, HostStep

\* The streams stay queues of what may be enqueued on them.
LEMMA StreamTypesStep ==
  ASSUME HostInv, [Next]_vars
  PROVE  /\ CopyTypes' /\ GpuOps(gpuQ', issued') /\ gpuQ' \in Seq(Ops)
         /\ copying' => copyQ' # <<>>
         /\ gemvOn' => gpuQ' # <<>> /\ gpuQ'[1].op = "gemv"
  <1> USE DEF copyVars, gpuVars, streamVars, CopyTypes
  <1>a. /\ CopyTypes /\ GpuOps(gpuQ, issued) /\ gpuQ \in Seq(Ops)
        /\ copying => copyQ # <<>>
        /\ gemvOn => gpuQ # <<>> /\ gpuQ[1].op = "gemv"
    BY TypeParts DEF HostInv, QueueInv
  <1>b. HostTypes /\ CacheTypeOK
    BY TypeParts DEF HostInv
  <1>1. CASE UNCHANGED streamVars
    BY <1>1, <1>a
  <1>2. CASE SyncAndRoute
    <2>1. gpuQ = <<>> /\ ~gemvOn /\ UNCHANGED <<copyVars, gemvOn, slotData>>
      BY <1>2, <1>a DEF SyncAndRoute
    <2>2. CASE pending = None
      BY <1>2, <2>1, <2>2, <1>a DEF SyncAndRoute
    <2>3. CASE pending # None
      <3>1. gpuQ' = Append(gpuQ, Wait(pending)) /\ pending \in 1..issued /\ pending \in Nat
        BY <1>2, <1>a, <1>b, <2>3 DEF SyncAndRoute, HostTypes
      <3>2. gpuQ' \in Seq(Ops) /\ GpuOps(gpuQ', issued)
        BY <1>a, <3>1, OpTypes, QueueAppend, GpuOpsKept
      <3> QED BY <1>a, <2>1, <3>2
    <2> QED BY <2>2, <2>3
  <1>3. CASE FetchMiss
    <2>1. PICK k \in toFetch : copyQ' = Append(copyQ, <<k, grant[k]>>)
      BY <1>3 DEF FetchMiss
    <2>2. <<k, grant[k]>> \in Keys \X Slots
      BY <1>b DEF HostInv, SplitInv, HostTypes
    <2>3. copyQ' \in Seq(Keys \X Slots) /\ copyQ' # <<>>
      BY <1>a, <2>1, <2>2, QueueAppend
    <2>4. /\ issued' = issued + 1
          /\ UNCHANGED <<copying, gpuQ, gemvOn, slotData>>
      BY <1>3 DEF FetchMiss
    <2> QED BY <1>a, <2>3, <2>4, GpuOpsKept
  <1>4. CASE LaunchPairs
    <2>1. UNCHANGED <<copyVars, gemvOn, slotData>>
      BY <1>4 DEF LaunchPairs
    <2>2. CASE pairs = {}
      BY <1>4, <1>a, <2>1, <2>2 DEF LaunchPairs
    <2>3. CASE pairs # {}
      <3>1. gpuQ' = Append(gpuQ, Gemv(pairs)) /\ pairs \in SUBSET Pairs
        BY <1>4, <1>b, <2>3 DEF LaunchPairs, HostTypes
      <3>2. gpuQ' \in Seq(Ops) /\ gpuQ' # <<>> /\ GpuOps(gpuQ', issued)
        BY <1>a, <3>1, OpTypes, QueueAppend, GpuOpsKept
      <3>3. ASSUME gpuQ # <<>>
            PROVE  gpuQ'[1] = gpuQ[1]
        <4>1. 1 \in 1..Len(gpuQ)
          BY <1>a, <3>3, QueueTail
        <4> QED BY <1>a, <3>1, <4>1, OpTypes, QueueAppend
      <3> QED BY <1>a, <2>1, <3>2, <3>3
    <2> QED BY <2>2, <2>3
  <1>5. CASE CopyStart
    <2>1. Head(copyQ)[2] \in Slots
      BY <1>5, <1>a, QueueTail DEF CopyStart
    <2> QED BY <1>5, <1>a, <2>1 DEF CopyStart
  <1>6. CASE CopyEnd
    <2>1. Head(copyQ) \in Keys \X Slots /\ Tail(copyQ) \in Seq(Keys \X Slots)
      BY <1>6, <1>a, QueueTail DEF CopyEnd
    <2> QED BY <1>6, <1>a, <2>1 DEF CopyEnd
  <1>7. CASE PassWait \/ GemvEnd
    <2>1. /\ gpuQ # <<>> /\ gpuQ' = Tail(gpuQ) /\ gemvOn' = FALSE
          /\ UNCHANGED <<issued, copyQ, copying, slotData>>
      <3>1. CASE GemvEnd
        BY <3>1, <1>a DEF GemvEnd
      <3>2. CASE PassWait
        <4>1. gpuQ # <<>> /\ gpuQ[1].op = "wait"
          BY <3>2, <1>a, QueueTail DEF PassWait
        <4> QED BY <3>2, <1>a, <4>1 DEF PassWait
      <3> QED BY <1>7, <3>1, <3>2
    <2>2. gpuQ' \in Seq(Ops)
      BY <1>a, <2>1, QueueTail
    <2>3. GpuOps(gpuQ', issued') /\ CopyTypes'
      BY <1>a, <2>1, GpuOpsKept
    <2>4. copying' => copyQ' # <<>>
      BY <1>a, <2>1
    <2> QED BY <2>1, <2>2, <2>3, <2>4
  <1>8. CASE GemvStart
    <2>1. gpuQ # <<>> /\ gpuQ[1].op = "gemv"
      BY <1>8, <1>a, QueueTail DEF GemvStart
    <2> QED BY <1>8, <1>a, <2>1 DEF GemvStart
  <1>9. CASE BeginPass \/ LookupSequence \/ AdmitMiss \/ SplitMisses \/ ForgetMiss
             \/ AddPairs \/ RecordFetch \/ FinishPass \/ FailPass
    BY <1>9, <1>1 DEF BeginPass, LookupSequence, AdmitMiss, SplitMisses, ForgetMiss,
                     AddPairs, RecordFetch, FinishPass, FailPass
  <1>10. CASE UNCHANGED vars
    BY <1>10, <1>1 DEF vars
  <1> QED
    BY <1>2, <1>3, <1>4, <1>5, <1>6, <1>7, <1>8, <1>9, <1>10
    DEF Next, Host, HostStep, CopyStream, ComputeStream

\* HostInv holds at the start and is inductive.
LEMMA HostInvInit == Init => HostInv
  <1> SUFFICES ASSUME Init
               PROVE  HostInv
    OBVIOUS
  <1>1. CacheTypeOK
    BY DEF Init, CacheInit, CacheTypeOK
  <1>2. HostTypes
    BY FirstSequence DEF Init, HostTypes, Sequence
  <1>3. CopyTypes /\ gpuQ \in Seq(Ops)
    BY EmptySeq DEF Init, CopyTypes
  <1>4. DOMAIN gpuQ = {}
    BY DEF Init
  <1>5. QueueInv /\ StepInv /\ SplitInv
    BY <1>3 DEF Init, CacheInit, QueueInv, StepInv, InStep, SplitInv
  <1> QED BY <1>1, <1>2, <1>3, <1>4, <1>5, TypeParts DEF HostInv, GpuOps

\* Every step of the section keeps the inductive invariant.
LEMMA HostInvStep ==
  ASSUME HostInv, [Next]_vars
  PROVE  HostInv'
  <1>1. CacheTypeOK'
    BY CacheSteps, CacheTypeStep DEF HostInv, TypeOK
  <1>2. HostTypes' /\ CopyTypes' /\ GpuOps(gpuQ', issued') /\ QueueInv'
    BY HostTypesStep, StreamTypesStep DEF QueueInv
  <1>3. TypeOK'
    BY <1>1, <1>2 DEF TypeOK, HostTypes, CopyTypes, GpuOps
  <1> QED BY <1>2, <1>3, StepStep, SplitStep DEF HostInv

\* The inductive invariant holds in every run of the host-routed section: the
\* types, the queues, the split of the routed experts, and where a key is that is
\* mapped but not yet in its slot.
THEOREM HostInvariance == Spec => []HostInv
  BY HostInvInit, HostInvStep, PTL DEF Spec

\* The variables keep their types: whatever is on its way to a slot or read
\* from one names a slot that exists, and an event waits for copies that were
\* enqueued before it.
THEOREM HostTypeCorrect == Spec => []TypeOK
  <1>1. HostInv => TypeOK
    BY DEF HostInv
  <1> QED BY <1>1, HostInvariance, PTL

\* The host thread uses the cache as SlotCache says: everything proved of the
\* cache by itself holds of the cache in here.
THEOREM HostUsesTheCache == Spec => CacheSpec
  <1>1. Init => CacheInit
    BY DEF Init
  <1>2. HostInv /\ [Next]_vars => [CacheNext]_cacheVars
    BY CacheSteps
  <1> QED BY <1>1, <1>2, HostInvariance, PTL DEF Spec, CacheSpec

-----------------------------------------------------------------------------
(* Every routed expert once *)

\* As long as the pairs and the routes stay, so does what they say.
LEMMA PairsKept ==
  ASSUME UNCHANGED <<pairs, cpuPairs, layer, route>>
  PROVE  /\ \A i \in Sequence : RoutedOnce(i)' <=> RoutedOnce(i)
         /\ \A i \in Sequence : \A k \in Keys : GpuOf(i, k)' = GpuOf(i, k)
         /\ \A i \in Sequence : Routed(i)' = Routed(i)
  BY DEF RoutedOnce, GpuOf, Routed

\* PairsInv is inductive.
LEMMA PairsStep ==
  ASSUME HostInv, PairsInv, [Next]_vars
  PROVE  PairsInv'
  <1> USE DEF loopVars, splitVars, pairVars, eventVars
  <1>a. /\ Sequence \subseteq Nat /\ seq \in Sequence /\ nseq \in Sequence
        /\ hits \subseteq Keys /\ misses \subseteq Keys /\ toForget \subseteq Keys
        /\ hits \cap misses = {}
    BY FirstSequence DEF HostInv, TypeOK, CacheTypeOK, Sequence, SplitInv
  <1>1. CASE ~InStep'
    BY <1>1 DEF PairsInv
  <1>2. CASE SyncAndRoute
    <2>1. pc' = "lookup" /\ seq' = 1 /\ pairs' = {} /\ cpuPairs' = {}
      BY <1>2 DEF SyncAndRoute
    <2>2. \A i \in Sequence : ~Done(i)'
      BY <2>1 DEF Done, Sequence
    <2> QED BY <2>1, <2>2 DEF PairsInv, GpuOf
  <1>3. CASE LookupSequence
    <2>1. /\ pc = "lookup" /\ pc' = "admit" /\ UNCHANGED <<seq, pairs, cpuPairs, layer, route>>
          /\ hits' = Hits(Routed(seq)) /\ todo' = Routed(seq) \ Hits(Routed(seq)) /\ misses' = {}
      BY <1>3 DEF LookupSequence, Lookup, Routed
    <2>2. \A i \in Sequence : Done(i)' <=> Done(i)
      BY <2>1 DEF Done
    <2>3. hits' \cup misses' \cup todo' = Routed(seq)
      BY <2>1 DEF Hits
    <2> QED BY <1>a, <2>1, <2>2, <2>3, PairsKept DEF PairsInv, InStep
  <1>4. CASE AdmitMiss
    <2>1. pc = "admit" /\ pc' = "admit" /\ UNCHANGED <<seq, pairs, cpuPairs, layer, route>>
      BY <1>4 DEF AdmitMiss, hostVars
    <2>2. PICK k \in todo : /\ hits' = hits /\ todo' = todo \ {k}
                            /\ misses' = misses \cup {k}
      BY <1>4 DEF AdmitMiss, Admit
    <2>3. hits' \cup misses' \cup todo' = hits \cup misses \cup todo
      BY <2>2
    <2>4. \A i \in Sequence : Done(i)' <=> Done(i)
      BY <2>1 DEF Done
    <2> QED BY <1>a, <2>1, <2>3, <2>4, PairsKept DEF PairsInv, InStep
  <1>5. CASE SplitMisses
    <2>1. PICK F \in SUBSET misses : /\ toForget' = misses \ F
                                     /\ cpuPairs' = cpuPairs \cup ({seq} \X (misses \ F))
      BY <1>5 DEF SplitMisses, kSubset
    <2>2. /\ pc = "admit" /\ pc' = "serve" /\ todo = {}
          /\ UNCHANGED <<seq, pairs, layer, route, hits, misses>>
      BY <1>5 DEF SplitMisses, cacheVars
    <2>3. \A i \in Sequence : Done(i)' <=> Done(i)
      BY <2>2 DEF Done
    <2>4. ~Done(seq) /\ \A k \in Keys : <<seq, k>> \notin cpuPairs
      BY <1>a, <2>2 DEF Done, PairsInv, InStep
    <2>5. CpuKeys' = misses \ F
      BY <1>a, <2>1, <2>2, <2>4 DEF CpuKeys
    <2>6. \A i \in Sequence : \A k \in Keys :
            /\ GpuOf(i, k)' = GpuOf(i, k) /\ Routed(i)' = Routed(i)
            /\ i # seq => (<<i, k>> \in cpuPairs' <=> <<i, k>> \in cpuPairs)
      BY <2>1, <2>2 DEF GpuOf, Routed
    <2>7. ASSUME NEW i \in Sequence, Done(i)'
          PROVE  RoutedOnce(i)'
      <3>1. Done(i) /\ i # seq /\ RoutedOnce(i)
        BY <1>a, <2>2, <2>3, <2>4, <2>7 DEF PairsInv, InStep
      <3>2. pairs' = pairs /\ Routed(i)' = Routed(i)
        BY <2>2, <2>6 DEF Routed
      <3> QED BY <2>6, <3>1, <3>2 DEF RoutedOnce, GpuOf
    <2>8. ASSUME NEW i \in Sequence, ~Done(i)', NEW k \in Keys
          PROVE  GpuOf(i, k)' = {} /\ (<<i, k>> \in cpuPairs' => i = seq')
      BY <2>2, <2>3, <2>6, <2>8 DEF PairsInv, InStep
    <2>9. /\ hits' \cup misses' \cup CpuKeys' = Routed(seq)'
          /\ misses' \cap CpuKeys' = toForget' /\ hits' \cap CpuKeys' = {}
      <3>1. hits \cup misses \cup todo = Routed(seq) /\ Routed(seq)' = Routed(seq)
        BY <2>2 DEF PairsInv, InStep, Routed
      <3> QED BY <1>a, <2>1, <2>2, <2>5, <3>1
    <2> QED BY <2>2, <2>7, <2>8, <2>9 DEF PairsInv
  <1>6. CASE ForgetMiss
    <2>1. PICK k \in toForget : /\ toForget' = toForget \ {k} /\ hits' = hits
                                /\ misses' = misses \ {k}
      BY <1>6 DEF ForgetMiss, Forget
    <2>2. /\ pc = "serve" /\ pc' = "serve" /\ UNCHANGED <<seq, pairs, cpuPairs, layer, route>>
      BY <1>6 DEF ForgetMiss
    <2>3. \A i \in Sequence : Done(i)' <=> Done(i)
      BY <2>2 DEF Done
    <2>4. CpuKeys' = CpuKeys /\ Routed(seq)' = Routed(seq)
      BY <2>2 DEF CpuKeys, Routed
    <2>5. /\ hits \cup misses \cup CpuKeys = Routed(seq)
          /\ misses \cap CpuKeys = toForget /\ hits \cap CpuKeys = {}
      BY <2>2 DEF PairsInv, InStep
    <2>6. /\ hits' \cup misses' \cup CpuKeys' = Routed(seq)'
          /\ misses' \cap CpuKeys' = toForget' /\ hits' \cap CpuKeys' = {}
      BY <2>1, <2>4, <2>5
    <2> QED BY <2>2, <2>3, <2>6, PairsKept DEF PairsInv, InStep
  <1>7. CASE FetchMiss
    <2>1. /\ pc = "serve" /\ pc' = "serve"
          /\ UNCHANGED <<seq, pairs, cpuPairs, layer, route, hits, misses, toForget>>
      BY <1>7 DEF FetchMiss, cacheVars
    <2>2. \A i \in Sequence : Done(i)' <=> Done(i)
      BY <2>1 DEF Done
    <2>3. CpuKeys' = CpuKeys /\ Routed(seq)' = Routed(seq)
      BY <2>1 DEF CpuKeys, Routed
    <2> QED BY <2>1, <2>2, <2>3, PairsKept DEF PairsInv, InStep
  <1>8. CASE AddPairs
    <2> DEFINE G == {[seq |-> seq, key |-> k, slot |-> grant[k]] : k \in hits}
               H == {[seq |-> seq, key |-> k, slot |-> None] : k \in misses}
    <2>1. /\ pc = "serve" /\ toForget = {} /\ pairs' = pairs \cup G \cup H
          /\ UNCHANGED <<cpuPairs, layer, route>>
      BY <1>8 DEF AddPairs
    <2>2. /\ pc' \in {"lookup", "record"}
          /\ \A i \in Sequence : Done(i)' <=> i <= seq
      BY <1>8, <1>a DEF AddPairs, Done
    <2>3. \A i \in Sequence : Done(i) <=> i < seq
      BY <1>a, <2>1 DEF Done
    <2>4. /\ hits \cup misses \cup CpuKeys = Routed(seq)
          /\ misses \cap CpuKeys = {} /\ hits \cap CpuKeys = {}
      BY <2>1 DEF PairsInv, InStep
    <2>5. \A i \in Sequence : i # seq => \A k \in Keys : GpuOf(i, k)' = GpuOf(i, k)
      BY <2>1 DEF GpuOf
    <2>6. \A i \in Sequence : Routed(i)' = Routed(i)
      BY <2>1 DEF Routed
    <2>7. ASSUME NEW i \in Sequence, i = seq
          PROVE  RoutedOnce(i)'
      <3>1. SUFFICES ASSUME NEW k \in Keys
            PROVE  \/ k \in Routed(seq) /\ <<seq, k>> \notin cpuPairs
                      /\ \E p \in pairs' : {q \in pairs' : q.seq = seq /\ q.key = k} = {p}
                   \/ k \in Routed(seq) /\ <<seq, k>> \in cpuPairs
                      /\ {q \in pairs' : q.seq = seq /\ q.key = k} = {}
                   \/ k \notin Routed(seq) /\ <<seq, k>> \notin cpuPairs
                      /\ {q \in pairs' : q.seq = seq /\ q.key = k} = {}
        BY <2>1, <2>6, <2>7 DEF RoutedOnce, GpuOf, Routed
      <3>2. \A q \in pairs : ~(q.seq = seq /\ q.key = k)
        <4>1. ~Done(seq)
          BY <1>a, <2>3
        <4>2. GpuOf(seq, k) = {}
          BY <1>a, <2>1, <4>1 DEF PairsInv, InStep
        <4> QED BY <4>2 DEF GpuOf
      <3>3. CASE k \in hits
        <4> DEFINE p == [seq |-> seq, key |-> k, slot |-> grant[k]]
        <4>1. k \notin misses /\ k \notin CpuKeys /\ k \in Routed(seq)
          BY <1>a, <2>4, <3>3
        <4>2. p \in pairs' /\ p.seq = seq /\ p.key = k
          BY <2>1, <3>3
        <4>3. \A q \in pairs' : q.seq = seq /\ q.key = k => q = p
          BY <2>1, <3>2, <4>1
        <4>4. {q \in pairs' : q.seq = seq /\ q.key = k} = {p}
          BY <4>2, <4>3
        <4>5. <<seq, k>> \notin cpuPairs
          BY <4>1 DEF CpuKeys
        <4> QED BY <4>1, <4>2, <4>4, <4>5
      <3>4. CASE k \in misses
        <4> DEFINE p == [seq |-> seq, key |-> k, slot |-> None]
        <4>1. k \notin hits /\ k \notin CpuKeys /\ k \in Routed(seq)
          BY <1>a, <2>4, <3>4
        <4>2. p \in pairs' /\ p.seq = seq /\ p.key = k
          BY <2>1, <3>4
        <4>3. \A q \in pairs' : q.seq = seq /\ q.key = k => q = p
          BY <2>1, <3>2, <4>1
        <4>4. {q \in pairs' : q.seq = seq /\ q.key = k} = {p}
          BY <4>2, <4>3
        <4>5. <<seq, k>> \notin cpuPairs
          BY <4>1 DEF CpuKeys
        <4> QED BY <4>1, <4>2, <4>4, <4>5
      <3>5. CASE k \notin hits /\ k \notin misses
        <4>1. {q \in pairs' : q.seq = seq /\ q.key = k} = {}
          BY <2>1, <3>2, <3>5
        <4>2. k \in Routed(seq) <=> k \in CpuKeys
          BY <2>4, <3>5
        <4> QED BY <4>1, <4>2 DEF CpuKeys
      <3> QED BY <3>3, <3>4, <3>5
    <2>8. ASSUME NEW i \in Sequence, Done(i)'
          PROVE  RoutedOnce(i)'
      <3>1. CASE i = seq
        BY <2>7, <3>1
      <3>2. CASE i # seq
        <4>1. RoutedOnce(i) /\ pairs \subseteq pairs'
          BY <1>a, <2>1, <2>2, <2>3, <2>8, <3>2 DEF PairsInv, InStep
        <4> QED BY <2>1, <2>5, <2>6, <3>2, <4>1 DEF RoutedOnce
      <3> QED BY <3>1, <3>2
    <2>9. ASSUME NEW i \in Sequence, ~Done(i)', NEW k \in Keys
          PROVE  GpuOf(i, k)' = {} /\ <<i, k>> \notin cpuPairs'
      <3>1. i # seq /\ ~Done(i)
        BY <1>a, <2>2, <2>3, <2>9
      <3> QED BY <2>1, <2>5, <3>1 DEF PairsInv, InStep
    <2> QED BY <2>2, <2>8, <2>9 DEF PairsInv
  <1>9. CASE RecordFetch
    <2>1. /\ pc = "record" /\ pc' = "launch" /\ UNCHANGED <<seq, pairs, cpuPairs, layer, route>>
      BY <1>9 DEF RecordFetch
    <2>2. \A i \in Sequence : Done(i)' <=> Done(i)
      BY <2>1 DEF Done
    <2> QED BY <2>1, <2>2, PairsKept DEF PairsInv, InStep
  <1>10. CASE BeginPass \/ LaunchPairs \/ FinishPass \/ FailPass
    BY <1>10, <1>1 DEF BeginPass, LaunchPairs, FinishPass, FailPass, InStep
  <1>11. CASE UNCHANGED <<cacheVars, hostVars>>
    BY <1>11 DEF PairsInv, InStep, Done, RoutedOnce, GpuOf, Routed, CpuKeys, cacheVars, hostVars
  <1> QED
    BY <1>2, <1>3, <1>4, <1>5, <1>6, <1>7, <1>8, <1>9, <1>10, <1>11, StreamsOnly
    DEF Next, Host, HostStep, vars

\* The section adds every routed expert's output exactly once per sequence, by
\* the GPU or by the CPU: for any batch, split and order of the misses, and even
\* with fewer slots than experts in a step.
THEOREM RoutedExpertsOnce == Spec => []EveryRoutedExpertOnce
  <1>1. Init => PairsInv
    BY DEF Init, PairsInv, InStep
  <1>2. HostInv /\ PairsInv /\ [Next]_vars => PairsInv'
    BY PairsStep
  <1>3. HostInv /\ PairsInv => EveryRoutedExpertOnce
    <2> SUFFICES ASSUME HostInv, PairsInv, pc = "launch", NEW i \in Sequence, NEW k \in Keys
                 PROVE  Cardinality(GpuOf(i, k)) + Cardinality({<<i, k>>} \cap cpuPairs)
                          = IF k \in {layer} \X route[i] THEN 1 ELSE 0
      BY DEF EveryRoutedExpertOnce, GpuOf
    <2>1. CASE Done(i)
      <3>1. RoutedOnce(i)
        BY <2>1 DEF PairsInv, InStep
      <3>2. /\ <<i, k>> \in cpuPairs => {<<i, k>>} \cap cpuPairs = {<<i, k>>}
            /\ <<i, k>> \notin cpuPairs => {<<i, k>>} \cap cpuPairs = {}
        OBVIOUS
      <3>3. /\ Cardinality({}) = 0 /\ Cardinality({<<i, k>>}) = 1
            /\ \A p \in pairs : Cardinality({p}) = 1
        BY FS_EmptySet, FS_Singleton
      <3> QED BY <3>1, <3>2, <3>3 DEF RoutedOnce, Routed
    <2>2. CASE ~Done(i)
      <3>1. GpuOf(i, k) = {} /\ {<<i, k>>} \cap cpuPairs = {}
        BY <2>2 DEF PairsInv, InStep
      <3>2. ~(i <= nseq) /\ i # seq
        BY <2>2, FirstSequence DEF HostInv, TypeOK, StepInv, Done, Sequence
      <3>3. route[i] = {}
        BY <3>2 DEF HostInv, StepInv, InStep
      <3> QED BY <3>1, <3>3, FS_EmptySet
    <2> QED BY <2>1, <2>2
  <1> QED BY <1>1, <1>2, <1>3, HostInvariance, PTL DEF Spec

-----------------------------------------------------------------------------
(***************************************************************************)
(* No false hit.  The proof needs the grants of the cache: a copy goes to  *)
(* the slot the lookup returned, and is the copy of a mapped expert only   *)
(* as long as that expert is still mapped to it.                           *)
(***************************************************************************)

\* In here, too, the grants of a lookup are in force until the next one.
LEMMA HostGrants ==
  ASSUME TopK <= Capacity
  PROVE  Spec => []GrantInv
  <1>1. Init => GrantInv
    BY GrantInvInit DEF Init
  <1>2. HostInv /\ HostInv' /\ GrantInv /\ [Next]_vars => GrantInv'
    BY CacheSteps, GrantInvStep DEF HostInv, TypeOK
  <1> QED BY <1>1, <1>2, HostInvariance, PTL DEF Spec

\* The last copy of queue q into slot s, or the contents d[s] when there is
\* none, is that of expert k: LastCopyInto without Max.
LastIs(q, d, s, k) ==
  \/ \E i \in DOMAIN q : /\ q[i][2] = s /\ q[i][1] = k
                         /\ \A j \in DOMAIN q : q[j][2] = s => j <= i
  \/ d[s] = k /\ \A i \in DOMAIN q : q[i][2] # s

FilledInv ==
  ~cutShort =>
    \A k \in Keys :
      map[k] # None /\ k \notin AboutToFill => LastIs(copyQ, slotData, map[k], k)

\* LastIs says what LastCopyInto says.
LEMMA LastIsLast ==
  ASSUME copyQ \in Seq(Keys \X Slots), NEW s \in Slots, NEW k \in Keys,
         LastIs(copyQ, slotData, s, k)
  PROVE  LastCopyInto(s) = k
  <1> DEFINE mine == {i \in DOMAIN copyQ : copyQ[i][2] = s}
  <1>1. LastCopyInto(s) = IF mine = {} THEN slotData[s] ELSE copyQ[Max(mine)][1]
    BY DEF LastCopyInto
  <1>2. CASE mine = {}
    <2>1. slotData[s] = k
      BY <1>2 DEF LastIs
    <2> QED BY <1>1, <1>2, <2>1
  <1>3. CASE mine # {}
    <2>1. PICK i \in mine : copyQ[i][1] = k /\ \A j \in mine : j <= i
      BY <1>3 DEF LastIs
    <2>2. \A j \in mine : j \in Int
      BY LenProperties
    <2>3. Max(mine) \in mine /\ \A j \in mine : Max(mine) >= j
      BY <2>1, <2>2 DEF Max
    <2>4. Max(mine) = i
      <3>1. i <= Max(mine) /\ Max(mine) <= i /\ i \in Int /\ Max(mine) \in Int
        BY <2>1, <2>2, <2>3
      <3> HIDE DEF mine
      <3> QED BY <3>1
    <2> QED BY <1>1, <1>3, <2>1, <2>4
  <1> QED BY <1>2, <1>3

\* A copy that lands was the last one, or is not what counts.
LEMMA LastIsAfterCopy ==
  ASSUME NEW q \in Seq(Keys \X Slots), q # <<>>, NEW d \in [Slots -> Keys \cup {None}],
         NEW s \in Slots, NEW k \in Keys, LastIs(q, d, s, k)
  PROVE  /\ LastIs(q, [d EXCEPT ![Head(q)[2]] = None], s, k)
         /\ LastIs(Tail(q), [d EXCEPT ![Head(q)[2]] = Head(q)[1]], s, k)
  <1> DEFINE n == Len(q)
  <1>1. /\ n \in Nat \ {0} /\ DOMAIN q = 1..n /\ DOMAIN Tail(q) = 1..(n - 1)
        /\ Head(q) = q[1] /\ \A i \in 1..(n - 1) : Tail(q)[i] = q[i + 1]
    BY QueueTail
  <1>2. q[1][2] \in Slots /\ 1 \in DOMAIN q
    BY <1>1, LenProperties
  <1>3. CASE \E i \in DOMAIN q : /\ q[i][2] = s /\ q[i][1] = k
                                 /\ \A j \in DOMAIN q : q[j][2] = s => j <= i
    <2>1. PICK i \in DOMAIN q : /\ q[i][2] = s /\ q[i][1] = k
                                /\ \A j \in DOMAIN q : q[j][2] = s => j <= i
      BY <1>3
    <2>2. CASE i = 1
      <3>1. \A j \in 1..(n - 1) : Tail(q)[j][2] # s
        <4> TAKE j \in 1..(n - 1)
        <4>1. j + 1 \in DOMAIN q /\ ~(j + 1 <= 1)
          BY <1>1
        <4> QED BY <1>1, <2>1, <2>2, <4>1
      <3> QED BY <1>1, <2>1, <2>2, <3>1 DEF LastIs
    <2>3. CASE i # 1
      <3>1. i - 1 \in 1..(n - 1) /\ Tail(q)[i - 1] = q[i]
        BY <1>1, <2>3
      <3>2. \A j \in 1..(n - 1) : Tail(q)[j][2] = s => j <= i - 1
        <4> TAKE j \in 1..(n - 1)
        <4>1. j + 1 \in DOMAIN q /\ (j + 1 <= i => j <= i - 1)
          BY <1>1
        <4> QED BY <1>1, <2>1, <4>1
      <3> QED BY <1>1, <2>1, <3>1, <3>2 DEF LastIs
    <2> QED BY <2>2, <2>3
  <1>4. CASE d[s] = k /\ \A i \in DOMAIN q : q[i][2] # s
    <2>1. \A j \in 1..(n - 1) : Tail(q)[j][2] # s
      <3> TAKE j \in 1..(n - 1)
      <3>1. j + 1 \in DOMAIN q
        BY <1>1
      <3> QED BY <1>1, <1>4, <3>1
    <2> QED BY <1>1, <1>2, <1>4, <2>1 DEF LastIs
  <1> QED BY <1>3, <1>4 DEF LastIs

\* A copy just enqueued is the last one into its slot, and into no other.
LEMMA LastIsAfterFetch ==
  ASSUME NEW q \in Seq(Keys \X Slots), NEW d \in [Slots -> Keys \cup {None}],
         NEW j \in Keys, NEW t \in Slots
  PROVE  /\ LastIs(Append(q, <<j, t>>), d, t, j)
         /\ \A s \in Slots, k \in Keys :
              s # t /\ LastIs(q, d, s, k) => LastIs(Append(q, <<j, t>>), d, s, k)
  <1> DEFINE n == Len(q)
             r == Append(q, <<j, t>>)
  <1>1. /\ n \in Nat /\ DOMAIN q = 1..n /\ DOMAIN r = 1..(n + 1)
        /\ \A i \in 1..n : r[i] = q[i]
        /\ r[n + 1] = <<j, t>>
    BY QueueAppend
  <1>2. \A i \in 1..(n + 1) : i \in 1..n \/ i = n + 1
    BY <1>1
  <1> HIDE DEF n, r
  <1>3. LastIs(r, d, t, j)
    <2>1. n + 1 \in DOMAIN r /\ \A i \in DOMAIN r : i <= n + 1
      BY <1>1
    <2>2. r[n + 1][1] = j /\ r[n + 1][2] = t
      BY <1>1
    <2> QED BY <2>1, <2>2 DEF LastIs
  <1>4. ASSUME NEW s \in Slots, NEW k \in Keys, s # t, LastIs(q, d, s, k)
        PROVE  LastIs(r, d, s, k)
    <2>1. r[n + 1][2] # s
      BY <1>1, <1>4
    <2>2. \A i \in DOMAIN r : r[i][2] = s => i \in DOMAIN q /\ q[i][2] = s
      BY <1>1, <1>2, <2>1
    <2>3. \A i \in DOMAIN q : i \in DOMAIN r /\ r[i] = q[i]
      BY <1>1
    <2>4. CASE \E i \in DOMAIN q : /\ q[i][2] = s /\ q[i][1] = k
                                   /\ \A h \in DOMAIN q : q[h][2] = s => h <= i
      BY <2>2, <2>3, <2>4 DEF LastIs
    <2>5. CASE d[s] = k /\ \A i \in DOMAIN q : q[i][2] # s
      BY <2>2, <2>5 DEF LastIs
    <2> QED BY <1>4, <2>4, <2>5 DEF LastIs
  <1> QED BY <1>3, <1>4 DEF r

\* FilledInv is inductive.
LEMMA FilledStep ==
  ASSUME HostInv, GrantInv, FilledInv, [Next]_vars
  PROVE  FilledInv'
  <1> USE DEF loopVars, splitVars, pairVars, eventVars, copyVars, gpuVars, streamVars
  <1>a. /\ map \in [Keys -> Slots \cup {None}] /\ grant \in [Keys -> Slots \cup {None}]
        /\ copyQ \in Seq(Keys \X Slots) /\ slotData \in [Slots -> Keys \cup {None}]
        /\ misses \subseteq Keys /\ toFetch \subseteq misses /\ toForget \subseteq misses
    BY DEF HostInv, TypeOK, CacheTypeOK, SplitInv
  <1>b. /\ pc # "serve" => toForget = {} /\ toFetch = {}
        /\ pc # "admit" => todo = {}
    BY DEF HostInv, SplitInv
  <1>1. ASSUME UNCHANGED <<map, copyQ, slotData>>, cutShort' \/ AboutToFill \subseteq AboutToFill',
               cutShort => cutShort'
        PROVE  FilledInv'
    BY <1>1 DEF FilledInv
  <1>2. CASE LookupSequence
    <2>1. AboutToFill = {} /\ UNCHANGED <<map, copyQ, slotData>> /\ (cutShort' <=> cutShort)
      BY <1>2, <1>b DEF LookupSequence, Lookup, AboutToFill
    <2> QED BY <1>1, <2>1
  <1>3. CASE AdmitMiss
    <2>1. PICK j \in Keys : Admit(j)
      BY <1>3 DEF AdmitMiss
    <2>2. PICK s \in Slots : map' = Remap(j, s)
      BY <2>1 DEF Admit
    <2>3. /\ AboutToFill = misses /\ AboutToFill' = misses \cup {j}
          /\ UNCHANGED <<copyQ, slotData>> /\ (cutShort' <=> cutShort)
      BY <1>3, <2>1 DEF AdmitMiss, Admit, AboutToFill, hostVars
    <2>4. ASSUME NEW k \in Keys, k # j, map'[k] # None
          PROVE  map'[k] = map[k]
      BY <2>2, <2>4 DEF Remap
    <2> QED BY <2>3, <2>4 DEF FilledInv
  <1>4. CASE SplitMisses
    <2>1. PICK F \in SUBSET misses : toFetch' = F /\ toForget' = misses \ F
      BY <1>4 DEF SplitMisses, kSubset
    <2>2. /\ AboutToFill = misses /\ AboutToFill' = misses /\ (cutShort' <=> cutShort)
          /\ UNCHANGED <<map, copyQ, slotData>>
      BY <1>4, <2>1 DEF SplitMisses, AboutToFill, cacheVars
    <2> QED BY <1>1, <2>2
  <1>5. CASE ForgetMiss
    <2>1. PICK j \in toForget : Forget(j) /\ toForget' = toForget \ {j}
      BY <1>5 DEF ForgetMiss
    <2>2. /\ AboutToFill = toForget \cup toFetch /\ AboutToFill' = (toForget \ {j}) \cup toFetch
          /\ UNCHANGED <<copyQ, slotData>> /\ (cutShort' <=> cutShort)
      BY <1>5, <2>1 DEF ForgetMiss, AboutToFill
    <2>3. j \in Keys /\ map'[j] = None /\ \A k \in Keys : k # j => map'[k] = map[k]
      BY <1>a, <2>1 DEF Forget
    <2> QED BY <2>2, <2>3 DEF FilledInv
  <1>6. CASE FetchMiss
    <2>1. PICK j \in toFetch : /\ copyQ' = Append(copyQ, <<j, grant[j]>>)
                               /\ toFetch' = toFetch \ {j}
      BY <1>6 DEF FetchMiss
    <2>2. /\ AboutToFill = toFetch /\ AboutToFill' = toFetch \ {j}
          /\ UNCHANGED <<map, slotData>> /\ (cutShort' <=> cutShort)
      BY <1>6, <2>1 DEF FetchMiss, AboutToFill, cacheVars
    <2>3. j \in Keys /\ map[j] = grant[j] /\ grant[j] \in Slots
      BY <1>a, <2>1 DEF GrantInv, Granted
    <2>4. \A k \in Keys : k # j /\ map[k] # None => map[k] \in Slots /\ map[k] # grant[j]
      BY <1>a, <2>3 DEF GrantInv, MapMatchesSlots
    <2>5. \A k \in Keys : k # j /\ map[k] # None /\ LastIs(copyQ, slotData, map[k], k)
                            => LastIs(copyQ', slotData, map[k], k)
      BY <1>a, <2>1, <2>3, <2>4, LastIsAfterFetch
    <2>6. LastIs(copyQ', slotData, grant[j], j)
      BY <1>a, <2>1, <2>3, LastIsAfterFetch
    <2>7. ASSUME ~cutShort, NEW k \in Keys, map[k] # None, k \notin toFetch \ {j}
          PROVE  LastIs(copyQ', slotData, map[k], k)
      <3>1. CASE k = j
        BY <2>3, <2>6, <3>1
      <3>2. CASE k # j
        BY <2>2, <2>5, <2>7, <3>2 DEF FilledInv
      <3> QED BY <3>1, <3>2
    <2> QED BY <2>2, <2>7 DEF FilledInv
  <1>7. CASE AddPairs
    <2>1. AboutToFill = {} /\ (cutShort' <=> cutShort) /\ UNCHANGED <<map, copyQ, slotData>>
      BY <1>7 DEF AddPairs, AboutToFill, cacheVars
    <2> QED BY <1>1, <2>1
  <1>8. CASE BeginPass \/ SyncAndRoute \/ RecordFetch \/ LaunchPairs \/ FinishPass
    <2>1. /\ AboutToFill = {} /\ (cutShort' <=> cutShort) /\ UNCHANGED <<map, copyQ, slotData>>
      BY <1>8, <1>b
         DEF BeginPass, SyncAndRoute, RecordFetch, LaunchPairs, FinishPass, AboutToFill, cacheVars
    <2> QED BY <1>1, <2>1
  <1>9. CASE FailPass
    <2>1. UNCHANGED <<map, copyQ, slotData>>
      BY <1>9 DEF FailPass, cacheVars
    <2>2. cutShort' \/ (cutShort' = cutShort /\ pc \in {"route", "launch", "finish"})
      BY <1>9 DEF FailPass
    <2>3. pc \in {"route", "launch", "finish"} => AboutToFill = {}
      BY <1>b DEF AboutToFill
    <2> QED BY <1>1, <2>1, <2>2, <2>3
  <1>10. CASE CopyStart \/ CopyEnd
    <2>1. UNCHANGED <<map, misses, pc, toForget, toFetch, cutShort>>
      BY <1>10, StreamsOnly DEF CopyStream, cacheVars, hostVars
    <2>2. AboutToFill' = AboutToFill /\ (cutShort' <=> cutShort)
      BY <2>1 DEF AboutToFill
    <2>3. copyQ # <<>>
      BY <1>10 DEF CopyStart, CopyEnd, HostInv, QueueInv
    <2>4. ASSUME NEW s \in Slots, NEW k \in Keys, LastIs(copyQ, slotData, s, k)
          PROVE  LastIs(copyQ', slotData', s, k)
      <3>1. LastIs(copyQ, [slotData EXCEPT ![Head(copyQ)[2]] = None], s, k)
        BY <1>a, <2>3, <2>4, LastIsAfterCopy
      <3>2. LastIs(Tail(copyQ), [slotData EXCEPT ![Head(copyQ)[2]] = Head(copyQ)[1]], s, k)
        BY <1>a, <2>3, <2>4, LastIsAfterCopy
      <3>3. CASE CopyStart
        BY <3>1, <3>3 DEF CopyStart
      <3>4. CASE CopyEnd
        BY <3>2, <3>4 DEF CopyEnd
      <3> QED BY <1>10, <3>3, <3>4
    <2>5. \A k \in Keys : map[k] # None => map[k] \in Slots
      BY <1>a
    <2> QED BY <2>1, <2>2, <2>4, <2>5 DEF FilledInv
  <1>11. CASE ComputeStream \/ UNCHANGED vars
    <2>1. UNCHANGED <<map, misses, pc, toForget, toFetch, cutShort, copyQ, slotData>>
      <3>1. CASE ComputeStream
        BY <3>1 DEF ComputeStream, PassWait, GemvStart, GemvEnd, cacheVars, hostVars
      <3>2. CASE UNCHANGED vars
        BY <3>2 DEF vars, cacheVars, hostVars
      <3> QED BY <1>11, <3>1, <3>2
    <2>2. AboutToFill' = AboutToFill
      BY <2>1 DEF AboutToFill
    <2> QED BY <1>1, <2>1, <2>2
  <1> QED
    BY <1>2, <1>3, <1>4, <1>5, <1>6, <1>7, <1>8, <1>9, <1>10, <1>11
    DEF Next, Host, HostStep, CopyStream

\* No false hit: as long as no pass was cut short between a lookup and its
\* event, a mapped expert is in its slot or is the last one on its way to it,
\* however late the copies are and however often the slot was reassigned.
THEOREM MappedFilled ==
  ASSUME TopK <= Capacity
  PROVE  Spec => []MappedIsFilled
  <1>1. Init => FilledInv
    BY DEF Init, CacheInit, FilledInv
  <1>2. HostInv /\ GrantInv /\ FilledInv /\ [Next]_vars => FilledInv'
    BY FilledStep
  <1>3. HostInv /\ FilledInv => MappedIsFilled
    BY LastIsLast DEF MappedIsFilled, FilledInv, HostInv, TypeOK, CacheTypeOK
  <1> QED BY <1>1, <1>2, <1>3, HostInvariance, HostGrants, PTL DEF Spec

-----------------------------------------------------------------------------
(***************************************************************************)
(* What a GEMV reads, when there is one sequence per pass.                 *)
(***************************************************************************)

\* One sequence: the loop over the sequences is over after the first.
LEMMA OnlySequence ==
  ASSUME Batch = 1, HostInv
  PROVE  seq = 1 /\ nseq = 1
  BY DEF HostInv, TypeOK, Sequence

\* Before the pairs are launched a copy that nobody waits for yet is one of
\* this layer's; a layer that has not fetched anything has none.
LEMMA AllCovered ==
  ASSUME HostInv, FetchOrder, pc \in {"lookup", "admit"}, NEW i \in DOMAIN copyQ
  PROVE  Covered(i)
  <1>1. pending = None /\ issued # None
    BY HostAssumption DEF FetchOrder, InStep, HostInv, TypeOK
  <1> QED BY <1>1 DEF FetchOrder

\* FetchOrder is inductive.
LEMMA FetchOrderStep ==
  ASSUME Batch = 1, HostInv, HostInv', FetchOrder, GemvOrder, [Next]_vars, ~cutShort'
  PROVE  FetchOrder'
  <1> USE DEF loopVars, splitVars, pairVars, eventVars, copyVars, gpuVars, streamVars
  <1>a. /\ issued \in Nat /\ copyQ \in Seq(Keys \X Slots) /\ gpuQ \in Seq(Ops)
        /\ grant \in [Keys -> Slots \cup {None}] /\ None \notin Nat
        /\ Len(copyQ) \in Nat /\ DOMAIN copyQ = 1..Len(copyQ)
        /\ misses \subseteq Keys /\ toFetch \subseteq misses /\ toForget \subseteq misses
        /\ toForget \cap toFetch = {}
    BY LenProperties, HostAssumption DEF HostInv, TypeOK, CacheTypeOK, QueueInv, SplitInv
  <1>1. ASSUME UNCHANGED <<copyQ, gpuQ, issued, misses, toForget, toFetch, grant>>
        PROVE  \A i \in DOMAIN copyQ : /\ Covered(i)' <=> Covered(i)
                                       /\ OfThisLayer(i)' <=> OfThisLayer(i)
    BY <1>1 DEF Covered, OfThisLayer
  <1>2. CASE BeginPass
    <2>1. /\ pc = "idle" /\ pc' = "route" /\ UNCHANGED pending
          /\ UNCHANGED <<copyQ, gpuQ, issued, misses, toForget, toFetch, grant>>
      BY <1>2 DEF BeginPass, cacheVars
    <2> QED BY <1>1, <2>1 DEF FetchOrder, InStep
  <1>3. CASE SyncAndRoute
    <2>1. /\ pc = "route" /\ pc' = "lookup" /\ gpuQ = <<>> /\ pending' = None
          /\ UNCHANGED <<issued, copyQ>>
          /\ gpuQ' = IF pending = None THEN gpuQ ELSE Append(gpuQ, Wait(pending))
      BY <1>3 DEF SyncAndRoute
    <2>2. ASSUME NEW i \in DOMAIN copyQ
          PROVE  Covered(i)'
      <3>1. pending = issued /\ pending # None /\ Wait(issued) \in Ops
        BY <1>a, <2>1, OpTypes DEF FetchOrder, Covered
      <3>2. gpuQ' # <<>> /\ Len(gpuQ) = 0 /\ gpuQ'[Len(gpuQ) + 1] = Wait(issued)
        BY <1>a, <2>1, <3>1, QueueAppend, EmptySeq
      <3>3. gpuQ' # <<>> /\ gpuQ'[1] = Wait(issued)
        BY <3>2
      <3>4. issued - Len(copyQ) + i <= issued
        BY <1>a
      <3> QED BY <2>1, <3>3, <3>4 DEF Covered, Wait
    <2> QED BY <2>1, <2>2 DEF FetchOrder, InStep
  <1>4. CASE LookupSequence \/ AdmitMiss \/ SplitMisses
    <2>1. /\ pc \in {"lookup", "admit"} /\ pc' \in {"admit", "serve"}
          /\ UNCHANGED <<pending, copyQ, gpuQ, issued>>
      BY <1>4 DEF LookupSequence, AdmitMiss, SplitMisses, hostVars
    <2>2. pending = None
      BY <2>1 DEF FetchOrder, InStep
    <2>3. \A i \in DOMAIN copyQ : Covered(i)'
      BY <2>1, AllCovered DEF Covered
    <2> QED BY <2>1, <2>2, <2>3 DEF FetchOrder, InStep
  <1>5. CASE ForgetMiss
    <2>1. PICK j \in toForget : Forget(j) /\ toForget' = toForget \ {j}
      BY <1>5 DEF ForgetMiss
    <2>2. /\ pc = "serve" /\ pc' = "serve" /\ UNCHANGED <<pending, anyFetch, copyQ, gpuQ, issued>>
          /\ toFetch' = toFetch
      BY <1>5 DEF ForgetMiss
    <2>3. misses' = misses \ {j} /\ grant' = [grant EXCEPT ![j] = None]
      BY <2>1 DEF Forget
    <2>4. \A i \in DOMAIN copyQ : Covered(i)' <=> Covered(i)
      BY <2>2 DEF Covered
    <2>5. ASSUME NEW i \in DOMAIN copyQ, OfThisLayer(i)
          PROVE  OfThisLayer(i)'
      <3> DEFINE k == copyQ[i][1]
      <3>1. k \in misses \ (toForget \cup toFetch) /\ copyQ[i][2] = grant[k]
        BY <2>5 DEF OfThisLayer
      <3>2. k # j /\ k \in Keys
        BY <1>a, <2>1, <3>1
      <3>3. k \in misses' \ (toForget' \cup toFetch') /\ grant'[k] = grant[k]
        BY <1>a, <2>1, <2>2, <2>3, <3>1, <3>2
      <3> QED BY <2>2, <3>1, <3>3 DEF OfThisLayer
    <2> QED BY <2>2, <2>4, <2>5 DEF FetchOrder, InStep
  <1>6. CASE FetchMiss
    <2>1. PICK j \in toFetch : /\ copyQ' = Append(copyQ, <<j, grant[j]>>)
                               /\ toFetch' = toFetch \ {j}
      BY <1>6 DEF FetchMiss
    <2>2. /\ pc = "serve" /\ pc' = "serve" /\ issued' = issued + 1 /\ anyFetch' = TRUE
          /\ toForget = {} /\ UNCHANGED <<pending, gpuQ, misses, grant, toForget>>
      BY <1>6 DEF FetchMiss, cacheVars
    <2>3. <<j, grant[j]>> \in Keys \X Slots
      BY <1>a, <2>1 DEF HostInv, SplitInv
    <2>0. PICK n \in Nat : n = Len(copyQ)
      BY <1>a
    <2>4. /\ Len(copyQ') = n + 1 /\ DOMAIN copyQ' = 1..(n + 1)
          /\ \A i \in 1..n : copyQ'[i] = copyQ[i]
          /\ copyQ'[n + 1] = <<j, grant[j]>>
      BY <1>a, <2>0, <2>1, <2>3, QueueAppend
    <2>5. OfThisLayer(n + 1)'
      <3>1. copyQ'[n + 1][1] = j /\ copyQ'[n + 1][2] = grant[j]
        BY <2>4
      <3>2. j \in misses' \ (toForget' \cup toFetch') /\ grant' = grant
        BY <1>a, <2>1, <2>2
      <3> QED BY <3>1, <3>2 DEF OfThisLayer
    <2>6. \A i \in 1..n : OfThisLayer(i) => OfThisLayer(i)'
      BY <2>1, <2>2, <2>4 DEF OfThisLayer
    <2>7. \A i \in 1..n : Covered(i) => Covered(i)'
      <3>1. \A i \in 1..n : issued' - Len(copyQ') + i = issued - n + i
        BY <1>a, <2>0, <2>2, <2>4
      <3> QED BY <2>0, <2>2, <3>1 DEF Covered
    <2>8. \A i \in DOMAIN copyQ' : Covered(i)' \/ OfThisLayer(i)'
      <3> TAKE i \in DOMAIN copyQ'
      <3>1. CASE i \in 1..n
        <4>1. Covered(i) \/ OfThisLayer(i)
          BY <1>a, <2>0, <3>1 DEF FetchOrder
        <4> QED BY <2>6, <2>7, <3>1, <4>1
      <3>2. CASE i = n + 1
        BY <2>5, <3>2
      <3> QED BY <1>a, <2>4, <3>1, <3>2
    <2> QED BY <2>2, <2>8 DEF FetchOrder, InStep
  <1>7. CASE AddPairs
    <2>1. pc = "serve" /\ pc' = "record"
      BY <1>7, OnlySequence DEF AddPairs
    <2>2. UNCHANGED <<pending, anyFetch, copyQ, gpuQ, issued, misses, toForget, toFetch, grant>>
      BY <1>7 DEF AddPairs, cacheVars
    <2> QED BY <1>1, <2>1, <2>2 DEF FetchOrder, InStep
  <1>8. CASE RecordFetch
    <2>1. /\ pc = "record" /\ pc' = "launch" /\ pending' = IF anyFetch THEN issued ELSE pending
          /\ UNCHANGED <<copyQ, gpuQ, issued, misses, toForget, toFetch, grant>>
      BY <1>8 DEF RecordFetch, cacheVars
    <2> QED BY <1>1, <2>1 DEF FetchOrder, InStep
  <1>9. CASE LaunchPairs
    <2>1. /\ pc = "launch" /\ pc' \in {"route", "finish"}
          /\ UNCHANGED <<pending, copyQ, issued, misses, toForget, toFetch, grant>>
      BY <1>9 DEF LaunchPairs, cacheVars
    <2>2. ASSUME gpuQ # <<>>
          PROVE  gpuQ' # <<>> /\ gpuQ'[1] = gpuQ[1]
      <3>1. CASE pairs = {}
        BY <1>9, <2>2, <3>1 DEF LaunchPairs
      <3>2. CASE pairs # {}
        <4>1. gpuQ' = Append(gpuQ, Gemv(pairs)) /\ Gemv(pairs) \in Ops
          BY <1>9, <3>2, OpTypes DEF LaunchPairs, HostInv, TypeOK
        <4>2. 1 \in 1..Len(gpuQ)
          BY <1>a, <2>2, QueueTail
        <4> QED BY <1>a, <4>1, <4>2, QueueAppend
      <3> QED BY <3>1, <3>2
    <2>3. \A i \in DOMAIN copyQ : Covered(i) => Covered(i)'
      BY <2>1, <2>2 DEF Covered
    <2>4. \A i \in DOMAIN copyQ : OfThisLayer(i) => OfThisLayer(i)'
      BY <2>1 DEF OfThisLayer
    <2> QED BY <2>1, <2>3, <2>4 DEF FetchOrder, InStep
  <1>10. CASE FinishPass
    <2>1. /\ pc = "finish" /\ pc' = "idle" /\ UNCHANGED pending
          /\ UNCHANGED <<copyQ, gpuQ, issued, misses, toForget, toFetch, grant>>
      BY <1>10 DEF FinishPass, cacheVars
    <2> QED BY <1>1, <2>1 DEF FetchOrder, InStep
  <1>11. CASE FailPass
    <2>1. /\ pc \in {"route", "launch", "finish"} /\ pc' = "idle" /\ UNCHANGED pending
          /\ UNCHANGED <<copyQ, gpuQ, issued, misses, toForget, grant>>
      BY <1>11 DEF FailPass, cacheVars
    <2>2. toFetch' = toFetch
      BY <1>11, <2>1 DEF FailPass, HostInv, SplitInv
    <2> QED BY <1>1, <2>1, <2>2 DEF FetchOrder, InStep
  <1>12. CASE CopyStart
    <2>1. UNCHANGED <<pc, pending, anyFetch, copyQ, gpuQ, issued, misses, toForget, toFetch, grant>>
      BY <1>12 DEF CopyStart, cacheVars, hostVars
    <2> QED BY <1>1, <2>1 DEF FetchOrder, InStep
  <1>13. CASE CopyEnd
    <2>1. UNCHANGED <<pc, pending, anyFetch, gpuQ, issued, misses, toForget, toFetch, grant>>
      BY <1>13 DEF CopyEnd, cacheVars, hostVars
    <2> DEFINE n == Len(copyQ)
    <2>2. /\ n \in Nat \ {0} /\ DOMAIN copyQ = 1..n /\ DOMAIN copyQ' = 1..(n - 1)
          /\ Len(copyQ') = n - 1
          /\ \A i \in 1..(n - 1) : copyQ'[i] = copyQ[i + 1] /\ i + 1 \in DOMAIN copyQ
      BY <1>13, <1>a, QueueTail DEF CopyEnd, HostInv, QueueInv
    <2>3. \A i \in 1..(n - 1) : OfThisLayer(i + 1) => OfThisLayer(i)'
      BY <2>1, <2>2 DEF OfThisLayer
    <2>4. \A i \in 1..(n - 1) : Covered(i + 1) => Covered(i)'
      <3>1. \A i \in 1..(n - 1) : issued - (n - 1) + i = issued - n + (i + 1)
        BY <1>a, <2>2
      <3> QED BY <2>1, <2>2, <3>1 DEF Covered
    <2> QED BY <2>1, <2>2, <2>3, <2>4 DEF FetchOrder, InStep
  <1>14. CASE PassWait \/ GemvEnd
    <2>1. UNCHANGED <<pc, pending, anyFetch, copyQ, issued, misses, toForget, toFetch, grant>>
      BY <1>14 DEF PassWait, GemvEnd, cacheVars, hostVars
    <2>2. \A i \in DOMAIN copyQ : ~Covered(i)
      <3>1. CASE GemvEnd
        BY <3>1 DEF GemvEnd, Covered, HostInv, QueueInv
      <3>2. CASE PassWait
        <4>1. gpuQ # <<>> /\ issued - Len(copyQ) >= gpuQ[1].event /\ gpuQ[1] \in Ops
          BY <3>2, <1>a, QueueTail DEF PassWait
        <4>2. gpuQ[1].event \in Nat
          BY <4>1 DEF Ops
        <4>3. \A i \in DOMAIN copyQ : ~(issued - Len(copyQ) + i <= gpuQ[1].event)
          BY <1>a, <4>1, <4>2
        <4> QED BY <4>3 DEF Covered
      <3> QED BY <1>14, <3>1, <3>2
    <2>3. \A i \in DOMAIN copyQ : OfThisLayer(i)' <=> OfThisLayer(i)
      BY <2>1 DEF OfThisLayer
    <2> QED BY <2>1, <2>2, <2>3 DEF FetchOrder, InStep
  <1>15. CASE GemvStart \/ UNCHANGED vars
    <2>1. UNCHANGED <<pc, pending, anyFetch, copyQ, gpuQ, issued, misses, toForget, toFetch, grant>>
      BY <1>15 DEF GemvStart, vars, cacheVars, hostVars
    <2> QED BY <1>1, <2>1 DEF FetchOrder, InStep
  <1> QED
    BY <1>2, <1>3, <1>4, <1>5, <1>6, <1>7, <1>8, <1>9, <1>10, <1>11, <1>12, <1>13,
       <1>14, <1>15 DEF Next, Host, HostStep, CopyStream, ComputeStream

\* GemvOrder is inductive.
LEMMA GemvOrderStep ==
  ASSUME Batch = 1, HostInv, HostInv', FetchOrder, GemvOrder, [Next]_vars, ~cutShort'
  PROVE  GemvOrder'
  <1> USE DEF loopVars, splitVars, pairVars, eventVars, copyVars, gpuVars, streamVars
  <1>a. gpuQ \in Seq(Ops) /\ Len(gpuQ) \in Nat /\ DOMAIN gpuQ = 1..Len(gpuQ)
    BY LenProperties DEF HostInv, QueueInv
  <1>1. CASE BeginPass \/ FinishPass \/ FailPass
    <2>1. ~InStep' /\ gpuQ' = gpuQ /\ hits' = hits /\ grant' = grant
      BY <1>1 DEF BeginPass, FinishPass, FailPass, cacheVars, InStep
    <2>2. pc' \in {"route", "idle"}
      BY <1>1 DEF BeginPass, FinishPass, FailPass
    <2> QED BY <2>1, <2>2 DEF GemvOrder, ReadsHits
  <1>2. CASE SyncAndRoute
    <2>1. pc' = "lookup" /\ pairs' = {} /\ gpuQ = <<>>
      BY <1>2 DEF SyncAndRoute
    <2>2. \A i \in DOMAIN gpuQ' : i = 1 /\ gpuQ'[i].op = "wait"
      <3>1. CASE pending = None
        BY <1>2, <2>1, <3>1 DEF SyncAndRoute
      <3>2. CASE pending # None
        <4>1. gpuQ' = Append(gpuQ, Wait(pending)) /\ pending \in Nat
          BY <1>2, <3>2 DEF SyncAndRoute, HostInv, TypeOK
        <4>2. /\ DOMAIN gpuQ' = 1..(Len(gpuQ) + 1) /\ Len(gpuQ) = 0
              /\ gpuQ'[Len(gpuQ) + 1] = Wait(pending)
          BY <1>a, <2>1, <4>1, OpTypes, QueueAppend, EmptySeq
        <4>3. \A i \in DOMAIN gpuQ' : i = 1
          BY <4>2
        <4> QED BY <4>2, <4>3 DEF Wait
      <3> QED BY <3>1, <3>2
    <2> QED BY <2>1, <2>2 DEF GemvOrder
  <1>3. CASE LookupSequence \/ AdmitMiss \/ SplitMisses \/ ForgetMiss \/ FetchMiss
    <2>1. /\ pc \in {"lookup", "admit", "serve"} /\ pc' \in {"admit", "serve"}
          /\ UNCHANGED <<pairs, gpuQ>>
      BY <1>3 DEF LookupSequence, AdmitMiss, SplitMisses, ForgetMiss, FetchMiss, hostVars
    <2>2. \A i \in DOMAIN gpuQ : i = 1 /\ gpuQ[i].op = "wait"
      BY <2>1 DEF GemvOrder, InStep
    <2> QED BY <2>1, <2>2 DEF GemvOrder
  <1>4. CASE AddPairs
    <2>1. /\ pc = "serve" /\ pc' = "record" /\ pairs = {} /\ UNCHANGED <<gpuQ, hits, grant>>
      BY <1>4, OnlySequence DEF AddPairs, GemvOrder, cacheVars
    <2>2. pairs' = {[seq |-> seq, key |-> k, slot |-> grant[k]] : k \in hits}
                     \cup {[seq |-> seq, key |-> k, slot |-> None] : k \in misses}
      BY <1>4, <2>1 DEF AddPairs
    <2>3. ASSUME NEW p \in pairs', p.slot # None
          PROVE  p.key \in hits /\ p.slot = grant[p.key]
      BY <2>2, <2>3
    <2>4. \A i \in DOMAIN gpuQ : i = 1 /\ gpuQ[i].op = "wait"
      BY <2>1 DEF GemvOrder, InStep
    <2> QED BY <2>1, <2>3, <2>4 DEF GemvOrder, ReadsHits
  <1>5. CASE RecordFetch
    <2>1. /\ pc = "record" /\ pc' = "launch" /\ UNCHANGED <<pairs, gpuQ, hits, grant>>
      BY <1>5 DEF RecordFetch, cacheVars
    <2> QED BY <2>1 DEF GemvOrder, ReadsHits, InStep
  <1>6. CASE LaunchPairs
    <2>1. /\ pc = "launch" /\ pc' \in {"route", "finish"} /\ ~InStep'
          /\ UNCHANGED <<pairs, hits, grant>>
      BY <1>6 DEF LaunchPairs, cacheVars, InStep
    <2>2. ReadsHits(pairs) /\ \A i \in DOMAIN gpuQ : i = 1 /\ gpuQ[i].op = "wait"
      BY <2>1 DEF GemvOrder, InStep
    <2>3. CASE pairs = {}
      BY <1>6, <2>1, <2>2, <2>3 DEF LaunchPairs, GemvOrder
    <2>4. CASE pairs # {}
      <3>1. gpuQ' = Append(gpuQ, Gemv(pairs)) /\ Gemv(pairs) \in Ops
        BY <1>6, <2>4, OpTypes DEF LaunchPairs, HostInv, TypeOK
      <3>2. /\ DOMAIN gpuQ' = 1..(Len(gpuQ) + 1)
            /\ \A i \in 1..Len(gpuQ) : gpuQ'[i] = gpuQ[i]
            /\ gpuQ'[Len(gpuQ) + 1] = Gemv(pairs)
        BY <1>a, <3>1, QueueAppend
      <3>3. Gemv(pairs).op = "gemv" /\ Gemv(pairs).reads = pairs /\ "gemv" # "wait"
        BY DEF Gemv
      <3>4. ReadsHits(pairs)'
        BY <2>1, <2>2 DEF ReadsHits
      <3>5. ASSUME NEW i \in DOMAIN gpuQ'
            PROVE  IF gpuQ'[i].op = "wait" THEN i = 1 ELSE ReadsHits(gpuQ[i].reads)'
        <4>1. CASE i \in 1..Len(gpuQ)
          BY <1>a, <2>2, <3>2, <4>1
        <4>2. CASE i = Len(gpuQ) + 1
          BY <2>1, <3>2, <3>3, <3>4, <4>2 DEF ReadsHits
        <4> QED BY <1>a, <3>2, <4>1, <4>2
      <3> QED BY <2>1, <3>5 DEF GemvOrder
    <2> QED BY <2>3, <2>4
  <1>7. CASE PassWait \/ GemvEnd
    <2>1. gpuQ # <<>> /\ gpuQ' = Tail(gpuQ) /\ UNCHANGED <<pc, pairs, hits, grant>>
      BY <1>7 DEF PassWait, GemvEnd, HostInv, QueueInv, cacheVars, hostVars
    <2> DEFINE n == Len(gpuQ)
    <2>2. /\ n \in Nat \ {0} /\ DOMAIN gpuQ' = 1..(n - 1)
          /\ \A i \in 1..(n - 1) : gpuQ'[i] = gpuQ[i + 1] /\ i + 1 \in DOMAIN gpuQ
      BY <1>a, <2>1, QueueTail
    <2>3. \A i \in 1..(n - 1) : i + 1 # 1
      BY <2>2
    <2>4. ASSUME NEW i \in DOMAIN gpuQ'
          PROVE  gpuQ'[i].op # "wait" /\ ~InStep /\ ReadsHits(gpuQ'[i].reads)
      BY <2>2, <2>3 DEF GemvOrder
    <2> QED BY <2>1, <2>4 DEF GemvOrder, InStep, ReadsHits
  <1>8. CASE CopyStream \/ GemvStart \/ UNCHANGED vars
    <2>1. UNCHANGED <<pc, pairs, gpuQ, hits, grant>>
      BY <1>8 DEF CopyStream, CopyStart, CopyEnd, GemvStart, vars, cacheVars, hostVars
    <2> QED BY <2>1 DEF GemvOrder, ReadsHits, InStep
  <1> QED
    BY <1>1, <1>2, <1>3, <1>4, <1>5, <1>6, <1>7, <1>8
    DEF Next, Host, HostStep, ComputeStream

\* cutShort is never reset.
LEMMA CutShortStays ==
  ASSUME [Next]_vars, cutShort
  PROVE  cutShort'
  BY DEF Next, Host, HostStep, CopyStream, ComputeStream, vars, hostVars, eventVars,
     BeginPass, SyncAndRoute, LookupSequence, AdmitMiss, SplitMisses, ForgetMiss, FetchMiss,
     AddPairs, RecordFetch, LaunchPairs, FinishPass, FailPass, CopyStart, CopyEnd, PassWait,
     GemvStart, GemvEnd

\* While a GEMV runs no copy of an earlier layer is on its way any more, and the
\* copies of this layer go to slots of misses, which no hit shares.
LEMMA GemvReads ==
  ASSUME HostInv, GrantInv, FilledInv, OneSequenceInv
  PROVE  GemvReadsItsExpertUnlessCutShort
  <1> SUFFICES ASSUME ~cutShort, gemvOn, NEW p \in gpuQ[1].reads, p.slot # None
               PROVE  slotData[p.slot] = p.key
    <2>1. gemvOn => Head(gpuQ) = gpuQ[1]
      BY QueueTail DEF HostInv, QueueInv
    <2> QED BY <2>1 DEF GemvReadsItsExpertUnlessCutShort, GemvReadsItsExpert
  <1>1. gpuQ # <<>> /\ gpuQ[1].op = "gemv" /\ gpuQ[1].op # "wait" /\ 1 \in DOMAIN gpuQ
    <2>1. gpuQ # <<>> /\ gpuQ[1].op = "gemv"
      BY DEF HostInv, QueueInv
    <2> QED BY <2>1, QueueTail DEF HostInv, QueueInv
  <1>2. ~InStep /\ p.key \in hits /\ p.slot = grant[p.key]
    BY <1>1 DEF OneSequenceInv, GemvOrder, ReadsHits
  <1>3. /\ p.key \in Keys /\ p.slot \in Slots /\ map[p.key] = p.slot
    BY <1>2 DEF GrantInv, Granted, CacheTypeOK
  <1>4. AboutToFill = {}
    BY <1>2 DEF AboutToFill, InStep, HostInv, SplitInv
  <1>5. LastIs(copyQ, slotData, p.slot, p.key)
    BY <1>3, <1>4 DEF FilledInv
  <1>6. ASSUME NEW i \in DOMAIN copyQ
        PROVE  copyQ[i][2] # p.slot
    <2> DEFINE m == copyQ[i][1]
    <2>1. m \in misses /\ copyQ[i][2] = grant[m]
      BY <1>1 DEF OneSequenceInv, FetchOrder, Covered, OfThisLayer
    <2>2. m \in Keys /\ m # p.key /\ map[m] = grant[m]
      BY <1>2, <2>1 DEF GrantInv, Granted, CacheTypeOK
    <2> QED BY <1>3, <2>1, <2>2 DEF GrantInv, MapMatchesSlots
  <1> QED BY <1>5, <1>6 DEF LastIs

\* For one sequence per pass and as many slots as experts in a step, a GEMV
\* reads complete weights of the expert its pair is for, in every interleaving
\* of the host with the two streams: the event of a layer's copies is waited for
\* before the next layer's GEMVs, and the copies it does not wait for cannot
\* touch a slot it reads.
THEOREM GemvReadsRightWeights ==
  ASSUME Batch = 1, TopK <= Capacity
  PROVE  Spec => []GemvReadsItsExpertUnlessCutShort
  <1>1. Init => FilledInv /\ OneSequenceInv
    BY DEF Init, CacheInit, FilledInv, OneSequenceInv, FetchOrder, GemvOrder, InStep
  <1>2. HostInv /\ HostInv' /\ GrantInv /\ FilledInv /\ OneSequenceInv /\ [Next]_vars
          => FilledInv' /\ OneSequenceInv'
    BY FilledStep, FetchOrderStep, GemvOrderStep, CutShortStays DEF OneSequenceInv
  <1>3. HostInv /\ GrantInv /\ FilledInv /\ OneSequenceInv => GemvReadsItsExpertUnlessCutShort
    BY GemvReads
  <1> QED BY <1>1, <1>2, <1>3, HostInvariance, HostGrants, PTL DEF Spec

=============================================================================
