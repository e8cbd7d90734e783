------------------------------- MODULE HostMoe -------------------------------
(***************************************************************************)
(* The host-routed mixture-of-experts section of Model::forward_batch:     *)
(* one forward pass goes through the layers; in each the host waits for    *)
(* the router logits, looks the routed experts of every sequence up in the *)
(* SlotCache, enqueues a copy from the pinned host bank for the misses it  *)
(* fetches, leaves the others to the CPU, and launches the expert GEMVs.   *)
(*                                                                         *)
(* Three actors run concurrently: the host thread, the copy stream and the *)
(* compute stream.  A stream executes its operations in the order they     *)
(* were enqueued; only an event, or a host-side synchronize, orders the    *)
(* one stream after the other.  The context has its automatic event        *)
(* tracking disabled (lib.rs:451), and the GEMVs read the slots through    *)
(* raw pointers, so nothing else does.  A copy and a GEMV take time: each  *)
(* has a start and an end, and a slot has no readable contents in between  *)
(* the two ends of a copy into it.                                         *)
(*                                                                         *)
(* All that runs on the compute stream besides the expert GEMVs            *)
(* (attention, the shared MLP, the router, the combine) keeps its place in *)
(* stream order and touches no slot, so it is not represented.             *)
(***************************************************************************)
EXTENDS SlotCache, Sequences, FiniteSetsExt

CONSTANTS
  Batch,      \* bound on the sequences decoded together, max_batch
  FracNum,    \* q*: the fraction of the misses to fetch,
  FracDen     \*   as FracNum / FracDen

ASSUME HostAssumption ==
  /\ Batch \in Nat \ {0} /\ TopK # 0 /\ None \notin Nat
  /\ FracNum \in Nat /\ FracDen \in Nat \ {0} /\ FracNum <= FracDen

VARIABLES
  pc,          \* where the host thread is
  layer,       \* its loop variables: the layer,
  seq,         \*   and the sequence within the batch
  nseq,        \* sequences in the batch of this pass
  route,       \* sequence -> the experts the router chose for it
  toForget,    \* misses of this lookup to be forgotten, for the CPU
  toFetch,     \* misses of this lookup whose copy is not yet enqueued
  pairs,       \* (sequence, expert) pairs for the GPU, with what to read
  cpuPairs,    \* (sequence, expert) pairs for the CPU
  anyFetch,    \* whether this layer enqueued a copy
  pending,     \* pending_fetch: an event on the copy stream, or None
  issued,      \* copies ever enqueued; an event is the number it waits for
  copyQ,       \* copy stream: <<key, slot>> not yet landed
  copying,     \* whether its first copy is in progress
  gpuQ,        \* compute stream: waits and GEMVs not yet completed
  gemvOn,      \* whether its first operation, a GEMV, is in progress
  slotData,    \* slot -> key whose weights it holds in full, or None
  cutShort     \* history: a pass has failed between a lookup and the wait for
               \*   the event of its copies

loopVars   == <<layer, seq, nseq, route>>
splitVars  == <<toForget, toFetch>>
pairVars   == <<pairs, cpuPairs>>
eventVars  == <<anyFetch, pending, cutShort>>
hostVars   == <<pc, loopVars, splitVars, pairVars, eventVars>>
copyVars   == <<issued, copyQ, copying>>
gpuVars    == <<gpuQ, gemvOn>>
streamVars == <<copyVars, gpuVars, slotData>>
vars       == <<cacheVars, hostVars, streamVars>>

Sequence == 1..Batch

\* A GPU pair reads the slot it names, or the host bank when that is None.
Pairs == [seq : Sequence, key : Keys, slot : Slots \cup {None}]

Wait(e) == [op |-> "wait", event |-> e, reads |-> {}]
Gemv(P) == [op |-> "gemv", event |-> 0, reads |-> P]

TypeOK ==
  /\ CacheTypeOK
  /\ pc \in {"idle", "route", "lookup", "admit", "serve", "record", "launch",
             "finish"}
  /\ layer \in Layers /\ seq \in Sequence /\ nseq \in Sequence
  /\ route \in [Sequence -> SUBSET Experts]
  /\ toForget \subseteq Keys /\ toFetch \subseteq Keys
  /\ pairs \subseteq Pairs /\ cpuPairs \subseteq Sequence \X Keys
  /\ anyFetch \in BOOLEAN
  /\ issued \in Nat
  /\ pending \in 1..issued \cup {None}
  /\ copyQ \in Seq(Keys \X Slots)
  /\ copying \in BOOLEAN /\ gemvOn \in BOOLEAN
  /\ \A i \in DOMAIN gpuQ : \/ \E e \in 1..issued : gpuQ[i] = Wait(e)
                            \/ gpuQ[i].op = "gemv" /\ gpuQ[i].reads \subseteq Pairs
  /\ slotData \in [Slots -> Keys \cup {None}]
  /\ cutShort \in BOOLEAN

Init ==
  /\ CacheInit
  /\ pc = "idle" /\ layer = 0 /\ seq = 1 /\ nseq = 1
  /\ route = [i \in Sequence |-> {}]
  /\ toForget = {} /\ toFetch = {}
  /\ pairs = {} /\ cpuPairs = {}
  /\ anyFetch = FALSE /\ pending = None
  /\ issued = 0 /\ copyQ = <<>> /\ copying = FALSE
  /\ gpuQ = <<>> /\ gemvOn = FALSE
  /\ slotData = [s \in Slots |-> None]
  /\ cutShort = FALSE

(***************************************************************************)
(* split_misses: how many of n misses are fetched, f64::round being half   *)
(* away from zero.  Which ones depends on the router's order alone.        *)
(***************************************************************************)
FetchCount(n) ==
  LET k == (2 * n * FracNum + FracDen) \div (2 * FracDen)
  IN  IF k <= n THEN k ELSE n

-----------------------------------------------------------------------------
(* The host thread *)

\* A pass looks up once per layer and sequence: the model's bound on passes.
BeginPass ==
  /\ pc = "idle"
  /\ nseq' \in Sequence
  /\ tick + NLayers * nseq' <= MaxTick
  /\ pc' = "route" /\ layer' = 0
  /\ UNCHANGED <<cacheVars, seq, route, splitVars, pairVars, eventVars,
                 streamVars>>

\* Mutant of SyncAndRoute: the event is taken, but not waited for.
SyncWithoutWait ==
  /\ pc = "route"
  /\ gpuQ = <<>>
  /\ \E R \in [1..nseq -> kSubset(TopK, Experts)] :
       route' = [i \in Sequence |-> IF i <= nseq THEN R[i] ELSE {}]
  /\ gpuQ' = gpuQ
  /\ pending' = None
  /\ pairs' = {} /\ cpuPairs' = {} /\ anyFetch' = FALSE
  /\ seq' = 1 /\ pc' = "lookup"
  /\ UNCHANGED <<cacheVars, layer, nseq, splitVars, cutShort, copyVars, gemvOn,
                 slotData>>

\* The one sync per layer: every operation on the compute stream is complete
\* when the router logits are there.  Then top-k per sequence, and the wait
\* for the copies of the previous fetching layer goes onto the stream.
SyncAndRoute ==
  /\ pc = "route"
  /\ gpuQ = <<>>
  /\ \E R \in [1..nseq -> kSubset(TopK, Experts)] :
       route' = [i \in Sequence |-> IF i <= nseq THEN R[i] ELSE {}]
  /\ gpuQ' = IF pending = None THEN gpuQ ELSE Append(gpuQ, Wait(pending))
  /\ pending' = None
  /\ pairs' = {} /\ cpuPairs' = {} /\ anyFetch' = FALSE
  /\ seq' = 1 /\ pc' = "lookup"
  /\ UNCHANGED <<cacheVars, layer, nseq, splitVars, cutShort, copyVars, gemvOn,
                 slotData>>

LookupSequence ==
  /\ pc = "lookup"
  /\ Lookup(layer, route[seq])
  /\ pc' = "admit"
  /\ UNCHANGED <<loopVars, splitVars, pairVars, eventVars, streamVars>>

AdmitMiss ==
  /\ pc = "admit"
  /\ \E k \in Keys : Admit(k)
  /\ UNCHANGED <<hostVars, streamVars>>

\* Mutant of SplitMisses: the misses left to the CPU stay mapped.
SplitForgettingNone ==
  /\ pc = "admit" /\ todo = {}
  /\ \E F \in kSubset(FetchCount(Cardinality(misses)), misses) :
       /\ toFetch' = F
       /\ cpuPairs' = cpuPairs \cup ({seq} \X (misses \ F))
  /\ toForget' = {}
  /\ pc' = "serve"
  /\ UNCHANGED <<cacheVars, loopVars, pairs, eventVars, streamVars>>

\* Mutant of SplitMisses: the CPU is given the misses that are fetched, too.
SplitTwice ==
  /\ pc = "admit" /\ todo = {}
  /\ \E F \in kSubset(FetchCount(Cardinality(misses)), misses) :
       /\ toFetch' = F
       /\ toForget' = misses \ F
  /\ cpuPairs' = cpuPairs \cup ({seq} \X misses)
  /\ pc' = "serve"
  /\ UNCHANGED <<cacheVars, loopVars, pairs, eventVars, streamVars>>

\* The lookup has returned: split its misses, the rest goes to the CPU.
SplitMisses ==
  /\ pc = "admit" /\ todo = {}
  /\ \E F \in kSubset(FetchCount(Cardinality(misses)), misses) :
       /\ toFetch' = F
       /\ toForget' = misses \ F
       /\ cpuPairs' = cpuPairs \cup ({seq} \X (misses \ F))
  /\ pc' = "serve"
  /\ UNCHANGED <<cacheVars, loopVars, pairs, eventVars, streamVars>>

ForgetMiss ==
  /\ pc = "serve"
  /\ \E k \in toForget : Forget(k) /\ toForget' = toForget \ {k}
  /\ UNCHANGED <<pc, loopVars, toFetch, pairVars, eventVars, streamVars>>

\* Enqueue the copy of one miss into the slot its lookup returned.
FetchMiss ==
  /\ pc = "serve" /\ toForget = {}
  /\ \E k \in toFetch :
       /\ copyQ' = Append(copyQ, <<k, grant[k]>>)
       /\ toFetch' = toFetch \ {k}
  /\ issued' = issued + 1
  /\ anyFetch' = TRUE
  /\ UNCHANGED <<cacheVars, pc, loopVars, toForget, pairVars, pending,
                 cutShort, copying, gpuVars, slotData>>

\* Hits read their slot; the misses just fetched read the host bank.
AddPairs ==
  /\ pc = "serve" /\ toForget = {} /\ toFetch = {}
  /\ pairs' = pairs
       \cup {[seq |-> seq, key |-> k, slot |-> grant[k]] : k \in hits}
       \cup {[seq |-> seq, key |-> k, slot |-> None] : k \in misses}
  /\ IF seq < nseq THEN seq' = seq + 1 /\ pc' = "lookup"
                   ELSE seq' = seq /\ pc' = "record"
  /\ UNCHANGED <<cacheVars, layer, nseq, route, splitVars, cpuPairs, eventVars,
                 streamVars>>

\* Mutant of RecordFetch: the event is recorded before the layer's last copy.
RecordTooEarly ==
  /\ pc = "record"
  /\ pending' = IF anyFetch /\ issued > 1 THEN issued - 1 ELSE pending
  /\ pc' = "launch"
  /\ UNCHANGED <<cacheVars, loopVars, splitVars, pairVars, anyFetch, cutShort,
                 streamVars>>

RecordFetch ==
  /\ pc = "record"
  /\ pending' = IF anyFetch THEN issued ELSE pending
  /\ pc' = "launch"
  /\ UNCHANGED <<cacheVars, loopVars, splitVars, pairVars, anyFetch, cutShort,
                 streamVars>>

\* Mutant of LaunchPairs: the loop goes one layer too far.
LaunchPastTheLastLayer ==
  /\ pc = "launch"
  /\ gpuQ' = IF pairs = {} THEN gpuQ ELSE Append(gpuQ, Gemv(pairs))
  /\ IF layer \in Layers THEN layer' = layer + 1 /\ pc' = "route"
                         ELSE layer' = layer /\ pc' = "finish"
  /\ UNCHANGED <<cacheVars, seq, nseq, route, splitVars, pairVars, eventVars,
                 copyVars, gemvOn, slotData>>

\* Upload the pair list and launch the GEMVs; the CPU computes its pairs from
\* the host bank meanwhile, and the combine follows on the stream.
LaunchPairs ==
  /\ pc = "launch"
  /\ gpuQ' = IF pairs = {} THEN gpuQ ELSE Append(gpuQ, Gemv(pairs))
  /\ IF layer + 1 \in Layers THEN layer' = layer + 1 /\ pc' = "route"
                             ELSE layer' = layer /\ pc' = "finish"
  /\ UNCHANGED <<cacheVars, seq, nseq, route, splitVars, pairVars, eventVars,
                 copyVars, gemvOn, slotData>>

\* Logits or sampled tokens are downloaded and the compute stream has drained.
FinishPass ==
  /\ pc = "finish"
  /\ gpuQ = <<>>
  /\ pc' = "idle"
  /\ UNCHANGED <<cacheVars, loopVars, splitVars, pairVars, eventVars,
                 streamVars>>

\* A `?` returns early, at a copy, at the event, at the wait for it or at any
\* other operation on the compute stream.  Nothing is undone; the worker goes on
\* with new requests.  Copies never enqueued, or that nothing is going to wait
\* for, make the pass cutShort.
FailPass ==
  /\ \/ pc = "serve" /\ toForget = {} /\ toFetch # {}
        /\ cutShort' = TRUE /\ pending' = pending
     \/ pc = "record" /\ anyFetch
        /\ cutShort' = TRUE /\ pending' = pending
     \/ pc = "route" /\ gpuQ = <<>> /\ pending # None
        /\ cutShort' = TRUE /\ pending' = None
     \/ pc \in {"route", "launch", "finish"}
        /\ UNCHANGED <<cutShort, pending>>
  /\ pc' = "idle"
  /\ toFetch' = {}
  /\ UNCHANGED <<cacheVars, loopVars, toForget, pairVars, anyFetch, streamVars>>

HostStep ==
  \/ SyncAndRoute \/ LookupSequence \/ AdmitMiss \/ SplitMisses
  \/ ForgetMiss \/ FetchMiss \/ AddPairs \/ RecordFetch \/ LaunchPairs
  \/ FinishPass

Host == BeginPass \/ HostStep \/ FailPass

-----------------------------------------------------------------------------
(* The streams *)

CopyStart ==
  /\ copyQ # <<>> /\ ~copying
  /\ copying' = TRUE
  /\ slotData' = [slotData EXCEPT ![Head(copyQ)[2]] = None]
  /\ UNCHANGED <<cacheVars, hostVars, issued, copyQ, gpuQ, gemvOn>>

CopyEnd ==
  /\ copying
  /\ slotData' = [slotData EXCEPT ![Head(copyQ)[2]] = Head(copyQ)[1]]
  /\ copyQ' = Tail(copyQ)
  /\ copying' = FALSE
  /\ UNCHANGED <<cacheVars, hostVars, issued, gpuQ, gemvOn>>

\* An event is complete when the copies enqueued before it have landed.
PassWait ==
  /\ gpuQ # <<>> /\ Head(gpuQ).op = "wait"
  /\ issued - Len(copyQ) >= Head(gpuQ).event
  /\ gpuQ' = Tail(gpuQ)
  /\ UNCHANGED <<cacheVars, hostVars, issued, copyQ, copying, gemvOn, slotData>>

GemvStart ==
  /\ gpuQ # <<>> /\ Head(gpuQ).op = "gemv" /\ ~gemvOn
  /\ gemvOn' = TRUE
  /\ UNCHANGED <<cacheVars, hostVars, issued, copyQ, copying, gpuQ, slotData>>

GemvEnd ==
  /\ gemvOn
  /\ gemvOn' = FALSE
  /\ gpuQ' = Tail(gpuQ)
  /\ UNCHANGED <<cacheVars, hostVars, issued, copyQ, copying, slotData>>

CopyStream    == CopyStart \/ CopyEnd
ComputeStream == PassWait \/ GemvStart \/ GemvEnd

Next == Host \/ CopyStream \/ ComputeStream

Spec == Init /\ [][Next]_vars

-----------------------------------------------------------------------------
(***************************************************************************)
(* While a GEMV runs, every slot it reads holds, completely and until the  *)
(* end, the weights of the expert the pair is for.  This is what the       *)
(* comment at lib.rs:1510-1513 takes for granted: hits read the VRAM slot, *)
(* and nothing waits for the promotes of the same layer.                   *)
(***************************************************************************)
GemvReadsItsExpert ==
  gemvOn => \A p \in Head(gpuQ).reads :
              p.slot = None \/ slotData[p.slot] = p.key

\* The same as long as no pass was cut short between a lookup and its event;
\* a failure anywhere else in a pass does no harm.
GemvReadsItsExpertUnlessCutShort == ~cutShort => GemvReadsItsExpert

(***************************************************************************)
(* No false hit: a mapped expert is in its slot, or its copy is the last   *)
(* one on its way into that slot, or the host is about to enqueue it.      *)
(* This is what forget is for (ft-core lib.rs:110-113), and what makes a   *)
(* slot reassigned while a copy into it is still on its way safe.          *)
(***************************************************************************)
LastCopyInto(s) ==
  LET mine == {i \in DOMAIN copyQ : copyQ[i][2] = s}
  IN  IF mine = {} THEN slotData[s] ELSE copyQ[Max(mine)][1]

AboutToFill ==
  IF pc = "admit" THEN misses ELSE toForget \cup toFetch

MappedIsFilled ==
  ~cutShort =>
    \A k \in Keys :
      map[k] # None /\ k \notin AboutToFill => LastCopyInto(map[k]) = k

(***************************************************************************)
(* The pass adds every routed expert's output exactly once per sequence:   *)
(* one GPU pair or one CPU pair, never both, never neither.                *)
(***************************************************************************)
EveryRoutedExpertOnce ==
  pc = "launch" =>
    \A i \in Sequence : \A k \in Keys :
      Cardinality({p \in pairs : p.seq = i /\ p.key = k})
        + Cardinality({<<i, k>>} \cap cpuPairs)
      = IF k \in {layer} \X route[i] THEN 1 ELSE 0

(***************************************************************************)
(* No copy is waited for in its own layer, yet the copy stream never falls *)
(* more than two fetching layers behind, pass after pass: each event       *)
(* covers all copies of its layer (lib.rs:1565), the next layer queues the *)
(* wait for it, and the synchronize of the layer after that sits it out.   *)
(* A pass cut short may leave copies behind that nothing waits for.        *)
(***************************************************************************)
CopiesLagTwoLayers ==
  ~cutShort => Len(copyQ) <= 2 * Batch * FetchCount(TopK)
=============================================================================
