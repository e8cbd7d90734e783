----------------------------- MODULE DecodeProofs -----------------------------
(***************************************************************************)
(* Proofs about the passes of the decoder, for every model, every batch    *)
(* and any number of passes and of driver calls that fail: what outlives a *)
(* pass that ended early, the capture of the stream and the wish to        *)
(* sample, is always the mark of a failure that the callers were told of;  *)
(* no launch of a pass, captured or not, reaches past the end of a buffer  *)
(* or for one that is not allocated; and what a pass returns for a         *)
(* sequence is the model's function of the tokens of that sequence and,    *)
(* where it is drawn at a temperature, of its row's generator.             *)
(***************************************************************************)
EXTENDS Decode, FiniteSetTheorems, SequenceTheorems, WellFoundedInduction, TLAPS

\* A pass under way is a record with these fields; Idle has only the first.
Underway ==
  DOMAIN pass = {"at", "kind", "reqs", "layer", "tokens", "maxCtx"}

\* The control states that only forward_sample_graphed goes through.
Recording == {"drain", "begin", "enqueue", "instantiate", "launch"}

(***************************************************************************)
(* The stream captures while a graphed pass records, and at any other time *)
(* only when such a pass failed between the begin and the end of its       *)
(* capture.  A sample is wanted while forward_sample enqueues its layers,  *)
(* and else only after one of its calls failed; so a direct forward_batch  *)
(* is about to sample only in the latter case.                             *)
(***************************************************************************)
BrokenCapture == <<"graphed", "broken capture">> \in failures
FailedSample  == \E f \in failures : f[1] = "sample"

PassInv ==
  /\ pass = Idle \/ Underway
  /\ pass.at \in {"idle", "layer", "tokens", "logits"} \cup Recording
  /\ pass.at = "idle" <=> pass = Idle
  /\ pass.at \in Recording => pass.kind = "graphed"

CaptureInv ==
  /\ PassInv
  /\ capturing => pass.at \in {"enqueue", "instantiate"} \/ BrokenCapture
  /\ RefusedOnlyAfterABrokenCapture

WantInv ==
  /\ PassInv
  /\ wantSample => (pass.at = "layer" /\ pass.kind = "sample") \/ FailedSample
  /\ pass.at = "tokens" /\ pass.kind = "logits" => FailedSample
  /\ LogitsComeBack

\* The two outcomes of BeginPass, as far as the proofs need them.
Refused(kind) ==
  /\ pass' = Idle
  /\ failures' = failures \cup {<<kind, "context overflow">>}
  /\ answered'.is = "failed"

Started(kind) ==
  /\ DOMAIN pass' = {"at", "kind", "reqs", "layer", "tokens", "maxCtx"}
  /\ pass'.at = IF kind = "graphed" THEN "drain" ELSE "layer"
  /\ pass'.kind = kind
  /\ failures' = failures
  /\ answered' = Nothing

\* A pass that begins is refused for its length, or is under way.
LEMMA BeginPassOutcome ==
  ASSUME BeginPass
  PROVE  /\ pass = Idle
         /\ capturing' => capturing
         /\ \E kind \in {"sample", "logits", "graphed"} :
              /\ wantSample' => wantSample \/ kind = "sample"
              /\ Refused(kind) \/ Started(kind)
  <1>1. PICK kind \in {"sample", "logits", "graphed"}, reqs \in Batches :
          /\ wantSample' = (wantSample \/ kind = "sample")
          /\ \/ Fail(kind, reqs, "context overflow")
             \/ /\ pass' = [at |-> IF kind = "graphed" THEN "drain" ELSE "layer", kind |-> kind,
                             reqs |-> reqs, layer |-> 1,
                             tokens |-> [i \in DOMAIN reqs |-> Token(reqs[i])],
                             maxCtx |-> Max({seqPos[s] : s \in Range(reqs)}) + 1]
                /\ answered' = Nothing
                /\ UNCHANGED <<unset, failures>>
    BY ZenonT(30) DEF BeginPass
  <1>2. pass = Idle /\ (capturing' => capturing)
    BY Zenon DEF BeginPass
  <1>3. wantSample' => wantSample \/ kind = "sample"
    BY <1>1, Zenon
  <1>4. CASE Fail(kind, reqs, "context overflow")
    <2>1. /\ pass' = Idle
          /\ failures' = failures \cup {<<kind, "context overflow">>}
          /\ answered'.is = "failed"
      BY <1>4 DEF Fail
    <2> QED BY <1>2, <1>3, <2>1, Zenon DEF Refused
  <1>5. CASE ~Fail(kind, reqs, "context overflow")
    <2> DEFINE tokens == [i \in DOMAIN reqs |-> Token(reqs[i])]
               maxCtx == Max({seqPos[s] : s \in Range(reqs)}) + 1
    <2>3. pass' = [at |-> IF kind = "graphed" THEN "drain" ELSE "layer", kind |-> kind,
                   reqs |-> reqs, layer |-> 1, tokens |-> tokens, maxCtx |-> maxCtx]
      BY <1>1, <1>5, Zenon
    <2> HIDE DEF tokens, maxCtx
    <2>1. /\ DOMAIN pass' = {"at", "kind", "reqs", "layer", "tokens", "maxCtx"}
          /\ pass'.at = IF kind = "graphed" THEN "drain" ELSE "layer"
          /\ pass'.kind = kind
      BY <2>3
    <2>2. failures' = failures /\ answered' = Nothing
      BY <1>1, <1>5
    <2> QED BY <1>2, <1>3, <2>1, <2>2, Zenon DEF Started
  <1> QED BY <1>4, <1>5

\* The shape of the pass is preserved by every step.
LEMMA PassInvStep ==
  ASSUME PassInv, [DecodeNext]_decodeVars
  PROVE  PassInv'
  <1> USE DEF PassInv, Underway, Idle, Recording
  <1>1. CASE LoadModel
    BY <1>1 DEF LoadModel
  <1>2. CASE ResetSlot
    BY <1>2 DEF ResetSlot
  <1>3. CASE BeginPass
    BY <1>3, BeginPassOutcome DEF Refused, Started
  <1>4. CASE Drain
    BY <1>4 DEF Drain
  <1>5. CASE BeginCapture
    BY <1>5 DEF BeginCapture
  <1>6. CASE EnqueueStack
    BY <1>6 DEF EnqueueStack
  <1>7. CASE EndCapture
    BY <1>7 DEF EndCapture, Fail
  <1>8. CASE LaunchGraph
    BY <1>8 DEF LaunchGraph
  <1>9. CASE RunLayer
    BY <1>9 DEF RunLayer
  <1>10. CASE RunHead
    BY <1>10 DEF RunHead
  <1>11. CASE Download
    BY <1>11 DEF Download
  <1>12. CASE DriverFault
    BY <1>12 DEF DriverFault, Fail
  <1>14. CASE StreamRefuses
    BY <1>14 DEF StreamRefuses, Fail
  <1>13. CASE UNCHANGED decodeVars
    BY <1>13 DEF decodeVars
  <1> QED
    BY <1>1, <1>2, <1>3, <1>4, <1>5, <1>6, <1>7, <1>8, <1>9, <1>10, <1>11, <1>12,
       <1>13, <1>14 DEF DecodeNext

\* A pass that fails, but not because the stream captures.
LEMMA FailsOtherwise ==
  ASSUME NEW kind, NEW reqs, NEW why, Fail(kind, reqs, why), why # "capturing"
  PROVE  /\ pass' = Idle /\ <<kind, why>> \in failures' /\ failures \subseteq failures'
         /\ \A f \in failures' : f[2] = "capturing" => f \in failures
  <1>1. pass' = Idle /\ failures' = failures \cup {<<kind, why>>}
    BY Zenon DEF Fail
  <1>2. <<kind, why>>[2] # "capturing"
    OBVIOUS
  <1>3. \A f \in failures' : f[2] = "capturing" => f \in failures
    BY Zenon, <1>1, <1>2
  <1> QED BY <1>1, <1>3

\* CaptureInv is inductive: the only ways out of a capture are its end and a
\* failure in between.
LEMMA CaptureInvStep ==
  ASSUME CaptureInv, [DecodeNext]_decodeVars
  PROVE  CaptureInv'
  <1> USE DEF CaptureInv, PassInv, BrokenCapture, RefusedOnlyAfterABrokenCapture, Idle, Recording
  <1>0. PassInv'
    BY PassInvStep DEF CaptureInv
  <1>1. CASE LoadModel
    BY <1>0, <1>1 DEF LoadModel
  <1>2. CASE ResetSlot
    BY <1>0, <1>2 DEF ResetSlot
  <1>3. CASE BeginPass
    <2>1. pass.at = "idle" /\ (capturing' => BrokenCapture)
      BY <1>3, BeginPassOutcome
    <2>4. PICK kind \in {"sample", "logits", "graphed"} :
            /\ wantSample' => wantSample \/ kind = "sample"
            /\ Refused(kind) \/ Started(kind)
      BY <1>3, BeginPassOutcome, Zenon
    <2>5. <<kind, "context overflow">>[2] # "capturing"
      OBVIOUS
    <2>6. failures' = failures \/ failures' = failures \cup {<<kind, "context overflow">>}
      BY <2>4, Zenon DEF Refused, Started
    <2>2. \A f \in failures' : f[2] = "capturing" => f \in failures
      BY <2>5, <2>6, Zenon
    <2>3. failures \subseteq failures'
      BY <2>6
    <2> QED BY <1>0, <2>1, <2>2, <2>3
  <1>4. CASE Drain
    BY <1>0, <1>4 DEF Drain, Underway
  <1>5. CASE BeginCapture
    BY <1>0, <1>5 DEF BeginCapture, Underway
  <1>6. CASE EnqueueStack
    BY <1>0, <1>6 DEF EnqueueStack, Underway
  <1>7. CASE EndCapture
    <2>1. ~capturing' /\ (failures' = failures \/ Fail(pass.kind, pass.reqs, "fault"))
      BY Zenon, <1>7 DEF EndCapture
    <2>2. failures \subseteq failures' /\ \A f \in failures' : f[2] = "capturing" => f \in failures
      BY <2>1, FailsOtherwise
    <2> QED BY <1>0, <2>1, <2>2
  <1>8. CASE LaunchGraph
    BY <1>0, <1>8 DEF LaunchGraph, Underway
  <1>9. CASE RunLayer
    BY <1>0, <1>9 DEF RunLayer, Underway
  <1>10. CASE RunHead
    BY <1>0, <1>10 DEF RunHead, Underway
  <1>11. CASE Download
    BY <1>0, <1>11 DEF Download
  <1>12. CASE DriverFault
    <2> DEFINE why == IF pass.at = "enqueue" THEN "broken capture" ELSE "fault"
    <2>1. capturing' = capturing /\ Fail(pass.kind, pass.reqs, why) /\ pass.at \notin {"idle", "instantiate"}
      BY Zenon, <1>12 DEF DriverFault
    <2>2. why # "capturing" /\ (pass.at = "enqueue" => why = "broken capture")
      OBVIOUS
    <2> HIDE DEF why
    <2>3. /\ <<pass.kind, why>> \in failures' /\ failures \subseteq failures'
          /\ \A f \in failures' : f[2] = "capturing" => f \in failures
      BY Zenon, <2>1, <2>2, FailsOtherwise
    <2>4. pass.at = "enqueue" => <<"graphed", "broken capture">> \in failures'
      BY <2>2, <2>3
    <2> QED BY <1>0, <2>1, <2>3, <2>4
  <1>14. CASE StreamRefuses
    BY <1>0, <1>14 DEF StreamRefuses, Fail
  <1>13. CASE UNCHANGED decodeVars
    BY <1>0, <1>13 DEF decodeVars
  <1> QED
    BY <1>1, <1>2, <1>3, <1>4, <1>5, <1>6, <1>7, <1>8, <1>9, <1>10, <1>11, <1>12,
       <1>13, <1>14 DEF DecodeNext

\* A pass is refused because the stream is capturing only if an earlier graphed pass failed
\* between cuStreamBeginCapture and cuStreamEndCapture, in every run of any length: after a
\* failure of either of these, or anywhere else, no capture is open.
THEOREM CaptureAlwaysEnds == DecodeSpec => []RefusedOnlyAfterABrokenCapture
  <1>1. DecodeInit => CaptureInv
    BY DEF DecodeInit, CaptureInv, PassInv, Idle, Recording, RefusedOnlyAfterABrokenCapture
  <1>2. CaptureInv /\ [DecodeNext]_decodeVars => CaptureInv'
    BY CaptureInvStep
  <1>3. CaptureInv => RefusedOnlyAfterABrokenCapture
    BY DEF CaptureInv
  <1> QED BY <1>1, <1>2, <1>3, PTL DEF DecodeSpec

\* WantInv is inductive: forward_sample clears its flag where it advances the
\* positions, so only a failure before that leaves it set.
LEMMA WantInvStep ==
  ASSUME WantInv, [DecodeNext]_decodeVars
  PROVE  WantInv'
  <1> USE DEF WantInv, PassInv, FailedSample, LogitsComeBack, Idle, Recording
  <1>0. PassInv'
    BY PassInvStep DEF WantInv
  <1>1. CASE LoadModel
    BY <1>0, <1>1 DEF LoadModel
  <1>2. CASE ResetSlot
    BY <1>0, <1>2 DEF ResetSlot, Nothing
  <1>3. CASE BeginPass
    <2>1. wantSample => FailedSample
      BY <1>3, BeginPassOutcome
    <2>4. PICK kind \in {"sample", "logits", "graphed"} :
            /\ wantSample' => wantSample \/ kind = "sample"
            /\ Refused(kind) \/ Started(kind)
      BY <1>3, BeginPassOutcome, Zenon
    <2>5. CASE Refused(kind)
      <3>1. /\ failures \subseteq failures' /\ <<kind, "context overflow">> \in failures'
            /\ answered'.is # "empty" /\ pass'.at # "tokens"
        BY <2>5 DEF Refused
      <3>2. kind = "sample" => FailedSample'
        BY <3>1
      <3>3. FailedSample => FailedSample'
        BY <3>1
      <3> QED BY <1>0, <2>1, <2>4, <3>1, <3>2, <3>3
    <2>6. CASE Started(kind)
      <3>1. /\ failures' = failures /\ answered'.is # "empty"
            /\ pass'.kind = kind /\ pass'.at # "tokens"
            /\ kind = "sample" => pass'.at = "layer"
        BY <2>6 DEF Started, Nothing
      <3> QED BY <1>0, <2>1, <2>4, <3>1
    <2> QED BY <2>4, <2>5, <2>6
  <1>4. CASE Drain
    BY <1>0, <1>4 DEF Drain, Underway
  <1>5. CASE BeginCapture
    BY <1>0, <1>5 DEF BeginCapture, Underway
  <1>6. CASE EnqueueStack
    BY <1>0, <1>6 DEF EnqueueStack, Underway
  <1>7. CASE EndCapture
    BY <1>0, <1>7 DEF EndCapture, Fail, Underway
  <1>8. CASE LaunchGraph
    BY <1>0, <1>8 DEF LaunchGraph, Underway
  <1>9. CASE RunLayer
    BY <1>0, <1>9 DEF RunLayer, Underway
  <1>10. CASE RunHead
    BY <1>0, <1>10 DEF RunHead, Underway, Samples, KeepsWanting
  <1>11. CASE Download
    <2>1. PICK rows :
            answered' =
              [is |-> IF pass.at = "logits" THEN "logits"
                      ELSE IF pass.kind = "logits" THEN "empty" ELSE "tokens",
               kind |-> pass.kind, reqs |-> pass.reqs, rows |-> rows]
      BY <1>11, Zenon DEF Download
    <2>2. answered'.is = "empty" => pass.at = "tokens" /\ pass.kind = "logits"
      BY <1>11, <2>1 DEF Download
    <2>3. failures' = failures /\ pass'.at = "idle" /\ pass.at # "layer"
      BY <1>11 DEF Download
    <2>4. wantSample' => wantSample
      BY <1>11, Zenon DEF Download
    <2>5. wantSample \/ answered'.is = "empty" => FailedSample
      BY <2>2, <2>3
    <2>6. FailedSample' <=> FailedSample
      BY <2>3
    <2> QED BY <1>0, <2>3, <2>4, <2>5, <2>6
  <1>12. CASE DriverFault
    <2>1. /\ failures \subseteq failures' /\ \E why : <<pass.kind, why>> \in failures'
          /\ pass'.at = "idle" /\ answered'.is # "empty"
      BY <1>12 DEF DriverFault, Fail
    <2>2. wantSample' => wantSample
      BY <1>12, Zenon DEF DriverFault
    <2>3. pass.kind = "sample" => FailedSample'
      BY <2>1
    <2>4. FailedSample => FailedSample'
      BY <2>1
    <2> QED BY <1>0, <2>1, <2>2, <2>3, <2>4
  <1>14. CASE StreamRefuses
    <2>1. /\ failures \subseteq failures' /\ \E why : <<pass.kind, why>> \in failures'
          /\ pass'.at = "idle" /\ answered'.is # "empty"
      BY <1>14 DEF StreamRefuses, Fail
    <2>2. wantSample' => wantSample
      BY <1>14, Zenon DEF StreamRefuses
    <2>3. pass.kind = "sample" => FailedSample'
      BY <2>1
    <2>4. FailedSample => FailedSample'
      BY <2>1
    <2> QED BY <1>0, <2>1, <2>2, <2>3, <2>4
  <1>13. CASE UNCHANGED decodeVars
    BY <1>0, <1>13 DEF decodeVars
  <1> QED
    BY <1>1, <1>2, <1>3, <1>4, <1>5, <1>6, <1>7, <1>8, <1>9, <1>10, <1>11, <1>12,
       <1>13, <1>14 DEF DecodeNext

\* forward_batch returns an empty vector in place of logits only when an earlier
\* forward_sample failed, in every run of any length.
THEOREM LogitsAreNotWithheld == DecodeSpec => []LogitsComeBack
  <1>1. DecodeInit => WantInv
    BY DEF DecodeInit, WantInv, PassInv, Idle, Recording, LogitsComeBack, Nothing
  <1>2. WantInv /\ [DecodeNext]_decodeVars => WantInv'
    BY WantInvStep
  <1>3. WantInv => LogitsComeBack
    BY DEF WantInv
  <1> QED BY <1>1, <1>2, <1>3, PTL DEF DecodeSpec

-----------------------------------------------------------------------------
(***************************************************************************)
(* Buffers.  A program fits a geometry if each of its launches stays       *)
(* within the buffers it reaches into, and those that are keyed by a width *)
(* are there: before the program, or by one of its own allocations.        *)
(***************************************************************************)

\* Every set of numbers has a least one.
LEMMA LeastNumber ==
  ASSUME NEW T, T \subseteq Nat, T # {}
  PROVE  \E x \in T : \A y \in T : x <= y
  <1> DEFINE Upto(n) == 0..n
             U == {Upto(n) : n \in T}
             R == StrictSubsetOrdering(Nat)
  <1>1. ASSUME NEW n \in T
        PROVE  Upto(n) \in SUBSET Nat /\ IsFiniteSet(Upto(n))
    BY FS_Interval
  <1>2. U \subseteq FiniteSubsetsOf(Nat) /\ U # {}
    BY <1>1 DEF FiniteSubsetsOf
  <1>3. PICK u \in U : \A v \in U : <<v, u>> \notin R
    <2> HIDE DEF U, R
    <2>1. IsWellFoundedOn(R, FiniteSubsetsOf(Nat))
      BY Zenon, FS_StrictSubsetOrderingWellFounded DEF R
    <2> QED BY Zenon, <1>2, <2>1, WFMin
  <1>4. PICK x \in T : u = Upto(x)
    OBVIOUS
  <1>5. ASSUME NEW y \in T, y < x
        PROVE  FALSE
    <2>1. Upto(y) \subseteq Upto(x) /\ x \in Upto(x) /\ x \notin Upto(y)
      BY <1>5
    <2>2. Upto(y) \in SUBSET Nat /\ Upto(x) \in SUBSET Nat
      BY <1>1
    <2> HIDE DEF Upto
    <2>3. Upto(y) # Upto(x)
      BY <2>1
    <2>4. <<Upto(y), Upto(x)>> \in R
      BY <2>1, <2>2, <2>3 DEF StrictSubsetOrdering
    <2>5. Upto(y) \in U
      OBVIOUS
    <2> HIDE DEF R, U
    <2> QED BY Zenon, <1>3, <1>4, <2>4, <2>5
  <1>6. \A y \in T : x <= y
    BY <1>5
  <1> QED BY <1>6

\* The machines after each launch of the first n of a program.
Ran(f, g, m, p, n) == f = [k \in 0..n |-> IF k = 0 THEN m ELSE Step(g, f[k - 1], p[k])]

\* There are such machines.
LEMMA RanExists == \A g, m, p : \A n \in Nat : \E f : Ran(f, g, m, p, n)
  <1> SUFFICES ASSUME NEW g, NEW m, NEW p
               PROVE  \A n \in Nat : \E f : Ran(f, g, m, p, n)
    OBVIOUS
  <1> DEFINE Good(n) == \E f : Ran(f, g, m, p, n)
             Bad == {n \in Nat : ~Good(n)}
  <1>1. ASSUME Bad # {} PROVE FALSE
    <2>0. Bad \subseteq Nat
      OBVIOUS
    <2>1. PICK n \in Bad : \A k \in Bad : n <= k
      BY Zenon, <1>1, <2>0, LeastNumber
    <2>2. n \in Nat /\ ~Good(n)
      BY <2>1
    <2>3. CASE n = 0
      <3> DEFINE f == [k \in 0..0 |-> m]
      <3>1. f = [k \in 0..0 |-> IF k = 0 THEN m ELSE Step(g, f[k - 1], p[k])]
        OBVIOUS
      <3>2. Ran(f, g, m, p, 0)
        BY Zenon, <3>1 DEF Ran
      <3> QED BY Zenon, <2>2, <2>3, <3>2
    <2>4. CASE n # 0
      <3>1. n - 1 \in Nat /\ ~(n <= n - 1)
        BY <2>2, <2>4
      <3>2. Good(n - 1)
        <4> HIDE DEF Good
        <4> QED BY <2>1, <3>1
      <3>3. PICK e : Ran(e, g, m, p, n - 1)
        BY Zenon, <3>2
      <3> DEFINE f == [k \in 0..n |-> IF k = 0 THEN m ELSE Step(g, e[k - 1], p[k])]
      <3>4. \A k \in 0..(n - 1) : e[k] = IF k = 0 THEN m ELSE Step(g, e[k - 1], p[k])
        BY Zenon, <3>3 DEF Ran
      <3>5. \A k \in 0..(n - 1) : k \in 0..n
        BY <2>2
      <3>6. \A k \in 0..(n - 1) : f[k] = e[k]
        BY Zenon, <3>4, <3>5
      <3>7. \A k \in 0..n : k = 0 \/ k - 1 \in 0..(n - 1)
        BY <2>2
      <3>8. \A k \in 0..n : f[k] = IF k = 0 THEN m ELSE Step(g, f[k - 1], p[k])
        BY Zenon, <3>6, <3>7
      <3>9. DOMAIN f = 0..n /\ f = [k \in 0..n |-> f[k]]
        BY Zenon
      <3> HIDE DEF f
      <3>10. Ran(f, g, m, p, n)
        BY Zenon, <3>8, <3>9 DEF Ran
      <3> QED BY Zenon, <2>2, <3>10
    <2> QED BY <2>3, <2>4
  <1>2. ASSUME NEW n \in Nat PROVE Good(n)
    <2> HIDE DEF Good
    <2> QED BY <1>1
  <1> QED BY Zenon, <1>2

\* Run ends with the last of them.
LEMMA RunIs ==
  ASSUME NEW g, NEW m, NEW p, Len(p) \in Nat
  PROVE  \E f : Ran(f, g, m, p, Len(p)) /\ Run(g, m, p) = f[Len(p)]
  <1> DEFINE n == Len(p)
             f == CHOOSE f : f = [k \in 0..n |-> IF k = 0 THEN m ELSE Step(g, f[k - 1], p[k])]
  <1>1. \E f1 : Ran(f1, g, m, p, n)
    BY Zenon, RanExists
  <1>2. Ran(f, g, m, p, n)
    BY Zenon, <1>1 DEF Ran
  <1>3. Run(g, m, p) = f[n]
    BY Zenon DEF Run
  <1> QED BY Zenon, <1>2, <1>3

\* The kinds of launches.
Kinds ==
  {"rows", "section", "append", "gather", "prep", "attn", "topk", "ptr", "zero", "reduce", "sample", "alloc"}
IsMachine(m) == {"mem", "kv", "alloc", "sound"} \subseteq DOMAIN m

\* What Put does not touch.
LEMMA PutKeeps ==
  ASSUME NEW m, IsMachine(m), NEW b, NEW rows
  PROVE  /\ IsMachine(Put(m, b, rows))
         /\ Put(m, b, rows).alloc = m.alloc /\ Put(m, b, rows).sound = m.sound
  BY DEF Put, IsMachine

\* An append touches nothing but the pools.
OnlyPools(m, e) ==
  IsMachine(e) /\ e.mem = m.mem /\ e.alloc = m.alloc /\ e.sound = m.sound

\* AppendRows leaves a machine that differs from the old one in its pools.
LEMMA AppendKeeps ==
  ASSUME NEW m, IsMachine(m), NEW l, NEW n, NEW what, NEW t
  PROVE  OnlyPools(m, AppendRows(m, l, n, what, t))
  <1> DEFINE e == AppendRows(m, l, n, what, t)
  <1>1. PICK rows : e = [m EXCEPT !.kv[l] = rows]
    BY Zenon DEF AppendRows
  <1> HIDE DEF e
  <1>2. OnlyPools(m, e)
    BY <1>1 DEF IsMachine, OnlyPools
  <1> QED BY <1>2 DEF e

\* A launch moves values and may allocate, and says so if it reached too far.
Stepped(g, m, op, e) ==
  /\ IsMachine(e)
  /\ e.alloc = m.alloc \cup (IF op.is = "alloc" THEN {op.out} ELSE {})
  /\ e.sound <=> m.sound /\ Sound(g, m, op)

\* Every launch does so.
LEMMA StepKeeps ==
  ASSUME NEW g, NEW m, IsMachine(m), NEW op, op.is \in Kinds
  PROVE  Stepped(g, m, op, Step(g, m, op))
  <1> DEFINE e == Exec(m, op)
  <1>1. /\ IsMachine(e) /\ e.sound = m.sound
        /\ e.alloc = m.alloc \cup (IF op.is = "alloc" THEN {op.out} ELSE {})
    <2>1. CASE op.is \in {"rows", "section", "gather", "attn", "ptr", "zero", "reduce"}
      <3>1. PICK b, rows : e = Put(m, b, rows)
        BY Zenon, <2>1 DEF Exec
      <3> HIDE DEF e
      <3>2. IsMachine(e) /\ e.alloc = m.alloc /\ e.sound = m.sound
        BY Zenon, <3>1, PutKeeps
      <3> QED BY <2>1, <3>2
    <2>2. CASE op.is \in {"topk", "sample"}
      <3>1. PICK b, rows, c, others : e = Put(Put(m, b, rows), c, others)
        BY Zenon, <2>2 DEF Exec
      <3> DEFINE h == Put(m, b, rows)
      <3>2. IsMachine(h) /\ h.alloc = m.alloc /\ h.sound = m.sound
        BY Zenon, PutKeeps
      <3> HIDE DEF e, h
      <3>3. e = Put(h, c, others)
        BY Zenon, <3>1 DEF h
      <3>4. IsMachine(e) /\ e.alloc = h.alloc /\ e.sound = h.sound
        BY Zenon, <3>2, <3>3, PutKeeps
      <3> QED BY <2>2, <3>2, <3>4
    <2>3. CASE op.is = "append"
      <3>1. PICK n, t : e = AppendRows(m, op.layer, n, op.section, t)
        BY Zenon, <2>3 DEF Exec
      <3> HIDE DEF e
      <3>2. OnlyPools(m, e)
        BY Zenon, <3>1, AppendKeeps
      <3> QED BY <2>3, <3>2 DEF OnlyPools
    <2>4. CASE op.is = "prep"
      <3>1. PICK n, keys, values, b, rows :
              e = Put(AppendRows(AppendRows(m, op.layer, n, "k", keys), op.layer, n, "v", values), b, rows)
        BY Zenon, <2>4 DEF Exec
      <3> DEFINE h == AppendRows(m, op.layer, n, "k", keys)
                 a == AppendRows(h, op.layer, n, "v", values)
      <3> HIDE DEF e
      <3>2. OnlyPools(m, h)
        BY Zenon, AppendKeeps
      <3> HIDE DEF h
      <3> IsMachine(h)
        BY Zenon, <3>2 DEF OnlyPools
      <3>3. OnlyPools(h, a)
        BY Zenon, AppendKeeps
      <3>4. e = Put(a, b, rows)
        BY Zenon, <3>1 DEF h
      <3> HIDE DEF a
      <3>5. IsMachine(e) /\ e.alloc = a.alloc /\ e.sound = a.sound
        <4>1. IsMachine(a)
          BY Zenon, <3>3 DEF OnlyPools
        <4> QED BY Zenon, <3>4, <4>1, PutKeeps
      <3> QED BY <2>4, <3>2, <3>3, <3>5 DEF OnlyPools
    <2>5. CASE op.is = "alloc"
      <3>1. e = [m EXCEPT !.alloc = @ \cup {op.out}]
        BY Zenon, <2>5 DEF Exec
      <3> QED BY <2>5, <3>1 DEF IsMachine
    <2> QED BY <2>1, <2>2, <2>3, <2>4, <2>5 DEF Kinds
  <1>2. Step(g, m, op) = [e EXCEPT !.sound = @ /\ Sound(g, m, op)]
    BY Zenon DEF Step
  <1> HIDE DEF e
  <1>3. /\ IsMachine([e EXCEPT !.sound = @ /\ Sound(g, m, op)])
        /\ [e EXCEPT !.sound = @ /\ Sound(g, m, op)].alloc = e.alloc
        /\ [e EXCEPT !.sound = @ /\ Sound(g, m, op)].sound = (e.sound /\ Sound(g, m, op))
    BY <1>1 DEF IsMachine
  <1> QED BY Zenon, <1>1, <1>2, <1>3 DEF Stepped

IsProgram(p) == \E S : p \in Seq(S)

\* The buffers that the first n launches of a program allocate, and all of them.
AllocsTo(p, n) == {p[j].out : j \in {j \in 1..n : p[j].is = "alloc"}}
Allocs(p) == AllocsTo(p, Len(p))

\* How a launch, and a program, fits when the buffers keys are there.
FitsOne(g, op, keys) ==
  /\ op.is \in Kinds
  /\ \A r \in op.reach : r[2] <= Size(g, r[1]) /\ (Keyed(r[1]) => r[1] \in keys)
Fits(g, p, keys) == \A k \in 1..Len(p) : FitsOne(g, p[k], keys \cup AllocsTo(p, k - 1))

\* A launch that fits is sound.
LEMMA FitsIsSound ==
  ASSUME NEW g, NEW m, NEW op, NEW keys, FitsOne(g, op, keys), keys \subseteq m.alloc
  PROVE  Sound(g, m, op) /\ op.is \in Kinds
  BY DEF FitsOne, Sound

\* A program that fits leaves the machine sound, and allocates what it says.
Runs(g, m, p) ==
  /\ IsMachine(Run(g, m, p)) /\ Run(g, m, p).sound
  /\ m.alloc \cup Allocs(p) \subseteq Run(g, m, p).alloc

\* A program that fits runs so: by the least launch that does not.
LEMMA RunSound ==
  ASSUME NEW g, NEW m, IsMachine(m), m.sound, NEW p, IsProgram(p), Fits(g, p, m.alloc)
  PROVE  Runs(g, m, p)
  <1> DEFINE n == Len(p)
  <1>1. n \in Nat
    BY DEF IsProgram
  <1>2. PICK f : Ran(f, g, m, p, n) /\ Run(g, m, p) = f[n]
    BY Zenon, <1>1, RunIs
  <1> DEFINE Good(k) == IsMachine(f[k]) /\ f[k].sound /\ m.alloc \cup AllocsTo(p, k) \subseteq f[k].alloc
             Bad == {k \in 0..n : ~Good(k)}
  <1>3. \A k \in 0..n : f[k] = IF k = 0 THEN m ELSE Step(g, f[k - 1], p[k])
    BY Zenon, <1>2 DEF Ran
  <1>4. ASSUME Bad # {} PROVE FALSE
    <2>0. Bad \subseteq Nat
      BY <1>1
    <2>1. PICK k \in Bad : \A j \in Bad : k <= j
      BY Zenon, <1>4, <2>0, LeastNumber
    <2>2. k \in 0..n /\ ~Good(k)
      BY <2>1
    <2>3. CASE k = 0
      <3>1. f[0] = m
        BY <1>1, <1>3
      <3>2. AllocsTo(p, 0) = {}
        BY DEF AllocsTo
      <3>3. m.alloc \cup AllocsTo(p, 0) \subseteq m.alloc
        BY <3>2
      <3>4. Good(0)
        BY Zenon, <3>1, <3>3
      <3> QED BY Zenon, <2>2, <2>3, <3>4
    <2>4. CASE k # 0
      <3> DEFINE h == f[k - 1]
                 op == p[k]
                 e == Step(g, h, op)
                 before == m.alloc \cup AllocsTo(p, k - 1)
                 new == IF op.is = "alloc" THEN {op.out} ELSE {}
      <3>1. k - 1 \in 0..n /\ k \in 1..n /\ ~(k <= k - 1)
        BY <1>1, <2>2, <2>4
      <3>2. Good(k - 1)
        <4> HIDE DEF Good
        <4> QED BY <2>1, <3>1
      <3>3. IsMachine(h) /\ h.sound /\ before \subseteq h.alloc
        BY Zenon, <3>2
      <3>4. f[k] = e
        BY Zenon, <1>3, <2>2, <2>4
      <3>5. FitsOne(g, op, before)
        BY Zenon, <3>1 DEF Fits
      <3> HIDE DEF h, op, before
      <3>6. Sound(g, h, op) /\ op.is \in Kinds
        BY Zenon, <3>3, <3>5, FitsIsSound
      <3>7. IsMachine(e) /\ e.alloc = h.alloc \cup new /\ (e.sound <=> h.sound /\ Sound(g, h, op))
        <4>1. Stepped(g, h, op, e)
          BY Zenon, <3>3, <3>6, StepKeeps
        <4> QED BY Zenon, <4>1 DEF Stepped
      <3>8. AllocsTo(p, k) = AllocsTo(p, k - 1) \cup new
        <4>1. \A j \in 1..k : j \in 1..(k - 1) \/ j = k
          BY <3>1
        <4>2. \A j \in 1..(k - 1) : j \in 1..k
          BY <3>1
        <4>3. k \in 1..k
          BY <3>1
        <4> QED BY <4>1, <4>2, <4>3 DEF AllocsTo, op
      <3> HIDE DEF e, new
      <3>9. m.alloc \cup AllocsTo(p, k) \subseteq e.alloc
        BY <3>3, <3>7, <3>8 DEF before
      <3>10. Good(k)
        BY Zenon, <3>3, <3>4, <3>6, <3>7, <3>9
      <3> QED BY Zenon, <2>2, <3>10
    <2> QED BY <2>3, <2>4
  <1>5. n \in 0..n
    BY <1>1
  <1>6. Good(n)
    <2> HIDE DEF Good
    <2> QED BY <1>4, <1>5
  <1> QED BY Zenon, <1>2, <1>6 DEF Runs, Allocs

\* With more buffers a program still fits.
LEMMA FitsMore ==
  ASSUME NEW g, NEW p, NEW K, NEW L, Fits(g, p, K), K \subseteq L
  PROVE  Fits(g, p, L)
  BY DEF Fits, FitsOne

\* One program after another.
InTurn(g, p, q, K) ==
  /\ IsProgram(p \o q) /\ Allocs(p \o q) = Allocs(p) \cup Allocs(q)
  /\ Fits(g, p \o q, K)

\* The second of two programs may use what the first allocates.
LEMMA FitsInTurn ==
  ASSUME NEW g, NEW p, NEW q, NEW K, IsProgram(p), IsProgram(q),
         Fits(g, p, K), Fits(g, q, K \cup Allocs(p))
  PROVE  InTurn(g, p, q, K)
  <1>1. PICK S : p \in Seq(S)
    BY DEF IsProgram
  <1>2. PICK T : q \in Seq(T)
    BY DEF IsProgram
  <1> DEFINE U == S \cup T
             r == p \o q
             m == Len(p)
             n == Len(q)
  <1>3. p \in Seq(U) /\ q \in Seq(U)
    BY <1>1, <1>2
  <1>4. /\ r \in Seq(U) /\ m \in Nat /\ n \in Nat /\ Len(r) = m + n
        /\ \A i \in 1..(m + n) : r[i] = IF i <= m THEN p[i] ELSE q[i - m]
    <2> HIDE DEF U
    <2> QED BY <1>3
  <1>5. IsProgram(r)
    BY Zenon, <1>4 DEF IsProgram
  <1> HIDE DEF r, m, n
  <1>6. ASSUME NEW k \in 0..m PROVE AllocsTo(r, k) = AllocsTo(p, k)
    <2>1. \A j \in 1..k : r[j] = p[j]
      BY <1>4
    <2> QED BY <2>1 DEF AllocsTo
  <1>7. ASSUME NEW k \in 0..n PROVE AllocsTo(r, m + k) = AllocsTo(p, m) \cup AllocsTo(q, k)
    <2>1. \A j \in 1..m : j \in 1..(m + k) /\ r[j] = p[j]
      BY <1>4
    <2>2. \A j \in 1..k : m + j \in 1..(m + k) /\ r[m + j] = q[j]
      BY <1>4
    <2>3. \A j \in 1..(m + k) : j \in 1..m \/ (j - m \in 1..k /\ j = m + (j - m))
      BY <1>4
    <2> QED BY <2>1, <2>2, <2>3 DEF AllocsTo
  <1>8. Allocs(r) = Allocs(p) \cup Allocs(q)
    <2>1. n \in 0..n
      BY <1>4
    <2> QED BY Zenon, <1>4, <1>7, <2>1 DEF Allocs, m, n
  <1>9. ASSUME NEW k \in 1..Len(r)
        PROVE  FitsOne(g, r[k], K \cup AllocsTo(r, k - 1))
    <2>1. CASE k <= m
      <3>1. k \in 1..m /\ k - 1 \in 0..m /\ r[k] = p[k]
        BY <1>4, <2>1
      <3> QED BY Zenon, <1>6, <3>1 DEF Fits, m
    <2>2. CASE ~(k <= m)
      <3> DEFINE j == k - m
      <3>1. j \in 1..n /\ j - 1 \in 0..n /\ r[k] = q[j] /\ k - 1 = m + (j - 1)
        BY <1>4, <2>2
      <3> HIDE DEF j
      <3>2. FitsOne(g, q[j], (K \cup Allocs(p)) \cup AllocsTo(q, j - 1))
        BY Zenon, <3>1 DEF Fits, n
      <3>3. AllocsTo(r, k - 1) = Allocs(p) \cup AllocsTo(q, j - 1)
        BY Zenon, <1>7, <3>1 DEF Allocs, m
      <3>4. (K \cup Allocs(p)) \cup AllocsTo(q, j - 1) = K \cup AllocsTo(r, k - 1)
        BY <3>3
      <3> QED BY Zenon, <3>1, <3>2, <3>4
    <2> QED BY <2>1, <2>2
  <1>10. Fits(g, r, K)
    BY Zenon, <1>9 DEF Fits
  <1> QED BY Zenon, <1>5, <1>8, <1>10 DEF InTurn, r

\* There is room for size elements in buffer b.
Room(g, b, size, keys) == size <= Size(g, b) /\ (Keyed(b) => b \in keys)

\* What is known of a model that is loaded.
LEMMA GeometryIs ==
  ASSUME NEW g \in Geometries, NEW l \in Layers(g)
  PROVE  /\ g.hidden \in Nat /\ g.ffn \in Nat /\ g.inter \in Nat /\ g.vocab \in Nat
         /\ g.heads \in Nat /\ g.experts \in Nat /\ g.maxSeq \in Nat /\ g.topk \in Nat \ {0}
         /\ g.hdFull \in Nat /\ HeadDim(g, l) \in Nat /\ HeadDim(g, l) <= g.hdFull
         /\ QRows(g, l) \in Nat /\ QkvRows(g, l) \in Nat
         /\ CeilDiv(g.maxSeq, Chunk) \in Nat
  <1>1. /\ g.hidden \in Nat /\ g.ffn \in Nat /\ g.inter \in Nat /\ g.vocab \in Nat
        /\ g.heads \in Nat /\ g.experts \in Nat /\ g.maxSeq \in Nat /\ g.topk \in Nat \ {0}
        /\ g.hdFull \in Nat /\ g.hdSwa \in Nat /\ g.hdSwa <= g.hdFull
        /\ g.kvHeads \in Seq(Nat) /\ DOMAIN g.kvHeads = DOMAIN g.swa
    BY DecodeConstants
  <1>2. HeadDim(g, l) \in Nat /\ HeadDim(g, l) <= g.hdFull
    BY <1>1 DEF HeadDim
  <1>3. QRows(g, l) \in Nat
    BY <1>1, <1>2 DEF QRows
  <1>4. KvDim(g, l) \in Nat
    <2>0. \A s \in Seq(Nat) : \A i \in DOMAIN s : s[i] \in Nat
      OBVIOUS
    <2>1. g.kvHeads[l] \in Nat
      BY Zenon, <1>1, <2>0 DEF Layers
    <2>2. \A a \in Nat, b \in Nat : a * b \in Nat
      OBVIOUS
    <2> QED BY Zenon, <1>2, <2>1, <2>2 DEF KvDim
  <1>5. QkvRows(g, l) \in Nat
    BY <1>3, <1>4 DEF QkvRows
  <1>6. CeilDiv(g.maxSeq, Chunk) \in Nat
    <2> DEFINE x == g.maxSeq + Chunk - 1
    <2>0. g.maxSeq \in Nat /\ Chunk \in Nat \ {0}
      BY Zenon, <1>1, DecodeStackConstants
    <2>1. x \in Nat /\ Chunk \in Nat \ {0}
      BY <2>0
    <2>2. CeilDiv(g.maxSeq, Chunk) = x \div Chunk
      BY DEF CeilDiv
    <2> HIDE DEF x
    <2>3. x \div Chunk \in Nat
      BY <2>1
    <2> QED BY <2>2, <2>3
  <1> QED BY <1>1, <1>2, <1>3, <1>5, <1>6

\* Fewer rows, of less each, are less.
LEMMA LessRows ==
  ASSUME NEW n \in Nat, NEW m \in Nat, n <= m, NEW v \in Nat, NEW w \in Nat, v <= w
  PROVE  n * v <= m * w /\ n * v \in Nat /\ m * w \in Nat
  <1>1. \A a \in Nat, b \in Nat : a * b \in Nat
    OBVIOUS
  <1>2. n * v <= n * w
    <2> DEFINE d == w - v
    <2>1. d \in Nat /\ w = v + d
      OBVIOUS
    <2> HIDE DEF d
    <2>2. n * w = n * v + n * d /\ n * d \in Nat /\ n * v \in Nat
      BY <1>1, <2>1
    <2> QED BY <1>1, <2>2
  <1>3. n * w <= m * w
    <2> DEFINE d == m - n
    <2>1. d \in Nat /\ m = n + d
      OBVIOUS
    <2> HIDE DEF d
    <2>2. m * w = n * w + d * w /\ d * w \in Nat /\ n * w \in Nat
      BY <1>1, <2>1
    <2> QED BY <1>1, <2>2
  <1>4. n * v \in Nat /\ m * w \in Nat /\ n * w \in Nat
    BY <1>1
  <1> DEFINE a == n * v
             b == n * w
             c == m * w
  <1> HIDE DEF a, b, c
  <1>5. a <= c
    BY <1>2, <1>3, <1>4 DEF a, b, c
  <1> QED BY <1>4, <1>5 DEF a, c

\* The sizes of the buffers that are keyed by a width.
LEMMA WidthSizes ==
  ASSUME NEW g, NEW k
  PROVE  /\ Keyed(Q8(k)) /\ Size(g, Q8(k)) = MaxBatch * k
         /\ Keyed(Y(k)) /\ Size(g, Y(k)) = MaxBatch * k
  <1>1. Q8(k)[1] = "q8bufs" /\ Q8(k)[2] = k
    BY DEF Q8
  <1>2. Y(k)[1] = "ybufs" /\ Y(k)[2] = k
    BY DEF Y
  <1>3. Keyed(Q8(k)) /\ Keyed(Y(k))
    BY <1>1, <1>2 DEF Keyed
  <1> QED BY Zenon, <1>1, <1>2, <1>3 DEF Size

\* The sizes of the buffers.
LEMMA SizesAre ==
  ASSUME NEW g
  PROVE  /\ \A b \in {XRes, ScA, ScPf, ScRi, Q8Preff, Q8Routed, RoutedOut} :
              ~Keyed(b) /\ Size(g, b) = MaxBatch * g.hidden
         /\ \A b \in {AttnOut, ScO} : ~Keyed(b) /\ Size(g, b) = MaxBatch * g.heads * g.hdFull
         /\ ~Keyed(Partials)
         /\ Size(g, Partials) = MaxBatch * g.heads * CeilDiv(g.maxSeq, Chunk) * (g.hdFull + 2)
         /\ ~Keyed(RouterLogits) /\ Size(g, RouterLogits) = MaxBatch * g.experts
         /\ ~Keyed(LogitsDev) /\ Size(g, LogitsDev) = MaxBatch * g.vocab
         /\ ~Keyed(PairYGu) /\ Size(g, PairYGu) = MaxBatch * g.topk * 2 * g.inter
         /\ ~Keyed(PairActQ8) /\ Size(g, PairActQ8) = MaxBatch * g.topk * g.inter
         /\ ~Keyed(PairYDown) /\ Size(g, PairYDown) = MaxBatch * g.topk * g.hidden
         /\ \A b \in {MoeIds, PairWts, PairBases, PairXidx, PairSeq, DenseIdx} :
              ~Keyed(b) /\ Size(g, b) = MaxBatch * g.topk
         /\ \A b \in {TempsDev, RngDev, TokOut, PosDev, SlotDev} : ~Keyed(b) /\ Size(g, b) = MaxBatch
         /\ \A k : Keyed(Q8(k)) /\ Size(g, Q8(k)) = MaxBatch * k
         /\ \A r : Keyed(Y(r)) /\ Size(g, Y(r)) = MaxBatch * r
  <1> USE DEF Keyed, Size
  <1>1. \A b \in {XRes, ScA, ScPf, ScRi, Q8Preff, Q8Routed, RoutedOut} :
              ~Keyed(b) /\ Size(g, b) = MaxBatch * g.hidden
    BY DEF XRes, ScA, ScPf, ScRi, Q8Preff, Q8Routed, RoutedOut
  <1>2. \A b \in {AttnOut, ScO} : ~Keyed(b) /\ Size(g, b) = MaxBatch * g.heads * g.hdFull
    BY DEF AttnOut, ScO
  <1>3. /\ ~Keyed(Partials)
        /\ Size(g, Partials) = MaxBatch * g.heads * CeilDiv(g.maxSeq, Chunk) * (g.hdFull + 2)
    BY DEF Partials
  <1>4. /\ ~Keyed(RouterLogits) /\ Size(g, RouterLogits) = MaxBatch * g.experts
        /\ ~Keyed(LogitsDev) /\ Size(g, LogitsDev) = MaxBatch * g.vocab
    BY DEF RouterLogits, LogitsDev
  <1>5. /\ ~Keyed(PairYGu) /\ Size(g, PairYGu) = MaxBatch * g.topk * 2 * g.inter
        /\ ~Keyed(PairActQ8) /\ Size(g, PairActQ8) = MaxBatch * g.topk * g.inter
        /\ ~Keyed(PairYDown) /\ Size(g, PairYDown) = MaxBatch * g.topk * g.hidden
    BY DEF PairYGu, PairActQ8, PairYDown
  <1>6. \A b \in {MoeIds, PairWts, PairBases, PairXidx, PairSeq, DenseIdx} :
              ~Keyed(b) /\ Size(g, b) = MaxBatch * g.topk
    BY DEF MoeIds, PairWts, PairBases, PairXidx, PairSeq, DenseIdx
  <1>7. \A b \in {TempsDev, RngDev, TokOut, PosDev, SlotDev} : ~Keyed(b) /\ Size(g, b) = MaxBatch
    BY DEF TempsDev, RngDev, TokOut, PosDev, SlotDev
  <1> HIDE DEF Keyed, Size
  <1>8. \A k : /\ Keyed(Q8(k)) /\ Size(g, Q8(k)) = MaxBatch * k
               /\ Keyed(Y(k)) /\ Size(g, Y(k)) = MaxBatch * k
    BY Zenon, WidthSizes
  <1> QED BY Zenon, <1>1, <1>2, <1>3, <1>4, <1>5, <1>6, <1>7, <1>8

\* There is room for what the launches of n rows reach for, in the buffers that do
\* not depend on a width.
RoomForRows(g, l, n, keys) ==
  /\ \A b \in {XRes, ScA, ScPf, ScRi, Q8Preff, Q8Routed, RoutedOut} : Room(g, b, n * g.hidden, keys)
  /\ \A b \in {AttnOut, ScO} : Room(g, b, n * QRows(g, l), keys)
  /\ Room(g, Partials, n * g.heads * CeilDiv(g.maxSeq, Chunk) * (HeadDim(g, l) + 2), keys)
  /\ Room(g, RouterLogits, n * g.experts, keys)
  /\ \A b \in {PosDev, SlotDev} : Room(g, b, n, keys)
  /\ Room(g, DenseIdx, n, keys)

\* And for the pairs of those rows with their experts.
RoomForPairs(g, n, keys) ==
  /\ \A b \in {MoeIds, PairWts, PairBases, PairXidx, PairSeq, DenseIdx} : Room(g, b, n * g.topk, keys)
  /\ Room(g, PairYGu, (n * g.topk) * (2 * g.inter), keys)
  /\ Room(g, PairYGu, (n * g.topk) * 2 * g.inter, keys)
  /\ Room(g, PairActQ8, (n * g.topk) * g.inter, keys)
  /\ Room(g, PairYDown, (n * g.topk) * g.hidden, keys)

\* And in the buffers of a width.
RoomForWidth(g, n, w, keys) ==
  /\ Q8(w) \in keys => Room(g, Q8(w), n * w, keys)
  /\ Y(w) \in keys => Room(g, Y(w), n * w, keys)

\* A batch has at most MAX_BATCH rows, and a head at most the largest width.
LEMMA RowsHaveRoom ==
  ASSUME NEW g \in Geometries, NEW l \in Layers(g), NEW n \in 1..MaxBatch, NEW keys
  PROVE  RoomForRows(g, l, n, keys)
  <1> USE DEF Room
  <1>0. n \in Nat /\ MaxBatch \in Nat /\ n <= MaxBatch
    BY DecodeStackConstants
  <1>1. \A w \in Nat : n * w <= MaxBatch * w
    BY <1>0, LessRows
  <1>2. \A b \in {XRes, ScA, ScPf, ScRi, Q8Preff, Q8Routed, RoutedOut} : Room(g, b, n * g.hidden, keys)
    BY <1>1, GeometryIs, SizesAre
  <1>3. Room(g, RouterLogits, n * g.experts, keys)
    BY <1>1, GeometryIs, SizesAre
  <1>4. \A b \in {PosDev, SlotDev} : Room(g, b, n, keys)
    BY <1>0, SizesAre
  <1>5. Room(g, DenseIdx, n, keys)
    <2>1. n * 1 <= MaxBatch * g.topk
      <3>1. 1 \in Nat /\ g.topk \in Nat /\ 1 <= g.topk
        BY GeometryIs
      <3> QED BY Zenon, <1>0, <3>1, LessRows
    <2>2. n * 1 = n
      BY <1>0
    <2> QED BY <2>1, <2>2, SizesAre
  <1>6. \A b \in {AttnOut, ScO} : Room(g, b, n * QRows(g, l), keys)
    <2> DEFINE h == g.heads
               d == HeadDim(g, l)
               e == g.hdFull
    <2>1. h \in Nat /\ d \in Nat /\ e \in Nat /\ d <= e
      BY GeometryIs
    <2>2. QRows(g, l) = h * d /\ \A b \in {AttnOut, ScO} : ~Keyed(b) /\ Size(g, b) = MaxBatch * h * e
      BY SizesAre DEF QRows
    <2> HIDE DEF h, d, e
    <2>3. h * d <= h * e /\ h * d \in Nat /\ h * e \in Nat
      BY <2>1, LessRows
    <2>4. n * (h * d) <= MaxBatch * (h * e)
      BY Zenon, <1>0, <2>3, LessRows
    <2>5. MaxBatch * (h * e) = MaxBatch * h * e
      BY <1>0, <2>1
    <2> QED BY <2>2, <2>4, <2>5
  <1>7. Room(g, Partials, n * g.heads * CeilDiv(g.maxSeq, Chunk) * (HeadDim(g, l) + 2), keys)
    <2> DEFINE h == g.heads
               c == CeilDiv(g.maxSeq, Chunk)
               d == HeadDim(g, l) + 2
               e == g.hdFull + 2
    <2>1. h \in Nat /\ c \in Nat /\ d \in Nat /\ e \in Nat /\ d <= e
      BY GeometryIs
    <2>2. ~Keyed(Partials) /\ Size(g, Partials) = MaxBatch * h * c * e
      BY SizesAre
    <2> HIDE DEF h, c, d, e
    <2>3. n * h <= MaxBatch * h /\ n * h \in Nat /\ MaxBatch * h \in Nat
      BY <1>0, <2>1, LessRows
    <2> DEFINE x == n * h
               y == MaxBatch * h
    <2>4. x <= y /\ x \in Nat /\ y \in Nat
      BY <2>3
    <2> HIDE DEF x, y
    <2>5. x * c <= y * c /\ x * c \in Nat /\ y * c \in Nat
      BY <2>1, <2>4, LessRows
    <2> DEFINE v == x * c
               w == y * c
    <2>6. v <= w /\ v \in Nat /\ w \in Nat
      BY <2>5
    <2> HIDE DEF v, w
    <2>7. v * d <= w * e
      BY Zenon, <2>1, <2>6, LessRows
    <2>8. n * h * c * d <= MaxBatch * h * c * e
      BY <2>7 DEF v, w, x, y
    <2> QED BY Zenon, <2>2, <2>8 DEF h, c, d
  <1> QED BY Zenon, <1>2, <1>3, <1>4, <1>5, <1>6, <1>7 DEF RoomForRows

\* Each row has topk experts, and the buffers MAX_BATCH * topk pairs.
LEMMA PairsHaveRoom ==
  ASSUME NEW g \in Geometries, NEW l \in Layers(g), NEW n \in 1..MaxBatch, NEW keys
  PROVE  RoomForPairs(g, n, keys)
  <1> DEFINE p == n * g.topk
             m == MaxBatch * g.topk
  <1>0. n \in Nat /\ MaxBatch \in Nat /\ n <= MaxBatch
    BY DecodeStackConstants
  <1>1. p <= m /\ p \in Nat /\ m \in Nat
    BY <1>0, GeometryIs, LessRows
  <1>2. g.inter \in Nat /\ g.hidden \in Nat
    BY GeometryIs
  <1>3. /\ \A b \in {MoeIds, PairWts, PairBases, PairXidx, PairSeq, DenseIdx} : ~Keyed(b) /\ Size(g, b) = m
        /\ ~Keyed(PairYGu) /\ Size(g, PairYGu) = m * 2 * g.inter
        /\ ~Keyed(PairActQ8) /\ Size(g, PairActQ8) = m * g.inter
        /\ ~Keyed(PairYDown) /\ Size(g, PairYDown) = m * g.hidden
    BY SizesAre
  <1> HIDE DEF p, m
  <1>4. \A w \in Nat : p * w <= m * w
    BY <1>1, LessRows
  <1>5. 2 * g.inter \in Nat
    BY <1>2
  <1>6. p * (2 * g.inter) = p * 2 * g.inter /\ m * (2 * g.inter) = m * 2 * g.inter
    BY <1>1, <1>2
  <1>7. /\ p * (2 * g.inter) <= m * 2 * g.inter /\ p * 2 * g.inter <= m * 2 * g.inter
        /\ p * g.inter <= m * g.inter /\ p * g.hidden <= m * g.hidden
    BY Zenon, <1>2, <1>4, <1>5, <1>6
  <1> QED BY Zenon, <1>1, <1>3, <1>7 DEF RoomForPairs, Room, p

\* A buffer keyed by a width has MAX_BATCH rows of it.
LEMMA WidthsHaveRoom ==
  ASSUME NEW n \in 1..MaxBatch, NEW keys, NEW g, NEW w \in Nat
  PROVE  RoomForWidth(g, n, w, keys)
  <1>0. n \in Nat /\ MaxBatch \in Nat /\ n <= MaxBatch /\ w <= w
    BY DecodeStackConstants
  <1>1. n * w <= MaxBatch * w
    BY Zenon, <1>0, LessRows
  <1>2. Size(g, Q8(w)) = MaxBatch * w /\ Size(g, Y(w)) = MaxBatch * w
    BY Zenon, WidthSizes
  <1> QED BY Zenon, <1>1, <1>2 DEF RoomForWidth, Room

\* A launch that fits and allocates nothing, and a program of such.
Moves(g, op, keys) == FitsOne(g, op, keys) /\ op.is # "alloc"
Segment(g, p, keys) == IsProgram(p) /\ Allocs(p) = {} /\ Fits(g, p, keys)

\* A program is a segment if each of its launches fits.
LEMMA SegmentIs ==
  ASSUME NEW g, NEW keys, NEW S, NEW p \in Seq(S), \A i \in 1..Len(p) : Moves(g, p[i], keys)
  PROVE  Segment(g, p, keys)
  <1>1. IsProgram(p)
    BY DEF IsProgram
  <1>2. \A k : FitsOne(g, p[k], keys) => FitsOne(g, p[k], keys \cup AllocsTo(p, k - 1))
    BY DEF FitsOne
  <1>3. Fits(g, p, keys)
    BY Zenon, <1>2 DEF Fits, Moves
  <1>4. Allocs(p) = {}
    BY DEF Allocs, AllocsTo, Moves
  <1> QED BY Zenon, <1>1, <1>3, <1>4 DEF Segment

\* The launches that make rows from rows.
LEMMA RowsMove ==
  ASSUME NEW g, NEW keys, NEW n, NEW does, NEW in, NEW out, NEW reach,
         \A r \in reach : Room(g, r[1], r[2], keys)
  PROVE  Moves(g, Rows(n, does, in, out, reach), keys)
  BY DEF Rows, Moves, FitsOne, Kinds, Room

\* rmsnorm_rows fits if its input and its output have room for its rows.
LEMMA RmsnormMoves ==
  ASSUME NEW g, NEW keys, NEW n, NEW x, NEW w, NEW y, NEW dim,
         Room(g, x, n * dim, keys), Room(g, y, n * dim, keys)
  PROVE  Moves(g, RmsnormRows(x, w, y, dim, n), keys)
  <1> DEFINE reach == {<<x, n * dim>>, <<y, n * dim>>}
  <1>1. \A r \in reach : Room(g, r[1], r[2], keys)
    OBVIOUS
  <1>2. RmsnormRows(x, w, y, dim, n) = Rows(n, <<"rmsnorm", w>>, <<x>>, y, reach)
    BY Zenon DEF RmsnormRows
  <1> HIDE DEF reach
  <1> QED BY Zenon, <1>1, <1>2, RowsMove

\* add_rows fits.
LEMMA AddMoves ==
  ASSUME NEW g, NEW keys, NEW n, NEW x, NEW a, NEW dim,
         Room(g, x, n * dim, keys), Room(g, a, n * dim, keys)
  PROVE  Moves(g, AddRows(x, a, dim, n), keys)
  <1> DEFINE reach == {<<x, n * dim>>, <<a, n * dim>>}
  <1>1. \A r \in reach : Room(g, r[1], r[2], keys)
    OBVIOUS
  <1>2. AddRows(x, a, dim, n) = Rows(n, <<"add">>, <<x, a>>, x, reach)
    BY Zenon DEF AddRows
  <1> HIDE DEF reach
  <1> QED BY Zenon, <1>1, <1>2, RowsMove

\* quantize_q8 fits.
LEMMA QuantizeMoves ==
  ASSUME NEW g, NEW keys, NEW n, NEW x, NEW q8, NEW k,
         Room(g, x, n * k, keys), Room(g, q8, n * k, keys)
  PROVE  Moves(g, QuantizeQ8(x, q8, k, n), keys)
  <1> DEFINE reach == {<<x, n * k>>, <<q8, n * k>>}
  <1>1. \A r \in reach : Room(g, r[1], r[2], keys)
    OBVIOUS
  <1>2. QuantizeQ8(x, q8, k, n) = Rows(n, <<"q8">>, <<x>>, q8, reach)
    BY Zenon DEF QuantizeQ8
  <1> HIDE DEF reach
  <1> QED BY Zenon, <1>1, <1>2, RowsMove

\* gemv_q4r_idx fits; it reads one index per row.
LEMMA GemvMoves ==
  ASSUME NEW g, NEW keys, NEW n, NEW w, NEW q8, NEW y, NEW rows, NEW k,
         Room(g, q8, n * k, keys), Room(g, y, n * rows, keys), Room(g, DenseIdx, n, keys)
  PROVE  Moves(g, GemvQ4rIdx(w, q8, y, rows, k, n), keys)
  <1> DEFINE reach == {<<q8, n * k>>, <<y, n * rows>>, <<DenseIdx, n>>}
  <1>1. \A r \in reach : Room(g, r[1], r[2], keys)
    OBVIOUS
  <1>2. GemvQ4rIdx(w, q8, y, rows, k, n) = Rows(n, <<"gemv", w>>, <<q8>>, y, reach)
    BY Zenon DEF GemvQ4rIdx
  <1> HIDE DEF reach
  <1> QED BY Zenon, <1>1, <1>2, RowsMove

\* gemv_f32_rows fits.
LEMMA GemvF32Moves ==
  ASSUME NEW g, NEW keys, NEW n, NEW w, NEW x, NEW y, NEW dim, NEW rows,
         Room(g, x, n * dim, keys), Room(g, y, n * rows, keys)
  PROVE  Moves(g, GemvF32Rows(w, x, y, dim, rows, n), keys)
  <1> DEFINE reach == {<<x, n * dim>>, <<y, n * rows>>}
  <1>1. \A r \in reach : Room(g, r[1], r[2], keys)
    OBVIOUS
  <1>2. GemvF32Rows(w, x, y, dim, rows, n) = Rows(n, <<"gemv", w>>, <<x>>, y, reach)
    BY Zenon DEF GemvF32Rows
  <1> HIDE DEF reach
  <1> QED BY Zenon, <1>1, <1>2, RowsMove

\* gelu_mul_q8 fits; its input rows are twice as wide.
LEMMA GeluMoves ==
  ASSUME NEW g, NEW keys, NEW n, NEW gu, NEW q8, NEW inter,
         Room(g, gu, n * 2 * inter, keys), Room(g, q8, n * inter, keys)
  PROVE  Moves(g, GeluMulQ8(gu, q8, inter, n), keys)
  <1> DEFINE reach == {<<gu, n * 2 * inter>>, <<q8, n * inter>>}
  <1>1. \A r \in reach : Room(g, r[1], r[2], keys)
    OBVIOUS
  <1>2. GeluMulQ8(gu, q8, inter, n) = Rows(n, <<"gelu_mul">>, <<gu>>, q8, reach)
    BY Zenon DEF GeluMulQ8
  <1> HIDE DEF reach
  <1> QED BY Zenon, <1>1, <1>2, RowsMove

\* dual_combine fits.
LEMMA CombineMoves ==
  ASSUME NEW g, NEW keys, NEW n, NEW w, NEW x, NEW shared, NEW routed, NEW dim,
         Room(g, x, n * dim, keys), Room(g, shared, n * dim, keys), Room(g, routed, n * dim, keys)
  PROVE  Moves(g, DualCombine(w, x, shared, routed, dim, n), keys)
  <1> DEFINE reach == {<<x, n * dim>>, <<shared, n * dim>>, <<routed, n * dim>>}
  <1>1. \A r \in reach : Room(g, r[1], r[2], keys)
    OBVIOUS
  <1>2. DualCombine(w, x, shared, routed, dim, n) = Rows(n, <<"combine", w>>, <<x, shared, routed>>, x, reach)
    BY Zenon DEF DualCombine
  <1> HIDE DEF reach
  <1> QED BY Zenon, <1>1, <1>2, RowsMove

\* sample_tokens fits.
LEMMA SampleMoves ==
  ASSUME NEW g, NEW keys, NEW n, Room(g, LogitsDev, n * g.vocab, keys), Room(g, TempsDev, n, keys),
         Room(g, RngDev, n, keys), Room(g, TokOut, n, keys)
  PROVE  Moves(g, SampleTokens(g, n), keys)
  <1> DEFINE reach == {<<LogitsDev, n * g.vocab>>, <<TempsDev, n>>, <<RngDev, n>>, <<TokOut, n>>}
             op == SampleTokens(g, n)
  <1>1. \A r \in reach : Room(g, r[1], r[2], keys)
    OBVIOUS
  <1>2. op.is = "sample" /\ op.reach = reach
    BY DEF SampleTokens
  <1> HIDE DEF reach, op
  <1>3. op.is \in Kinds /\ op.is # "alloc"
    BY <1>2 DEF Kinds
  <1>4. Moves(g, op, keys)
    BY <1>1, <1>2, <1>3 DEF Moves, FitsOne, Room
  <1> QED BY Zenon, <1>4 DEF op

\* The launches on the sections of a row, and attention.
LEMMA SectionsMove ==
  ASSUME NEW g, NEW l, NEW keys, NEW n, NEW offset,
         Room(g, Y(QkvRows(g, l)), n * QkvRows(g, l), keys),
         Room(g, AttnOut, n * QRows(g, l), keys), Room(g, ScO, n * QRows(g, l), keys),
         Room(g, PosDev, n, keys), Room(g, SlotDev, n, keys)
  PROVE  /\ \A w : Moves(g, RmsnormHeads(g, l, w, offset, n), keys)
         /\ Moves(g, RopeHeads(g, l, offset, n), keys)
         /\ Moves(g, KvAppend(g, l, offset, n), keys)
         /\ Moves(g, GatherRows(g, l, offset, AttnOut, n), keys)
         /\ Moves(g, QkvPrep(g, l, n), keys)
  <1> DEFINE b == Y(QkvRows(g, l))
             s == n * QkvRows(g, l)
             q == n * QRows(g, l)
  <1>1. ASSUME NEW op, op.is \in Kinds \ {"alloc"},
               op.reach \subseteq {<<b, s>>, <<AttnOut, q>>, <<PosDev, n>>, <<SlotDev, n>>}
        PROVE  Moves(g, op, keys)
    <2>1. Room(g, b, s, keys) /\ Room(g, AttnOut, q, keys) /\ Room(g, PosDev, n, keys) /\ Room(g, SlotDev, n, keys)
      OBVIOUS
    <2> HIDE DEF b, s, q
    <2>2. \A r \in op.reach : Room(g, r[1], r[2], keys)
      BY <1>1, <2>1
    <2> QED BY <1>1, <2>2 DEF Moves, FitsOne, Room
  <1>2. ASSUME NEW w PROVE Moves(g, RmsnormHeads(g, l, w, offset, n), keys)
    <2> DEFINE op == RmsnormHeads(g, l, w, offset, n)
    <2>1. op.is = "section" /\ op.reach = {<<b, s>>}
      BY DEF RmsnormHeads
    <2> HIDE DEF op, b, s, q
    <2> QED BY <1>1, <2>1 DEF Kinds, op
  <1>3. Moves(g, RopeHeads(g, l, offset, n), keys)
    <2> DEFINE op == RopeHeads(g, l, offset, n)
    <2>1. op.is = "section" /\ op.reach = {<<b, s>>, <<PosDev, n>>}
      BY DEF RopeHeads
    <2> HIDE DEF op, b, s, q
    <2> QED BY <1>1, <2>1 DEF Kinds, op
  <1>4. Moves(g, KvAppend(g, l, offset, n), keys)
    <2> DEFINE op == KvAppend(g, l, offset, n)
    <2>1. op.is = "append" /\ op.reach = {<<b, s>>, <<PosDev, n>>, <<SlotDev, n>>}
      BY DEF KvAppend
    <2> HIDE DEF op, b, s, q
    <2> QED BY <1>1, <2>1 DEF Kinds, op
  <1>5. Moves(g, GatherRows(g, l, offset, AttnOut, n), keys)
    <2> DEFINE op == GatherRows(g, l, offset, AttnOut, n)
    <2>1. op.is = "gather" /\ op.reach = {<<b, s>>, <<AttnOut, q>>}
      BY DEF GatherRows
    <2> HIDE DEF op, b, s, q
    <2> QED BY <1>1, <2>1 DEF Kinds, op
  <1>6. Moves(g, QkvPrep(g, l, n), keys)
    <2> DEFINE op == QkvPrep(g, l, n)
    <2>1. op.is = "prep" /\ op.reach = {<<b, s>>, <<AttnOut, q>>, <<PosDev, n>>, <<SlotDev, n>>}
      BY DEF QkvPrep
    <2> HIDE DEF op, b, s, q
    <2> QED BY <1>1, <2>1 DEF Kinds, op
  <1> QED BY <1>2, <1>3, <1>4, <1>5, <1>6

\* A launch fits if there is room for all it reaches for.
LEMMA OpMoves ==
  ASSUME NEW g, NEW keys, NEW op, op.is \in Kinds \ {"alloc"},
         \A r \in op.reach : Room(g, r[1], r[2], keys)
  PROVE  Moves(g, op, keys)
  BY DEF Moves, FitsOne, Room

\* Attention fits, however many positions it is launched for.
LEMMA AttnMoves ==
  ASSUME NEW g, NEW l, NEW n, NEW keys, RoomForRows(g, l, n, keys), NEW maxCtx
  PROVE  Moves(g, AttnDecodeBatch(g, l, maxCtx, n), keys)
  <1> DEFINE op == AttnDecodeBatch(g, l, maxCtx, n)
             q == n * QRows(g, l)
             s == n * g.heads * CeilDiv(g.maxSeq, Chunk) * (HeadDim(g, l) + 2)
  <1>1. op.is = "attn" /\ op.reach = {<<AttnOut, q>>, <<ScO, q>>, <<PosDev, n>>, <<SlotDev, n>>, <<Partials, s>>}
    BY DEF AttnDecodeBatch
  <1>2. Room(g, AttnOut, q, keys) /\ Room(g, ScO, q, keys) /\ Room(g, Partials, s, keys)
        /\ Room(g, PosDev, n, keys) /\ Room(g, SlotDev, n, keys)
    BY DEF RoomForRows
  <1> HIDE DEF op, q, s
  <1>3. \A r \in op.reach : Room(g, r[1], r[2], keys)
    BY <1>1, <1>2
  <1>4. op.is \in Kinds \ {"alloc"}
    BY <1>1 DEF Kinds
  <1> QED BY Zenon, <1>3, <1>4, OpMoves DEF op

\* The router, admission, and the sum over the experts fit.
LEMMA RoutingMoves ==
  ASSUME NEW g, NEW l, NEW n, NEW keys, RoomForRows(g, l, n, keys), RoomForPairs(g, n, keys)
  PROVE  /\ Moves(g, TopkRouter(g, n), keys)
         /\ Moves(g, AdmitAndPromote(g, l, n), keys)
         /\ Moves(g, MemsetRouted(g, n), keys)
         /\ Moves(g, ReducePairs(g, n), keys)
  <1> DEFINE p == n * g.topk
             e == n * g.experts
             h == n * g.hidden
             d == n * g.topk * g.hidden
  <1>1. /\ Room(g, RouterLogits, e, keys) /\ Room(g, RoutedOut, h, keys) /\ Room(g, PairYDown, d, keys)
        /\ Room(g, MoeIds, p, keys) /\ Room(g, PairWts, p, keys) /\ Room(g, PairBases, p, keys)
        /\ Room(g, PairSeq, p, keys)
    BY DEF RoomForRows, RoomForPairs
  <1>2. TopkRouter(g, n).is = "topk"
        /\ TopkRouter(g, n).reach = {<<RouterLogits, e>>, <<MoeIds, p>>, <<PairWts, p>>}
    BY DEF TopkRouter
  <1>3. MemsetRouted(g, n).is = "zero" /\ MemsetRouted(g, n).reach = {<<RoutedOut, h>>}
    BY DEF MemsetRouted
  <1>4. ReducePairs(g, n).is = "reduce"
        /\ ReducePairs(g, n).reach = {<<PairYDown, d>>, <<PairWts, p>>, <<PairSeq, p>>, <<RoutedOut, h>>}
    BY DEF ReducePairs
  <1>5. AdmitAndPromote(g, l, n) = Rows(p, <<"base", l>>, <<MoeIds>>, PairBases, {<<MoeIds, p>>, <<PairBases, p>>})
    BY Zenon DEF AdmitAndPromote
  <1> HIDE DEF p, e, h, d
  <1>6. Moves(g, TopkRouter(g, n), keys)
    <2> DEFINE op == TopkRouter(g, n)
    <2>1. op.is = "topk" /\ op.reach = {<<RouterLogits, e>>, <<MoeIds, p>>, <<PairWts, p>>}
      BY <1>2
    <2> HIDE DEF op
    <2>2. op.is \in Kinds \ {"alloc"} /\ \A r \in op.reach : Room(g, r[1], r[2], keys)
      BY <1>1, <2>1 DEF Kinds
    <2>3. Moves(g, op, keys)
      BY Zenon, <2>2, OpMoves
    <2> QED BY <2>3 DEF op
  <1>7. Moves(g, MemsetRouted(g, n), keys)
    <2> DEFINE op == MemsetRouted(g, n)
    <2>1. op.is = "zero" /\ op.reach = {<<RoutedOut, h>>}
      BY <1>3
    <2> HIDE DEF op
    <2>2. op.is \in Kinds \ {"alloc"} /\ \A r \in op.reach : Room(g, r[1], r[2], keys)
      BY <1>1, <2>1 DEF Kinds
    <2>3. Moves(g, op, keys)
      BY Zenon, <2>2, OpMoves
    <2> QED BY <2>3 DEF op
  <1>8. Moves(g, ReducePairs(g, n), keys)
    <2> DEFINE op == ReducePairs(g, n)
    <2>1. op.is = "reduce"
          /\ op.reach = {<<PairYDown, d>>, <<PairWts, p>>, <<PairSeq, p>>, <<RoutedOut, h>>}
      BY <1>4
    <2> HIDE DEF op
    <2>2. op.is \in Kinds \ {"alloc"} /\ \A r \in op.reach : Room(g, r[1], r[2], keys)
      BY <1>1, <2>1 DEF Kinds
    <2>3. Moves(g, op, keys)
      BY Zenon, <2>2, OpMoves
    <2> QED BY <2>3 DEF op
  <1>9. Moves(g, AdmitAndPromote(g, l, n), keys)
    <2> DEFINE reach == {<<MoeIds, p>>, <<PairBases, p>>}
    <2>1. \A r \in reach : Room(g, r[1], r[2], keys)
      BY <1>1
    <2> HIDE DEF reach
    <2> QED BY Zenon, <1>5, <2>1, RowsMove DEF reach
  <1> QED BY <1>6, <1>7, <1>8, <1>9

\* The experts' gemv fits.
LEMMA ExpertMoves ==
  ASSUME NEW g, NEW keys, NEW bank, NEW idx, NEW q8, NEW y, NEW rows, NEW k, NEW n, NEW of,
         Room(g, PairBases, n, keys), Room(g, idx, n, keys), Room(g, q8, of * k, keys), Room(g, y, n * rows, keys)
  PROVE  Moves(g, GemvQ4rPtr(bank, idx, q8, y, rows, k, n, of), keys)
  <1> DEFINE op == GemvQ4rPtr(bank, idx, q8, y, rows, k, n, of)
  <1>1. op.is = "ptr" /\ op.reach = {<<PairBases, n>>, <<idx, n>>, <<q8, of * k>>, <<y, n * rows>>}
    BY DEF GemvQ4rPtr
  <1> HIDE DEF op
  <1>2. op.is \in Kinds \ {"alloc"} /\ \A r \in op.reach : Room(g, r[1], r[2], keys)
    BY <1>1 DEF Kinds
  <1>3. Moves(g, op, keys)
    BY Zenon, <1>2, OpMoves
  <1> QED BY <1>3 DEF op

\* Programs of two, three, four, six, eight and nine launches.
LEMMA TwoMove ==
  ASSUME NEW g, NEW keys, NEW a, NEW b, Moves(g, a, keys), Moves(g, b, keys)
  PROVE  Segment(g, <<a, b>>, keys)
  <1>1. <<a, b>> \in Seq({a, b}) /\ \A i \in 1..Len(<<a, b>>) : Moves(g, <<a, b>>[i], keys)
    OBVIOUS
  <1> QED BY Zenon, <1>1, SegmentIs

\* Three launches.
LEMMA ThreeMove ==
  ASSUME NEW g, NEW keys, NEW a, NEW b, NEW c, Moves(g, a, keys), Moves(g, b, keys),
         Moves(g, c, keys)
  PROVE  Segment(g, <<a, b, c>>, keys)
  <1> DEFINE p == <<a, b, c>>
  <1>1. p \in Seq({a, b, c}) /\ \A i \in 1..Len(p) : Moves(g, p[i], keys)
    OBVIOUS
  <1> QED BY Zenon, <1>1, SegmentIs

\* Four launches.
LEMMA FourMove ==
  ASSUME NEW g, NEW keys, NEW a, NEW b, NEW c, NEW d,
         Moves(g, a, keys), Moves(g, b, keys), Moves(g, c, keys), Moves(g, d, keys)
  PROVE  Segment(g, <<a, b, c, d>>, keys)
  <1> DEFINE p == <<a, b, c, d>>
             S == {a, b, c, d}
  <1>1. p \in Seq(S) /\ \A m \in S : Moves(g, m, keys)
    OBVIOUS
  <1> HIDE DEF p, S
  <1>2. \A k \in 1..Len(p) : Moves(g, p[k], keys)
    BY <1>1
  <1>3. Segment(g, p, keys)
    BY Zenon, <1>1, <1>2, SegmentIs
  <1> QED BY <1>3 DEF p

\* Six launches.
LEMMA SixMove ==
  ASSUME NEW g, NEW keys, NEW a, NEW b, NEW c, NEW d, NEW e, NEW f,
         Moves(g, a, keys), Moves(g, b, keys), Moves(g, c, keys), Moves(g, d, keys),
         Moves(g, e, keys), Moves(g, f, keys)
  PROVE  Segment(g, <<a, b, c, d, e, f>>, keys)
  <1> DEFINE p == <<a, b, c, d, e, f>>
             S == {a, b, c, d, e, f}
  <1>1. p \in Seq(S) /\ \A m \in S : Moves(g, m, keys)
    OBVIOUS
  <1> HIDE DEF p, S
  <1>2. \A k \in 1..Len(p) : Moves(g, p[k], keys)
    BY <1>1
  <1>3. Segment(g, p, keys)
    BY Zenon, <1>1, <1>2, SegmentIs
  <1> QED BY <1>3 DEF p

\* Eight launches.
LEMMA EightMove ==
  ASSUME NEW g, NEW keys, NEW a, NEW b, NEW c, NEW d, NEW e, NEW f, NEW h, NEW i,
         Moves(g, a, keys), Moves(g, b, keys), Moves(g, c, keys), Moves(g, d, keys),
         Moves(g, e, keys), Moves(g, f, keys), Moves(g, h, keys), Moves(g, i, keys)
  PROVE  Segment(g, <<a, b, c, d, e, f, h, i>>, keys)
  <1> DEFINE p == <<a, b, c, d, e, f, h, i>>
             S == {a, b, c, d, e, f, h, i}
  <1>1. p \in Seq(S) /\ \A m \in S : Moves(g, m, keys)
    OBVIOUS
  <1> HIDE DEF p, S
  <1>2. \A k \in 1..Len(p) : Moves(g, p[k], keys)
    BY <1>1
  <1>3. Segment(g, p, keys)
    BY Zenon, <1>1, <1>2, SegmentIs
  <1> QED BY <1>3 DEF p

\* Nine launches.
LEMMA NineMove ==
  ASSUME NEW g, NEW keys, NEW a, NEW b, NEW c, NEW d, NEW e, NEW f, NEW h, NEW i, NEW j,
         Moves(g, a, keys), Moves(g, b, keys), Moves(g, c, keys), Moves(g, d, keys),
         Moves(g, e, keys), Moves(g, f, keys), Moves(g, h, keys), Moves(g, i, keys), Moves(g, j, keys)
  PROVE  Segment(g, <<a, b, c, d, e, f, h, i, j>>, keys)
  <1> DEFINE p == <<a, b, c, d, e, f, h, i, j>>
             S == {a, b, c, d, e, f, h, i, j}
  <1>1. p \in Seq(S) /\ \A m \in S : Moves(g, m, keys)
    OBVIOUS
  <1> HIDE DEF p, S
  <1>2. \A k \in 1..Len(p) : Moves(g, p[k], keys)
    BY <1>1
  <1>3. Segment(g, p, keys)
    BY Zenon, <1>1, <1>2, SegmentIs
  <1> QED BY <1>3 DEF p

\* Programs that fit, one after another.
LEMMA SegmentsInTurn ==
  ASSUME NEW g, NEW keys, NEW p, NEW q, Segment(g, p, keys), Segment(g, q, keys)
  PROVE  Segment(g, p \o q, keys)
  <1>1. IsProgram(p) /\ IsProgram(q) /\ Fits(g, p, keys) /\ Fits(g, q, keys) /\ Allocs(p) = {} /\ Allocs(q) = {}
    BY DEF Segment
  <1>2. Fits(g, q, keys \cup Allocs(p))
    <2>1. keys \cup Allocs(p) = keys
      BY <1>1
    <2> QED BY <1>1, <2>1
  <1>3. InTurn(g, p, q, keys)
    BY Zenon, <1>1, <1>2, FitsInTurn
  <1>4. Allocs(p \o q) = {}
    BY <1>1, <1>3 DEF InTurn
  <1> QED BY Zenon, <1>3, <1>4 DEF InTurn, Segment

\* What a layer needs room for, and the width-keyed buffers that it needs.
LayerHasRoom(g, l, n, keys) ==
  /\ RoomForRows(g, l, n, keys) /\ RoomForPairs(g, n, keys)
  /\ \A w \in {g.hidden, g.ffn, 2 * g.ffn, QRows(g, l), QkvRows(g, l)} : RoomForWidth(g, n, w, keys)

\* Every layer of every model has it.
LEMMA LayersHaveRoom ==
  ASSUME NEW g \in Geometries, NEW l \in Layers(g), NEW n \in 1..MaxBatch, NEW keys
  PROVE  LayerHasRoom(g, l, n, keys)
  <1>1. RoomForRows(g, l, n, keys) /\ RoomForPairs(g, n, keys)
    BY RowsHaveRoom, PairsHaveRoom
  <1>2. ASSUME NEW w \in {g.hidden, g.ffn, 2 * g.ffn, QRows(g, l), QkvRows(g, l)}
        PROVE  RoomForWidth(g, n, w, keys)
    <2>1. w \in Nat
      BY GeometryIs
    <2> QED BY Zenon, <2>1, WidthsHaveRoom
  <1> QED BY Zenon, <1>1, <1>2 DEF LayerHasRoom

\* The projection to the heads fits.
LEMMA QkvGemvFits ==
  ASSUME NEW g, NEW l, NEW n, NEW keys, LayerHasRoom(g, l, n, keys),
         Q8(g.hidden) \in keys, Y(QkvRows(g, l)) \in keys
  PROVE  Segment(g, QkvGemv(g, l, n), keys)
  <1>1. /\ Room(g, XRes, n * g.hidden, keys) /\ Room(g, ScA, n * g.hidden, keys)
        /\ Room(g, Q8(g.hidden), n * g.hidden, keys) /\ Room(g, DenseIdx, n, keys)
        /\ Room(g, Y(QkvRows(g, l)), n * QkvRows(g, l), keys)
    BY DEF LayerHasRoom, RoomForRows, RoomForWidth
  <1>2. Moves(g, RmsnormRows(XRes, <<"attn_norm", l>>, ScA, g.hidden, n), keys)
    BY Zenon, <1>1, RmsnormMoves
  <1>3. Moves(g, QuantizeQ8(ScA, Q8(g.hidden), g.hidden, n), keys)
    BY Zenon, <1>1, QuantizeMoves
  <1>4. Moves(g, GemvQ4rIdx(<<"qkv", l>>, Q8(g.hidden), Y(QkvRows(g, l)), QkvRows(g, l), g.hidden, n), keys)
    BY Zenon, <1>1, GemvMoves
  <1> QED BY Zenon, <1>2, <1>3, <1>4, ThreeMove DEF QkvGemv

\* The heads fit, launch by launch as in forward_batch and in one as in a graph.
LEMMA HeadsFit ==
  ASSUME NEW g, NEW l, NEW n, NEW keys, LayerHasRoom(g, l, n, keys), Y(QkvRows(g, l)) \in keys
  PROVE  /\ Segment(g, QkvHeads(g, l, n), keys)
         /\ Moves(g, QkvPrep(g, l, n), keys)
         /\ \A maxCtx : Moves(g, AttnDecodeBatch(g, l, maxCtx, n), keys)
  <1>1. /\ Room(g, Y(QkvRows(g, l)), n * QkvRows(g, l), keys)
        /\ Room(g, AttnOut, n * QRows(g, l), keys) /\ Room(g, ScO, n * QRows(g, l), keys)
        /\ Room(g, PosDev, n, keys) /\ Room(g, SlotDev, n, keys) /\ RoomForRows(g, l, n, keys)
    BY DEF LayerHasRoom, RoomForRows, RoomForWidth
  <1>2. ASSUME NEW offset
        PROVE  /\ \A w : Moves(g, RmsnormHeads(g, l, w, offset, n), keys)
               /\ Moves(g, RopeHeads(g, l, offset, n), keys)
               /\ Moves(g, KvAppend(g, l, offset, n), keys)
               /\ Moves(g, GatherRows(g, l, offset, AttnOut, n), keys)
               /\ Moves(g, QkvPrep(g, l, n), keys)
    BY Zenon, <1>1, SectionsMove
  <1>3. Segment(g, QkvHeads(g, l, n), keys)
    <2> DEFINE k == QRows(g, l)
               v == QRows(g, l) + KvDim(g, l)
    <2> HIDE DEF k, v
    <2>1. Segment(g, <<RmsnormHeads(g, l, <<"q_norm", l>>, 0, n),
                       RmsnormHeads(g, l, <<"k_norm", l>>, k, n),
                       RmsnormHeads(g, l, <<"none">>, v, n),
                       RopeHeads(g, l, 0, n),
                       RopeHeads(g, l, k, n),
                       KvAppend(g, l, k, n),
                       KvAppend(g, l, v, n),
                       GatherRows(g, l, 0, AttnOut, n)>>, keys)
      BY Zenon, <1>2, EightMove
    <2> QED BY Zenon, <2>1 DEF QkvHeads, k, v
  <1>4. \A maxCtx : Moves(g, AttnDecodeBatch(g, l, maxCtx, n), keys)
    BY Zenon, <1>1, AttnMoves
  <1> QED BY Zenon, <1>2, <1>3, <1>4

\* The projection of the heads and the residual fit.
LEMMA OProjFits ==
  ASSUME NEW g, NEW l, NEW n, NEW keys, LayerHasRoom(g, l, n, keys),
         Q8(QRows(g, l)) \in keys, Y(g.hidden) \in keys
  PROVE  Segment(g, OProj(g, l, n), keys)
  <1>1. /\ Room(g, ScO, n * QRows(g, l), keys) /\ Room(g, Q8(QRows(g, l)), n * QRows(g, l), keys)
        /\ Room(g, Y(g.hidden), n * g.hidden, keys) /\ Room(g, DenseIdx, n, keys)
        /\ Room(g, XRes, n * g.hidden, keys) /\ Room(g, ScA, n * g.hidden, keys)
    BY DEF LayerHasRoom, RoomForRows, RoomForWidth
  <1>2. Moves(g, QuantizeQ8(ScO, Q8(QRows(g, l)), QRows(g, l), n), keys)
    BY Zenon, <1>1, QuantizeMoves
  <1>3. Moves(g, GemvQ4rIdx(<<"o", l>>, Q8(QRows(g, l)), Y(g.hidden), g.hidden, QRows(g, l), n), keys)
    BY Zenon, <1>1, GemvMoves
  <1>4. Moves(g, RmsnormRows(Y(g.hidden), <<"post_attn", l>>, ScA, g.hidden, n), keys)
    BY Zenon, <1>1, RmsnormMoves
  <1>5. Moves(g, AddRows(XRes, ScA, g.hidden, n), keys)
    BY Zenon, <1>1, AddMoves
  <1> QED BY Zenon, <1>2, <1>3, <1>4, <1>5, FourMove DEF OProj

\* The norms before the two branches fit.
LEMMA PreNormsFit ==
  ASSUME NEW g, NEW l, NEW n, NEW keys, LayerHasRoom(g, l, n, keys)
  PROVE  Segment(g, PreNorms(g, l, n), keys)
  <1>1. /\ Room(g, XRes, n * g.hidden, keys) /\ Room(g, ScPf, n * g.hidden, keys)
        /\ Room(g, ScRi, n * g.hidden, keys)
    BY DEF LayerHasRoom, RoomForRows
  <1>2. Moves(g, RmsnormRows(XRes, <<"ffn_norm", l>>, ScPf, g.hidden, n), keys)
    BY Zenon, <1>1, RmsnormMoves
  <1>3. Moves(g, RmsnormRows(XRes, <<"pre_ffw2", l>>, ScRi, g.hidden, n), keys)
    BY Zenon, <1>1, RmsnormMoves
  <1> QED BY Zenon, <1>2, <1>3, TwoMove DEF PreNorms

\* The dense branch and the router fit.
LEMMA MlpFits ==
  ASSUME NEW g \in Geometries, NEW l, NEW n \in Nat, NEW keys, LayerHasRoom(g, l, n, keys),
         Q8(g.ffn) \in keys, Y(2 * g.ffn) \in keys, Y(g.hidden) \in keys
  PROVE  Segment(g, MlpAndRouter(g, l, n), keys)
  <1>1. /\ Room(g, ScPf, n * g.hidden, keys) /\ Room(g, Q8Preff, n * g.hidden, keys)
        /\ Room(g, Y(2 * g.ffn), n * (2 * g.ffn), keys) /\ Room(g, Q8(g.ffn), n * g.ffn, keys)
        /\ Room(g, Y(g.hidden), n * g.hidden, keys) /\ Room(g, DenseIdx, n, keys)
        /\ Room(g, XRes, n * g.hidden, keys) /\ Room(g, ScA, n * g.hidden, keys)
        /\ Room(g, RouterLogits, n * g.experts, keys)
    BY DEF LayerHasRoom, RoomForRows, RoomForWidth
  <1>2. Room(g, Y(2 * g.ffn), n * 2 * g.ffn, keys)
    <2>1. g.ffn \in Nat
      BY DecodeConstants
    <2>2. n * (2 * g.ffn) = n * 2 * g.ffn
      BY <2>1
    <2> QED BY Zenon, <1>1, <2>2
  <1>3. Moves(g, QuantizeQ8(ScPf, Q8Preff, g.hidden, n), keys)
    BY Zenon, <1>1, QuantizeMoves
  <1>4. Moves(g, GemvQ4rIdx(<<"gate_up", l>>, Q8Preff, Y(2 * g.ffn), 2 * g.ffn, g.hidden, n), keys)
    BY Zenon, <1>1, GemvMoves
  <1>5. Moves(g, GeluMulQ8(Y(2 * g.ffn), Q8(g.ffn), g.ffn, n), keys)
    BY Zenon, <1>1, <1>2, GeluMoves
  <1>6. Moves(g, GemvQ4rIdx(<<"down", l>>, Q8(g.ffn), Y(g.hidden), g.hidden, g.ffn, n), keys)
    BY Zenon, <1>1, GemvMoves
  <1>7. Moves(g, RmsnormRows(XRes, <<"none">>, ScA, g.hidden, n), keys)
    BY Zenon, <1>1, RmsnormMoves
  <1>8. Moves(g, GemvF32Rows(<<"router_wf", l>>, ScA, RouterLogits, g.hidden, g.experts, n), keys)
    BY Zenon, <1>1, GemvF32Moves
  <1> QED BY Zenon, <1>3, <1>4, <1>5, <1>6, <1>7, <1>8, SixMove DEF MlpAndRouter

\* The experts' branch fits.
LEMMA MoeFits ==
  ASSUME NEW g, NEW l, NEW n, NEW keys, LayerHasRoom(g, l, n, keys), Y(g.hidden) \in keys
  PROVE  Segment(g, Moe(g, l, n), keys)
  <1> DEFINE pairs == n * g.topk
  <1>1. /\ RoomForRows(g, l, n, keys) /\ RoomForPairs(g, n, keys)
        /\ Room(g, ScRi, n * g.hidden, keys) /\ Room(g, Q8Routed, n * g.hidden, keys)
        /\ Room(g, XRes, n * g.hidden, keys) /\ Room(g, Y(g.hidden), n * g.hidden, keys)
        /\ Room(g, RoutedOut, n * g.hidden, keys)
    BY DEF LayerHasRoom, RoomForRows, RoomForWidth
  <1>2. /\ Room(g, PairBases, pairs, keys) /\ Room(g, PairXidx, pairs, keys) /\ Room(g, DenseIdx, pairs, keys)
        /\ Room(g, PairYGu, pairs * (2 * g.inter), keys) /\ Room(g, PairYGu, pairs * 2 * g.inter, keys)
        /\ Room(g, PairActQ8, pairs * g.inter, keys) /\ Room(g, PairYDown, pairs * g.hidden, keys)
    BY Zenon, <1>1 DEF RoomForPairs
  <1>3. /\ Moves(g, TopkRouter(g, n), keys) /\ Moves(g, AdmitAndPromote(g, l, n), keys)
        /\ Moves(g, MemsetRouted(g, n), keys) /\ Moves(g, ReducePairs(g, n), keys)
    BY Zenon, <1>1, RoutingMoves
  <1>4. Moves(g, QuantizeQ8(ScRi, Q8Routed, g.hidden, n), keys)
    BY Zenon, <1>1, QuantizeMoves
  <1> HIDE DEF pairs
  <1>5. Moves(g, GemvQ4rPtr("gate_up", PairXidx, Q8Routed, PairYGu, 2 * g.inter, g.hidden, pairs, n), keys)
    BY Zenon, <1>1, <1>2, ExpertMoves
  <1>6. Moves(g, GeluMulQ8(PairYGu, PairActQ8, g.inter, pairs), keys)
    BY Zenon, <1>2, GeluMoves
  <1>7. Moves(g, GemvQ4rPtr("down", DenseIdx, PairActQ8, PairYDown, g.hidden, g.inter, pairs, pairs), keys)
    BY Zenon, <1>2, ExpertMoves
  <1>8. Moves(g, DualCombine(<<"post_ffw", l>>, XRes, Y(g.hidden), RoutedOut, g.hidden, n), keys)
    BY Zenon, <1>1, CombineMoves
  <1> QED BY Zenon, <1>3, <1>4, <1>5, <1>6, <1>7, <1>8, NineMove DEF Moe, pairs

\* What the head needs room for, whatever the layers are.
HeadHasRoom(g, n, keys) ==
  /\ \A b \in {XRes, ScA, Q8Preff} : Room(g, b, n * g.hidden, keys)
  /\ Room(g, LogitsDev, n * g.vocab, keys) /\ Room(g, DenseIdx, n, keys)
  /\ Room(g, TempsDev, n, keys) /\ Room(g, RngDev, n, keys) /\ Room(g, TokOut, n, keys)

\* Every model has it.
LEMMA HeadsHaveRoom ==
  ASSUME NEW g \in Geometries, NEW n \in 1..MaxBatch, NEW keys
  PROVE  HeadHasRoom(g, n, keys)
  <1> USE DEF Room
  <1>0. n \in Nat /\ MaxBatch \in Nat /\ n <= MaxBatch
    BY DecodeStackConstants
  <1>1. g.hidden \in Nat /\ g.vocab \in Nat /\ g.topk \in Nat /\ 1 <= g.topk /\ 1 \in Nat
    BY DecodeConstants
  <1>2. \A w \in Nat : n * w <= MaxBatch * w
    BY <1>0, LessRows
  <1>3. /\ \A b \in {XRes, ScA, Q8Preff} : Room(g, b, n * g.hidden, keys)
        /\ Room(g, LogitsDev, n * g.vocab, keys)
    BY <1>1, <1>2, SizesAre
  <1>4. Room(g, TempsDev, n, keys) /\ Room(g, RngDev, n, keys) /\ Room(g, TokOut, n, keys)
    BY <1>0, SizesAre
  <1>5. Room(g, DenseIdx, n, keys)
    <2>1. n * 1 <= MaxBatch * g.topk
      BY Zenon, <1>0, <1>1, LessRows
    <2>2. n * 1 = n
      BY <1>0
    <2> QED BY <2>1, <2>2, SizesAre
  <1> QED BY Zenon, <1>3, <1>4, <1>5 DEF HeadHasRoom

\* The head fits, with sampling and without.
LEMMA HeadFits ==
  ASSUME NEW g, NEW n, NEW keys, HeadHasRoom(g, n, keys)
  PROVE  /\ Segment(g, LmHead(g, n), keys)
         /\ Segment(g, LmHead(g, n) \o <<SampleTokens(g, n)>>, keys)
         /\ Segment(g, LmHead(g, n) \o <<>>, keys)
  <1>1. /\ Room(g, XRes, n * g.hidden, keys) /\ Room(g, ScA, n * g.hidden, keys)
        /\ Room(g, Q8Preff, n * g.hidden, keys) /\ Room(g, LogitsDev, n * g.vocab, keys)
        /\ Room(g, DenseIdx, n, keys) /\ Room(g, TempsDev, n, keys) /\ Room(g, RngDev, n, keys)
        /\ Room(g, TokOut, n, keys)
    BY DEF HeadHasRoom
  <1>2. Moves(g, RmsnormRows(XRes, <<"final_norm">>, ScA, g.hidden, n), keys)
    BY Zenon, <1>1, RmsnormMoves
  <1>3. Moves(g, QuantizeQ8(ScA, Q8Preff, g.hidden, n), keys)
    BY Zenon, <1>1, QuantizeMoves
  <1>4. Moves(g, GemvQ4rIdx(<<"lm_head">>, Q8Preff, LogitsDev, g.vocab, g.hidden, n), keys)
    BY Zenon, <1>1, GemvMoves
  <1>5. Segment(g, LmHead(g, n), keys)
    BY Zenon, <1>2, <1>3, <1>4, ThreeMove DEF LmHead
  <1> DEFINE s == SampleTokens(g, n)
  <1>6. Moves(g, s, keys)
    BY Zenon, <1>1, SampleMoves
  <1> HIDE DEF s
  <1>7. <<s>> \in Seq({s}) /\ \A k \in 1..Len(<<s>>) : Moves(g, <<s>>[k], keys)
    BY <1>6
  <1>8. <<>> \in Seq({s}) /\ \A k \in 1..Len(<<>>) : Moves(g, <<>>[k], keys)
    OBVIOUS
  <1>9. Segment(g, <<s>>, keys) /\ Segment(g, <<>>, keys)
    BY Zenon, <1>7, <1>8, SegmentIs
  <1>10. Segment(g, LmHead(g, n) \o <<s>>, keys) /\ Segment(g, LmHead(g, n) \o <<>>, keys)
    BY Zenon, <1>5, <1>9, SegmentsInTurn
  <1> QED BY Zenon, <1>5, <1>10 DEF s

\* A program that fits and allocates the buffers new.
Goes(g, p, keys, new) == IsProgram(p) /\ Allocs(p) = new /\ Fits(g, p, keys)

\* The second program allocates on top of the first.
LEMMA GoesOn ==
  ASSUME NEW g, NEW p, NEW q, NEW keys, NEW new, NEW newer,
         Goes(g, p, keys, new), Goes(g, q, keys \cup new, newer)
  PROVE  Goes(g, p \o q, keys, new \cup newer)
  <1>1. InTurn(g, p, q, keys)
    BY Zenon, FitsInTurn DEF Goes
  <1> QED BY Zenon, <1>1 DEF InTurn, Goes

\* A segment allocates nothing.
LEMMA SegmentGoesOn ==
  ASSUME NEW g, NEW p, NEW q, NEW keys, NEW new, Goes(g, p, keys, new), Segment(g, q, keys \cup new)
  PROVE  Goes(g, p \o q, keys, new)
  <1>1. Goes(g, q, keys \cup new, {})
    BY Zenon DEF Segment, Goes
  <1>2. Goes(g, p \o q, keys, new \cup {})
    BY Zenon, <1>1, GoesOn
  <1>3. new \cup {} = new
    OBVIOUS
  <1> QED BY Zenon, <1>2, <1>3

\* An allocation always fits.
LEMMA AllocationGoes ==
  ASSUME NEW g, NEW keys, NEW b
  PROVE  Goes(g, <<Alloc(b)>>, keys, {b})
  <1> DEFINE a == Alloc(b)
             p == <<a>>
  <1>1. a.is = "alloc" /\ a.out = b /\ a.reach = {}
    BY DEF Alloc
  <1> HIDE DEF a
  <1>2. p \in Seq({a}) /\ Len(p) = 1 /\ p[1] = a
    OBVIOUS
  <1> HIDE DEF p
  <1>3. IsProgram(p)
    BY Zenon, <1>2 DEF IsProgram
  <1>4. Allocs(p) = {b}
    BY <1>1, <1>2 DEF Allocs, AllocsTo
  <1>5. Fits(g, p, keys)
    BY <1>1, <1>2 DEF Fits, FitsOne, Kinds
  <1> QED BY Zenon, <1>3, <1>4, <1>5 DEF Goes, p, a

\* A launch that fits is a program.
LEMMA OneMoves ==
  ASSUME NEW g, NEW keys, NEW op, Moves(g, op, keys)
  PROVE  Goes(g, <<op>>, keys, {})
  <1>1. <<op>> \in Seq({op}) /\ \A k \in 1..Len(<<op>>) : Moves(g, <<op>>[k], keys)
    OBVIOUS
  <1>2. Segment(g, <<op>>, keys)
    BY Zenon, <1>1, SegmentIs
  <1> QED BY Zenon, <1>2 DEF Segment, Goes

\* Launches one by one.
LEMMA ProgramsAssociate ==
  ASSUME NEW p, IsProgram(p), NEW q, IsProgram(q), NEW r, IsProgram(r)
  PROVE  (p \o q) \o r = p \o (q \o r)
  <1>1. PICK S : p \in Seq(S)
    BY DEF IsProgram
  <1>2. PICK T : q \in Seq(T)
    BY DEF IsProgram
  <1>3. PICK U : r \in Seq(U)
    BY DEF IsProgram
  <1> DEFINE V == S \cup T \cup U
  <1>4. p \in Seq(V) /\ q \in Seq(V) /\ r \in Seq(V)
    BY <1>1, <1>2, <1>3
  <1> HIDE DEF V
  <1> QED BY <1>4

JoinedIs(x, y, z) == x \o y = z
\* A sequence one longer than x that begins as x is x with its last element.
LEMMA OneMore ==
  ASSUME NEW V, NEW x \in Seq(V), NEW y \in Seq(V), NEW z \in Seq(V),
         Len(y) = 1, Len(z) = Len(x) + 1, \A i \in 1..Len(x) : x[i] = z[i], y[1] = z[Len(x) + 1]
  PROVE  JoinedIs(x, y, z)
  <1> DEFINE w == x \o y
  <1>1. /\ w \in Seq(V)
         /\ Len(w) = Len(x) + Len(y)
         /\ \A i \in 1 .. Len(x) + Len(y) : w[i] = IF i <= Len(x) THEN x[i] ELSE y[i - Len(x)]
    BY ConcatProperties
  <1>2. Len(x) \in Nat
    OBVIOUS
  <1> HIDE DEF w
  <1>3. ASSUME NEW i \in 1..Len(w) PROVE w[i] = z[i]
    <2>1. CASE i <= Len(x)
      BY <1>1, <1>2, <2>1
    <2>2. CASE i = Len(x) + 1
      BY <1>1, <1>2, <2>2
    <2> QED BY <1>1, <1>2, <2>1, <2>2
  <1>4. w = z
    BY <1>1, <1>2, <1>3, SeqEqual
  <1> QED BY <1>4 DEF w, JoinedIs

\* Two elements.
LEMMA TwoAreJoined ==
  ASSUME NEW a, NEW b
  PROVE  JoinedIs(<<a>>, <<b>>, <<a, b>>)
  <1> DEFINE V == {a, b}
             x == <<a>>
             y == <<b>>
             z == <<a, b>>
  <1>1. x \in Seq(V) /\ y \in Seq(V) /\ z \in Seq(V) /\ Len(x) = 1 /\ Len(y) = 1 /\ Len(z) = 2
    OBVIOUS
  <1>2. x[1] = a /\ y[1] = b /\ z[1] = a /\ z[2] = b
    OBVIOUS
  <1> HIDE DEF x, y, z, V
  <1>3. Len(z) = Len(x) + 1 /\ (\A i \in 1..Len(x) : x[i] = z[i]) /\ y[1] = z[Len(x) + 1]
    BY <1>1, <1>2
  <1>4. JoinedIs(x, y, z)
    BY Zenon, <1>1, <1>3, OneMore
  <1> QED BY Zenon, <1>4 DEF x, y, z

\* Three elements.
LEMMA ThreeAreJoined ==
  ASSUME NEW a, NEW b, NEW c
  PROVE  JoinedIs(<<a, b>>, <<c>>, <<a, b, c>>)
  <1> DEFINE V == {a, b, c}
             x == <<a, b>>
             y == <<c>>
             z == <<a, b, c>>
  <1>1. x \in Seq(V) /\ y \in Seq(V) /\ z \in Seq(V) /\ Len(x) = 2 /\ Len(y) = 1 /\ Len(z) = 3
    OBVIOUS
  <1>2. x[1] = a /\ x[2] = b /\ y[1] = c /\ z[1] = a /\ z[2] = b /\ z[3] = c
    OBVIOUS
  <1> HIDE DEF x, y, z, V
  <1>3. Len(z) = Len(x) + 1 /\ (\A i \in 1..Len(x) : x[i] = z[i]) /\ y[1] = z[Len(x) + 1]
    BY <1>1, <1>2
  <1>4. JoinedIs(x, y, z)
    BY Zenon, <1>1, <1>3, OneMore
  <1> QED BY Zenon, <1>4 DEF x, y, z

OneByOne(p, a, b) == (p \o <<a>>) \o <<b>> = p \o <<a, b>>

\* Two launches added one by one.
LEMMA TwoOneByOne ==
  ASSUME NEW p, IsProgram(p), NEW a, NEW b
  PROVE  OneByOne(p, a, b)
  <1>1. <<a>> \in Seq({a}) /\ <<b>> \in Seq({b})
    OBVIOUS
  <1>2. IsProgram(<<a>>) /\ IsProgram(<<b>>)
    BY Zenon, <1>1 DEF IsProgram
  <1>3. (p \o <<a>>) \o <<b>> = p \o (<<a>> \o <<b>>)
    BY <1>2, ProgramsAssociate
  <1>4. <<a>> \o <<b>> = <<a, b>>
    BY Zenon, TwoAreJoined DEF JoinedIs
  <1> QED BY Zenon, <1>3, <1>4 DEF OneByOne

ThreeOneByOne(p, a, b, c) == ((p \o <<a>>) \o <<b>>) \o <<c>> = p \o <<a, b, c>>

\* Three launches added one by one.
LEMMA ThreeOneByOneAreOne ==
  ASSUME NEW p, IsProgram(p), NEW a, NEW b, NEW c
  PROVE  ThreeOneByOne(p, a, b, c)
  <1>1. <<a, b>> \in Seq({a, b}) /\ <<c>> \in Seq({c})
    OBVIOUS
  <1>2. IsProgram(<<a, b>>) /\ IsProgram(<<c>>)
    BY Zenon, <1>1 DEF IsProgram
  <1>3. (p \o <<a, b>>) \o <<c>> = p \o (<<a, b>> \o <<c>>)
    BY <1>2, ProgramsAssociate
  <1>4. <<a, b>> \o <<c>> = <<a, b, c>>
    BY Zenon, ThreeAreJoined DEF JoinedIs
  <1>5. OneByOne(p, a, b)
    BY Zenon, TwoOneByOne
  <1> QED BY Zenon, <1>3, <1>4, <1>5 DEF OneByOne, ThreeOneByOne

\* enqueue_stack finds all the buffers it needs when ensure_buffers was called.
LEMMA StackLayerFits ==
  ASSUME NEW g \in Geometries, NEW l \in Layers(g), NEW n \in 1..MaxBatch, NEW maxCtx, NEW keys,
         EnsureKeys(g) \subseteq keys
  PROVE  Goes(g, StackLayer(g, l, maxCtx, n), keys, {})
  <1>1. LayerHasRoom(g, l, n, keys)
    BY LayersHaveRoom
  <1>2. /\ Q8(g.hidden) \in keys /\ Q8(g.ffn) \in keys /\ Q8(QRows(g, l)) \in keys
        /\ Y(g.hidden) \in keys /\ Y(2 * g.ffn) \in keys /\ Y(QkvRows(g, l)) \in keys
    BY DEF EnsureKeys
  <1>3. n \in Nat
    OBVIOUS
  <1>4. Segment(g, QkvGemv(g, l, n), keys)
    BY Zenon, <1>1, <1>2, QkvGemvFits
  <1>5. Segment(g, <<QkvPrep(g, l, n), AttnDecodeBatch(g, l, maxCtx, n)>>, keys)
    BY Zenon, <1>1, <1>2, HeadsFit, TwoMove
  <1>6. Segment(g, OProj(g, l, n), keys)
    BY Zenon, <1>1, <1>2, OProjFits
  <1>7. Segment(g, PreNorms(g, l, n), keys)
    BY Zenon, <1>1, PreNormsFit
  <1>8. Segment(g, MlpAndRouter(g, l, n), keys)
    BY Zenon, <1>1, <1>2, <1>3, MlpFits
  <1>9. Segment(g, Moe(g, l, n), keys)
    BY Zenon, <1>1, <1>2, MoeFits
  <1>10. Segment(g, StackLayer(g, l, maxCtx, n), keys)
    BY Zenon, <1>4, <1>5, <1>6, <1>7, <1>8, <1>9, SegmentsInTurn DEF StackLayer
  <1> QED BY Zenon, <1>10 DEF Segment, Goes

\* forward_batch allocates each buffer before it needs it, but for the one that it
\* allocates before the first layer.
LEMMA EagerLayerFits ==
  ASSUME NEW g \in Geometries, NEW l \in Layers(g), NEW n \in 1..MaxBatch, NEW maxCtx, NEW keys,
         Q8(g.hidden) \in keys
  PROVE  \E new : Goes(g, EagerLayer(g, l, maxCtx, n), keys, new)
  <1> DEFINE b1 == Y(QkvRows(g, l))
             b2 == Q8(QRows(g, l))
             b3 == Y(g.hidden)
             b4 == Q8(g.ffn)
             b5 == Y(2 * g.ffn)
             attn == AttnDecodeBatch(g, l, maxCtx, n)
             new1 == {b1}
             new2 == new1 \cup {b2, b3}
             new3 == new2 \cup {b4, b5}
             p1 == (<<Alloc(b1)>> \o QkvGemv(g, l, n)) \o QkvHeads(g, l, n)
             p2 == p1 \o <<attn, Alloc(b2), Alloc(b3)>>
             p3 == (p2 \o OProj(g, l, n)) \o PreNorms(g, l, n)
             p4 == p3 \o <<Alloc(b4), Alloc(b5)>>
             p5 == (p4 \o MlpAndRouter(g, l, n)) \o Moe(g, l, n)
  <1>0. \A k : LayerHasRoom(g, l, n, k)
    BY Zenon, LayersHaveRoom
  <1>1. n \in Nat
    OBVIOUS
  <1>2. Goes(g, p1, keys, new1)
    <2>1. Q8(g.hidden) \in keys \cup new1 /\ Y(QkvRows(g, l)) \in keys \cup new1
      OBVIOUS
    <2> HIDE DEF new1
    <2>2. Segment(g, QkvGemv(g, l, n), keys \cup new1) /\ Segment(g, QkvHeads(g, l, n), keys \cup new1)
      BY Zenon, <1>0, <2>1, QkvGemvFits, HeadsFit
    <2>3. Goes(g, <<Alloc(b1)>>, keys, new1)
      BY Zenon, AllocationGoes DEF new1
    <2> QED BY Zenon, <2>2, <2>3, SegmentGoesOn
  <1>3. Goes(g, p2, keys, new2)
    <2>1. Y(QkvRows(g, l)) \in keys \cup new1
      OBVIOUS
    <2>2. Moves(g, attn, keys \cup new1)
      BY Zenon, <1>0, <2>1, HeadsFit
    <2> HIDE DEF attn, b2, b3, new1, p1
    <2>3. Goes(g, <<attn>>, keys \cup new1, {})
      BY Zenon, <2>2, OneMoves
    <2>4. Goes(g, p1 \o <<attn>>, keys, new1 \cup {})
      BY Zenon, <1>2, <2>3, GoesOn
    <2>5. Goes(g, (p1 \o <<attn>>) \o <<Alloc(b2)>>, keys, (new1 \cup {}) \cup {b2})
      BY Zenon, <2>4, AllocationGoes, GoesOn
    <2>6. Goes(g, ((p1 \o <<attn>>) \o <<Alloc(b2)>>) \o <<Alloc(b3)>>, keys, ((new1 \cup {}) \cup {b2}) \cup {b3})
      BY Zenon, <2>5, AllocationGoes, GoesOn
    <2>7. ((p1 \o <<attn>>) \o <<Alloc(b2)>>) \o <<Alloc(b3)>> = p1 \o <<attn, Alloc(b2), Alloc(b3)>>
      <3>1. ThreeOneByOne(p1, attn, Alloc(b2), Alloc(b3))
        BY Zenon, <1>2, ThreeOneByOneAreOne DEF Goes
      <3> QED BY Zenon, <3>1 DEF ThreeOneByOne
    <2>8. ((new1 \cup {}) \cup {b2}) \cup {b3} = new2
      OBVIOUS
    <2> QED BY Zenon, <2>6, <2>7, <2>8
  <1>4. Goes(g, p3, keys, new2)
    <2>1. Q8(QRows(g, l)) \in keys \cup new2 /\ Y(g.hidden) \in keys \cup new2
      OBVIOUS
    <2> HIDE DEF new2, p2
    <2>2. Segment(g, OProj(g, l, n), keys \cup new2) /\ Segment(g, PreNorms(g, l, n), keys \cup new2)
      BY Zenon, <1>0, <2>1, OProjFits, PreNormsFit
    <2> QED BY Zenon, <1>3, <2>2, SegmentGoesOn
  <1>5. Goes(g, p4, keys, new3)
    <2> HIDE DEF b4, b5, new2, p3
    <2>1. Goes(g, p3 \o <<Alloc(b4)>>, keys, new2 \cup {b4})
      BY Zenon, <1>4, AllocationGoes, GoesOn
    <2>2. Goes(g, (p3 \o <<Alloc(b4)>>) \o <<Alloc(b5)>>, keys, (new2 \cup {b4}) \cup {b5})
      BY Zenon, <2>1, AllocationGoes, GoesOn
    <2>3. (p3 \o <<Alloc(b4)>>) \o <<Alloc(b5)>> = p3 \o <<Alloc(b4), Alloc(b5)>>
      <3>1. OneByOne(p3, Alloc(b4), Alloc(b5))
        BY Zenon, <1>4, TwoOneByOne DEF Goes
      <3> QED BY Zenon, <3>1 DEF OneByOne
    <2>4. (new2 \cup {b4}) \cup {b5} = new3
      OBVIOUS
    <2> QED BY Zenon, <2>2, <2>3, <2>4
  <1>6. Goes(g, p5, keys, new3)
    <2>1. Q8(g.ffn) \in keys \cup new3 /\ Y(2 * g.ffn) \in keys \cup new3 /\ Y(g.hidden) \in keys \cup new3
      OBVIOUS
    <2> HIDE DEF new3, p4
    <2>2. Segment(g, MlpAndRouter(g, l, n), keys \cup new3) /\ Segment(g, Moe(g, l, n), keys \cup new3)
      BY Zenon, <1>0, <1>1, <2>1, MlpFits, MoeFits
    <2> QED BY Zenon, <1>5, <2>2, SegmentGoesOn
  <1>7. EagerLayer(g, l, maxCtx, n) = p5
    <2>1. EagerLayer(g, l, maxCtx, n) =
            <<Alloc(Y(QkvRows(g, l)))>> \o QkvGemv(g, l, n) \o QkvHeads(g, l, n)
              \o <<AttnDecodeBatch(g, l, maxCtx, n), Alloc(Q8(QRows(g, l))), Alloc(Y(g.hidden))>>
              \o OProj(g, l, n) \o PreNorms(g, l, n) \o <<Alloc(Q8(g.ffn)), Alloc(Y(2 * g.ffn))>>
              \o MlpAndRouter(g, l, n) \o Moe(g, l, n)
      BY Zenon DEF EagerLayer
    <2> QED BY Zenon, <2>1
  <1> QED BY Zenon, <1>6, <1>7

(***************************************************************************)
(* The machine is sound, and when a pass is under way the buffers are      *)
(* allocated that it does not allocate itself: the one for the quantised   *)
(* embeddings, and for a graph, whose launches allocate nothing, all those *)
(* of ensure_buffers.                                                      *)
(***************************************************************************)
AllocatedFor(g, kind, keys) ==
  Q8(g.hidden) \in keys /\ (kind = "graphed" => EnsureKeys(g) \subseteq keys)

BuffersInv ==
  /\ PassInv
  /\ geom = <<>> \/ geom \in Geometries
  /\ geom # <<>> => IsMachine(machine) /\ machine.sound
  /\ pass # Idle => /\ geom # <<>> /\ Len(pass.reqs) \in 1..MaxBatch
                    /\ AllocatedFor(geom, pass.kind, machine.alloc)

\* A step that leaves the loaded model alone, and frees no buffer.
Kept ==
  /\ geom' = geom
  /\ geom # <<>> => IsMachine(machine') /\ machine'.sound /\ machine.alloc \subseteq machine'.alloc

\* Forgetting what is in the scratch buffers frees none.
LEMMA MemoryOnly ==
  ASSUME BuffersInv, geom' = geom, machine' = Forgotten(machine)
  PROVE  Kept
  <1>1. PICK mem : machine' = [machine EXCEPT !.mem = mem]
    BY Zenon DEF Forgotten
  <1> QED BY <1>1 DEF Kept, BuffersInv, IsMachine

\* A pass that goes on, or ends, keeps BuffersInv.
LEMMA PassGoesOn ==
  ASSUME BuffersInv, PassInv', Kept,
         \/ pass' = Idle
         \/ (pass # Idle /\ pass'.reqs = pass.reqs /\ pass'.kind = pass.kind)
  PROVE  BuffersInv'
  BY DEF Kept, BuffersInv, AllocatedFor

\* A batch has at least one sequence and at most one per slot.
LEMMA BatchSize ==
  ASSUME NEW reqs \in Batches
  PROVE  Len(reqs) \in 1..MaxBatch
  <1>1. PICK n \in 1..MaxBatch : reqs \in [1..n -> Slots]
    BY DEF Batches
  <1>2. Len(reqs) = n
    BY <1>1
  <1> QED BY <1>2

\* The launches of a layer keep the machine sound.
LEMMA LayerIsSound ==
  ASSUME BuffersInv, RunLayer
  PROVE  Kept
  <1> DEFINE n == Len(pass.reqs)
             l == pass.layer
             keys == machine.alloc
             p == IF pass.kind = "graphed" THEN StackLayer(geom, l, pass.maxCtx, n)
                  ELSE EagerLayer(geom, l, pass.maxCtx, n)
             m == Run(geom, machine, p)
  <1>1. pass.at = "layer" /\ l \in Layers(geom) /\ geom' = geom
    BY Zenon DEF RunLayer
  <1>0. CASE capturing
    BY <1>0, <1>1 DEF RunLayer, Kept, BuffersInv
  <1> SUFFICES ASSUME ~capturing PROVE Kept
    BY <1>0
  <1>2. PICK rows : machine' = Put(m, XRes, rows)
    BY Zenon DEF RunLayer
  <1>3. /\ geom \in Geometries /\ n \in 1..MaxBatch /\ AllocatedFor(geom, pass.kind, keys)
        /\ IsMachine(machine) /\ machine.sound
    BY <1>1 DEF BuffersInv, PassInv
  <1>4. \E new : Goes(geom, p, keys, new)
    <2>1. CASE pass.kind = "graphed"
      <3>1. EnsureKeys(geom) \subseteq keys
        BY Zenon, <1>3, <2>1 DEF AllocatedFor
      <3> QED BY Zenon, <1>1, <1>3, <2>1, <3>1, StackLayerFits
    <2>2. CASE pass.kind # "graphed"
      <3>1. Q8(geom.hidden) \in keys
        BY Zenon, <1>3 DEF AllocatedFor
      <3> QED BY Zenon, <1>1, <1>3, <2>2, <3>1, EagerLayerFits
    <2> QED BY <2>1, <2>2
  <1> HIDE DEF p
  <1>5. Runs(geom, machine, p)
    BY Zenon, <1>3, <1>4, RunSound DEF Goes
  <1>6. IsMachine(m) /\ m.sound /\ keys \subseteq m.alloc
    <2>1. keys \cup Allocs(p) \subseteq m.alloc /\ IsMachine(m) /\ m.sound
      BY Zenon, <1>5 DEF Runs
    <2> QED BY <2>1
  <1> HIDE DEF m
  <1>7. IsMachine(machine') /\ machine'.sound /\ machine'.alloc = m.alloc
    BY Zenon, <1>2, <1>6, PutKeeps
  <1> QED BY <1>1, <1>6, <1>7 DEF Kept

\* So do those of the head.
LEMMA HeadIsSound ==
  ASSUME BuffersInv, RunHead
  PROVE  Kept
  <1> DEFINE n == Len(pass.reqs)
             keys == machine.alloc
             p == LmHead(geom, n)
                    \o IF Samples THEN <<SampleTokens(geom, n)>> ELSE <<>>
             m == Run(geom, machine, p)
  <1>0. CASE capturing
    BY <1>0 DEF RunHead, Kept, BuffersInv
  <1> SUFFICES ASSUME ~capturing PROVE Kept
    BY <1>0
  <1>1. pass.at = "layer" /\ geom' = geom /\ machine' = m
    BY Zenon DEF RunHead
  <1>2. /\ geom \in Geometries /\ n \in 1..MaxBatch
        /\ IsMachine(machine) /\ machine.sound
    BY <1>1 DEF BuffersInv, PassInv
  <1>3. HeadHasRoom(geom, n, keys)
    BY Zenon, <1>2, HeadsHaveRoom
  <1>4. Segment(geom, p, keys)
    <2>1. CASE Samples
      BY Zenon, <1>3, <2>1, HeadFits
    <2>2. CASE ~Samples
      BY Zenon, <1>3, <2>2, HeadFits
    <2> QED BY <2>1, <2>2
  <1> HIDE DEF p
  <1>5. Runs(geom, machine, p)
    BY Zenon, <1>2, <1>4, RunSound DEF Segment
  <1>6. IsMachine(m) /\ m.sound /\ keys \cup Allocs(p) \subseteq m.alloc
    BY Zenon, <1>5 DEF Runs
  <1> HIDE DEF m
  <1> QED BY <1>1, <1>6 DEF Kept

\* A pass begins with the buffers it needs.
LEMMA BeginPassAllocates ==
  ASSUME BuffersInv, BeginPass, PassInv'
  PROVE  BuffersInv'
  <1>1. PICK kind \in {"sample", "logits", "graphed"}, reqs \in Batches :
          LET ensured == machine.alloc \cup IF kind = "graphed" THEN EnsureKeys(geom) ELSE {}
          IN  \/ /\ Fail(kind, reqs, "context overflow")
                 /\ machine' = [machine EXCEPT !.alloc = ensured]
              \/ /\ pass' = [at |-> IF kind = "graphed" THEN "drain" ELSE "layer", kind |-> kind,
                             reqs |-> reqs, layer |-> 1,
                             tokens |-> [i \in DOMAIN reqs |-> Token(reqs[i])],
                             maxCtx |-> Max({seqPos[s] : s \in Range(reqs)}) + 1]
                 /\ machine' = [machine EXCEPT !.mem = IF capturing THEN machine.mem
                                                       ELSE Over(Uploaded(kind, reqs), machine.mem),
                                               !.alloc = ensured \cup {Q8(geom.hidden)}]
    BY ZenonT(30) DEF BeginPass
  <1> DEFINE ensured == machine.alloc \cup IF kind = "graphed" THEN EnsureKeys(geom) ELSE {}
             tokens == [i \in DOMAIN reqs |-> Token(reqs[i])]
             maxCtx == Max({seqPos[s] : s \in Range(reqs)}) + 1
             mem == IF capturing THEN machine.mem ELSE Over(Uploaded(kind, reqs), machine.mem)
  <1>2. geom # <<>> /\ geom' = geom
    BY Zenon DEF BeginPass
  <1>3. IsMachine(machine) /\ machine.sound
    BY Zenon, <1>2 DEF BuffersInv
  <1>4. machine.alloc \subseteq ensured /\ (kind = "graphed" => EnsureKeys(geom) \subseteq ensured)
    BY Zenon
  <1>5. CASE Fail(kind, reqs, "context overflow") /\ machine' = [machine EXCEPT !.alloc = ensured]
    <2> HIDE DEF ensured
    <2>1. Kept
      BY <1>2, <1>3, <1>4, <1>5 DEF Kept, IsMachine
    <2>2. pass' = Idle
      BY Zenon, <1>5 DEF Fail
    <2> QED BY Zenon, <2>1, <2>2, PassGoesOn
  <1>6. CASE /\ pass' = [at |-> IF kind = "graphed" THEN "drain" ELSE "layer", kind |-> kind,
                         reqs |-> reqs, layer |-> 1, tokens |-> tokens, maxCtx |-> maxCtx]
             /\ machine' = [machine EXCEPT !.mem = mem, !.alloc = ensured \cup {Q8(geom.hidden)}]
    <2> HIDE DEF tokens, maxCtx, mem
    <2> HIDE DEF ensured
    <2>1. pass'.kind = kind /\ pass'.reqs = reqs
      BY <1>6
    <2>2. IsMachine(machine') /\ machine'.sound /\ machine'.alloc = ensured \cup {Q8(geom.hidden)}
      BY <1>3, <1>6 DEF IsMachine
    <2>3. AllocatedFor(geom, kind, machine'.alloc)
      BY <1>4, <2>2 DEF AllocatedFor
    <2>4. Len(reqs) \in 1..MaxBatch
      BY BatchSize
    <2> QED BY <1>2, <2>1, <2>2, <2>3, <2>4 DEF BuffersInv
  <1> QED BY Zenon, <1>1, <1>5, <1>6

\* BuffersInv is inductive.
LEMMA BuffersInvStep ==
  ASSUME BuffersInv, [DecodeNext]_decodeVars
  PROVE  BuffersInv'
  <1>0. PassInv'
    BY PassInvStep DEF BuffersInv
  <1>1. CASE LoadModel
    BY <1>0, <1>1 DEF LoadModel, BuffersInv, IsMachine
  <1>2. CASE ResetSlot
    BY <1>0, <1>2 DEF ResetSlot, BuffersInv, AllocatedFor
  <1>3. CASE BeginPass
    BY Zenon, <1>0, <1>3, BeginPassAllocates
  <1>4. CASE Drain
    <2>1. Kept
      BY <1>4 DEF Drain, Kept, BuffersInv
    <2>2. pass # Idle /\ pass'.reqs = pass.reqs /\ pass'.kind = pass.kind
      BY <1>4 DEF Drain, BuffersInv, PassInv, Underway, Idle
    <2> QED BY Zenon, <1>0, <2>1, <2>2, PassGoesOn
  <1>5. CASE BeginCapture
    <2>1. Kept
      BY <1>5 DEF BeginCapture, Kept, BuffersInv
    <2>2. pass # Idle /\ pass'.reqs = pass.reqs /\ pass'.kind = pass.kind
      BY <1>5 DEF BeginCapture, BuffersInv, PassInv, Underway, Idle
    <2> QED BY Zenon, <1>0, <2>1, <2>2, PassGoesOn
  <1>6. CASE EnqueueStack
    <2>1. Kept
      BY <1>6 DEF EnqueueStack, Kept, BuffersInv
    <2>2. pass # Idle /\ pass'.reqs = pass.reqs /\ pass'.kind = pass.kind
      BY <1>6 DEF EnqueueStack, BuffersInv, PassInv, Underway, Idle
    <2> QED BY Zenon, <1>0, <2>1, <2>2, PassGoesOn
  <1>7. CASE EndCapture
    <2>1. geom' = geom /\ (machine' = machine \/ machine' = Forgotten(machine))
      BY Zenon, <1>7 DEF EndCapture
    <2>2. Kept
      BY Zenon, <2>1, MemoryOnly DEF Kept, BuffersInv
    <2>3. pass' = Idle \/ (pass # Idle /\ pass'.reqs = pass.reqs /\ pass'.kind = pass.kind)
      BY <1>7 DEF EndCapture, Fail, BuffersInv, PassInv, Underway, Idle
    <2> QED BY Zenon, <1>0, <2>2, <2>3, PassGoesOn
  <1>8. CASE LaunchGraph
    <2>1. Kept
      BY <1>8 DEF LaunchGraph, Kept, BuffersInv
    <2>2. pass # Idle /\ pass'.reqs = pass.reqs /\ pass'.kind = pass.kind
      BY <1>8 DEF LaunchGraph, BuffersInv, PassInv, Underway, Idle
    <2> QED BY Zenon, <1>0, <2>1, <2>2, PassGoesOn
  <1>9. CASE RunLayer
    <2>1. Kept
      BY Zenon, <1>9, LayerIsSound
    <2>2. pass # Idle /\ pass'.reqs = pass.reqs /\ pass'.kind = pass.kind
      <3>1. pass.at = "layer" /\ pass' = [pass EXCEPT !.layer = @ + 1]
        BY Zenon, <1>9 DEF RunLayer
      <3> QED BY <3>1 DEF BuffersInv, PassInv, Underway, Idle
    <2> QED BY Zenon, <1>0, <2>1, <2>2, PassGoesOn
  <1>10. CASE RunHead
    <2>1. Kept
      BY Zenon, <1>10, HeadIsSound
    <2>2. pass # Idle /\ pass'.reqs = pass.reqs /\ pass'.kind = pass.kind
      <3>1. pass.at = "layer" /\ pass' = [pass EXCEPT !.at = IF Samples THEN "tokens" ELSE "logits"]
        BY Zenon, <1>10 DEF RunHead
      <3> QED BY <3>1 DEF BuffersInv, PassInv, Underway, Idle
    <2> QED BY Zenon, <1>0, <2>1, <2>2, PassGoesOn
  <1>11. CASE Download
    <2>1. geom' = geom /\ machine' = Forgotten(machine) /\ pass' = Idle
      BY Zenon, <1>11 DEF Download
    <2>2. Kept
      BY Zenon, <2>1, MemoryOnly
    <2> QED BY Zenon, <1>0, <2>1, <2>2, PassGoesOn
  <1>12. CASE DriverFault
    <2>1. geom' = geom /\ machine' = Forgotten(machine) /\ pass' = Idle
      BY Zenon, <1>12 DEF DriverFault, Fail
    <2>2. Kept
      BY Zenon, <2>1, MemoryOnly
    <2> QED BY Zenon, <1>0, <2>1, <2>2, PassGoesOn
  <1>14. CASE StreamRefuses
    <2>1. geom' = geom /\ machine' = Forgotten(machine) /\ pass' = Idle
      BY Zenon, <1>14 DEF StreamRefuses, Fail
    <2>2. Kept
      BY Zenon, <2>1, MemoryOnly
    <2> QED BY Zenon, <1>0, <2>1, <2>2, PassGoesOn
  <1>13. CASE UNCHANGED decodeVars
    BY <1>0, <1>13 DEF decodeVars, BuffersInv, AllocatedFor
  <1> QED
    BY <1>1, <1>2, <1>3, <1>4, <1>5, <1>6, <1>7, <1>8, <1>9, <1>10, <1>11, <1>12,
       <1>13, <1>14 DEF DecodeNext

\* No launch of a pass, captured or not, reaches past the end of a buffer or for one
\* that is not allocated: for every geometry, batch size and MAX_BATCH.
THEOREM BuffersAlwaysSuffice == DecodeSpec => []BuffersSuffice
  <1>1. DecodeInit => BuffersInv
    BY DEF DecodeInit, BuffersInv, PassInv, Idle, Recording
  <1>2. BuffersInv /\ [DecodeNext]_decodeVars => BuffersInv'
    BY BuffersInvStep
  <1>3. BuffersInv => BuffersSuffice
    BY DEF BuffersInv, BuffersSuffice
  <1> QED BY <1>1, <1>2, <1>3, PTL DEF DecodeSpec

(***************************************************************************)
(* What programs compute.  Two programs one after another run as one.      *)
(***************************************************************************)

\* The machines that a program goes through do not depend on what comes after it.
LEMMA RunsJoin ==
  ASSUME NEW g, NEW m, NEW p, NEW q, IsProgram(p), IsProgram(q)
  PROVE  Run(g, m, p \o q) = Run(g, Run(g, m, p), q)
  <1> DEFINE a == Len(p)
             b == Len(q)
             r == p \o q
             h == Run(g, m, p)
  <1>1. /\ a \in Nat /\ b \in Nat /\ Len(r) = a + b
        /\ \A k \in 1..a : r[k] = p[k]
        /\ \A k \in 1..b : r[a + k] = q[k]
    <2>1. PICK S, T : p \in Seq(S) /\ q \in Seq(T)
      BY DEF IsProgram
    <2>2. p \in Seq(S \cup T) /\ q \in Seq(S \cup T)
      BY <2>1
    <2> QED BY <2>2
  <1> HIDE DEF r
  <1>0. Len(p) \in Nat /\ Len(q) \in Nat
    BY Zenon, <1>1
  <1>2. PICK f : Ran(f, g, m, p, a) /\ h = f[a]
    BY Zenon, <1>0, RunIs
  <1> HIDE DEF h
  <1>3. PICK e : Ran(e, g, h, q, b) /\ Run(g, h, q) = e[b]
    BY Zenon, <1>0, RunIs
  <1>4. Len(r) \in Nat
    BY <1>1
  <1>5. PICK d : Ran(d, g, m, r, Len(r)) /\ Run(g, m, r) = d[Len(r)]
    BY Zenon, <1>4, RunIs
  <1> HIDE DEF h, a, b
  <1>6. \A k \in 0..a : f[k] = IF k = 0 THEN m ELSE Step(g, f[k - 1], p[k])
    BY Zenon, <1>2 DEF Ran
  <1>7. \A k \in 0..b : e[k] = IF k = 0 THEN h ELSE Step(g, e[k - 1], q[k])
    BY Zenon, <1>3 DEF Ran
  <1>8. \A k \in 0..(a + b) : d[k] = IF k = 0 THEN m ELSE Step(g, d[k - 1], r[k])
    BY Zenon, <1>1, <1>5 DEF Ran
  <1> DEFINE First == {k \in 0..a : d[k] # f[k]}
             Second == {k \in 0..b : d[a + k] # e[k]}
  <1>9. ASSUME First # {} PROVE FALSE
    <2>0. First \subseteq Nat
      BY <1>1
    <2>1. PICK k \in First : \A j \in First : k <= j
      BY Zenon, <1>9, <2>0, LeastNumber
    <2>2. k \in 0..a /\ k \in 0..(a + b) /\ d[k] # f[k]
      BY <1>1, <2>1
    <2>3. k # 0
      BY Zenon, <1>6, <1>8, <2>2
    <2>4. k - 1 \in 0..a /\ ~(k <= k - 1) /\ k \in 1..a
      BY <1>1, <2>2, <2>3
    <2>5. d[k - 1] = f[k - 1]
      BY Zenon, <2>1, <2>4
    <2>6. r[k] = p[k]
      BY Zenon, <1>1, <2>4
    <2> QED BY Zenon, <1>6, <1>8, <2>2, <2>3, <2>5, <2>6
  <1>10. d[a] = h
    <2>1. a \in 0..a
      BY <1>1
    <2> HIDE DEF First
    <2>2. First = {}
      BY Zenon, <1>9
    <2>3. d[a] = f[a]
      BY Zenon, <2>1, <2>2 DEF First
    <2> QED BY Zenon, <1>2, <2>3
  <1>11. ASSUME Second # {} PROVE FALSE
    <2>0. Second \subseteq Nat
      BY <1>1
    <2>1. PICK k \in Second : \A j \in Second : k <= j
      BY Zenon, <1>11, <2>0, LeastNumber
    <2>2. k \in 0..b /\ a + k \in 0..(a + b) /\ d[a + k] # e[k]
      BY <1>1, <2>1
    <2>3. CASE k = 0
      <3>1. a + k = a
        BY <1>1, <2>3
      <3>2. e[k] = h
        BY Zenon, <1>7, <2>2, <2>3
      <3> QED BY Zenon, <1>10, <2>2, <3>1, <3>2
    <2>4. CASE k # 0
      <3>1. /\ k - 1 \in 0..b /\ ~(k <= k - 1) /\ k \in 1..b
            /\ a + k # 0 /\ (a + k) - 1 = a + (k - 1)
        BY <1>1, <2>2, <2>4
      <3>2. d[a + (k - 1)] = e[k - 1]
        BY Zenon, <2>1, <3>1
      <3>3. r[a + k] = q[k]
        BY Zenon, <1>1, <3>1
      <3>4. d[a + k] = Step(g, d[(a + k) - 1], r[a + k])
        BY Zenon, <1>8, <2>2, <3>1
      <3>5. e[k] = Step(g, e[k - 1], q[k])
        BY Zenon, <1>7, <2>2, <2>4
      <3>6. d[(a + k) - 1] = e[k - 1]
        BY Zenon, <3>1, <3>2
      <3> QED BY Zenon, <2>2, <3>3, <3>4, <3>5, <3>6
    <2> QED BY <2>3, <2>4
  <1>12. d[a + b] = e[b]
    <2>1. b \in 0..b
      BY <1>1
    <2> HIDE DEF Second
    <2>2. Second = {}
      BY Zenon, <1>11
    <2> QED BY Zenon, <2>1, <2>2 DEF Second
  <1>13. Run(g, m, r) = Run(g, h, q)
    BY Zenon, <1>1, <1>3, <1>5, <1>12
  <1> QED BY Zenon, <1>13 DEF r, h

\* A launch by itself.
LEMMA RunOne ==
  ASSUME NEW g, NEW m, NEW a
  PROVE  Run(g, m, <<a>>) = Step(g, m, a)
  <1> DEFINE p == <<a>>
  <1>1. Len(p) = 1 /\ p[1] = a
    OBVIOUS
  <1>2. Len(p) \in Nat
    BY <1>1
  <1> HIDE DEF p
  <1>3. PICK f : Ran(f, g, m, p, Len(p)) /\ Run(g, m, p) = f[Len(p)]
    BY Zenon, <1>2, RunIs
  <1>4. f = [k \in 0..1 |-> IF k = 0 THEN m ELSE Step(g, f[k - 1], p[k])]
    BY Zenon, <1>1, <1>3 DEF Ran
  <1>5. 0 \in 0..1 /\ 1 \in 0..1 /\ 1 # 0 /\ 1 - 1 = 0
    OBVIOUS
  <1>6. f[0] = m
    BY Zenon, <1>4, <1>5
  <1>7. f[1] = Step(g, f[1 - 1], p[1])
    BY Zenon, <1>4, <1>5
  <1>8. Run(g, m, p) = Step(g, m, a)
    BY Zenon, <1>1, <1>3, <1>5, <1>6, <1>7
  <1> QED BY Zenon, <1>8 DEF p

\* The machines between the launches of a program.
GoesThrough(f, g, m, p) ==
  /\ f[0] = m /\ Run(g, m, p) = f[Len(p)]
  /\ \A k \in 1..Len(p) : f[k] = Step(g, f[k - 1], p[k])

\* There are some.
LEMMA RunSteps ==
  ASSUME NEW g, NEW m, NEW p, Len(p) \in Nat
  PROVE  \E f : GoesThrough(f, g, m, p)
  <1>1. PICK f : Ran(f, g, m, p, Len(p)) /\ Run(g, m, p) = f[Len(p)]
    BY Zenon, RunIs
  <1>2. \A k \in 0..Len(p) : f[k] = IF k = 0 THEN m ELSE Step(g, f[k - 1], p[k])
    BY Zenon, <1>1 DEF Ran
  <1>3. 0 \in 0..Len(p) /\ \A k \in 1..Len(p) : k \in 0..Len(p) /\ k # 0
    OBVIOUS
  <1>4. f[0] = m /\ \A k \in 1..Len(p) : f[k] = Step(g, f[k - 1], p[k])
    BY Zenon, <1>2, <1>3
  <1> QED BY Zenon, <1>1, <1>4 DEF GoesThrough

RunsTo(g, m, p, e) == Run(g, m, p) = e

\* Two launches.
LEMMA RunTwo ==
  ASSUME NEW g, NEW m, NEW a, NEW b
  PROVE  RunsTo(g, m, <<a, b>>,
           Step(g, Step(g, m, a), b))
  <1> DEFINE p == <<a, b>>
  <1>1. Len(p) = 2 /\ Len(p) \in Nat
    OBVIOUS
  <1>2. p[1] = a /\ p[2] = b
    OBVIOUS
  <1> HIDE DEF p
  <1>3. PICK q : GoesThrough(q, g, m, p)
    BY Zenon, <1>1, RunSteps
  <1>4. /\ q[1] = Step(g, q[0], a)
        /\ q[2] = Step(g, q[1], b)
    BY <1>1, <1>2, <1>3 DEF GoesThrough
  <1>5. Run(g, m, p) = Step(g, Step(g, m, a), b)
    BY <1>1, <1>3, <1>4 DEF GoesThrough
  <1> QED BY Zenon, <1>5 DEF p, RunsTo

\* Three launches.
LEMMA RunThree ==
  ASSUME NEW g, NEW m, NEW a, NEW b, NEW c
  PROVE  RunsTo(g, m, <<a, b, c>>,
           Step(g, Step(g, Step(g, m, a), b), c))
  <1> DEFINE p == <<a, b, c>>
  <1>1. Len(p) = 3 /\ Len(p) \in Nat
    OBVIOUS
  <1>2. p[1] = a /\ p[2] = b /\ p[3] = c
    OBVIOUS
  <1> HIDE DEF p
  <1>3. PICK q : GoesThrough(q, g, m, p)
    BY Zenon, <1>1, RunSteps
  <1>4. /\ q[1] = Step(g, q[0], a)
        /\ q[2] = Step(g, q[1], b)
        /\ q[3] = Step(g, q[2], c)
    BY <1>1, <1>2, <1>3 DEF GoesThrough
  <1>5. Run(g, m, p) = Step(g, Step(g, Step(g, m, a), b), c)
    BY <1>1, <1>3, <1>4 DEF GoesThrough
  <1> QED BY Zenon, <1>5 DEF p, RunsTo

\* Four launches.
LEMMA RunFour ==
  ASSUME NEW g, NEW m, NEW a, NEW b, NEW c, NEW d
  PROVE  RunsTo(g, m, <<a, b, c, d>>,
           Step(g, Step(g, Step(g, Step(g, m, a), b), c), d))
  <1> DEFINE p == <<a, b, c, d>>
  <1>1. Len(p) = 4 /\ Len(p) \in Nat
    OBVIOUS
  <1>2. p[1] = a /\ p[2] = b /\ p[3] = c /\ p[4] = d
    OBVIOUS
  <1> HIDE DEF p
  <1>3. PICK q : GoesThrough(q, g, m, p)
    BY Zenon, <1>1, RunSteps
  <1>4. /\ q[1] = Step(g, q[0], a)
        /\ q[2] = Step(g, q[1], b)
        /\ q[3] = Step(g, q[2], c)
        /\ q[4] = Step(g, q[3], d)
    BY <1>1, <1>2, <1>3 DEF GoesThrough
  <1>5. Run(g, m, p) = Step(g, Step(g, Step(g, Step(g, m, a), b), c), d)
    BY <1>1, <1>3, <1>4 DEF GoesThrough
  <1> QED BY Zenon, <1>5 DEF p, RunsTo

\* Six launches.
LEMMA RunSix ==
  ASSUME NEW g, NEW m, NEW a, NEW b, NEW c, NEW d, NEW e, NEW f
  PROVE  RunsTo(g, m, <<a, b, c, d, e, f>>,
           Step(g, Step(g, Step(g, Step(g, Step(g, Step(g, m, a), b), c), d), e), f))
  <1> DEFINE p == <<a, b, c, d, e, f>>
  <1>1. Len(p) = 6 /\ Len(p) \in Nat
    OBVIOUS
  <1>2. p[1] = a /\ p[2] = b /\ p[3] = c /\ p[4] = d /\ p[5] = e /\ p[6] = f
    OBVIOUS
  <1> HIDE DEF p
  <1>3. PICK q : GoesThrough(q, g, m, p)
    BY Zenon, <1>1, RunSteps
  <1>4. /\ q[1] = Step(g, q[0], a)
        /\ q[2] = Step(g, q[1], b)
        /\ q[3] = Step(g, q[2], c)
        /\ q[4] = Step(g, q[3], d)
        /\ q[5] = Step(g, q[4], e)
        /\ q[6] = Step(g, q[5], f)
    BY <1>1, <1>2, <1>3 DEF GoesThrough
  <1>5. Run(g, m, p) = Step(g, Step(g, Step(g, Step(g, Step(g, Step(g, m, a), b), c), d), e), f)
    BY <1>1, <1>3, <1>4 DEF GoesThrough
  <1> QED BY Zenon, <1>5 DEF p, RunsTo

\* Eight launches.
LEMMA RunEight ==
  ASSUME NEW g, NEW m, NEW a, NEW b, NEW c, NEW d, NEW e, NEW f, NEW h, NEW i
  PROVE  RunsTo(g, m, <<a, b, c, d, e, f, h, i>>,
           Step(g, Step(g, Step(g, Step(g, Step(g, Step(g, Step(g, Step(g, m, a), b), c), d), e), f), h), i))
  <1> DEFINE p == <<a, b, c, d, e, f, h, i>>
  <1>1. Len(p) = 8 /\ Len(p) \in Nat
    OBVIOUS
  <1>2. p[1] = a /\ p[2] = b /\ p[3] = c /\ p[4] = d /\ p[5] = e /\ p[6] = f /\ p[7] = h /\ p[8] = i
    OBVIOUS
  <1> HIDE DEF p
  <1>3. PICK q : GoesThrough(q, g, m, p)
    BY Zenon, <1>1, RunSteps
  <1>4. /\ q[1] = Step(g, q[0], a)
        /\ q[2] = Step(g, q[1], b)
        /\ q[3] = Step(g, q[2], c)
        /\ q[4] = Step(g, q[3], d)
        /\ q[5] = Step(g, q[4], e)
        /\ q[6] = Step(g, q[5], f)
        /\ q[7] = Step(g, q[6], h)
        /\ q[8] = Step(g, q[7], i)
    BY <1>1, <1>2, <1>3 DEF GoesThrough
  <1>5. Run(g, m, p) = Step(g, Step(g, Step(g, Step(g, Step(g, Step(g, Step(g, Step(g, m, a), b), c), d), e), f), h), i)
    BY <1>1, <1>3, <1>4 DEF GoesThrough
  <1> QED BY Zenon, <1>5 DEF p, RunsTo

\* Nine launches.
LEMMA RunNine ==
  ASSUME NEW g, NEW m, NEW a, NEW b, NEW c, NEW d, NEW e, NEW f, NEW h, NEW i, NEW j
  PROVE  RunsTo(g, m, <<a, b, c, d, e, f, h, i, j>>,
           Step(g, Step(g, Step(g, Step(g, Step(g, Step(g, Step(g, Step(g, Step(g, m, a), b), c), d), e), f), h), i), j))
  <1> DEFINE p == <<a, b, c, d, e, f, h, i, j>>
  <1>1. Len(p) = 9 /\ Len(p) \in Nat
    OBVIOUS
  <1>2. p[1] = a /\ p[2] = b /\ p[3] = c /\ p[4] = d /\ p[5] = e /\ p[6] = f /\ p[7] = h /\ p[8] = i /\ p[9] = j
    OBVIOUS
  <1> HIDE DEF p
  <1>3. PICK q : GoesThrough(q, g, m, p)
    BY Zenon, <1>1, RunSteps
  <1>4. /\ q[1] = Step(g, q[0], a)
        /\ q[2] = Step(g, q[1], b)
        /\ q[3] = Step(g, q[2], c)
        /\ q[4] = Step(g, q[3], d)
        /\ q[5] = Step(g, q[4], e)
        /\ q[6] = Step(g, q[5], f)
        /\ q[7] = Step(g, q[6], h)
        /\ q[8] = Step(g, q[7], i)
        /\ q[9] = Step(g, q[8], j)
    BY <1>1, <1>2, <1>3 DEF GoesThrough
  <1>5. Run(g, m, p) = Step(g, Step(g, Step(g, Step(g, Step(g, Step(g, Step(g, Step(g, Step(g, m, a), b), c), d), e), f), h), i), j)
    BY <1>1, <1>3, <1>4 DEF GoesThrough
  <1> QED BY Zenon, <1>5 DEF p, RunsTo

(***************************************************************************)
(* What one launch leaves in the buffers.                                  *)
(***************************************************************************)

\* Nothing is written but the buffers W, and no pool.
OnlyWrites(m, e, W) ==
  /\ IsMachine(e) /\ e.kv = m.kv
  /\ \A c : c \notin W => \A i : Get(e, c, i) = Get(m, c, i)

\* The rows are in buffer b, and nothing else is written.
Wrote(m, e, b, rows) == OnlyWrites(m, e, {b}) /\ \A i \in DOMAIN rows : Get(e, b, i) = rows[i]

\* Put does that.
LEMMA PutWrites ==
  ASSUME NEW m, IsMachine(m), NEW b, NEW rows
  PROVE  Wrote(m, Put(m, b, rows), b, rows)
  <1> DEFINE old == IF b \in DOMAIN m.mem THEN m.mem[b] ELSE <<>>
             mem == [c \in DOMAIN m.mem \cup {b} |-> IF c = b THEN Over(rows, old) ELSE m.mem[c]]
             e == Put(m, b, rows)
  <1>1. e = [m EXCEPT !.mem = mem]
    BY Zenon DEF Put
  <1> HIDE DEF e, mem
  <1>2. IsMachine(e) /\ e.kv = m.kv /\ e.mem = mem
    BY <1>1 DEF IsMachine
  <1>3. DOMAIN mem = DOMAIN m.mem \cup {b} /\ mem[b] = Over(rows, old)
        /\ \A c \in DOMAIN m.mem : c # b => mem[c] = m.mem[c]
    BY DEF mem
  <1> HIDE DEF old
  <1>4. \A i \in DOMAIN rows : i \in DOMAIN Over(rows, old) /\ Over(rows, old)[i] = rows[i]
    BY DEF Over
  <1>5. \A i \in DOMAIN rows : Get(e, b, i) = rows[i]
    BY <1>2, <1>3, <1>4 DEF Get
  <1>6. ASSUME NEW c, c \notin {b}, NEW i PROVE Get(e, c, i) = Get(m, c, i)
    <2>1. c \in DOMAIN mem <=> c \in DOMAIN m.mem
      BY <1>3, <1>6
    <2>2. c \in DOMAIN m.mem => mem[c] = m.mem[c]
      BY <1>3, <1>6
    <2> QED BY Zenon, <1>2, <2>1, <2>2 DEF Get
  <1>7. Wrote(m, e, b, rows)
    BY Zenon, <1>2, <1>5, <1>6 DEF Wrote, OnlyWrites
  <1> QED BY Zenon, <1>7 DEF e

\* A launch that only notes whether it was sound leaves what Exec leaves.
SameValues(e, f) == IsMachine(f) /\ f.kv = e.kv /\ f.mem = e.mem

\* Exec writes the same values, whether or not the launch was sound.
LEMMA StepIsExec ==
  ASSUME NEW g, NEW m, NEW op, IsMachine(Exec(m, op))
  PROVE  SameValues(Exec(m, op), Step(g, m, op))
  <1> DEFINE e == Exec(m, op)
             f == Step(g, m, op)
  <1>1. f = [e EXCEPT !.sound = @ /\ Sound(g, m, op)]
    BY Zenon DEF Step
  <1> HIDE DEF e, f
  <1>2. IsMachine(e)
    BY Zenon DEF e
  <1>3. SameValues(e, f)
    BY <1>1, <1>2 DEF SameValues, IsMachine
  <1> QED BY Zenon, <1>3 DEF e, f

\* The same values are read alike.
LEMMA SameAreRead ==
  ASSUME NEW e, NEW f, SameValues(e, f), NEW c, NEW i
  PROVE  Get(f, c, i) = Get(e, c, i)
  BY Zenon DEF SameValues, Get

\* A launch that puts rows into a buffer.
LEMMA StepWrites ==
  ASSUME NEW g, NEW m, IsMachine(m), NEW op, NEW b, NEW rows, Exec(m, op) = Put(m, b, rows)
  PROVE  Wrote(m, Step(g, m, op), b, rows)
  <1>1. Wrote(m, Put(m, b, rows), b, rows)
    BY Zenon, PutWrites
  <1>2. IsMachine(Put(m, b, rows))
    BY Zenon, <1>1 DEF Wrote, OnlyWrites
  <1>3. SameValues(Put(m, b, rows), Step(g, m, op))
    BY Zenon, <1>2, StepIsExec
  <1>4. \A c, i : Get(Step(g, m, op), c, i) = Get(Put(m, b, rows), c, i)
    BY Zenon, <1>3, SameAreRead
  <1>5. IsMachine(Step(g, m, op)) /\ Step(g, m, op).kv = m.kv
    BY Zenon, <1>1, <1>3 DEF SameValues, Wrote, OnlyWrites
  <1> QED BY Zenon, <1>1, <1>4, <1>5 DEF Wrote, OnlyWrites

\* What a "rows" launch makes of one, two or three inputs.
Made1(m, e, b, n, a, x) ==
  OnlyWrites(m, e, {b}) /\ \A i \in 1..n : Get(e, b, i) = <<a, Get(m, x, i)>>
Made2(m, e, b, n, a, w, x) ==
  OnlyWrites(m, e, {b}) /\ \A i \in 1..n : Get(e, b, i) = <<a, w, Get(m, x, i)>>
MadeOfTwo(m, e, b, n, a, x, y) ==
  OnlyWrites(m, e, {b}) /\ \A i \in 1..n : Get(e, b, i) = <<a, Get(m, x, i), Get(m, y, i)>>
MadeOfThree(m, e, b, n, a, w, x, y, z) ==
  OnlyWrites(m, e, {b})
  /\ \A i \in 1..n : Get(e, b, i) = <<a, w, Get(m, x, i), Get(m, y, i), Get(m, z, i)>>

\* The term that a row is.
RowTerm(m, does, in, i) == does \o [j \in DOMAIN in |-> Get(m, in[j], i)]
RowsLeft(m, e, n, does, in, out) ==
  OnlyWrites(m, e, {out}) /\ \A i \in 1..n : Get(e, out, i) = RowTerm(m, does, in, i)

\* A "rows" launch leaves it.
LEMMA RowsWrite ==
  ASSUME NEW g, NEW m, IsMachine(m), NEW n, NEW does, NEW in, NEW out, NEW reach
  PROVE  RowsLeft(m, Step(g, m, Rows(n, does, in, out, reach)), n, does, in, out)
  <1> DEFINE op == Rows(n, does, in, out, reach)
             rows == [i \in 1..n |-> RowTerm(m, does, in, i)]
             e == Step(g, m, op)
  <1>1. op.is = "rows" /\ op.n = n /\ op.does = does /\ op.in = in /\ op.out = out
    BY DEF Rows
  <1>2. Exec(m, op) = Put(m, out, rows)
    <2> HIDE DEF op
    <2>1. Exec(m, op) = Put(m, op.out, [i \in 1..op.n |-> op.does \o [j \in DOMAIN op.in |-> Get(m, op.in[j], i)]])
      BY Zenon, <1>1 DEF Exec
    <2> QED BY Zenon, <1>1, <2>1 DEF RowTerm
  <1> HIDE DEF op, rows
  <1>3. Wrote(m, e, out, rows)
    BY Zenon, <1>2, StepWrites
  <1>4. DOMAIN rows = 1..n /\ \A i \in 1..n : rows[i] = RowTerm(m, does, in, i)
    BY Zenon DEF rows
  <1>5. RowsLeft(m, e, n, does, in, out)
    BY Zenon, <1>3, <1>4 DEF Wrote, RowsLeft
  <1> QED BY Zenon, <1>5 DEF op

\* A sequence that begins as x and goes on as y.
LEMMA PartsJoined ==
  ASSUME NEW V, NEW x \in Seq(V), NEW y \in Seq(V), NEW z \in Seq(V), Len(z) = Len(x) + Len(y),
         \A i \in 1..Len(x) : z[i] = x[i], \A i \in 1..Len(y) : z[Len(x) + i] = y[i]
  PROVE  JoinedIs(x, y, z)
  <1> DEFINE w == x \o y
  <1>1. /\ w \in Seq(V)
         /\ Len(w) = Len(x) + Len(y)
         /\ \A i \in 1 .. Len(x) + Len(y) : w[i] = IF i <= Len(x) THEN x[i] ELSE y[i - Len(x)]
    BY ConcatProperties
  <1>2. Len(x) \in Nat /\ Len(y) \in Nat
    OBVIOUS
  <1> HIDE DEF w
  <1>3. ASSUME NEW i \in 1..Len(w) PROVE w[i] = z[i]
    <2>1. CASE i <= Len(x)
      BY <1>1, <1>2, <2>1
    <2>2. CASE i > Len(x)
      <3>1. i - Len(x) \in 1..Len(y) /\ Len(x) + (i - Len(x)) = i
        BY <1>1, <1>2, <2>2
      <3>2. z[Len(x) + (i - Len(x))] = y[i - Len(x)]
        BY Zenon, <3>1
      <3>3. w[i] = y[i - Len(x)]
        BY <1>1, <1>2, <2>2
      <3> QED BY Zenon, <3>1, <3>2, <3>3
    <2> QED BY <1>1, <1>2, <2>1, <2>2
  <1>4. w = z
    BY <1>1, <1>2, <1>3, SeqEqual
  <1> QED BY <1>4 DEF w, JoinedIs

\* One element and two.
LEMMA OneAndTwo ==
  ASSUME NEW a, NEW b, NEW c
  PROVE  JoinedIs(<<a>>, <<b, c>>, <<a, b, c>>)
  <1> DEFINE V == {a, b, c}
             x == <<a>>
             y == <<b, c>>
             z == <<a, b, c>>
  <1>1. /\ x \in Seq(V) /\ y \in Seq(V) /\ z \in Seq(V)
        /\ Len(x) = 1 /\ Len(y) = 2 /\ Len(z) = 3
    OBVIOUS
  <1>2. /\ x[1] = a
        /\ y[1] = b /\ y[2] = c
        /\ z[1] = a /\ z[2] = b /\ z[3] = c
    OBVIOUS
  <1> HIDE DEF x, y, z, V
  <1>3. /\ Len(z) = Len(x) + Len(y) /\ \A i \in 1..Len(x) : z[i] = x[i]
        /\ \A i \in 1..Len(y) : z[Len(x) + i] = y[i]
    BY <1>1, <1>2
  <1>4. JoinedIs(x, y, z)
    BY Zenon, <1>1, <1>3, PartsJoined
  <1> QED BY Zenon, <1>4 DEF x, y, z

\* Two and two.
LEMMA TwoAndTwo ==
  ASSUME NEW a, NEW b, NEW c, NEW d
  PROVE  JoinedIs(<<a, b>>, <<c, d>>, <<a, b, c, d>>)
  <1> DEFINE V == {a, b, c, d}
             x == <<a, b>>
             y == <<c, d>>
             z == <<a, b, c, d>>
  <1>1. /\ x \in Seq(V) /\ y \in Seq(V) /\ z \in Seq(V)
        /\ Len(x) = 2 /\ Len(y) = 2 /\ Len(z) = 4
    OBVIOUS
  <1>2. /\ x[1] = a /\ x[2] = b
        /\ y[1] = c /\ y[2] = d
        /\ z[1] = a /\ z[2] = b /\ z[3] = c /\ z[4] = d
    OBVIOUS
  <1> HIDE DEF x, y, z, V
  <1>3. /\ Len(z) = Len(x) + Len(y) /\ \A i \in 1..Len(x) : z[i] = x[i]
        /\ \A i \in 1..Len(y) : z[Len(x) + i] = y[i]
    BY <1>1, <1>2
  <1>4. JoinedIs(x, y, z)
    BY Zenon, <1>1, <1>3, PartsJoined
  <1> QED BY Zenon, <1>4 DEF x, y, z

\* Two and three.
LEMMA TwoAndThree ==
  ASSUME NEW a, NEW b, NEW c, NEW d, NEW e
  PROVE  JoinedIs(<<a, b>>, <<c, d, e>>, <<a, b, c, d, e>>)
  <1> DEFINE V == {a, b, c, d, e}
             x == <<a, b>>
             y == <<c, d, e>>
             z == <<a, b, c, d, e>>
  <1>1. /\ x \in Seq(V) /\ y \in Seq(V) /\ z \in Seq(V)
        /\ Len(x) = 2 /\ Len(y) = 3 /\ Len(z) = 5
    OBVIOUS
  <1>2. /\ x[1] = a /\ x[2] = b
        /\ y[1] = c /\ y[2] = d /\ y[3] = e
        /\ z[1] = a /\ z[2] = b /\ z[3] = c /\ z[4] = d /\ z[5] = e
    OBVIOUS
  <1> HIDE DEF x, y, z, V
  <1>3. /\ Len(z) = Len(x) + Len(y) /\ \A i \in 1..Len(x) : z[i] = x[i]
        /\ \A i \in 1..Len(y) : z[Len(x) + i] = y[i]
    BY <1>1, <1>2
  <1>4. JoinedIs(x, y, z)
    BY Zenon, <1>1, <1>3, PartsJoined
  <1> QED BY Zenon, <1>4 DEF x, y, z

\* Three and one.
LEMMA ThreeAndOne ==
  ASSUME NEW a, NEW b, NEW c, NEW d
  PROVE  JoinedIs(<<a, b, c>>, <<d>>, <<a, b, c, d>>)
  <1> DEFINE V == {a, b, c, d}
             x == <<a, b, c>>
             y == <<d>>
             z == <<a, b, c, d>>
  <1>1. /\ x \in Seq(V) /\ y \in Seq(V) /\ z \in Seq(V)
        /\ Len(x) = 3 /\ Len(y) = 1 /\ Len(z) = 4
    OBVIOUS
  <1>2. /\ x[1] = a /\ x[2] = b /\ x[3] = c
        /\ y[1] = d
        /\ z[1] = a /\ z[2] = b /\ z[3] = c /\ z[4] = d
    OBVIOUS
  <1> HIDE DEF x, y, z, V
  <1>3. /\ Len(z) = Len(x) + Len(y) /\ \A i \in 1..Len(x) : z[i] = x[i]
        /\ \A i \in 1..Len(y) : z[Len(x) + i] = y[i]
    BY <1>1, <1>2
  <1>4. JoinedIs(x, y, z)
    BY Zenon, <1>1, <1>3, PartsJoined
  <1> QED BY Zenon, <1>4 DEF x, y, z

\* Nothing joined to two.
LEMMA TwoAndNone ==
  ASSUME NEW a, NEW b
  PROVE  <<a, b>> \o <<>> = <<a, b>>
  <1>1. <<a, b>> \in Seq({a, b})
    OBVIOUS
  <1> QED BY <1>1

\* The term of a launch of one input.
LEMMA TermOfOne ==
  ASSUME NEW m, NEW i, NEW a, NEW x
  PROVE  RowTerm(m, <<a>>, <<x>>, i) = <<a, Get(m, x, i)>>
  <1>1. [j \in DOMAIN <<x>> |-> Get(m, <<x>>[j], i)] = <<Get(m, x, i)>>
    OBVIOUS
  <1>2. RowTerm(m, <<a>>, <<x>>, i) = <<a>> \o <<Get(m, x, i)>>
    BY Zenon, <1>1 DEF RowTerm
  <1>3. <<a>> \o <<Get(m, x, i)>> = <<a, Get(m, x, i)>>
    BY Zenon, TwoAreJoined DEF JoinedIs
  <1> QED BY Zenon, <1>2, <1>3

\* One input and a parameter.
LEMMA TermOfOneBy ==
  ASSUME NEW m, NEW i, NEW a, NEW w, NEW x
  PROVE  RowTerm(m, <<a, w>>, <<x>>, i) = <<a, w, Get(m, x, i)>>
  <1>1. [j \in DOMAIN <<x>> |-> Get(m, <<x>>[j], i)] = <<Get(m, x, i)>>
    OBVIOUS
  <1>2. RowTerm(m, <<a, w>>, <<x>>, i) = <<a, w>> \o <<Get(m, x, i)>>
    BY Zenon, <1>1 DEF RowTerm
  <1>3. <<a, w>> \o <<Get(m, x, i)>> = <<a, w, Get(m, x, i)>>
    BY Zenon, ThreeAreJoined DEF JoinedIs
  <1> QED BY Zenon, <1>2, <1>3

\* Two inputs.
LEMMA TermOfTwo ==
  ASSUME NEW m, NEW i, NEW a, NEW x, NEW y
  PROVE  RowTerm(m, <<a>>, <<x, y>>, i) = <<a, Get(m, x, i), Get(m, y, i)>>
  <1>1. [j \in DOMAIN <<x, y>> |-> Get(m, <<x, y>>[j], i)] = <<Get(m, x, i), Get(m, y, i)>>
    OBVIOUS
  <1>2. RowTerm(m, <<a>>, <<x, y>>, i) = <<a>> \o <<Get(m, x, i), Get(m, y, i)>>
    BY Zenon, <1>1 DEF RowTerm
  <1>3. <<a>> \o <<Get(m, x, i), Get(m, y, i)>> = <<a, Get(m, x, i), Get(m, y, i)>>
    BY Zenon, OneAndTwo DEF JoinedIs
  <1> QED BY Zenon, <1>2, <1>3

\* Three inputs and a parameter.
LEMMA TermOfThreeBy ==
  ASSUME NEW m, NEW i, NEW a, NEW w, NEW x, NEW y, NEW z
  PROVE  RowTerm(m, <<a, w>>, <<x, y, z>>, i) = <<a, w, Get(m, x, i), Get(m, y, i), Get(m, z, i)>>
  <1>1. [j \in DOMAIN <<x, y, z>> |-> Get(m, <<x, y, z>>[j], i)] = <<Get(m, x, i), Get(m, y, i), Get(m, z, i)>>
    OBVIOUS
  <1>2. RowTerm(m, <<a, w>>, <<x, y, z>>, i) = <<a, w>> \o <<Get(m, x, i), Get(m, y, i), Get(m, z, i)>>
    BY Zenon, <1>1 DEF RowTerm
  <1>3. <<a, w>> \o <<Get(m, x, i), Get(m, y, i), Get(m, z, i)>> = <<a, w, Get(m, x, i), Get(m, y, i), Get(m, z, i)>>
    BY Zenon, TwoAndThree DEF JoinedIs
  <1> QED BY Zenon, <1>2, <1>3

\* Launches of one input, of one and a parameter, of two, and of three and a parameter.
LEMMA RowsAreMade1 ==
  ASSUME NEW g, NEW m, IsMachine(m), NEW n, NEW out, NEW reach,
         NEW a, NEW x
  PROVE  Made1(m, Step(g, m, Rows(n, <<a>>, <<x>>, out, reach)), out, n, a, x)
  <1>1. RowsLeft(m, Step(g, m, Rows(n, <<a>>, <<x>>, out, reach)), n, <<a>>, <<x>>, out)
    BY Zenon, RowsWrite
  <1> DEFINE e == Step(g, m, Rows(n, <<a>>, <<x>>, out, reach))
  <1>2. \A i : RowTerm(m, <<a>>, <<x>>, i) = <<a, Get(m, x, i)>>
    BY Zenon, TermOfOne
  <1> HIDE DEF e
  <1> QED BY Zenon, <1>1, <1>2 DEF RowsLeft, Made1

\* A launch of one input and a parameter makes the rows that its Exec makes.
LEMMA RowsAreMade2 ==
  ASSUME NEW g, NEW m, IsMachine(m), NEW n, NEW out, NEW reach,
         NEW a, NEW w, NEW x
  PROVE  Made2(m, Step(g, m, Rows(n, <<a, w>>, <<x>>, out, reach)), out, n, a, w, x)
  <1>1. RowsLeft(m, Step(g, m, Rows(n, <<a, w>>, <<x>>, out, reach)), n, <<a, w>>, <<x>>, out)
    BY Zenon, RowsWrite
  <1> DEFINE e == Step(g, m, Rows(n, <<a, w>>, <<x>>, out, reach))
  <1>2. \A i : RowTerm(m, <<a, w>>, <<x>>, i) = <<a, w, Get(m, x, i)>>
    BY Zenon, TermOfOneBy
  <1> HIDE DEF e
  <1> QED BY Zenon, <1>1, <1>2 DEF RowsLeft, Made2

\* A launch of two inputs makes the rows that its Exec makes.
LEMMA RowsAreMadeOfTwo ==
  ASSUME NEW g, NEW m, IsMachine(m), NEW n, NEW out, NEW reach,
         NEW a, NEW x, NEW y
  PROVE  MadeOfTwo(m, Step(g, m, Rows(n, <<a>>, <<x, y>>, out, reach)), out, n, a, x, y)
  <1>1. RowsLeft(m, Step(g, m, Rows(n, <<a>>, <<x, y>>, out, reach)), n, <<a>>, <<x, y>>, out)
    BY Zenon, RowsWrite
  <1> DEFINE e == Step(g, m, Rows(n, <<a>>, <<x, y>>, out, reach))
  <1>2. \A i : RowTerm(m, <<a>>, <<x, y>>, i) = <<a, Get(m, x, i), Get(m, y, i)>>
    BY Zenon, TermOfTwo
  <1> HIDE DEF e
  <1> QED BY Zenon, <1>1, <1>2 DEF RowsLeft, MadeOfTwo

\* A launch of three inputs and a parameter makes the rows that its Exec makes.
LEMMA RowsAreMadeOfThree ==
  ASSUME NEW g, NEW m, IsMachine(m), NEW n, NEW out, NEW reach,
         NEW a, NEW w, NEW x, NEW y, NEW z
  PROVE  MadeOfThree(m, Step(g, m, Rows(n, <<a, w>>, <<x, y, z>>, out, reach)), out, n, a, w, x, y, z)
  <1>1. RowsLeft(m, Step(g, m, Rows(n, <<a, w>>, <<x, y, z>>, out, reach)), n, <<a, w>>, <<x, y, z>>, out)
    BY Zenon, RowsWrite
  <1> DEFINE e == Step(g, m, Rows(n, <<a, w>>, <<x, y, z>>, out, reach))
  <1>2. \A i : RowTerm(m, <<a, w>>, <<x, y, z>>, i) = <<a, w, Get(m, x, i), Get(m, y, i), Get(m, z, i)>>
    BY Zenon, TermOfThreeBy
  <1> HIDE DEF e
  <1> QED BY Zenon, <1>1, <1>2 DEF RowsLeft, MadeOfThree

\* Writes one after another.
LEMMA WritesInTurn ==
  ASSUME NEW m, NEW e, NEW f, NEW V, NEW W, NEW U, OnlyWrites(m, e, V), OnlyWrites(e, f, W),
         V \cup W \subseteq U
  PROVE  OnlyWrites(m, f, U)
  <1>1. \A c : c \notin U => c \notin V /\ c \notin W
    OBVIOUS
  <1> QED BY Zenon, <1>1 DEF OnlyWrites

\* The projection to the heads.
QkvDone(m, e, g, l, n) ==
  /\ OnlyWrites(m, e, {ScA, Q8(g.hidden), Y(QkvRows(g, l))})
  /\ \A i \in 1..n : Get(e, Y(QkvRows(g, l)), i)
       = <<"gemv", <<"qkv", l>>, <<"q8", Normed(<<"attn_norm", l>>, Get(m, XRes, i))>>>>

\* Its three launches do it.
LEMMA QkvGemvDoes ==
  ASSUME NEW g, NEW m, IsMachine(m), NEW l, NEW n
  PROVE  QkvDone(m, Run(g, m, QkvGemv(g, l, n)), g, l, n)
  <1> DEFINE q == Q8(g.hidden)
             y == Y(QkvRows(g, l))
             a == RmsnormRows(XRes, <<"attn_norm", l>>, ScA, g.hidden, n)
             b == QuantizeQ8(ScA, q, g.hidden, n)
             c == GemvQ4rIdx(<<"qkv", l>>, q, y, QkvRows(g, l), g.hidden, n)
             m1 == Step(g, m, a)
             m2 == Step(g, m1, b)
             m3 == Step(g, m2, c)
  <1>1. Run(g, m, QkvGemv(g, l, n)) = m3
    <2>1. QkvGemv(g, l, n) = <<a, b, c>>
      BY Zenon DEF QkvGemv
    <2> HIDE DEF a, b, c
    <2>2. RunsTo(g, m, <<a, b, c>>, m3)
      BY Zenon, RunThree
    <2> QED BY Zenon, <2>1, <2>2 DEF RunsTo
  <1>2. Made2(m, m1, ScA, n, "rmsnorm", <<"attn_norm", l>>, XRes)
    BY Zenon, RowsAreMade2 DEF RmsnormRows
  <1>3. IsMachine(m1)
    BY Zenon, <1>2 DEF Made2, OnlyWrites
  <1> HIDE DEF m1
  <1>4. Made1(m1, m2, q, n, "q8", ScA)
    BY Zenon, <1>3, RowsAreMade1 DEF QuantizeQ8
  <1>5. IsMachine(m2)
    BY Zenon, <1>4 DEF Made1, OnlyWrites
  <1> HIDE DEF m2
  <1>6. Made2(m2, m3, y, n, "gemv", <<"qkv", l>>, q)
    BY Zenon, <1>5, RowsAreMade2 DEF GemvQ4rIdx
  <1> HIDE DEF m3, q, y
  <1>7. OnlyWrites(m, m2, {ScA, q})
    BY <1>2, <1>4, WritesInTurn DEF Made1, Made2
  <1>8. OnlyWrites(m, m3, {ScA, q, y})
    BY <1>6, <1>7, WritesInTurn DEF Made2
  <1>9. ASSUME NEW i \in 1..n
        PROVE  Get(m3, y, i) = <<"gemv", <<"qkv", l>>, <<"q8", Normed(<<"attn_norm", l>>, Get(m, XRes, i))>>>>
    BY Zenon, <1>2, <1>4, <1>6 DEF Made1, Made2, Normed
  <1> QED BY Zenon, <1>1, <1>8, <1>9 DEF QkvDone, q, y
\* The projection of the attention, added to the residual stream.
OProjDone(m, e, g, l, n) ==
  /\ OnlyWrites(m, e, {Q8(QRows(g, l)), Y(g.hidden), ScA, XRes})
  /\ \A i \in 1..n :
       Get(e, XRes, i) = <<"add", Get(m, XRes, i), Normed(<<"post_attn", l>>, <<"gemv", <<"o", l>>, <<"q8", Get(m, ScO, i)>>>>)>>

\* Its four launches do it.
LEMMA OProjDoes ==
  ASSUME NEW g, NEW m, IsMachine(m), NEW l, NEW n
  PROVE  OProjDone(m, Run(g, m, OProj(g, l, n)), g, l, n)
  <1> DEFINE q == Q8(QRows(g, l))
             y == Y(g.hidden)
             a == QuantizeQ8(ScO, q, QRows(g, l), n)
             b == GemvQ4rIdx(<<"o", l>>, q, y, g.hidden, QRows(g, l), n)
             c == RmsnormRows(y, <<"post_attn", l>>, ScA, g.hidden, n)
             d == AddRows(XRes, ScA, g.hidden, n)
             m1 == Step(g, m, a)
             m2 == Step(g, m1, b)
             m3 == Step(g, m2, c)
             m4 == Step(g, m3, d)
  <1>1. Run(g, m, OProj(g, l, n)) = m4
    <2>1. OProj(g, l, n) = <<a, b, c, d>>
      BY Zenon DEF OProj
    <2> HIDE DEF a, b, c, d
    <2>2. RunsTo(g, m, <<a, b, c, d>>, m4)
      BY Zenon, RunFour
    <2> QED BY Zenon, <2>1, <2>2 DEF RunsTo
  <1>2. Made1(m, m1, q, n, "q8", ScO)
    BY Zenon, RowsAreMade1 DEF QuantizeQ8
  <1>3. IsMachine(m1)
    BY Zenon, <1>2 DEF Made1, OnlyWrites
  <1> HIDE DEF m1
  <1>4. Made2(m1, m2, y, n, "gemv", <<"o", l>>, q)
    BY Zenon, <1>3, RowsAreMade2 DEF GemvQ4rIdx
  <1>5. IsMachine(m2)
    BY Zenon, <1>4 DEF Made2, OnlyWrites
  <1> HIDE DEF m2
  <1>6. Made2(m2, m3, ScA, n, "rmsnorm", <<"post_attn", l>>, y)
    BY Zenon, <1>5, RowsAreMade2 DEF RmsnormRows
  <1>7. IsMachine(m3)
    BY Zenon, <1>6 DEF Made2, OnlyWrites
  <1> HIDE DEF m3
  <1>8. MadeOfTwo(m3, m4, XRes, n, "add", XRes, ScA)
    BY Zenon, <1>7, RowsAreMadeOfTwo DEF AddRows
  <1> HIDE DEF m4, q, y
  <1>9. OnlyWrites(m, m2, {q, y})
    BY <1>2, <1>4, WritesInTurn DEF Made1, Made2
  <1>10. OnlyWrites(m, m3, {q, y, ScA})
    BY <1>9, <1>6, WritesInTurn DEF Made2
  <1>11. OnlyWrites(m, m4, {q, y, ScA, XRes})
    BY <1>10, <1>8, WritesInTurn DEF MadeOfTwo
  <1>12. \A i : Get(m3, XRes, i) = Get(m, XRes, i)
    <2>1. XRes \notin {q, y, ScA}
      BY DEF XRes, q, Q8, y, Y, ScA
    <2> QED BY Zenon, <1>10, <2>1 DEF OnlyWrites
  <1>13. ASSUME NEW i \in 1..n
        PROVE  Get(m4, XRes, i) = <<"add", Get(m, XRes, i), Normed(<<"post_attn", l>>, <<"gemv", <<"o", l>>, <<"q8", Get(m, ScO, i)>>>>)>>
    BY Zenon, <1>2, <1>4, <1>6, <1>8, <1>12 DEF Made1, Made2, MadeOfTwo, Normed
  <1> QED BY Zenon, <1>1, <1>11, <1>13 DEF OProjDone, q, y

\* The norms before the dense and the routed experts.
PreNormsDone(m, e, g, l, n) ==
  /\ OnlyWrites(m, e, {ScPf, ScRi})
  /\ \A i \in 1..n :
       /\ Get(e, ScPf, i) = Normed(<<"ffn_norm", l>>, Get(m, XRes, i))
       /\ Get(e, ScRi, i) = Normed(<<"pre_ffw2", l>>, Get(m, XRes, i))

\* Its two launches do it.
LEMMA PreNormsDo ==
  ASSUME NEW g, NEW m, IsMachine(m), NEW l, NEW n
  PROVE  PreNormsDone(m, Run(g, m, PreNorms(g, l, n)), g, l, n)
  <1> DEFINE a == RmsnormRows(XRes, <<"ffn_norm", l>>, ScPf, g.hidden, n)
             b == RmsnormRows(XRes, <<"pre_ffw2", l>>, ScRi, g.hidden, n)
             m1 == Step(g, m, a)
             m2 == Step(g, m1, b)
  <1>1. Run(g, m, PreNorms(g, l, n)) = m2
    <2>1. PreNorms(g, l, n) = <<a, b>>
      BY Zenon DEF PreNorms
    <2> HIDE DEF a, b
    <2>2. RunsTo(g, m, <<a, b>>, m2)
      BY Zenon, RunTwo
    <2> QED BY Zenon, <2>1, <2>2 DEF RunsTo
  <1>2. Made2(m, m1, ScPf, n, "rmsnorm", <<"ffn_norm", l>>, XRes)
    BY Zenon, RowsAreMade2 DEF RmsnormRows
  <1>3. IsMachine(m1)
    BY Zenon, <1>2 DEF Made2, OnlyWrites
  <1> HIDE DEF m1
  <1>4. Made2(m1, m2, ScRi, n, "rmsnorm", <<"pre_ffw2", l>>, XRes)
    BY Zenon, <1>3, RowsAreMade2 DEF RmsnormRows
  <1> HIDE DEF m2
  <1>5. OnlyWrites(m, m2, {ScPf, ScRi})
    BY <1>2, <1>4, WritesInTurn DEF Made2
  <1>6. \A i : Get(m1, XRes, i) = Get(m, XRes, i)
    <2>1. XRes \notin {ScPf}
      BY DEF XRes, ScPf
    <2> QED BY Zenon, <1>2, <2>1 DEF OnlyWrites, Made2
  <1>7. \A i : Get(m2, ScPf, i) = Get(m1, ScPf, i)
    <2>1. ScPf \notin {ScRi}
      BY DEF ScPf, ScRi
    <2> QED BY Zenon, <1>4, <2>1 DEF OnlyWrites, Made2
  <1>8. ASSUME NEW i \in 1..n
        PROVE  Get(m2, ScPf, i) = Normed(<<"ffn_norm", l>>, Get(m, XRes, i))
    BY Zenon, <1>2, <1>4, <1>6, <1>7 DEF Made2, Normed
  <1>9. ASSUME NEW i \in 1..n
        PROVE  Get(m2, ScRi, i) = Normed(<<"pre_ffw2", l>>, Get(m, XRes, i))
    BY Zenon, <1>2, <1>4, <1>6, <1>7 DEF Made2, Normed
  <1> QED BY Zenon, <1>1, <1>5, <1>8, <1>9 DEF PreNormsDone

\* The dense experts and the router.
MlpDone(m, e, g, l, n) ==
  /\ OnlyWrites(m, e, {Q8Preff, Y(2 * g.ffn), Q8(g.ffn), Y(g.hidden), ScA, RouterLogits})
  /\ \A i \in 1..n :
       /\ Get(e, Y(g.hidden), i) = <<"gemv", <<"down", l>>, <<"gelu_mul", <<"gemv", <<"gate_up", l>>, <<"q8", Get(m, ScPf, i)>>>>>>>>
       /\ Get(e, RouterLogits, i) = <<"gemv", <<"router_wf", l>>, Normed(<<"none">>, Get(m, XRes, i))>>

\* Its six launches do it.
LEMMA MlpDoes ==
  ASSUME NEW g, NEW m, IsMachine(m), NEW l, NEW n
  PROVE  MlpDone(m, Run(g, m, MlpAndRouter(g, l, n)), g, l, n)
  <1> DEFINE u == Y(2 * g.ffn)
             q == Q8(g.ffn)
             y == Y(g.hidden)
             a == QuantizeQ8(ScPf, Q8Preff, g.hidden, n)
             b == GemvQ4rIdx(<<"gate_up", l>>, Q8Preff, u, 2 * g.ffn, g.hidden, n)
             c == GeluMulQ8(u, q, g.ffn, n)
             d == GemvQ4rIdx(<<"down", l>>, q, y, g.hidden, g.ffn, n)
             e == RmsnormRows(XRes, <<"none">>, ScA, g.hidden, n)
             f == GemvF32Rows(<<"router_wf", l>>, ScA, RouterLogits, g.hidden, g.experts, n)
             m1 == Step(g, m, a)
             m2 == Step(g, m1, b)
             m3 == Step(g, m2, c)
             m4 == Step(g, m3, d)
             m5 == Step(g, m4, e)
             m6 == Step(g, m5, f)
  <1>1. Run(g, m, MlpAndRouter(g, l, n)) = m6
    <2>1. MlpAndRouter(g, l, n) = <<a, b, c, d, e, f>>
      BY Zenon DEF MlpAndRouter
    <2> HIDE DEF a, b, c, d, e, f
    <2>2. RunsTo(g, m, <<a, b, c, d, e, f>>, m6)
      BY Zenon, RunSix
    <2> QED BY Zenon, <2>1, <2>2 DEF RunsTo
  <1>2. Made1(m, m1, Q8Preff, n, "q8", ScPf)
    BY Zenon, RowsAreMade1 DEF QuantizeQ8
  <1>3. IsMachine(m1)
    BY Zenon, <1>2 DEF Made1, OnlyWrites
  <1> HIDE DEF m1
  <1>4. Made2(m1, m2, u, n, "gemv", <<"gate_up", l>>, Q8Preff)
    BY Zenon, <1>3, RowsAreMade2 DEF GemvQ4rIdx
  <1>5. IsMachine(m2)
    BY Zenon, <1>4 DEF Made2, OnlyWrites
  <1> HIDE DEF m2
  <1>6. Made1(m2, m3, q, n, "gelu_mul", u)
    BY Zenon, <1>5, RowsAreMade1 DEF GeluMulQ8
  <1>7. IsMachine(m3)
    BY Zenon, <1>6 DEF Made1, OnlyWrites
  <1> HIDE DEF m3
  <1>8. Made2(m3, m4, y, n, "gemv", <<"down", l>>, q)
    BY Zenon, <1>7, RowsAreMade2 DEF GemvQ4rIdx
  <1>9. IsMachine(m4)
    BY Zenon, <1>8 DEF Made2, OnlyWrites
  <1> HIDE DEF m4
  <1>10. Made2(m4, m5, ScA, n, "rmsnorm", <<"none">>, XRes)
    BY Zenon, <1>9, RowsAreMade2 DEF RmsnormRows
  <1>11. IsMachine(m5)
    BY Zenon, <1>10 DEF Made2, OnlyWrites
  <1> HIDE DEF m5
  <1>12. Made2(m5, m6, RouterLogits, n, "gemv", <<"router_wf", l>>, ScA)
    BY Zenon, <1>11, RowsAreMade2 DEF GemvF32Rows
  <1> HIDE DEF m6, u, q, y
  <1>13. OnlyWrites(m, m2, {Q8Preff, u})
    BY <1>2, <1>4, WritesInTurn DEF Made1, Made2
  <1>14. OnlyWrites(m, m3, {Q8Preff, u, q})
    BY <1>13, <1>6, WritesInTurn DEF Made1
  <1>15. OnlyWrites(m, m4, {Q8Preff, u, q, y})
    BY <1>14, <1>8, WritesInTurn DEF Made2
  <1>16. OnlyWrites(m, m5, {Q8Preff, u, q, y, ScA})
    BY <1>15, <1>10, WritesInTurn DEF Made2
  <1>17. OnlyWrites(m, m6, {Q8Preff, u, q, y, ScA, RouterLogits})
    BY <1>16, <1>12, WritesInTurn DEF Made2
  <1>18. \A i : Get(m4, XRes, i) = Get(m, XRes, i)
    <2>1. XRes # Q8Preff /\ XRes # u
      BY SMTT(30) DEF XRes, Q8Preff, u, Y
    <2>2. XRes # q /\ XRes # y
      BY SMTT(30) DEF XRes, q, Q8, y, Y
    <2>3. XRes \notin {Q8Preff, u, q, y}
      BY Zenon, <2>1, <2>2
    <2> QED BY ZenonT(30), <1>15, <2>3 DEF OnlyWrites
  <1>19. \A i : Get(m6, y, i) = Get(m4, y, i)
    <2>1. y \notin {ScA} /\ y \notin {RouterLogits}
      BY DEF y, Y, ScA, RouterLogits
    <2>2. \A i : Get(m5, y, i) = Get(m4, y, i)
      BY Zenon, <1>10, <2>1 DEF OnlyWrites, Made2
    <2>3. \A i : Get(m6, y, i) = Get(m5, y, i)
      BY Zenon, <1>12, <2>1 DEF OnlyWrites, Made2
    <2> QED BY Zenon, <2>2, <2>3
  <1>20. ASSUME NEW i \in 1..n
        PROVE  Get(m6, y, i) =
                 <<"gemv", <<"down", l>>,
                   <<"gelu_mul", <<"gemv", <<"gate_up", l>>, <<"q8", Get(m, ScPf, i)>>>>>>>>
    <2>1. Get(m1, Q8Preff, i) = <<"q8", Get(m, ScPf, i)>>
      BY Zenon, <1>2 DEF Made1
    <2>2. Get(m2, u, i) = <<"gemv", <<"gate_up", l>>, Get(m1, Q8Preff, i)>>
      BY Zenon, <1>4 DEF Made2
    <2>3. Get(m3, q, i) = <<"gelu_mul", Get(m2, u, i)>>
      BY Zenon, <1>6 DEF Made1
    <2>4. Get(m4, y, i) = <<"gemv", <<"down", l>>, Get(m3, q, i)>>
      BY Zenon, <1>8 DEF Made2
    <2> QED BY Zenon, <1>19, <2>1, <2>2, <2>3, <2>4
  <1>21. ASSUME NEW i \in 1..n
        PROVE  Get(m6, RouterLogits, i) =
                 <<"gemv", <<"router_wf", l>>, Normed(<<"none">>, Get(m, XRes, i))>>
    <2>1. Get(m5, ScA, i) = <<"rmsnorm", <<"none">>, Get(m4, XRes, i)>>
      BY Zenon, <1>10 DEF Made2
    <2>2. Get(m6, RouterLogits, i) = <<"gemv", <<"router_wf", l>>, Get(m5, ScA, i)>>
      BY Zenon, <1>12 DEF Made2
    <2> QED BY Zenon, <1>18, <2>1, <2>2 DEF Normed
  <1> QED BY Zenon, <1>1, <1>17, <1>20, <1>21 DEF MlpDone, u, q, y

\* The head.
LmHeadDone(m, e, n) ==
  /\ OnlyWrites(m, e, {ScA, Q8Preff, LogitsDev})
  /\ \A i \in 1..n :
       Get(e, LogitsDev, i) = <<"gemv", <<"lm_head">>, <<"q8", Normed(<<"final_norm">>, Get(m, XRes, i))>>>>

\* Its three launches do it.
LEMMA LmHeadDoes ==
  ASSUME NEW g, NEW m, IsMachine(m), NEW n
  PROVE  LmHeadDone(m, Run(g, m, LmHead(g, n)), n)
  <1> DEFINE a == RmsnormRows(XRes, <<"final_norm">>, ScA, g.hidden, n)
             b == QuantizeQ8(ScA, Q8Preff, g.hidden, n)
             c == GemvQ4rIdx(<<"lm_head">>, Q8Preff, LogitsDev, g.vocab, g.hidden, n)
             m1 == Step(g, m, a)
             m2 == Step(g, m1, b)
             m3 == Step(g, m2, c)
  <1>1. Run(g, m, LmHead(g, n)) = m3
    <2>1. LmHead(g, n) = <<a, b, c>>
      BY Zenon DEF LmHead
    <2> HIDE DEF a, b, c
    <2>2. RunsTo(g, m, <<a, b, c>>, m3)
      BY Zenon, RunThree
    <2> QED BY Zenon, <2>1, <2>2 DEF RunsTo
  <1>2. Made2(m, m1, ScA, n, "rmsnorm", <<"final_norm">>, XRes)
    BY Zenon, RowsAreMade2 DEF RmsnormRows
  <1>3. IsMachine(m1)
    BY Zenon, <1>2 DEF Made2, OnlyWrites
  <1> HIDE DEF m1
  <1>4. Made1(m1, m2, Q8Preff, n, "q8", ScA)
    BY Zenon, <1>3, RowsAreMade1 DEF QuantizeQ8
  <1>5. IsMachine(m2)
    BY Zenon, <1>4 DEF Made1, OnlyWrites
  <1> HIDE DEF m2
  <1>6. Made2(m2, m3, LogitsDev, n, "gemv", <<"lm_head">>, Q8Preff)
    BY Zenon, <1>5, RowsAreMade2 DEF GemvQ4rIdx
  <1> HIDE DEF m3
  <1>7. OnlyWrites(m, m2, {ScA, Q8Preff})
    BY <1>2, <1>4, WritesInTurn DEF Made1, Made2
  <1>8. OnlyWrites(m, m3, {ScA, Q8Preff, LogitsDev})
    BY <1>7, <1>6, WritesInTurn DEF Made2
  <1>9. ASSUME NEW i \in 1..n
        PROVE  Get(m3, LogitsDev, i) = <<"gemv", <<"lm_head">>, <<"q8", Normed(<<"final_norm">>, Get(m, XRes, i))>>>>
    BY Zenon, <1>2, <1>4, <1>6 DEF Made1, Made2, Normed
  <1> QED BY Zenon, <1>1, <1>8, <1>9 DEF LmHeadDone

(***************************************************************************)
(* Pairs of a row and one of its experts, row by row.                      *)
(***************************************************************************)

PairOf(t, i, k) == (i - 1) * t + k
RowOf(t, p) == (p - 1) \div t + 1
RankOf(t, p) == ((p - 1) % t) + 1

\* An earlier row ends where the next begins, or before.
LEMMA AWholeRow ==
  ASSUME NEW a \in Nat, NEW b \in Nat, NEW t \in Nat, a < b
  PROVE  a * t + t <= b * t
  <1>1. (b - a - 1) * t >= 0
    OBVIOUS
  <1>2. (b - a - 1) * t = b * t - a * t - t
    OBVIOUS
  <1>3. a * t \in Int /\ b * t \in Int
    OBVIOUS
  <1> QED BY <1>1, <1>2, <1>3

\* A pair is of one row and of one rank.
LEMMA PairsAre ==
  ASSUME NEW t \in Nat \ {0}, NEW n \in Nat, NEW p \in 1..(n * t)
  PROVE  /\ RowOf(t, p) \in 1..n /\ RankOf(t, p) \in 1..t
         /\ p = PairOf(t, RowOf(t, p), RankOf(t, p))
  <1> DEFINE d == (p - 1) \div t
             r == (p - 1) % t
  <1>1. /\ d \in Nat /\ r \in 0..(t - 1) /\ p - 1 = t * d + r
    OBVIOUS
  <1>2. d < n
    <2>1. CASE n <= d
      <3>1. n * t <= d * t
        BY <1>1, <2>1
      <3>2. t * d = d * t /\ n * t \in Nat
        BY <1>1
      <3> QED BY <1>1, <3>1, <3>2
    <2> QED BY <1>1, <2>1
  <1>3. t * d = d * t /\ d * t \in Nat
    BY <1>1
  <1> HIDE DEF d, r
  <1>4. d + 1 \in 1..n /\ r + 1 \in 1..t /\ p = ((d + 1) - 1) * t + (r + 1)
    BY <1>1, <1>2, <1>3
  <1> QED BY <1>4 DEF RowOf, RankOf, PairOf, d, r

\* The pair of a row and a rank.
IsThePair(t, n, i, k) ==
  /\ PairOf(t, i, k) \in 1..(n * t)
  /\ RowOf(t, PairOf(t, i, k)) = i /\ RankOf(t, PairOf(t, i, k)) = k

\* It is of that row and that rank.
LEMMA PairOfRow ==
  ASSUME NEW t \in Nat \ {0}, NEW n \in Nat, NEW i \in 1..n, NEW k \in 1..t
  PROVE  IsThePair(t, n, i, k)
  <1> DEFINE p == PairOf(t, i, k)
             b == (i - 1) * t
  <1>1. b \in Nat /\ b + t <= n * t /\ n * t \in Nat
    <2>1. i - 1 \in Nat /\ i - 1 < n
      OBVIOUS
    <2>2. (i - 1) * t + t <= n * t
      BY <2>1, AWholeRow
    <2> QED BY <2>1, <2>2
  <1>2. p = b + k
    BY DEF PairOf
  <1>3. p \in 1..(n * t)
    <2> HIDE DEF b, p
    <2> QED BY <1>1, <1>2
  <1> DEFINE i2 == RowOf(t, p)
             k2 == RankOf(t, p)
  <1>4. i2 \in 1..n /\ k2 \in 1..t /\ p = PairOf(t, i2, k2)
    BY <1>3, PairsAre
  <1> DEFINE c == (i2 - 1) * t
  <1> HIDE DEF i2, k2, p
  <1>5. c \in Nat /\ p = c + k2
    BY <1>4 DEF PairOf
  <1>6. i - 1 < i2 - 1 => b + t <= c
    BY <1>4, AWholeRow
  <1>7. i2 - 1 < i - 1 => c + t <= b
    BY <1>4, AWholeRow
  <1>8. i2 = i => c = b
    OBVIOUS
  <1> HIDE DEF b, c
  <1>9. i2 = i /\ k2 = k
    BY <1>1, <1>2, <1>4, <1>5, <1>6, <1>7, <1>8
  <1> QED BY <1>3, <1>9 DEF IsThePair, p, i2, k2

\* The pairs of a row are one after another.
LEMMA PairsOfRow ==
  ASSUME NEW t \in Nat \ {0}, NEW n \in Nat, NEW i \in 1..n, NEW p \in 1..(n * t)
  PROVE  RowOf(t, p) = i <=> (i - 1) * t < p /\ p <= (i - 1) * t + t
  <1> DEFINE b == (i - 1) * t
  <1>1. b \in Nat
    OBVIOUS
  <1>2. ASSUME RowOf(t, p) = i PROVE b < p /\ p <= b + t
    <2>1. RankOf(t, p) \in 1..t /\ p = PairOf(t, i, RankOf(t, p))
      BY <1>2, PairsAre
    <2>2. p = b + RankOf(t, p)
      BY <2>1 DEF PairOf
    <2> HIDE DEF b
    <2> QED BY <1>1, <2>1, <2>2
  <1>3. ASSUME b < p, p <= b + t PROVE RowOf(t, p) = i
    <2> DEFINE k == p - b
    <2>1. k \in 1..t /\ p = b + k
      <3> HIDE DEF b
      <3> QED BY <1>1, <1>3
    <2>2. p = PairOf(t, i, k)
      BY <2>1 DEF PairOf
    <2> HIDE DEF k
    <2>3. IsThePair(t, n, i, k)
      BY Zenon, <2>1, PairOfRow
    <2> QED BY <2>2, <2>3 DEF IsThePair
  <1> QED BY <1>2, <1>3

(***************************************************************************)
(* The pairs of a row, in order.                                           *)
(***************************************************************************)

\* f has the first n of the sequences joined, for each n (FlattenSeq).
Joins(f, ss, n) == f = [i \in 1..n |-> IF i = 1 THEN ss[i] ELSE f[i - 1] \o ss[i]]

\* There is one such f, and FlattenSeq is the last of it.
LEMMA FlattenGiven ==
  ASSUME NEW ss, Len(ss) \in Nat \ {0}, NEW f, Joins(f, ss, Len(ss))
  PROVE  FlattenSeq(ss) = f[Len(ss)]
  <1> DEFINE n == Len(ss)
             g == CHOOSE g : g = [i \in 1..n |-> IF i = 1 THEN ss[i] ELSE g[i - 1] \o ss[i]]
             Bad == {i \in 1..n : f[i] # g[i]}
  <1>1. Joins(g, ss, n)
    BY Zenon DEF Joins
  <1>2. FlattenSeq(ss) = g[n]
    BY DEF FlattenSeq
  <1> HIDE DEF g
  <1>3. ASSUME Bad # {} PROVE FALSE
    <2>0. Bad \subseteq Nat
      OBVIOUS
    <2>1. PICK i \in Bad : \A k \in Bad : i <= k
      BY Zenon, <1>3, <2>0, LeastNumber
    <2>2. i \in 1..n /\ f[i] # g[i]
      BY <2>1
    <2>3. /\ f[i] = IF i = 1 THEN ss[i] ELSE f[i - 1] \o ss[i]
          /\ g[i] = IF i = 1 THEN ss[i] ELSE g[i - 1] \o ss[i]
      BY Zenon, <1>1, <2>2 DEF Joins
    <2>4. i # 1
      BY Zenon, <2>2, <2>3
    <2>5. i - 1 \in 1..n /\ ~(i <= i - 1)
      BY <2>2, <2>4
    <2>6. f[i - 1] = g[i - 1]
      BY <2>1, <2>5
    <2> QED BY Zenon, <2>2, <2>3, <2>6
  <1>4. n \in 1..n
    OBVIOUS
  <1> QED BY <1>2, <1>3, <1>4

\* c numbers after b.
Counted(b, c) == [e \in 1..c |-> b + e]
CountsOn(b, c) == Counted(b, c) \o <<(b + c) + 1>> = Counted(b, c + 1)

\* And one more.
LEMMA CountedMore ==
  ASSUME NEW b \in Nat, NEW c \in Nat
  PROVE  /\ Counted(b, c) \in Seq(Nat) /\ Len(Counted(b, c)) = c
         /\ Counted(b, c) \o <<>> = Counted(b, c)
         /\ CountsOn(b, c)
  <1> DEFINE x == Counted(b, c)
             y == <<(b + c) + 1>>
             z == Counted(b, c + 1)
  <1>1. x \in Seq(Nat) /\ z \in Seq(Nat) /\ Len(x) = c /\ Len(z) = c + 1
    BY DEF Counted
  <1>2. y \in Seq(Nat) /\ Len(y) = 1 /\ y[1] = (b + c) + 1
    OBVIOUS
  <1>3. (\A i \in 1..c : x[i] = z[i]) /\ z[c + 1] = b + (c + 1)
    BY DEF Counted
  <1> HIDE DEF x, y, z
  <1>4. Len(z) = Len(x) + Len(y) /\ (\A i \in 1..Len(x) : z[i] = x[i]) /\ \A i \in 1..Len(y) : z[Len(x) + i] = y[i]
    BY <1>1, <1>2, <1>3
  <1>5. JoinedIs(x, y, z)
    BY Zenon, <1>1, <1>2, <1>4, PartsJoined
  <1>6. x \o <<>> = x
    BY <1>1
  <1> QED BY Zenon, <1>1, <1>5, <1>6 DEF x, y, z, JoinedIs, CountsOn

\* The pairs that the reduction adds up for row i.
MineOf(m, pairs, i) == FlattenSeq([p \in 1..pairs |-> IF Get(m, PairSeq, p) = i THEN <<p>> ELSE <<>>])

\* Those of the row's experts, in order.
LEMMA MineIs ==
  ASSUME NEW m, NEW t \in Nat \ {0}, NEW n \in Nat, NEW i \in 1..n,
         \A p \in 1..(n * t) : Get(m, PairSeq, p) = RowOf(t, p)
  PROVE  MineOf(m, n * t, i) = Counted((i - 1) * t, t)
  <1> DEFINE b == (i - 1) * t
             N == n * t
             ss == [p \in 1..N |-> IF Get(m, PairSeq, p) = i THEN <<p>> ELSE <<>>]
             Past(k) == IF k <= b THEN 0 ELSE IF k <= b + t THEN k - b ELSE t
             f == [k \in 1..N |-> Counted(b, Past(k))]
  <1>1. b \in Nat /\ N \in Nat \ {0} /\ b + t <= N
    <2>1. i - 1 \in Nat /\ i - 1 < n
      OBVIOUS
    <2>2. b + t <= N /\ b \in Nat /\ N \in Nat
      BY <2>1, AWholeRow
    <2> HIDE DEF b, N
    <2> QED BY <2>2
  <1>2. Len(ss) = N /\ \A p \in 1..N : ss[p] = IF Get(m, PairSeq, p) = i THEN <<p>> ELSE <<>>
    <2> HIDE DEF N
    <2> QED BY <1>1
  <1>3. ASSUME NEW p \in 1..N PROVE Get(m, PairSeq, p) = i <=> b < p /\ p <= b + t
    BY <1>3, PairsOfRow
  <1> HIDE DEF b, N, ss
  <1>4. \A k \in 1..N : Past(k) \in Nat /\ f[k] = Counted(b, Past(k))
    BY <1>1
  <1>5. ASSUME NEW k \in 1..N
        PROVE  f[k] = IF k = 1 THEN ss[k] ELSE f[k - 1] \o ss[k]
    <2>1. CASE b < k /\ k <= b + t
      <3>1. ss[k] = <<k>>
        BY Zenon, <1>2, <1>3, <2>1
      <3>2. Past(k) - 1 \in Nat /\ k = (b + (Past(k) - 1)) + 1 /\ (Past(k) - 1) + 1 = Past(k)
        BY <1>1, <2>1
      <3> DEFINE c == Past(k) - 1
      <3>3. CountsOn(b, c) /\ f[k] = Counted(b, c + 1) /\ ss[k] = <<(b + c) + 1>>
        <4>1. c \in Nat
          BY <3>2
        <4>2. CountsOn(b, c)
          BY Zenon, <1>1, <4>1, CountedMore
        <4>3. f[k] = Counted(b, c + 1)
          BY Zenon, <1>4, <3>2
        <4>4. <<(b + c) + 1>> = <<k>>
          BY <3>2
        <4> QED BY Zenon, <3>1, <4>2, <4>3, <4>4
      <3>4. f[k] = Counted(b, c) \o ss[k]
        <4> HIDE DEF c, f
        <4> QED BY Zenon, <3>3 DEF CountsOn
      <3>5. CASE k = 1
        <4>1. c = 0
          BY <1>1, <2>1, <3>5
        <4>2. Counted(b, 0) = <<>>
          BY DEF Counted
        <4>3. <<>> \o <<k>> = <<k>>
          OBVIOUS
        <4> HIDE DEF c, f
        <4> QED BY Zenon, <3>1, <3>4, <3>5, <4>1, <4>2, <4>3
      <3>6. CASE k # 1
        <4>1. k - 1 \in 1..N /\ Past(k - 1) = c
          BY <1>1, <2>1, <3>6
        <4>2. f[k - 1] = Counted(b, c)
          BY Zenon, <1>4, <4>1
        <4> HIDE DEF c, f
        <4> QED BY Zenon, <3>4, <3>6, <4>2
      <3> QED BY <3>5, <3>6
    <2>2. CASE ~(b < k /\ k <= b + t)
      <3>1. ss[k] = <<>>
        BY Zenon, <1>2, <1>3, <2>2
      <3>2. CASE k = 1
        <4>1. Past(k) = 0
          BY <1>1, <2>2, <3>2
        <4>2. Counted(b, 0) = <<>>
          BY DEF Counted
        <4> QED BY Zenon, <1>4, <3>1, <3>2, <4>1, <4>2
      <3>3. CASE k # 1
        <4>1. k - 1 \in 1..N /\ Past(k - 1) = Past(k)
          BY <1>1, <2>2, <3>3
        <4>2. f[k - 1] = Counted(b, Past(k)) /\ f[k] = Counted(b, Past(k)) /\ Past(k) \in Nat
          BY Zenon, <1>4, <4>1
        <4>3. Counted(b, Past(k)) \o <<>> = Counted(b, Past(k))
          BY Zenon, <1>1, <4>2, CountedMore
        <4> HIDE DEF f, Past
        <4> QED BY Zenon, <3>1, <3>3, <4>2, <4>3
      <3> QED BY <3>2, <3>3
    <2> QED BY <2>1, <2>2
  <1>6. Joins(f, ss, N)
    <2>1. DOMAIN f = 1..N /\ f = [k \in 1..N |-> f[k]]
      BY Zenon
    <2> HIDE DEF f
    <2> QED BY Zenon, <1>5, <2>1 DEF Joins
  <1>7. Len(ss) \in Nat \ {0} /\ Joins(f, ss, Len(ss))
    <2> HIDE DEF f
    <2> QED BY Zenon, <1>1, <1>2, <1>6
  <1>8. FlattenSeq(ss) = f[N]
    <2> HIDE DEF f
    <2> QED BY Zenon, <1>2, <1>7, FlattenGiven
  <1>9. N \in 1..N /\ Past(N) = t
    BY <1>1
  <1>10. FlattenSeq(ss) = Counted(b, t)
    BY Zenon, <1>4, <1>8, <1>9
  <1> QED BY Zenon, <1>10 DEF MineOf, ss, N, b

\* What the reduction makes of row i.
Summed(m, base, t, i) ==
  <<"sum", Get(m, RoutedOut, i),
    [j \in 1..t |-> <<Get(m, PairYDown, base + j), Get(m, PairWts, base + j)>>]>>
ReduceDone(m, e, t, n) ==
  OnlyWrites(m, e, {RoutedOut}) /\ \A i \in 1..n : Get(e, RoutedOut, i) = Summed(m, (i - 1) * t, t, i)

\* The sum of a row's experts.
LEMMA ReduceDoes ==
  ASSUME NEW g, NEW m, IsMachine(m), NEW n \in Nat, g.topk \in Nat \ {0},
         \A p \in 1..(n * g.topk) : Get(m, PairSeq, p) = RowOf(g.topk, p)
  PROVE  ReduceDone(m, Step(g, m, ReducePairs(g, n)), g.topk, n)
  <1> DEFINE op == ReducePairs(g, n)
             t == g.topk
             row(i) == LET mine == MineOf(m, n * t, i)
                       IN  <<"sum", Get(m, RoutedOut, i),
                             [j \in DOMAIN mine |-> <<Get(m, PairYDown, mine[j]), Get(m, PairWts, mine[j])>>]>>
             rows == [i \in 1..n |-> row(i)]
             e == Step(g, m, op)
  <1>1. op.is = "reduce" /\ op.n = n /\ op.pairs = n * t
    BY DEF ReducePairs
  <1>2. Exec(m, op) = Put(m, RoutedOut, rows)
    <2> HIDE DEF op
    <2>1. Exec(m, op) =
            Put(m, RoutedOut, [i \in 1..op.n |->
               LET mine == FlattenSeq([p \in 1..op.pairs |-> IF Get(m, PairSeq, p) = i THEN <<p>> ELSE <<>>])
               IN  <<"sum", Get(m, RoutedOut, i),
                     [j \in DOMAIN mine |-> <<Get(m, PairYDown, mine[j]), Get(m, PairWts, mine[j])>>]>>])
      BY Zenon, <1>1 DEF Exec
    <2> QED BY Zenon, <1>1, <2>1 DEF MineOf
  <1>3. Wrote(m, e, RoutedOut, rows)
    <2> HIDE DEF op, rows
    <2> QED BY Zenon, <1>2, StepWrites
  <1>4. ASSUME NEW i \in 1..n PROVE rows[i] = Summed(m, (i - 1) * t, t, i)
    <2> DEFINE mine == MineOf(m, n * t, i)
    <2>1. mine = Counted((i - 1) * t, t)
      BY MineIs
    <2>2. DOMAIN mine = 1..t /\ \A j \in 1..t : mine[j] = (i - 1) * t + j
      BY <2>1 DEF Counted
    <2> HIDE DEF mine
    <2>3. [j \in DOMAIN mine |-> <<Get(m, PairYDown, mine[j]), Get(m, PairWts, mine[j])>>]
            = [j \in 1..t |-> <<Get(m, PairYDown, (i - 1) * t + j), Get(m, PairWts, (i - 1) * t + j)>>]
      BY Zenon, <2>2
    <2>4. row(i) = Summed(m, (i - 1) * t, t, i)
      BY Zenon, <2>3 DEF mine, Summed
    <2> QED BY <2>4
  <1>5. DOMAIN rows = 1..n
    OBVIOUS
  <1> HIDE DEF rows, op
  <1>6. ReduceDone(m, e, t, n)
    BY Zenon, <1>3, <1>4, <1>5 DEF Wrote, ReduceDone
  <1> QED BY Zenon, <1>6 DEF op

\* What holds of the buffers after Exec holds after the launch.
ReadsAs(m, e, f, W) == OnlyWrites(m, f, W) /\ f.kv = e.kv /\ \A c, i : Get(f, c, i) = Get(e, c, i)

\* Every buffer has the rows after a launch that Exec gives it.
LEMMA StepReads ==
  ASSUME NEW g, NEW m, NEW op, NEW W, OnlyWrites(m, Exec(m, op), W)
  PROVE  ReadsAs(m, Exec(m, op), Step(g, m, op), W)
  <1> DEFINE e == Exec(m, op)
             f == Step(g, m, op)
  <1>1. IsMachine(e) /\ OnlyWrites(m, e, W)
    BY Zenon DEF OnlyWrites
  <1>2. SameValues(e, f)
    BY Zenon, <1>1, StepIsExec
  <1> HIDE DEF e, f
  <1>3. \A c, i : Get(f, c, i) = Get(e, c, i)
    BY Zenon, <1>2, SameAreRead
  <1>4. OnlyWrites(m, f, W)
    BY ZenonT(30), <1>1, <1>2, <1>3 DEF OnlyWrites, SameValues
  <1> QED BY Zenon, <1>2, <1>3, <1>4 DEF e, f, ReadsAs, SameValues

\* The router's choice for each pair.
TopkDone(m, e, t, n) ==
  /\ OnlyWrites(m, e, {MoeIds, PairWts})
  /\ \A p \in 1..(n * t) :
       /\ Get(e, MoeIds, p) = <<"id", RankOf(t, p), Get(m, RouterLogits, RowOf(t, p))>>
       /\ Get(e, PairWts, p) = <<"wt", RankOf(t, p), Get(m, RouterLogits, RowOf(t, p))>>

\* The launch makes it.
LEMMA TopkDoes ==
  ASSUME NEW g, NEW m, IsMachine(m), NEW n
  PROVE  TopkDone(m, Step(g, m, TopkRouter(g, n)), g.topk, n)
  <1> DEFINE op == TopkRouter(g, n)
             t == g.topk
             idRows == [p \in 1..(n * t) |-> <<"id", RankOf(t, p), Get(m, RouterLogits, RowOf(t, p))>>]
             wtRows == [p \in 1..(n * t) |-> <<"wt", RankOf(t, p), Get(m, RouterLogits, RowOf(t, p))>>]
             h == Put(m, MoeIds, idRows)
             e == Put(h, PairWts, wtRows)
             f == Step(g, m, op)
  <1>1. op.is = "topk" /\ op.n = n /\ op.topk = t
    BY DEF TopkRouter
  <1>2. Exec(m, op) = e
    <2> HIDE DEF op
    <2>1. Exec(m, op) =
            LET row(p)  == (p - 1) \div op.topk + 1
                rank(p) == ((p - 1) % op.topk) + 1
                pairs   == 1..(op.n * op.topk)
                chosen  == Put(m, MoeIds, [p \in pairs |-> <<"id", rank(p), Get(m, RouterLogits, row(p))>>])
            IN  Put(chosen, PairWts, [p \in pairs |-> <<"wt", rank(p), Get(m, RouterLogits, row(p))>>])
      BY Zenon, <1>1 DEF Exec
    <2> QED BY Zenon, <1>1, <2>1 DEF RowOf, RankOf
  <1> HIDE DEF op
  <1>3. DOMAIN idRows = 1..(n * t) /\ DOMAIN wtRows = 1..(n * t)
    OBVIOUS
  <1>4. \A p \in 1..(n * t) :
          /\ idRows[p] = <<"id", RankOf(t, p), Get(m, RouterLogits, RowOf(t, p))>>
          /\ wtRows[p] = <<"wt", RankOf(t, p), Get(m, RouterLogits, RowOf(t, p))>>
    BY Zenon
  <1> HIDE DEF idRows, wtRows
  <1>5. Wrote(m, h, MoeIds, idRows)
    BY Zenon, PutWrites
  <1>6. IsMachine(h)
    BY Zenon, <1>5 DEF Wrote, OnlyWrites
  <1> HIDE DEF h
  <1>7. Wrote(h, e, PairWts, wtRows)
    BY Zenon, <1>6, PutWrites
  <1> HIDE DEF e
  <1>8. OnlyWrites(m, e, {MoeIds, PairWts})
    BY <1>5, <1>7, WritesInTurn DEF Wrote
  <1>9. MoeIds \notin {PairWts}
    BY DEF MoeIds, PairWts
  <1>10. \A p \in 1..(n * t) : Get(e, MoeIds, p) = idRows[p] /\ Get(e, PairWts, p) = wtRows[p]
    BY Zenon, <1>3, <1>5, <1>7, <1>9 DEF Wrote, OnlyWrites
  <1>11. OnlyWrites(m, Exec(m, op), {MoeIds, PairWts})
    BY Zenon, <1>2, <1>8
  <1>12. OnlyWrites(m, f, {MoeIds, PairWts}) /\ \A c, i : Get(f, c, i) = Get(e, c, i)
    <2>1. ReadsAs(m, Exec(m, op), f, {MoeIds, PairWts})
      BY Zenon, <1>11, StepReads
    <2> QED BY Zenon, <1>2, <2>1 DEF ReadsAs
  <1>13. TopkDone(m, f, t, n)
    <2> HIDE DEF f
    <2> QED BY Zenon, <1>4, <1>10, <1>12 DEF TopkDone
  <1> QED BY Zenon, <1>13 DEF op

\* Rows that Put does not name stay.
LEMMA OtherRowsStay ==
  ASSUME NEW m, IsMachine(m), NEW b, NEW rows, NEW i, i \notin DOMAIN rows
  PROVE  Get(Put(m, b, rows), b, i) = Get(m, b, i)
  <1> DEFINE old == IF b \in DOMAIN m.mem THEN m.mem[b] ELSE <<>>
             mem == [c \in DOMAIN m.mem \cup {b} |-> IF c = b THEN Over(rows, old) ELSE m.mem[c]]
             e == Put(m, b, rows)
  <1>1. e = [m EXCEPT !.mem = mem]
    BY Zenon DEF Put
  <1> HIDE DEF e
  <1>2. e.mem = mem
    BY <1>1 DEF IsMachine
  <1>3. b \in DOMAIN e.mem /\ e.mem[b] = Over(rows, old)
    BY <1>2
  <1>4. i \in DOMAIN Over(rows, old) <=> i \in DOMAIN old
    BY DEF Over
  <1>5. i \in DOMAIN old => Over(rows, old)[i] = old[i]
    BY DEF Over
  <1>6. i \in DOMAIN old <=> b \in DOMAIN m.mem /\ i \in DOMAIN m.mem[b]
    OBVIOUS
  <1>7. b \in DOMAIN m.mem => old = m.mem[b]
    OBVIOUS
  <1> HIDE DEF old, mem
  <1>8. Get(e, b, i) = Get(m, b, i)
    BY <1>3, <1>4, <1>5, <1>6, <1>7 DEF Get
  <1> QED BY Zenon, <1>8 DEF e

\* The token of each row, and its generator afterwards.
SampleDone(m, e, n) ==
  /\ OnlyWrites(m, e, {TokOut, RngDev})
  /\ \A i \in 1..n :
       /\ Get(e, TokOut, i) = Sampled(Get(m, LogitsDev, i), Get(m, TempsDev, i), Get(m, RngDev, i))
       /\ Get(e, RngDev, i) = AdvancedRng(Get(m, RngDev, i))
  /\ \A i : i \notin 1..n => Get(e, RngDev, i) = Get(m, RngDev, i)

\* The launch draws it.
LEMMA SampleDoes ==
  ASSUME NEW g, NEW m, IsMachine(m), NEW n
  PROVE  SampleDone(m, Step(g, m, SampleTokens(g, n)), n)
  <1> DEFINE op == SampleTokens(g, n)
             tokRows == [i \in 1..n |-> Sampled(Get(m, LogitsDev, i), Get(m, TempsDev, i), Get(m, RngDev, i))]
             rngRows == [i \in 1..n |-> AdvancedRng(Get(m, RngDev, i))]
             h == Put(m, TokOut, tokRows)
             e == Put(h, RngDev, rngRows)
             f == Step(g, m, op)
  <1>1. op.is = "sample" /\ op.n = n
    BY DEF SampleTokens
  <1>2. Exec(m, op) = e
    <2> HIDE DEF op
    <2>1. Exec(m, op) =
            Put(Put(m, TokOut, [i \in 1..op.n |->
                  Sampled(Get(m, LogitsDev, i), Get(m, TempsDev, i), Get(m, RngDev, i))]),
                RngDev, [i \in 1..op.n |-> AdvancedRng(Get(m, RngDev, i))])
      BY Zenon, <1>1 DEF Exec
    <2> QED BY Zenon, <1>1, <2>1
  <1> HIDE DEF op
  <1>3. DOMAIN tokRows = 1..n /\ DOMAIN rngRows = 1..n
    OBVIOUS
  <1>4. \A i \in 1..n :
          /\ tokRows[i] = Sampled(Get(m, LogitsDev, i), Get(m, TempsDev, i), Get(m, RngDev, i))
          /\ rngRows[i] = AdvancedRng(Get(m, RngDev, i))
    BY Zenon
  <1> HIDE DEF tokRows, rngRows
  <1>5. Wrote(m, h, TokOut, tokRows)
    BY Zenon, PutWrites
  <1>6. IsMachine(h)
    BY Zenon, <1>5 DEF Wrote, OnlyWrites
  <1> HIDE DEF h
  <1>7. Wrote(h, e, RngDev, rngRows)
    BY Zenon, <1>6, PutWrites
  <1>8. \A i : i \notin 1..n => Get(e, RngDev, i) = Get(h, RngDev, i)
    BY Zenon, <1>3, <1>6, OtherRowsStay
  <1> HIDE DEF e
  <1>9. OnlyWrites(m, e, {TokOut, RngDev})
    BY <1>5, <1>7, WritesInTurn DEF Wrote
  <1>10. TokOut \notin {RngDev} /\ RngDev \notin {TokOut}
    BY DEF TokOut, RngDev
  <1>11. \A i \in 1..n : Get(e, TokOut, i) = tokRows[i] /\ Get(e, RngDev, i) = rngRows[i]
    BY Zenon, <1>3, <1>5, <1>7, <1>10 DEF Wrote, OnlyWrites
  <1>12. \A i : i \notin 1..n => Get(e, RngDev, i) = Get(m, RngDev, i)
    <2>1. \A i : Get(h, RngDev, i) = Get(m, RngDev, i)
      BY Zenon, <1>5, <1>10 DEF Wrote, OnlyWrites
    <2> QED BY Zenon, <1>8, <2>1
  <1>13. OnlyWrites(m, Exec(m, op), {TokOut, RngDev})
    BY Zenon, <1>2, <1>9
  <1>14. OnlyWrites(m, f, {TokOut, RngDev}) /\ \A c, i : Get(f, c, i) = Get(e, c, i)
    <2>1. ReadsAs(m, Exec(m, op), f, {TokOut, RngDev})
      BY Zenon, <1>13, StepReads
    <2> QED BY Zenon, <1>2, <2>1 DEF ReadsAs
  <1>15. SampleDone(m, f, n)
    <2> HIDE DEF f
    <2>1. \A i \in 1..n :
            /\ Get(f, TokOut, i) = Sampled(Get(m, LogitsDev, i), Get(m, TempsDev, i), Get(m, RngDev, i))
            /\ Get(f, RngDev, i) = AdvancedRng(Get(m, RngDev, i))
      BY Zenon, <1>4, <1>11, <1>14
    <2>2. \A i : i \notin 1..n => Get(f, RngDev, i) = Get(m, RngDev, i)
      BY Zenon, <1>12, <1>14
    <2> QED BY Zenon, <1>14, <2>1, <2>2 DEF SampleDone
  <1> QED BY Zenon, <1>15 DEF op

\* Nothing is added up yet.
ZeroDone(m, e, n) == OnlyWrites(m, e, {RoutedOut}) /\ \A i \in 1..n : Get(e, RoutedOut, i) = <<"zero">>

\* The memset does that.
LEMMA ZeroDoes ==
  ASSUME NEW g, NEW m, IsMachine(m), NEW n
  PROVE  ZeroDone(m, Step(g, m, MemsetRouted(g, n)), n)
  <1> DEFINE op == MemsetRouted(g, n)
             rows == [i \in 1..n |-> <<"zero">>]
             e == Step(g, m, op)
  <1>1. op.is = "zero" /\ op.n = n /\ op.out = RoutedOut
    BY DEF MemsetRouted
  <1>2. Exec(m, op) = Put(m, RoutedOut, rows)
    <2> HIDE DEF op
    <2>1. Exec(m, op) = Put(m, op.out, [i \in 1..op.n |-> <<"zero">>])
      BY Zenon, <1>1 DEF Exec
    <2> QED BY Zenon, <1>1, <2>1
  <1>3. DOMAIN rows = 1..n /\ \A i \in 1..n : rows[i] = <<"zero">>
    OBVIOUS
  <1> HIDE DEF op, rows
  <1>4. Wrote(m, e, RoutedOut, rows)
    BY Zenon, <1>2, StepWrites
  <1>5. ZeroDone(m, e, n)
    BY Zenon, <1>3, <1>4 DEF Wrote, ZeroDone
  <1> QED BY Zenon, <1>5 DEF op

\* Each pair's expert, of the row that the pair names.
ExpertsDone(m, e, bank, idx, in, out, pairs) ==
  /\ OnlyWrites(m, e, {out})
  /\ \A p \in 1..pairs : Get(e, out, p) = <<"expert", bank, Get(m, PairBases, p), Get(m, in, Get(m, idx, p))>>

\* The experts' gemv makes it.
LEMMA ExpertsDo ==
  ASSUME NEW g, NEW m, IsMachine(m), NEW bank, NEW idx, NEW in, NEW out, NEW rows, NEW k,
         NEW n, NEW of
  PROVE  ExpertsDone(m, Step(g, m, GemvQ4rPtr(bank, idx, in, out, rows, k, n, of)), bank, idx, in, out, n)
  <1> DEFINE op == GemvQ4rPtr(bank, idx, in, out, rows, k, n, of)
             new == [p \in 1..n |-> <<"expert", bank>> \o <<Get(m, PairBases, p), Get(m, in, Get(m, idx, p))>>]
             e == Step(g, m, op)
  <1>1. /\ op.is = "ptr" /\ op.n = n /\ op.does = <<"expert", bank>> /\ op.idx = idx
        /\ op.in = in /\ op.out = out
    BY DEF GemvQ4rPtr
  <1>2. Exec(m, op) = Put(m, out, new)
    <2> HIDE DEF op
    <2>1. Exec(m, op) = Put(m, op.out, [p \in 1..op.n |->
               op.does \o <<Get(m, PairBases, p), Get(m, op.in, Get(m, op.idx, p))>>])
      BY Zenon, <1>1 DEF Exec
    <2> QED BY Zenon, <1>1, <2>1
  <1>3. ASSUME NEW p \in 1..n
        PROVE  new[p] = <<"expert", bank, Get(m, PairBases, p), Get(m, in, Get(m, idx, p))>>
    <2> DEFINE a == Get(m, PairBases, p)
               b == Get(m, in, Get(m, idx, p))
    <2>1. new[p] = <<"expert", bank>> \o <<a, b>>
      BY Zenon
    <2> HIDE DEF a, b
    <2>2. <<"expert", bank>> \o <<a, b>> = <<"expert", bank, a, b>>
      BY Zenon, TwoAndTwo DEF JoinedIs
    <2> QED BY Zenon, <2>1, <2>2 DEF a, b
  <1>4. DOMAIN new = 1..n
    OBVIOUS
  <1> HIDE DEF op, new
  <1>5. Wrote(m, e, out, new)
    BY Zenon, <1>2, StepWrites
  <1>6. ExpertsDone(m, e, bank, idx, in, out, n)
    BY Zenon, <1>3, <1>4, <1>5 DEF Wrote, ExpertsDone
  <1> QED BY Zenon, <1>6 DEF op

\* The pairs as the uploads leave them.
PairsReady(m, t, n) ==
  \A p \in 1..(n * t) : /\ Get(m, PairXidx, p) = RowOf(t, p)
                        /\ Get(m, PairSeq, p) = RowOf(t, p)
                        /\ Get(m, DenseIdx, p) = p

\* The routed experts' sum, of a row's router logits and quantized activations.
ExpertOf(l, bank, k, logits, x) == <<"expert", bank, <<"base", l, <<"id", k, logits>>>>, x>>
RoutedOf(l, t, logits, x) ==
  <<"sum", <<"zero">>,
    [k \in 1..t |-> <<ExpertOf(l, "down", k, logits, <<"gelu_mul", ExpertOf(l, "gate_up", k, logits, x)>>),
                      <<"wt", k, logits>>>>]>>

MoeBuffers == {Q8Routed, MoeIds, PairWts, PairBases, RoutedOut, PairYGu, PairActQ8, PairYDown, XRes}
MoeDone(m, e, g, l, n) ==
  /\ OnlyWrites(m, e, MoeBuffers)
  /\ \A i \in 1..n :
       Get(e, XRes, i) = <<"combine", <<"post_ffw", l>>, Get(m, XRes, i), Get(m, Y(g.hidden), i),
                           RoutedOf(l, g.topk, Get(m, RouterLogits, i), <<"q8", Get(m, ScRi, i)>>)>>

\* What a launch does not write it keeps.
Keeps(m, e, c) == \A i : Get(e, c, i) = Get(m, c, i)

\* A buffer that is not among those a launch writes is kept.
LEMMA WritesElsewhere ==
  ASSUME NEW m, NEW e, NEW W, OnlyWrites(m, e, W), NEW c, c \notin W
  PROVE  Keeps(m, e, c)
  BY Zenon DEF OnlyWrites, Keeps

\* The machines between the nine launches of the routed experts.
MoeGoes(g, l, n, m, m1, m2, m3, m4, m5, m6, m7, m8, m9) ==
  /\ Made1(m, m1, Q8Routed, n, "q8", ScRi)
  /\ TopkDone(m1, m2, g.topk, n)
  /\ Made2(m2, m3, PairBases, n * g.topk, "base", l, MoeIds)
  /\ ZeroDone(m3, m4, n)
  /\ ExpertsDone(m4, m5, "gate_up", PairXidx, Q8Routed, PairYGu, n * g.topk)
  /\ Made1(m5, m6, PairActQ8, n * g.topk, "gelu_mul", PairYGu)
  /\ ExpertsDone(m6, m7, "down", DenseIdx, PairActQ8, PairYDown, n * g.topk)
  /\ ReduceDone(m7, m8, g.topk, n)
  /\ MadeOfThree(m8, m9, XRes, n, "combine", <<"post_ffw", l>>, XRes, Y(g.hidden), RoutedOut)

\* What they write.
LEMMA MoeGoesOn ==
  ASSUME NEW g, NEW l, NEW n, NEW m, NEW m1, NEW m2, NEW m3, NEW m4, NEW m5, NEW m6, NEW m7,
         NEW m8, NEW m9,
         MoeGoes(g, l, n, m, m1, m2, m3, m4, m5, m6, m7, m8, m9)
  PROVE  /\ OnlyWrites(m, m1, {Q8Routed}) /\ OnlyWrites(m1, m2, {MoeIds, PairWts})
         /\ OnlyWrites(m2, m3, {PairBases}) /\ OnlyWrites(m3, m4, {RoutedOut})
         /\ OnlyWrites(m4, m5, {PairYGu}) /\ OnlyWrites(m5, m6, {PairActQ8})
         /\ OnlyWrites(m6, m7, {PairYDown}) /\ OnlyWrites(m7, m8, {RoutedOut})
         /\ OnlyWrites(m8, m9, {XRes}) /\ OnlyWrites(m, m9, MoeBuffers)
  <1>1. /\ OnlyWrites(m, m1, {Q8Routed}) /\ OnlyWrites(m1, m2, {MoeIds, PairWts})
        /\ OnlyWrites(m2, m3, {PairBases}) /\ OnlyWrites(m3, m4, {RoutedOut})
        /\ OnlyWrites(m4, m5, {PairYGu}) /\ OnlyWrites(m5, m6, {PairActQ8})
        /\ OnlyWrites(m6, m7, {PairYDown}) /\ OnlyWrites(m7, m8, {RoutedOut})
        /\ OnlyWrites(m8, m9, {XRes})
    BY Zenon DEF MoeGoes, Made1, TopkDone, Made2, ZeroDone, ExpertsDone, ReduceDone, MadeOfThree
  <1>2. /\ {Q8Routed} \cup {MoeIds, PairWts} \subseteq MoeBuffers /\ MoeBuffers \cup {PairBases} \subseteq MoeBuffers
        /\ MoeBuffers \cup {RoutedOut} \subseteq MoeBuffers /\ MoeBuffers \cup {PairYGu} \subseteq MoeBuffers
        /\ MoeBuffers \cup {PairActQ8} \subseteq MoeBuffers /\ MoeBuffers \cup {PairYDown} \subseteq MoeBuffers
        /\ MoeBuffers \cup {XRes} \subseteq MoeBuffers
    BY DEF MoeBuffers
  <1>3. OnlyWrites(m, m2, MoeBuffers)
    BY Zenon, <1>1, <1>2, WritesInTurn
  <1>4. OnlyWrites(m, m3, MoeBuffers)
    BY Zenon, <1>1, <1>2, <1>3, WritesInTurn
  <1>5. OnlyWrites(m, m4, MoeBuffers)
    BY Zenon, <1>1, <1>2, <1>4, WritesInTurn
  <1>6. OnlyWrites(m, m5, MoeBuffers)
    BY Zenon, <1>1, <1>2, <1>5, WritesInTurn
  <1>7. OnlyWrites(m, m6, MoeBuffers)
    BY Zenon, <1>1, <1>2, <1>6, WritesInTurn
  <1>8. OnlyWrites(m, m7, MoeBuffers)
    BY Zenon, <1>1, <1>2, <1>7, WritesInTurn
  <1>9. OnlyWrites(m, m8, MoeBuffers)
    BY Zenon, <1>1, <1>2, <1>8, WritesInTurn
  <1>10. OnlyWrites(m, m9, MoeBuffers)
    BY Zenon, <1>1, <1>2, <1>9, WritesInTurn
  <1> QED BY Zenon, <1>1, <1>10

\* What they keep of what is still to be read.
LEMMA MoeKeeps ==
  ASSUME NEW g, NEW l, NEW n, NEW m, NEW m1, NEW m2, NEW m3, NEW m4, NEW m5, NEW m6, NEW m7,
         NEW m8, NEW m9,
         MoeGoes(g, l, n, m, m1, m2, m3, m4, m5, m6, m7, m8, m9)
  PROVE  /\ Keeps(m, m1, RouterLogits)
         /\ Keeps(m1, m4, Q8Routed) /\ Keeps(m, m4, PairXidx) /\ Keeps(m3, m4, PairBases)
         /\ Keeps(m3, m6, PairBases) /\ Keeps(m, m6, DenseIdx)
         /\ Keeps(m, m7, PairSeq) /\ Keeps(m2, m7, PairWts) /\ Keeps(m4, m7, RoutedOut)
         /\ Keeps(m, m8, XRes) /\ Keeps(m, m8, Y(g.hidden))
  <1> DEFINE y == Y(g.hidden)
  <1>1. /\ OnlyWrites(m, m1, {Q8Routed}) /\ OnlyWrites(m1, m2, {MoeIds, PairWts})
        /\ OnlyWrites(m2, m3, {PairBases}) /\ OnlyWrites(m3, m4, {RoutedOut})
        /\ OnlyWrites(m4, m5, {PairYGu}) /\ OnlyWrites(m5, m6, {PairActQ8})
        /\ OnlyWrites(m6, m7, {PairYDown}) /\ OnlyWrites(m7, m8, {RoutedOut})
        /\ OnlyWrites(m8, m9, {XRes})
    BY Zenon, MoeGoesOn
  <1> DEFINE A == {Q8Routed, MoeIds, PairWts}
             B == A \cup {PairBases}
             C == B \cup {RoutedOut}
             D == C \cup {PairYGu}
             E == D \cup {PairActQ8}
             F == E \cup {PairYDown}
  <1>2. OnlyWrites(m, m2, A)
    BY <1>1, WritesInTurn
  <1>3. OnlyWrites(m, m3, B)
    BY <1>1, <1>2, WritesInTurn
  <1>4. OnlyWrites(m, m4, C)
    BY <1>1, <1>3, WritesInTurn
  <1>5. OnlyWrites(m, m5, D)
    BY <1>1, <1>4, WritesInTurn
  <1>6. OnlyWrites(m, m6, E)
    BY <1>1, <1>5, WritesInTurn
  <1>7. OnlyWrites(m, m7, F)
    BY <1>1, <1>6, WritesInTurn
  <1>8. OnlyWrites(m, m8, F)
    BY <1>1, <1>7, WritesInTurn
  <1>9. /\ RouterLogits \notin {Q8Routed} /\ PairXidx \notin C /\ DenseIdx \notin E
        /\ PairSeq \notin F /\ XRes \notin F /\ y \notin F
    BY DEF RouterLogits, Q8Routed, PairXidx, C, B, A, MoeIds, PairWts, PairBases, RoutedOut,
       DenseIdx, E, D,
           PairYGu, PairActQ8, PairSeq, F, PairYDown, XRes, y, Y
  <1> HIDE DEF A, B, C, D, E, F, y
  <1>10. /\ Keeps(m, m1, RouterLogits) /\ Keeps(m, m4, PairXidx) /\ Keeps(m, m6, DenseIdx)
         /\ Keeps(m, m7, PairSeq) /\ Keeps(m, m8, XRes) /\ Keeps(m, m8, y)
    BY Zenon, <1>1, <1>4, <1>6, <1>7, <1>8, <1>9, WritesElsewhere
  <1>11. Keeps(m1, m4, Q8Routed)
    <2>1. Q8Routed \notin {MoeIds, PairWts} /\ Q8Routed \notin {PairBases} /\ Q8Routed \notin {RoutedOut}
      BY DEF Q8Routed, MoeIds, PairWts, PairBases, RoutedOut
    <2>2. Keeps(m1, m2, Q8Routed) /\ Keeps(m2, m3, Q8Routed) /\ Keeps(m3, m4, Q8Routed)
      BY Zenon, <1>1, <2>1, WritesElsewhere
    <2> QED BY Zenon, <2>2 DEF Keeps
  <1>12. Keeps(m3, m4, PairBases) /\ Keeps(m3, m6, PairBases)
    <2>1. PairBases \notin {RoutedOut} /\ PairBases \notin {PairYGu} /\ PairBases \notin {PairActQ8}
      BY DEF PairBases, RoutedOut, PairYGu, PairActQ8
    <2>2. Keeps(m3, m4, PairBases) /\ Keeps(m4, m5, PairBases) /\ Keeps(m5, m6, PairBases)
      BY Zenon, <1>1, <2>1, WritesElsewhere
    <2> QED BY Zenon, <2>2 DEF Keeps
  <1>13. Keeps(m2, m7, PairWts)
    <2>1. /\ PairWts \notin {PairBases} /\ PairWts \notin {RoutedOut} /\ PairWts \notin {PairYGu}
          /\ PairWts \notin {PairActQ8} /\ PairWts \notin {PairYDown}
      BY DEF PairWts, PairBases, RoutedOut, PairYGu, PairActQ8, PairYDown
    <2>2. /\ Keeps(m2, m3, PairWts) /\ Keeps(m3, m4, PairWts) /\ Keeps(m4, m5, PairWts)
          /\ Keeps(m5, m6, PairWts) /\ Keeps(m6, m7, PairWts)
      BY Zenon, <1>1, <2>1, WritesElsewhere
    <2> QED BY Zenon, <2>2 DEF Keeps
  <1>14. Keeps(m4, m7, RoutedOut)
    <2>1. RoutedOut \notin {PairYGu} /\ RoutedOut \notin {PairActQ8} /\ RoutedOut \notin {PairYDown}
      BY DEF RoutedOut, PairYGu, PairActQ8, PairYDown
    <2>2. Keeps(m4, m5, RoutedOut) /\ Keeps(m5, m6, RoutedOut) /\ Keeps(m6, m7, RoutedOut)
      BY Zenon, <1>1, <2>1, WritesElsewhere
    <2> QED BY Zenon, <2>2 DEF Keeps
  <1> QED BY Zenon, <1>10, <1>11, <1>12, <1>13, <1>14 DEF y

\* What they make of a pair.
PairDone(m, m7, l, t, p) ==
  /\ Get(m7, PairYDown, p)
       = ExpertOf(l, "down", RankOf(t, p), Get(m, RouterLogits, RowOf(t, p)),
           <<"gelu_mul", ExpertOf(l, "gate_up", RankOf(t, p), Get(m, RouterLogits, RowOf(t, p)),
                                  <<"q8", Get(m, ScRi, RowOf(t, p))>>)>>)
  /\ Get(m7, PairWts, p) = <<"wt", RankOf(t, p), Get(m, RouterLogits, RowOf(t, p))>>

\* Its expert's output, and its weight.
LEMMA PairsGoOn ==
  ASSUME NEW g, g.topk \in Nat \ {0}, NEW l, NEW n \in Nat,
         NEW m, NEW m1, NEW m2, NEW m3, NEW m4, NEW m5, NEW m6, NEW m7, NEW m8, NEW m9,
         MoeGoes(g, l, n, m, m1, m2, m3, m4, m5, m6, m7, m8, m9), PairsReady(m, g.topk, n),
         NEW p \in 1..(n * g.topk)
  PROVE  PairDone(m, m7, l, g.topk, p)
  <1> DEFINE t == g.topk
             i == RowOf(t, p)
             k == RankOf(t, p)
             logits == Get(m, RouterLogits, i)
  <1>0. i \in 1..n
    BY PairsAre
  <1> HIDE DEF i, k, logits
  <1>1. /\ Keeps(m, m1, RouterLogits)
        /\ Keeps(m1, m4, Q8Routed) /\ Keeps(m, m4, PairXidx) /\ Keeps(m3, m4, PairBases)
        /\ Keeps(m3, m6, PairBases) /\ Keeps(m, m6, DenseIdx) /\ Keeps(m2, m7, PairWts)
    BY Zenon, MoeKeeps
  <1>2. Get(m2, MoeIds, p) = <<"id", k, logits>> /\ Get(m2, PairWts, p) = <<"wt", k, logits>>
    BY Zenon, <1>1 DEF MoeGoes, TopkDone, Keeps, i, k, logits
  <1>3. Get(m3, PairBases, p) = <<"base", l, <<"id", k, logits>>>>
    BY Zenon, <1>2 DEF MoeGoes, Made2
  <1>4. Get(m4, Q8Routed, i) = <<"q8", Get(m, ScRi, i)>>
    BY Zenon, <1>0, <1>1 DEF MoeGoes, Made1, Keeps
  <1>5. Get(m4, PairXidx, p) = i
    BY Zenon, <1>1 DEF PairsReady, Keeps, i
  <1>6. Get(m5, PairYGu, p) = ExpertOf(l, "gate_up", k, logits, <<"q8", Get(m, ScRi, i)>>)
    <2>1. Get(m5, PairYGu, p) = <<"expert", "gate_up", Get(m4, PairBases, p), Get(m4, Q8Routed, Get(m4, PairXidx, p))>>
      BY Zenon DEF MoeGoes, ExpertsDone
    <2>2. Get(m4, PairBases, p) = Get(m3, PairBases, p)
      BY Zenon, <1>1 DEF Keeps
    <2> QED BY Zenon, <1>3, <1>4, <1>5, <2>1, <2>2 DEF ExpertOf
  <1>7. Get(m6, PairActQ8, p) = <<"gelu_mul", ExpertOf(l, "gate_up", k, logits, <<"q8", Get(m, ScRi, i)>>)>>
    BY Zenon, <1>6 DEF MoeGoes, Made1
  <1>8. Get(m7, PairYDown, p) = ExpertOf(l, "down", k, logits, Get(m6, PairActQ8, p))
    <2>1. Get(m7, PairYDown, p) = <<"expert", "down", Get(m6, PairBases, p), Get(m6, PairActQ8, Get(m6, DenseIdx, p))>>
      BY Zenon DEF MoeGoes, ExpertsDone
    <2>2. Get(m6, PairBases, p) = Get(m3, PairBases, p) /\ Get(m6, DenseIdx, p) = p
      BY Zenon, <1>1 DEF Keeps, PairsReady
    <2> QED BY Zenon, <1>3, <2>1, <2>2 DEF ExpertOf
  <1>9. Get(m7, PairWts, p) = <<"wt", k, logits>>
    BY Zenon, <1>1, <1>2 DEF Keeps
  <1> QED BY Zenon, <1>7, <1>8, <1>9 DEF PairDone, i, k, logits

\* What they make of a row.
LEMMA RowsGoOn ==
  ASSUME NEW g, g.topk \in Nat \ {0}, NEW l, NEW n \in Nat,
         NEW m, NEW m1, NEW m2, NEW m3, NEW m4, NEW m5, NEW m6, NEW m7, NEW m8, NEW m9,
         MoeGoes(g, l, n, m, m1, m2, m3, m4, m5, m6, m7, m8, m9), PairsReady(m, g.topk, n)
  PROVE  MoeDone(m, m9, g, l, n)
  <1> DEFINE t == g.topk
             logits(i) == Get(m, RouterLogits, i)
             x(i) == <<"q8", Get(m, ScRi, i)>>
             added(i, k) == <<ExpertOf(l, "down", k, logits(i), <<"gelu_mul", ExpertOf(l, "gate_up", k, logits(i), x(i))>>),
                              <<"wt", k, logits(i)>>>>
  <1>1. Keeps(m, m7, PairSeq) /\ Keeps(m4, m7, RoutedOut) /\ Keeps(m, m8, XRes) /\ Keeps(m, m8, Y(g.hidden))
    BY Zenon, MoeKeeps
  <1>2. ASSUME NEW i \in 1..n, NEW k \in 1..t
        PROVE  <<Get(m7, PairYDown, (i - 1) * t + k), Get(m7, PairWts, (i - 1) * t + k)>> = added(i, k)
    <2> DEFINE p == PairOf(t, i, k)
    <2>1. IsThePair(t, n, i, k)
      BY Zenon, <1>2, PairOfRow
    <2>2. p \in 1..(n * t) /\ RowOf(t, p) = i /\ RankOf(t, p) = k
      BY Zenon, <2>1 DEF IsThePair
    <2> HIDE DEF p
    <2>3. PairDone(m, m7, l, t, p)
      BY Zenon, <2>2, PairsGoOn
    <2>4. <<Get(m7, PairYDown, p), Get(m7, PairWts, p)>> = added(i, k)
      BY Zenon, <2>2, <2>3 DEF PairDone
    <2> QED BY Zenon, <2>4 DEF p, PairOf
  <1>3. ASSUME NEW i \in 1..n PROVE Get(m8, RoutedOut, i) = RoutedOf(l, t, logits(i), x(i))
    <2>1. Get(m8, RoutedOut, i) = Summed(m7, (i - 1) * t, t, i)
      BY Zenon DEF MoeGoes, ReduceDone
    <2>2. Get(m7, RoutedOut, i) = <<"zero">>
      BY Zenon, <1>1 DEF MoeGoes, ZeroDone, Keeps
    <2>3. [j \in 1..t |-> <<Get(m7, PairYDown, (i - 1) * t + j), Get(m7, PairWts, (i - 1) * t + j)>>]
            = [j \in 1..t |-> added(i, j)]
      <3> HIDE DEF added
      <3> QED BY Zenon, <1>2
    <2> QED BY Zenon, <2>1, <2>2, <2>3 DEF Summed, RoutedOf
  <1>4. ASSUME NEW i \in 1..n
        PROVE  Get(m9, XRes, i) = <<"combine", <<"post_ffw", l>>, Get(m, XRes, i), Get(m, Y(g.hidden), i),
                                    RoutedOf(l, t, logits(i), x(i))>>
    BY Zenon, <1>1, <1>3 DEF MoeGoes, MadeOfThree, Keeps
  <1>5. OnlyWrites(m, m9, MoeBuffers)
    BY Zenon, MoeGoesOn
  <1> QED BY Zenon, <1>4, <1>5 DEF MoeDone

\* The nine launches do it.
LEMMA MoeDoes ==
  ASSUME NEW g, g.topk \in Nat \ {0}, NEW m, IsMachine(m), NEW l, NEW n \in Nat,
         PairsReady(m, g.topk, n)
  PROVE  MoeDone(m, Run(g, m, Moe(g, l, n)), g, l, n)
  <1> DEFINE y == Y(g.hidden)
             pairs == n * g.topk
             a == QuantizeQ8(ScRi, Q8Routed, g.hidden, n)
             b == TopkRouter(g, n)
             c == AdmitAndPromote(g, l, n)
             d == MemsetRouted(g, n)
             e == GemvQ4rPtr("gate_up", PairXidx, Q8Routed, PairYGu, 2 * g.inter, g.hidden, pairs, n)
             f == GeluMulQ8(PairYGu, PairActQ8, g.inter, pairs)
             h == GemvQ4rPtr("down", DenseIdx, PairActQ8, PairYDown, g.hidden, g.inter, pairs, pairs)
             i == ReducePairs(g, n)
             j == DualCombine(<<"post_ffw", l>>, XRes, y, RoutedOut, g.hidden, n)
             m1 == Step(g, m, a)
             m2 == Step(g, m1, b)
             m3 == Step(g, m2, c)
             m4 == Step(g, m3, d)
             m5 == Step(g, m4, e)
             m6 == Step(g, m5, f)
             m7 == Step(g, m6, h)
             m8 == Step(g, m7, i)
             m9 == Step(g, m8, j)
  <1>1. Run(g, m, Moe(g, l, n)) = m9
    <2>1. Moe(g, l, n) = <<a, b, c, d, e, f, h, i, j>>
      BY Zenon DEF Moe
    <2> HIDE DEF a, b, c, d, e, f, h, i, j
    <2>2. RunsTo(g, m, <<a, b, c, d, e, f, h, i, j>>, m9)
      BY ZenonT(30), RunNine
    <2> QED BY Zenon, <2>1, <2>2 DEF RunsTo
  <1>2. Made1(m, m1, Q8Routed, n, "q8", ScRi) /\ IsMachine(m1)
    <2>1. Made1(m, m1, Q8Routed, n, "q8", ScRi)
      BY Zenon, RowsAreMade1 DEF QuantizeQ8
    <2> QED BY Zenon, <2>1 DEF Made1, OnlyWrites
  <1> HIDE DEF m1
  <1>3. TopkDone(m1, m2, g.topk, n) /\ IsMachine(m2)
    <2>1. TopkDone(m1, m2, g.topk, n)
      BY Zenon, <1>2, TopkDoes
    <2> QED BY Zenon, <2>1 DEF TopkDone, OnlyWrites
  <1> HIDE DEF m2
  <1>4. Made2(m2, m3, PairBases, pairs, "base", l, MoeIds) /\ IsMachine(m3)
    <2>1. Made2(m2, m3, PairBases, pairs, "base", l, MoeIds)
      BY Zenon, <1>3, RowsAreMade2 DEF AdmitAndPromote
    <2> QED BY Zenon, <2>1 DEF Made2, OnlyWrites
  <1> HIDE DEF m3
  <1>5. ZeroDone(m3, m4, n) /\ IsMachine(m4)
    <2>1. ZeroDone(m3, m4, n)
      BY Zenon, <1>4, ZeroDoes
    <2> QED BY Zenon, <2>1 DEF ZeroDone, OnlyWrites
  <1> HIDE DEF m4
  <1>6. ExpertsDone(m4, m5, "gate_up", PairXidx, Q8Routed, PairYGu, pairs) /\ IsMachine(m5)
    <2>1. ExpertsDone(m4, m5, "gate_up", PairXidx, Q8Routed, PairYGu, pairs)
      BY Zenon, <1>5, ExpertsDo
    <2> QED BY Zenon, <2>1 DEF ExpertsDone, OnlyWrites
  <1> HIDE DEF m5
  <1>7. Made1(m5, m6, PairActQ8, pairs, "gelu_mul", PairYGu) /\ IsMachine(m6)
    <2>1. Made1(m5, m6, PairActQ8, pairs, "gelu_mul", PairYGu)
      BY Zenon, <1>6, RowsAreMade1 DEF GeluMulQ8
    <2> QED BY Zenon, <2>1 DEF Made1, OnlyWrites
  <1> HIDE DEF m6
  <1>8. ExpertsDone(m6, m7, "down", DenseIdx, PairActQ8, PairYDown, pairs) /\ IsMachine(m7)
    <2>1. ExpertsDone(m6, m7, "down", DenseIdx, PairActQ8, PairYDown, pairs)
      BY Zenon, <1>7, ExpertsDo
    <2> QED BY Zenon, <2>1 DEF ExpertsDone, OnlyWrites
  <1> HIDE DEF m7
  <1>9. Keeps(m, m7, PairSeq)
    <2>1. /\ PairSeq \notin {Q8Routed} /\ PairSeq \notin {MoeIds, PairWts} /\ PairSeq \notin {PairBases}
          /\ PairSeq \notin {RoutedOut} /\ PairSeq \notin {PairYGu} /\ PairSeq \notin {PairActQ8}
          /\ PairSeq \notin {PairYDown}
      BY DEF PairSeq, Q8Routed, MoeIds, PairWts, PairBases, RoutedOut, PairYGu, PairActQ8, PairYDown
    <2>2. /\ OnlyWrites(m, m1, {Q8Routed}) /\ OnlyWrites(m1, m2, {MoeIds, PairWts})
          /\ OnlyWrites(m2, m3, {PairBases}) /\ OnlyWrites(m3, m4, {RoutedOut})
          /\ OnlyWrites(m4, m5, {PairYGu}) /\ OnlyWrites(m5, m6, {PairActQ8})
          /\ OnlyWrites(m6, m7, {PairYDown})
      BY Zenon, <1>2, <1>3, <1>4, <1>5, <1>6, <1>7, <1>8 DEF Made1, TopkDone, Made2, ZeroDone,
         ExpertsDone
    <2>3. /\ Keeps(m, m1, PairSeq) /\ Keeps(m1, m2, PairSeq) /\ Keeps(m2, m3, PairSeq)
          /\ Keeps(m3, m4, PairSeq) /\ Keeps(m4, m5, PairSeq) /\ Keeps(m5, m6, PairSeq)
          /\ Keeps(m6, m7, PairSeq)
      BY Zenon, <2>1, <2>2, WritesElsewhere
    <2> HIDE DEF m1, m2, m3, m4, m5, m6, m7
    <2>4. Keeps(m, m2, PairSeq) /\ Keeps(m2, m4, PairSeq) /\ Keeps(m4, m6, PairSeq)
      BY Zenon, <2>3 DEF Keeps
    <2>5. Keeps(m, m4, PairSeq) /\ Keeps(m4, m7, PairSeq)
      BY Zenon, <2>3, <2>4 DEF Keeps
    <2> QED BY ZenonT(30), <2>5 DEF Keeps
  <1>10. \A p \in 1..pairs : Get(m7, PairSeq, p) = RowOf(g.topk, p)
    BY Zenon, <1>9 DEF Keeps, PairsReady
  <1>11. ReduceDone(m7, m8, g.topk, n) /\ IsMachine(m8)
    <2>1. ReduceDone(m7, m8, g.topk, n)
      BY Zenon, <1>8, <1>10, ReduceDoes
    <2> QED BY Zenon, <2>1 DEF ReduceDone, OnlyWrites
  <1> HIDE DEF m8
  <1>12. MadeOfThree(m8, m9, XRes, n, "combine", <<"post_ffw", l>>, XRes, y, RoutedOut)
    BY Zenon, <1>11, RowsAreMadeOfThree DEF DualCombine
  <1> HIDE DEF m9
  <1>13. MoeGoes(g, l, n, m, m1, m2, m3, m4, m5, m6, m7, m8, m9)
    BY Zenon, <1>2, <1>3, <1>4, <1>5, <1>6, <1>7, <1>8, <1>11, <1>12 DEF MoeGoes
  <1>14. MoeDone(m, m9, g, l, n)
    BY Zenon, <1>13, RowsGoOn
  <1> QED BY Zenon, <1>1, <1>14

(***************************************************************************)
(* The pools of keys and values.                                           *)
(***************************************************************************)

Positions(g) == 0..(g.maxSeq - 1)

\* A pool holds a key and a value for each position of each slot of each layer.
HasPool(pool, g) ==
  \A s \in Slots : /\ s \in DOMAIN pool
                   /\ \A p \in Positions(g) : p \in DOMAIN pool[s] /\ DOMAIN pool[s][p] = {"k", "v"}
Pools(m, g) == \A l \in Layers(g) : l \in DOMAIN m.kv /\ HasPool(m.kv[l], g)
Cell(m, l, s, p, f) == m.kv[l][s][p][f]

\* Row i is that of slot s and position p; rows have places in the pools, each its own.
At(m, i, s, p) == Get(m, SlotDev, i) = s /\ Get(m, PosDev, i) = p
Placed(m, g, n) ==
  /\ \A i \in 1..n : Get(m, SlotDev, i) \in Slots /\ Get(m, PosDev, i) \in Positions(g)
  /\ \A i, j \in 1..n : Get(m, SlotDev, i) = Get(m, SlotDev, j) => i = j

\* What an append does to the pools: each row's cell is written, and no other.
CellsDone(m, e, g, l, n, f, t) ==
  /\ \A i \in 1..n : Cell(e, l, Get(m, SlotDev, i), Get(m, PosDev, i), f) = t[i]
  /\ \A k \in Layers(g), s \in Slots, p \in Positions(g), h \in {"k", "v"} :
       k # l \/ h # f \/ (\A i \in 1..n : ~At(m, i, s, p)) => Cell(e, k, s, p, h) = Cell(m, k, s, p, h)
AppendDone(m, e, g, l, n, f, t) ==
  IsMachine(e) /\ Pools(e, g) /\ (\A c : Keeps(m, e, c)) /\ CellsDone(m, e, g, l, n, f, t)

\* The new pool of a layer.
NewPool(m, l, n, f, t) ==
  [s \in DOMAIN m.kv[l] |-> [p \in DOMAIN m.kv[l][s] |->
     IF {i \in 1..n : At(m, i, s, p)} = {} THEN m.kv[l][s][p]
     ELSE [m.kv[l][s][p] EXCEPT ![f] = t[CHOOSE i \in {i \in 1..n : At(m, i, s, p)} : TRUE]]]]

PoolDone(m, new, g, l, n, f, t) ==
  /\ HasPool(new, g)
  /\ \A i \in 1..n : new[Get(m, SlotDev, i)][Get(m, PosDev, i)][f] = t[i]
  /\ \A s \in Slots, p \in Positions(g), h \in {"k", "v"} :
       h # f \/ (\A i \in 1..n : ~At(m, i, s, p)) => new[s][p][h] = Cell(m, l, s, p, h)

\* Its cells.
LEMMA NewPoolIs ==
  ASSUME NEW m, NEW g, NEW l, HasPool(m.kv[l], g), NEW n, NEW f \in {"k", "v"}, NEW t,
         Placed(m, g, n)
  PROVE  PoolDone(m, NewPool(m, l, n, f, t), g, l, n, f, t)
  <1> DEFINE new == NewPool(m, l, n, f, t)
             old == m.kv[l]
             R(s, p) == {i \in 1..n : At(m, i, s, p)}
             c(s, p) == CHOOSE i \in R(s, p) : TRUE
  <1>1. ASSUME NEW s \in Slots, NEW p \in Positions(g)
        PROVE  /\ s \in DOMAIN new /\ p \in DOMAIN new[s] /\ DOMAIN old[s][p] = {"k", "v"}
               /\ new[s][p] = IF R(s, p) = {} THEN old[s][p] ELSE [old[s][p] EXCEPT ![f] = t[c(s, p)]]
    <2>1. s \in DOMAIN old /\ p \in DOMAIN old[s] /\ DOMAIN old[s][p] = {"k", "v"}
      BY Zenon DEF HasPool
    <2> HIDE DEF R, c
    <2>2. new = [u \in DOMAIN old |-> [q \in DOMAIN old[u] |->
                   IF R(u, q) = {} THEN old[u][q] ELSE [old[u][q] EXCEPT ![f] = t[c(u, q)]]]]
      BY Zenon DEF NewPool, R, c
    <2> HIDE DEF new, old
    <2> QED BY <2>1, <2>2
  <1>2. ASSUME NEW s \in Slots, NEW p \in Positions(g), NEW h \in {"k", "v"},
               h # f \/ (\A i \in 1..n : ~At(m, i, s, p))
        PROVE  new[s][p][h] = old[s][p][h]
    <2>1. CASE R(s, p) = {}
      <3>1. new[s][p] = old[s][p]
        BY Zenon, <1>1, <2>1
      <3> QED BY Zenon, <3>1
    <2>2. CASE R(s, p) # {}
      <3>1. h # f
        BY Zenon, <1>2, <2>2
      <3> DEFINE cell == old[s][p]
                 x == t[c(s, p)]
      <3>2. new[s][p] = [cell EXCEPT ![f] = x] /\ DOMAIN cell = {"k", "v"}
        BY Zenon, <1>1, <2>2
      <3> HIDE DEF cell, x, new, old
      <3>3. [cell EXCEPT ![f] = x][h] = cell[h]
        BY <3>1, <3>2
      <3>4. new[s][p][h] = cell[h]
        BY Zenon, <3>2, <3>3
      <3> QED BY Zenon, <3>4 DEF cell
    <2> QED BY <2>1, <2>2
  <1>3. ASSUME NEW i \in 1..n
        PROVE  new[Get(m, SlotDev, i)][Get(m, PosDev, i)][f] = t[i]
    <2> DEFINE s == Get(m, SlotDev, i)
               p == Get(m, PosDev, i)
    <2>1. s \in Slots /\ p \in Positions(g) /\ \A j \in 1..n : Get(m, SlotDev, j) = s => j = i
      BY Zenon DEF Placed
    <2>2. R(s, p) = {i}
      <3>1. i \in R(s, p)
        BY Zenon DEF At
      <3>2. \A j \in R(s, p) : j = i
        BY Zenon, <2>1 DEF At
      <3> QED BY <3>1, <3>2
    <2>3. c(s, p) = i
      <3> HIDE DEF R
      <3> QED BY <2>2
    <2>4. R(s, p) # {}
      BY Zenon, <2>2
    <2> DEFINE cell == old[s][p]
               x == t[c(s, p)]
    <2> HIDE DEF R, c, new, old, s, p
    <2>5. new[s][p] = [cell EXCEPT ![f] = x] /\ DOMAIN cell = {"k", "v"} /\ x = t[i]
      BY Zenon, <1>1, <2>1, <2>3, <2>4
    <2> HIDE DEF cell, x
    <2>6. [cell EXCEPT ![f] = x][f] = x
      BY <2>5
    <2>7. new[s][p][f] = t[i]
      BY Zenon, <2>5, <2>6
    <2> QED BY Zenon, <2>7 DEF s, p
  <1>4. HasPool(new, g)
    <2> HIDE DEF new
    <2>1. ASSUME NEW s \in Slots, NEW p \in Positions(g) PROVE DOMAIN new[s][p] = {"k", "v"}
      <3> DEFINE cell == old[s][p]
                 x == t[c(s, p)]
      <3>1. DOMAIN cell = {"k", "v"} /\ new[s][p] \in {cell, [cell EXCEPT ![f] = x]}
        <4> HIDE DEF R, c
        <4> QED BY <1>1
      <3> HIDE DEF cell, x
      <3> QED BY <3>1
    <2>2. \A s \in Slots : s \in DOMAIN new
      <3> SUFFICES ASSUME NEW s \in Slots PROVE s \in DOMAIN new
        OBVIOUS
      <3> QED BY Zenon DEF new, NewPool, HasPool
    <2> QED BY Zenon, <1>1, <2>1, <2>2 DEF HasPool
  <1>5. PoolDone(m, new, g, l, n, f, t)
    BY Zenon, <1>2, <1>3, <1>4 DEF Cell, PoolDone
  <1> QED BY Zenon, <1>5

\* AppendRows does that.
LEMMA AppendDoes ==
  ASSUME NEW m, IsMachine(m), NEW g, Pools(m, g), NEW l \in Layers(g), NEW n,
         NEW f \in {"k", "v"}, NEW t,
         Placed(m, g, n)
  PROVE  AppendDone(m, AppendRows(m, l, n, f, t), g, l, n, f, t)
  <1> DEFINE new == NewPool(m, l, n, f, t)
             e == AppendRows(m, l, n, f, t)
  <1>1. e = [m EXCEPT !.kv[l] = new]
    BY Zenon DEF AppendRows, NewPool, At
  <1>2. HasPool(m.kv[l], g) /\ l \in DOMAIN m.kv
    BY Zenon DEF Pools
  <1>3. PoolDone(m, new, g, l, n, f, t)
    BY Zenon, <1>2, NewPoolIs
  <1> HIDE DEF e, new
  <1>4. IsMachine(e) /\ e.mem = m.mem /\ e.kv = [m.kv EXCEPT ![l] = new]
    BY <1>1 DEF IsMachine
  <1>5. e.kv[l] = new /\ l \in DOMAIN e.kv /\ \A k : k \in DOMAIN m.kv /\ k # l => k \in DOMAIN e.kv /\ e.kv[k] = m.kv[k]
    BY <1>2, <1>4
  <1>6. Pools(e, g)
    BY Zenon, <1>3, <1>5 DEF Pools, PoolDone
  <1>7. \A c : Keeps(m, e, c)
    BY Zenon, <1>4 DEF Keeps, Get
  <1>8. CellsDone(m, e, g, l, n, f, t)
    <2>1. \A i \in 1..n : Cell(e, l, Get(m, SlotDev, i), Get(m, PosDev, i), f) = t[i]
      BY Zenon, <1>3, <1>5 DEF PoolDone, Cell
    <2>2. ASSUME NEW k \in Layers(g), NEW s \in Slots, NEW p \in Positions(g), NEW h \in {"k", "v"},
                 k # l \/ h # f \/ (\A i \in 1..n : ~At(m, i, s, p))
          PROVE  Cell(e, k, s, p, h) = Cell(m, k, s, p, h)
      <3>1. CASE k = l
        BY Zenon, <1>3, <1>5, <2>2, <3>1 DEF PoolDone, Cell
      <3>2. CASE k # l
        BY Zenon, <1>5, <3>2 DEF Pools, Cell
      <3> QED BY <3>1, <3>2
    <2> QED BY Zenon, <2>1, <2>2 DEF CellsDone
  <1>9. AppendDone(m, e, g, l, n, f, t)
    BY Zenon, <1>4, <1>6, <1>7, <1>8 DEF AppendDone
  <1> QED BY Zenon, <1>9 DEF e

\* The heads of row i: its query, key and value.
RowOfQkv(m, g, l, i) == Get(m, Y(QkvRows(g, l)), i)
QueryOf(m, g, l, i) ==
  Turned(g.swa[l], Get(m, PosDev, i), Normed(<<"q_norm", l>>, <<"section", "q", RowOfQkv(m, g, l, i)>>))
KeyOf(m, g, l, i) ==
  Turned(g.swa[l], Get(m, PosDev, i), Normed(<<"k_norm", l>>, <<"section", "k", RowOfQkv(m, g, l, i)>>))
ValueOf(m, g, l, i) == Normed(<<"none">>, <<"section", "v", RowOfQkv(m, g, l, i)>>)

\* Rows of qkv as gemv leaves them.
Plain(m, g, l, n) == \A i \in 1..n : RowOfQkv(m, g, l, i)[1] # "sections"

\* What either way of preparing the heads leaves.
PrepDone(m, e, g, l, n) ==
  /\ IsMachine(e) /\ Pools(e, g)
  /\ \A c : c \notin {Y(QkvRows(g, l)), AttnOut} => Keeps(m, e, c)
  /\ \A i \in 1..n :
       /\ Get(e, AttnOut, i) = QueryOf(m, g, l, i)
       /\ Cell(e, l, Get(m, SlotDev, i), Get(m, PosDev, i), "k") = KeyOf(m, g, l, i)
       /\ Cell(e, l, Get(m, SlotDev, i), Get(m, PosDev, i), "v") = ValueOf(m, g, l, i)
  /\ \A k \in Layers(g), s \in Slots, p \in Positions(g), h \in {"k", "v"} :
       k # l \/ (\A i \in 1..n : ~At(m, i, s, p)) => Cell(e, k, s, p, h) = Cell(m, k, s, p, h)

\* A key and then a value appended.
BothDone(m, a, g, l, n, keys, values) ==
  /\ IsMachine(a) /\ Pools(a, g) /\ \A c : Keeps(m, a, c)
  /\ \A i \in 1..n :
       /\ Cell(a, l, Get(m, SlotDev, i), Get(m, PosDev, i), "k") = keys[i]
       /\ Cell(a, l, Get(m, SlotDev, i), Get(m, PosDev, i), "v") = values[i]
  /\ \A k \in Layers(g), s \in Slots, p \in Positions(g), h \in {"k", "v"} :
       k # l \/ (\A i \in 1..n : ~At(m, i, s, p)) => Cell(a, k, s, p, h) = Cell(m, k, s, p, h)

\* Two machines with the same slots and positions have the same places.
LEMMA PlacesStay ==
  ASSUME NEW m, NEW e, Keeps(m, e, SlotDev), Keeps(m, e, PosDev), NEW g, NEW n
  PROVE  /\ Placed(m, g, n) => Placed(e, g, n)
         /\ \A i, s, p : At(e, i, s, p) <=> At(m, i, s, p)
  BY Zenon DEF Keeps, Placed, At

\* Both are in the pool.
LEMMA BothAppended ==
  ASSUME NEW m, NEW b, NEW a, NEW g, NEW l \in Layers(g), NEW n, NEW keys, NEW values,
         Placed(m, g, n),
         AppendDone(m, b, g, l, n, "k", keys), AppendDone(b, a, g, l, n, "v", values)
  PROVE  BothDone(m, a, g, l, n, keys, values)
  <1>1. \A c : Keeps(m, b, c) /\ Keeps(b, a, c) /\ Keeps(m, a, c)
    BY Zenon DEF AppendDone, Keeps
  <1>2. \A i, s, p : At(b, i, s, p) <=> At(m, i, s, p)
    BY Zenon, <1>1, PlacesStay
  <1>3. \A i : Get(b, SlotDev, i) = Get(m, SlotDev, i) /\ Get(b, PosDev, i) = Get(m, PosDev, i)
    BY Zenon, <1>1 DEF Keeps
  <1>4. /\ \A i \in 1..n : Cell(b, l, Get(m, SlotDev, i), Get(m, PosDev, i), "k") = keys[i]
        /\ \A i \in 1..n : Cell(a, l, Get(m, SlotDev, i), Get(m, PosDev, i), "v") = values[i]
    BY Zenon, <1>3 DEF AppendDone, CellsDone
  <1>5. ASSUME NEW i \in 1..n
        PROVE  Cell(a, l, Get(m, SlotDev, i), Get(m, PosDev, i), "k") = keys[i]
    <2>1. Get(m, SlotDev, i) \in Slots /\ Get(m, PosDev, i) \in Positions(g)
      BY Zenon DEF Placed
    <2>2. "k" \in {"k", "v"} /\ "k" # "v"
      OBVIOUS
    <2>3. Cell(a, l, Get(m, SlotDev, i), Get(m, PosDev, i), "k") = Cell(b, l, Get(m, SlotDev, i), Get(m, PosDev, i), "k")
      BY Zenon, <2>1, <2>2 DEF AppendDone, CellsDone
    <2> QED BY Zenon, <1>4, <2>3
  <1>6. ASSUME NEW k \in Layers(g), NEW s \in Slots, NEW p \in Positions(g), NEW h \in {"k", "v"},
               k # l \/ (\A i \in 1..n : ~At(m, i, s, p))
        PROVE  Cell(a, k, s, p, h) = Cell(m, k, s, p, h)
    <2>1. k # l \/ (\A i \in 1..n : ~At(b, i, s, p))
      BY Zenon, <1>2, <1>6
    <2>2. Cell(b, k, s, p, h) = Cell(m, k, s, p, h)
      BY Zenon, <1>6 DEF AppendDone, CellsDone
    <2>3. Cell(a, k, s, p, h) = Cell(b, k, s, p, h)
      BY Zenon, <2>1 DEF AppendDone, CellsDone
    <2> QED BY Zenon, <2>2, <2>3
  <1> QED BY Zenon, <1>1, <1>4, <1>5, <1>6 DEF BothDone, AppendDone

\* The same values and the same pools.
LEMMA SameCells ==
  ASSUME NEW e, NEW f, f.kv = e.kv, NEW g
  PROVE  /\ Pools(e, g) => Pools(f, g)
         /\ \A l, s, p, h : Cell(f, l, s, p, h) = Cell(e, l, s, p, h)
  BY Zenon DEF Pools, Cell

\* The one launch of enqueue_stack.
LEMMA PrepDoes ==
  ASSUME NEW g, NEW m, IsMachine(m), Pools(m, g), NEW l \in Layers(g), NEW n,
         Placed(m, g, n), Plain(m, g, l, n)
  PROVE  PrepDone(m, Step(g, m, QkvPrep(g, l, n)), g, l, n)
  <1> DEFINE op == QkvPrep(g, l, n)
             y == Y(QkvRows(g, l))
             keys == [i \in 1..n |-> Turned(g.swa[l], Get(m, PosDev, i), Normed(<<"k_norm", l>>, Part(Get(m, y, i), "k")))]
             values == [i \in 1..n |-> Normed(<<"none">>, Part(Get(m, y, i), "v"))]
             heads == [i \in 1..n |-> Turned(g.swa[l], Get(m, PosDev, i), Normed(<<"q_norm", l>>, Part(Get(m, y, i), "q")))]
             b == AppendRows(m, l, n, "k", keys)
             a == AppendRows(b, l, n, "v", values)
             d == Put(a, AttnOut, heads)
             e == Step(g, m, op)
  <1>1. op.is = "prep" /\ op.n = n /\ op.layer = l /\ op.swa = g.swa[l] /\ op.in = y /\ op.out = AttnOut
    BY DEF QkvPrep
  <1>2. Exec(m, op) = d
    <2> HIDE DEF op, y
    <2>1. Exec(m, op) =
            LET head(i, s, w) == Normed(w, Part(Get(m, op.in, i), s))
                turned(i, t)  == Turned(op.swa, Get(m, PosDev, i), t)
                ks   == [i \in 1..op.n |-> turned(i, head(i, "k", <<"k_norm", op.layer>>))]
                vs == [i \in 1..op.n |-> head(i, "v", <<"none">>)]
                appended == AppendRows(AppendRows(m, op.layer, op.n, "k", ks), op.layer, op.n, "v", vs)
            IN  Put(appended, op.out, [i \in 1..op.n |-> turned(i, head(i, "q", <<"q_norm", op.layer>>))])
      BY Zenon, <1>1 DEF Exec
    <2> QED BY Zenon, <1>1, <2>1
  <1>3. \A i \in 1..n, s \in {"q", "k", "v"} : Part(Get(m, y, i), s) = <<"section", s, RowOfQkv(m, g, l, i)>>
    BY Zenon DEF Plain, Part, RowOfQkv
  <1>4. \A i \in 1..n : /\ heads[i] = QueryOf(m, g, l, i) /\ keys[i] = KeyOf(m, g, l, i)
                        /\ values[i] = ValueOf(m, g, l, i)
    <2> SUFFICES ASSUME NEW i \in 1..n
                 PROVE  /\ heads[i] = QueryOf(m, g, l, i) /\ keys[i] = KeyOf(m, g, l, i)
                        /\ values[i] = ValueOf(m, g, l, i)
      BY Zenon
    <2>1. /\ Part(Get(m, y, i), "q") = <<"section", "q", RowOfQkv(m, g, l, i)>>
          /\ Part(Get(m, y, i), "k") = <<"section", "k", RowOfQkv(m, g, l, i)>>
          /\ Part(Get(m, y, i), "v") = <<"section", "v", RowOfQkv(m, g, l, i)>>
      BY <1>3
    <2> QED BY Zenon, <2>1 DEF QueryOf, KeyOf, ValueOf
  <1>5. DOMAIN heads = 1..n
    OBVIOUS
  <1> HIDE DEF keys, values, heads, op, y
  <1>6. AppendDone(m, b, g, l, n, "k", keys)
    <2> "k" \in {"k", "v"}
      OBVIOUS
    <2> QED BY Zenon, AppendDoes
  <1>7. IsMachine(b) /\ Pools(b, g) /\ Placed(b, g, n)
    BY Zenon, <1>6, PlacesStay DEF AppendDone
  <1> HIDE DEF b
  <1>8. AppendDone(b, a, g, l, n, "v", values)
    <2> "v" \in {"k", "v"}
      OBVIOUS
    <2> QED BY Zenon, <1>7, AppendDoes
  <1>9. BothDone(m, a, g, l, n, keys, values)
    BY Zenon, <1>6, <1>8, BothAppended
  <1> HIDE DEF a
  <1>10. Wrote(a, d, AttnOut, heads)
    BY Zenon, <1>9, PutWrites DEF BothDone
  <1>11. SameValues(d, e)
    <2>1. IsMachine(Exec(m, op))
      BY Zenon, <1>2, <1>10 DEF Wrote, OnlyWrites
    <2>2. SameValues(Exec(m, op), e)
      BY Zenon, <2>1, StepIsExec
    <2> QED BY Zenon, <1>2, <2>2
  <1> HIDE DEF d, e
  <1>12. \A c, i : Get(e, c, i) = Get(d, c, i)
    BY Zenon, <1>11, SameAreRead
  <1>13. e.kv = a.kv /\ IsMachine(e)
    BY Zenon, <1>10, <1>11 DEF SameValues, Wrote, OnlyWrites
  <1>14. Pools(e, g) /\ \A k, s, p, h : Cell(e, k, s, p, h) = Cell(a, k, s, p, h)
    BY Zenon, <1>9, <1>13, SameCells DEF BothDone
  <1>15. ASSUME NEW c, c \notin {y, AttnOut} PROVE Keeps(m, e, c)
    <2>1. c \notin {AttnOut}
      BY <1>15
    <2>2. Keeps(m, a, c)
      BY Zenon, <1>9 DEF BothDone
    <2>3. \A i : Get(d, c, i) = Get(a, c, i)
      BY Zenon, <1>10, <2>1 DEF Wrote, OnlyWrites
    <2> QED BY Zenon, <1>12, <2>2, <2>3 DEF Keeps
  <1>16. \A i \in 1..n : Get(e, AttnOut, i) = QueryOf(m, g, l, i)
    BY Zenon, <1>4, <1>5, <1>10, <1>12 DEF Wrote
  <1>17. PrepDone(m, e, g, l, n)
    <2>1. ASSUME NEW i \in 1..n
          PROVE  /\ Cell(e, l, Get(m, SlotDev, i), Get(m, PosDev, i), "k") = KeyOf(m, g, l, i)
                 /\ Cell(e, l, Get(m, SlotDev, i), Get(m, PosDev, i), "v") = ValueOf(m, g, l, i)
      <3>1. /\ Cell(a, l, Get(m, SlotDev, i), Get(m, PosDev, i), "k") = keys[i]
            /\ Cell(a, l, Get(m, SlotDev, i), Get(m, PosDev, i), "v") = values[i]
        BY Zenon, <1>9 DEF BothDone
      <3>2. keys[i] = KeyOf(m, g, l, i) /\ values[i] = ValueOf(m, g, l, i)
        BY Zenon, <1>4
      <3> QED BY Zenon, <1>14, <3>1, <3>2
    <2>2. ASSUME NEW k \in Layers(g), NEW s \in Slots, NEW p \in Positions(g), NEW h \in {"k", "v"},
                 k # l \/ (\A i \in 1..n : ~At(m, i, s, p))
          PROVE  Cell(e, k, s, p, h) = Cell(m, k, s, p, h)
      <3>1. Cell(a, k, s, p, h) = Cell(m, k, s, p, h)
        BY Zenon, <1>9, <2>2 DEF BothDone
      <3> QED BY Zenon, <1>14, <3>1
    <2> QED BY Zenon, <1>13, <1>14, <1>15, <1>16, <2>1, <2>2 DEF PrepDone, y
  <1> QED BY Zenon, <1>17 DEF op, e

(***************************************************************************)
(* The sections of a row of qkv.                                           *)
(***************************************************************************)

SectionNames == {"q", "k", "v"}
Place(s) == CASE s = "q" -> 2 [] s = "k" -> 3 [] s = "v" -> 4

\* A row with one section replaced.
WithPart(row, s, new) == [Sections(row) EXCEPT ![Place(s)] = new]
IsWithPart(row, s, new) ==
  \A u \in SectionNames : Part(WithPart(row, s, new), u) = IF u = s THEN new ELSE Part(row, u)

\* The other sections are as they were.
LEMMA PartsAreReplaced ==
  ASSUME NEW row, NEW s \in SectionNames, NEW new
  PROVE  IsWithPart(row, s, new)
  <1> DEFINE a == Part(row, "q")
             b == Part(row, "k")
             c == Part(row, "v")
             all == <<"sections", a, b, c>>
             e == [all EXCEPT ![Place(s)] = new]
  <1>1. WithPart(row, s, new) = e
    BY Zenon DEF WithPart, Sections
  <1>2. Place("q") = 2 /\ Place("k") = 3 /\ Place("v") = 4
    BY DEF Place
  <1> DEFINE x == IF s = "q" THEN new ELSE a
             y == IF s = "k" THEN new ELSE b
             z == IF s = "v" THEN new ELSE c
  <1> HIDE DEF a, b, c
  <1>3. e = <<"sections", x, y, z>>
    <2>1. CASE s = "q"
      BY <1>2, <2>1
    <2>2. CASE s = "k"
      BY <1>2, <2>2
    <2>3. CASE s = "v"
      BY <1>2, <2>3
    <2> QED BY <2>1, <2>2, <2>3 DEF SectionNames
  <1> HIDE DEF e, x, y, z
  <1>4. e[1] = "sections" /\ e[2] = x /\ e[3] = y /\ e[4] = z
    BY <1>3
  <1>5. ASSUME NEW u \in SectionNames PROVE Part(e, u) = e[Place(u)]
    BY Zenon, <1>4, <1>5 DEF Part, Place
  <1>6. Part(e, "q") = x /\ Part(e, "k") = y /\ Part(e, "v") = z
    BY <1>2, <1>4, <1>5 DEF SectionNames
  <1>7. ASSUME NEW u \in SectionNames PROVE Part(e, u) = IF u = s THEN new ELSE Part(row, u)
    <2>1. CASE u = "q"
      BY Zenon, <1>6, <2>1 DEF x, a
    <2>2. CASE u = "k"
      BY Zenon, <1>6, <2>2 DEF y, b
    <2>3. CASE u = "v"
      BY Zenon, <1>6, <2>3 DEF z, c
    <2> QED BY <2>1, <2>2, <2>3 DEF SectionNames
  <1> QED BY Zenon, <1>1, <1>7 DEF IsWithPart

\* A row split into its sections has them.
PartStays(row, s) == Part(Sections(row), s) = Part(row, s)

\* The sections of a row are those that the row was split from.
LEMMA PartsStay ==
  ASSUME NEW row, NEW s \in SectionNames
  PROVE  PartStays(row, s)
  <1> DEFINE a == Part(row, "q")
             b == Part(row, "k")
             c == Part(row, "v")
             e == <<"sections", a, b, c>>
  <1>1. Sections(row) = e
    BY Zenon DEF Sections
  <1> HIDE DEF a, b, c
  <1>2. e[1] = "sections" /\ e[2] = a /\ e[3] = b /\ e[4] = c
    OBVIOUS
  <1> HIDE DEF e
  <1>3. Part(e, "q") = a /\ Part(e, "k") = b /\ Part(e, "v") = c
    BY <1>2 DEF Part
  <1>4. Part(e, s) = Part(row, s)
    <2>1. CASE s = "q"
      BY Zenon, <1>3, <2>1 DEF a
    <2>2. CASE s = "k"
      BY Zenon, <1>3, <2>2 DEF b
    <2>3. CASE s = "v"
      BY Zenon, <1>3, <2>3 DEF c
    <2> QED BY <2>1, <2>2, <2>3 DEF SectionNames
  <1> QED BY Zenon, <1>1, <1>4 DEF PartStays

\* What a launch on one section of the rows does to their sections.
NormDone(m, e, y, n, s, w) ==
  /\ OnlyWrites(m, e, {y})
  /\ \A i \in 1..n : \A u \in SectionNames :
       Part(Get(e, y, i), u) = IF u = s THEN Normed(w, Part(Get(m, y, i), s)) ELSE Part(Get(m, y, i), u)
TurnDone(m, e, y, n, s, swa) ==
  /\ OnlyWrites(m, e, {y})
  /\ \A i \in 1..n : \A u \in SectionNames :
       Part(Get(e, y, i), u) = IF u = s THEN Turned(swa, Get(m, PosDev, i), Part(Get(m, y, i), s))
                               ELSE Part(Get(m, y, i), u)

\* The norm of a section's heads.
LEMMA NormDoes ==
  ASSUME NEW g, NEW m, IsMachine(m), NEW l, NEW w, NEW offset, NEW n,
         Section(g, l, offset) \in SectionNames
  PROVE  NormDone(m, Step(g, m, RmsnormHeads(g, l, w, offset, n)), Y(QkvRows(g, l)), n, Section(g, l, offset), w)
  <1> DEFINE op == RmsnormHeads(g, l, w, offset, n)
             y == Y(QkvRows(g, l))
             s == Section(g, l, offset)
             new(i) == Normed(w, Part(Get(m, y, i), s))
             rows == [i \in 1..n |-> WithPart(Get(m, y, i), s, new(i))]
             e == Step(g, m, op)
  <1>1. /\ op.is = "section" /\ op.n = n /\ op.does = <<"rmsnorm", w>> /\ op.section = s /\ op.turns = FALSE
        /\ op.out = y
    BY DEF RmsnormHeads
  <1> HIDE DEF op, y
  <1>2. ASSUME NEW i
        PROVE  (<<"rmsnorm", w>> \o (IF FALSE THEN <<Get(m, PosDev, i)>> ELSE <<>>)) \o <<Part(Sections(Get(m, y, i)), s)>> = new(i)
    <2> DEFINE x == Part(Get(m, y, i), s)
    <2>1. Part(Sections(Get(m, y, i)), s) = x
      <3>1. PartStays(Get(m, y, i), s)
        BY Zenon, PartsStay
      <3> QED BY Zenon, <3>1 DEF PartStays
    <2> HIDE DEF x
    <2>2. <<"rmsnorm", w>> \o <<>> = <<"rmsnorm", w>>
      BY Zenon, TwoAndNone
    <2>3. <<"rmsnorm", w>> \o <<x>> = <<"rmsnorm", w, x>>
      BY Zenon, ThreeAreJoined DEF JoinedIs
    <2> QED BY Zenon, <2>1, <2>2, <2>3 DEF Normed, x
  <1>3. Exec(m, op) = Put(m, y, rows)
    <2> HIDE DEF new, s
    <2>1. Exec(m, op) = Put(m, op.out, [i \in 1..op.n |->
            WithPart(Get(m, op.out, i), op.section,
              (op.does \o (IF op.turns THEN <<Get(m, PosDev, i)>> ELSE <<>>)) \o <<Part(Sections(Get(m, op.out, i)), op.section)>>)])
      BY Zenon, <1>1 DEF Exec, WithPart, Place
    <2> QED BY Zenon, <1>1, <1>2, <2>1
  <1>4. DOMAIN rows = 1..n /\ \A i \in 1..n : rows[i] = WithPart(Get(m, y, i), s, new(i))
    BY Zenon
  <1>5. \A i \in 1..n : IsWithPart(Get(m, y, i), s, new(i))
    <2> HIDE DEF new, s
    <2> SUFFICES ASSUME NEW i \in 1..n PROVE IsWithPart(Get(m, y, i), s, new(i))
      BY Zenon
    <2> s \in SectionNames
      BY Zenon DEF s
    <2> QED BY Zenon, PartsAreReplaced
  <1> HIDE DEF rows
  <1>6. Wrote(m, e, y, rows)
    BY Zenon, <1>3, StepWrites
  <1>7. NormDone(m, e, y, n, s, w)
    BY Zenon, <1>4, <1>5, <1>6 DEF Wrote, IsWithPart, NormDone
  <1> QED BY Zenon, <1>7 DEF op, y

\* The rotation of a section's heads.
LEMMA TurnDoes ==
  ASSUME NEW g, NEW m, IsMachine(m), NEW l, NEW offset, NEW n,
         Section(g, l, offset) \in SectionNames
  PROVE  TurnDone(m, Step(g, m, RopeHeads(g, l, offset, n)), Y(QkvRows(g, l)), n, Section(g, l, offset), g.swa[l])
  <1> DEFINE op == RopeHeads(g, l, offset, n)
             y == Y(QkvRows(g, l))
             s == Section(g, l, offset)
             swa == g.swa[l]
             new(i) == Turned(swa, Get(m, PosDev, i), Part(Get(m, y, i), s))
             rows == [i \in 1..n |-> WithPart(Get(m, y, i), s, new(i))]
             e == Step(g, m, op)
  <1>1. /\ op.is = "section" /\ op.n = n /\ op.does = <<"rope", swa>> /\ op.section = s /\ op.turns = TRUE
        /\ op.out = y
    BY DEF RopeHeads
  <1> HIDE DEF op, y, swa
  <1>2. ASSUME NEW i
        PROVE  (<<"rope", swa>> \o (IF TRUE THEN <<Get(m, PosDev, i)>> ELSE <<>>)) \o <<Part(Sections(Get(m, y, i)), s)>> = new(i)
    <2> DEFINE x == Part(Get(m, y, i), s)
               p == Get(m, PosDev, i)
    <2>1. Part(Sections(Get(m, y, i)), s) = x
      <3>1. PartStays(Get(m, y, i), s)
        BY Zenon, PartsStay
      <3> QED BY Zenon, <3>1 DEF PartStays
    <2> HIDE DEF x, p
    <2>2. <<"rope", swa>> \o <<p>> = <<"rope", swa, p>>
      BY Zenon, ThreeAreJoined DEF JoinedIs
    <2>3. <<"rope", swa, p>> \o <<x>> = <<"rope", swa, p, x>>
      BY Zenon, ThreeAndOne DEF JoinedIs
    <2> QED BY Zenon, <2>1, <2>2, <2>3 DEF Turned, x, p
  <1>3. Exec(m, op) = Put(m, y, rows)
    <2> HIDE DEF new, s
    <2>1. Exec(m, op) = Put(m, op.out, [i \in 1..op.n |->
            WithPart(Get(m, op.out, i), op.section,
              (op.does \o (IF op.turns THEN <<Get(m, PosDev, i)>> ELSE <<>>)) \o <<Part(Sections(Get(m, op.out, i)), op.section)>>)])
      BY Zenon, <1>1 DEF Exec, WithPart, Place
    <2> QED BY Zenon, <1>1, <1>2, <2>1
  <1>4. DOMAIN rows = 1..n /\ \A i \in 1..n : rows[i] = WithPart(Get(m, y, i), s, new(i))
    BY Zenon
  <1>5. \A i \in 1..n : IsWithPart(Get(m, y, i), s, new(i))
    <2> HIDE DEF new, s
    <2> SUFFICES ASSUME NEW i \in 1..n PROVE IsWithPart(Get(m, y, i), s, new(i))
      BY Zenon
    <2> s \in SectionNames
      BY Zenon DEF s
    <2> QED BY Zenon, PartsAreReplaced
  <1> HIDE DEF rows
  <1>6. Wrote(m, e, y, rows)
    BY Zenon, <1>3, StepWrites
  <1>7. TurnDone(m, e, y, n, s, swa)
    BY Zenon, <1>4, <1>5, <1>6 DEF Wrote, IsWithPart, TurnDone
  <1> QED BY Zenon, <1>7 DEF op, y, swa

\* The append of a section.
Rest(m, n, y, s) == [i \in 1..n |-> Part(Get(m, y, i), s)]

\* The append puts a section of each row into the pool, at its slot and position.
LEMMA KvAppendDoes ==
  ASSUME NEW g, NEW m, IsMachine(m), Pools(m, g), NEW l \in Layers(g), NEW offset, NEW n,
         Placed(m, g, n),
         Section(g, l, offset) \in {"k", "v"}
  PROVE  AppendDone(m, Step(g, m, KvAppend(g, l, offset, n)), g, l, n, Section(g, l, offset),
                    Rest(m, n, Y(QkvRows(g, l)), Section(g, l, offset)))
  <1> DEFINE op == KvAppend(g, l, offset, n)
             y == Y(QkvRows(g, l))
             s == Section(g, l, offset)
             t == Rest(m, n, y, s)
             d == AppendRows(m, l, n, s, t)
             e == Step(g, m, op)
  <1>1. op.is = "append" /\ op.n = n /\ op.layer = l /\ op.section = s /\ op.in = y
    BY DEF KvAppend
  <1> HIDE DEF op, y
  <1>2. Exec(m, op) = d
    <2> HIDE DEF s
    <2>1. Exec(m, op) = AppendRows(m, op.layer, op.n, op.section, [i \in 1..op.n |-> Part(Get(m, op.in, i), op.section)])
      BY Zenon, <1>1 DEF Exec
    <2> QED BY Zenon, <1>1, <2>1 DEF Rest
  <1>3. AppendDone(m, d, g, l, n, s, t)
    <2> HIDE DEF s, t
    <2> s \in {"k", "v"}
      BY Zenon DEF s
    <2> QED BY Zenon, AppendDoes
  <1>4. SameValues(d, e)
    <2>1. IsMachine(Exec(m, op))
      BY Zenon, <1>2, <1>3 DEF AppendDone
    <2>2. SameValues(Exec(m, op), e)
      BY Zenon, <2>1, StepIsExec
    <2> QED BY Zenon, <1>2, <2>2
  <1> HIDE DEF d, e, t, s
  <1>5. \A c, i : Get(e, c, i) = Get(d, c, i)
    BY Zenon, <1>4, SameAreRead
  <1>6. e.kv = d.kv /\ IsMachine(e)
    BY Zenon, <1>4 DEF SameValues
  <1>7. Pools(e, g) /\ \A k, u, p, h : Cell(e, k, u, p, h) = Cell(d, k, u, p, h)
    BY Zenon, <1>3, <1>6, SameCells DEF AppendDone
  <1>8. \A c : Keeps(m, e, c)
    BY Zenon, <1>3, <1>5 DEF AppendDone, Keeps
  <1>9. CellsDone(m, e, g, l, n, s, t)
    <2>1. CellsDone(m, d, g, l, n, s, t)
      BY Zenon, <1>3 DEF AppendDone
    <2>2. ASSUME NEW i \in 1..n PROVE Cell(e, l, Get(m, SlotDev, i), Get(m, PosDev, i), s) = t[i]
      <3>1. Cell(d, l, Get(m, SlotDev, i), Get(m, PosDev, i), s) = t[i]
        BY Zenon, <2>1 DEF CellsDone
      <3> QED BY Zenon, <1>7, <3>1
    <2>3. ASSUME NEW k \in Layers(g), NEW u \in Slots, NEW p \in Positions(g), NEW h \in {"k", "v"},
                 k # l \/ h # s \/ (\A i \in 1..n : ~At(m, i, u, p))
          PROVE  Cell(e, k, u, p, h) = Cell(m, k, u, p, h)
      <3>1. Cell(d, k, u, p, h) = Cell(m, k, u, p, h)
        BY Zenon, <2>1, <2>3 DEF CellsDone
      <3> QED BY Zenon, <1>7, <3>1
    <2> QED BY Zenon, <2>2, <2>3 DEF CellsDone
  <1>10. AppendDone(m, e, g, l, n, s, t)
    BY Zenon, <1>6, <1>7, <1>8, <1>9 DEF AppendDone
  <1> QED BY Zenon, <1>10 DEF op, y, s, t, e

\* The queries gathered.
GatherDone(m, e, y, n, s, dst) ==
  OnlyWrites(m, e, {dst}) /\ \A i \in 1..n : Get(e, dst, i) = Part(Get(m, y, i), s)

\* A gather copies a section of each row.
LEMMA GatherDoes ==
  ASSUME NEW g, NEW m, IsMachine(m), NEW l, NEW offset, NEW dst, NEW n
  PROVE  GatherDone(m, Step(g, m, GatherRows(g, l, offset, dst, n)), Y(QkvRows(g, l)), n, Section(g, l, offset), dst)
  <1> DEFINE op == GatherRows(g, l, offset, dst, n)
             y == Y(QkvRows(g, l))
             s == Section(g, l, offset)
             rows == Rest(m, n, y, s)
             e == Step(g, m, op)
  <1>1. op.is = "gather" /\ op.n = n /\ op.section = s /\ op.in = y /\ op.out = dst
    BY DEF GatherRows
  <1> HIDE DEF op, y, s
  <1>2. Exec(m, op) = Put(m, dst, rows)
    <2>1. Exec(m, op) = Put(m, op.out, [i \in 1..op.n |-> Part(Get(m, op.in, i), op.section)])
      BY Zenon, <1>1 DEF Exec
    <2> QED BY Zenon, <1>1, <2>1 DEF Rest
  <1>3. DOMAIN rows = 1..n /\ \A i \in 1..n : rows[i] = Part(Get(m, y, i), s)
    BY Zenon DEF Rest
  <1> HIDE DEF rows
  <1>4. Wrote(m, e, dst, rows)
    BY Zenon, <1>2, StepWrites
  <1>5. GatherDone(m, e, y, n, s, dst)
    BY Zenon, <1>3, <1>4 DEF Wrote, GatherDone
  <1> QED BY Zenon, <1>5 DEF op, y, s

\* The offsets of the sections.
LEMMA SectionsAre ==
  ASSUME NEW g, NEW l, QRows(g, l) \in Nat \ {0}, KvDim(g, l) \in Nat \ {0}
  PROVE  /\ Section(g, l, 0) = "q" /\ Section(g, l, QRows(g, l)) = "k"
         /\ Section(g, l, QRows(g, l) + KvDim(g, l)) = "v"
  <1> DEFINE q == QRows(g, l)
             d == KvDim(g, l)
  <1>1. q # 0 /\ q + d # 0 /\ q + d # q
    OBVIOUS
  <1> HIDE DEF q, d
  <1>2. Section(g, l, 0) = "q"
    BY <1>1 DEF Section, q, d
  <1>3. Section(g, l, q) = "k"
    BY <1>1 DEF Section, q, d
  <1>4. Section(g, l, q + d) = "v"
    BY <1>1 DEF Section, q, d
  <1> QED BY Zenon, <1>2, <1>3, <1>4 DEF q, d

\* The machines between the eight launches of forward_batch.
HeadsGo(g, l, n, m, m1, m2, m3, m4, m5, m6, m7, m8) ==
  LET y == Y(QkvRows(g, l))
  IN  /\ NormDone(m, m1, y, n, "q", <<"q_norm", l>>)
      /\ NormDone(m1, m2, y, n, "k", <<"k_norm", l>>)
      /\ NormDone(m2, m3, y, n, "v", <<"none">>)
      /\ TurnDone(m3, m4, y, n, "q", g.swa[l])
      /\ TurnDone(m4, m5, y, n, "k", g.swa[l])
      /\ AppendDone(m5, m6, g, l, n, "k", Rest(m5, n, y, "k"))
      /\ AppendDone(m6, m7, g, l, n, "v", Rest(m6, n, y, "v"))
      /\ GatherDone(m7, m8, y, n, "q", AttnOut)

\* What the first five leave in the sections.
SectionsReady(m, e, g, l, n) ==
  \A i \in 1..n : LET row == Get(e, Y(QkvRows(g, l)), i)
                  IN  /\ Part(row, "q") = QueryOf(m, g, l, i) /\ Part(row, "k") = KeyOf(m, g, l, i)
                      /\ Part(row, "v") = ValueOf(m, g, l, i)

\* The heads.
LEMMA SectionsBecomeReady ==
  ASSUME NEW g, NEW l, NEW n, NEW m, NEW m1, NEW m2, NEW m3, NEW m4, NEW m5, NEW m6, NEW m7, NEW m8,
         HeadsGo(g, l, n, m, m1, m2, m3, m4, m5, m6, m7, m8), Plain(m, g, l, n)
  PROVE  SectionsReady(m, m5, g, l, n) /\ OnlyWrites(m, m5, {Y(QkvRows(g, l))})
  <1> DEFINE y == Y(QkvRows(g, l))
             swa == g.swa[l]
  <1>1. /\ NormDone(m, m1, y, n, "q", <<"q_norm", l>>) /\ NormDone(m1, m2, y, n, "k", <<"k_norm", l>>)
        /\ NormDone(m2, m3, y, n, "v", <<"none">>) /\ TurnDone(m3, m4, y, n, "q", swa)
        /\ TurnDone(m4, m5, y, n, "k", swa)
    BY Zenon DEF HeadsGo
  <1>2. /\ OnlyWrites(m, m1, {y}) /\ OnlyWrites(m1, m2, {y}) /\ OnlyWrites(m2, m3, {y})
        /\ OnlyWrites(m3, m4, {y}) /\ OnlyWrites(m4, m5, {y})
    BY Zenon, <1>1 DEF NormDone, TurnDone
  <1>3. PosDev \notin {y}
    BY DEF PosDev, y, Y
  <1>4. \A i \in 1..n : /\ Part(Get(m, y, i), "q") = <<"section", "q", RowOfQkv(m, g, l, i)>>
                        /\ Part(Get(m, y, i), "k") = <<"section", "k", RowOfQkv(m, g, l, i)>>
                        /\ Part(Get(m, y, i), "v") = <<"section", "v", RowOfQkv(m, g, l, i)>>
    BY Zenon DEF Plain, Part, RowOfQkv
  <1> HIDE DEF y, swa
  <1>5. {y} \cup {y} \subseteq {y}
    OBVIOUS
  <1>6. OnlyWrites(m, m3, {y}) /\ OnlyWrites(m, m4, {y})
    <2>1. OnlyWrites(m, m2, {y})
      BY Zenon, <1>2, <1>5, WritesInTurn
    <2>2. OnlyWrites(m, m3, {y})
      BY Zenon, <1>2, <1>5, <2>1, WritesInTurn
    <2>3. OnlyWrites(m, m4, {y})
      BY Zenon, <1>2, <1>5, <2>2, WritesInTurn
    <2> QED BY <2>2, <2>3
  <1>7. OnlyWrites(m, m5, {y})
    BY Zenon, <1>2, <1>5, <1>6, WritesInTurn
  <1>8. \A i : Get(m3, PosDev, i) = Get(m, PosDev, i) /\ Get(m4, PosDev, i) = Get(m, PosDev, i)
    BY Zenon, <1>3, <1>6 DEF OnlyWrites
  <1>9. ASSUME NEW i \in 1..n
        PROVE  /\ Part(Get(m5, y, i), "q") = QueryOf(m, g, l, i) /\ Part(Get(m5, y, i), "k") = KeyOf(m, g, l, i)
               /\ Part(Get(m5, y, i), "v") = ValueOf(m, g, l, i)
    <2>0. /\ "q" \in SectionNames /\ "k" \in SectionNames /\ "v" \in SectionNames
          /\ "q" # "k" /\ "q" # "v" /\ "k" # "v"
      BY DEF SectionNames
    <2> DEFINE a == <<"section", "q", RowOfQkv(m, g, l, i)>>
               b == <<"section", "k", RowOfQkv(m, g, l, i)>>
               c == <<"section", "v", RowOfQkv(m, g, l, i)>>
               p == Get(m, PosDev, i)
    <2>1. Part(Get(m, y, i), "q") = a /\ Part(Get(m, y, i), "k") = b /\ Part(Get(m, y, i), "v") = c
      BY Zenon, <1>4
    <2>2. Get(m3, PosDev, i) = p /\ Get(m4, PosDev, i) = p
      BY Zenon, <1>8
    <2> HIDE DEF a, b, c, p
    <2>3. /\ Part(Get(m1, y, i), "q") = Normed(<<"q_norm", l>>, a)
          /\ Part(Get(m1, y, i), "k") = b /\ Part(Get(m1, y, i), "v") = c
      BY Zenon, <1>1, <2>0, <2>1 DEF NormDone
    <2>4. /\ Part(Get(m2, y, i), "q") = Normed(<<"q_norm", l>>, a)
          /\ Part(Get(m2, y, i), "k") = Normed(<<"k_norm", l>>, b) /\ Part(Get(m2, y, i), "v") = c
      BY Zenon, <1>1, <2>0, <2>3 DEF NormDone
    <2>5. /\ Part(Get(m3, y, i), "q") = Normed(<<"q_norm", l>>, a)
          /\ Part(Get(m3, y, i), "k") = Normed(<<"k_norm", l>>, b)
          /\ Part(Get(m3, y, i), "v") = Normed(<<"none">>, c)
      BY Zenon, <1>1, <2>0, <2>4 DEF NormDone
    <2>6. /\ Part(Get(m4, y, i), "q") = Turned(swa, p, Normed(<<"q_norm", l>>, a))
          /\ Part(Get(m4, y, i), "k") = Normed(<<"k_norm", l>>, b)
          /\ Part(Get(m4, y, i), "v") = Normed(<<"none">>, c)
      BY Zenon, <1>1, <2>0, <2>2, <2>5 DEF TurnDone
    <2>7. /\ Part(Get(m5, y, i), "q") = Turned(swa, p, Normed(<<"q_norm", l>>, a))
          /\ Part(Get(m5, y, i), "k") = Turned(swa, p, Normed(<<"k_norm", l>>, b))
          /\ Part(Get(m5, y, i), "v") = Normed(<<"none">>, c)
      BY Zenon, <1>1, <2>0, <2>2, <2>6 DEF TurnDone
    <2> QED BY Zenon, <2>7 DEF QueryOf, KeyOf, ValueOf, a, b, c, p, swa
  <1> QED BY Zenon, <1>7, <1>9 DEF SectionsReady, y

\* The heads and the pools.
LEMMA HeadsGoOn ==
  ASSUME NEW g, NEW l \in Layers(g), NEW n, NEW m, NEW m1, NEW m2, NEW m3, NEW m4, NEW m5,
         NEW m6, NEW m7, NEW m8,
         HeadsGo(g, l, n, m, m1, m2, m3, m4, m5, m6, m7, m8), Plain(m, g, l, n), Pools(m, g), Placed(m, g, n)
  PROVE  PrepDone(m, m8, g, l, n)
  <1> DEFINE y == Y(QkvRows(g, l))
             ks == Rest(m5, n, y, "k")
             vs == Rest(m6, n, y, "v")
  <1>1. SectionsReady(m, m5, g, l, n) /\ OnlyWrites(m, m5, {y})
    BY Zenon, SectionsBecomeReady
  <1>2. /\ AppendDone(m5, m6, g, l, n, "k", ks) /\ AppendDone(m6, m7, g, l, n, "v", vs)
        /\ GatherDone(m7, m8, y, n, "q", AttnOut)
    BY Zenon DEF HeadsGo
  <1>3. SlotDev \notin {y} /\ PosDev \notin {y}
    BY DEF SlotDev, PosDev, y, Y
  <1>4. Keeps(m, m5, SlotDev) /\ Keeps(m, m5, PosDev)
    BY Zenon, <1>1, <1>3, WritesElsewhere
  <1>5. Placed(m5, g, n) /\ \A i, s, p : At(m5, i, s, p) <=> At(m, i, s, p)
    BY Zenon, <1>4, PlacesStay
  <1> HIDE DEF y, ks, vs
  <1>6. BothDone(m5, m7, g, l, n, ks, vs)
    BY Zenon, <1>2, <1>5, BothAppended
  <1>7. ASSUME NEW i \in 1..n
        PROVE  /\ ks[i] = KeyOf(m, g, l, i) /\ vs[i] = ValueOf(m, g, l, i)
               /\ Part(Get(m7, y, i), "q") = QueryOf(m, g, l, i)
    <2>1. ks[i] = Part(Get(m5, y, i), "k") /\ vs[i] = Part(Get(m6, y, i), "v")
      BY Zenon DEF ks, vs, Rest
    <2>2. Get(m6, y, i) = Get(m5, y, i) /\ Get(m7, y, i) = Get(m5, y, i)
      BY Zenon, <1>2 DEF AppendDone, Keeps
    <2>3. /\ Part(Get(m5, y, i), "q") = QueryOf(m, g, l, i) /\ Part(Get(m5, y, i), "k") = KeyOf(m, g, l, i)
          /\ Part(Get(m5, y, i), "v") = ValueOf(m, g, l, i)
      BY Zenon, <1>1 DEF SectionsReady, y
    <2> QED BY Zenon, <2>1, <2>2, <2>3
  <1>8. m5.kv = m.kv /\ m8.kv = m7.kv /\ IsMachine(m8)
    BY Zenon, <1>1, <1>2 DEF OnlyWrites, GatherDone
  <1>9. /\ Pools(m8, g) /\ \A k, s, p, h : Cell(m8, k, s, p, h) = Cell(m7, k, s, p, h)
        /\ \A k, s, p, h : Cell(m5, k, s, p, h) = Cell(m, k, s, p, h)
    BY Zenon, <1>6, <1>8, SameCells DEF BothDone
  <1>10. ASSUME NEW c, c \notin {y, AttnOut} PROVE Keeps(m, m8, c)
    <2>1. c \notin {AttnOut} /\ c \notin {y}
      BY <1>10
    <2>2. Keeps(m, m5, c)
      BY Zenon, <1>1, <2>1, WritesElsewhere
    <2>3. Keeps(m5, m7, c)
      BY Zenon, <1>6 DEF BothDone
    <2>4. OnlyWrites(m7, m8, {AttnOut})
      BY Zenon, <1>2 DEF GatherDone
    <2>5. Keeps(m7, m8, c)
      BY Zenon, <2>1, <2>4, WritesElsewhere
    <2> QED BY Zenon, <2>2, <2>3, <2>5 DEF Keeps
  <1>11. ASSUME NEW i \in 1..n PROVE Get(m8, AttnOut, i) = QueryOf(m, g, l, i)
    <2>1. Get(m8, AttnOut, i) = Part(Get(m7, y, i), "q")
      BY Zenon, <1>2 DEF GatherDone
    <2> QED BY Zenon, <1>7, <2>1
  <1>12. ASSUME NEW i \in 1..n
         PROVE  /\ Cell(m8, l, Get(m, SlotDev, i), Get(m, PosDev, i), "k") = KeyOf(m, g, l, i)
                /\ Cell(m8, l, Get(m, SlotDev, i), Get(m, PosDev, i), "v") = ValueOf(m, g, l, i)
    <2>1. Get(m5, SlotDev, i) = Get(m, SlotDev, i) /\ Get(m5, PosDev, i) = Get(m, PosDev, i)
      BY Zenon, <1>4 DEF Keeps
    <2>2. /\ Cell(m7, l, Get(m, SlotDev, i), Get(m, PosDev, i), "k") = ks[i]
          /\ Cell(m7, l, Get(m, SlotDev, i), Get(m, PosDev, i), "v") = vs[i]
      BY Zenon, <1>6, <2>1 DEF BothDone
    <2> QED BY Zenon, <1>7, <1>9, <2>2
  <1>13. ASSUME NEW k \in Layers(g), NEW s \in Slots, NEW p \in Positions(g), NEW h \in {"k", "v"},
                k # l \/ (\A i \in 1..n : ~At(m, i, s, p))
         PROVE  Cell(m8, k, s, p, h) = Cell(m, k, s, p, h)
    <2>1. k # l \/ (\A i \in 1..n : ~At(m5, i, s, p))
      BY Zenon, <1>5, <1>13
    <2>2. Cell(m7, k, s, p, h) = Cell(m5, k, s, p, h)
      BY Zenon, <1>6, <2>1 DEF BothDone
    <2> QED BY Zenon, <1>9, <2>2
  <1> QED BY Zenon, <1>8, <1>9, <1>10, <1>11, <1>12, <1>13 DEF PrepDone, y

\* The eight launches of forward_batch.
LEMMA HeadsDo ==
  ASSUME NEW g, NEW m, IsMachine(m), Pools(m, g), NEW l \in Layers(g), NEW n,
         Placed(m, g, n), Plain(m, g, l, n),
         QRows(g, l) \in Nat \ {0}, KvDim(g, l) \in Nat \ {0}
  PROVE  PrepDone(m, Run(g, m, QkvHeads(g, l, n)), g, l, n)
  <1> DEFINE y == Y(QkvRows(g, l))
             k == QRows(g, l)
             v == QRows(g, l) + KvDim(g, l)
             a == RmsnormHeads(g, l, <<"q_norm", l>>, 0, n)
             b == RmsnormHeads(g, l, <<"k_norm", l>>, k, n)
             c == RmsnormHeads(g, l, <<"none">>, v, n)
             d == RopeHeads(g, l, 0, n)
             e == RopeHeads(g, l, k, n)
             f == KvAppend(g, l, k, n)
             h == KvAppend(g, l, v, n)
             i == GatherRows(g, l, 0, AttnOut, n)
             m1 == Step(g, m, a)
             m2 == Step(g, m1, b)
             m3 == Step(g, m2, c)
             m4 == Step(g, m3, d)
             m5 == Step(g, m4, e)
             m6 == Step(g, m5, f)
             m7 == Step(g, m6, h)
             m8 == Step(g, m7, i)
  <1>1. Run(g, m, QkvHeads(g, l, n)) = m8
    <2>1. QkvHeads(g, l, n) = <<a, b, c, d, e, f, h, i>>
      BY Zenon DEF QkvHeads
    <2> HIDE DEF a, b, c, d, e, f, h, i
    <2>2. RunsTo(g, m, <<a, b, c, d, e, f, h, i>>, m8)
      BY Zenon, RunEight
    <2> QED BY Zenon, <2>1, <2>2 DEF RunsTo
  <1>2. Section(g, l, 0) = "q" /\ Section(g, l, k) = "k" /\ Section(g, l, v) = "v"
    BY SectionsAre
  <1>3. Section(g, l, 0) \in SectionNames /\ Section(g, l, k) \in SectionNames /\ Section(g, l, v) \in SectionNames
        /\ Section(g, l, k) \in {"k", "v"} /\ Section(g, l, v) \in {"k", "v"}
    BY <1>2 DEF SectionNames
  <1> HIDE DEF k, v
  <1>4. NormDone(m, m1, y, n, "q", <<"q_norm", l>>) /\ IsMachine(m1)
    <2>1. NormDone(m, m1, y, n, Section(g, l, 0), <<"q_norm", l>>)
      BY Zenon, <1>3, NormDoes
    <2> QED BY Zenon, <1>2, <2>1 DEF NormDone, OnlyWrites
  <1> HIDE DEF m1
  <1>5. NormDone(m1, m2, y, n, "k", <<"k_norm", l>>) /\ IsMachine(m2)
    <2>1. NormDone(m1, m2, y, n, Section(g, l, k), <<"k_norm", l>>)
      BY Zenon, <1>3, <1>4, NormDoes
    <2> QED BY Zenon, <1>2, <2>1 DEF NormDone, OnlyWrites
  <1> HIDE DEF m2
  <1>6. NormDone(m2, m3, y, n, "v", <<"none">>) /\ IsMachine(m3)
    <2>1. NormDone(m2, m3, y, n, Section(g, l, v), <<"none">>)
      BY Zenon, <1>3, <1>5, NormDoes
    <2> QED BY Zenon, <1>2, <2>1 DEF NormDone, OnlyWrites
  <1> HIDE DEF m3
  <1>7. TurnDone(m3, m4, y, n, "q", g.swa[l]) /\ IsMachine(m4)
    <2>1. TurnDone(m3, m4, y, n, Section(g, l, 0), g.swa[l])
      BY Zenon, <1>3, <1>6, TurnDoes
    <2> QED BY Zenon, <1>2, <2>1 DEF TurnDone, OnlyWrites
  <1> HIDE DEF m4
  <1>8. TurnDone(m4, m5, y, n, "k", g.swa[l]) /\ IsMachine(m5)
    <2>1. TurnDone(m4, m5, y, n, Section(g, l, k), g.swa[l])
      BY Zenon, <1>3, <1>7, TurnDoes
    <2> QED BY Zenon, <1>2, <2>1 DEF TurnDone, OnlyWrites
  <1> HIDE DEF m5
  <1>9. Pools(m5, g) /\ Placed(m5, g, n)
    <2>1. /\ OnlyWrites(m, m1, {y}) /\ OnlyWrites(m1, m2, {y}) /\ OnlyWrites(m2, m3, {y})
          /\ OnlyWrites(m3, m4, {y}) /\ OnlyWrites(m4, m5, {y})
      BY Zenon, <1>4, <1>5, <1>6, <1>7, <1>8 DEF NormDone, TurnDone
    <2>2. SlotDev \notin {y} /\ PosDev \notin {y}
      BY DEF SlotDev, PosDev, y, Y
    <2>3. m5.kv = m.kv
      BY Zenon, <2>1 DEF OnlyWrites
    <2> HIDE DEF y
    <2>4. OnlyWrites(m, m5, {y})
      <3>0. {y} \cup {y} \subseteq {y}
        OBVIOUS
      <3>1. OnlyWrites(m, m2, {y})
        BY Zenon, <2>1, <3>0, WritesInTurn
      <3>2. OnlyWrites(m, m3, {y})
        BY Zenon, <2>1, <3>0, <3>1, WritesInTurn
      <3>3. OnlyWrites(m, m4, {y})
        BY Zenon, <2>1, <3>0, <3>2, WritesInTurn
      <3> QED BY Zenon, <2>1, <3>0, <3>3, WritesInTurn
    <2>5. Keeps(m, m5, SlotDev) /\ Keeps(m, m5, PosDev)
      BY Zenon, <2>2, <2>4, WritesElsewhere
    <2> QED BY Zenon, <2>3, <2>5, PlacesStay, SameCells
  <1>10. AppendDone(m5, m6, g, l, n, "k", Rest(m5, n, y, "k"))
    <2>1. AppendDone(m5, m6, g, l, n, Section(g, l, k), Rest(m5, n, y, Section(g, l, k)))
      BY Zenon, <1>3, <1>8, <1>9, KvAppendDoes
    <2> QED BY Zenon, <1>2, <2>1
  <1> HIDE DEF m6
  <1>11. IsMachine(m6) /\ Pools(m6, g) /\ Placed(m6, g, n)
    <2>1. Keeps(m5, m6, SlotDev) /\ Keeps(m5, m6, PosDev)
      BY Zenon, <1>10 DEF AppendDone
    <2> QED BY Zenon, <1>9, <1>10, <2>1, PlacesStay DEF AppendDone
  <1>12. AppendDone(m6, m7, g, l, n, "v", Rest(m6, n, y, "v")) /\ IsMachine(m7)
    <2>1. AppendDone(m6, m7, g, l, n, Section(g, l, v), Rest(m6, n, y, Section(g, l, v)))
      BY Zenon, <1>3, <1>11, KvAppendDoes
    <2> QED BY Zenon, <1>2, <2>1 DEF AppendDone
  <1> HIDE DEF m7
  <1>13. GatherDone(m7, m8, y, n, "q", AttnOut)
    <2>1. GatherDone(m7, m8, y, n, Section(g, l, 0), AttnOut)
      BY Zenon, <1>12, GatherDoes
    <2> QED BY Zenon, <1>2, <2>1
  <1> HIDE DEF m8
  <1>14. HeadsGo(g, l, n, m, m1, m2, m3, m4, m5, m6, m7, m8)
    BY Zenon, <1>4, <1>5, <1>6, <1>7, <1>8, <1>10, <1>12, <1>13 DEF HeadsGo
  <1>15. PrepDone(m, m8, g, l, n)
    BY Zenon, <1>14, HeadsGoOn
  <1> QED BY Zenon, <1>1, <1>15

(***************************************************************************)
(* Attention: the chunks that are merged were all launched, and hold the   *)
(* positions attended to.                                                  *)
(***************************************************************************)

\* Division keeps order.
LEMMA DivisionKeepsOrder ==
  ASSUME NEW a \in Nat, NEW b \in Nat, a <= b, NEW c \in Nat \ {0}
  PROVE  a \div c \in Nat /\ b \div c \in Nat /\ a \div c <= b \div c
  <1> DEFINE p == a \div c
             r == a % c
             q == b \div c
             s == b % c
  <1>1. p \in Nat /\ r \in 0..(c - 1) /\ a = c * p + r
    OBVIOUS
  <1>2. q \in Nat /\ s \in 0..(c - 1) /\ b = c * q + s
    OBVIOUS
  <1> HIDE DEF p, q, r, s
  <1>3. q < p => q * c + c <= p * c
    BY <1>1, <1>2, AWholeRow
  <1>4. p * c = c * p /\ q * c = c * q /\ p * c \in Nat /\ q * c \in Nat
    BY <1>1, <1>2
  <1> DEFINE x == c * p
             y == c * q
  <1>5. x \in Nat /\ y \in Nat /\ (q < p => y + c <= x) /\ a = x + r /\ b = y + s
    BY <1>1, <1>2, <1>3, <1>4
  <1> HIDE DEF x, y
  <1>6. p <= q
    BY <1>1, <1>2, <1>5
  <1> QED BY <1>1, <1>2, <1>6 DEF p, q

\* One chunk more.
LEMMA OneChunkMore ==
  ASSUME NEW a \in Nat, NEW c \in Nat \ {0}
  PROVE  (a + c) \div c = (a \div c) + 1
  <1> DEFINE b == a + c
             p == a \div c
             r == a % c
             q == b \div c
             s == b % c
  <1>1. p \in Nat /\ r \in 0..(c - 1) /\ a = c * p + r
    OBVIOUS
  <1>2. q \in Nat /\ s \in 0..(c - 1) /\ b = c * q + s
    OBVIOUS
  <1>3. b = a + c
    OBVIOUS
  <1> HIDE DEF b, p, q, r, s
  <1> DEFINE x == c * p
             y == c * q
             z == (p + 1) * c
  <1>4. x \in Nat /\ y \in Nat /\ z = x + c /\ x = p * c /\ y = q * c
    BY <1>1, <1>2
  <1>5. q < p + 1 => y + c <= z
    <2>1. q < p + 1 => q * c + c <= (p + 1) * c
      BY <1>1, <1>2, AWholeRow
    <2> HIDE DEF x, y
    <2> QED BY <1>4, <2>1
  <1>6. p + 1 < q => z + c <= y
    <2>1. p + 1 < q => (p + 1) * c + c <= q * c
      BY <1>1, <1>2, AWholeRow
    <2> HIDE DEF x, y
    <2> QED BY <1>4, <2>1
  <1> HIDE DEF x, y, z
  <1>7. a = x + r /\ b = y + s
    BY <1>1, <1>2 DEF x, y
  <1>8. q = p + 1
    BY <1>1, <1>2, <1>3, <1>4, <1>5, <1>6, <1>7
  <1> QED BY <1>8 DEF p, q, b

\* The positions from lo to pos are in the chunks merged, all of them launched.
ChunksCover(lo, pos, chunks) ==
  LET N == pos - lo + 1
  IN  /\ \A c \in 0..(CeilDiv(N, Chunk) - 1) : ~(c >= chunks)
      /\ \A p \in lo..pos : (p - lo) \div Chunk \in 0..(CeilDiv(N, Chunk) - 1)

\* The chunks that a launch has workspace for hold every position of the window.
LEMMA ChunksDoCover ==
  ASSUME NEW lo \in Nat, NEW pos \in Nat, lo <= pos, NEW reach \in Nat, pos - lo + 1 <= reach
  PROVE  ChunksCover(lo, pos, CeilDiv(reach, Chunk))
  <1> DEFINE N == pos - lo + 1
             most == (N - 1) \div Chunk
  <1>0. Chunk \in Nat \ {0}
    BY DecodeStackConstants
  <1>1. N \in Nat /\ N - 1 \in Nat /\ N + Chunk - 1 \in Nat /\ reach + Chunk - 1 \in Nat
        /\ N + Chunk - 1 <= reach + Chunk - 1 /\ N + Chunk - 1 = (N - 1) + Chunk
    BY <1>0
  <1> HIDE DEF N
  <1>2. CeilDiv(N, Chunk) = most + 1
    BY <1>0, <1>1, OneChunkMore DEF CeilDiv
  <1>3. CeilDiv(N, Chunk) \in Nat /\ CeilDiv(reach, Chunk) \in Nat /\ CeilDiv(N, Chunk) <= CeilDiv(reach, Chunk)
    BY <1>0, <1>1, DivisionKeepsOrder DEF CeilDiv
  <1>4. \A c \in 0..(CeilDiv(N, Chunk) - 1) : ~(c >= CeilDiv(reach, Chunk))
    BY <1>3
  <1>5. ASSUME NEW p \in lo..pos PROVE (p - lo) \div Chunk \in 0..(CeilDiv(N, Chunk) - 1)
    <2>1. p - lo \in Nat /\ p - lo <= N - 1
      BY DEF N
    <2>2. (p - lo) \div Chunk \in Nat /\ (p - lo) \div Chunk <= most /\ most \in Nat
      BY <1>0, <1>1, <2>1, DivisionKeepsOrder
    <2> HIDE DEF most
    <2> QED BY <1>2, <2>2
  <1> QED BY Zenon, <1>4, <1>5 DEF ChunksCover, N

\* What attention makes of the row's query and the keys and values it attends to.
AttendedOf(m, l, i, window) ==
  {<<"at", p, Cell(m, l, Get(m, SlotDev, i), p, "k"), Cell(m, l, Get(m, SlotDev, i), p, "v")>>
     : p \in Attended(Get(m, PosDev, i), window)}
AttnDone(m, e, g, l, n) ==
  /\ OnlyWrites(m, e, {ScO})
  /\ \A i \in 1..n :
       Get(e, ScO, i) = <<"attn", Get(m, AttnOut, i), AttendedOf(m, l, i, IF g.swa[l] THEN g.window ELSE 0)>>

\* The chunks of count positions from first on, merged.
MergedOf(m, op, i, first, count) ==
  LET span == Attended(Get(m, PosDev, i), op.window)
      partial(c) ==
        IF c >= op.chunks THEN {Stale}
        ELSE {<<"at", p, Cell(m, op.layer, Get(m, SlotDev, i), p, "k"), Cell(m, op.layer, Get(m, SlotDev, i), p, "v")>>
                : p \in {p \in span : (p - first) \div Chunk = c}}
  IN  <<"attn", Get(m, AttnOut, i), UNION {partial(c) : c \in 0..(CeilDiv(count, Chunk) - 1)}>>

\* A row's chunks merged are what it attends to.
IsAttended(m, op, i) ==
  Attention(m, op, i) = <<"attn", Get(m, AttnOut, i), AttendedOf(m, op.layer, i, op.window)>>

\* What the chunks add up is the attention over the whole window.
LEMMA ChunksMerge ==
  ASSUME NEW m, NEW op, NEW i, Get(m, PosDev, i) \in Nat, op.window \in Nat, NEW maxCtx \in Nat,
         Get(m, PosDev, i) < maxCtx,
         op.chunks = CeilDiv(IF op.window > 0 /\ op.window < maxCtx THEN op.window ELSE maxCtx, Chunk)
  PROVE  IsAttended(m, op, i)
  <1> DEFINE pos == Get(m, PosDev, i)
             slot == Get(m, SlotDev, i)
             span == Attended(pos, op.window)
             reach == IF op.window > 0 /\ op.window < maxCtx THEN op.window ELSE maxCtx
             lo == IF op.window > 0 /\ pos + 1 > op.window THEN pos + 1 - op.window ELSE 0
             N == pos - lo + 1
             term(p) == <<"at", p, Cell(m, op.layer, slot, p, "k"), Cell(m, op.layer, slot, p, "v")>>
             merged == 0..(CeilDiv(N, Chunk) - 1)
             partial(c) == IF c >= op.chunks THEN {Stale}
                           ELSE {term(p) : p \in {p \in span : (p - lo) \div Chunk = c}}
  <1>1. span = lo..pos /\ lo \in Nat /\ pos \in Nat /\ lo <= pos /\ reach \in Nat /\ N <= reach
    BY DEF Attended
  <1>2. Cardinality(span) = N
    <2>1. lo \in Int /\ pos \in Int /\ ~(lo > pos)
      BY <1>1
    <2> HIDE DEF lo, pos
    <2>2. Cardinality(lo..pos) = N
      BY <2>1, FS_Interval
    <2> QED BY <1>1, <2>2
  <1>3. pos + 1 - N = lo
    BY <1>1
  <1>4. ChunksCover(lo, pos, op.chunks)
    <2> HIDE DEF lo, pos, reach
    <2>1. ChunksCover(lo, pos, CeilDiv(reach, Chunk))
      BY Zenon, <1>1, ChunksDoCover
    <2> QED BY Zenon, <2>1 DEF reach
  <1>5. /\ \A c \in merged : ~(c >= op.chunks)
        /\ \A p \in span : (p - lo) \div Chunk \in merged
    BY Zenon, <1>1, <1>4 DEF ChunksCover
  <1>6. Attention(m, op, i) = <<"attn", Get(m, AttnOut, i), UNION {partial(c) : c \in merged}>>
    <2>1. Attention(m, op, i) = MergedOf(m, op, i, pos + 1 - Cardinality(span), Cardinality(span))
      BY Zenon DEF Attention, Cell, MergedOf
    <2>2. MergedOf(m, op, i, lo, N) = <<"attn", Get(m, AttnOut, i), UNION {partial(c) : c \in merged}>>
      BY Zenon DEF MergedOf
    <2> HIDE DEF span, pos, lo, N
    <2> QED BY Zenon, <1>2, <1>3, <2>1, <2>2
  <1>7. UNION {partial(c) : c \in merged} = {term(p) : p \in span}
    <2> HIDE DEF term, merged, span, lo
    <2>1. ASSUME NEW x \in UNION {partial(c) : c \in merged} PROVE x \in {term(p) : p \in span}
      <3>1. PICK c \in merged : x \in partial(c)
        OBVIOUS
      <3>2. ~(c >= op.chunks)
        BY Zenon, <1>5
      <3>3. x \in {term(p) : p \in {p \in span : (p - lo) \div Chunk = c}}
        BY Zenon, <3>1, <3>2
      <3> QED BY Zenon, <3>3
    <2>2. ASSUME NEW p \in span PROVE term(p) \in UNION {partial(c) : c \in merged}
      <3> DEFINE c == (p - lo) \div Chunk
      <3>1. c \in merged /\ ~(c >= op.chunks)
        BY Zenon, <1>5
      <3>2. term(p) \in partial(c)
        BY Zenon, <3>1
      <3> HIDE DEF c, partial
      <3> QED BY Zenon, <3>1, <3>2
    <2> HIDE DEF partial
    <2> QED BY <2>1, <2>2
  <1>8. {term(p) : p \in span} = AttendedOf(m, op.layer, i, op.window)
    BY Zenon DEF AttendedOf
  <1> QED BY Zenon, <1>6, <1>7, <1>8 DEF IsAttended

\* The launch does that for every row.
LEMMA AttnDoes ==
  ASSUME NEW g, NEW m, IsMachine(m), NEW l, NEW maxCtx \in Nat, NEW n, g.window \in Nat,
         \A i \in 1..n : Get(m, PosDev, i) \in Nat /\ Get(m, PosDev, i) < maxCtx
  PROVE  AttnDone(m, Step(g, m, AttnDecodeBatch(g, l, maxCtx, n)), g, l, n)
  <1> DEFINE op == AttnDecodeBatch(g, l, maxCtx, n)
             w == IF g.swa[l] THEN g.window ELSE 0
             rows == [i \in 1..n |-> Attention(m, op, i)]
             e == Step(g, m, op)
  <1>1. /\ op.is = "attn" /\ op.n = n /\ op.layer = l /\ op.window = w
        /\ op.chunks = CeilDiv(IF w > 0 /\ w < maxCtx THEN w ELSE maxCtx, Chunk)
    BY DEF AttnDecodeBatch
  <1>2. w \in Nat
    OBVIOUS
  <1> HIDE DEF op, w
  <1>3. ASSUME NEW i \in 1..n PROVE IsAttended(m, op, i)
    BY Zenon, <1>1, <1>2, ChunksMerge
  <1>4. Exec(m, op) = Put(m, ScO, rows)
    BY Zenon, <1>1 DEF Exec
  <1>5. DOMAIN rows = 1..n /\ \A i \in 1..n : rows[i] = Attention(m, op, i)
    BY Zenon
  <1> HIDE DEF rows
  <1>6. Wrote(m, e, ScO, rows)
    BY Zenon, <1>4, StepWrites
  <1>7. ASSUME NEW i \in 1..n
        PROVE  Get(e, ScO, i) = <<"attn", Get(m, AttnOut, i), AttendedOf(m, l, i, w)>>
    BY Zenon, <1>1, <1>3, <1>5, <1>6 DEF Wrote, IsAttended
  <1>8. AttnDone(m, e, g, l, n)
    BY Zenon, <1>6, <1>7 DEF Wrote, AttnDone, w
  <1> QED BY Zenon, <1>8 DEF op

(***************************************************************************)
(* A layer.                                                                *)
(***************************************************************************)

\* What it makes of a row's x: its projection, its heads, and, with what attention
\* gives, the x of the next layer.
QkvTerm(l, x) == <<"gemv", <<"qkv", l>>, <<"q8", Normed(<<"attn_norm", l>>, x)>>>>
HeadTerm(g, l, pos, x, s, w) == Turned(g.swa[l], pos, Normed(<<w, l>>, <<"section", s, QkvTerm(l, x)>>))
ValueTerm(l, x) == Normed(<<"none">>, <<"section", "v", QkvTerm(l, x)>>)
AddedTerm(l, x, a) == <<"add", x, Normed(<<"post_attn", l>>, <<"gemv", <<"o", l>>, <<"q8", a>>>>)>>
MixedTerm(g, l, xa) ==
  <<"combine", <<"post_ffw", l>>, xa,
    <<"gemv", <<"down", l>>, <<"gelu_mul", <<"gemv", <<"gate_up", l>>, <<"q8", Normed(<<"ffn_norm", l>>, xa)>>>>>>>>,
    RoutedOf(l, g.topk, <<"gemv", <<"router_wf", l>>, Normed(<<"none">>, xa)>>,
             <<"q8", Normed(<<"pre_ffw2", l>>, xa)>>)>>
Window(g, l) == IF g.swa[l] THEN g.window ELSE 0

\* What every layer reads and none writes.
Inputs == {PosDev, SlotDev, PairXidx, PairSeq, DenseIdx, TempsDev, RngDev}

LayerDone(m, e, g, l, n) ==
  /\ IsMachine(e) /\ Pools(e, g) /\ \A c \in Inputs : Keeps(m, e, c)
  /\ \A i \in 1..n :
       /\ Cell(e, l, Get(m, SlotDev, i), Get(m, PosDev, i), "k")
            = HeadTerm(g, l, Get(m, PosDev, i), Get(m, XRes, i), "k", "k_norm")
       /\ Cell(e, l, Get(m, SlotDev, i), Get(m, PosDev, i), "v") = ValueTerm(l, Get(m, XRes, i))
       /\ Get(e, XRes, i) =
            MixedTerm(g, l, AddedTerm(l, Get(m, XRes, i),
              <<"attn", HeadTerm(g, l, Get(m, PosDev, i), Get(m, XRes, i), "q", "q_norm"),
                AttendedOf(e, l, i, Window(g, l))>>))
  /\ \A k \in Layers(g), s \in Slots, p \in Positions(g), h \in {"k", "v"} :
       k # l \/ (\A i \in 1..n : ~At(m, i, s, p)) => Cell(e, k, s, p, h) = Cell(m, k, s, p, h)

\* The machines between the parts of a layer.
LayerGoes(g, l, n, m, q, p, a, o, r, d, e) ==
  /\ QkvDone(m, q, g, l, n) /\ PrepDone(q, p, g, l, n) /\ AttnDone(p, a, g, l, n)
  /\ OProjDone(a, o, g, l, n) /\ PreNormsDone(o, r, g, l, n) /\ MlpDone(r, d, g, l, n) /\ MoeDone(d, e, g, l, n)

\* The projection leaves what the heads need.
HeadsBegin(m, q, g, l, n) ==
  /\ IsMachine(q) /\ Pools(q, g) /\ Placed(q, g, n) /\ Plain(q, g, l, n)
  /\ \A c \in Inputs \cup {XRes} : Keeps(m, q, c)
  /\ \A k, s, p, h : Cell(q, k, s, p, h) = Cell(m, k, s, p, h)
  /\ \A i \in 1..n : RowOfQkv(q, g, l, i) = QkvTerm(l, Get(m, XRes, i))

\* It does.
LEMMA HeadsCanBegin ==
  ASSUME NEW g, NEW l, NEW n, NEW m, NEW q, QkvDone(m, q, g, l, n), Placed(m, g, n), Pools(m, g)
  PROVE  HeadsBegin(m, q, g, l, n)
  <1> DEFINE W == {ScA, Q8(g.hidden), Y(QkvRows(g, l))}
  <1>1. OnlyWrites(m, q, W)
    BY Zenon DEF QkvDone
  <1>2. \A c \in Inputs \cup {XRes} : c \notin W
    BY DEF Inputs, XRes, PosDev, SlotDev, PairXidx, PairSeq, DenseIdx, TempsDev, RngDev, ScA, Q8, Y
  <1> HIDE DEF W
  <1>3. \A c \in Inputs \cup {XRes} : Keeps(m, q, c)
    BY Zenon, <1>1, <1>2, WritesElsewhere
  <1>4. PosDev \in Inputs \cup {XRes} /\ SlotDev \in Inputs \cup {XRes}
    BY DEF Inputs
  <1>5. Keeps(m, q, PosDev) /\ Keeps(m, q, SlotDev)
    BY Zenon, <1>3, <1>4
  <1>6. Placed(q, g, n)
    BY Zenon, <1>5, PlacesStay
  <1>7. IsMachine(q) /\ q.kv = m.kv
    BY Zenon, <1>1 DEF OnlyWrites
  <1>8. Pools(q, g) /\ \A k, s, p, h : Cell(q, k, s, p, h) = Cell(m, k, s, p, h)
    BY Zenon, <1>7, SameCells
  <1>9. \A i \in 1..n : RowOfQkv(q, g, l, i) = QkvTerm(l, Get(m, XRes, i))
    BY Zenon DEF QkvDone, RowOfQkv, QkvTerm
  <1>10. Plain(q, g, l, n)
    <2>1. \A x : QkvTerm(l, x)[1] = "gemv"
      BY DEF QkvTerm
    <2>2. "gemv" # "sections"
      OBVIOUS
    <2> QED BY Zenon, <1>9, <2>1, <2>2 DEF Plain
  <1> QED BY Zenon, <1>3, <1>6, <1>7, <1>8, <1>9, <1>10 DEF HeadsBegin

\* What the parts keep of what is read later.
AllKept(q, p, a, o, r, d, e) ==
  /\ \A c \in Inputs : Keeps(q, p, c) /\ Keeps(p, a, c) /\ Keeps(a, o, c) /\ Keeps(o, r, c)
                       /\ Keeps(r, d, c) /\ Keeps(d, e, c)
  /\ Keeps(q, p, XRes) /\ Keeps(p, a, XRes) /\ Keeps(o, r, XRes) /\ Keeps(r, d, XRes)
  /\ Keeps(r, d, ScRi)
  /\ IsMachine(e) /\ e.kv = p.kv

\* They keep it.
LEMMA LayerKeeps ==
  ASSUME NEW g, NEW l, NEW n, NEW m, NEW q, NEW p, NEW a, NEW o, NEW r, NEW d, NEW e,
         LayerGoes(g, l, n, m, q, p, a, o, r, d, e)
  PROVE  AllKept(q, p, a, o, r, d, e)
  <1>1. /\ \A c : c \notin {Y(QkvRows(g, l)), AttnOut} => Keeps(q, p, c)
        /\ OnlyWrites(p, a, {ScO})
        /\ OnlyWrites(a, o, {Q8(QRows(g, l)), Y(g.hidden), ScA, XRes})
        /\ OnlyWrites(o, r, {ScPf, ScRi})
        /\ OnlyWrites(r, d, {Q8Preff, Y(2 * g.ffn), Q8(g.ffn), Y(g.hidden), ScA, RouterLogits})
        /\ OnlyWrites(d, e, MoeBuffers)
    BY Zenon DEF LayerGoes, PrepDone, AttnDone, OProjDone, PreNormsDone, MlpDone, MoeDone
  <1>2. ASSUME NEW c \in Inputs
        PROVE  /\ c \notin {Y(QkvRows(g, l)), AttnOut} /\ c \notin {ScO}
               /\ c \notin {Q8(QRows(g, l)), Y(g.hidden), ScA, XRes} /\ c \notin {ScPf, ScRi}
               /\ c \notin {Q8Preff, Y(2 * g.ffn), Q8(g.ffn), Y(g.hidden), ScA, RouterLogits}
               /\ c \notin MoeBuffers
    BY DEF Inputs, XRes, PosDev, SlotDev, PairXidx, PairSeq, DenseIdx, TempsDev, RngDev, ScA, Q8, Y,
       AttnOut, ScO, ScPf,
           ScRi, Q8Preff, RouterLogits, MoeBuffers, Q8Routed, MoeIds, PairWts, PairBases, RoutedOut, PairYGu,
           PairActQ8, PairYDown
  <1>3. ASSUME NEW c \in Inputs
        PROVE  /\ Keeps(q, p, c) /\ Keeps(p, a, c) /\ Keeps(a, o, c) /\ Keeps(o, r, c)
               /\ Keeps(r, d, c) /\ Keeps(d, e, c)
    BY Zenon, <1>1, <1>2, WritesElsewhere
  <1>4. /\ XRes \notin {Y(QkvRows(g, l)), AttnOut} /\ XRes \notin {ScO} /\ XRes \notin {ScPf, ScRi}
        /\ XRes \notin {Q8Preff, Y(2 * g.ffn), Q8(g.ffn), Y(g.hidden), ScA, RouterLogits}
        /\ ScRi \notin {Q8Preff, Y(2 * g.ffn), Q8(g.ffn), Y(g.hidden), ScA, RouterLogits}
    BY DEF XRes, ScA, Q8, Y, AttnOut, ScO, ScPf, ScRi, Q8Preff, RouterLogits
  <1>5. /\ Keeps(q, p, XRes) /\ Keeps(p, a, XRes) /\ Keeps(o, r, XRes) /\ Keeps(r, d, XRes)
        /\ Keeps(r, d, ScRi)
    BY Zenon, <1>1, <1>4, WritesElsewhere
  <1>6. IsMachine(e) /\ e.kv = p.kv
    BY Zenon, <1>1 DEF OnlyWrites
  <1> QED BY Zenon, <1>3, <1>5, <1>6 DEF AllKept

\* The x that they leave.
XMade(g, l, a, e, i) == Get(e, XRes, i) = MixedTerm(g, l, AddedTerm(l, Get(a, XRes, i), Get(a, ScO, i)))

\* They leave it.
LEMMA LayerMakes ==
  ASSUME NEW g, NEW l, NEW n, NEW m, NEW q, NEW p, NEW a, NEW o, NEW r, NEW d, NEW e,
         LayerGoes(g, l, n, m, q, p, a, o, r, d, e), NEW i \in 1..n
  PROVE  XMade(g, l, a, e, i)
  <1> DEFINE xa == AddedTerm(l, Get(a, XRes, i), Get(a, ScO, i))
             logits == <<"gemv", <<"router_wf", l>>, Normed(<<"none">>, xa)>>
             act == Normed(<<"pre_ffw2", l>>, xa)
             dense == <<"gemv", <<"down", l>>, <<"gelu_mul", <<"gemv", <<"gate_up", l>>, <<"q8", Normed(<<"ffn_norm", l>>, xa)>>>>>>>>
  <1>1. Keeps(o, r, XRes) /\ Keeps(r, d, XRes) /\ Keeps(r, d, ScRi)
    <2>1. AllKept(q, p, a, o, r, d, e)
      BY Zenon, LayerKeeps
    <2> QED BY Zenon, <2>1 DEF AllKept
  <1>2. Get(o, XRes, i) = xa
    BY Zenon DEF LayerGoes, OProjDone, AddedTerm
  <1>3. Get(r, XRes, i) = xa /\ Get(d, XRes, i) = xa
    BY Zenon, <1>1, <1>2 DEF Keeps
  <1> HIDE DEF xa
  <1>4. Get(r, ScPf, i) = Normed(<<"ffn_norm", l>>, xa) /\ Get(r, ScRi, i) = act
    BY Zenon, <1>2 DEF LayerGoes, PreNormsDone
  <1>5. Get(d, ScRi, i) = act
    BY Zenon, <1>1, <1>4 DEF Keeps
  <1>6. Get(d, Y(g.hidden), i) = dense /\ Get(d, RouterLogits, i) = logits
    BY Zenon, <1>3, <1>4 DEF LayerGoes, MlpDone
  <1> HIDE DEF act, dense, logits
  <1>7. Get(e, XRes, i) = <<"combine", <<"post_ffw", l>>, xa, dense, RoutedOf(l, g.topk, logits, <<"q8", act>>)>>
    BY Zenon, <1>3, <1>5, <1>6 DEF LayerGoes, MoeDone
  <1> QED BY Zenon, <1>7 DEF XMade, MixedTerm, xa, act, dense, logits

\* The layer.
LEMMA LayerGoesOn ==
  ASSUME NEW g, NEW l \in Layers(g), NEW n, NEW m, NEW q, NEW p, NEW a, NEW o, NEW r, NEW d, NEW e,
         LayerGoes(g, l, n, m, q, p, a, o, r, d, e), Pools(m, g), Placed(m, g, n)
  PROVE  LayerDone(m, e, g, l, n)
  <1>1. /\ \A c \in Inputs \cup {XRes} : Keeps(m, q, c)
        /\ \A k, s, u, h : Cell(q, k, s, u, h) = Cell(m, k, s, u, h)
        /\ \A i \in 1..n : RowOfQkv(q, g, l, i) = QkvTerm(l, Get(m, XRes, i))
    <2>1. QkvDone(m, q, g, l, n)
      BY Zenon DEF LayerGoes
    <2>2. HeadsBegin(m, q, g, l, n)
      BY Zenon, <2>1, HeadsCanBegin
    <2> QED BY Zenon, <2>2 DEF HeadsBegin
  <1>2. /\ \A c \in Inputs : Keeps(q, p, c) /\ Keeps(p, a, c) /\ Keeps(a, o, c) /\ Keeps(o, r, c)
                              /\ Keeps(r, d, c) /\ Keeps(d, e, c)
        /\ Keeps(q, p, XRes) /\ Keeps(p, a, XRes) /\ IsMachine(e) /\ e.kv = p.kv
    <2>1. AllKept(q, p, a, o, r, d, e)
      BY Zenon, LayerKeeps
    <2> QED BY Zenon, <2>1 DEF AllKept
  <1>3. PrepDone(q, p, g, l, n) /\ AttnDone(p, a, g, l, n)
    BY Zenon DEF LayerGoes
  <1>4. PosDev \in Inputs /\ SlotDev \in Inputs /\ \A c \in Inputs \cup {XRes} : c \in Inputs \/ c = XRes
    BY DEF Inputs
  <1>5. \A c \in Inputs : Keeps(m, q, c) /\ Keeps(m, p, c) /\ Keeps(m, e, c)
    <2> SUFFICES ASSUME NEW c \in Inputs PROVE Keeps(m, q, c) /\ Keeps(m, p, c) /\ Keeps(m, e, c)
      OBVIOUS
    <2>1. Keeps(m, q, c) /\ Keeps(q, p, c) /\ Keeps(p, a, c) /\ Keeps(a, o, c) /\ Keeps(o, r, c)
          /\ Keeps(r, d, c) /\ Keeps(d, e, c)
      BY <1>1, <1>2
    <2>2. Keeps(m, p, c)
      BY Zenon, <2>1 DEF Keeps
    <2>3. Keeps(p, o, c)
      BY Zenon, <2>1 DEF Keeps
    <2>4. Keeps(o, e, c)
      BY Zenon, <2>1 DEF Keeps
    <2>5. Keeps(m, o, c)
      BY Zenon, <2>2, <2>3 DEF Keeps
    <2>6. Keeps(m, e, c)
      BY Zenon, <2>4, <2>5 DEF Keeps
    <2> QED BY Zenon, <2>1, <2>2, <2>6
  <1>6. /\ Keeps(m, q, PosDev) /\ Keeps(m, p, PosDev) /\ Keeps(m, e, PosDev)
        /\ Keeps(m, q, SlotDev) /\ Keeps(m, p, SlotDev) /\ Keeps(m, e, SlotDev) /\ Keeps(m, q, XRes)
    BY <1>1, <1>4, <1>5
  <1>7. Pools(e, g) /\ \A k, s, u, h : Cell(e, k, s, u, h) = Cell(p, k, s, u, h)
    BY Zenon, <1>2, <1>3, SameCells DEF PrepDone
  <1>8. ASSUME NEW i \in 1..n
        PROVE  /\ Cell(e, l, Get(m, SlotDev, i), Get(m, PosDev, i), "k")
                    = HeadTerm(g, l, Get(m, PosDev, i), Get(m, XRes, i), "k", "k_norm")
               /\ Cell(e, l, Get(m, SlotDev, i), Get(m, PosDev, i), "v") = ValueTerm(l, Get(m, XRes, i))
               /\ Get(p, AttnOut, i) = HeadTerm(g, l, Get(m, PosDev, i), Get(m, XRes, i), "q", "q_norm")
    <2>1. Get(q, SlotDev, i) = Get(m, SlotDev, i) /\ Get(q, PosDev, i) = Get(m, PosDev, i)
      BY Zenon, <1>6 DEF Keeps
    <2>2. RowOfQkv(q, g, l, i) = QkvTerm(l, Get(m, XRes, i))
      BY Zenon, <1>1
    <2>3. /\ Get(p, AttnOut, i) = QueryOf(q, g, l, i)
          /\ Cell(p, l, Get(q, SlotDev, i), Get(q, PosDev, i), "k") = KeyOf(q, g, l, i)
          /\ Cell(p, l, Get(q, SlotDev, i), Get(q, PosDev, i), "v") = ValueOf(q, g, l, i)
      BY Zenon, <1>3 DEF PrepDone
    <2>4. /\ Cell(p, l, Get(m, SlotDev, i), Get(m, PosDev, i), "k") = KeyOf(q, g, l, i)
          /\ Cell(p, l, Get(m, SlotDev, i), Get(m, PosDev, i), "v") = ValueOf(q, g, l, i)
      BY Zenon, <2>1, <2>3
    <2>5. QueryOf(q, g, l, i) = HeadTerm(g, l, Get(m, PosDev, i), Get(m, XRes, i), "q", "q_norm")
      BY Zenon, <2>1, <2>2 DEF QueryOf, HeadTerm
    <2>6. KeyOf(q, g, l, i) = HeadTerm(g, l, Get(m, PosDev, i), Get(m, XRes, i), "k", "k_norm")
      BY Zenon, <2>1, <2>2 DEF KeyOf, HeadTerm
    <2>7. ValueOf(q, g, l, i) = ValueTerm(l, Get(m, XRes, i))
      BY Zenon, <2>2 DEF ValueOf, ValueTerm
    <2>8. Cell(e, l, Get(m, SlotDev, i), Get(m, PosDev, i), "k")
            = Cell(p, l, Get(m, SlotDev, i), Get(m, PosDev, i), "k")
      BY Zenon, <1>7
    <2>9. Cell(e, l, Get(m, SlotDev, i), Get(m, PosDev, i), "v")
            = Cell(p, l, Get(m, SlotDev, i), Get(m, PosDev, i), "v")
      BY Zenon, <1>7
    <2>10. Cell(e, l, Get(m, SlotDev, i), Get(m, PosDev, i), "k")
             = HeadTerm(g, l, Get(m, PosDev, i), Get(m, XRes, i), "k", "k_norm")
      BY Zenon, <2>4, <2>6, <2>8
    <2>11. Cell(e, l, Get(m, SlotDev, i), Get(m, PosDev, i), "v") = ValueTerm(l, Get(m, XRes, i))
      BY Zenon, <2>4, <2>7, <2>9
    <2>12. Get(p, AttnOut, i) = HeadTerm(g, l, Get(m, PosDev, i), Get(m, XRes, i), "q", "q_norm")
      BY Zenon, <2>3, <2>5
    <2> QED BY <2>10, <2>11, <2>12
  <1>9. ASSUME NEW i \in 1..n
        PROVE  Get(e, XRes, i) =
            MixedTerm(g, l, AddedTerm(l, Get(m, XRes, i),
              <<"attn", HeadTerm(g, l, Get(m, PosDev, i), Get(m, XRes, i), "q", "q_norm"),
                AttendedOf(e, l, i, Window(g, l))>>))
    <2>1. Get(e, XRes, i) = MixedTerm(g, l, AddedTerm(l, Get(a, XRes, i), Get(a, ScO, i)))
      <3>1. XMade(g, l, a, e, i)
        BY ZenonT(30), LayerMakes
      <3> QED BY Zenon, <3>1 DEF XMade
    <2>2. Get(a, XRes, i) = Get(m, XRes, i)
      BY ZenonT(30), <1>2, <1>6 DEF Keeps
    <2>3. Get(a, ScO, i) = <<"attn", Get(p, AttnOut, i), AttendedOf(p, l, i, Window(g, l))>>
      BY Zenon, <1>3 DEF AttnDone, Window
    <2>4. AttendedOf(p, l, i, Window(g, l)) = AttendedOf(e, l, i, Window(g, l))
      <3>1. Get(p, SlotDev, i) = Get(e, SlotDev, i) /\ Get(p, PosDev, i) = Get(e, PosDev, i)
        BY Zenon, <1>6 DEF Keeps
      <3>2. \A u : Cell(p, l, Get(p, SlotDev, i), u, "k") = Cell(e, l, Get(e, SlotDev, i), u, "k")
                   /\ Cell(p, l, Get(p, SlotDev, i), u, "v") = Cell(e, l, Get(e, SlotDev, i), u, "v")
        BY ZenonT(30), <1>7, <3>1
      <3> QED BY <3>1, <3>2 DEF AttendedOf
    <2> QED BY Zenon, <1>8, <2>1, <2>2, <2>3, <2>4
  <1>10. ASSUME NEW k \in Layers(g), NEW s \in Slots, NEW u \in Positions(g), NEW h \in {"k", "v"},
                k # l \/ (\A i \in 1..n : ~At(m, i, s, u))
         PROVE  Cell(e, k, s, u, h) = Cell(m, k, s, u, h)
    <2>1. \A i : At(q, i, s, u) <=> At(m, i, s, u)
      BY Zenon, <1>6, PlacesStay
    <2>2. k # l \/ (\A i \in 1..n : ~At(q, i, s, u))
      BY Zenon, <1>10, <2>1
    <2>3. Cell(p, k, s, u, h) = Cell(q, k, s, u, h)
      BY Zenon, <1>3, <2>2 DEF PrepDone
    <2> QED BY Zenon, <1>1, <1>7, <2>3
  <1> QED BY Zenon, <1>2, <1>5, <1>7, <1>8, <1>9, <1>10 DEF LayerDone

(***************************************************************************)
(* A layer's program, enqueued for a graph or launch by launch.            *)
(***************************************************************************)

\* A program that ends with the machine e.
Reaches(g, m, p, e) == IsProgram(p) /\ Run(g, m, p) = e

\* Two programs.
LEMMA ReachesThen ==
  ASSUME NEW g, NEW m, NEW p, NEW e, NEW q, NEW f, Reaches(g, m, p, e), Reaches(g, e, q, f)
  PROVE  Reaches(g, m, p \o q, f)
  <1>1. IsProgram(p) /\ IsProgram(q) /\ Run(g, m, p) = e /\ Run(g, e, q) = f
    BY Zenon DEF Reaches
  <1>2. Run(g, m, p \o q) = Run(g, Run(g, m, p), q)
    BY <1>1, RunsJoin
  <1>3. IsProgram(p \o q)
    <2>1. PICK S : p \in Seq(S)
      BY <1>1 DEF IsProgram
    <2>2. PICK T : q \in Seq(T)
      BY <1>1 DEF IsProgram
    <2>3. p \in Seq(S \cup T) /\ q \in Seq(S \cup T)
      BY <2>1, <2>2
    <2>4. p \o q \in Seq(S \cup T)
      BY <2>3
    <2> QED BY <2>4 DEF IsProgram
  <1> QED BY Zenon, <1>1, <1>2, <1>3 DEF Reaches

\* One launch.
LEMMA ReachesOne ==
  ASSUME NEW g, NEW m, NEW a
  PROVE  Reaches(g, m, <<a>>, Step(g, m, a))
  <1>1. <<a>> \in Seq({a})
    OBVIOUS
  <1> QED BY <1>1, RunOne DEF Reaches, IsProgram

\* Two launches.
LEMMA ReachesTwo ==
  ASSUME NEW g, NEW m, NEW a, NEW b
  PROVE  Reaches(g, m, <<a, b>>, Step(g, Step(g, m, a), b))
  <1>1. <<a, b>> \in Seq({a, b})
    OBVIOUS
  <1>2. RunsTo(g, m, <<a, b>>, Step(g, Step(g, m, a), b))
    BY Zenon, RunTwo
  <1> QED BY Zenon, <1>1, <1>2 DEF Reaches, IsProgram, RunsTo

\* Three launches.
LEMMA ReachesThree ==
  ASSUME NEW g, NEW m, NEW a, NEW b, NEW c
  PROVE  Reaches(g, m, <<a, b, c>>, Step(g, Step(g, Step(g, m, a), b), c))
  <1>1. <<a, b, c>> \in Seq({a, b, c})
    OBVIOUS
  <1>2. RunsTo(g, m, <<a, b, c>>, Step(g, Step(g, Step(g, m, a), b), c))
    BY Zenon, RunThree
  <1> QED BY Zenon, <1>1, <1>2 DEF Reaches, IsProgram, RunsTo

\* Each part of a layer is a program.
PartsArePrograms(g, l, n) ==
  /\ IsProgram(QkvGemv(g, l, n)) /\ IsProgram(QkvHeads(g, l, n)) /\ IsProgram(OProj(g, l, n))
  /\ IsProgram(PreNorms(g, l, n)) /\ IsProgram(MlpAndRouter(g, l, n)) /\ IsProgram(Moe(g, l, n))

\* They are.
LEMMA PartsAre ==
  ASSUME NEW g, NEW l, NEW n
  PROVE  PartsArePrograms(g, l, n)
  <1>1. \A a, b : IsProgram(<<a, b>>)
    <2> SUFFICES ASSUME NEW a, NEW b PROVE IsProgram(<<a, b>>)
      OBVIOUS
    <2>1. <<a, b>> \in Seq({a, b})
      OBVIOUS
    <2> QED BY <2>1 DEF IsProgram
  <1>2. \A a, b, c : IsProgram(<<a, b, c>>)
    <2> SUFFICES ASSUME NEW a, NEW b, NEW c PROVE IsProgram(<<a, b, c>>)
      OBVIOUS
    <2>1. <<a, b, c>> \in Seq({a, b, c})
      OBVIOUS
    <2> QED BY <2>1 DEF IsProgram
  <1>3. \A a, b, c, d : IsProgram(<<a, b, c, d>>)
    <2> SUFFICES ASSUME NEW a, NEW b, NEW c, NEW d PROVE IsProgram(<<a, b, c, d>>)
      OBVIOUS
    <2>1. <<a, b, c, d>> \in Seq({a, b, c, d})
      OBVIOUS
    <2> QED BY <2>1 DEF IsProgram
  <1>4. \A a, b, c, d, e, f : IsProgram(<<a, b, c, d, e, f>>)
    <2> SUFFICES ASSUME NEW a, NEW b, NEW c, NEW d, NEW e, NEW f PROVE IsProgram(<<a, b, c, d, e, f>>)
      OBVIOUS
    <2>1. <<a, b, c, d, e, f>> \in Seq({a, b, c, d, e, f})
      OBVIOUS
    <2> QED BY <2>1 DEF IsProgram
  <1>5. \A a, b, c, d, e, f, h, i : IsProgram(<<a, b, c, d, e, f, h, i>>)
    <2> SUFFICES ASSUME NEW a, NEW b, NEW c, NEW d, NEW e, NEW f, NEW h, NEW i
                 PROVE  IsProgram(<<a, b, c, d, e, f, h, i>>)
      OBVIOUS
    <2>1. <<a, b, c, d, e, f, h, i>> \in Seq({a, b, c, d, e, f, h, i})
      OBVIOUS
    <2> QED BY <2>1 DEF IsProgram
  <1>6. \A a, b, c, d, e, f, h, i, j : IsProgram(<<a, b, c, d, e, f, h, i, j>>)
    <2> SUFFICES ASSUME NEW a, NEW b, NEW c, NEW d, NEW e, NEW f, NEW h, NEW i, NEW j
                 PROVE  IsProgram(<<a, b, c, d, e, f, h, i, j>>)
      OBVIOUS
    <2>1. <<a, b, c, d, e, f, h, i, j>> \in Seq({a, b, c, d, e, f, h, i, j})
      OBVIOUS
    <2> QED BY <2>1 DEF IsProgram
  <1>7. IsProgram(QkvGemv(g, l, n)) /\ IsProgram(PreNorms(g, l, n)) /\ IsProgram(OProj(g, l, n))
    BY Zenon, <1>1, <1>2, <1>3 DEF QkvGemv, PreNorms, OProj
  <1>8. IsProgram(QkvHeads(g, l, n))
    BY Zenon, <1>5 DEF QkvHeads
  <1>9. IsProgram(MlpAndRouter(g, l, n)) /\ IsProgram(Moe(g, l, n))
    BY Zenon, <1>4, <1>6 DEF MlpAndRouter, Moe
  <1> QED BY Zenon, <1>7, <1>8, <1>9 DEF PartsArePrograms

\* Inputs that stay.
KeepsInputs(m, e) == \A c \in Inputs : Keeps(m, e, c)

\* A step that writes none of them.
LEMMA InputsStay ==
  ASSUME NEW m, NEW e, NEW W, OnlyWrites(m, e, W), Inputs \cap W = {}
  PROVE  KeepsInputs(m, e)
  <1>1. \A c \in Inputs : c \notin W
    OBVIOUS
  <1>2. ASSUME NEW c \in Inputs PROVE Keeps(m, e, c)
    <2>1. c \notin W
      BY <1>1
    <2> QED BY Zenon, <2>1, WritesElsewhere
  <1> QED BY Zenon, <1>2 DEF KeepsInputs

\* Two such steps.
LEMMA InputsStayOn ==
  ASSUME NEW m, NEW e, NEW f, KeepsInputs(m, e), KeepsInputs(e, f)
  PROVE  KeepsInputs(m, f)
  <1>1. ASSUME NEW c \in Inputs PROVE Keeps(m, f, c)
    <2>1. Keeps(m, e, c) /\ Keeps(e, f, c)
      BY Zenon DEF KeepsInputs
    <2> QED BY Zenon, <2>1 DEF Keeps
  <1> QED BY Zenon, <1>1 DEF KeepsInputs

\* What a layer needs of them.
InputsReady(m, g, n, ctx) ==
  /\ Placed(m, g, n) /\ PairsReady(m, g.topk, n)
  /\ \A i \in 1..n : Get(m, PosDev, i) \in Nat /\ Get(m, PosDev, i) < ctx

\* It has it still.
LEMMA ReadyStays ==
  ASSUME NEW m, NEW e, NEW g, NEW n, NEW ctx, KeepsInputs(m, e), InputsReady(m, g, n, ctx)
  PROVE  InputsReady(e, g, n, ctx)
  <1>1. {PosDev, SlotDev, PairXidx, PairSeq, DenseIdx} \subseteq Inputs
    BY DEF Inputs
  <1>2. /\ Keeps(m, e, PosDev) /\ Keeps(m, e, SlotDev) /\ Keeps(m, e, PairXidx) /\ Keeps(m, e, PairSeq)
        /\ Keeps(m, e, DenseIdx)
    BY <1>1 DEF KeepsInputs
  <1>3. Placed(e, g, n)
    BY Zenon, <1>2, PlacesStay DEF InputsReady
  <1>4. PairsReady(e, g.topk, n)
    BY Zenon, <1>2 DEF InputsReady, PairsReady, Keeps
  <1>5. \A i \in 1..n : Get(e, PosDev, i) = Get(m, PosDev, i)
    BY Zenon, <1>2 DEF Keeps
  <1> QED BY <1>3, <1>4, <1>5 DEF InputsReady

\* The parts of a layer leave the inputs.
LEMMA PartsLeaveInputs ==
  ASSUME NEW g, NEW l, NEW n, NEW m, NEW e
  PROVE  /\ QkvDone(m, e, g, l, n) => KeepsInputs(m, e)
         /\ PrepDone(m, e, g, l, n) => KeepsInputs(m, e)
         /\ AttnDone(m, e, g, l, n) => KeepsInputs(m, e)
         /\ OProjDone(m, e, g, l, n) => KeepsInputs(m, e)
         /\ PreNormsDone(m, e, g, l, n) => KeepsInputs(m, e)
         /\ MlpDone(m, e, g, l, n) => KeepsInputs(m, e)
  <1>1. /\ Inputs \cap {ScA, Q8(g.hidden), Y(QkvRows(g, l))} = {}
        /\ Inputs \cap {Y(QkvRows(g, l)), AttnOut} = {} /\ Inputs \cap {ScO} = {}
        /\ Inputs \cap {Q8(QRows(g, l)), Y(g.hidden), ScA, XRes} = {} /\ Inputs \cap {ScPf, ScRi} = {}
        /\ Inputs \cap {Q8Preff, Y(2 * g.ffn), Q8(g.ffn), Y(g.hidden), ScA, RouterLogits} = {}
    BY DEF Inputs, XRes, PosDev, SlotDev, PairXidx, PairSeq, DenseIdx, TempsDev, RngDev, ScA, Q8, Y,
       AttnOut, ScO, ScPf,
           ScRi, Q8Preff, RouterLogits
  <1>2. QkvDone(m, e, g, l, n) => KeepsInputs(m, e)
    BY Zenon, <1>1, InputsStay DEF QkvDone
  <1>3. PrepDone(m, e, g, l, n) => KeepsInputs(m, e)
    <2>1. \A c \in Inputs : c \notin {Y(QkvRows(g, l)), AttnOut}
      BY <1>1
    <2> QED BY Zenon, <2>1 DEF PrepDone, KeepsInputs
  <1>4. AttnDone(m, e, g, l, n) => KeepsInputs(m, e)
    BY Zenon, <1>1, InputsStay DEF AttnDone
  <1>5. OProjDone(m, e, g, l, n) => KeepsInputs(m, e)
    BY Zenon, <1>1, InputsStay DEF OProjDone
  <1>6. PreNormsDone(m, e, g, l, n) => KeepsInputs(m, e)
    BY Zenon, <1>1, InputsStay DEF PreNormsDone
  <1>7. MlpDone(m, e, g, l, n) => KeepsInputs(m, e)
    BY Zenon, <1>1, InputsStay DEF MlpDone
  <1> QED BY Zenon, <1>2, <1>3, <1>4, <1>5, <1>6, <1>7

\* An allocation moves no value.
LEMMA AllocDoes ==
  ASSUME NEW g, NEW m, IsMachine(m), NEW b
  PROVE  SameValues(m, Step(g, m, Alloc(b)))
  <1>1. Exec(m, Alloc(b)) = [m EXCEPT !.alloc = @ \cup {b}]
    BY DEF Exec, Alloc
  <1>2. IsMachine(Exec(m, Alloc(b)))
    BY <1>1 DEF IsMachine
  <1>3. SameValues(Exec(m, Alloc(b)), Step(g, m, Alloc(b)))
    BY Zenon, <1>2, StepIsExec
  <1>4. Exec(m, Alloc(b)).kv = m.kv /\ Exec(m, Alloc(b)).mem = m.mem
    BY <1>1 DEF IsMachine
  <1> QED BY Zenon, <1>3, <1>4 DEF SameValues

\* Values that have not moved twice.
LEMMA SameStay ==
  ASSUME NEW m, NEW e, NEW f, SameValues(m, e), SameValues(e, f)
  PROVE  SameValues(m, f)
  BY Zenon DEF SameValues

\* What is read of a machine is read of one with the same values.
LEMMA SameRead ==
  ASSUME NEW m, NEW e, SameValues(m, e)
  PROVE  \A c, i : Get(e, c, i) = Get(m, c, i)
  BY Zenon DEF SameValues, Get

\* What is written after is written.
LEMMA SameWrites ==
  ASSUME NEW m, NEW e, SameValues(m, e), NEW f, NEW W, OnlyWrites(e, f, W)
  PROVE  OnlyWrites(m, f, W)
  <1>1. \A c, i : Get(e, c, i) = Get(m, c, i)
    BY Zenon, SameRead
  <1>2. e.kv = m.kv
    BY Zenon DEF SameValues
  <1> QED BY Zenon, <1>1, <1>2 DEF OnlyWrites

\* What a part does after allocations it does.
LEMMA AfterAllocations ==
  ASSUME NEW g, NEW l, NEW n, NEW m, NEW e, SameValues(m, e), NEW f
  PROVE  /\ QkvDone(e, f, g, l, n) => QkvDone(m, f, g, l, n)
         /\ OProjDone(e, f, g, l, n) => OProjDone(m, f, g, l, n)
         /\ MlpDone(e, f, g, l, n) => MlpDone(m, f, g, l, n)
  <1>1. \A c, i : Get(e, c, i) = Get(m, c, i)
    BY Zenon, SameRead
  <1>2. \A W : OnlyWrites(e, f, W) => OnlyWrites(m, f, W)
    BY Zenon, SameWrites
  <1>3. QkvDone(e, f, g, l, n) => QkvDone(m, f, g, l, n)
    <2> SUFFICES ASSUME QkvDone(e, f, g, l, n) PROVE QkvDone(m, f, g, l, n)
      OBVIOUS
    <2>1. OnlyWrites(m, f, {ScA, Q8(g.hidden), Y(QkvRows(g, l))})
      BY Zenon, <1>2 DEF QkvDone
    <2>2. ASSUME NEW i \in 1..n
          PROVE  Get(f, Y(QkvRows(g, l)), i) = <<"gemv", <<"qkv", l>>, <<"q8", Normed(<<"attn_norm", l>>, Get(m, XRes, i))>>>>
      <3>1. Get(f, Y(QkvRows(g, l)), i) = <<"gemv", <<"qkv", l>>, <<"q8", Normed(<<"attn_norm", l>>, Get(e, XRes, i))>>>>
        BY Zenon DEF QkvDone
      <3>2. Get(e, XRes, i) = Get(m, XRes, i)
        BY Zenon, <1>1
      <3> QED BY Zenon, <3>1, <3>2
    <2> QED BY Zenon, <2>1, <2>2 DEF QkvDone
  <1>4. OProjDone(e, f, g, l, n) => OProjDone(m, f, g, l, n)
    <2> SUFFICES ASSUME OProjDone(e, f, g, l, n) PROVE OProjDone(m, f, g, l, n)
      OBVIOUS
    <2>1. OnlyWrites(m, f, {Q8(QRows(g, l)), Y(g.hidden), ScA, XRes})
      BY Zenon, <1>2 DEF OProjDone
    <2>2. ASSUME NEW i \in 1..n
          PROVE  Get(f, XRes, i) = <<"add", Get(m, XRes, i), Normed(<<"post_attn", l>>, <<"gemv", <<"o", l>>, <<"q8", Get(m, ScO, i)>>>>)>>
      <3>1. Get(f, XRes, i) = <<"add", Get(e, XRes, i), Normed(<<"post_attn", l>>, <<"gemv", <<"o", l>>, <<"q8", Get(e, ScO, i)>>>>)>>
        BY Zenon DEF OProjDone
      <3>2. Get(e, XRes, i) = Get(m, XRes, i) /\ Get(e, ScO, i) = Get(m, ScO, i)
        BY Zenon, <1>1
      <3> QED BY Zenon, <3>1, <3>2
    <2> QED BY Zenon, <2>1, <2>2 DEF OProjDone
  <1>5. MlpDone(e, f, g, l, n) => MlpDone(m, f, g, l, n)
    <2> SUFFICES ASSUME MlpDone(e, f, g, l, n) PROVE MlpDone(m, f, g, l, n)
      OBVIOUS
    <2>1. OnlyWrites(m, f, {Q8Preff, Y(2 * g.ffn), Q8(g.ffn), Y(g.hidden), ScA, RouterLogits})
      BY Zenon, <1>2 DEF MlpDone
    <2>2. ASSUME NEW i \in 1..n
          PROVE  /\ Get(f, Y(g.hidden), i) = <<"gemv", <<"down", l>>, <<"gelu_mul", <<"gemv", <<"gate_up", l>>, <<"q8", Get(m, ScPf, i)>>>>>>>>
                 /\ Get(f, RouterLogits, i) = <<"gemv", <<"router_wf", l>>, Normed(<<"none">>, Get(m, XRes, i))>>
      <3>1. /\ Get(f, Y(g.hidden), i) = <<"gemv", <<"down", l>>, <<"gelu_mul", <<"gemv", <<"gate_up", l>>, <<"q8", Get(e, ScPf, i)>>>>>>>>
            /\ Get(f, RouterLogits, i) = <<"gemv", <<"router_wf", l>>, Normed(<<"none">>, Get(e, XRes, i))>>
        BY Zenon DEF MlpDone
      <3>2. Get(e, XRes, i) = Get(m, XRes, i) /\ Get(e, ScPf, i) = Get(m, ScPf, i)
        BY Zenon, <1>1
      <3> QED BY Zenon, <3>1, <3>2
    <2> QED BY Zenon, <2>1, <2>2 DEF MlpDone
  <1> QED BY Zenon, <1>3, <1>4, <1>5

\* What a layer's program needs.
LayerReady(m, g, n, ctx) == IsMachine(m) /\ Pools(m, g) /\ InputsReady(m, g, n, ctx)

\* The parts of a layer up to the routed experts.
GoesToMoe(g, l, n, m, q, p, a, o, r, d) ==
  /\ QkvDone(m, q, g, l, n) /\ PrepDone(q, p, g, l, n) /\ AttnDone(p, a, g, l, n)
  /\ OProjDone(a, o, g, l, n) /\ PreNormsDone(o, r, g, l, n) /\ MlpDone(r, d, g, l, n)

\* They leave what the routed experts need.
LEMMA PairsStayReady ==
  ASSUME NEW g, NEW l, NEW n, NEW ctx, NEW m, NEW q, NEW p, NEW a, NEW o, NEW r, NEW d,
         GoesToMoe(g, l, n, m, q, p, a, o, r, d), InputsReady(m, g, n, ctx)
  PROVE  InputsReady(d, g, n, ctx)
  <1>1. /\ KeepsInputs(m, q) /\ KeepsInputs(q, p) /\ KeepsInputs(p, a) /\ KeepsInputs(a, o)
        /\ KeepsInputs(o, r) /\ KeepsInputs(r, d)
    BY Zenon, PartsLeaveInputs DEF GoesToMoe
  <1>2. InputsReady(p, g, n, ctx)
    BY Zenon, <1>1, ReadyStays
  <1>3. InputsReady(o, g, n, ctx)
    BY Zenon, <1>1, <1>2, ReadyStays
  <1> QED BY Zenon, <1>1, <1>3, ReadyStays

\* The heads get what they need, and attention.
LEMMA ReadyForHeads ==
  ASSUME NEW g, NEW l, NEW n, NEW ctx, NEW m, LayerReady(m, g, n, ctx), NEW q,
         QkvDone(m, q, g, l, n)
  PROVE  /\ IsMachine(q) /\ Pools(q, g) /\ Placed(q, g, n) /\ Plain(q, g, l, n) /\ InputsReady(q, g, n, ctx)
  <1>1. Placed(m, g, n) /\ Pools(m, g) /\ InputsReady(m, g, n, ctx)
    BY Zenon DEF LayerReady, InputsReady
  <1>2. HeadsBegin(m, q, g, l, n)
    BY Zenon, <1>1, HeadsCanBegin
  <1>3. KeepsInputs(m, q)
    BY Zenon, PartsLeaveInputs
  <1>4. InputsReady(q, g, n, ctx)
    BY Zenon, <1>1, <1>3, ReadyStays
  <1> QED BY Zenon, <1>2, <1>4 DEF HeadsBegin

\* The routed experts end the layer.
LEMMA LayerEnds ==
  ASSUME NEW g, NEW l \in Layers(g), g.topk \in Nat \ {0}, NEW n \in Nat, NEW ctx, NEW m,
         LayerReady(m, g, n, ctx),
         NEW q, NEW p, NEW a, NEW o, NEW r, NEW d, GoesToMoe(g, l, n, m, q, p, a, o, r, d)
  PROVE  LayerDone(m, Run(g, d, Moe(g, l, n)), g, l, n)
  <1>1. InputsReady(m, g, n, ctx) /\ Placed(m, g, n) /\ Pools(m, g)
    BY Zenon DEF LayerReady, InputsReady
  <1>2. InputsReady(d, g, n, ctx)
    BY Zenon, <1>1, PairsStayReady
  <1>3. PairsReady(d, g.topk, n) /\ IsMachine(d)
    BY Zenon, <1>2 DEF InputsReady, GoesToMoe, MlpDone, OnlyWrites
  <1>4. MoeDone(d, Run(g, d, Moe(g, l, n)), g, l, n)
    BY <1>3, MoeDoes
  <1>5. LayerGoes(g, l, n, m, q, p, a, o, r, d, Run(g, d, Moe(g, l, n)))
    BY Zenon, <1>4 DEF LayerGoes, GoesToMoe
  <1> QED BY Zenon, <1>1, <1>5, LayerGoesOn

\* A layer of enqueue_stack.
LEMMA StackLayerDoes ==
  ASSUME NEW g \in Geometries, NEW l \in Layers(g), NEW n \in Nat, NEW ctx \in Nat, NEW m,
         LayerReady(m, g, n, ctx)
  PROVE  LayerDone(m, Run(g, m, StackLayer(g, l, ctx, n)), g, l, n)
  <1> DEFINE q == Run(g, m, QkvGemv(g, l, n))
             p == Step(g, q, QkvPrep(g, l, n))
             a == Step(g, p, AttnDecodeBatch(g, l, ctx, n))
             o == Run(g, a, OProj(g, l, n))
             r == Run(g, o, PreNorms(g, l, n))
             d == Run(g, r, MlpAndRouter(g, l, n))
             e == Run(g, d, Moe(g, l, n))
  <1>1. IsMachine(m) /\ g.window \in Nat /\ g.topk \in Nat \ {0}
    BY DecodeConstants DEF LayerReady
  <1>2. QkvDone(m, q, g, l, n)
    BY Zenon, <1>1, QkvGemvDoes
  <1>3. PartsArePrograms(g, l, n)
    BY Zenon, PartsAre
  <1>4. /\ Reaches(g, m, QkvGemv(g, l, n), q) /\ Reaches(g, a, OProj(g, l, n), o)
        /\ Reaches(g, o, PreNorms(g, l, n), r) /\ Reaches(g, r, MlpAndRouter(g, l, n), d)
        /\ Reaches(g, d, Moe(g, l, n), e)
    BY Zenon, <1>3 DEF Reaches, PartsArePrograms
  <1>5. Reaches(g, q, <<QkvPrep(g, l, n), AttnDecodeBatch(g, l, ctx, n)>>, a)
    BY Zenon, ReachesTwo
  <1> HIDE DEF q
  <1>6. IsMachine(q) /\ Pools(q, g) /\ Placed(q, g, n) /\ Plain(q, g, l, n) /\ InputsReady(q, g, n, ctx)
    BY Zenon, <1>2, ReadyForHeads
  <1>7. PrepDone(q, p, g, l, n)
    BY Zenon, <1>6, PrepDoes
  <1> HIDE DEF p
  <1>8. IsMachine(p) /\ InputsReady(p, g, n, ctx)
    <2>1. KeepsInputs(q, p)
      BY Zenon, <1>7, PartsLeaveInputs
    <2>2. InputsReady(p, g, n, ctx)
      BY Zenon, <1>6, <2>1, ReadyStays
    <2> QED BY Zenon, <1>7, <2>2 DEF PrepDone
  <1>9. AttnDone(p, a, g, l, n)
    <2>1. \A i \in 1..n : Get(p, PosDev, i) \in Nat /\ Get(p, PosDev, i) < ctx
      BY Zenon, <1>8 DEF InputsReady
    <2> QED BY <1>1, <1>8, <2>1, AttnDoes
  <1> HIDE DEF a
  <1>10. OProjDone(a, o, g, l, n)
    <2>1. IsMachine(a)
      BY Zenon, <1>9 DEF AttnDone, OnlyWrites
    <2> QED BY Zenon, <2>1, OProjDoes
  <1> HIDE DEF o
  <1>11. PreNormsDone(o, r, g, l, n)
    <2>1. IsMachine(o)
      BY Zenon, <1>10 DEF OProjDone, OnlyWrites
    <2> QED BY Zenon, <2>1, PreNormsDo
  <1> HIDE DEF r
  <1>12. MlpDone(r, d, g, l, n)
    <2>1. IsMachine(r)
      BY Zenon, <1>11 DEF PreNormsDone, OnlyWrites
    <2> QED BY Zenon, <2>1, MlpDoes
  <1> HIDE DEF d
  <1>13. GoesToMoe(g, l, n, m, q, p, a, o, r, d)
    BY Zenon, <1>2, <1>7, <1>9, <1>10, <1>11, <1>12 DEF GoesToMoe
  <1>14. LayerDone(m, e, g, l, n)
    BY Zenon, <1>1, <1>13, LayerEnds
  <1> HIDE DEF e
  <1>15. Reaches(g, m, StackLayer(g, l, ctx, n), e)
    <2>1. Reaches(g, m, QkvGemv(g, l, n) \o <<QkvPrep(g, l, n), AttnDecodeBatch(g, l, ctx, n)>>, a)
      BY Zenon, <1>4, <1>5, ReachesThen
    <2>2. Reaches(g, m, QkvGemv(g, l, n) \o <<QkvPrep(g, l, n), AttnDecodeBatch(g, l, ctx, n)>> \o OProj(g, l, n), o)
      BY Zenon, <1>4, <2>1, ReachesThen
    <2>3. Reaches(g, m, QkvGemv(g, l, n) \o <<QkvPrep(g, l, n), AttnDecodeBatch(g, l, ctx, n)>> \o OProj(g, l, n)
                        \o PreNorms(g, l, n), r)
      BY Zenon, <1>4, <2>2, ReachesThen
    <2>4. Reaches(g, m, QkvGemv(g, l, n) \o <<QkvPrep(g, l, n), AttnDecodeBatch(g, l, ctx, n)>> \o OProj(g, l, n)
                        \o PreNorms(g, l, n) \o MlpAndRouter(g, l, n), d)
      BY Zenon, <1>4, <2>3, ReachesThen
    <2>5. Reaches(g, m, QkvGemv(g, l, n) \o <<QkvPrep(g, l, n), AttnDecodeBatch(g, l, ctx, n)>> \o OProj(g, l, n)
                        \o PreNorms(g, l, n) \o MlpAndRouter(g, l, n) \o Moe(g, l, n), e)
      BY Zenon, <1>4, <2>4, ReachesThen
    <2> QED BY Zenon, <2>5 DEF StackLayer
  <1> QED BY Zenon, <1>14, <1>15 DEF Reaches

\* A layer of forward_batch.
LEMMA EagerLayerDoes ==
  ASSUME NEW g \in Geometries, NEW l \in Layers(g), NEW n \in Nat, NEW ctx \in Nat, NEW m,
         LayerReady(m, g, n, ctx)
  PROVE  LayerDone(m, Run(g, m, EagerLayer(g, l, ctx, n)), g, l, n)
  <1> DEFINE b == Step(g, m, Alloc(Y(QkvRows(g, l))))
             q == Run(g, b, QkvGemv(g, l, n))
             p == Run(g, q, QkvHeads(g, l, n))
             a == Step(g, p, AttnDecodeBatch(g, l, ctx, n))
             a1 == Step(g, a, Alloc(Q8(QRows(g, l))))
             a2 == Step(g, a1, Alloc(Y(g.hidden)))
             o == Run(g, a2, OProj(g, l, n))
             r == Run(g, o, PreNorms(g, l, n))
             r1 == Step(g, r, Alloc(Q8(g.ffn)))
             r2 == Step(g, r1, Alloc(Y(2 * g.ffn)))
             d == Run(g, r2, MlpAndRouter(g, l, n))
             e == Run(g, d, Moe(g, l, n))
             first == <<Alloc(Y(QkvRows(g, l)))>>
             attn == <<AttnDecodeBatch(g, l, ctx, n), Alloc(Q8(QRows(g, l))), Alloc(Y(g.hidden))>>
             ffn == <<Alloc(Q8(g.ffn)), Alloc(Y(2 * g.ffn))>>
  <1>1. IsMachine(m) /\ g.window \in Nat /\ g.topk \in Nat \ {0}
    BY DecodeConstants DEF LayerReady
  <1>3. PartsArePrograms(g, l, n)
    BY Zenon, PartsAre
  <1>4. /\ Reaches(g, b, QkvGemv(g, l, n), q) /\ Reaches(g, q, QkvHeads(g, l, n), p)
        /\ Reaches(g, a2, OProj(g, l, n), o)
        /\ Reaches(g, o, PreNorms(g, l, n), r) /\ Reaches(g, r2, MlpAndRouter(g, l, n), d)
        /\ Reaches(g, d, Moe(g, l, n), e)
    BY Zenon, <1>3 DEF Reaches, PartsArePrograms
  <1>5. Reaches(g, m, first, b) /\ Reaches(g, p, attn, a2) /\ Reaches(g, r, ffn, r2)
    BY Zenon, ReachesOne, ReachesTwo, ReachesThree
  <1>2. QkvDone(m, q, g, l, n)
    <2>1. SameValues(m, b)
      BY Zenon, <1>1, AllocDoes
    <2>2. IsMachine(b)
      BY Zenon, <2>1 DEF SameValues
    <2>3. QkvDone(b, q, g, l, n)
      BY Zenon, <2>2, QkvGemvDoes
    <2> QED BY Zenon, <2>1, <2>3, AfterAllocations
  <1> HIDE DEF b, q
  <1>6. IsMachine(q) /\ Pools(q, g) /\ Placed(q, g, n) /\ Plain(q, g, l, n) /\ InputsReady(q, g, n, ctx)
    BY Zenon, <1>2, ReadyForHeads
  <1>7. PrepDone(q, p, g, l, n)
    <2>1. QRows(g, l) \in Nat \ {0} /\ KvDim(g, l) \in Nat \ {0}
      <3>1. g.heads \in Nat \ {0} /\ HeadDim(g, l) \in Nat \ {0} /\ g.kvHeads[l] \in Nat \ {0}
        BY DecodeConstants DEF HeadDim, Layers
      <3>2. \A x, y \in Nat \ {0} : x * y \in Nat \ {0}
        OBVIOUS
      <3> QED BY <3>1, <3>2 DEF QRows, KvDim
    <2> QED BY Zenon, <1>6, <2>1, HeadsDo
  <1> HIDE DEF p
  <1>8. IsMachine(p) /\ InputsReady(p, g, n, ctx)
    <2>1. KeepsInputs(q, p)
      BY Zenon, <1>7, PartsLeaveInputs
    <2>2. InputsReady(p, g, n, ctx)
      BY Zenon, <1>6, <2>1, ReadyStays
    <2> QED BY Zenon, <1>7, <2>2 DEF PrepDone
  <1>9. AttnDone(p, a, g, l, n)
    <2>1. \A i \in 1..n : Get(p, PosDev, i) \in Nat /\ Get(p, PosDev, i) < ctx
      BY Zenon, <1>8 DEF InputsReady
    <2> QED BY <1>1, <1>8, <2>1, AttnDoes
  <1> HIDE DEF a
  <1>10. OProjDone(a, o, g, l, n)
    <2>1. IsMachine(a)
      BY Zenon, <1>9 DEF AttnDone, OnlyWrites
    <2>2. SameValues(a, a1)
      BY Zenon, <2>1, AllocDoes
    <2>3. IsMachine(a1)
      BY Zenon, <2>2 DEF SameValues
    <2>4. SameValues(a1, a2)
      BY Zenon, <2>3, AllocDoes
    <2>5. SameValues(a, a2) /\ IsMachine(a2)
      BY Zenon, <2>2, <2>4 DEF SameValues
    <2>6. OProjDone(a2, o, g, l, n)
      BY Zenon, <2>5, OProjDoes
    <2> QED BY Zenon, <2>5, <2>6, AfterAllocations
  <1> HIDE DEF a1, a2, o
  <1>11. PreNormsDone(o, r, g, l, n)
    <2>1. IsMachine(o)
      BY Zenon, <1>10 DEF OProjDone, OnlyWrites
    <2> QED BY Zenon, <2>1, PreNormsDo
  <1> HIDE DEF r
  <1>12. MlpDone(r, d, g, l, n)
    <2>1. IsMachine(r)
      BY Zenon, <1>11 DEF PreNormsDone, OnlyWrites
    <2>2. SameValues(r, r1)
      BY Zenon, <2>1, AllocDoes
    <2>3. IsMachine(r1)
      BY Zenon, <2>2 DEF SameValues
    <2>4. SameValues(r1, r2)
      BY Zenon, <2>3, AllocDoes
    <2>5. SameValues(r, r2) /\ IsMachine(r2)
      BY Zenon, <2>2, <2>4 DEF SameValues
    <2>6. MlpDone(r2, d, g, l, n)
      BY Zenon, <2>5, MlpDoes
    <2> QED BY Zenon, <2>5, <2>6, AfterAllocations
  <1> HIDE DEF r1, r2, d
  <1>13. GoesToMoe(g, l, n, m, q, p, a, o, r, d)
    BY Zenon, <1>2, <1>7, <1>9, <1>10, <1>11, <1>12 DEF GoesToMoe
  <1>14. LayerDone(m, e, g, l, n)
    BY Zenon, <1>1, <1>13, LayerEnds
  <1> HIDE DEF e
  <1>15. Reaches(g, m, EagerLayer(g, l, ctx, n), e)
    <2>1. EagerLayer(g, l, ctx, n)
            = first \o QkvGemv(g, l, n) \o QkvHeads(g, l, n) \o attn \o OProj(g, l, n) \o PreNorms(g, l, n)
              \o ffn \o MlpAndRouter(g, l, n) \o Moe(g, l, n)
      BY Zenon DEF EagerLayer
    <2> HIDE DEF first, attn, ffn
    <2>2. Reaches(g, m, first \o QkvGemv(g, l, n), q)
      BY Zenon, <1>4, <1>5, ReachesThen
    <2>3. Reaches(g, m, first \o QkvGemv(g, l, n) \o QkvHeads(g, l, n), p)
      BY Zenon, <1>4, <2>2, ReachesThen
    <2>4. Reaches(g, m, first \o QkvGemv(g, l, n) \o QkvHeads(g, l, n) \o attn, a2)
      BY Zenon, <1>5, <2>3, ReachesThen
    <2>5. Reaches(g, m, first \o QkvGemv(g, l, n) \o QkvHeads(g, l, n) \o attn \o OProj(g, l, n), o)
      BY Zenon, <1>4, <2>4, ReachesThen
    <2>6. Reaches(g, m, first \o QkvGemv(g, l, n) \o QkvHeads(g, l, n) \o attn \o OProj(g, l, n) \o PreNorms(g, l, n), r)
      BY Zenon, <1>4, <2>5, ReachesThen
    <2>7. Reaches(g, m, first \o QkvGemv(g, l, n) \o QkvHeads(g, l, n) \o attn \o OProj(g, l, n) \o PreNorms(g, l, n)
                        \o ffn, r2)
      BY Zenon, <1>5, <2>6, ReachesThen
    <2>8. Reaches(g, m, first \o QkvGemv(g, l, n) \o QkvHeads(g, l, n) \o attn \o OProj(g, l, n) \o PreNorms(g, l, n)
                        \o ffn \o MlpAndRouter(g, l, n), d)
      BY Zenon, <1>4, <2>7, ReachesThen
    <2>9. Reaches(g, m, first \o QkvGemv(g, l, n) \o QkvHeads(g, l, n) \o attn \o OProj(g, l, n) \o PreNorms(g, l, n)
                        \o ffn \o MlpAndRouter(g, l, n) \o Moe(g, l, n), e)
      BY Zenon, <1>4, <2>8, ReachesThen
    <2> QED BY Zenon, <2>1, <2>9
  <1> QED BY Zenon, <1>14, <1>15 DEF Reaches

(***************************************************************************)
(* What the passes keep.  A slot that is not to be reset has in every      *)
(* layer's pool the keys and values of its history, and its position is    *)
(* where the history ends.  While a pass is under way, its rows are placed *)
(* there; x is that of the layer to run next, after the history with the   *)
(* row's token; and the layers before it have put the keys and values of   *)
(* that token into the pool.                                               *)
(***************************************************************************)
EmbedTerms == {"embed"} \X Slots \X Nat \X Nat

\* The key and the value of a layer after history h are in the pool at p.
Holds(m, g, k, s, p, h) ==
  /\ Cell(m, k, s, p, "k") = HeadTerm(g, k, p, X(k, h), "k", "k_norm")
  /\ Cell(m, k, s, p, "v") = ValueTerm(k, X(k, h))
Caches(m, g, s, h) == \A k \in Layers(g), p \in 0..(Len(h) - 1) : Holds(m, g, k, s, p, SubSeq(h, 1, p + 1))

\* The history with the token that a row feeds.
Fed(i) == Append(history[pass.reqs[i]], pass.tokens[i])
Rowed == 1..Len(pass.reqs)

\* The positions are one ahead once forward_batch has enqueued the sampling.
Ahead(s) == IF pass.at = "tokens" /\ pass.kind # "graphed" /\ s \in Range(pass.reqs) THEN 1 ELSE 0

TypesInv ==
  /\ seqPos \in [Slots -> Nat] /\ epoch \in [Slots -> Nat] /\ graphExec \in [Slots -> Nat]
  /\ history \in [Slots -> Seq(EmbedTerms)] /\ draws \in [Slots -> Nat]

\* A row's generator was advanced once for every time the row was sampled.
RngInv == \A i \in Slots : Get(machine, RngDev, i) = RngState(i, draws[i])

SlotsInv ==
  /\ geom = <<>> => /\ answered = Nothing
                    /\ \A s \in Slots : history[s] = <<>> /\ graphExec[s] = 0 /\ draws[s] = 0
  /\ geom # <<>> =>
       /\ Pools(machine, geom) /\ RngInv
       /\ \A n \in Slots : graphExec[n] \in {0, geom.maxSeq}
       /\ \A s \in Slots \ unset :
            Len(history[s]) <= geom.maxSeq /\ Caches(machine, geom, s, history[s])
  /\ \A s \in Slots \ unset : seqPos[s] = Len(history[s]) + Ahead(s)

\* The rows of a pass whose layers have not all run.
RowsInv ==
  /\ PairsReady(machine, geom.topk, Len(pass.reqs))
  /\ \A i \in Rowed :
       /\ Get(machine, SlotDev, i) = pass.reqs[i]
       /\ Get(machine, PosDev, i) = Len(history[pass.reqs[i]])
       /\ Get(machine, XRes, i) = X(pass.layer, Fed(i))
       /\ pass.kind # "logits" => Get(machine, TempsDev, i) = Temperature(pass.reqs[i])

\* What is drawn of the logits after history h for the sequence in slot s, when row i has
\* been sampled d times.
Drawn(i, h, s, d) == Sampled(LogitsOf(geom, h), Temperature(s), RngState(i, d - 1))

\* What there is to download.
OutputsInv ==
  \A i \in Rowed :
    /\ pass.at = "logits" => Get(machine, LogitsDev, i) = LogitsOf(geom, Fed(i))
    /\ pass.at = "tokens" /\ pass.kind # "logits" =>
         Get(machine, TokOut, i) = Drawn(i, Fed(i), pass.reqs[i], draws[i])

UnderwayInv ==
  /\ answered = Nothing
  /\ pass.reqs \in Batches /\ Range(pass.reqs) \cap unset = {}
  /\ pass.layer \in 1..(Len(geom.swa) + 1)
  /\ pass.at \in Recording => pass.layer = 1
  /\ pass.at \in {"tokens", "logits"} => pass.layer = Len(geom.swa) + 1
  /\ \A i \in Rowed :
       /\ pass.tokens[i] \in EmbedTerms /\ Len(history[pass.reqs[i]]) < geom.maxSeq
       /\ \A k \in Layers(geom) : k < pass.layer =>
            Holds(machine, geom, k, pass.reqs[i], Len(history[pass.reqs[i]]), Fed(i))
  /\ pass.at = "launch" => graphExec[Len(pass.reqs)] = geom.maxSeq
  /\ pass.at = "layer" => pass.maxCtx \in Nat /\ \A i \in Rowed : Len(history[pass.reqs[i]]) < pass.maxCtx
  /\ pass.at \in Recording \cup {"layer"} => RowsInv
  /\ OutputsInv

AnswersInv ==
  BuffersInv /\ TypesInv /\ SlotsInv /\ (pass # Idle => UnderwayInv) /\ AnswersFollowTheHistory

\* The stream captures, and no pass will end the capture.
Lost == capturing /\ pass.at \notin {"enqueue", "instantiate"}

\* The model that is loaded.
LEMMA ModelIs ==
  ASSUME NEW g \in Geometries
  PROVE  /\ Layers(g) = 1..Len(g.swa) /\ Len(g.swa) \in Nat /\ g.maxSeq \in Nat /\ g.window \in Nat
         /\ g.topk \in Nat \ {0} /\ \A l \in Layers(g) : Window(g, l) \in Nat
  <1>1. g.swa \in Seq(BOOLEAN) /\ g.maxSeq \in Nat /\ g.window \in Nat /\ g.topk \in Nat \ {0}
    BY DecodeConstants
  <1>2. Layers(g) = 1..Len(g.swa) /\ Len(g.swa) \in Nat
    BY <1>1 DEF Layers
  <1>3. \A l \in Layers(g) : Window(g, l) \in Nat
    BY <1>1 DEF Window
  <1> QED BY <1>1, <1>2, <1>3

\* A history and the next token.
OneLonger(h, t) ==
  LET H == Append(h, t)
  IN  /\ Len(H) = Len(h) + 1 /\ Len(h) \in Nat /\ H[Len(H)] = t /\ SubSeq(H, 1, Len(h) + 1) = H
      /\ \A p \in 0..(Len(h) - 1) : SubSeq(H, 1, p + 1) = SubSeq(h, 1, p + 1)
      /\ \A p \in 0..Len(h) : Len(SubSeq(H, 1, p + 1)) = p + 1

\* What it begins with is what the history begins with.
LEMMA HistoryGrows ==
  ASSUME NEW V, NEW h \in Seq(V), NEW t \in V
  PROVE  OneLonger(h, t)
  <1> DEFINE H == Append(h, t)
  <1>1. /\ Len(H) = Len(h) + 1 /\ Len(h) \in Nat /\ H[Len(H)] = t /\ H \in Seq(V)
        /\ \A i \in 1..Len(h) : H[i] = h[i]
    OBVIOUS
  <1> HIDE DEF H
  <1>2. ASSUME NEW s \in Seq(V), NEW p \in 0..(Len(s) - 1)
        PROVE  /\ SubSeq(s, 1, p + 1) \in Seq(V) /\ Len(SubSeq(s, 1, p + 1)) = p + 1
               /\ \A i \in 1..(p + 1) : SubSeq(s, 1, p + 1)[i] = s[i]
    BY <1>2
  <1>3. SubSeq(H, 1, Len(h) + 1) = H
    <2>1. /\ SubSeq(H, 1, Len(h) + 1) \in Seq(V) /\ Len(SubSeq(H, 1, Len(h) + 1)) = Len(h) + 1
          /\ \A i \in 1..(Len(h) + 1) : SubSeq(H, 1, Len(h) + 1)[i] = H[i]
      BY <1>1, <1>2
    <2> QED BY <1>1, <2>1, SeqEqual
  <1>4. ASSUME NEW p \in 0..(Len(h) - 1) PROVE SubSeq(H, 1, p + 1) = SubSeq(h, 1, p + 1)
    <2>1. p \in 0..(Len(H) - 1) /\ 1..(p + 1) \subseteq 1..Len(h)
      BY <1>1
    <2>2. /\ SubSeq(H, 1, p + 1) \in Seq(V) /\ Len(SubSeq(H, 1, p + 1)) = p + 1
          /\ \A i \in 1..(p + 1) : SubSeq(H, 1, p + 1)[i] = H[i]
      BY <1>1, <1>2, <2>1
    <2>3. /\ SubSeq(h, 1, p + 1) \in Seq(V) /\ Len(SubSeq(h, 1, p + 1)) = p + 1
          /\ \A i \in 1..(p + 1) : SubSeq(h, 1, p + 1)[i] = h[i]
      BY <1>2
    <2>4. \A i \in 1..(p + 1) : SubSeq(H, 1, p + 1)[i] = SubSeq(h, 1, p + 1)[i]
      BY <1>1, <2>1, <2>2, <2>3
    <2> QED BY <2>2, <2>3, <2>4, SeqEqual
  <1>5. \A p \in 0..Len(h) : Len(SubSeq(H, 1, p + 1)) = p + 1
    BY <1>1, <1>2
  <1> QED BY <1>1, <1>3, <1>4, <1>5 DEF OneLonger, H

\* What is in the pool is there after a layer whose rows are elsewhere.
LEMMA HoldsStays ==
  ASSUME NEW m, NEW e, NEW g, NEW l, NEW n, LayerDone(m, e, g, l, n), NEW k \in Layers(g),
         NEW s \in Slots,
         NEW p \in Positions(g), NEW h, Holds(m, g, k, s, p, h),
         k # l \/ (\A i \in 1..n : ~At(m, i, s, p))
  PROVE  Holds(e, g, k, s, p, h)
  <1>1. "k" \in {"k", "v"} /\ "v" \in {"k", "v"}
    OBVIOUS
  <1>2. Cell(e, k, s, p, "k") = Cell(m, k, s, p, "k") /\ Cell(e, k, s, p, "v") = Cell(m, k, s, p, "v")
    BY Zenon, <1>1 DEF LayerDone
  <1> QED BY Zenon, <1>2 DEF Holds

\* A layer leaves what the pools have of a history whose end its rows are placed at.
LEMMA CachesStay ==
  ASSUME NEW g \in Geometries, NEW l, NEW n, NEW m, NEW e, LayerDone(m, e, g, l, n),
         NEW s \in Slots,
         NEW h, Len(h) \in Nat, Len(h) <= g.maxSeq, Caches(m, g, s, h),
         \A i \in 1..n : Get(m, SlotDev, i) = s => Get(m, PosDev, i) = Len(h)
  PROVE  Caches(e, g, s, h)
  <1> SUFFICES ASSUME NEW k \in Layers(g), NEW p \in 0..(Len(h) - 1) PROVE Holds(e, g, k, s, p, SubSeq(h, 1, p + 1))
    BY DEF Caches
  <1>1. p \in Positions(g) /\ p # Len(h)
    BY ModelIs DEF Positions
  <1>2. \A i \in 1..n : ~At(m, i, s, p)
    BY <1>1 DEF At
  <1> DEFINE then == SubSeq(h, 1, p + 1)
  <1>3. Holds(m, g, k, s, p, then)
    BY DEF Caches
  <1>4. p \in Positions(g)
    BY Zenon, <1>1
  <1> HIDE DEF then
  <1>5. Holds(e, g, k, s, p, then)
    BY ZenonT(30), <1>2, <1>3, <1>4, HoldsStays
  <1> QED BY <1>5 DEF then

\* The model's function of a layer, by the terms of the launches.
ThenTerm(g, l, h, p) ==
  <<"at", p, HeadTerm(g, l, Len(SubSeq(h, 1, p + 1)) - 1, X(l, SubSeq(h, 1, p + 1)), "k", "k_norm"),
    ValueTerm(l, X(l, SubSeq(h, 1, p + 1)))>>

\* A layer of the model is the term that the launches of a layer build.
LEMMA LayerOfIs ==
  ASSUME NEW g, NEW l, NEW h
  PROVE  LayerOf(g, l, h) =
           MixedTerm(g, l, AddedTerm(l, X(l, h),
             <<"attn", HeadTerm(g, l, Len(h) - 1, X(l, h), "q", "q_norm"),
               {ThenTerm(g, l, h, p) : p \in Attended(Len(h) - 1, Window(g, l))}>>))
  <1>1. \A y : QkvOf(l, y) = QkvTerm(l, X(l, y))
    BY DEF QkvOf, QkvTerm
  <1>2. \A y, s, w : HeadOf(g, l, y, s, w) = HeadTerm(g, l, Len(y) - 1, X(l, y), s, w)
    BY Zenon, <1>1 DEF HeadOf, HeadTerm
  <1>3. AttentionOf(g, l, h) =
          <<"attn", HeadTerm(g, l, Len(h) - 1, X(l, h), "q", "q_norm"),
            {ThenTerm(g, l, h, p) : p \in Attended(Len(h) - 1, Window(g, l))}>>
    <2> DEFINE then(p) == <<"at", p, HeadOf(g, l, SubSeq(h, 1, p + 1), "k", "k_norm"),
                            Normed(<<"none">>, <<"section", "v", QkvOf(l, SubSeq(h, 1, p + 1))>>)>>
    <2>1. AttentionOf(g, l, h) =
            <<"attn", HeadOf(g, l, h, "q", "q_norm"), {then(p) : p \in Attended(Len(h) - 1, Window(g, l))}>>
      BY DEF AttentionOf, Window
    <2>2. ASSUME NEW p PROVE then(p) = ThenTerm(g, l, h, p)
      <3>1. Normed(<<"none">>, <<"section", "v", QkvOf(l, SubSeq(h, 1, p + 1))>>) = ValueTerm(l, X(l, SubSeq(h, 1, p + 1)))
        BY Zenon, <1>1 DEF ValueTerm
      <3> QED BY Zenon, <1>2, <3>1 DEF ThenTerm
    <2> HIDE DEF then
    <2>3. {then(p) : p \in Attended(Len(h) - 1, Window(g, l))}
            = {ThenTerm(g, l, h, p) : p \in Attended(Len(h) - 1, Window(g, l))}
      BY <2>2
    <2> QED BY Zenon, <1>2, <2>1, <2>3
  <1> DEFINE xa == AddedTerm(l, X(l, h), AttentionOf(g, l, h))
  <1>4. LayerOf(g, l, h) = MixedTerm(g, l, xa)
    BY DEF LayerOf, MixedTerm, AddedTerm, RoutedOf, ExpertOf
  <1> QED BY Zenon, <1>3, <1>4

\* A layer computes it for a row whose history is in the pools.
RowComputed(m, e, g, l, i, h, t) ==
  /\ Get(e, XRes, i) = LayerOf(g, l, Append(h, t))
  /\ Holds(e, g, l, Get(m, SlotDev, i), Len(h), Append(h, t))

\* It does.
LEMMA LayerComputes ==
  ASSUME NEW g \in Geometries, NEW l \in Layers(g), NEW n, NEW m, NEW e,
         LayerDone(m, e, g, l, n), NEW i \in 1..n,
         NEW V, NEW h \in Seq(V), NEW t \in V, Get(m, PosDev, i) = Len(h),
         Get(m, XRes, i) = X(l, Append(h, t)), Caches(e, g, Get(m, SlotDev, i), h)
  PROVE  RowComputed(m, e, g, l, i, h, t)
  <1> DEFINE H == Append(h, t)
             s == Get(m, SlotDev, i)
             S == Attended(Len(h), Window(g, l))
             cached(p) == <<"at", p, Cell(e, l, s, p, "k"), Cell(e, l, s, p, "v")>>
  <1>1. OneLonger(h, t)
    BY HistoryGrows
  <1>2. Len(H) = Len(h) + 1 /\ Len(h) \in Nat /\ SubSeq(H, 1, Len(h) + 1) = H
    BY <1>1 DEF OneLonger
  <1>3. Holds(e, g, l, s, Len(h), H)
    BY Zenon DEF LayerDone, Holds
  <1>4. Get(e, SlotDev, i) = s /\ Get(e, PosDev, i) = Len(h)
    <2>1. SlotDev \in Inputs /\ PosDev \in Inputs
      BY DEF Inputs
    <2>2. Keeps(m, e, SlotDev) /\ Keeps(m, e, PosDev)
      BY Zenon, <2>1 DEF LayerDone
    <2> QED BY Zenon, <2>2 DEF Keeps
  <1>5. S \subseteq 0..Len(h)
    BY <1>2, ModelIs DEF Attended
  <1>6. ASSUME NEW p \in S PROVE cached(p) = ThenTerm(g, l, H, p)
    <2>1. p \in 0..Len(h)
      BY <1>5
    <2>2. Len(SubSeq(H, 1, p + 1)) - 1 = p
      BY <1>1, <1>2, <2>1 DEF OneLonger
    <2>3. Holds(e, g, l, s, p, SubSeq(H, 1, p + 1))
      <3>1. CASE p = Len(h)
        BY <1>2, <1>3, <3>1
      <3>2. CASE p # Len(h)
        <4>1. p \in 0..(Len(h) - 1)
          BY <1>2, <2>1, <3>2
        <4>2. SubSeq(H, 1, p + 1) = SubSeq(h, 1, p + 1)
          BY <1>1, <4>1 DEF OneLonger
        <4>3. Holds(e, g, l, s, p, SubSeq(h, 1, p + 1))
          BY <4>1 DEF Caches
        <4> QED BY Zenon, <4>2, <4>3
      <3> QED BY <3>1, <3>2
    <2> HIDE DEF H, s
    <2> QED BY Zenon, <2>2, <2>3 DEF Holds, ThenTerm
  <1>7. AttendedOf(e, l, i, Window(g, l)) = {ThenTerm(g, l, H, p) : p \in S}
    <2>1. AttendedOf(e, l, i, Window(g, l)) = {cached(p) : p \in S}
      BY <1>4 DEF AttendedOf
    <2> HIDE DEF cached, S, H
    <2>2. {cached(p) : p \in S} = {ThenTerm(g, l, H, p) : p \in S}
      BY <1>6
    <2> QED BY Zenon, <2>1, <2>2
  <1>8. Get(e, XRes, i) =
          MixedTerm(g, l, AddedTerm(l, X(l, H), <<"attn", HeadTerm(g, l, Len(h), X(l, H), "q", "q_norm"),
                                                  AttendedOf(e, l, i, Window(g, l))>>))
    BY Zenon DEF LayerDone
  <1>9. Len(H) - 1 = Len(h)
    BY <1>2
  <1>10. Get(e, XRes, i) = LayerOf(g, l, H)
    BY Zenon, <1>7, <1>8, <1>9, LayerOfIs
  <1> QED BY Zenon, <1>3, <1>10 DEF RowComputed

\* What is in the pools is there as long as the pools are the same.
LEMMA PoolsStay ==
  ASSUME NEW m, NEW e, e.kv = m.kv, NEW g
  PROVE  /\ Pools(m, g) => Pools(e, g)
         /\ \A k, s, p, h : Holds(m, g, k, s, p, h) => Holds(e, g, k, s, p, h)
         /\ \A s, h : Caches(m, g, s, h) => Caches(e, g, s, h)
  <1>1. Pools(m, g) => Pools(e, g)
    BY Zenon, SameCells
  <1>2. \A k, s, p, h : Cell(e, k, s, p, h) = Cell(m, k, s, p, h)
    BY Zenon, SameCells
  <1>3. \A k, s, p, h : Holds(m, g, k, s, p, h) => Holds(e, g, k, s, p, h)
    BY Zenon, <1>2 DEF Holds
  <1>4. \A s, h : Caches(m, g, s, h) => Caches(e, g, s, h)
    BY <1>3 DEF Caches
  <1> QED BY <1>1, <1>3, <1>4

\* The generators are where they were.
LEMMA RngStays ==
  ASSUME RngInv, Keeps(machine, machine', RngDev), draws' = draws
  PROVE  RngInv'
  BY DEF RngInv, Keeps

\* They are all that is not forgotten at the end of a pass, but for the pools.
LEMMA RngIsNotForgotten ==
  ASSUME NEW m, IsMachine(m)
  PROVE  Forgotten(m).kv = m.kv /\ Keeps(m, Forgotten(m), RngDev)
  <1> DEFINE mem == [b \in DOMAIN m.mem \cap {RngDev} |-> m.mem[b]]
             e == Forgotten(m)
  <1>1. e = [m EXCEPT !.mem = mem]
    BY Zenon DEF Forgotten
  <1> HIDE DEF e
  <1>2. e.mem = mem /\ e.kv = m.kv
    <2> HIDE DEF mem
    <2> QED BY <1>1 DEF IsMachine
  <1>3. RngDev \in DOMAIN mem <=> RngDev \in DOMAIN m.mem
    OBVIOUS
  <1>4. RngDev \in DOMAIN mem => mem[RngDev] = m.mem[RngDev]
    OBVIOUS
  <1> HIDE DEF mem
  <1>5. Keeps(m, e, RngDev)
    BY Zenon, <1>2, <1>3, <1>4 DEF Keeps, Get
  <1> QED BY Zenon, <1>2, <1>5 DEF e

\* A pass that ends badly takes its slots along.
LEMMA BadEnd ==
  ASSUME AnswersInv, BuffersInv', geom # <<>>, pass' = Idle, machine'.kv = machine.kv,
         Keeps(machine, machine', RngDev), draws' = draws,
         geom' = geom, seqPos' = seqPos, history' = history, graphExec' = graphExec, epoch' = epoch,
         unset \subseteq unset', \A s \in Slots \ unset' : Ahead(s) = 0,
         answered'.is \notin {"tokens", "logits"}
  PROVE  AnswersInv'
  <1>1. TypesInv'
    BY DEF AnswersInv, TypesInv
  <1>2. Pools(machine, geom)' /\ \A s \in Slots \ unset' : Caches(machine, geom, s, history[s])'
    BY PoolsStay DEF AnswersInv, SlotsInv
  <1>3. \A s \in Slots \ unset' : Ahead(s)' = 0
    BY DEF Ahead, Idle
  <1>4. \A s \in Slots \ unset' : seqPos'[s] = Len(history'[s]) + Ahead(s)'
    BY <1>3 DEF AnswersInv, SlotsInv
  <1>5. \A s \in Slots \ unset' : Len(history'[s]) <= geom'.maxSeq
    BY DEF AnswersInv, SlotsInv
  <1>6. \A n \in Slots : graphExec'[n] \in {0, geom'.maxSeq}
    BY DEF AnswersInv, SlotsInv
  <1>0. RngInv'
    BY RngStays DEF AnswersInv, SlotsInv
  <1>7. SlotsInv'
    BY <1>0, <1>2, <1>4, <1>5, <1>6 DEF SlotsInv
  <1>8. AnswersFollowTheHistory'
    BY DEF AnswersFollowTheHistory
  <1> QED BY <1>1, <1>7, <1>8 DEF AnswersInv

\* Loading a model.
LEMMA LoadKeeps ==
  ASSUME AnswersInv, BuffersInv', LoadModel
  PROVE  AnswersInv'
  <1>1. geom = <<>> /\ pass = Idle /\ pass' = pass /\ answered = Nothing /\ answered' = answered
    BY DEF LoadModel, AnswersInv, BuffersInv, SlotsInv
  <1>2. PICK g \in Geometries :
          /\ geom' = g
          /\ machine'.kv = [l \in Layers(g) |-> [s \in Slots |->
                              [p \in 0..(g.maxSeq - 1) |-> [k |-> Stale, v |-> Stale]]]]
          /\ machine'.mem = [b \in {RngDev} |-> [i \in Slots |-> RngState(i, 0)]]
    BY DEF LoadModel
  <1>3. Pools(machine', g)
    BY <1>2 DEF Pools, HasPool, Positions
  <1>4. UNCHANGED <<seqPos, history, graphExec, epoch, unset, draws>>
    BY DEF LoadModel
  <1>14. RngInv'
    <2>1. \A i \in Slots : Get(machine', RngDev, i) = RngState(i, 0)
      BY <1>2 DEF Get
    <2>2. \A i \in Slots : draws'[i] = 0
      BY <1>1, <1>4 DEF AnswersInv, SlotsInv
    <2> QED BY <2>1, <2>2 DEF RngInv
  <1>5. TypesInv'
    BY <1>4 DEF AnswersInv, TypesInv
  <1>6. \A s \in Slots : Len(history'[s]) = 0 /\ graphExec'[s] = 0
    BY <1>1, <1>4 DEF AnswersInv, SlotsInv
  <1>7. \A s \in Slots : Caches(machine', g, s, history'[s])
    BY <1>6 DEF Caches
  <1>8. \A s \in Slots \ unset' : seqPos'[s] = Len(history'[s]) + Ahead(s)'
    BY <1>1, <1>4 DEF AnswersInv, SlotsInv, Ahead, Idle
  <1>9. g.maxSeq \in Nat
    BY ModelIs
  <1>10. \A s \in Slots \ unset' : Len(history'[s]) <= g.maxSeq
    BY <1>6, <1>9
  <1>11. \A s \in Slots : history'[s] = <<>> /\ draws'[s] = 0
    BY <1>1, <1>4 DEF AnswersInv, SlotsInv
  <1>12. SlotsInv'
    BY <1>1, <1>2, <1>3, <1>6, <1>7, <1>8, <1>10, <1>11, <1>14 DEF SlotsInv
  <1>13. AnswersFollowTheHistory'
    BY <1>1 DEF AnswersFollowTheHistory, Nothing
  <1> QED BY <1>1, <1>5, <1>12, <1>13 DEF AnswersInv

\* Resetting a slot.
LEMMA ResetKeeps ==
  ASSUME AnswersInv, BuffersInv', ResetSlot
  PROVE  AnswersInv'
  <1>1. geom # <<>> /\ geom' = geom /\ machine' = machine /\ pass = Idle /\ pass' = pass /\ graphExec' = graphExec
        /\ answered' = Nothing /\ draws' = draws
    BY DEF ResetSlot
  <1>2. PICK s \in Slots : /\ seqPos' = [seqPos EXCEPT ![s] = 0] /\ history' = [history EXCEPT ![s] = <<>>]
                           /\ epoch' = [epoch EXCEPT ![s] = @ + 1] /\ unset' = unset \ {s}
    BY DEF ResetSlot
  <1>3. TypesInv'
    BY <1>1, <1>2 DEF AnswersInv, TypesInv
  <1>4. geom.maxSeq \in Nat
    BY <1>1, ModelIs DEF AnswersInv, BuffersInv
  <1>5. ASSUME NEW u \in Slots \ unset'
        PROVE  /\ seqPos'[u] = Len(history'[u]) + Ahead(u)' /\ Len(history'[u]) <= geom.maxSeq
               /\ Caches(machine, geom, u, history'[u])
    <2>1. Ahead(u)' = 0 /\ Ahead(u) = 0
      BY <1>1 DEF Ahead, Idle
    <2>2. CASE u = s
      <3>1. history'[u] = <<>> /\ seqPos'[u] = 0 /\ Len(history'[u]) = 0
        BY <1>2, <2>2 DEF AnswersInv, TypesInv
      <3> QED BY <1>4, <2>1, <3>1 DEF Caches
    <2>3. CASE u # s
      <3>1. history'[u] = history[u] /\ seqPos'[u] = seqPos[u] /\ u \in Slots \ unset
        BY <1>2, <2>3 DEF AnswersInv, TypesInv
      <3> QED BY <1>1, <2>1, <3>1 DEF AnswersInv, SlotsInv
    <2> QED BY <2>2, <2>3
  <1>8. RngInv'
    BY <1>1 DEF AnswersInv, SlotsInv, RngInv
  <1>6. SlotsInv'
    BY <1>1, <1>5, <1>8 DEF AnswersInv, SlotsInv
  <1>7. AnswersFollowTheHistory'
    BY <1>1 DEF AnswersFollowTheHistory, Nothing
  <1> QED BY <1>1, <1>3, <1>6, <1>7 DEF AnswersInv

\* The steps of a recording, and the launch.
LEMMA RecordingGoesOn ==
  ASSUME AnswersInv, BuffersInv', pass # Idle, pass.at \in Recording, pass'.at \in Recording \cup {"layer"},
         pass'.reqs = pass.reqs, pass'.tokens = pass.tokens, pass'.kind = pass.kind, pass'.layer = pass.layer,
         UNCHANGED <<geom, machine, seqPos, history, unset, epoch, answered, draws>>,
         graphExec' \in [Slots -> Nat], \A n \in Slots : graphExec'[n] \in {0, geom.maxSeq},
         pass'.at = "launch" => graphExec'[Len(pass.reqs)] = geom.maxSeq,
         pass'.at = "layer" => pass'.maxCtx = geom.maxSeq
  PROVE  AnswersInv'
  <1>1. TypesInv'
    BY DEF AnswersInv, TypesInv
  <1>2. geom # <<>> /\ geom.maxSeq \in Nat
    BY ModelIs DEF AnswersInv, BuffersInv
  <1>3. \A s : Ahead(s) = 0 /\ Ahead(s)' = 0
    BY DEF Ahead, Recording
  <1>0. RngInv'
    BY <1>2 DEF AnswersInv, SlotsInv, RngInv
  <1>4. SlotsInv'
    BY <1>0, <1>2, <1>3 DEF AnswersInv, SlotsInv
  <1>5. Rowed' = Rowed /\ \A i : Fed(i)' = Fed(i)
    BY DEF Rowed, Fed
  <1>6. UnderwayInv
    BY DEF AnswersInv
  <1>7. RowsInv'
    <2>1. RowsInv
      BY <1>6 DEF UnderwayInv
    <2>2. \A u : Temperature(u)' = Temperature(u)
      BY DEF Temperature
    <2> QED BY <1>5, <2>1, <2>2 DEF RowsInv
  <1>8. OutputsInv'
    BY DEF OutputsInv, Recording
  <1>9. pass'.at = "layer" => pass'.maxCtx \in Nat /\ \A i \in Rowed : Len(history[pass.reqs[i]]) < pass'.maxCtx
    BY <1>2, <1>6 DEF UnderwayInv
  <1>10. UnderwayInv'
    <2>1. pass.reqs \in Batches /\ Range(pass.reqs) \cap unset = {}
      BY <1>6 DEF UnderwayInv
    <2>2. pass.layer \in 1..(Len(geom.swa) + 1) /\ pass.layer = 1 /\ pass'.at \notin {"tokens", "logits"}
      BY <1>6 DEF UnderwayInv, Recording
    <2>3. \A i \in Rowed :
            /\ pass.tokens[i] \in EmbedTerms /\ Len(history[pass.reqs[i]]) < geom.maxSeq
            /\ \A k \in Layers(geom) : k < pass.layer =>
                 Holds(machine, geom, k, pass.reqs[i], Len(history[pass.reqs[i]]), Fed(i))
      BY <1>6 DEF UnderwayInv
    <2>4. answered' = Nothing
      BY <1>6 DEF UnderwayInv
    <2> QED BY <1>5, <1>7, <1>8, <1>9, <2>1, <2>2, <2>3, <2>4 DEF UnderwayInv
  <1>11. AnswersFollowTheHistory'
    BY <1>10 DEF UnderwayInv, AnswersFollowTheHistory, Nothing
  <1> QED BY <1>1, <1>4, <1>10, <1>11 DEF AnswersInv

\* A batch: slots, each at most once.
LEMMA BatchIs ==
  ASSUME NEW reqs \in Batches
  PROVE  /\ Len(reqs) \in 1..MaxBatch /\ DOMAIN reqs = 1..Len(reqs) /\ \A i \in 1..Len(reqs) : reqs[i] \in Slots
         /\ \A i, j \in 1..Len(reqs) : reqs[i] = reqs[j] => i = j
         /\ \A s : s \in Range(reqs) <=> \E i \in 1..Len(reqs) : reqs[i] = s
  <1>1. PICK n \in 1..MaxBatch : reqs \in [1..n -> Slots] /\ IsInjective(reqs)
    BY DEF Batches
  <1>2. DOMAIN reqs = 1..n /\ n \in Nat
    BY <1>1, DecodeStackConstants
  <1>3. Len(reqs) = n
    BY <1>1, <1>2
  <1>4. \A i, j \in 1..n : reqs[i] = reqs[j] => i = j
    BY <1>1, <1>2 DEF IsInjective
  <1> QED BY <1>1, <1>2, <1>3, <1>4 DEF Range

\* A pass whose layers are to run, or to be recorded.
LEMMA PassIs ==
  ASSUME AnswersInv, pass # Idle
  PROVE  /\ UnderwayInv /\ Underway /\ geom # <<>> /\ geom \in Geometries /\ IsMachine(machine) /\ pass.reqs \in Batches
         /\ Len(pass.reqs) \in 1..MaxBatch /\ Rowed = DOMAIN pass.reqs
         /\ \A i \in Rowed : /\ pass.reqs[i] \in Slots /\ pass.reqs[i] \notin unset
                             /\ history[pass.reqs[i]] \in Seq(EmbedTerms) /\ Len(history[pass.reqs[i]]) \in Nat
                             /\ pass.tokens[i] \in EmbedTerms
  <1>1. UnderwayInv /\ Underway /\ geom # <<>> /\ geom \in Geometries /\ IsMachine(machine)
    BY DEF AnswersInv, BuffersInv, PassInv
  <1>2. pass.reqs \in Batches
    BY <1>1 DEF UnderwayInv
  <1>3. ASSUME NEW i \in Rowed
        PROVE  /\ pass.reqs[i] \in Slots /\ pass.reqs[i] \notin unset
               /\ history[pass.reqs[i]] \in Seq(EmbedTerms) /\ Len(history[pass.reqs[i]]) \in Nat
               /\ pass.tokens[i] \in EmbedTerms
    <2>1. pass.reqs[i] \in Slots /\ pass.reqs[i] \in Range(pass.reqs)
      BY <1>2, BatchIs DEF Rowed
    <2>2. pass.reqs[i] \notin unset /\ pass.tokens[i] \in EmbedTerms
      BY <1>1, <2>1 DEF UnderwayInv
    <2>3. history[pass.reqs[i]] \in Seq(EmbedTerms)
      BY <2>1 DEF AnswersInv, TypesInv
    <2> QED BY <2>1, <2>2, <2>3
  <1> QED BY <1>1, <1>2, <1>3, BatchIs DEF Rowed

\* A layer finds what it needs.
LEMMA RowsAreReady ==
  ASSUME AnswersInv, pass.at = "layer"
  PROVE  LayerReady(machine, geom, Len(pass.reqs), pass.maxCtx) /\ pass.maxCtx \in Nat
  <1>0. pass # Idle
    BY DEF Idle
  <1>1. /\ UnderwayInv /\ geom # <<>> /\ geom \in Geometries /\ IsMachine(machine) /\ pass.reqs \in Batches
        /\ \A i \in Rowed : pass.reqs[i] \in Slots /\ Len(history[pass.reqs[i]]) \in Nat
    BY <1>0, PassIs
  <1>2. RowsInv
    BY <1>1 DEF UnderwayInv
  <1>3. \A i \in Rowed : Len(history[pass.reqs[i]]) < geom.maxSeq /\ Len(history[pass.reqs[i]]) < pass.maxCtx
    BY <1>1 DEF UnderwayInv
  <1>4. pass.maxCtx \in Nat
    BY <1>1 DEF UnderwayInv
  <1>5. geom.maxSeq \in Nat
    BY <1>1, ModelIs
  <1>6. \A i \in Rowed : Get(machine, SlotDev, i) = pass.reqs[i] /\ Get(machine, PosDev, i) = Len(history[pass.reqs[i]])
    BY <1>2 DEF RowsInv
  <1>7. Placed(machine, geom, Len(pass.reqs))
    <2>1. \A i, j \in Rowed : pass.reqs[i] = pass.reqs[j] => i = j
      BY <1>1, BatchIs DEF Rowed
    <2>2. \A i \in Rowed : Len(history[pass.reqs[i]]) \in Positions(geom)
      BY <1>1, <1>3, <1>5 DEF Positions
    <2>3. \A i \in Rowed : Get(machine, SlotDev, i) \in Slots /\ Get(machine, PosDev, i) \in Positions(geom)
      BY Zenon, <1>1, <1>6, <2>2
    <2>4. \A i, j \in Rowed : Get(machine, SlotDev, i) = Get(machine, SlotDev, j) => i = j
      <3> SUFFICES ASSUME NEW i \in Rowed, NEW j \in Rowed,
                          Get(machine, SlotDev, i) = Get(machine, SlotDev, j)
                   PROVE  i = j
        OBVIOUS
      <3>1. pass.reqs[i] = Get(machine, SlotDev, i) /\ pass.reqs[j] = Get(machine, SlotDev, j)
        BY Zenon, <1>6
      <3>2. pass.reqs[i] = pass.reqs[j]
        BY Zenon, <3>1
      <3> QED BY Zenon, <2>1, <3>2
    <2> QED BY Zenon, <2>3, <2>4 DEF Placed, Rowed
  <1>8. InputsReady(machine, geom, Len(pass.reqs), pass.maxCtx)
    BY <1>1, <1>2, <1>3, <1>6, <1>7 DEF InputsReady, RowsInv, Rowed
  <1>9. Pools(machine, geom)
    BY <1>1 DEF AnswersInv, SlotsInv
  <1> QED BY <1>1, <1>4, <1>8, <1>9 DEF LayerReady

\* What a pass leaves of the slots when it has computed on.
ComputedOn ==
  /\ UNCHANGED <<geom, history, graphExec, unset, epoch, answered>>
  /\ pass # Idle /\ pass'.reqs = pass.reqs /\ pass'.kind = pass.kind /\ pass'.tokens = pass.tokens

\* The slots after a layer or the head.
LEMMA SlotsGoOn ==
  ASSUME AnswersInv, BuffersInv', ComputedOn, seqPos' \in [Slots -> Nat], Pools(machine', geom),
         draws' \in [Slots -> Nat], RngInv',
         \A s \in Slots \ unset : /\ Caches(machine', geom, s, history[s])
                                  /\ seqPos'[s] = Len(history[s]) + Ahead(s)',
         UnderwayInv'
  PROVE  AnswersInv'
  <1>1. TypesInv'
    BY DEF AnswersInv, TypesInv, ComputedOn
  <1>2. geom # <<>>
    BY PassIs DEF ComputedOn
  <1>3. SlotsInv'
    <2>1. \A s \in Slots \ unset : Len(history[s]) <= geom.maxSeq
      BY <1>2 DEF AnswersInv, SlotsInv
    <2>2. \A n \in Slots : graphExec[n] \in {0, geom.maxSeq}
      BY <1>2 DEF AnswersInv, SlotsInv
    <2> QED BY <1>2, <2>1, <2>2 DEF SlotsInv, ComputedOn
  <1>4. AnswersFollowTheHistory'
    BY DEF UnderwayInv, AnswersFollowTheHistory, Nothing
  <1> QED BY <1>1, <1>3, <1>4 DEF AnswersInv

\* The machine after a layer's launches, and with the names of their results.
LayerRan(m) ==
  /\ LayerDone(machine, m, geom, pass.layer, Len(pass.reqs))
  /\ Wrote(m, machine', XRes, [i \in Rowed |-> Named(geom, pass.layer, Fed(i), Get(m, XRes, i))])

\* There is such a machine.
LEMMA LayerRuns ==
  ASSUME AnswersInv, RunLayer, ~capturing
  PROVE  \E m : LayerRan(m)
  <1>1. pass.at = "layer" /\ pass.layer \in Layers(geom)
    BY DEF RunLayer
  <1>2. pass # Idle
    BY <1>1 DEF Idle
  <1>3. geom \in Geometries /\ Len(pass.reqs) \in Nat /\ Rowed = 1..Len(pass.reqs)
    <2>1. geom \in Geometries /\ Len(pass.reqs) \in 1..MaxBatch
      BY <1>2, PassIs
    <2> QED BY <2>1 DEF Rowed
  <1>4. LayerReady(machine, geom, Len(pass.reqs), pass.maxCtx) /\ pass.maxCtx \in Nat
    BY <1>1, RowsAreReady
  <1> DEFINE n == Len(pass.reqs)
             l == pass.layer
             m == Run(geom, machine, IF pass.kind = "graphed" THEN StackLayer(geom, l, pass.maxCtx, n)
                                     ELSE EagerLayer(geom, l, pass.maxCtx, n))
             rows == [i \in Rowed |-> Named(geom, l, Fed(i), Get(m, XRes, i))]
  <1>5. machine' = Put(m, XRes, rows)
    BY <1>3 DEF RunLayer, Fed
  <1>6. LayerDone(machine, m, geom, l, n)
    <2>1. CASE pass.kind = "graphed"
      <3>1. m = Run(geom, machine, StackLayer(geom, l, pass.maxCtx, n))
        BY <2>1
      <3>2. LayerDone(machine, Run(geom, machine, StackLayer(geom, l, pass.maxCtx, n)), geom, l, n)
        BY Zenon, <1>1, <1>3, <1>4, StackLayerDoes
      <3> QED BY <3>1, <3>2
    <2>2. CASE pass.kind # "graphed"
      <3>1. m = Run(geom, machine, EagerLayer(geom, l, pass.maxCtx, n))
        BY <2>2
      <3>2. LayerDone(machine, Run(geom, machine, EagerLayer(geom, l, pass.maxCtx, n)), geom, l, n)
        BY Zenon, <1>1, <1>3, <1>4, EagerLayerDoes
      <3> QED BY <3>1, <3>2
    <2> QED BY Zenon, <2>1, <2>2
  <1>7. IsMachine(m)
    BY Zenon, <1>6 DEF LayerDone
  <1> HIDE DEF m
  <1>8. Wrote(m, machine', XRes, rows)
    BY Zenon, <1>5, <1>7, PutWrites
  <1> QED BY Zenon, <1>6, <1>8 DEF LayerRan

\* After a layer, x is that of the next.
LEMMA RowsGoToNext ==
  ASSUME AnswersInv, RunLayer, NEW m, LayerRan(m), NEW i \in Rowed
  PROVE  /\ Get(machine', XRes, i) = X(pass.layer + 1, Fed(i))
         /\ Holds(machine', geom, pass.layer, pass.reqs[i], Len(history[pass.reqs[i]]), Fed(i))
         /\ \A s \in Slots \ unset : Caches(machine', geom, s, history[s])
  <1> DEFINE l == pass.layer
             n == Len(pass.reqs)
             h == history[pass.reqs[i]]
             t == pass.tokens[i]
  <1>1. pass.at = "layer" /\ l \in Layers(geom)
    BY DEF RunLayer
  <1>2. pass # Idle
    BY <1>1 DEF Idle
  <1>3. /\ UnderwayInv /\ geom # <<>> /\ geom \in Geometries /\ pass.reqs[i] \in Slots \ unset
        /\ h \in Seq(EmbedTerms) /\ t \in EmbedTerms /\ i \in 1..n
    BY <1>2, PassIs DEF Rowed
  <1>4. RowsInv
    BY <1>1, <1>3 DEF UnderwayInv
  <1>5. \A j \in 1..n : Get(machine, SlotDev, j) = pass.reqs[j] /\ Get(machine, PosDev, j) = Len(history[pass.reqs[j]])
    BY <1>4 DEF RowsInv, Rowed
  <1>6. LayerDone(machine, m, geom, l, n)
    BY DEF LayerRan
  <1>7. ASSUME NEW s \in Slots \ unset PROVE Caches(m, geom, s, history[s])
    <2>1. Len(history[s]) \in Nat /\ Len(history[s]) <= geom.maxSeq /\ Caches(machine, geom, s, history[s])
      BY <1>3 DEF AnswersInv, SlotsInv, TypesInv
    <2>2. \A j \in 1..n : Get(machine, SlotDev, j) = s => Get(machine, PosDev, j) = Len(history[s])
      BY <1>5
    <2> HIDE DEF l, n
    <2> QED BY Zenon, <1>3, <1>6, <2>1, <2>2, CachesStay
  <1>8. Get(machine, SlotDev, i) = pass.reqs[i] /\ Get(machine, PosDev, i) = Len(h)
    BY <1>3, <1>5
  <1>9. Get(machine, XRes, i) = X(l, Append(h, t))
    BY <1>4 DEF RowsInv, Fed
  <1>10. Caches(m, geom, Get(machine, SlotDev, i), h)
    BY <1>3, <1>7, <1>8
  <1> HIDE DEF h, t, l, n
  <1>11. RowComputed(machine, m, geom, l, i, h, t)
    BY Zenon, <1>1, <1>3, <1>6, <1>8, <1>9, <1>10, LayerComputes
  <1>12. Fed(i) = Append(h, t)
    BY DEF Fed, h, t
  <1>13. Wrote(m, machine', XRes, [j \in Rowed |-> Named(geom, l, Fed(j), Get(m, XRes, j))])
    BY DEF LayerRan, l
  <1>14. Get(machine', XRes, i) = X(l + 1, Fed(i))
    <2>1. Get(machine', XRes, i) = Named(geom, l, Fed(i), Get(m, XRes, i))
      BY <1>13 DEF Wrote
    <2>2. Get(m, XRes, i) = LayerOf(geom, l, Fed(i))
      BY Zenon, <1>11, <1>12 DEF RowComputed
    <2> QED BY <2>1, <2>2 DEF Named
  <1>15. machine'.kv = m.kv
    BY Zenon, <1>13 DEF Wrote, OnlyWrites
  <1>16. Holds(m, geom, l, pass.reqs[i], Len(h), Fed(i))
    BY Zenon, <1>8, <1>11, <1>12 DEF RowComputed
  <1>17. Holds(machine', geom, l, pass.reqs[i], Len(h), Fed(i))
    BY Zenon, <1>15, <1>16, PoolsStay
  <1>18. \A s \in Slots \ unset : Caches(machine', geom, s, history[s])
    BY Zenon, <1>7, <1>15, PoolsStay
  <1> QED BY <1>14, <1>17, <1>18 DEF l, h

\* Running a layer.
LEMMA LayerKeepsAnswers ==
  ASSUME AnswersInv, BuffersInv', RunLayer, ~capturing
  PROVE  AnswersInv'
  <1> DEFINE l == pass.layer
             n == Len(pass.reqs)
  <1>1. pass.at = "layer" /\ l \in Layers(geom) /\ pass' = [pass EXCEPT !.layer = @ + 1]
        /\ UNCHANGED <<geom, seqPos, history, graphExec, unset, epoch, answered, draws>>
    BY DEF RunLayer
  <1>2. pass # Idle
    BY <1>1 DEF Idle
  <1>3. /\ UnderwayInv /\ Underway /\ geom # <<>> /\ geom \in Geometries /\ Len(pass.reqs) \in 1..MaxBatch
        /\ Rowed = 1..n /\ \A i \in Rowed : pass.reqs[i] \in Slots /\ Len(history[pass.reqs[i]]) \in Nat
    BY <1>2, PassIs DEF Rowed
  <1>4. /\ pass'.at = "layer" /\ pass'.reqs = pass.reqs /\ pass'.kind = pass.kind /\ pass'.tokens = pass.tokens
        /\ pass'.maxCtx = pass.maxCtx /\ pass'.layer = l + 1
    BY <1>1, <1>3 DEF Underway
  <1>5. PICK m : LayerRan(m)
    BY LayerRuns
  <1>6. LayerDone(machine, m, geom, l, n) /\ OnlyWrites(m, machine', {XRes})
    BY <1>5 DEF LayerRan, Wrote
  <1>7. \A i \in Rowed : /\ Get(machine', XRes, i) = X(l + 1, Fed(i))
                         /\ Holds(machine', geom, l, pass.reqs[i], Len(history[pass.reqs[i]]), Fed(i))
                         /\ \A s \in Slots \ unset : Caches(machine', geom, s, history[s])
    BY <1>5, RowsGoToNext
  <1>8. \A s \in Slots \ unset : Caches(machine', geom, s, history[s])
    BY <1>3, <1>7
  <1>9. RowsInv
    BY <1>1, <1>3 DEF UnderwayInv
  <1>10. l \in Nat /\ geom.maxSeq \in Nat /\ Layers(geom) = 1..Len(geom.swa) /\ Len(geom.swa) \in Nat
    BY <1>1, <1>3, ModelIs
  <1>11. \A c \in Inputs : \A i : Get(machine', c, i) = Get(machine, c, i)
    <2> SUFFICES ASSUME NEW c \in Inputs PROVE \A i : Get(machine', c, i) = Get(machine, c, i)
      OBVIOUS
    <2>1. Keeps(machine, m, c)
      BY Zenon, <1>6 DEF LayerDone
    <2>2. c \notin {XRes}
      BY DEF Inputs, XRes, PosDev, SlotDev, PairXidx, PairSeq, DenseIdx, TempsDev, RngDev
    <2>3. Keeps(m, machine', c)
      BY Zenon, <1>6, <2>2, WritesElsewhere
    <2> QED BY Zenon, <2>1, <2>3 DEF Keeps
  <1>12. Pools(machine', geom)
    <2>1. Pools(m, geom)
      BY Zenon, <1>6 DEF LayerDone
    <2>2. machine'.kv = m.kv
      BY Zenon, <1>6 DEF OnlyWrites
    <2> QED BY Zenon, <2>1, <2>2, PoolsStay
  <1>13. RowsInv'
    <2>1. {PosDev, SlotDev, PairXidx, PairSeq, DenseIdx, TempsDev, RngDev} \subseteq Inputs
      BY DEF Inputs
    <2>2. PairsReady(machine', geom.topk, n)
      <3>1. PairsReady(machine, geom.topk, n)
        BY <1>9 DEF RowsInv
      <3>2. \A p : /\ Get(machine', PairXidx, p) = Get(machine, PairXidx, p)
                   /\ Get(machine', PairSeq, p) = Get(machine, PairSeq, p)
                   /\ Get(machine', DenseIdx, p) = Get(machine, DenseIdx, p)
        BY <1>11, <2>1
      <3> QED BY Zenon, <3>1, <3>2 DEF PairsReady
    <2>3. \A i : /\ Get(machine', SlotDev, i) = Get(machine, SlotDev, i)
                 /\ Get(machine', PosDev, i) = Get(machine, PosDev, i)
                 /\ Get(machine', TempsDev, i) = Get(machine, TempsDev, i)
      BY <1>11, <2>1
    <2>4. ASSUME NEW i \in Rowed
          PROVE  /\ Get(machine', SlotDev, i) = pass.reqs[i]
                 /\ Get(machine', PosDev, i) = Len(history[pass.reqs[i]])
                 /\ Get(machine', XRes, i) = X(l + 1, Fed(i))
                 /\ pass.kind # "logits" => Get(machine', TempsDev, i) = Temperature(pass.reqs[i])
      BY <1>7, <1>9, <2>3 DEF RowsInv
    <2>5. Rowed' = Rowed /\ \A i : Fed(i)' = Fed(i)
      BY <1>1, <1>4 DEF Rowed, Fed
    <2>6. \A u : Temperature(u)' = Temperature(u)
      BY <1>1 DEF Temperature
    <2> HIDE DEF l
    <2> QED BY <1>1, <1>4, <2>2, <2>4, <2>5, <2>6 DEF RowsInv
  <1>14. ASSUME NEW i \in Rowed, NEW k \in Layers(geom), k < l + 1
         PROVE  Holds(machine', geom, k, pass.reqs[i], Len(history[pass.reqs[i]]), Fed(i))
    <2>1. CASE k = l
      BY <1>7, <2>1
    <2>2. CASE k # l
      <3> DEFINE h == Fed(i)
                 s == pass.reqs[i]
                 p == Len(history[s])
      <3>1. k < l
        BY <1>10, <1>14, <2>2
      <3>2. Holds(machine, geom, k, s, p, h) /\ p < geom.maxSeq
        BY <1>3, <3>1 DEF UnderwayInv
      <3>3. p \in Positions(geom) /\ s \in Slots
        BY <1>3, <1>10, <3>2 DEF Positions
      <3> HIDE DEF h, p, s, l, n
      <3>4. Holds(m, geom, k, s, p, h)
        BY Zenon, <1>6, <2>2, <3>2, <3>3, HoldsStays
      <3>5. machine'.kv = m.kv
        BY Zenon, <1>6 DEF OnlyWrites
      <3>6. Holds(machine', geom, k, s, p, h)
        BY Zenon, <3>4, <3>5, PoolsStay
      <3> QED BY <3>6 DEF h, p, s
    <2> QED BY <2>1, <2>2
  <1>15. UnderwayInv'
    <2>1. pass.reqs \in Batches /\ Range(pass.reqs) \cap unset = {}
      BY <1>3 DEF UnderwayInv
    <2>2. l + 1 \in 1..(Len(geom.swa) + 1)
      BY <1>1, <1>10
    <2>3. \A i \in Rowed : pass.tokens[i] \in EmbedTerms /\ Len(history[pass.reqs[i]]) < geom.maxSeq
      BY <1>3 DEF UnderwayInv
    <2>4. pass.maxCtx \in Nat /\ \A i \in Rowed : Len(history[pass.reqs[i]]) < pass.maxCtx
      BY <1>1, <1>3 DEF UnderwayInv
    <2>5. Rowed' = Rowed /\ \A i : Fed(i)' = Fed(i)
      BY <1>1, <1>4 DEF Rowed, Fed
    <2>6. OutputsInv'
      BY <1>4 DEF OutputsInv
    <2>7. pass'.at \notin Recording \cup {"tokens", "logits", "launch"}
      BY <1>4 DEF Recording
    <2>8. \A i \in Rowed' : pass'.tokens[i] \in EmbedTerms /\ Len(history'[pass'.reqs[i]]) < geom'.maxSeq
      BY <1>1, <1>4, <2>3, <2>5
    <2>9. \A i \in Rowed' : \A k \in Layers(geom') : k < pass'.layer =>
            Holds(machine', geom', k, pass'.reqs[i], Len(history'[pass'.reqs[i]]), Fed(i)')
      BY <1>1, <1>4, <1>14, <2>5
    <2>10. pass'.maxCtx \in Nat /\ \A i \in Rowed' : Len(history'[pass'.reqs[i]]) < pass'.maxCtx
      BY <1>1, <1>4, <2>4, <2>5
    <2>11. pass'.layer \in 1..(Len(geom'.swa) + 1) /\ pass'.reqs \in Batches /\ Range(pass'.reqs) \cap unset' = {}
      BY <1>1, <1>4, <2>1, <2>2
    <2>12. answered' = Nothing
      BY <1>1, <1>3 DEF UnderwayInv
    <2> QED BY <1>13, <2>6, <2>7, <2>8, <2>9, <2>10, <2>11, <2>12 DEF UnderwayInv
  <1>16. ComputedOn
    BY <1>1, <1>2, <1>4 DEF ComputedOn
  <1>17. \A s \in Slots \ unset : seqPos'[s] = Len(history[s]) + Ahead(s)'
    BY <1>1, <1>4 DEF AnswersInv, SlotsInv, Ahead
  <1>18. seqPos' \in [Slots -> Nat] /\ draws' \in [Slots -> Nat]
    BY <1>1 DEF AnswersInv, TypesInv
  <1>19. RngInv'
    <2>1. Keeps(machine, machine', RngDev)
      BY <1>11 DEF Keeps, Inputs
    <2> QED BY <1>1, <1>3, <2>1, RngStays DEF AnswersInv, SlotsInv
  <1> QED BY <1>8, <1>12, <1>15, <1>16, <1>17, <1>18, <1>19, SlotsGoOn

\* What the head leaves.
HeadRan ==
  /\ machine'.kv = machine.kv /\ draws' \in [Slots -> Nat] /\ RngInv'
  /\ \A i \in Rowed :
       /\ ~Samples => Get(machine', LogitsDev, i) = LogitsOf(geom, Fed(i))
       /\ Samples => Get(machine', TokOut, i) = Sampled(LogitsOf(geom, Fed(i)), Get(machine, TempsDev, i),
                                                        RngState(i, draws'[i] - 1))

\* The head's launches.
LEMMA HeadRuns ==
  ASSUME AnswersInv, RunHead, ~capturing
  PROVE  HeadRan
  <1> DEFINE n == Len(pass.reqs)
             g == geom
             e == Run(g, machine, LmHead(g, n))
             op == SampleTokens(g, n)
             f == Step(g, e, op)
  <1>1. /\ pass.at = "layer" /\ pass.layer \notin Layers(geom)
        /\ machine' = Run(g, machine, LmHead(g, n) \o IF Samples THEN <<op>> ELSE <<>>)
        /\ draws' = IF Samples THEN [i \in Slots |-> draws[i] + IF i <= n THEN 1 ELSE 0] ELSE draws
    BY DEF RunHead
  <1>2. pass # Idle
    BY <1>1 DEF Idle
  <1>3. UnderwayInv /\ geom # <<>> /\ geom \in Geometries /\ IsMachine(machine) /\ Rowed = 1..n /\ n \in 1..MaxBatch
    BY <1>2, PassIs DEF Rowed
  <1>9. draws \in [Slots -> Nat] /\ RngInv
    BY <1>3 DEF AnswersInv, TypesInv, SlotsInv
  <1>4. RowsInv /\ pass.layer = Len(geom.swa) + 1
    <2>1. RowsInv /\ pass.layer \in 1..(Len(geom.swa) + 1)
      BY <1>1, <1>3 DEF UnderwayInv
    <2>2. pass.layer \notin 1..Len(geom.swa) /\ Len(geom.swa) \in Nat
      BY <1>1, <1>3, ModelIs
    <2> QED BY <2>1, <2>2
  <1>5. LmHeadDone(machine, e, n)
    BY Zenon, <1>3, LmHeadDoes
  <1>6. Reaches(g, machine, LmHead(g, n), e)
    <2>1. \A a, b, c : IsProgram(<<a, b, c>>)
      <3> SUFFICES ASSUME NEW a, NEW b, NEW c PROVE IsProgram(<<a, b, c>>)
        OBVIOUS
      <3>1. <<a, b, c>> \in Seq({a, b, c})
        OBVIOUS
      <3> QED BY <3>1 DEF IsProgram
    <2>2. IsProgram(LmHead(g, n))
      BY Zenon, <2>1 DEF LmHead
    <2> QED BY Zenon, <2>2 DEF Reaches
  <1>7. CASE Samples
    <2>1. machine' = f
      <3>1. Reaches(g, e, <<op>>, f)
        BY Zenon, ReachesOne
      <3>2. Reaches(g, machine, LmHead(g, n) \o <<op>>, f)
        BY Zenon, <1>6, <3>1, ReachesThen
      <3>3. machine' = Run(g, machine, LmHead(g, n) \o <<op>>)
        BY <1>1, <1>7
      <3> QED BY Zenon, <3>2, <3>3 DEF Reaches
    <2> HIDE DEF e
    <2>2. SampleDone(e, f, n)
      <3>1. IsMachine(e)
        BY Zenon, <1>5 DEF LmHeadDone, OnlyWrites
      <3> QED BY Zenon, <3>1, SampleDoes
    <2>3. {TempsDev, RngDev} \cap {ScA, Q8Preff, LogitsDev} = {}
      BY DEF TempsDev, RngDev, ScA, Q8Preff, LogitsDev
    <2>4. Keeps(machine, e, TempsDev) /\ Keeps(machine, e, RngDev)
      <3>1. TempsDev \notin {ScA, Q8Preff, LogitsDev} /\ RngDev \notin {ScA, Q8Preff, LogitsDev}
        BY <2>3
      <3> QED BY Zenon, <1>5, <3>1, WritesElsewhere DEF LmHeadDone
    <2>7. \A i \in Slots : Get(e, RngDev, i) = RngState(i, draws[i])
      BY Zenon, <1>9, <2>4 DEF RngInv, Keeps
    <2>8. draws' = [i \in Slots |-> draws[i] + IF i <= n THEN 1 ELSE 0] /\ n \in Nat /\ n <= MaxBatch
      BY <1>1, <1>3, <1>7, DecodeStackConstants
    <2>9. /\ draws' \in [Slots -> Nat]
          /\ \A i \in Slots : i \in 1..n => draws'[i] = draws[i] + 1
          /\ \A i \in Slots : i \notin 1..n => draws'[i] = draws[i]
      BY <1>9, <2>8, DecodeStackConstants DEF Slots
    <2>10. \A i \in Slots : Get(f, RngDev, i) = RngState(i, draws'[i])
      <3> SUFFICES ASSUME NEW i \in Slots PROVE Get(f, RngDev, i) = RngState(i, draws'[i])
        OBVIOUS
      <3> HIDE DEF f, op
      <3>1. CASE i \in 1..n
        <4>1. Get(f, RngDev, i) = AdvancedRng(RngState(i, draws[i]))
          BY Zenon, <2>2, <2>7, <3>1 DEF SampleDone
        <4>2. draws'[i] = draws[i] + 1
          BY <2>9, <3>1
        <4> QED BY <4>1, <4>2 DEF AdvancedRng, RngState
      <3>2. CASE i \notin 1..n
        <4>1. Get(f, RngDev, i) = RngState(i, draws[i])
          BY Zenon, <2>2, <2>7, <3>2 DEF SampleDone
        <4>2. draws'[i] = draws[i]
          BY <2>9, <3>2
        <4> QED BY <4>1, <4>2
      <3> QED BY <3>1, <3>2
    <2>11. RngInv'
      BY Zenon, <2>1, <2>10 DEF RngInv
    <2>5. ASSUME NEW i \in Rowed
          PROVE  Get(machine', TokOut, i) = Sampled(LogitsOf(geom, Fed(i)), Get(machine, TempsDev, i),
                                                    RngState(i, draws'[i] - 1))
      <3> HIDE DEF f, op
      <3>0. i \in 1..n /\ i \in Slots
        BY <1>3, <2>8, DecodeStackConstants DEF Slots
      <3>1. Get(f, TokOut, i) = Sampled(Get(e, LogitsDev, i), Get(e, TempsDev, i), Get(e, RngDev, i))
        BY Zenon, <2>2, <3>0 DEF SampleDone
      <3>2. Get(e, TempsDev, i) = Get(machine, TempsDev, i)
        BY Zenon, <2>4 DEF Keeps
      <3>3. Get(e, LogitsDev, i) = LogitsOf(geom, Fed(i))
        BY <1>3, <1>4, <1>5 DEF LmHeadDone, LogitsOf, RowsInv
      <3>4. Get(e, RngDev, i) = RngState(i, draws'[i] - 1)
        <4>1. draws[i] \in Nat /\ draws'[i] = draws[i] + 1
          BY <1>9, <2>9, <3>0
        <4>2. draws'[i] - 1 = draws[i]
          BY <4>1
        <4> QED BY Zenon, <2>7, <3>0, <4>2
      <3> QED BY Zenon, <2>1, <3>1, <3>2, <3>3, <3>4
    <2>6. machine'.kv = machine.kv
      <3>1. f.kv = e.kv
        BY Zenon, <2>2 DEF SampleDone, OnlyWrites
      <3>2. e.kv = machine.kv
        BY Zenon, <1>5 DEF LmHeadDone, OnlyWrites
      <3> QED BY Zenon, <2>1, <3>1, <3>2
    <2> QED BY <1>7, <2>5, <2>6, <2>9, <2>11 DEF HeadRan
  <1>8. CASE ~Samples
    <2>1. machine' = e
      <3>1. LmHead(g, n) \o <<>> = LmHead(g, n)
        <4>1. PICK S : LmHead(g, n) \in Seq(S)
          BY <1>6 DEF Reaches, IsProgram
        <4> QED BY <4>1
      <3> QED BY <1>1, <1>8, <3>1
    <2> HIDE DEF e
    <2>2. \A i \in Rowed : Get(e, LogitsDev, i) = LogitsOf(geom, Fed(i))
      BY <1>3, <1>4, <1>5 DEF LmHeadDone, LogitsOf, RowsInv
    <2>3. e.kv = machine.kv
      BY Zenon, <1>5 DEF LmHeadDone, OnlyWrites
    <2>4. draws' = draws /\ RngInv'
      <3>1. RngDev \notin {ScA, Q8Preff, LogitsDev}
        BY DEF RngDev, ScA, Q8Preff, LogitsDev
      <3>2. Keeps(machine, e, RngDev)
        BY Zenon, <1>5, <3>1, WritesElsewhere DEF LmHeadDone
      <3>3. draws' = draws
        BY <1>1, <1>8
      <3> QED BY Zenon, <1>9, <2>1, <3>2, <3>3, RngStays
    <2> QED BY <1>8, <1>9, <2>1, <2>2, <2>3, <2>4 DEF HeadRan
  <1> QED BY <1>7, <1>8

\* Running the head.
LEMMA HeadKeepsAnswers ==
  ASSUME AnswersInv, BuffersInv', RunHead, ~capturing
  PROVE  AnswersInv'
  <1>1. /\ pass.at = "layer" /\ pass.layer \notin Layers(geom)
        /\ pass' = [pass EXCEPT !.at = IF Samples THEN "tokens" ELSE "logits"]
        /\ seqPos' = IF wantSample /\ pass.kind # "graphed" THEN Advanced ELSE seqPos
        /\ UNCHANGED <<geom, history, graphExec, unset, epoch, answered>>
    BY DEF RunHead
  <1>2. pass # Idle
    BY <1>1 DEF Idle
  <1>3. /\ UnderwayInv /\ Underway /\ geom # <<>> /\ geom \in Geometries
        /\ \A i \in Rowed : pass.reqs[i] \in Slots /\ Len(history[pass.reqs[i]]) \in Nat
    BY <1>2, PassIs
  <1>4. /\ pass'.at = (IF Samples THEN "tokens" ELSE "logits") /\ pass'.reqs = pass.reqs /\ pass'.kind = pass.kind
        /\ pass'.tokens = pass.tokens /\ pass'.layer = pass.layer
    BY <1>1, <1>3 DEF Underway
  <1>5. HeadRan
    BY HeadRuns
  <1>6. RowsInv /\ pass.layer = Len(geom.swa) + 1
    BY <1>1, <1>3, ModelIs DEF UnderwayInv
  <1>7. Rowed' = Rowed /\ \A i : Fed(i)' = Fed(i)
    BY <1>1, <1>4 DEF Rowed, Fed
  <1>8. Pools(machine', geom) /\ \A s \in Slots \ unset : Caches(machine', geom, s, history[s])
    <2>1. Pools(machine, geom) /\ \A s \in Slots \ unset : Caches(machine, geom, s, history[s])
      BY <1>3 DEF AnswersInv, SlotsInv
    <2>2. machine'.kv = machine.kv
      BY <1>5 DEF HeadRan
    <2> QED BY <2>1, <2>2, PoolsStay
  <1>9. OutputsInv'
    <2> SUFFICES ASSUME NEW i \in Rowed
                 PROVE  /\ pass'.at = "logits" => Get(machine', LogitsDev, i) = LogitsOf(geom, Fed(i))
                        /\ pass'.at = "tokens" /\ pass.kind # "logits" =>
                             Get(machine', TokOut, i) = Drawn(i, Fed(i), pass.reqs[i], draws'[i])
      <3>1. \A h, i, u, d : Drawn(i, h, u, d)' = Sampled(LogitsOf(geom', h), Temperature(u)', RngState(i, d' - 1))
        BY Zenon DEF Drawn
      <3> QED BY <1>1, <1>4, <1>7 DEF OutputsInv, Drawn, Temperature
    <2>1. pass.kind # "logits" => Get(machine, TempsDev, i) = Temperature(pass.reqs[i])
      BY <1>6 DEF RowsInv
    <2> QED BY <1>4, <1>5, <2>1 DEF HeadRan, Drawn
  <1>10. ASSUME NEW i \in Rowed, NEW k \in Layers(geom), k < pass.layer
         PROVE  Holds(machine', geom, k, pass.reqs[i], Len(history[pass.reqs[i]]), Fed(i))
    <2>1. Holds(machine, geom, k, pass.reqs[i], Len(history[pass.reqs[i]]), Fed(i))
      BY <1>3, <1>10 DEF UnderwayInv
    <2>2. machine'.kv = machine.kv
      BY <1>5 DEF HeadRan
    <2> DEFINE h == Fed(i)
               s == pass.reqs[i]
               p == Len(history[s])
    <2> HIDE DEF h, s, p
    <2>3. Holds(machine, geom, k, s, p, h)
      BY <2>1 DEF h, s, p
    <2>4. Holds(machine', geom, k, s, p, h)
      BY Zenon, <2>2, <2>3, PoolsStay
    <2> QED BY <2>4 DEF h, s, p
  <1>11. UnderwayInv'
    <2>1. pass.reqs \in Batches /\ Range(pass.reqs) \cap unset = {} /\ pass.layer \in 1..(Len(geom.swa) + 1)
      BY <1>3 DEF UnderwayInv
    <2>2. \A i \in Rowed : pass.tokens[i] \in EmbedTerms /\ Len(history[pass.reqs[i]]) < geom.maxSeq
      BY <1>3 DEF UnderwayInv
    <2>3. pass'.at \notin Recording \cup {"layer", "launch"}
      BY <1>4 DEF Recording
    <2>4. \A i \in Rowed' : /\ pass'.tokens[i] \in EmbedTerms /\ Len(history'[pass'.reqs[i]]) < geom'.maxSeq
                            /\ \A k \in Layers(geom') : k < pass'.layer =>
                                 Holds(machine', geom', k, pass'.reqs[i], Len(history'[pass'.reqs[i]]), Fed(i)')
      BY <1>1, <1>4, <1>7, <1>10, <2>2
    <2>5. pass'.reqs \in Batches /\ Range(pass'.reqs) \cap unset' = {} /\ pass'.layer \in 1..(Len(geom'.swa) + 1)
          /\ pass'.layer = Len(geom'.swa) + 1
      BY <1>1, <1>4, <1>6, <2>1
    <2>6. answered' = Nothing
      BY <1>1, <1>3 DEF UnderwayInv
    <2> QED BY <1>9, <2>3, <2>4, <2>5, <2>6 DEF UnderwayInv
  <1>12. ComputedOn
    BY <1>1, <1>2, <1>4 DEF ComputedOn
  <1>13. seqPos \in [Slots -> Nat] /\ \A s \in Slots : Advanced[s] = seqPos[s] + IF s \in Range(pass.reqs) THEN 1 ELSE 0
    BY DEF AnswersInv, TypesInv, Advanced
  <1>14. seqPos' \in [Slots -> Nat]
    BY <1>1, <1>13 DEF Advanced
  <1>15. ASSUME NEW s \in Slots \ unset PROVE seqPos'[s] = Len(history[s]) + Ahead(s)'
    <2>1. seqPos[s] = Len(history[s]) /\ seqPos[s] \in Nat
      <3>1. Ahead(s) = 0
        BY <1>1 DEF Ahead
      <3>2. Len(history[s]) \in Nat
        BY DEF AnswersInv, TypesInv
      <3> QED BY <1>13, <3>1, <3>2 DEF AnswersInv, SlotsInv
    <2>2. CASE wantSample /\ pass.kind # "graphed"
      <3>1. pass'.at = "tokens" /\ pass'.kind # "graphed" /\ seqPos' = Advanced
        BY <1>1, <1>4, <2>2 DEF Samples
      <3> QED BY <1>4, <1>13, <2>1, <3>1 DEF Ahead
    <2>3. CASE ~(wantSample /\ pass.kind # "graphed")
      <3>1. ~(pass'.at = "tokens" /\ pass'.kind # "graphed") /\ seqPos' = seqPos
        BY <1>1, <1>4, <2>3 DEF Samples
      <3>2. Ahead(s)' = 0
        BY <3>1 DEF Ahead
      <3> QED BY <2>1, <3>1, <3>2
    <2> QED BY <2>2, <2>3
  <1>16. draws' \in [Slots -> Nat] /\ RngInv'
    BY <1>5 DEF HeadRan
  <1> QED BY <1>8, <1>11, <1>12, <1>14, <1>15, <1>16, SlotsGoOn

\* What a download leaves of a slot of the pass.
LEMMA RowIsAdded ==
  ASSUME AnswersInv, Download, NEW i \in Rowed
  PROVE  LET s == pass.reqs[i]
         IN  /\ s \in Slots \ unset /\ history'[s] = Fed(i) /\ Len(Fed(i)) = Len(history[s]) + 1
             /\ Len(history[s]) \in Nat /\ Fed(i) \in Seq(EmbedTerms)
             /\ Len(Fed(i)) <= geom.maxSeq /\ Caches(machine', geom, s, Fed(i))
  <1> DEFINE s == pass.reqs[i]
             h == history[s]
             t == pass.tokens[i]
  <1>1. /\ pass.at \in {"tokens", "logits"} /\ machine' = Forgotten(machine)
        /\ history' = [u \in Slots |->
             IF u \in Range(pass.reqs)
             THEN Append(history[u], pass.tokens[CHOOSE j \in DOMAIN pass.reqs : pass.reqs[j] = u])
             ELSE history[u]]
    BY DEF Download
  <1>2. pass # Idle
    BY <1>1 DEF Idle
  <1>3. /\ UnderwayInv /\ geom \in Geometries /\ IsMachine(machine) /\ pass.reqs \in Batches
        /\ Rowed = DOMAIN pass.reqs /\ s \in Slots \ unset /\ h \in Seq(EmbedTerms) /\ t \in EmbedTerms
    BY <1>2, PassIs
  <1>4. \A j, k \in Rowed : pass.reqs[j] = pass.reqs[k] => j = k
    BY <1>3, BatchIs DEF Rowed
  <1>5. s \in Range(pass.reqs)
    BY <1>3, BatchIs DEF Rowed
  <1>6. (CHOOSE j \in DOMAIN pass.reqs : pass.reqs[j] = s) = i
    BY <1>3, <1>4
  <1>7. history'[s] = Fed(i)
    BY <1>1, <1>3, <1>5, <1>6 DEF Fed
  <1>8. machine'.kv = machine.kv
    BY <1>1, <1>3, RngIsNotForgotten
  <1>9. OneLonger(h, t) /\ Fed(i) = Append(h, t)
    BY <1>3, HistoryGrows DEF Fed
  <1>10. Len(Fed(i)) = Len(h) + 1 /\ Len(h) \in Nat /\ Fed(i) \in Seq(EmbedTerms)
    <2>1. Append(h, t) \in Seq(EmbedTerms)
      <3>1. h \in Seq(EmbedTerms) /\ t \in EmbedTerms
        BY Zenon, <1>3
      <3> HIDE DEF h, t
      <3> QED BY <3>1
    <2> QED BY Zenon, <1>9, <2>1 DEF OneLonger
  <1>11. Len(h) < geom.maxSeq /\ geom.maxSeq \in Nat /\ Layers(geom) = 1..Len(geom.swa) /\ Len(geom.swa) \in Nat
         /\ pass.layer = Len(geom.swa) + 1
    BY <1>1, <1>3, ModelIs DEF UnderwayInv
  <1>12. \A k \in Layers(geom) : Holds(machine, geom, k, s, Len(h), Fed(i))
    BY <1>3, <1>11 DEF UnderwayInv
  <1>13. Caches(machine, geom, s, h)
    <2>1. geom # <<>>
      BY <1>2, PassIs
    <2> QED BY <1>3, <2>1 DEF AnswersInv, SlotsInv
  <1>14. Caches(machine, geom, s, Fed(i))
    <2> SUFFICES ASSUME NEW k \in Layers(geom), NEW p \in 0..(Len(Fed(i)) - 1)
                 PROVE  Holds(machine, geom, k, s, p, SubSeq(Fed(i), 1, p + 1))
      BY DEF Caches
    <2>1. CASE p = Len(h)
      <3>1. SubSeq(Fed(i), 1, p + 1) = Fed(i)
        BY <1>9, <2>1 DEF OneLonger
      <3> QED BY <1>12, <2>1, <3>1
    <2>2. CASE p # Len(h)
      <3>1. p \in 0..(Len(h) - 1)
        BY <1>10, <2>2
      <3>2. SubSeq(Fed(i), 1, p + 1) = SubSeq(h, 1, p + 1)
        BY <1>9, <3>1 DEF OneLonger
      <3>3. Holds(machine, geom, k, s, p, SubSeq(h, 1, p + 1))
        BY <1>13, <3>1 DEF Caches
      <3> QED BY <3>2, <3>3
    <2> QED BY <2>1, <2>2
  <1>15. Caches(machine', geom, s, Fed(i))
    BY <1>8, <1>14, PoolsStay
  <1> QED BY <1>3, <1>7, <1>10, <1>11, <1>15

\* Greedy sampling is told apart by its temperature, and only it.
LEMMA DrawnIs ==
  ASSUME NEW i, NEW h, NEW u, NEW d
  PROVE  Drawn(i, h, u, d) = IF <<u, epoch[u]>> \in Greedy THEN <<"argmax", LogitsOf(geom, h)>>
                             ELSE <<"sample", LogitsOf(geom, h), <<"temp", u>>, RngState(i, d - 1)>>
  <1>1. <<"temp", u>> # GreedyTemp
    BY DEF GreedyTemp
  <1> QED BY Zenon, <1>1 DEF Drawn, Sampled, Temperature

\* Downloading and returning.
LEMMA DownloadKeepsAnswers ==
  ASSUME AnswersInv, BuffersInv', Download
  PROVE  AnswersInv'
  <1>1. /\ pass.at \in {"tokens", "logits"} /\ machine' = Forgotten(machine) /\ pass' = Idle
        /\ seqPos' = IF pass.kind = "graphed" \/ pass.at = "logits" THEN Advanced ELSE seqPos
        /\ history' = [u \in Slots |->
             IF u \in Range(pass.reqs)
             THEN Append(history[u], pass.tokens[CHOOSE j \in DOMAIN pass.reqs : pass.reqs[j] = u])
             ELSE history[u]]
        /\ UNCHANGED <<geom, graphExec, unset, epoch, draws>>
    BY DEF Download
  <1>2. pass # Idle
    BY <1>1 DEF Idle
  <1>3. /\ UnderwayInv /\ geom # <<>> /\ geom \in Geometries /\ IsMachine(machine) /\ pass.reqs \in Batches
        /\ Rowed = DOMAIN pass.reqs /\ Rowed = 1..Len(pass.reqs)
    BY <1>2, PassIs DEF Rowed
  <1>4. \A s : s \in Range(pass.reqs) <=> \E i \in Rowed : pass.reqs[i] = s
    BY <1>3, BatchIs
  <1>5. \A s \in Slots : s \notin Range(pass.reqs) => history'[s] = history[s]
    BY <1>1
  <1>6. seqPos \in [Slots -> Nat] /\ \A s \in Slots : Advanced[s] = seqPos[s] + IF s \in Range(pass.reqs) THEN 1 ELSE 0
    BY DEF AnswersInv, TypesInv, Advanced
  <1>7. seqPos' \in [Slots -> Nat]
    BY <1>1, <1>6 DEF Advanced
  <1>8. history' \in [Slots -> Seq(EmbedTerms)]
    <2>1. ASSUME NEW s \in Slots PROVE history'[s] \in Seq(EmbedTerms)
      <3>1. CASE s \in Range(pass.reqs)
        <4>1. PICK i \in Rowed : pass.reqs[i] = s
          BY <1>4, <3>1
        <4> QED BY <4>1, RowIsAdded
      <3>2. CASE s \notin Range(pass.reqs)
        BY <1>5, <3>2 DEF AnswersInv, TypesInv
      <3> QED BY <3>1, <3>2
    <2> QED BY <1>1, <2>1
  <1>9. TypesInv'
    BY <1>1, <1>7, <1>8 DEF AnswersInv, TypesInv
  <1>10. machine'.kv = machine.kv /\ Keeps(machine, machine', RngDev)
    BY <1>1, <1>3, RngIsNotForgotten
  <1>11. ASSUME NEW s \in Slots \ unset
         PROVE  /\ Len(history'[s]) <= geom.maxSeq /\ Caches(machine', geom, s, history'[s])
                /\ seqPos'[s] = Len(history'[s])
    <2>1. seqPos[s] = Len(history[s]) + Ahead(s) /\ seqPos[s] \in Nat /\ Len(history[s]) \in Nat
      BY DEF AnswersInv, SlotsInv, TypesInv
    <2>2. CASE s \in Range(pass.reqs)
      <3>1. PICK i \in Rowed : pass.reqs[i] = s
        BY <1>4, <2>2
      <3>2. /\ history'[s] = Fed(i) /\ Len(Fed(i)) = Len(history[s]) + 1
            /\ Len(Fed(i)) <= geom.maxSeq /\ Caches(machine', geom, s, Fed(i))
        BY <3>1, RowIsAdded
      <3>3. seqPos'[s] = Len(history[s]) + 1
        <4>1. CASE pass.kind = "graphed" \/ pass.at = "logits"
          <5>1. Ahead(s) = 0
            BY <4>1 DEF Ahead
          <5> QED BY <1>1, <1>6, <2>1, <2>2, <4>1, <5>1
        <4>2. CASE ~(pass.kind = "graphed" \/ pass.at = "logits")
          <5>1. Ahead(s) = 1
            BY <1>1, <2>2, <4>2 DEF Ahead
          <5> QED BY <1>1, <2>1, <4>2, <5>1
        <4> QED BY <4>1, <4>2
      <3> QED BY <3>2, <3>3
    <2>3. CASE s \notin Range(pass.reqs)
      <3>1. history'[s] = history[s]
        BY <1>5, <2>3
      <3>2. seqPos'[s] = Len(history[s])
        <4>1. Ahead(s) = 0
          BY <2>3 DEF Ahead
        <4> QED BY <1>1, <1>6, <2>1, <2>3, <4>1
      <3>3. Len(history[s]) <= geom.maxSeq /\ Caches(machine, geom, s, history[s])
        BY <1>3 DEF AnswersInv, SlotsInv
      <3>4. Caches(machine', geom, s, history[s])
        BY <1>10, <3>3, PoolsStay
      <3> QED BY <3>1, <3>2, <3>3, <3>4
    <2> QED BY <2>2, <2>3
  <1>12. Pools(machine', geom)
    BY <1>3, <1>10, PoolsStay DEF AnswersInv, SlotsInv
  <1>13. SlotsInv'
    <2>0. RngInv'
      BY <1>1, <1>3, <1>10, RngStays DEF AnswersInv, SlotsInv
    <2>1. \A n \in Slots : graphExec[n] \in {0, geom.maxSeq}
      BY <1>3 DEF AnswersInv, SlotsInv
    <2>2. \A s : Ahead(s)' = 0
      BY <1>1 DEF Ahead, Idle
    <2>3. \A s \in Slots \ unset : seqPos'[s] = Len(history'[s]) + 0
      BY <1>7, <1>11
    <2>4. geom' = geom /\ graphExec' = graphExec /\ unset' = unset
      BY <1>1
    <2> QED BY <1>3, <1>11, <1>12, <2>0, <2>1, <2>2, <2>3, <2>4 DEF SlotsInv
  <1>14. AnswersFollowTheHistory'
    <2> DEFINE isNow == IF pass.at = "logits" THEN "logits" ELSE IF pass.kind = "logits" THEN "empty" ELSE "tokens"
               rowsNow == [i \in DOMAIN pass.reqs |-> Get(machine, IF pass.at = "logits" THEN LogitsDev ELSE TokOut, i)]
    <2>1. answered' = [is |-> isNow, kind |-> pass.kind, reqs |-> pass.reqs, rows |-> rowsNow]
      BY DEF Download
    <2>2. answered'.is = isNow /\ answered'.reqs = pass.reqs /\ answered'.rows = rowsNow
      BY <2>1
    <2>3. ASSUME isNow \in {"tokens", "logits"}, NEW i \in Rowed
          PROVE  rowsNow[i] = IF isNow = "logits" THEN LogitsOf(geom, history'[pass.reqs[i]])
                              ELSE Drawn(i, history'[pass.reqs[i]], pass.reqs[i], draws[i])
      <3>1. history'[pass.reqs[i]] = Fed(i)
        BY RowIsAdded
      <3>2. OutputsInv
        BY <1>3 DEF UnderwayInv
      <3>3. CASE pass.at = "logits"
        BY <1>3, <3>1, <3>2, <3>3 DEF OutputsInv
      <3>4. CASE pass.at # "logits"
        <4>1. isNow = "tokens" /\ pass.at = "tokens" /\ pass.kind # "logits"
          BY <1>1, <2>3, <3>4
        <4>2. Get(machine, TokOut, i) = Drawn(i, Fed(i), pass.reqs[i], draws[i])
          BY <3>2, <4>1 DEF OutputsInv
        <4>3. rowsNow[i] = Get(machine, TokOut, i)
          BY <1>3, <4>1
        <4> QED BY <3>1, <4>1, <4>2, <4>3
      <3> QED BY <3>3, <3>4
    <2> HIDE DEF isNow, rowsNow
    <2>4. ASSUME isNow \in {"tokens", "logits"}, NEW i \in Rowed
          PROVE  LET u      == pass.reqs[i]
                     logits == LogitsOf(geom, history'[u])
                 IN  rowsNow[i] = IF isNow = "logits" THEN logits
                                  ELSE IF <<u, epoch[u]>> \in Greedy THEN <<"argmax", logits>>
                                  ELSE <<"sample", logits, <<"temp", u>>, RngState(i, draws[i] - 1)>>
      BY Zenon, <2>3, <2>4, DrawnIs
    <2> QED BY <1>1, <1>3, <2>2, <2>4 DEF AnswersFollowTheHistory
  <1>15. pass' = Idle
    BY <1>1
  <1> QED BY <1>9, <1>13, <1>14, <1>15 DEF AnswersInv

\* The largest of numbers that have a bound.
LEMMA LargestNumber ==
  ASSUME NEW N \in Nat, NEW S, S \subseteq 0..N, S # {}
  PROVE  Max(S) \in S /\ \A x \in S : x <= Max(S)
  <1> DEFINE T == {N - x : x \in S}
  <1>1. T \subseteq Nat /\ T # {}
    <2>1. \A x \in S : x \in Nat /\ x <= N
      OBVIOUS
    <2>2. \A x \in S : N - x \in Nat
      BY <2>1
    <2>3. PICK x : x \in S
      OBVIOUS
    <2>4. N - x \in T
      BY <2>3
    <2> QED BY <2>2, <2>4
  <1>2. PICK y \in T : \A z \in T : y <= z
    BY <1>1, LeastNumber
  <1>3. PICK x \in S : y = N - x
    OBVIOUS
  <1>4. \A z \in S : x >= z
    <2> SUFFICES ASSUME NEW z \in S PROVE x >= z
      OBVIOUS
    <2>1. N - z \in T
      OBVIOUS
    <2>2. y <= N - z
      BY <1>2, <2>1
    <2> QED BY <1>3, <2>2
  <1>5. Max(S) \in S /\ \A z \in S : Max(S) >= z
    BY <1>4 DEF Max
  <1> QED BY <1>5

\* Rows over old ones.
LEMMA OverIs ==
  ASSUME NEW rows, NEW old, NEW b
  PROVE  /\ b \in DOMAIN Over(rows, old) <=> b \in DOMAIN rows \/ b \in DOMAIN old
         /\ b \in DOMAIN rows => Over(rows, old)[b] = rows[b]
         /\ b \in DOMAIN old /\ b \notin DOMAIN rows => Over(rows, old)[b] = old[b]
  BY DEF Over

\* The inputs of a pass, as its launches find them.
ReadsUploads(m, kind, reqs) ==
  /\ PairsReady(m, geom.topk, Len(reqs))
  /\ \A i \in 1..Len(reqs) :
       /\ Get(m, XRes, i) = Token(reqs[i]) /\ Get(m, SlotDev, i) = reqs[i]
       /\ Get(m, PosDev, i) = seqPos[reqs[i]]
       /\ kind # "logits" => Get(m, TempsDev, i) = Temperature(reqs[i])

\* What is uploaded is read.
LEMMA UploadsAreRead ==
  ASSUME NEW m, NEW kind, NEW reqs, NEW old, m.mem = Over(Uploaded(kind, reqs), old), Len(reqs) \in Nat,
         DOMAIN reqs = 1..Len(reqs),
         Len(reqs) <= MaxBatch, geom.topk \in Nat \ {0}
  PROVE  ReadsUploads(m, kind, reqs)
  <1> DEFINE n == Len(reqs)
             pairRow == [p \in 1..(n * geom.topk) |-> (p - 1) \div geom.topk + 1]
             inputs == {XRes, PosDev, SlotDev, PairXidx, PairSeq, DenseIdx}
                         \cup IF kind = "logits" THEN {} ELSE {TempsDev}
             mem == Uploaded(kind, reqs)
  <1>1. mem = [b \in inputs |->
         CASE b = XRes -> [i \in 1..n |-> Token(reqs[i])]
           [] b = PosDev -> [i \in 1..n |-> seqPos[reqs[i]]]
           [] b = SlotDev -> reqs
           [] b \in {PairXidx, PairSeq} -> pairRow
           [] b = DenseIdx -> [i \in 1..(MaxBatch * geom.topk) |-> i]
           [] b = TempsDev -> [i \in 1..n |-> Temperature(reqs[i])]]
    BY Zenon DEF Uploaded
  <1>2. /\ DOMAIN mem = inputs
        /\ mem[XRes] = [i \in 1..n |-> Token(reqs[i])] /\ mem[PosDev] = [i \in 1..n |-> seqPos[reqs[i]]]
        /\ mem[SlotDev] = reqs /\ mem[PairXidx] = pairRow /\ mem[PairSeq] = pairRow
        /\ mem[DenseIdx] = [i \in 1..(MaxBatch * geom.topk) |-> i]
        /\ kind # "logits" => mem[TempsDev] = [i \in 1..n |-> Temperature(reqs[i])]
    <2> HIDE DEF mem, pairRow
    <2> QED BY <1>1 DEF XRes, PosDev, SlotDev, PairXidx, PairSeq, DenseIdx, TempsDev
  <1>3. \A b \in inputs : b \in DOMAIN m.mem /\ m.mem[b] = mem[b]
    <2>1. m.mem = Over(mem, old)
      OBVIOUS
    <2>2. DOMAIN mem = inputs
      BY <1>2
    <2> HIDE DEF mem, inputs
    <2> SUFFICES ASSUME NEW b \in inputs PROVE b \in DOMAIN m.mem /\ m.mem[b] = mem[b]
      OBVIOUS
    <2>3. b \in DOMAIN Over(mem, old) /\ Over(mem, old)[b] = mem[b]
      BY <2>2, OverIs
    <2> QED BY <2>1, <2>3
  <1>6. /\ {XRes, PosDev, SlotDev, PairXidx, PairSeq, DenseIdx} \subseteq inputs
        /\ kind # "logits" => TempsDev \in inputs
    OBVIOUS
  <1> HIDE DEF mem, inputs
  <1>4. \A i \in 1..n : /\ Get(m, XRes, i) = Token(reqs[i]) /\ Get(m, SlotDev, i) = reqs[i]
                        /\ Get(m, PosDev, i) = seqPos[reqs[i]]
                        /\ kind # "logits" => Get(m, TempsDev, i) = Temperature(reqs[i])
    BY <1>2, <1>3, <1>6 DEF Get
  <1>5. PairsReady(m, geom.topk, n)
    <2> SUFFICES ASSUME NEW p \in 1..(n * geom.topk)
                 PROVE  Get(m, PairXidx, p) = RowOf(geom.topk, p) /\ Get(m, PairSeq, p) = RowOf(geom.topk, p)
                        /\ Get(m, DenseIdx, p) = p
      BY DEF PairsReady
    <2>1. pairRow[p] = RowOf(geom.topk, p)
      BY DEF RowOf
    <2>2. p \in 1..(MaxBatch * geom.topk)
      <3>1. n * geom.topk <= MaxBatch * geom.topk /\ n * geom.topk \in Nat /\ MaxBatch * geom.topk \in Nat
        BY LessRows, DecodeStackConstants
      <3> QED BY <3>1
    <2>3. DOMAIN pairRow = 1..(n * geom.topk)
      OBVIOUS
    <2> HIDE DEF pairRow
    <2> QED BY <1>2, <1>3, <1>6, <2>1, <2>2, <2>3 DEF Get
  <1> QED BY <1>4, <1>5 DEF ReadsUploads

\* The generators are not uploaded.
LEMMA UploadsKeepRng ==
  ASSUME NEW m, NEW e, NEW kind, NEW reqs, e.mem = Over(Uploaded(kind, reqs), m.mem)
  PROVE  Keeps(m, e, RngDev)
  <1> DEFINE mem == Uploaded(kind, reqs)
  <1>1. RngDev \notin DOMAIN mem
    BY DEF Uploaded, RngDev, XRes, PosDev, SlotDev, PairXidx, PairSeq, DenseIdx, TempsDev
  <1> HIDE DEF mem
  <1>2. e.mem = Over(mem, m.mem)
    BY DEF mem
  <1>3. RngDev \in DOMAIN e.mem <=> RngDev \in DOMAIN m.mem
    BY <1>1, <1>2, OverIs
  <1>4. RngDev \in DOMAIN m.mem => e.mem[RngDev] = m.mem[RngDev]
    <2>1. RngDev \in DOMAIN m.mem => Over(mem, m.mem)[RngDev] = m.mem[RngDev]
      BY <1>1, OverIs
    <2> QED BY <1>2, <2>1
  <1> QED BY Zenon, <1>3, <1>4 DEF Keeps, Get

\* A pass that starts.
LEMMA StartKeepsAnswers ==
  ASSUME AnswersInv, BuffersInv', geom # <<>>, pass = Idle,
         UNCHANGED <<geom, seqPos, history, graphExec, epoch, unset, draws>>, answered' = Nothing,
         NEW kind \in {"sample", "logits", "graphed"}, NEW reqs \in Batches,
         Range(reqs) \cap unset = {},
         \A s \in Range(reqs) : seqPos[s] < geom.maxSeq,
         pass' = [at |-> IF kind = "graphed" THEN "drain" ELSE "layer", kind |-> kind, reqs |-> reqs, layer |-> 1,
                  tokens |-> [i \in DOMAIN reqs |-> Token(reqs[i])],
                  maxCtx |-> Max({seqPos[s] : s \in Range(reqs)}) + 1],
         machine'.mem = Over(Uploaded(kind, reqs), machine.mem), machine'.kv = machine.kv
  PROVE  AnswersInv'
  <1> DEFINE n == Len(reqs)
             tokens == [i \in DOMAIN reqs |-> Token(reqs[i])]
             P == {seqPos[s] : s \in Range(reqs)}
             maxCtx == Max(P) + 1
  <1>1. pass' = [at |-> IF kind = "graphed" THEN "drain" ELSE "layer", kind |-> kind, reqs |-> reqs, layer |-> 1,
                 tokens |-> tokens, maxCtx |-> maxCtx]
    OBVIOUS
  <1>2. /\ n \in 1..MaxBatch /\ n \in Nat /\ n <= MaxBatch /\ DOMAIN reqs = 1..n
        /\ \A i \in 1..n : reqs[i] \in Slots \ unset /\ reqs[i] \in Range(reqs)
    BY BatchIs, DecodeStackConstants
  <1>3. /\ geom \in Geometries /\ geom.topk \in Nat \ {0} /\ geom.maxSeq \in Nat /\ Len(geom.swa) \in Nat
        /\ Layers(geom) = 1..Len(geom.swa)
    BY ModelIs DEF AnswersInv, BuffersInv
  <1>4. \A s \in Slots : seqPos[s] \in Nat /\ epoch[s] \in Nat /\ history[s] \in Seq(EmbedTerms)
                         /\ Len(history[s]) \in Nat
    BY DEF AnswersInv, TypesInv
  <1>5. \A s \in Slots \ unset : seqPos[s] = Len(history[s])
    <2>1. \A s : Ahead(s) = 0
      BY DEF Ahead, Idle
    <2> QED BY <1>4, <2>1 DEF AnswersInv, SlotsInv
  <1>6. \A i \in 1..n : tokens[i] = Token(reqs[i]) /\ Token(reqs[i]) \in EmbedTerms
    BY <1>2, <1>4 DEF Token, EmbedTerms
  <1>7. maxCtx \in Nat /\ \A i \in 1..n : seqPos[reqs[i]] < maxCtx
    <2>1. \A s \in Range(reqs) : s \in Slots
      BY BatchIs
    <2>2. P \subseteq 0..geom.maxSeq /\ 1 \in 1..n
      BY <1>2, <1>3, <1>4, <2>1
    <2>3. P # {} /\ \A i \in 1..n : seqPos[reqs[i]] \in P
      BY <1>2, <2>2
    <2> HIDE DEF P
    <2>4. Max(P) \in P /\ \A x \in P : x <= Max(P)
      BY <1>3, <2>2, <2>3, LargestNumber
    <2>5. Max(P) \in Nat /\ \A i \in 1..n : seqPos[reqs[i]] \in Nat /\ seqPos[reqs[i]] <= Max(P)
      <3>1. \A x \in P : x \in Nat
        <4>1. geom.maxSeq \in Nat
          BY <1>3
        <4> QED BY <2>2, <4>1
      <3>2. \A i \in 1..n : seqPos[reqs[i]] \in P
        BY <2>3
      <3> QED BY Zenon, <2>4, <3>1, <3>2
    <2>6. ASSUME NEW M \in Nat, NEW x \in Nat, x <= M PROVE x < M + 1 /\ M + 1 \in Nat
      BY <2>6
    <2> QED BY <2>5, <2>6
  <1> HIDE DEF tokens, maxCtx, P
  <1>8. /\ pass'.at = (IF kind = "graphed" THEN "drain" ELSE "layer") /\ pass'.kind = kind /\ pass'.reqs = reqs
        /\ pass'.layer = 1 /\ pass'.tokens = tokens /\ pass'.maxCtx = maxCtx
    BY <1>1
  <1>9. Rowed' = 1..n /\ \A i \in 1..n : Fed(i)' = Append(history[reqs[i]], tokens[i])
    BY <1>8 DEF Rowed, Fed
  <1>10. /\ PairsReady(machine', geom.topk, n)
         /\ \A i \in 1..n :
              /\ Get(machine', XRes, i) = Token(reqs[i]) /\ Get(machine', SlotDev, i) = reqs[i]
              /\ Get(machine', PosDev, i) = seqPos[reqs[i]]
              /\ kind # "logits" => Get(machine', TempsDev, i) = Temperature(reqs[i])
    <2>1. machine'.mem = Over(Uploaded(kind, reqs), machine.mem)
      OBVIOUS
    <2>2. Len(reqs) \in Nat /\ DOMAIN reqs = 1..Len(reqs) /\ Len(reqs) <= MaxBatch /\ geom.topk \in Nat \ {0}
      BY <1>2, <1>3
    <2>3. ReadsUploads(machine', kind, reqs)
      BY Zenon, <2>1, <2>2, UploadsAreRead
    <2> QED BY Zenon, <2>3 DEF ReadsUploads
  <1>11. ASSUME NEW i \in 1..n
         PROVE  /\ Get(machine', SlotDev, i) = reqs[i]
                /\ Get(machine', PosDev, i) = Len(history[reqs[i]])
                /\ Get(machine', XRes, i) = X(1, Append(history[reqs[i]], tokens[i]))
                /\ kind # "logits" => Get(machine', TempsDev, i) = Temperature(reqs[i])
    <2>1. OneLonger(history[reqs[i]], tokens[i])
      BY <1>2, <1>4, <1>6, HistoryGrows
    <2>2. X(1, Append(history[reqs[i]], tokens[i])) = tokens[i]
      BY <2>1 DEF X, Last, OneLonger
    <2> QED BY <1>2, <1>5, <1>6, <1>10, <2>2
  <1>12. RowsInv'
    <2>1. \A u : Temperature(u)' = Temperature(u)
      BY DEF Temperature
    <2> QED BY <1>8, <1>9, <1>10, <1>11, <2>1 DEF RowsInv
  <1>13. OutputsInv'
    BY <1>8 DEF OutputsInv
  <1>14. UnderwayInv'
    <2>1. pass'.at \notin {"launch", "tokens", "logits"}
      BY <1>8
    <2>2. pass'.layer \in 1..(Len(geom'.swa) + 1) /\ pass'.layer = 1
      BY <1>3, <1>8
    <2>3. \A k \in Layers(geom') : ~(k < pass'.layer)
      BY <1>3, <1>8
    <2>4. \A i \in Rowed' : pass'.tokens[i] \in EmbedTerms /\ Len(history'[pass'.reqs[i]]) < geom'.maxSeq
      BY <1>2, <1>5, <1>6, <1>8, <1>9
    <2>5. pass'.maxCtx \in Nat /\ \A i \in Rowed' : Len(history'[pass'.reqs[i]]) < pass'.maxCtx
      BY <1>2, <1>5, <1>7, <1>8, <1>9
    <2>6. pass'.reqs \in Batches /\ Range(pass'.reqs) \cap unset' = {}
      BY <1>8
    <2> QED BY <1>12, <1>13, <2>1, <2>2, <2>3, <2>4, <2>5, <2>6 DEF UnderwayInv
  <1>15. TypesInv'
    BY DEF AnswersInv, TypesInv
  <1>16. SlotsInv'
    <2>1. Pools(machine', geom) /\ \A s \in Slots \ unset : Caches(machine', geom, s, history[s])
      BY PoolsStay DEF AnswersInv, SlotsInv
    <2>2. \A s : Ahead(s)' = 0
      BY <1>8 DEF Ahead
    <2>3. \A s \in Slots \ unset : seqPos[s] = Len(history[s]) + 0 /\ Len(history[s]) <= geom.maxSeq
      BY <1>4, <1>5 DEF AnswersInv, SlotsInv
    <2>4. \A u \in Slots : graphExec[u] \in {0, geom.maxSeq}
      BY DEF AnswersInv, SlotsInv
    <2>5. RngInv'
      <3>1. Keeps(machine, machine', RngDev)
        BY UploadsKeepRng
      <3> QED BY <3>1, RngStays DEF AnswersInv, SlotsInv
    <2> QED BY <2>1, <2>2, <2>3, <2>4, <2>5 DEF SlotsInv
  <1>17. AnswersFollowTheHistory'
    BY DEF AnswersFollowTheHistory, Nothing
  <1> QED BY <1>14, <1>15, <1>16, <1>17 DEF AnswersInv

\* A pass begins, or is refused.
LEMMA BeginKeepsAnswers ==
  ASSUME AnswersInv, BuffersInv', BeginPass, ~capturing
  PROVE  AnswersInv'
  <1>1. PICK kind \in {"sample", "logits", "graphed"}, reqs \in Batches :
          LET ensured == machine.alloc \cup IF kind = "graphed" THEN EnsureKeys(geom) ELSE {}
          IN  /\ Range(reqs) \cap unset = {}
              /\ \/ /\ Fail(kind, reqs, "context overflow")
                    /\ machine' = [machine EXCEPT !.alloc = ensured]
                 \/ /\ \A s \in Range(reqs) : seqPos[s] < geom.maxSeq
                    /\ pass' = [at |-> IF kind = "graphed" THEN "drain" ELSE "layer", kind |-> kind,
                                reqs |-> reqs, layer |-> 1,
                                tokens |-> [i \in DOMAIN reqs |-> Token(reqs[i])],
                                maxCtx |-> Max({seqPos[s] : s \in Range(reqs)}) + 1]
                    /\ machine' = [machine EXCEPT !.mem = Over(Uploaded(kind, reqs), machine.mem),
                                                  !.alloc = ensured \cup {Q8(geom.hidden)}]
                    /\ answered' = Nothing
                    /\ UNCHANGED <<unset, failures>>
    BY ZenonT(30) DEF BeginPass
  <1>2. geom # <<>> /\ pass = Idle /\ UNCHANGED <<geom, seqPos, history, graphExec, epoch, draws>>
    BY Zenon DEF BeginPass
  <1>3. IsMachine(machine)
    BY <1>2 DEF AnswersInv, BuffersInv
  <1> DEFINE ensured == machine.alloc \cup IF kind = "graphed" THEN EnsureKeys(geom) ELSE {}
             mem == Over(Uploaded(kind, reqs), machine.mem)
  <1>4. CASE /\ Fail(kind, reqs, "context overflow")
             /\ machine' = [machine EXCEPT !.alloc = ensured]
    <2> HIDE DEF ensured
    <2>1. pass' = Idle /\ unset \subseteq unset' /\ answered'.is = "failed"
      BY <1>4 DEF Fail
    <2>2. machine'.kv = machine.kv /\ machine'.mem = machine.mem
      BY <1>3, <1>4 DEF IsMachine
    <2>5. Keeps(machine, machine', RngDev)
      BY Zenon, <2>2 DEF Keeps, Get
    <2>3. \A s \in Slots \ unset' : Ahead(s) = 0
      BY <1>2 DEF Ahead, Idle
    <2>4. answered'.is \notin {"tokens", "logits"}
      BY <2>1
    <2> QED BY <1>2, <2>1, <2>2, <2>3, <2>4, <2>5, BadEnd
  <1>5. CASE /\ \A s \in Range(reqs) : seqPos[s] < geom.maxSeq
             /\ pass' = [at |-> IF kind = "graphed" THEN "drain" ELSE "layer", kind |-> kind,
                         reqs |-> reqs, layer |-> 1,
                         tokens |-> [i \in DOMAIN reqs |-> Token(reqs[i])],
                         maxCtx |-> Max({seqPos[s] : s \in Range(reqs)}) + 1]
             /\ machine' = [machine EXCEPT !.mem = mem, !.alloc = ensured \cup {Q8(geom.hidden)}]
             /\ answered' = Nothing
             /\ UNCHANGED unset
    <2>1. machine'.mem = mem /\ machine'.kv = machine.kv
      <3> HIDE DEF mem, ensured
      <3> QED BY <1>3, <1>5 DEF IsMachine
    <2> QED BY Zenon, <1>1, <1>2, <1>5, <2>1, StartKeepsAnswers
  <1> QED BY Zenon, <1>1, <1>4, <1>5

\* A pass under way fails.
LEMMA FailKeepsAnswers ==
  ASSUME AnswersInv, BuffersInv', pass # Idle, NEW why, Fail(pass.kind, pass.reqs, why),
         machine' = Forgotten(machine),
         UNCHANGED <<geom, seqPos, history, graphExec, epoch, draws>>
  PROVE  AnswersInv'
  <1>1. geom # <<>> /\ IsMachine(machine)
    BY PassIs
  <1>2. machine'.kv = machine.kv /\ Keeps(machine, machine', RngDev)
    BY <1>1, RngIsNotForgotten
  <1>3. pass' = Idle /\ unset' = unset \cup Range(pass.reqs) /\ answered'.is = "failed"
    BY DEF Fail
  <1>4. \A s \in Slots \ unset' : Ahead(s) = 0
    BY <1>3 DEF Ahead
  <1>5. unset \subseteq unset' /\ answered'.is \notin {"tokens", "logits"}
    BY <1>3
  <1> QED BY <1>1, <1>2, <1>3, <1>4, <1>5, BadEnd

\* No capture was broken off: AnswersInv is kept.
LEMMA AnswersInvStep ==
  ASSUME AnswersInv, ~Lost, [DecodeNext]_decodeVars
  PROVE  AnswersInv'
  <1>0. BuffersInv'
    BY BuffersInvStep DEF AnswersInv
  <1>1. CASE LoadModel
    BY <1>0, <1>1, LoadKeeps
  <1>2. CASE ResetSlot
    BY <1>0, <1>2, ResetKeeps
  <1>3. CASE BeginPass
    <2>1. ~capturing
      BY <1>3 DEF BeginPass, Lost, Idle
    <2> QED BY <1>0, <1>3, <2>1, BeginKeepsAnswers
  <1>g. \A n \in Slots : geom # <<>> => graphExec[n] \in {0, geom.maxSeq}
    BY DEF AnswersInv, SlotsInv
  <1>t. graphExec \in [Slots -> Nat]
    BY DEF AnswersInv, TypesInv
  <1>4. CASE Drain
    <2>1. /\ pass.at = "drain" /\ pass # Idle
          /\ pass' = [pass EXCEPT !.at = IF graphExec[Len(pass.reqs)] = 0 THEN "begin" ELSE "launch"]
          /\ UNCHANGED <<geom, machine, seqPos, history, unset, epoch, answered, graphExec, draws>>
      BY <1>4 DEF Drain, Idle
    <2>2. Underway /\ geom # <<>> /\ Len(pass.reqs) \in Slots
      BY <2>1, PassIs DEF Slots
    <2>3. /\ pass'.at = (IF graphExec[Len(pass.reqs)] = 0 THEN "begin" ELSE "launch") /\ pass'.reqs = pass.reqs
          /\ pass'.tokens = pass.tokens /\ pass'.kind = pass.kind /\ pass'.layer = pass.layer
      BY <2>1, <2>2 DEF Underway
    <2>4. pass'.at = "launch" => graphExec'[Len(pass.reqs)] = geom.maxSeq
      BY <1>g, <2>1, <2>2, <2>3
    <2>5. pass.at \in Recording /\ pass'.at \in Recording /\ pass'.at # "layer"
      BY <2>1, <2>3 DEF Recording
    <2> QED BY <1>0, <1>g, <1>t, <2>1, <2>2, <2>3, <2>4, <2>5, RecordingGoesOn
  <1>5. CASE BeginCapture
    <2>1. pass.at = "begin" /\ pass # Idle /\ pass' = [pass EXCEPT !.at = "enqueue"]
          /\ UNCHANGED <<geom, machine, seqPos, history, unset, epoch, answered, graphExec, draws>>
      BY <1>5 DEF BeginCapture, Idle
    <2>2. Underway /\ geom # <<>>
      BY <2>1, PassIs
    <2>3. /\ pass'.at = "enqueue" /\ pass'.reqs = pass.reqs
          /\ pass'.tokens = pass.tokens /\ pass'.kind = pass.kind /\ pass'.layer = pass.layer
      BY <2>1, <2>2 DEF Underway
    <2>4. pass.at \in Recording /\ pass'.at \in Recording /\ pass'.at \notin {"layer", "launch"}
      BY <2>1, <2>3 DEF Recording
    <2> QED BY <1>0, <1>g, <1>t, <2>1, <2>2, <2>3, <2>4, RecordingGoesOn
  <1>6. CASE EnqueueStack
    <2>1. pass.at = "enqueue" /\ pass # Idle /\ pass' = [pass EXCEPT !.at = "instantiate"]
          /\ UNCHANGED <<geom, machine, seqPos, history, unset, epoch, answered, graphExec, draws>>
      BY <1>6 DEF EnqueueStack, Idle
    <2>2. Underway /\ geom # <<>>
      BY <2>1, PassIs
    <2>3. /\ pass'.at = "instantiate" /\ pass'.reqs = pass.reqs
          /\ pass'.tokens = pass.tokens /\ pass'.kind = pass.kind /\ pass'.layer = pass.layer
      BY <2>1, <2>2 DEF Underway
    <2>4. pass.at \in Recording /\ pass'.at \in Recording /\ pass'.at \notin {"layer", "launch"}
      BY <2>1, <2>3 DEF Recording
    <2> QED BY <1>0, <1>g, <1>t, <2>1, <2>2, <2>3, <2>4, RecordingGoesOn
  <1>7. CASE EndCapture
    <2>1. pass.at = "instantiate" /\ pass # Idle /\ UNCHANGED <<geom, seqPos, history, epoch, draws>>
      BY <1>7 DEF EndCapture, Idle
    <2>2. Underway /\ geom # <<>> /\ geom \in Geometries /\ Len(pass.reqs) \in Slots
      BY <2>1, PassIs DEF Slots
    <2>3. CASE /\ Fail(pass.kind, pass.reqs, "fault") /\ machine' = Forgotten(machine)
               /\ UNCHANGED graphExec
      BY <1>0, <2>1, <2>3, FailKeepsAnswers
    <2>4. CASE /\ graphExec' = [graphExec EXCEPT ![Len(pass.reqs)] = BakedBound(pass.maxCtx)]
               /\ pass' = [pass EXCEPT !.at = "launch"]
               /\ UNCHANGED <<machine, answered, unset>>
      <3>1. geom.maxSeq \in Nat
        BY <2>2, ModelIs
      <3>2. graphExec' = [graphExec EXCEPT ![Len(pass.reqs)] = geom.maxSeq]
        BY <2>4 DEF BakedBound
      <3>3. graphExec' \in [Slots -> Nat] /\ graphExec'[Len(pass.reqs)] = geom.maxSeq
            /\ \A n \in Slots : graphExec'[n] \in {0, geom.maxSeq}
        BY <1>g, <1>t, <2>2, <3>1, <3>2
      <3>4. /\ pass'.at = "launch" /\ pass'.reqs = pass.reqs
            /\ pass'.tokens = pass.tokens /\ pass'.kind = pass.kind /\ pass'.layer = pass.layer
        BY <2>2, <2>4 DEF Underway
      <3>5. pass.at \in Recording /\ pass'.at \in Recording /\ pass'.at # "layer"
        BY <2>1, <3>4 DEF Recording
      <3> QED BY <1>0, <2>1, <2>4, <3>3, <3>4, <3>5, RecordingGoesOn
    <2> QED BY Zenon, <1>7, <2>3, <2>4 DEF EndCapture
  <1>8. CASE LaunchGraph
    <2>1. pass.at = "launch" /\ pass # Idle
          /\ pass' = [pass EXCEPT !.at = "layer", !.maxCtx = graphExec[Len(pass.reqs)]]
          /\ UNCHANGED <<geom, machine, seqPos, history, unset, epoch, answered, graphExec, draws>>
      BY <1>8 DEF LaunchGraph, Idle
    <2>2. Underway /\ UnderwayInv /\ geom # <<>>
      BY <2>1, PassIs
    <2>3. /\ pass'.at = "layer" /\ pass'.reqs = pass.reqs /\ pass'.maxCtx = graphExec[Len(pass.reqs)]
          /\ pass'.tokens = pass.tokens /\ pass'.kind = pass.kind /\ pass'.layer = pass.layer
      BY <2>1, <2>2 DEF Underway
    <2>4. pass'.maxCtx = geom.maxSeq
      BY <2>1, <2>2, <2>3 DEF UnderwayInv
    <2>5. pass.at \in Recording
      BY <2>1 DEF Recording
    <2> QED BY <1>0, <1>g, <1>t, <2>1, <2>2, <2>3, <2>4, <2>5, RecordingGoesOn
  <1>9. CASE RunLayer
    <2>1. ~capturing
      BY <1>9 DEF RunLayer, Lost
    <2> QED BY <1>0, <1>9, <2>1, LayerKeepsAnswers
  <1>10. CASE RunHead
    <2>1. ~capturing
      BY <1>10 DEF RunHead, Lost
    <2> QED BY <1>0, <1>10, <2>1, HeadKeepsAnswers
  <1>11. CASE Download
    BY <1>0, <1>11, DownloadKeepsAnswers
  <1>12. CASE DriverFault
    <2> DEFINE why == IF pass.at = "enqueue" THEN "broken capture" ELSE "fault"
    <2>1. pass # Idle /\ Fail(pass.kind, pass.reqs, why) /\ machine' = Forgotten(machine)
          /\ UNCHANGED <<geom, seqPos, history, graphExec, epoch, draws>>
      <3>3. pass.at # "idle"
        <4>1. pass.at \notin {"idle", "instantiate"}
          BY Zenon, <1>12 DEF DriverFault
        <4> QED BY <4>1
      <3>1. pass # Idle
        BY <3>3 DEF Idle
      <3>2. /\ Fail(pass.kind, pass.reqs, why) /\ machine' = Forgotten(machine)
            /\ UNCHANGED <<geom, seqPos, history, graphExec, epoch, draws>>
        BY Zenon, <1>12 DEF DriverFault
      <3> QED BY Zenon, <3>1, <3>2
    <2> HIDE DEF why
    <2> QED BY <1>0, <2>1, FailKeepsAnswers
  <1>14. CASE StreamRefuses
    BY <1>14 DEF StreamRefuses, Lost
  <1>13. CASE UNCHANGED decodeVars
    <2>1. /\ geom' = geom /\ machine' = machine /\ seqPos' = seqPos /\ history' = history /\ graphExec' = graphExec
          /\ pass' = pass /\ answered' = answered /\ unset' = unset /\ epoch' = epoch
          /\ draws' = draws
      BY <1>13 DEF decodeVars
    <2>2. TypesInv'
      BY <2>1 DEF AnswersInv, TypesInv
    <2>3. \A s : Ahead(s)' = Ahead(s)
      BY <2>1 DEF Ahead
    <2>9. RngInv' = RngInv
      BY <2>1 DEF RngInv
    <2>4. SlotsInv'
      BY <2>1, <2>3, <2>9 DEF AnswersInv, SlotsInv
    <2>10. \A u : Temperature(u)' = Temperature(u)
      BY <2>1 DEF Temperature
    <2>5. Rowed' = Rowed /\ \A i : Fed(i)' = Fed(i)
      BY <2>1 DEF Rowed, Fed
    <2>6. pass # Idle => RowsInv' = RowsInv /\ OutputsInv' = OutputsInv
      BY <2>1, <2>5, <2>10 DEF RowsInv, OutputsInv, Drawn
    <2>7. pass # Idle => UnderwayInv'
      BY <2>1, <2>5, <2>6 DEF AnswersInv, UnderwayInv
    <2>8. AnswersFollowTheHistory'
      BY <2>1 DEF AnswersInv, AnswersFollowTheHistory
    <2> QED BY <1>0, <2>1, <2>2, <2>4, <2>7, <2>8 DEF AnswersInv
  <1> QED
    BY <1>1, <1>2, <1>3, <1>4, <1>5, <1>6, <1>7, <1>8, <1>9, <1>10, <1>11, <1>12,
       <1>13, <1>14 DEF DecodeNext

\* A capture that was broken off is not ended by a later pass, and nothing is answered.
Silent ==
  /\ BuffersInv /\ Lost /\ pass.at \notin {"begin", "launch"}
  /\ answered.is \notin {"tokens", "logits"}

\* Nor is anything answered after a step.
LEMMA SilenceStays ==
  ASSUME Silent, [DecodeNext]_decodeVars
  PROVE  Silent'
  <1>0. BuffersInv' /\ PassInv /\ PassInv'
    BY BuffersInvStep DEF Silent, BuffersInv
  <1> SUFFICES /\ capturing' /\ pass'.at \notin {"begin", "enqueue", "instantiate", "launch"}
               /\ answered'.is \notin {"tokens", "logits"}
    BY <1>0 DEF Silent, Lost
  <1>q. capturing /\ pass.at \notin {"begin", "enqueue", "instantiate", "launch"}
        /\ answered.is \notin {"tokens", "logits"}
    BY DEF Silent, Lost
  <1>1. CASE LoadModel
    BY <1>q, <1>1 DEF LoadModel
  <1>2. CASE ResetSlot
    BY <1>q, <1>2 DEF ResetSlot, Nothing
  <1>3. CASE BeginPass
    <2>1. capturing' = capturing
      BY Zenon, <1>3 DEF BeginPass
    <2>2. PICK kind \in {"sample", "logits", "graphed"} : Refused(kind) \/ Started(kind)
      BY Zenon, <1>3, BeginPassOutcome
    <2>3. CASE Refused(kind)
      <3>1. pass' = Idle /\ answered'.is = "failed"
        BY <2>3 DEF Refused
      <3> QED BY <1>q, <2>1, <3>1 DEF Idle
    <2>4. CASE Started(kind)
      <3>1. pass'.at \in {"drain", "layer"} /\ answered' = Nothing
        BY <2>4 DEF Started
      <3> QED BY <1>q, <2>1, <3>1 DEF Nothing
    <2> QED BY <2>2, <2>3, <2>4
  <1>4. CASE Drain
    BY <1>q, <1>4 DEF Drain
  <1>5. CASE BeginCapture
    BY <1>q, <1>5 DEF BeginCapture
  <1>6. CASE EnqueueStack
    BY <1>q, <1>6 DEF EnqueueStack
  <1>7. CASE EndCapture
    BY <1>q, <1>7 DEF EndCapture
  <1>8. CASE LaunchGraph
    BY <1>q, <1>8 DEF LaunchGraph
  <1>9. CASE RunLayer
    <2>1. pass' = [pass EXCEPT !.layer = @ + 1] /\ UNCHANGED <<capturing, answered>> /\ pass.at = "layer"
      BY Zenon, <1>9 DEF RunLayer
    <2> QED BY <1>0, <1>q, <2>1 DEF PassInv, Underway, Idle
  <1>10. CASE RunHead
    <2>1. pass' = [pass EXCEPT !.at = IF Samples THEN "tokens" ELSE "logits"] /\ UNCHANGED <<capturing, answered>>
          /\ pass.at = "layer"
      BY Zenon, <1>10 DEF RunHead
    <2> QED BY <1>0, <1>q, <2>1 DEF PassInv, Underway, Idle
  <1>11. CASE Download
    <2>1. pass.at = "tokens" /\ pass.kind = "logits" /\ pass' = Idle /\ capturing' = capturing
      BY <1>q, <1>11 DEF Download
    <2> DEFINE rows == [i \in DOMAIN pass.reqs |->
                          Get(machine, IF pass.at = "logits" THEN LogitsDev ELSE TokOut, i)]
    <2>2. answered' = [is |-> IF pass.at = "logits" THEN "logits"
                              ELSE IF pass.kind = "logits" THEN "empty" ELSE "tokens",
                       kind |-> pass.kind, reqs |-> pass.reqs, rows |-> rows]
      BY Zenon, <1>11 DEF Download
    <2> HIDE DEF rows
    <2>3. answered'.is = "empty"
      BY <2>1, <2>2
    <2> QED BY <1>q, <2>1, <2>3 DEF Idle
  <1>12. CASE DriverFault
    <2>1. capturing' = capturing /\ pass' = Idle /\ answered'.is = "failed"
      BY <1>12 DEF DriverFault, Fail
    <2> QED BY <1>q, <2>1 DEF Idle
  <1>14. CASE StreamRefuses
    <2>1. capturing' = capturing /\ pass' = Idle /\ answered'.is = "failed"
      BY <1>14 DEF StreamRefuses, Fail
    <2> QED BY <1>q, <2>1 DEF Idle
  <1>13. CASE UNCHANGED decodeVars
    BY <1>q, <1>13 DEF decodeVars
  <1> QED
    BY <1>1, <1>2, <1>3, <1>4, <1>5, <1>6, <1>7, <1>8, <1>9, <1>10, <1>11, <1>12,
       <1>13, <1>14 DEF DecodeNext

\* A capture is lost by the launch that fails while the stack is recorded.
LEMMA CaptureIsLost ==
  ASSUME BuffersInv, ~Lost, [DecodeNext]_decodeVars, Lost'
  PROVE  Silent'
  <1>0. BuffersInv' /\ PassInv
    BY BuffersInvStep DEF BuffersInv
  <1>q. (capturing => pass.at \in {"enqueue", "instantiate"}) /\ capturing' /\ pass'.at \notin {"enqueue", "instantiate"}
    BY DEF Lost
  <1>1. CASE LoadModel
    BY <1>q, <1>1 DEF LoadModel
  <1>2. CASE ResetSlot
    BY <1>q, <1>2 DEF ResetSlot
  <1>3. CASE BeginPass
    <2>1. capturing' = capturing /\ pass = Idle
      BY Zenon, <1>3 DEF BeginPass
    <2> QED BY <1>q, <2>1 DEF Idle
  <1>4. CASE Drain
    BY <1>q, <1>4 DEF Drain
  <1>5. CASE BeginCapture
    <2>1. pass.at = "begin" /\ pass' = [pass EXCEPT !.at = "enqueue"]
      BY <1>5 DEF BeginCapture
    <2> QED BY <1>0, <1>q, <2>1 DEF PassInv, Underway, Idle
  <1>6. CASE EnqueueStack
    <2>1. pass.at = "enqueue" /\ pass' = [pass EXCEPT !.at = "instantiate"]
      BY <1>6 DEF EnqueueStack
    <2> QED BY <1>0, <1>q, <2>1 DEF PassInv, Underway, Idle
  <1>7. CASE EndCapture
    BY <1>q, <1>7 DEF EndCapture
  <1>8. CASE LaunchGraph
    BY <1>q, <1>8 DEF LaunchGraph
  <1>9. CASE RunLayer
    <2>1. capturing' = capturing /\ pass.at = "layer"
      BY Zenon, <1>9 DEF RunLayer
    <2> QED BY <1>q, <2>1
  <1>10. CASE RunHead
    <2>1. capturing' = capturing /\ pass.at = "layer"
      BY Zenon, <1>10 DEF RunHead
    <2> QED BY <1>q, <2>1
  <1>11. CASE Download
    BY <1>q, <1>11 DEF Download
  <1>12. CASE DriverFault
    <2>1. pass' = Idle /\ answered'.is = "failed"
      BY <1>12 DEF DriverFault, Fail
    <2>2. pass'.at = "idle"
      BY <2>1 DEF Idle
    <2> QED BY <1>0, <2>1, <2>2 DEF Silent
  <1>14. CASE StreamRefuses
    BY <1>q, <1>14 DEF StreamRefuses
  <1>13. CASE UNCHANGED decodeVars
    BY <1>q, <1>13 DEF decodeVars
  <1> QED
    BY <1>1, <1>2, <1>3, <1>4, <1>5, <1>6, <1>7, <1>8, <1>9, <1>10, <1>11, <1>12,
       <1>13, <1>14 DEF DecodeNext

\* The logits and the greedy tokens a pass returns are the model's function of the tokens
\* of the sequence and of nothing else, and a token drawn at a temperature takes in addition
\* the seed of its row, advanced once for each earlier time the row was sampled: for every
\* model and batch, and in runs of any length.
THEOREM AnswersAlwaysFollowTheHistory == DecodeSpec => []AnswersFollowTheHistory
  <1> DEFINE Inv == (AnswersInv /\ ~Lost) \/ Silent
  <1>1. DecodeInit => Inv
    <2> SUFFICES ASSUME DecodeInit PROVE Inv
      OBVIOUS
    <2>1. BuffersInv
      BY DEF DecodeInit, BuffersInv, PassInv, Idle, Recording
    <2>2. TypesInv
      BY DEF DecodeInit, TypesInv
    <2>3. SlotsInv
      BY DEF DecodeInit, SlotsInv, Ahead, Idle
    <2>4. AnswersFollowTheHistory /\ pass = Idle /\ ~Lost
      BY DEF DecodeInit, AnswersFollowTheHistory, Nothing, Lost
    <2> QED BY <2>1, <2>2, <2>3, <2>4 DEF AnswersInv
  <1>2. Inv /\ [DecodeNext]_decodeVars => Inv'
    <2> SUFFICES ASSUME Inv, [DecodeNext]_decodeVars PROVE Inv'
      OBVIOUS
    <2>1. CASE AnswersInv /\ ~Lost
      <3>1. AnswersInv'
        BY <2>1, AnswersInvStep
      <3>2. Lost' => Silent'
        BY <2>1, CaptureIsLost DEF AnswersInv
      <3> QED BY <3>1, <3>2
    <2>2. CASE Silent
      BY <2>2, SilenceStays
    <2> QED BY <2>1, <2>2
  <1>3. Inv => AnswersFollowTheHistory
    BY DEF AnswersInv, Silent, AnswersFollowTheHistory
  <1> QED BY <1>1, <1>2, <1>3, PTL DEF DecodeSpec
=============================================================================
