----------------------------- MODULE GpuMoeProofs -----------------------------
(***************************************************************************)
(* Proofs about the device-routed section, for any number of layers,       *)
(* experts, sequences and slots, and any choice among equally old slots,   *)
(* as long as the slots suffice for one layer of the batch and the clock   *)
(* has not gone around.                                                    *)
(***************************************************************************)
EXTENDS GpuMoe, FiniteSetTheorems, TLAPS

NEntries == Batch * TopK

\* lru_admit is launched for at most as many entries as there are slots.
EntriesFit == NEntries <= NSlots

\* Every entry advances the clock once at most.
ClockSuffices == MaxLaunch * NEntries < 2^ClockBits

(***************************************************************************)
(* The events order the streams: the GEMVs run with the copy stream idle   *)
(* and, unless a pass was cut short, it works only while the compute       *)
(* stream waits for it.                                                    *)
(***************************************************************************)
StreamsInOrder ==
  /\ copyOn => promotes > 0
  /\ ~copyOn => promoting = {}
  /\ pc = "gemv" => promotes = 0
  /\ ~cutShort => promotes <= 1 /\ (pc # "wait" => promotes = 0)

\* The slot table and the map are inverse to each other.
MapMatchesSlotKeys == \A k \in Keys, s \in Slots : map[k] = s <=> slotKey[s] = k

(***************************************************************************)
(* The clock counts at most the entries that have been touched or          *)
(* admitted; those that wait for pass 2 are still to come.                 *)
(***************************************************************************)
ClockInv ==
  /\ needs \in SUBSET Entries
  /\ pc = "touch" => /\ launched > 0 /\ needs \subseteq 1..(t - 1)
                     /\ clock + Cardinality(needs) <= (launched - 1) * NEntries + (t - 1)
  /\ pc = "admit" => /\ launched > 0 /\ needs \subseteq t..NEntries
                     /\ clock + Cardinality(needs) <= launched * NEntries
  /\ pc \in {"router", "wait", "gemv"} => clock <= launched * NEntries
  /\ \A s \in Slots : slotLast[s] <= clock

(***************************************************************************)
(* The entries that have their slot: those touched so far that were hits,  *)
(* then all those that do not wait for admission.  Their slots are younger *)
(* than all the others, so none of them is a victim while another is left. *)
(***************************************************************************)
Placed ==
  CASE pc = "router" -> {}
    [] pc = "touch"  -> {e \in Entries : e < t} \ needs
    [] OTHER         -> Entries \ needs

PlacedSlots == {base[e] : e \in Placed}

LruInv ==
  /\ MapMatchesSlotKeys
  /\ pc \in {"wait", "gemv"} => needs = {}
  /\ \A e \in Placed : ids[e] \in Experts /\ base[e] \in Slots /\ map[Key(e)] = base[e]
  /\ pc # "router" => \A e \in Entries : ids[e] \in Experts
  /\ pc \in {"touch", "admit"} =>
       /\ \A s \in PlacedSlots : \A r \in Slots \ PlacedSlots : slotLast[r] < slotLast[s]
       /\ \A e \in needs : map[Key(e)] # None => pc = "admit" /\ \E d \in Placed : Key(d) = Key(e)

\* What promote_experts is told: to fetch each admitted expert into its slot, once.
FetchInv ==
  /\ \A e \in Placed : src[e] # None => src[e] = Key(e) /\ dst[e] = base[e]
  /\ \A d, e \in Placed : d # e /\ src[d] # None /\ src[e] # None => src[d] # src[e]

\* The entries whose copy is still to be made.
ToCome == IF copyOn THEN {e \in promoting : src[e] # None}
          ELSE IF pc = "admit" \/ promotes > 0 THEN {e \in Placed : src[e] # None}
          ELSE {}

DataInv ==
  ~cutShort =>
    \A k \in Keys : \/ map[k] = None
                    \/ slotData[map[k]] = k
                    \/ \E e \in ToCome : src[e] = k

IInv == TypeOK /\ StreamsInOrder /\ ClockInv /\ LruInv /\ FetchInv /\ DataInv

-----------------------------------------------------------------------------
\* Arithmetic

\* A clock of any width has at least one value: 2^b counts the subsets of b bits.
LEMMA WidthPositive == 2^ClockBits \in Nat \ {0}
  <1> DEFINE Bits == 1..ClockBits
  <1>1. IsFiniteSet(Bits) /\ Cardinality(Bits) = ClockBits
    BY FS_Interval, GpuAssumption
  <1>2. IsFiniteSet(SUBSET Bits) /\ Cardinality(SUBSET Bits) = 2^ClockBits
    BY <1>1, FS_SUBSET
  <1>3. Cardinality(SUBSET Bits) \in Nat
    BY <1>2, FS_CardinalityType
  <1>4. Cardinality(SUBSET Bits) # 0
    <2>1. SUBSET Bits # {}
      OBVIOUS
    <2> QED BY <1>2, <2>1, FS_EmptySet
  <1> QED BY <1>2, <1>3, <1>4

\* What is below the modulus is its own remainder.
LEMMA ModSmall ==
  ASSUME NEW x \in Nat, NEW m \in Nat, x < m
  PROVE  x % m = x
  OBVIOUS

\* A launch has entries, numbered from 1.
LEMMA EntryCount == NEntries \in Nat \ {0} /\ Entries = 1..NEntries
  BY GpuAssumption DEF NEntries, Entries

\* No launch within the bound brings the clock to its end.
LEMMA LaunchBound ==
  ASSUME ClockSuffices, NEW n \in 0..MaxLaunch
  PROVE  n * NEntries \in Nat /\ n * NEntries < 2^ClockBits
  <1>1. NEntries \in Nat /\ MaxLaunch \in Nat
    BY EntryCount, GpuAssumption
  <1>2. n * NEntries \in Nat /\ n * NEntries <= MaxLaunch * NEntries
    BY <1>1
  <1> QED BY <1>1, <1>2, WidthPositive DEF ClockSuffices

\* A clock that ticks remains within its width.
LEMMA TickInStamps ==
  ASSUME clock \in Stamps
  PROVE  Tick \in Stamps
  BY WidthPositive DEF Tick, Stamps

\* Before its end the clock counts.
LEMMA TickIsNext ==
  ASSUME clock \in Stamps, clock + 1 < 2^ClockBits
  PROVE  Tick = clock + 1
  BY WidthPositive, ModSmall DEF Tick, Stamps

-----------------------------------------------------------------------------
\* The keys of the entries of the layer under way are keys.
LEMMA KeyInKeys ==
  ASSUME layer \in Layers, NEW e \in Entries, ids[e] \in Experts
  PROVE  Key(e) \in Keys
  BY DEF Key, Keys

\* TypeOK is inductive, given that the experts of a layer under way are known.
LEMMA TypeStep ==
  ASSUME TypeOK, StreamsInOrder, LruInv, [Next]_vars
  PROVE  TypeOK'
  <1> USE DEF TypeOK
  <1>0. layer \in Layers /\ clock \in Stamps
    OBVIOUS
  <1>1. CASE Router
    <2>1. ids' \in [Entries -> Experts \cup {None}]
      BY <1>1 DEF Router, Choices
    <2>2. launched' \in 0..MaxLaunch /\ t' \in 1..(Batch * TopK + 1)
      BY <1>1, EntryCount, GpuAssumption DEF Router, NEntries
    <2> QED BY <1>1, <2>1, <2>2 DEF Router, lruVars, outVars, copyVars
  <1>2. CASE Touch
    <2> DEFINE s == map[Key(t)]
    <2>1. t \in Entries /\ Key(t) \in Keys
      BY <1>0, <1>2, KeyInKeys DEF Touch, LruInv
    <2>2. s \in Slots \cup {None}
      BY <2>1
    <2>3. t' \in 1..(Batch * TopK + 1)
      BY <1>2, <2>1, EntryCount DEF Touch, NEntries
    <2>4. CASE s # None
      BY <1>2, <2>1, <2>2, <2>3, <2>4, TickInStamps DEF Touch, Stamped, copyVars
    <2>5. CASE s = None
      BY <1>2, <2>1, <2>3, <2>5 DEF Touch, copyVars
    <2> QED BY <2>4, <2>5
  <1>3. CASE Touched
    BY <1>3, EntryCount DEF Touched, NEntries, lruVars, outVars, copyVars
  <1>4. CASE AdmitDuplicate
    <2>1. t \in Entries /\ Key(t) \in Keys
      BY <1>0, <1>4, KeyInKeys DEF AdmitDuplicate, LruInv
    <2>2. map[Key(t)] \in Slots \cup {None}
      BY <2>1
    <2>3. t' \in 1..(Batch * TopK + 1)
      BY <1>4, <2>1, EntryCount DEF AdmitDuplicate, NEntries
    <2> QED BY <1>4, <2>1, <2>2, <2>3 DEF AdmitDuplicate, lruVars, copyVars
  <1>5. CASE AdmitMiss
    <2>1. t \in Entries /\ Key(t) \in Keys
      BY <1>0, <1>5, KeyInKeys DEF AdmitMiss, LruInv
    <2>2. t' \in 1..(Batch * TopK + 1)
      BY <1>5, <2>1, EntryCount DEF AdmitMiss, NEntries
    <2>3. \A s \in Slots : Remapped(Key(t), s) \in [Keys -> Slots \cup {None}]
      BY <2>1 DEF Remapped
    <2> QED BY <1>5, <2>1, <2>2, <2>3, TickInStamps DEF AdmitMiss, Stamped, copyVars
  <1>6. CASE AdmitSkip
    <2>1. t' \in 1..(Batch * TopK + 1)
      BY <1>6, EntryCount DEF AdmitSkip, NEntries
    <2> QED BY <1>6, <2>1 DEF AdmitSkip, lruVars, outVars, copyVars
  <1>7. CASE Admitted
    BY <1>7 DEF Admitted, lruVars, outVars, copyVars
  <1>8. CASE GemvStart
    BY <1>8 DEF GemvStart, lruVars, outVars, copyVars
  <1>9. CASE GemvEnd
    <2>1. (layer + 1) % NLayers \in Layers
      BY GpuAssumption DEF Layers
    <2> QED BY <1>9, <2>1 DEF GemvEnd, lruVars, outVars, copyVars
  <1>10. CASE FailPass
    <2>1. 0 \in Layers
      BY GpuAssumption DEF Layers
    <2> QED BY <1>10, <2>1 DEF FailPass, lruVars, outVars, copyVars
  <1>11. CASE PromoteStart
    BY <1>11 DEF PromoteStart, lruVars, outVars
  <1>12. ASSUME NEW e \in Entries, PromoteEntry(e)
         PROVE  TypeOK'
    <2>1. promoting' \subseteq Entries
      BY <1>12 DEF PromoteEntry
    <2>2. slotData' \in [Slots -> Keys \cup {None}]
      <3>1. /\ slotData \in [Slots -> Keys \cup {None}] /\ src[e] \in Keys \cup {None}
            /\ \/ UNCHANGED slotData
               \/ slotData' = [slotData EXCEPT ![dst[e]] = src[e]]
               \/ slotData' = [slotData EXCEPT ![dst[e]] = None]
        BY <1>12 DEF PromoteEntry
      <3> QED BY <3>1
    <2> QED BY <1>12, <2>1, <2>2 DEF PromoteEntry, lruVars, outVars
  <1>13. CASE PromoteEnd
    <2>1. promotes \in Nat /\ promotes > 0 /\ promotes' = promotes - 1
      BY <1>13 DEF PromoteEnd, StreamsInOrder
    <2>2. promotes' \in Nat
      BY <2>1
    <2> QED BY <1>13, <2>2 DEF PromoteEnd, lruVars, outVars
  <1>14. CASE UNCHANGED vars
    BY <1>14 DEF vars, lruVars, outVars, copyVars
  <1> QED
    BY <1>1, <1>2, <1>3, <1>4, <1>5, <1>6, <1>7, <1>8, <1>9, <1>10, <1>11, <1>12,
       <1>13, <1>14 DEF Next

\* StreamsInOrder is inductive: the events hand the launch to and fro, and a failed
\* pass that leaves its promote behind is cut short.
LEMMA StreamsStep ==
  ASSUME TypeOK, StreamsInOrder, [Next]_vars
  PROVE  StreamsInOrder'
  <1> USE DEF TypeOK, StreamsInOrder
  <1>1. CASE Router
    BY <1>1 DEF Router, copyVars
  <1>2. CASE Touch
    BY <1>2 DEF Touch, copyVars
  <1>3. CASE Touched
    BY <1>3 DEF Touched, copyVars
  <1>4. CASE AdmitDuplicate
    BY <1>4 DEF AdmitDuplicate, copyVars
  <1>5. CASE AdmitMiss
    BY <1>5 DEF AdmitMiss, copyVars
  <1>6. CASE AdmitSkip
    BY <1>6 DEF AdmitSkip, copyVars
  <1>7. CASE Admitted
    BY <1>7 DEF Admitted, copyVars
  <1>8. CASE GemvStart
    BY <1>8 DEF GemvStart, copyVars
  <1>9. CASE GemvEnd
    BY <1>9 DEF GemvEnd, copyVars
  <1>10. CASE FailPass
    BY <1>10 DEF FailPass, copyVars
  <1>11. CASE PromoteStart
    BY <1>11 DEF PromoteStart
  <1>12. ASSUME NEW e \in Entries, PromoteEntry(e)
         PROVE  StreamsInOrder'
    BY <1>12 DEF PromoteEntry
  <1>13. CASE PromoteEnd
    BY <1>13 DEF PromoteEnd
  <1>14. CASE UNCHANGED vars
    BY <1>14 DEF vars, copyVars
  <1> QED
    BY <1>1, <1>2, <1>3, <1>4, <1>5, <1>6, <1>7, <1>8, <1>9, <1>10, <1>11, <1>12,
       <1>13, <1>14 DEF Next

-----------------------------------------------------------------------------
\* While an entry is still to be touched or admitted, the clock has room.
LEMMA ClockHasRoom ==
  ASSUME ClockSuffices, TypeOK, ClockInv, t \in Entries,
         pc = "touch" \/ (pc = "admit" /\ t \in needs)
  PROVE  Tick = clock + 1
  <1>1. IsFiniteSet(needs) /\ Cardinality(needs) \in Nat
    <2>1. IsFiniteSet(Entries)
      BY EntryCount, FS_Interval
    <2> QED BY <2>1, FS_Subset, FS_CardinalityType DEF ClockInv
  <1>2. t \in needs => Cardinality(needs) # 0
    BY <1>1, FS_EmptySet
  <1>3. clock \in Nat /\ clock \in Stamps /\ launched \in 0..MaxLaunch
    BY WidthPositive DEF TypeOK, Stamps
  <1>4. launched * NEntries < 2^ClockBits /\ launched * NEntries \in Nat
    BY <1>3, LaunchBound
  <1>5. (launched - 1) * NEntries + NEntries = launched * NEntries
    BY <1>3, EntryCount, GpuAssumption
  <1>6. (launched - 1) * NEntries \in Int
    BY <1>3, EntryCount, GpuAssumption
  <1>7. t <= NEntries /\ t \in Int /\ NEntries \in Int
    BY EntryCount
  <1>8. clock + 1 <= launched * NEntries
    <2>1. CASE pc = "touch"
      BY <1>1, <1>3, <1>4, <1>5, <1>6, <1>7, <2>1 DEF ClockInv
    <2>2. CASE pc = "admit" /\ t \in needs
      BY <1>1, <1>2, <1>3, <1>4, <2>2 DEF ClockInv
    <2> QED BY <2>1, <2>2
  <1> QED BY <1>3, <1>4, <1>8, WidthPositive, TickIsNext

\* ClockInv is inductive while the clock suffices.
LEMMA ClockStep ==
  ASSUME ClockSuffices, TypeOK, TypeOK', ClockInv, [Next]_vars
  PROVE  ClockInv'
  <1> DEFINE N == NEntries
  <1>a. IsFiniteSet(Entries) /\ N \in Nat \ {0} /\ Entries = 1..N
    BY EntryCount, FS_Interval
  <1>b. IsFiniteSet(needs) /\ Cardinality(needs) \in Nat
    BY <1>a, FS_Subset, FS_CardinalityType DEF ClockInv
  <1>c. clock \in Nat /\ launched \in Nat /\ \A s \in Slots : slotLast[s] \in Nat
    BY WidthPositive DEF TypeOK, Stamps
  <1>d. launched * N \in Nat /\ (launched - 1) * N \in Int
        /\ (launched - 1) * N + N = launched * N
    BY <1>a, <1>c
  <1> HIDE DEF N
  <1>1. CASE Router
    <2>1. Cardinality({}) = 0
      BY FS_EmptySet
    <2>2. pc = "router" /\ launched' - 1 = launched /\ UNCHANGED <<clock, slotLast>>
          /\ pc' = "touch" /\ t' = 1 /\ needs' = {} /\ launched' > 0
      BY <1>1, <1>c DEF Router, lruVars
    <2>3. clock <= (launched' - 1) * N
      BY <2>2 DEF ClockInv, N
    <2> QED BY <1>c, <1>d, <2>1, <2>2, <2>3 DEF ClockInv, N
  <1>2. CASE Touch
    <2>1. /\ t \in 1..N /\ t' = t + 1 /\ pc = "touch" /\ pc' = "touch"
          /\ launched' = launched
      BY <1>2, <1>a DEF Touch
    <2>2. Tick = clock + 1
      <3>1. t \in Entries /\ pc = "touch"
        BY <1>2 DEF Touch
      <3> QED BY <3>1, ClockHasRoom
    <2>3. CASE map[Key(t)] # None
      <3>1. clock' = clock + 1 /\ needs' = needs
        BY <1>2, <2>2, <2>3 DEF Touch
      <3>2. \A s \in Slots : slotLast'[s] = slotLast[s] \/ slotLast'[s] = clock + 1
        BY <1>2, <2>2, <2>3 DEF Touch, Stamped, TypeOK
      <3> QED BY <1>a, <1>b, <1>c, <1>d, <2>1, <3>1, <3>2 DEF ClockInv, N
    <2>4. CASE map[Key(t)] = None
      <3>1. UNCHANGED <<clock, slotLast>> /\ needs' = needs \cup {t}
        BY <1>2, <2>4 DEF Touch
      <3>2. Cardinality(needs') \in Nat /\ Cardinality(needs') <= Cardinality(needs) + 1
        BY <1>b, <3>1, FS_AddElement
      <3>3. needs' \subseteq Entries /\ needs' \subseteq 1..(t' - 1)
        BY <1>a, <2>1, <3>1 DEF ClockInv
      <3> QED BY <1>b, <1>c, <1>d, <2>1, <3>1, <3>2, <3>3 DEF ClockInv, N
    <2> QED BY <2>3, <2>4
  <1>3. CASE Touched
    <2>1. t = N + 1 /\ pc = "touch" /\ pc' = "admit" /\ t' = 1
          /\ UNCHANGED <<clock, slotLast, launched, needs>>
      BY <1>3, <1>a DEF Touched, TypeOK, lruVars, N, NEntries
    <2>2. needs \subseteq t'..N
      BY <1>a, <2>1 DEF ClockInv
    <2> QED BY <1>a, <1>b, <1>c, <1>d, <2>1, <2>2 DEF ClockInv, N
  <1>4. CASE AdmitDuplicate
    <2>1. /\ t \in needs /\ pc = "admit" /\ pc' = "admit" /\ t' = t + 1
          /\ needs' = needs \ {t} /\ UNCHANGED <<clock, slotLast, launched>>
      BY <1>4 DEF AdmitDuplicate, lruVars
    <2>2. Cardinality(needs') \in Nat /\ Cardinality(needs') <= Cardinality(needs)
      BY <1>b, <2>1, FS_Subset, FS_CardinalityType
    <2>3. needs' \subseteq t'..N
      BY <1>a, <2>1 DEF ClockInv, N
    <2> QED BY <1>b, <1>c, <1>d, <2>1, <2>2, <2>3 DEF ClockInv, N
  <1>5. CASE AdmitMiss
    <2>1. /\ t \in needs /\ pc = "admit" /\ pc' = "admit" /\ t' = t + 1
          /\ needs' = needs \ {t} /\ launched' = launched
      BY <1>5 DEF AdmitMiss
    <2>2. Cardinality(needs') \in Nat /\ Cardinality(needs') = Cardinality(needs) - 1
      BY <1>b, <2>1, FS_RemoveElement, FS_CardinalityType
    <2>3. needs' \subseteq t'..N
      BY <1>a, <2>1 DEF ClockInv, N
    <2>4. Tick = clock + 1
      BY <2>1, ClockHasRoom DEF ClockInv
    <2>5. clock' = clock + 1
          /\ \A s \in Slots : slotLast'[s] = slotLast[s] \/ slotLast'[s] = clock + 1
      BY <1>5, <2>4 DEF AdmitMiss, Stamped, TypeOK
    <2> QED BY <1>b, <1>c, <1>d, <2>1, <2>2, <2>3, <2>5 DEF ClockInv, N
  <1>6. CASE AdmitSkip
    <2>1. /\ t \notin needs /\ pc = "admit" /\ pc' = "admit" /\ t' = t + 1
          /\ UNCHANGED <<clock, slotLast, launched, needs>>
      BY <1>6 DEF AdmitSkip, lruVars
    <2>2. needs \subseteq t'..N
      BY <1>a, <2>1 DEF ClockInv, N, TypeOK
    <2> QED BY <2>1, <2>2 DEF ClockInv, N
  <1>7. CASE Admitted
    BY <1>7, <1>b, <1>c, <1>d DEF Admitted, lruVars, ClockInv, N
  <1>8. CASE GemvStart
    BY <1>8 DEF GemvStart, lruVars, ClockInv
  <1>9. CASE GemvEnd
    BY <1>9 DEF GemvEnd, lruVars, ClockInv
  <1>10. CASE FailPass
    <2>1. UNCHANGED <<clock, slotLast, launched, needs>> /\ pc' = "router"
      BY <1>10 DEF FailPass, lruVars
    <2>2. CASE pc = "touch"
      <3>1. t = 1 /\ launched > 0
        BY <1>10, <2>2 DEF FailPass, ClockInv
      <3> QED BY <1>a, <1>b, <1>c, <1>d, <2>1, <2>2, <3>1 DEF ClockInv, N
    <2>3. CASE pc # "touch"
      BY <1>b, <1>c, <1>d, <1>10, <2>1, <2>3 DEF FailPass, ClockInv, N
    <2> QED BY <2>2, <2>3
  <1>11. CASE PromoteStart
    BY <1>11 DEF PromoteStart, lruVars, ClockInv
  <1>12. ASSUME NEW e \in Entries, PromoteEntry(e)
         PROVE  ClockInv'
    BY <1>12 DEF PromoteEntry, lruVars, ClockInv
  <1>13. CASE PromoteEnd
    BY <1>13 DEF PromoteEnd, lruVars, ClockInv
  <1>14. CASE UNCHANGED vars
    BY <1>14 DEF vars, lruVars, ClockInv
  <1> QED
    BY <1>1, <1>2, <1>3, <1>4, <1>5, <1>6, <1>7, <1>8, <1>9, <1>10, <1>11, <1>12,
       <1>13, <1>14 DEF Next

-----------------------------------------------------------------------------
\* A key that is in a slot is not mapped to another.
LEMMA MappedOnce ==
  ASSUME TypeOK, MapMatchesSlotKeys, NEW j \in Keys, NEW k \in Keys,
         map[j] = map[k], map[j] # None
  PROVE  j = k
  <1>1. map[j] \in Slots /\ map[k] \in Slots
    BY DEF TypeOK
  <1> QED BY <1>1 DEF MapMatchesSlotKeys

\* Every entry of the layer has a key.
LEMMA KeysOfEntries ==
  ASSUME TypeOK, LruInv, pc # "router"
  PROVE  \A e \in Entries : Key(e) \in Keys /\ ids[e] \in Experts
  BY KeyInKeys DEF TypeOK, LruInv

\* Pass 1 places the entry at hand if it is a hit.
LEMMA TouchPlaces ==
  ASSUME TypeOK, ClockInv, Touch
  PROVE  /\ t \in Entries \ Placed /\ t \notin needs /\ Placed \subseteq Entries
         /\ Placed' = IF map[Key(t)] # None THEN Placed \cup {t} ELSE Placed
  <1>1. pc = "touch" /\ pc' = "touch" /\ t \in Entries /\ t' = t + 1
    BY DEF Touch
  <1>2. t \in Nat /\ Entries \subseteq Nat /\ needs \subseteq Entries
    BY <1>1, EntryCount DEF ClockInv
  <1>3. t \notin needs
    BY <1>1, <1>2 DEF ClockInv
  <1>4. Placed = {e \in Entries : e < t} \ needs /\ Placed' = {e \in Entries : e < t + 1} \ needs'
    BY <1>1 DEF Placed
  <1>5. needs' = IF map[Key(t)] # None THEN needs ELSE needs \cup {t}
    BY DEF Touch
  <1>6. \A e \in Entries : e < t + 1 <=> e < t \/ e = t
    BY <1>2
  <1>7. t \notin Placed
    BY <1>2, <1>4
  <1> QED BY <1>1, <1>2, <1>3, <1>4, <1>5, <1>6, <1>7

\* Pass 2 places the entry at hand.
LEMMA AdmitPlaces ==
  ASSUME TypeOK, ClockInv, AdmitDuplicate \/ AdmitMiss
  PROVE  /\ pc = "admit" /\ pc' = "admit" /\ t \in needs /\ needs' = needs \ {t}
         /\ t \in Entries \ Placed /\ Placed \subseteq Entries
         /\ Placed' = Placed \cup {t}
         /\ Placed = Entries \ needs
         /\ UNCHANGED <<layer, ids>>
  <1>1. pc = "admit" /\ pc' = "admit" /\ t \in needs /\ needs' = needs \ {t}
        /\ UNCHANGED <<layer, ids>>
    BY DEF AdmitDuplicate, AdmitMiss
  <1>2. t \in Entries
    BY <1>1 DEF ClockInv
  <1>3. Placed = Entries \ needs /\ Placed' = Entries \ needs'
    BY <1>1 DEF Placed
  <1> QED BY <1>1, <1>2, <1>3

\* While an entry waits for admission, some slot is not in use by this step.
LEMMA SlotsToSpare ==
  ASSUME EntriesFit, TypeOK, LruInv, pc = "admit", t \in needs, needs \subseteq Entries
  PROVE  \E r \in Slots : r \notin PlacedSlots
  <1> DEFINE f == [e \in Placed |-> base[e]]
  <1>1. Placed \subseteq Entries \ {t} /\ t \in Entries
    BY DEF Placed
  <1>2. IsFiniteSet(Entries) /\ Cardinality(Entries) = NEntries
    BY EntryCount, FS_Interval
  <1>3. IsFiniteSet(Entries \ {t}) /\ Cardinality(Entries \ {t}) = NEntries - 1
    BY <1>1, <1>2, FS_RemoveElement
  <1>4. IsFiniteSet(Placed) /\ Cardinality(Placed) <= NEntries - 1
    BY <1>1, <1>3, FS_Subset
  <1>5. f \in Surjection(Placed, PlacedSlots)
    BY DEF Surjection, PlacedSlots
  <1>6. IsFiniteSet(PlacedSlots) /\ Cardinality(PlacedSlots) <= Cardinality(Placed)
    BY <1>4, <1>5, FS_Surjection
  <1>7. IsFiniteSet(Slots) /\ Cardinality(Slots) = NSlots
    BY GpuAssumption, FS_Interval DEF Slots
  <1>8. Cardinality(Placed) \in Nat /\ Cardinality(PlacedSlots) \in Nat
    BY <1>4, <1>6, FS_CardinalityType
  <1>9. Cardinality(PlacedSlots) < NSlots
    BY <1>4, <1>6, <1>8, EntryCount, GpuAssumption DEF EntriesFit
  <1>10. CASE Slots \subseteq PlacedSlots
    BY <1>6, <1>7, <1>8, <1>9, <1>10, FS_Subset, GpuAssumption
  <1> QED BY <1>10

\* No slot that this step has touched or admitted to is a victim.
LEMMA VictimNotPlaced ==
  ASSUME EntriesFit, TypeOK, LruInv, pc = "admit", t \in needs, needs \subseteq Entries,
         NEW s \in Slots, IsVictim(s)
  PROVE  s \notin PlacedSlots
  <1>1. PICK r \in Slots : r \notin PlacedSlots
    BY SlotsToSpare
  <1>2. slotLast[s] <= slotLast[r] /\ slotLast[s] \in Int /\ slotLast[r] \in Int
    BY WidthPositive DEF IsVictim, TypeOK, Stamps
  <1> QED BY <1>1, <1>2 DEF LruInv

\* What the rest of the section leaves alone keeps LruInv and FetchInv.
LEMMA LruUndisturbed ==
  ASSUME LruInv, FetchInv,
         UNCHANGED <<map, slotKey, slotLast, pc, layer, ids, t, needs, base, src, dst>>
  PROVE  LruInv' /\ FetchInv'
  <1>1. Placed' = Placed
    BY DEF Placed
  <1>2. PlacedSlots' = PlacedSlots
    BY <1>1 DEF PlacedSlots
  <1>3. \A e : Key(e)' = Key(e)
    BY DEF Key
  <1> QED BY <1>1, <1>2, <1>3 DEF LruInv, FetchInv, MapMatchesSlotKeys

\* Pass 1 keeps the table and the order of the stamps: a hit becomes the youngest
\* slot, a miss waits.
LEMMA LruTouch ==
  ASSUME ClockSuffices, TypeOK, ClockInv, LruInv, FetchInv, Touch
  PROVE  LruInv' /\ FetchInv'
  <1> DEFINE s == map[Key(t)]
  <1>1. /\ pc = "touch" /\ pc' = "touch" /\ t \in Entries
        /\ UNCHANGED <<map, slotKey, layer, ids, dst>>
    BY DEF Touch
  <1>2. \A e \in Entries : Key(e)' = Key(e) /\ Key(e) \in Keys /\ ids[e] \in Experts
    BY <1>1, KeysOfEntries DEF Key
  <1>3. t \in Entries \ Placed /\ t \notin needs /\ Placed \subseteq Entries
    BY TouchPlaces
  <1>4. MapMatchesSlotKeys'
    BY <1>1 DEF LruInv, MapMatchesSlotKeys
  <1>5. CASE s # None
    <2>1. Placed' = Placed \cup {t}
      BY <1>5, TouchPlaces
    <2>2. s \in Slots
      BY <1>1, <1>2, <1>5 DEF TypeOK
    <2>3. /\ base' = [base EXCEPT ![t] = s] /\ src' = [src EXCEPT ![t] = None]
          /\ needs' = needs /\ slotLast' = [slotLast EXCEPT ![s] = Tick]
      BY <1>5 DEF Touch, Stamped
    <2>4. base'[t] = s /\ \A e \in Placed : base'[e] = base[e]
      BY <1>3, <2>3 DEF TypeOK
    <2>5. PlacedSlots' = PlacedSlots \cup {s}
      BY <1>3, <2>1, <2>4 DEF PlacedSlots
    <2>6. \A e \in Placed' : ids'[e] \in Experts /\ base'[e] \in Slots /\ map'[Key(e)'] = base'[e]
      BY <1>1, <1>2, <1>3, <2>1, <2>2, <2>4 DEF LruInv
    <2>7. slotLast'[s] = clock + 1 /\ \A r \in Slots : r # s => slotLast'[r] = slotLast[r]
      BY <1>1, <2>2, <2>3, ClockHasRoom DEF TypeOK
    <2>8. \A r \in Slots : slotLast[r] \in Int /\ slotLast[r] < clock + 1
      BY WidthPositive DEF ClockInv, TypeOK, Stamps
    <2>9. \A q \in PlacedSlots' : \A r \in Slots \ PlacedSlots' : slotLast'[r] < slotLast'[q]
      <3> TAKE q \in PlacedSlots'
      <3> TAKE r \in Slots \ PlacedSlots'
      <3>1. r \in Slots /\ r # s /\ r \notin PlacedSlots /\ slotLast'[r] = slotLast[r]
        BY <2>5, <2>7
      <3>2. CASE q = s
        BY <2>7, <2>8, <3>1, <3>2
      <3>3. CASE q # s
        <4>1. q \in PlacedSlots /\ q \in Slots
          BY <2>5, <3>3 DEF LruInv, PlacedSlots
        <4> QED BY <1>1, <2>7, <3>1, <3>3, <4>1 DEF LruInv
      <3> QED BY <3>2, <3>3
    <2>10. \A e \in needs' : map'[Key(e)'] = None
      BY <1>1, <1>2, <2>3 DEF LruInv, ClockInv
    <2>11. LruInv'
      BY <1>1, <1>2, <1>4, <2>6, <2>9, <2>10 DEF LruInv
    <2>12. src'[t] = None /\ \A e \in Placed : src'[e] = src[e]
      BY <1>3, <2>3 DEF TypeOK
    <2>13. FetchInv'
      BY <1>1, <1>2, <1>3, <2>1, <2>4, <2>12 DEF FetchInv
    <2> QED BY <2>11, <2>13
  <1>6. CASE s = None
    <2>1. Placed' = Placed
      BY <1>6, TouchPlaces
    <2>2. needs' = needs \cup {t} /\ UNCHANGED <<slotLast, base>>
          /\ src' = [src EXCEPT ![t] = None]
      BY <1>6 DEF Touch
    <2>7. \A e \in Placed : src'[e] = src[e]
      BY <1>3, <2>2 DEF TypeOK
    <2>3. PlacedSlots' = PlacedSlots
      BY <2>1, <2>2 DEF PlacedSlots
    <2>4. \A e \in needs' : map'[Key(e)'] = None
      BY <1>1, <1>2, <1>6, <2>2 DEF LruInv, ClockInv
    <2>5. LruInv'
      BY <1>1, <1>2, <1>3, <1>4, <2>1, <2>2, <2>3, <2>4 DEF LruInv
    <2>6. FetchInv'
      BY <1>1, <1>2, <1>3, <2>1, <2>2, <2>7 DEF FetchInv
    <2> QED BY <2>5, <2>6
  <1> QED BY <1>5, <1>6

\* An expert admitted earlier in the launch is found in its slot.
LEMMA LruDuplicate ==
  ASSUME TypeOK, ClockInv, LruInv, FetchInv, AdmitDuplicate
  PROVE  LruInv' /\ FetchInv'
  <1>1. /\ pc = "admit" /\ pc' = "admit" /\ t \in needs /\ needs' = needs \ {t}
        /\ t \in Entries \ Placed /\ Placed \subseteq Entries /\ Placed' = Placed \cup {t}
    BY AdmitPlaces
  <1>2. /\ UNCHANGED <<map, slotKey, slotLast, layer, ids, dst>>
        /\ base' = [base EXCEPT ![t] = map[Key(t)]] /\ src' = [src EXCEPT ![t] = None]
        /\ map[Key(t)] # None
    BY DEF AdmitDuplicate, lruVars
  <1>3. \A e \in Entries : Key(e)' = Key(e) /\ Key(e) \in Keys /\ ids[e] \in Experts
    BY <1>1, <1>2, KeysOfEntries DEF Key
  <1>4. base'[t] = map[Key(t)] /\ src'[t] = None
        /\ \A e \in Placed : base'[e] = base[e] /\ src'[e] = src[e]
    BY <1>1, <1>2 DEF TypeOK
  <1>5. map[Key(t)] \in Slots
    BY <1>1, <1>2, <1>3 DEF TypeOK
  <1>6. PICK d \in Placed : Key(d) = Key(t)
    BY <1>1, <1>2 DEF LruInv
  <1>7. map[Key(t)] = base[d]
    BY <1>6 DEF LruInv
  <1>8. PlacedSlots' = PlacedSlots
    BY <1>1, <1>4, <1>7 DEF PlacedSlots
  <1>9. \A e \in Placed' : ids'[e] \in Experts /\ base'[e] \in Slots /\ map'[Key(e)'] = base'[e]
    BY <1>1, <1>2, <1>3, <1>4, <1>5 DEF LruInv
  <1>10. \A e \in needs' : map'[Key(e)'] # None => \E c \in Placed' : Key(c)' = Key(e)'
    BY <1>1, <1>2, <1>3 DEF LruInv, ClockInv
  <1>11. LruInv'
    BY <1>1, <1>2, <1>3, <1>8, <1>9, <1>10 DEF LruInv, MapMatchesSlotKeys
  <1>12. FetchInv'
    BY <1>1, <1>2, <1>3, <1>4 DEF FetchInv
  <1> QED BY <1>11, <1>12

\* An admitted expert takes a slot that no entry of the launch has.
LEMMA LruAdmit ==
  ASSUME ClockSuffices, EntriesFit, TypeOK, ClockInv, LruInv, FetchInv, AdmitMiss
  PROVE  LruInv' /\ FetchInv'
  <1>1. /\ pc = "admit" /\ pc' = "admit" /\ t \in needs /\ needs' = needs \ {t}
        /\ t \in Entries \ Placed /\ Placed \subseteq Entries /\ Placed' = Placed \cup {t}
        /\ UNCHANGED <<layer, ids>> /\ needs \subseteq Entries
    BY AdmitPlaces DEF ClockInv
  <1> DEFINE k == Key(t)
  <1>2. PICK s \in Slots :
          /\ IsVictim(s)
          /\ map' = Remapped(k, s)
          /\ slotKey' = [slotKey EXCEPT ![s] = k]
          /\ slotLast' = Stamped(s)
          /\ base' = [base EXCEPT ![t] = s]
          /\ dst' = [dst EXCEPT ![t] = s]
    BY DEF AdmitMiss
  <1>3. src' = [src EXCEPT ![t] = k] /\ map[k] = None
    BY DEF AdmitMiss
  <1>4. \A e \in Entries : Key(e)' = Key(e) /\ Key(e) \in Keys /\ ids[e] \in Experts
    BY <1>1, KeysOfEntries DEF Key
  <1>5. s \notin PlacedSlots
    BY <1>1, <1>2, VictimNotPlaced
  <1>6. k \in Keys /\ s # None /\ k # None
    BY <1>1, <1>2, <1>4, GpuAssumption
  <1>7. /\ base'[t] = s /\ dst'[t] = s /\ src'[t] = k
        /\ \A e \in Placed : base'[e] = base[e] /\ dst'[e] = dst[e] /\ src'[e] = src[e]
    BY <1>1, <1>2, <1>3 DEF TypeOK
  <1>8. \A j \in Keys : map'[j] = IF j = k THEN s ELSE IF j = slotKey[s] THEN None ELSE map[j]
    BY <1>2 DEF Remapped
  <1>9. \A r \in Slots : slotKey'[r] = IF r = s THEN k ELSE slotKey[r]
    BY <1>2 DEF TypeOK
  <1>10. MapMatchesSlotKeys'
    <2> SUFFICES ASSUME NEW j \in Keys, NEW r \in Slots
                 PROVE  map'[j] = r <=> slotKey'[r] = j
      BY DEF MapMatchesSlotKeys
    <2>1. (map[j] = r <=> slotKey[r] = j) /\ (map[j] = s <=> slotKey[s] = j) /\ r # None
      BY GpuAssumption DEF LruInv, MapMatchesSlotKeys
    <2>2. map[k] = r <=> slotKey[r] = k
      BY <1>6 DEF LruInv, MapMatchesSlotKeys
    <2>3. map'[j] = IF j = k THEN s ELSE IF j = slotKey[s] THEN None ELSE map[j]
      BY <1>8
    <2>4. slotKey'[r] = IF r = s THEN k ELSE slotKey[r]
      BY <1>9
    <2> QED BY <1>3, <1>6, <2>1, <2>2, <2>3, <2>4
  <1>11. \A e \in Placed : /\ Key(e) \in Keys /\ base[e] \in Slots
                           /\ map[Key(e)] = base[e] /\ base[e] # s /\ Key(e) # k
    BY <1>1, <1>2, <1>3, <1>4, <1>5, GpuAssumption DEF LruInv, PlacedSlots
  <1>12. \A e \in Placed : map'[Key(e)] = base[e]
    BY <1>2, <1>8, <1>11 DEF LruInv, MapMatchesSlotKeys
  <1>13. PlacedSlots' = PlacedSlots \cup {s}
    BY <1>1, <1>7 DEF PlacedSlots
  <1>14. Tick = clock + 1
    BY <1>1, ClockHasRoom
  <1>15. slotLast'[s] = clock + 1 /\ \A r \in Slots : r # s => slotLast'[r] = slotLast[r]
    BY <1>2, <1>14 DEF Stamped, TypeOK
  <1>16. \A r \in Slots : slotLast[r] \in Int /\ slotLast[r] < clock + 1
    BY WidthPositive DEF ClockInv, TypeOK, Stamps
  <1>17. \A q \in PlacedSlots' : \A r \in Slots \ PlacedSlots' : slotLast'[r] < slotLast'[q]
    <2> TAKE q \in PlacedSlots'
    <2> TAKE r \in Slots \ PlacedSlots'
    <2>1. r \in Slots /\ r # s /\ r \notin PlacedSlots /\ slotLast'[r] = slotLast[r]
      BY <1>13, <1>15
    <2>2. CASE q = s
      BY <1>15, <1>16, <2>1, <2>2
    <2>3. CASE q # s
      <3>1. q \in PlacedSlots /\ q \in Slots
        BY <1>11, <1>13, <2>3 DEF PlacedSlots
      <3> QED BY <1>1, <1>15, <2>1, <2>3, <3>1 DEF LruInv
    <2> QED BY <2>2, <2>3
  <1>18. \A e \in needs' : map'[Key(e)] # None => \E d \in Placed' : Key(d) = Key(e)
    <2> TAKE e \in needs'
    <2>1. e \in needs /\ e \in Entries /\ Key(e) \in Keys
      BY <1>1, <1>4
    <2>2. CASE Key(e) = k
      BY <1>1, <2>2
    <2>3. CASE Key(e) # k /\ map'[Key(e)] # None
      <3>1. map[Key(e)] # None
        BY <1>8, <2>1, <2>3
      <3> QED BY <1>1, <2>1, <3>1 DEF LruInv
    <2> QED BY <2>2, <2>3
  <1>19. \A e \in Placed' : ids'[e] \in Experts /\ base'[e] \in Slots /\ map'[Key(e)'] = base'[e]
    BY <1>1, <1>4, <1>6, <1>7, <1>8, <1>11, <1>12
  <1>20. LruInv'
    BY <1>1, <1>4, <1>10, <1>17, <1>18, <1>19 DEF LruInv
  <1>21. FetchInv'
    <2>1. \A e \in Placed' : src'[e] # None => src'[e] = Key(e)' /\ dst'[e] = base'[e]
      BY <1>1, <1>4, <1>7 DEF FetchInv
    <2>2. \A e \in Placed : src'[e] # None => src'[e] # k
      BY <1>7, <1>11 DEF FetchInv
    <2> QED BY <1>1, <1>7, <2>1, <2>2 DEF FetchInv
  <1> QED BY <1>20, <1>21

\* LruInv and FetchInv are inductive, together.
LEMMA LruStep ==
  ASSUME ClockSuffices, EntriesFit, TypeOK, ClockInv, LruInv, FetchInv, [Next]_vars
  PROVE  LruInv' /\ FetchInv'
  <1>1. CASE Router
    <2>1. /\ pc' = "touch" /\ t' = 1 /\ needs' = {} /\ \A e \in Entries : ids'[e] \in Experts
          /\ UNCHANGED <<map, slotKey>>
      BY <1>1 DEF Router, Choices, lruVars
    <2>2. Placed' = {}
      BY <2>1, EntryCount DEF Placed
    <2>3. PlacedSlots' = {}
      BY <2>2 DEF PlacedSlots
    <2> QED BY <2>1, <2>2, <2>3 DEF LruInv, FetchInv, MapMatchesSlotKeys
  <1>2. CASE Touch
    BY <1>2, LruTouch
  <1>3. CASE Touched
    <2>1. pc = "touch" /\ pc' = "admit" /\ t = NEntries + 1
          /\ UNCHANGED <<map, slotKey, slotLast, layer, ids, needs, base, src, dst>>
      BY <1>3, EntryCount DEF Touched, lruVars, outVars, TypeOK, NEntries
    <2>2. Placed' = Placed
      BY <2>1, EntryCount DEF Placed
    <2>3. PlacedSlots' = PlacedSlots /\ \A e : Key(e)' = Key(e)
      BY <2>1, <2>2 DEF PlacedSlots, Key
    <2> QED BY <2>1, <2>2, <2>3 DEF LruInv, FetchInv, MapMatchesSlotKeys
  <1>4. CASE AdmitDuplicate
    BY <1>4, LruDuplicate
  <1>5. CASE AdmitMiss
    BY <1>5, LruAdmit
  <1>6. CASE AdmitSkip
    <2>1. pc = "admit" /\ pc' = "admit"
          /\ UNCHANGED <<map, slotKey, slotLast, layer, ids, needs, base, src, dst>>
      BY <1>6 DEF AdmitSkip, lruVars, outVars
    <2>2. Placed' = Placed
      BY <2>1 DEF Placed
    <2>3. PlacedSlots' = PlacedSlots /\ \A e : Key(e)' = Key(e)
      BY <2>1, <2>2 DEF PlacedSlots, Key
    <2> QED BY <2>1, <2>2, <2>3 DEF LruInv, FetchInv, MapMatchesSlotKeys
  <1>7. CASE Admitted
    <2>1. pc = "admit" /\ pc' = "wait" /\ t = NEntries + 1
          /\ UNCHANGED <<map, slotKey, slotLast, layer, ids, needs, base, src, dst>>
      BY <1>7, EntryCount DEF Admitted, lruVars, outVars, TypeOK, NEntries
    <2>2. needs = {}
      BY <2>1, EntryCount DEF ClockInv
    <2>3. Placed' = Placed /\ \A e : Key(e)' = Key(e)
      BY <2>1 DEF Placed, Key
    <2> QED BY <2>1, <2>2, <2>3 DEF LruInv, FetchInv, MapMatchesSlotKeys
  <1>8. CASE GemvStart
    <2>1. pc = "wait" /\ pc' = "gemv"
          /\ UNCHANGED <<map, slotKey, layer, ids, needs, base, src, dst>>
      BY <1>8 DEF GemvStart, lruVars, outVars
    <2>2. Placed' = Placed /\ \A e : Key(e)' = Key(e)
      BY <2>1 DEF Placed, Key
    <2> QED BY <2>1, <2>2 DEF LruInv, FetchInv, MapMatchesSlotKeys
  <1>9. CASE GemvEnd \/ FailPass
    <2>1. pc' = "router" /\ UNCHANGED <<map, slotKey>>
      BY <1>9 DEF GemvEnd, FailPass, lruVars
    <2>2. Placed' = {}
      BY <2>1 DEF Placed
    <2> QED BY <2>1, <2>2 DEF LruInv, FetchInv, MapMatchesSlotKeys
  <1>11. CASE PromoteStart
    BY <1>11, LruUndisturbed DEF PromoteStart, lruVars, outVars
  <1>12. ASSUME NEW e \in Entries, PromoteEntry(e)
         PROVE  LruInv' /\ FetchInv'
    BY <1>12, LruUndisturbed DEF PromoteEntry, lruVars, outVars
  <1>13. CASE PromoteEnd
    BY <1>13, LruUndisturbed DEF PromoteEnd, lruVars, outVars
  <1>14. CASE UNCHANGED vars
    BY <1>14, LruUndisturbed DEF vars, lruVars, outVars
  <1> QED
    BY <1>1, <1>2, <1>3, <1>4, <1>5, <1>6, <1>7, <1>8, <1>9, <1>11, <1>12,
       <1>13, <1>14 DEF Next

-----------------------------------------------------------------------------
\* When lru_admit is done, all entries are placed.
LEMMA AllPlaced ==
  ASSUME LruInv, pc \in {"wait", "gemv"}
  PROVE  Placed = Entries
  BY DEF LruInv, Placed

\* An entry that is fetched is fetched into the slot its key is mapped to.
LEMMA FetchedWhereMapped ==
  ASSUME TypeOK, LruInv, FetchInv, pc = "wait", NEW e \in Entries, src[e] # None
  PROVE  /\ src[e] \in Keys /\ dst[e] \in Slots /\ map[src[e]] = dst[e]
         /\ src[e] = Key(e)
         /\ \A k \in Keys : map[k] = dst[e] => k = src[e]
  <1>1. e \in Placed
    BY AllPlaced
  <1>2. src[e] = Key(e) /\ dst[e] = base[e] /\ map[Key(e)] = base[e] /\ base[e] \in Slots
    BY <1>1 DEF FetchInv, LruInv
  <1>3. Key(e) \in Keys
    BY KeysOfEntries
  <1>4. base[e] # None
    BY <1>2, GpuAssumption
  <1> QED BY <1>2, <1>3, <1>4, MappedOnce DEF LruInv

\* A pass that was cut short leaves its mark for good.
LEMMA CutShortStays ==
  ASSUME [Next]_vars, cutShort
  PROVE  cutShort'
  BY DEF Next, Router, Touch, Touched, AdmitDuplicate, AdmitMiss, AdmitSkip, Admitted,
         GemvStart, GemvEnd, FailPass, PromoteStart, PromoteEntry, PromoteEnd, vars

\* DataInv is inductive: what is mapped is there or its copy is still to come.
LEMMA DataStep ==
  ASSUME TypeOK, StreamsInOrder, ClockInv, LruInv, FetchInv, DataInv, [Next]_vars
  PROVE  DataInv'
  <1> USE DEF DataInv
  <1>c. SUFFICES ASSUME ~cutShort'
                 PROVE  DataInv'
    OBVIOUS
  <1>a. /\ copyOn \in BOOLEAN /\ promotes \in Nat /\ promoting \subseteq Entries
        /\ ~cutShort
    BY <1>c, CutShortStays DEF TypeOK
  <1>1. CASE Router
    BY <1>a, <1>1 DEF Router, lruVars, outVars, copyVars, StreamsInOrder, ToCome
  <1>2. CASE Touch
    <2>1. pc = "touch" /\ pc' = "touch" /\ UNCHANGED <<map, promotes, copyVars>>
      BY <1>2 DEF Touch
    <2> QED BY <1>a, <2>1 DEF copyVars, StreamsInOrder, ToCome
  <1>3. CASE Touched
    <2>1. pc = "touch" /\ pc' = "admit" /\ UNCHANGED <<map, promotes, copyVars>>
      BY <1>3 DEF Touched, lruVars
    <2> QED BY <1>a, <2>1 DEF copyVars, StreamsInOrder, ToCome
  <1>4. CASE AdmitDuplicate
    <2>1. /\ pc = "admit" /\ pc' = "admit" /\ Placed \subseteq Entries
          /\ t \notin Placed /\ Placed' = Placed \cup {t}
      BY <1>4, AdmitPlaces
    <2>2. UNCHANGED <<map, promotes, copyVars>> /\ src' = [src EXCEPT ![t] = None]
      BY <1>4 DEF AdmitDuplicate, lruVars
    <2>3. ~copyOn /\ ~copyOn' /\ UNCHANGED <<slotData, promoting>>
      BY <1>a, <2>1, <2>2 DEF StreamsInOrder, copyVars
    <2>4. \A e \in Placed : src'[e] = src[e]
      BY <2>1, <2>2 DEF TypeOK
    <2>5. \A e \in ToCome : e \in ToCome' /\ src'[e] = src[e]
      BY <2>1, <2>3, <2>4 DEF ToCome
    <2> QED BY <1>a, <2>2, <2>3, <2>5
  <1>5. CASE AdmitMiss
    <2> DEFINE k == Key(t)
    <2>1. /\ pc = "admit" /\ pc' = "admit" /\ Placed \subseteq Entries
          /\ t \in Entries /\ t \notin Placed /\ Placed' = Placed \cup {t}
      BY <1>5, AdmitPlaces
    <2>2. UNCHANGED <<promotes, copyVars>> /\ src' = [src EXCEPT ![t] = k]
      BY <1>5 DEF AdmitMiss
    <2>3. ~copyOn /\ ~copyOn' /\ UNCHANGED <<slotData, promoting>>
      BY <1>a, <2>1, <2>2 DEF StreamsInOrder, copyVars
    <2>4. src'[t] = k /\ \A e \in Placed : src'[e] = src[e]
      BY <2>1, <2>2 DEF TypeOK
    <2>5. k \in Keys /\ k # None
      BY <2>1, KeysOfEntries, GpuAssumption
    <2>6. t \in ToCome' /\ \A e \in ToCome : e \in ToCome' /\ src'[e] = src[e]
      BY <2>1, <2>3, <2>4, <2>5 DEF ToCome
    <2>7. \A j \in Keys : j = k \/ map'[j] = None \/ map'[j] = map[j]
      BY <1>5 DEF AdmitMiss, Remapped
    <2> QED BY <1>a, <2>2, <2>3, <2>4, <2>6, <2>7
  <1>6. CASE AdmitSkip
    <2>1. pc = "admit" /\ pc' = "admit"
          /\ UNCHANGED <<map, needs, src, promotes, copyVars>>
      BY <1>6 DEF AdmitSkip, lruVars, outVars
    <2>2. ToCome' = ToCome
      BY <2>1 DEF ToCome, Placed, copyVars
    <2> QED BY <1>a, <2>1, <2>2 DEF copyVars
  <1>7. CASE Admitted
    <2>1. pc = "admit" /\ pc' = "wait" /\ promotes' > 0
          /\ UNCHANGED <<map, needs, src, copyVars>>
      BY <1>a, <1>7 DEF Admitted, lruVars, outVars
    <2>2. ToCome' = ToCome
      BY <2>1 DEF ToCome, Placed, copyVars
    <2> QED BY <1>a, <2>1, <2>2 DEF copyVars
  <1>8. CASE GemvStart
    BY <1>a, <1>8 DEF GemvStart, lruVars, outVars, copyVars, StreamsInOrder, ToCome
  <1>9. CASE GemvEnd
    BY <1>a, <1>9 DEF GemvEnd, lruVars, outVars, copyVars, StreamsInOrder, ToCome
  <1>10. CASE FailPass
    <2>1. promotes = 0 /\ promotes' = 0 /\ pc # "admit" /\ pc' # "admit"
          /\ UNCHANGED <<map, copyVars>>
      BY <1>a, <1>c, <1>10 DEF FailPass, lruVars, StreamsInOrder
    <2>2. ToCome = {} /\ ToCome' = {}
      BY <1>a, <2>1 DEF ToCome, StreamsInOrder, copyVars
    <2> QED BY <1>a, <2>1, <2>2 DEF copyVars
  <1>11. CASE PromoteStart
    <2>1. /\ promotes > 0 /\ ~copyOn /\ copyOn' /\ promoting' = Entries
          /\ UNCHANGED <<map, src, dst>>
          /\ slotData' = [s \in Slots |-> IF \E e \in Entries : src[e] # None /\ dst[e] = s
                                          THEN None ELSE slotData[s]]
      BY <1>11 DEF PromoteStart, lruVars, outVars
    <2>2. pc = "wait"
      BY <1>a, <2>1 DEF StreamsInOrder
    <2>3. ToCome' = ToCome /\ ToCome = {e \in Entries : src[e] # None}
      BY <2>1, <2>2, AllPlaced DEF ToCome
    <2>4. ASSUME NEW k \in Keys, map[k] # None
          PROVE  slotData'[map[k]] = k \/ \E e \in ToCome' : src[e] = k
      <3>1. map[k] \in Slots
        BY <2>4 DEF TypeOK
      <3>2. CASE \E e \in Entries : src[e] # None /\ dst[e] = map[k]
        BY <2>2, <2>3, <3>2, FetchedWhereMapped
      <3>3. CASE ~\E e \in Entries : src[e] # None /\ dst[e] = map[k]
        BY <1>a, <2>1, <2>3, <2>4, <3>1, <3>3
      <3> QED BY <3>2, <3>3
    <2> QED BY <2>1, <2>4
  <1>12. ASSUME NEW e \in Entries, PromoteEntry(e)
         PROVE  DataInv'
    <2>1. /\ copyOn /\ copyOn' /\ e \in promoting /\ promoting' = promoting \ {e}
          /\ slotData' = IF src[e] = None THEN slotData
                         ELSE [slotData EXCEPT ![dst[e]] = src[e]]
          /\ UNCHANGED <<map, src, dst>>
      BY <1>a, <1>12 DEF PromoteEntry, StreamsInOrder, lruVars, outVars
    <2>2. pc = "wait"
      BY <1>a, <2>1 DEF StreamsInOrder
    <2>3. ToCome = {d \in promoting : src[d] # None} /\ ToCome' = ToCome \ {e}
      BY <2>1 DEF ToCome
    <2>4. CASE src[e] = None
      BY <1>a, <2>1, <2>3, <2>4
    <2>5. CASE src[e] # None
      <3>1. /\ dst[e] \in Slots /\ map[src[e]] = dst[e]
            /\ \A k \in Keys : map[k] = dst[e] => k = src[e]
        BY <2>2, <2>5, FetchedWhereMapped
      <3>2. \A s \in Slots : slotData'[s] = IF s = dst[e] THEN src[e] ELSE slotData[s]
        BY <2>1, <2>5 DEF TypeOK
      <3>3. ASSUME NEW k \in Keys, map[k] # None
            PROVE  slotData'[map[k]] = k \/ \E d \in ToCome' : src[d] = k
        <4>1. map[k] \in Slots
          BY <3>3 DEF TypeOK
        <4>2. CASE k = src[e]
          BY <3>1, <3>2, <4>2
        <4>3. CASE k # src[e]
          BY <1>a, <2>3, <3>1, <3>2, <3>3, <4>1, <4>3
        <4> QED BY <4>2, <4>3
      <3> QED BY <2>1, <3>3
    <2> QED BY <2>4, <2>5
  <1>13. CASE PromoteEnd
    <2>1. copyOn /\ promoting = {} /\ ~copyOn' /\ promotes' = promotes - 1
          /\ UNCHANGED <<map, src, pc, promoting, slotData>>
      BY <1>13 DEF PromoteEnd, lruVars, outVars
    <2>2. ToCome = {}
      BY <2>1 DEF ToCome
    <2> QED BY <1>a, <2>1, <2>2
  <1>14. CASE UNCHANGED vars
    <2>1. UNCHANGED <<map, src, pc, needs, t, promotes, promoting, copyOn, slotData>>
      BY <1>14 DEF vars, lruVars, outVars, copyVars
    <2>2. ToCome' = ToCome
      BY <2>1 DEF ToCome, Placed
    <2> QED BY <1>a, <2>1, <2>2
  <1> QED
    BY <1>1, <1>2, <1>3, <1>4, <1>5, <1>6, <1>7, <1>8, <1>9, <1>10, <1>11, <1>12,
       <1>13, <1>14 DEF Next

-----------------------------------------------------------------------------
\* The inductive invariant holds at first.
LEMMA InvInit == Init => IInv
  <1> SUFFICES ASSUME Init
               PROVE  IInv
    OBVIOUS
  <1>1. TypeOK
    <2>1. 0 \in Stamps /\ 0 \in Layers /\ 0 \in 0..MaxLaunch /\ 1 \in 1..(Batch * TopK + 1)
      BY WidthPositive, EntryCount, GpuAssumption DEF Stamps, Layers, NEntries
    <2> QED BY <2>1 DEF Init, TypeOK
  <1>2. StreamsInOrder
    BY DEF Init, StreamsInOrder
  <1>3. ClockInv
    BY EntryCount DEF Init, ClockInv
  <1>4. Placed = {}
    BY DEF Init, Placed
  <1>5. LruInv /\ FetchInv
    BY <1>4, GpuAssumption DEF Init, LruInv, FetchInv, MapMatchesSlotKeys
  <1>6. DataInv
    BY DEF Init, DataInv
  <1> QED BY <1>1, <1>2, <1>3, <1>5, <1>6 DEF IInv

\* Every step of the section keeps the inductive invariant.
LEMMA InvStep ==
  ASSUME EntriesFit, ClockSuffices, IInv, [Next]_vars
  PROVE  IInv'
  <1>1. TypeOK'
    BY TypeStep DEF IInv
  <1>2. StreamsInOrder'
    BY StreamsStep DEF IInv
  <1>3. ClockInv'
    BY <1>1, ClockStep DEF IInv
  <1>4. LruInv' /\ FetchInv'
    BY LruStep DEF IInv
  <1>5. DataInv'
    BY DataStep DEF IInv
  <1> QED BY <1>1, <1>2, <1>3, <1>4, <1>5 DEF IInv

\* The inductive invariant holds in every run, however long, as long as the
\* slots suffice for one layer of the batch and the clock has not gone around.
THEOREM Invariance ==
  ASSUME EntriesFit, ClockSuffices
  PROVE  Spec => []IInv
  <1>1. IInv /\ [Next]_vars => IInv'
    BY InvStep
  <1> QED BY <1>1, InvInit, PTL DEF Spec

\* Every variable keeps to its type.
THEOREM GpuTypeCorrect ==
  ASSUME EntriesFit, ClockSuffices
  PROVE  Spec => []TypeOK
  <1>1. IInv => TypeOK
    BY DEF IInv
  <1> QED BY <1>1, Invariance, PTL

\* No expert that a step touched or admitted is evicted by a later miss of the
\* same step: when lru_admit is done every entry reads the slot of its expert.
THEOREM StepKeeps ==
  ASSUME EntriesFit, ClockSuffices
  PROVE  Spec => []StepKeepsItsSlots
  <1>1. IInv => StepKeepsItsSlots
    BY AllPlaced DEF IInv, LruInv, StepKeepsItsSlots
  <1> QED BY <1>1, Invariance, PTL

\* promote_experts never fetches an expert twice, and no two of its copies, which
\* run at the same time, write to the same slot.
THEOREM PromotesDisjoint ==
  ASSUME EntriesFit, ClockSuffices
  PROVE  Spec => []PromotesAreDisjoint
  <1>1. ASSUME IInv, pc = "wait", NEW d \in Entries, NEW e \in Entries,
               d # e, src[d] # None, src[e] # None
        PROVE  src[d] # src[e] /\ dst[d] # dst[e]
    <2>1. src[d] # src[e]
      BY <1>1, AllPlaced DEF IInv, FetchInv
    <2>2. map[src[d]] = dst[d] /\ src[d] \in Keys
      BY <1>1, FetchedWhereMapped DEF IInv
    <2>3. \A k \in Keys : map[k] = dst[e] => k = src[e]
      BY <1>1, FetchedWhereMapped DEF IInv
    <2> QED BY <2>1, <2>2, <2>3
  <1>2. IInv => PromotesAreDisjoint
    BY <1>1 DEF PromotesAreDisjoint
  <1> QED BY <1>2, Invariance, PTL

\* Unless a pass failed after lru_admit with its promote not launched or on its way,
\* a mapped expert is in its slot in full, or its copy there is still to be made.
THEOREM DeviceMapped ==
  ASSUME EntriesFit, ClockSuffices
  PROVE  Spec => []DeviceMappedIsFilled
  <1>1. ASSUME IInv, ~cutShort, NEW k \in Keys, NEW e \in ToCome, src[e] = k
        PROVE  pc \in {"admit", "wait"} /\ e \in Entries /\ Key(e) = k /\ base[e] = map[k]
    <2>1. pc \in {"admit", "wait"} /\ e \in Placed
      BY <1>1, AllPlaced DEF IInv, ToCome, StreamsInOrder, TypeOK
    <2>2. src[e] # None
      BY <1>1, GpuAssumption
    <2>3. e \in Entries
      BY <2>1 DEF Placed
    <2> QED BY <1>1, <2>1, <2>2, <2>3 DEF IInv, FetchInv, LruInv
  <1>2. IInv => DeviceMappedIsFilled
    BY <1>1 DEF IInv, DataInv, DeviceMappedIsFilled
  <1> QED BY <1>2, Invariance, PTL

\* Unless a pass failed after lru_admit with its promote not launched or on its way,
\* every slot that the expert GEMVs read holds the expert of the entry, in full:
\* passes that fail elsewhere leave the two streams in order.
THEOREM DeviceGemvReads ==
  ASSUME EntriesFit, ClockSuffices
  PROVE  Spec => []DeviceGemvReadsItsExpert
  <1>1. ASSUME IInv, pc = "gemv", ~cutShort, NEW e \in Entries
        PROVE  slotData[base[e]] = Key(e)
    <2>1. ToCome = {}
      BY <1>1 DEF IInv, ToCome, StreamsInOrder
    <2>2. Key(e) \in Keys
      BY <1>1, KeysOfEntries DEF IInv
    <2>3. map[Key(e)] = base[e] /\ base[e] # None
      BY <1>1, AllPlaced, GpuAssumption DEF IInv, LruInv
    <2> QED BY <1>1, <2>1, <2>2, <2>3 DEF IInv, DataInv
  <1>2. IInv => DeviceGemvReadsItsExpert
    BY <1>1 DEF DeviceGemvReadsItsExpert
  <1> QED BY <1>2, Invariance, PTL

=============================================================================
