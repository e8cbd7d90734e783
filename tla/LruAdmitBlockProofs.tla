------------------------- MODULE LruAdmitBlockProofs -------------------------
(***************************************************************************)
(* Proofs about the block of lru_admit, for two or four warps of any size, *)
(* any number of slots and launches, and any entries that fit the slots:   *)
(* every entry keeps its slot as long as the warps stay in step, and they  *)
(* stay in step if no expert is routed to twice in a launch.               *)
(*                                                                         *)
(* The invariant says where the warps of a block in step can be: they work *)
(* on one entry t, in one of five phases, and those that are late have     *)
(* nothing to do before t.  What a warp has found so far in the reduction  *)
(* is the oldest of a class of slots that doubles from step to step.       *)
(***************************************************************************)
EXTENDS LruAdmitBlockLru, FiniteSetTheorems, SequenceTheorems, WellFoundedInduction, TLAPS

Pcs == {"check", "look", "atScanned", "reduce", "atReduced", "admit", "atEnd", "left"}

BlockTypeOK ==
  /\ blockMap \in [BlockExperts -> SlotIds \cup {-1}]
  /\ slotExpert \in [SlotIds -> BlockExperts \cup {-1}]
  /\ slotStamp \in [SlotIds -> Nat] /\ stampClock \in Nat
  /\ entryIds \in Seq(BlockExperts) /\ Cardinality(ToSet(entryIds)) <= BlockSlots
  /\ mark \in [DOMAIN entryIds -> {"hit", "miss", "fetch"}]
  /\ entryBase \in [DOMAIN entryIds -> SlotIds \cup {-1}]
  /\ red \in [Warps -> [slot : SlotIds, stamp : Nat]]
  /\ warpPc \in [Warps -> Pcs]
  /\ warpT \in [Warps -> Nat \ {0}] /\ warpStep \in [Warps -> 0..((NWarps * Lanes) \div 2)]
  /\ overtook \in BOOLEAN

\* The map and the slot table are inverse to each other, and no stamp is ahead of the clock.
TableInv ==
  /\ \A e \in BlockExperts : blockMap[e] >= 0 => slotExpert[blockMap[e]] = e
  /\ \A s \in SlotIds : slotExpert[s] >= 0 => blockMap[slotExpert[s]] = s
  /\ \A s \in SlotIds : slotStamp[s] <= stampClock

Missing(t) == blockMap[entryIds[t]] < 0

\* Where a warp is, in step or not.
PlaceInv ==
  /\ \A w \in Warps : warpPc[w] = "left" => warpT[w] > Len(entryIds)
  /\ \A w \in Warps : warpPc[w] \notin {"check", "left"} => warpT[w] <= Len(entryIds)
  /\ warpPc[0] \in {"atScanned", "reduce", "atReduced", "admit"} => Missing(warpT[0])

(***************************************************************************)
(* The phases of the work on entry t.                                      *)
(***************************************************************************)

Late(w, t) == warpPc[w] = "check" /\ warpT[w] <= t

\* What warp w has found is a slot with its stamp,
Traces(w) == red[w].stamp = slotStamp[red[w].slot]
\* which is no younger than any slot of the warps that are w modulo m.
Found(w, m) == \A s \in SlotIds : s % m = w => red[w].stamp <= slotStamp[s]

\* Before the step of the reduction with s2 = q, the findings of this many warps count.
Strides == {2 * Lanes, Lanes} \cup 1..(Lanes - 1)
Reach(q) == IF q = 2 * Lanes THEN 4 ELSE IF q = Lanes THEN 2 ELSE 1

\* No warp has come to an entry to admit.
Walking(t) == \A w \in Warps : warpPc[w] \in {"check", "left"} /\ warpT[w] <= t

\* Entry t repeats an expert that this launch has admitted.
Repeated(t) == \E u \in DOMAIN entryIds : u # t /\ entryIds[u] = entryIds[t]
Answering(t) ==
  /\ t <= Len(entryIds) /\ ~Missing(t) /\ Repeated(t)
  /\ \A w \in Warps : Late(w, t) \/ (warpT[w] = t /\ warpPc[w] \in {"look", "atEnd"})
  /\ mark[t] = "miss" <=> warpPc[0] # "atEnd"

Scanned(w) == Traces(w) /\ Found(w, NWarps) /\ warpStep[w] = (NWarps * Lanes) \div 2
Scanning(t) ==
  /\ t <= Len(entryIds) /\ Missing(t) /\ mark[t] = "miss"
  /\ \A w \in Warps : \/ Late(w, t)
                      \/ warpT[w] = t /\ warpPc[w] = "look"
                      \/ warpT[w] = t /\ warpPc[w] = "atScanned" /\ Scanned(w)

Reducing(t, q) ==
  /\ t <= Len(entryIds) /\ Missing(t) /\ mark[t] = "miss" /\ Reach(q) <= NWarps
  /\ \A w \in Warps :
       /\ warpT[w] = t /\ Traces(w)
       /\ w < Reach(q) => Found(w, Reach(q))
       /\ \/ warpPc[w] = "reduce" /\ warpStep[w] = q
          \/ /\ warpPc[w] = "atReduced" /\ warpStep[w] = q \div 2
             /\ w < Reach(q \div 2) => Found(w, Reach(q \div 2))

Admitting(t) ==
  /\ t <= Len(entryIds)
  /\ \A w \in Warps : warpT[w] = t /\ warpPc[w] \in {"admit", "atEnd"}
  /\ mark[t] = "miss" <=> warpPc[0] # "atEnd"
  /\ warpPc[0] = "admit" => Missing(t) /\ Traces(0) /\ Found(0, 1)

InStep(t) ==
  /\ \A u \in 1..(t - 1) : u \in DOMAIN entryIds /\ mark[u] # "miss"
  /\ \/ Walking(t) \/ Answering(t) \/ Scanning(t) \/ Admitting(t)
     \/ \E q \in Strides : Reducing(t, q)

Places == 1..(Len(entryIds) + 1)

(***************************************************************************)
(* The slots that hold an expert of this launch are younger than all the   *)
(* others, so that none of them is a victim while another is left.         *)
(***************************************************************************)
Kept == {s \in SlotIds : slotExpert[s] \in ToSet(entryIds)}
Younger == \A s \in Kept, r \in SlotIds \ Kept : slotStamp[r] < slotStamp[s]

\* Every entry that is done has its slot.
Placed ==
  \A u \in DOMAIN entryIds :
    mark[u] # "miss" => entryBase[u] >= 0 /\ blockMap[entryIds[u]] = entryBase[u]

\* An entry that is not, and whose expert has a slot, repeats it.
Repeats == \A u \in DOMAIN entryIds : mark[u] = "miss" /\ ~Missing(u) => Repeated(u)

StepInv == Younger /\ Placed /\ Repeats /\ \E t \in Places : InStep(t)

BlockInv == BlockTypeOK /\ TableInv /\ PlaceInv /\ (~overtook => StepInv)

-----------------------------------------------------------------------------
\* The parameters

\* Numbers of warps and slots.
LEMMA WarpsAre ==
  /\ NWarps \in {2, 4} /\ Warps = 0..(NWarps - 1) /\ 0 \in Warps /\ Warps \subseteq Nat
  /\ BlockSlots \in Nat /\ BlockSlots >= NWarps /\ SlotIds \subseteq Nat
  BY BlockConstants DEF Warps, SlotIds

\* Experts are numbers,
LEMMA ExpertsAre == \A e \in BlockExperts : e \in Nat
  BY BlockConstants

\* and so is what an expert is mapped to,
LEMMA SlotOrNone == \A s \in SlotIds \cup {-1} : s \in Int
  BY WarpsAre

\* negative only if there is no slot.
LEMMA NoSlot ==
  ASSUME NEW s \in SlotIds \cup {-1}, s < 0
  PROVE  s = -1
  BY WarpsAre

\* A warp has several lanes.
LEMMA LanesAre == Lanes \in Nat /\ Lanes > 1
  BY BlockConstants

\* The first step of the reduction reaches all warps.
LEMMA FirstStride ==
  /\ (NWarps * Lanes) \div 2 \in Strides /\ (NWarps * Lanes) \div 2 > 0
  /\ Reach((NWarps * Lanes) \div 2) = NWarps
  <1>1. CASE NWarps = 2
    <2>1. (NWarps * Lanes) \div 2 = Lanes
      BY <1>1, LanesAre
    <2> QED BY <1>1, <2>1, LanesAre DEF Strides, Reach
  <1>2. CASE NWarps = 4
    <2>1. (NWarps * Lanes) \div 2 = 2 * Lanes
      BY <1>2, LanesAre
    <2> QED BY <1>2, <2>1, LanesAre DEF Strides, Reach
  <1> QED BY <1>1, <1>2, WarpsAre

\* A step halves what the next one reaches; when there is none left, it is one warp.
LEMMA NextStride ==
  ASSUME NEW q \in Strides
  PROVE  /\ q \in Nat /\ q \div 2 \in Nat
         /\ q \div 2 > 0 => q \div 2 \in Strides
         /\ q \div 2 = 0 => Reach(q) = 1
         /\ Reach(q) \in {1, 2, 4} /\ Reach(q \div 2) \in {1, 2}
         /\ Reach(q) > 1 => Reach(q) = 2 * Reach(q \div 2) /\ q \div Lanes = Reach(q \div 2)
         /\ Reach(q) = 1 => q \div Lanes = 0 /\ Reach(q \div 2) = 1
  <1>1. CASE q = 2 * Lanes
    <2>1. q \div 2 = Lanes /\ q \div Lanes = 2
      <3>1. q \div Lanes = 2
        BY BlockConstants, <1>1
      <3> QED BY <1>1, <3>1, LanesAre
    <2> QED BY <1>1, <2>1, LanesAre DEF Strides, Reach
  <1>2. CASE q = Lanes
    <2>1. q \div 2 \in 0..(Lanes - 1) /\ q \div Lanes = 1
      BY BlockConstants, <1>2
    <2> QED BY <1>2, <2>1, LanesAre DEF Strides, Reach
  <1>3. CASE q \in 1..(Lanes - 1)
    <2>1. q \div 2 \in 0..(Lanes - 1)
      BY <1>3, LanesAre
    <2>2. q \div Lanes = 0
      BY <1>3, BlockConstants
    <2>3. q # Lanes /\ q # 2 * Lanes /\ q \div 2 # Lanes /\ q \div 2 # 2 * Lanes
      BY <1>3, <2>1, LanesAre
    <2>4. Reach(q) = 1 /\ Reach(q \div 2) = 1
      BY <2>3 DEF Reach
    <2>5. q \in Nat /\ (q \div 2 > 0 => q \div 2 \in 1..(Lanes - 1)) /\ q \div 2 \in Nat
      BY <1>3, <2>1, LanesAre
    <2> HIDE DEF Strides
    <2>6. q \div 2 > 0 => q \div 2 \in Strides
      BY <2>5 DEF Strides
    <2> QED BY <2>2, <2>4, <2>5, <2>6
  <1> QED BY <1>1, <1>2, <1>3 DEF Strides

\* The other warp of a step is one of the block.
LEMMA PartnerIs ==
  ASSUME NEW w \in Warps, NEW q \in 0..((NWarps * Lanes) \div 2)
  PROVE  /\ q \div Lanes \in Nat /\ q \div 2 \in 0..((NWarps * Lanes) \div 2)
         /\ w < q \div Lanes => w + (q \div Lanes) \in Warps
  <1>1. q \in 0..((NWarps \div 2) * Lanes) /\ (NWarps * Lanes) \div 2 = (NWarps \div 2) * Lanes
    <2>1. CASE NWarps = 2
      BY <2>1, LanesAre
    <2>2. CASE NWarps = 4
      BY <2>2, LanesAre
    <2> QED BY <2>1, <2>2, WarpsAre
  <1>2. q \div Lanes \in 0..(NWarps \div 2)
    BY <1>1, BlockConstants
  <1>3. q \div 2 \in 0..((NWarps \div 2) * Lanes)
    <2>1. (NWarps \div 2) * Lanes \in Nat
      BY BlockConstants
    <2> QED BY <1>1, <2>1
  <1> QED BY <1>1, <1>2, <1>3, WarpsAre

\* Every set of numbers has a least one.
LEMMA LeastNumber ==
  ASSUME NEW T, T \subseteq Nat, T # {}
  PROVE  \E x \in T : \A y \in T : x <= y
  <1> DEFINE Upto(n) == 0..n
             U == {Upto(n) : n \in T}
             R == StrictSubsetOrdering(Nat)
  <1>1. ASSUME NEW n \in T
        PROVE  Upto(n) \in SUBSET Nat /\ IsFiniteSet(Upto(n))
    BY FS_Interval
  <1>2. U \subseteq FiniteSubsetsOf(Nat) /\ U # {}
    BY <1>1 DEF FiniteSubsetsOf
  <1>3. PICK u \in U : \A v \in U : <<v, u>> \notin R
    <2> HIDE DEF U, R
    <2>1. IsWellFoundedOn(R, FiniteSubsetsOf(Nat))
      BY Zenon, FS_StrictSubsetOrderingWellFounded DEF R
    <2> QED BY Zenon, <1>2, <2>1, WFMin
  <1>4. PICK x \in T : u = Upto(x)
    OBVIOUS
  <1>5. ASSUME NEW y \in T, y < x
        PROVE  FALSE
    <2>1. Upto(y) \subseteq Upto(x) /\ x \in Upto(x) /\ x \notin Upto(y)
      BY <1>5
    <2>2. Upto(y) \in SUBSET Nat /\ Upto(x) \in SUBSET Nat
      BY <1>1
    <2> HIDE DEF Upto
    <2>3. Upto(y) # Upto(x)
      BY <2>1
    <2>4. <<Upto(y), Upto(x)>> \in R
      BY <2>1, <2>2, <2>3 DEF StrictSubsetOrdering
    <2>5. Upto(y) \in U
      OBVIOUS
    <2> HIDE DEF R, U
    <2> QED BY Zenon, <1>3, <1>4, <2>4, <2>5
  <1>6. \A y \in T : x <= y
    BY <1>5
  <1> QED BY <1>6

\* Every set of numbers that has a bound has a greatest one.
LEMMA GreatestNumber ==
  ASSUME NEW n \in Nat, NEW T, T \subseteq 0..n, T # {}
  PROVE  \E x \in T : \A y \in T : y <= x
  <1> DEFINE U == {n - x : x \in T}
  <1>1. U \subseteq Nat /\ U # {}
    <2>1. \A x \in T : n - x \in Nat
      BY SMT
    <2>2. PICK x : x \in T
      BY Zenon
    <2>3. n - x \in U
      BY <2>2
    <2> QED BY Zenon, <2>1, <2>3
  <1>2. PICK u \in U : \A v \in U : u <= v
    <2> HIDE DEF U
    <2> QED BY Zenon, <1>1, LeastNumber
  <1>3. PICK x \in T : u = n - x
    OBVIOUS
  <1>4. ASSUME NEW y \in T
        PROVE  y <= x
    <2>1. n - x <= n - y
      BY <1>2, <1>3
    <2>2. x \in Int /\ y \in Int
      OBVIOUS
    <2> QED BY <2>1, <2>2
  <1> QED BY <1>4

\* Max finds the greatest of some places.
LEMMA MaxIs ==
  ASSUME NEW n \in Nat, NEW T, T \subseteq 1..n, T # {}
  PROVE  Max(T) \in T /\ \A x \in T : x <= Max(T)
  <1>1. T \subseteq 0..n
    OBVIOUS
  <1>2. \E x \in T : \A y \in T : y <= x
    BY Zenon, <1>1, GreatestNumber
  <1>3. \E x \in T : \A y \in T : x >= y
    BY <1>1, <1>2
  <1>4. Max(T) \in T /\ \A y \in T : Max(T) >= y
    BY Zenon, <1>3 DEF Max
  <1> QED BY <1>1, <1>4

\* The scan of a warp finds the oldest of its slots.
LEMMA OldestIs ==
  ASSUME BlockTypeOK, NEW T \in SUBSET SlotIds, T # {}
  PROVE  Oldest(T) \in T /\ \A r \in T : slotStamp[Oldest(T)] <= slotStamp[r]
  <1> DEFINE Stamps == {slotStamp[s] : s \in T}
  <1>1. \A s \in T : slotStamp[s] \in Nat /\ s \in Nat
    BY WarpsAre DEF BlockTypeOK
  <1>2. PICK least \in Stamps : \A x \in Stamps : least <= x
    <2>1. Stamps \subseteq Nat /\ Stamps # {}
      BY <1>1
    <2> HIDE DEF Stamps
    <2> QED BY Zenon, <2>1, LeastNumber
  <1> DEFINE Those == {s \in T : slotStamp[s] = least}
  <1>3. PICK first \in Those : \A r \in Those : first <= r
    <2>1. Those \subseteq Nat /\ Those # {}
      BY <1>1
    <2> HIDE DEF Those
    <2> QED BY Zenon, <2>1, LeastNumber
  <1> DEFINE P(s) == \A r \in T : slotStamp[s] < slotStamp[r] \/ (slotStamp[s] = slotStamp[r] /\ s <= r)
  <1>4. P(first)
    <2> SUFFICES ASSUME NEW r \in T
                 PROVE  slotStamp[first] < slotStamp[r] \/ (slotStamp[first] = slotStamp[r] /\ first <= r)
      OBVIOUS
    <2>1. least <= slotStamp[r] /\ slotStamp[first] = least
      BY <1>2
    <2>2. slotStamp[r] \in Nat /\ least \in Nat
      BY <1>1
    <2>3. CASE slotStamp[r] = least
      BY <1>3, <2>1, <2>3
    <2> QED BY <2>1, <2>2, <2>3
  <1>5. Oldest(T) \in T /\ P(Oldest(T))
    <2>1. first \in T
      OBVIOUS
    <2> QED BY Zenon, <1>4, <2>1 DEF Oldest
  <1> QED BY <1>1, <1>5

\* Entries and what they refer to.
LEMMA PlacesAre ==
  ASSUME BlockTypeOK
  PROVE  /\ Len(entryIds) \in Nat /\ DOMAIN entryIds = 1..Len(entryIds)
         /\ \A t \in DOMAIN entryIds : entryIds[t] \in BlockExperts /\ blockMap[entryIds[t]] \in SlotIds \cup {-1}
         /\ Places \subseteq Nat
  <1>1. Len(entryIds) \in Nat /\ DOMAIN entryIds = 1..Len(entryIds)
    BY LenProperties DEF BlockTypeOK
  <1>2. \A t \in DOMAIN entryIds : entryIds[t] \in BlockExperts
    BY <1>1, ElementOfSeq DEF BlockTypeOK
  <1> QED BY <1>1, <1>2 DEF BlockTypeOK, Places

-----------------------------------------------------------------------------
\* The launch

\* A slot that the first pass touches gets a stamp that is ahead of the old clock.
LEMMA LaunchStamps ==
  ASSUME BlockTypeOK, NEW list \in Seq(BlockExperts), NEW s \in SlotIds,
         NEW T, T = {t \in DOMAIN list : blockMap[list[t]] = s}, T # {}
  PROVE  /\ Cardinality(HitsUpTo(list, Max(T))) \in Nat \ {0}
         /\ Cardinality(HitsUpTo(list, Len(list))) \in Nat
         /\ Cardinality(HitsUpTo(list, Max(T))) <= Cardinality(HitsUpTo(list, Len(list)))
  <1> DEFINE n == Len(list)
             m == Max(T)
             M == HitsUpTo(list, m)
             N == HitsUpTo(list, n)
  <1>1. n \in Nat /\ DOMAIN list = 1..n
    BY LenProperties
  <1>2. m \in T
    BY <1>1, MaxIs
  <1>3. m \in 1..n /\ blockMap[list[m]] = s /\ s >= 0
    BY <1>1, <1>2, WarpsAre
  <1>4. IsFiniteSet(1..n)
    BY <1>1, FS_Interval
  <1> HIDE DEF n, m
  <1>5. N \subseteq 1..n /\ M \subseteq N /\ m \in M
    BY <1>1, <1>3 DEF HitsUpTo
  <1> HIDE DEF M, N
  <1>6. IsFiniteSet(N)
    BY <1>4, <1>5, FS_Subset
  <1>7. IsFiniteSet(M) /\ Cardinality(M) <= Cardinality(N)
    BY <1>5, <1>6, FS_Subset
  <1>8. Cardinality(M) \in Nat /\ Cardinality(N) \in Nat
    BY <1>6, <1>7, FS_CardinalityType
  <1>9. Cardinality(M) # 0
    BY <1>5, <1>7, FS_EmptySet
  <1> QED BY <1>7, <1>8, <1>9 DEF M, N, m, n

\* The hits can be counted.
LEMMA LaunchClock ==
  ASSUME BlockTypeOK, NEW list \in Seq(BlockExperts)
  PROVE  Cardinality(HitsUpTo(list, Len(list))) \in Nat
  <1>1. Len(list) \in Nat
    BY LenProperties
  <1>2. HitsUpTo(list, Len(list)) \subseteq 1..Len(list)
    BY DEF HitsUpTo
  <1>3. IsFiniteSet(1..Len(list))
    BY <1>1, FS_Interval
  <1> QED BY <1>2, <1>3, FS_Subset, FS_CardinalityType

\* After a launch a slot has a new stamp if it holds an expert of the launch, and
\* its old one otherwise.
LEMMA LaunchTable ==
  ASSUME BlockTypeOK, LaunchAdmit
  PROVE  /\ entryIds' \in EntryLists /\ entryIds' \in Seq(BlockExperts)
         /\ Cardinality(ToSet(entryIds')) <= BlockSlots
         /\ mark' = [t \in DOMAIN entryIds' |-> IF blockMap[entryIds'[t]] >= 0 THEN "hit" ELSE "miss"]
         /\ entryBase' = [t \in DOMAIN entryIds' |-> blockMap[entryIds'[t]]]
         /\ slotStamp' \in [SlotIds -> Nat] /\ stampClock' \in Nat /\ stampClock <= stampClock'
         /\ \A s \in SlotIds :
              IF \E t \in DOMAIN entryIds' : blockMap[entryIds'[t]] = s
              THEN stampClock < slotStamp'[s] /\ slotStamp'[s] <= stampClock'
              ELSE slotStamp'[s] = slotStamp[s]
  <1> DEFINE T(list, s) == {t \in DOMAIN list : blockMap[list[t]] = s}
  <1>1. PICK list \in EntryLists :
          /\ entryIds' = list
          /\ mark' = [t \in DOMAIN list |-> IF blockMap[list[t]] >= 0 THEN "hit" ELSE "miss"]
          /\ entryBase' = [t \in DOMAIN list |-> blockMap[list[t]]]
          /\ slotStamp' = [s \in SlotIds |->
                             IF T(list, s) = {} THEN slotStamp[s]
                             ELSE stampClock + Cardinality(HitsUpTo(list, Max(T(list, s))))]
          /\ stampClock' = stampClock + Cardinality(HitsUpTo(list, Len(list)))
    BY Zenon DEF LaunchAdmit
  <1>2. list \in Seq(BlockExperts) /\ Cardinality(ToSet(list)) <= BlockSlots
    BY BlockConstants
  <1>3. stampClock' \in Nat /\ stampClock <= stampClock'
    BY <1>1, <1>2, LaunchClock DEF BlockTypeOK
  <1>4. ASSUME NEW s \in SlotIds
        PROVE  /\ slotStamp'[s] \in Nat
               /\ IF \E t \in DOMAIN list : blockMap[list[t]] = s
                  THEN stampClock < slotStamp'[s] /\ slotStamp'[s] <= stampClock'
                  ELSE slotStamp'[s] = slotStamp[s]
    <2>1. stampClock \in Nat /\ slotStamp[s] \in Nat
      BY DEF BlockTypeOK
    <2>2. T(list, s) = {} <=> ~ \E t \in DOMAIN list : blockMap[list[t]] = s
      OBVIOUS
    <2>3. slotStamp'[s] = IF T(list, s) = {} THEN slotStamp[s]
                          ELSE stampClock + Cardinality(HitsUpTo(list, Max(T(list, s))))
      <3> HIDE DEF T
      <3> QED BY <1>1
    <2>4. CASE T(list, s) = {}
      <3> HIDE DEF T
      <3> QED BY <2>1, <2>2, <2>3, <2>4
    <2>5. CASE T(list, s) # {}
      <3>1. /\ Cardinality(HitsUpTo(list, Max(T(list, s)))) \in Nat \ {0}
            /\ Cardinality(HitsUpTo(list, Len(list))) \in Nat
            /\ Cardinality(HitsUpTo(list, Max(T(list, s)))) <= Cardinality(HitsUpTo(list, Len(list)))
        BY Zenon, <1>2, <2>5, LaunchStamps
      <3> HIDE DEF T
      <3> QED BY <1>1, <2>1, <2>2, <2>3, <2>5, <3>1
    <2> QED BY <2>4, <2>5
  <1>5. slotStamp' \in [SlotIds -> Nat]
    <2>1. slotStamp' = [s \in SlotIds |-> slotStamp'[s]]
      <3> HIDE DEF T
      <3> QED BY <1>1
    <2> QED BY <1>4, <2>1
  <1> QED BY <1>1, <1>2, <1>3, <1>4, <1>5

-----------------------------------------------------------------------------
\* Types, the table, and where a warp is

\* A warp past the head of the loop works on an entry.
LEMMA WorksOnEntry ==
  ASSUME BlockTypeOK, PlaceInv, NEW w \in Warps, warpPc[w] \notin {"check", "left"}
  PROVE  warpT[w] \in DOMAIN entryIds /\ entryIds[warpT[w]] \in BlockExperts
  <1>1. warpT[w] \in Nat \ {0} /\ warpT[w] <= Len(entryIds)
    BY DEF PlaceInv, BlockTypeOK
  <1>2. warpT[w] \in DOMAIN entryIds
    BY <1>1, PlacesAre
  <1> QED BY <1>2, PlacesAre

\* Types.
LEMMA BlockTypeStep == BlockTypeOK /\ PlaceInv /\ [BlockNext]_blockVars => BlockTypeOK'
  <1> SUFFICES ASSUME BlockTypeOK, PlaceInv, [BlockNext]_blockVars
               PROVE  BlockTypeOK'
    OBVIOUS
  <1> USE DEF Pcs
  <1>1. CASE LaunchAdmit
    <2>1. \A t \in DOMAIN entryIds' : entryIds'[t] \in BlockExperts
      BY <1>1, LaunchTable, ElementOfSeq, LenProperties
    <2>2. /\ mark' \in [DOMAIN entryIds' -> {"hit", "miss", "fetch"}]
          /\ entryBase' \in [DOMAIN entryIds' -> SlotIds \cup {-1}]
      <3>1. \A t \in DOMAIN entryIds' : blockMap[entryIds'[t]] \in SlotIds \cup {-1}
        BY <2>1 DEF BlockTypeOK
      <3> QED BY <1>1, <3>1, LaunchTable
    <2>3. warpPc' \in [Warps -> Pcs] /\ warpT' \in [Warps -> Nat \ {0}] /\ overtook' \in BOOLEAN
      <3>1. /\ warpPc' = [w \in Warps |-> "check"] /\ warpT' = [w \in Warps |-> 1]
            /\ overtook' = FALSE
        BY Zenon, <1>1 DEF LaunchAdmit
      <3>2. warpPc' \in [Warps -> Pcs]
        BY <3>1
      <3>3. warpT' \in [Warps -> Nat \ {0}]
        BY <3>1
      <3>4. overtook' \in BOOLEAN
        BY <3>1
      <3> QED BY <3>2, <3>3, <3>4
    <2>4. UNCHANGED <<blockMap, slotExpert, red, warpStep>>
      BY <1>1 DEF LaunchAdmit
    <2> QED BY <1>1, <2>2, <2>3, <2>4, LaunchTable DEF BlockTypeOK
  <1>2. ASSUME NEW w \in Warps, CheckEntry(w)
        PROVE  BlockTypeOK'
    <2>1. UNCHANGED <<blockTable, entryIds, mark, entryBase, red, warpStep>>
      BY <1>2 DEF CheckEntry
    <2>2. /\ \/ warpPc' = warpPc \/ warpPc' = [warpPc EXCEPT ![w] = "left"]
             \/ warpPc' = [warpPc EXCEPT ![w] = "look"]
          /\ warpT' = warpT \/ warpT' = [warpT EXCEPT ![w] = warpT[w] + 1]
      BY <1>2 DEF CheckEntry, Goto
    <2>3. overtook' \in BOOLEAN
      BY <1>2 DEF CheckEntry, BlockTypeOK
    <2>4. warpPc' \in [Warps -> Pcs]
      BY <2>2 DEF BlockTypeOK
    <2>5. warpT' \in [Warps -> Nat \ {0}]
      BY <2>2 DEF BlockTypeOK
    <2> QED BY <2>1, <2>3, <2>4, <2>5 DEF BlockTypeOK, blockTable
  <1>3. ASSUME NEW w \in Warps, LookDuplicate(w)
        PROVE  BlockTypeOK'
    <2>1. warpT[w] \in DOMAIN entryIds
      BY <1>3, WorksOnEntry DEF LookDuplicate
    <2>2. blockMap[entryIds[warpT[w]]] \in SlotIds \cup {-1}
      BY <2>1, PlacesAre
    <2>3. UNCHANGED <<blockTable, entryIds, red, warpT, warpStep, overtook>>
      BY <1>3 DEF LookDuplicate
    <2>4. mark' \in [DOMAIN entryIds -> {"hit", "miss", "fetch"}]
      BY <1>3 DEF LookDuplicate, BlockTypeOK
    <2>5. entryBase' \in [DOMAIN entryIds -> SlotIds \cup {-1}]
      BY <1>3, <2>2 DEF LookDuplicate, BlockTypeOK
    <2>6. warpPc' \in [Warps -> Pcs]
      BY <1>3 DEF LookDuplicate, BlockTypeOK, Goto
    <2> QED BY <2>3, <2>4, <2>5, <2>6 DEF BlockTypeOK, blockTable
  <1>4. ASSUME NEW w \in Warps, ScanSlots(w)
        PROVE  BlockTypeOK'
    <2> DEFINE s == Oldest({r \in SlotIds : r % NWarps = w})
    <2>1. s \in SlotIds
      <3>1. w \in {r \in SlotIds : r % NWarps = w}
        BY WarpsAre DEF SlotIds
      <3> QED BY <3>1, OldestIs
    <2>2. red' = [red EXCEPT ![w] = [slot |-> s, stamp |-> slotStamp[s]]]
      BY <1>4 DEF ScanSlots
    <2> HIDE DEF s
    <2>3. red' \in [Warps -> [slot : SlotIds, stamp : Nat]]
      BY <2>1, <2>2 DEF BlockTypeOK
    <2>4. warpStep' \in [Warps -> 0..((NWarps * Lanes) \div 2)]
      <3>1. (NWarps * Lanes) \div 2 \in 0..((NWarps * Lanes) \div 2)
        BY FirstStride, NextStride
      <3> QED BY <1>4, <3>1 DEF ScanSlots, BlockTypeOK
    <2>5. warpPc' \in [Warps -> Pcs]
      BY <1>4 DEF ScanSlots, BlockTypeOK, Goto
    <2>6. UNCHANGED <<blockTable, entryIds, mark, entryBase, warpT, overtook>>
      BY <1>4 DEF ScanSlots
    <2> QED BY <2>3, <2>4, <2>5, <2>6 DEF BlockTypeOK, blockTable
  <1>5. ASSUME NEW w \in Warps, ReduceStep(w)
        PROVE  BlockTypeOK'
    <2>1. red' \in [Warps -> [slot : SlotIds, stamp : Nat]]
      <3> DEFINE v == w + (warpStep[w] \div Lanes)
      <3>1. warpStep[w] \in 0..((NWarps * Lanes) \div 2)
        BY DEF BlockTypeOK
      <3>2. w < warpStep[w] \div Lanes => v \in Warps
        BY <3>1, PartnerIs
      <3>3. red' = red \/ (v \in Warps /\ red' = [red EXCEPT ![w] = red[v]])
        BY <1>5, <3>2 DEF ReduceStep
      <3> HIDE DEF v
      <3> QED BY <3>3 DEF BlockTypeOK
    <2>2. warpStep' \in [Warps -> 0..((NWarps * Lanes) \div 2)]
      <3>1. warpStep[w] \div 2 \in 0..((NWarps * Lanes) \div 2)
        BY PartnerIs DEF BlockTypeOK
      <3> QED BY <1>5, <3>1 DEF ReduceStep, BlockTypeOK
    <2>3. warpPc' \in [Warps -> Pcs]
      BY <1>5 DEF ReduceStep, BlockTypeOK, Goto
    <2>4. UNCHANGED <<blockTable, entryIds, mark, entryBase, warpT, overtook>>
      BY <1>5 DEF ReduceStep
    <2> QED BY <2>1, <2>2, <2>3, <2>4 DEF BlockTypeOK, blockTable
  <1>6. ASSUME NEW w \in Warps, AdmitEntry(w)
        PROVE  BlockTypeOK'
    <2>1. warpT[w] \in DOMAIN entryIds /\ entryIds[warpT[w]] \in BlockExperts
      BY <1>6, WorksOnEntry DEF AdmitEntry
    <2>2. red[0].slot \in SlotIds
      BY WarpsAre DEF BlockTypeOK
    <2>3. warpPc' \in [Warps -> Pcs] /\ UNCHANGED <<entryIds, red, warpT, warpStep, overtook>>
      BY <1>6 DEF AdmitEntry, BlockTypeOK, Goto
    <2>4. /\ blockMap' \in [BlockExperts -> SlotIds \cup {-1}]
          /\ slotExpert' \in [SlotIds -> BlockExperts \cup {-1}]
          /\ slotStamp' \in [SlotIds -> Nat] /\ stampClock' \in Nat
          /\ mark' \in [DOMAIN entryIds -> {"hit", "miss", "fetch"}]
          /\ entryBase' \in [DOMAIN entryIds -> SlotIds \cup {-1}]
      <3>1. CASE w = 0
        <4> DEFINE t == warpT[0]
                   victim == red[0].slot
                   old == slotExpert[victim]
        <4>1. /\ blockMap' = [e \in BlockExperts |->
                                IF e = entryIds[t] THEN victim ELSE IF e = old THEN -1 ELSE blockMap[e]]
              /\ slotExpert' = [slotExpert EXCEPT ![victim] = entryIds[t]]
              /\ slotStamp' = [slotStamp EXCEPT ![victim] = stampClock + 1]
              /\ stampClock' = stampClock + 1
              /\ entryBase' = [entryBase EXCEPT ![t] = victim]
              /\ mark' = [mark EXCEPT ![t] = "fetch"]
          BY <1>6, <3>1 DEF AdmitEntry
        <4>2. victim \in SlotIds /\ t \in DOMAIN entryIds /\ entryIds[t] \in BlockExperts
          BY <2>1, <2>2, <3>1
        <4> HIDE DEF victim, old, t
        <4> QED BY <4>1, <4>2 DEF BlockTypeOK
      <3>2. CASE w # 0
        BY <1>6, <3>2 DEF AdmitEntry, BlockTypeOK, blockTable
      <3> QED BY <3>1, <3>2
    <2> QED BY <2>3, <2>4 DEF BlockTypeOK
  <1>7. CASE Barrier
    <2>1. warpPc' \in [Warps -> Pcs]
      <3>1. \A w \in Warps : warpPc'[w] \in Pcs
        BY <1>7 DEF Barrier, BlockTypeOK
      <3> QED BY <1>7, <3>1 DEF Barrier
    <2>2. warpT' \in [Warps -> Nat \ {0}]
      BY <1>7 DEF Barrier, BlockTypeOK
    <2>3. UNCHANGED <<blockTable, entryIds, mark, entryBase, red, warpStep, overtook>>
      BY <1>7 DEF Barrier
    <2> QED BY <2>1, <2>2, <2>3 DEF BlockTypeOK, blockTable
  <1>8. CASE UNCHANGED blockVars
    BY <1>8 DEF BlockTypeOK, blockVars, blockTable
  <1> QED BY <1>1, <1>2, <1>3, <1>4, <1>5, <1>6, <1>7, <1>8 DEF BlockNext

\* Only an admission and a launch change the table.
LEMMA TableUndisturbed ==
  ASSUME BlockTypeOK, TableInv, UNCHANGED blockTable
  PROVE  TableInv'
  BY DEF TableInv, blockTable

\* What an admission makes of the table.
LEMMA AdmitTable ==
  ASSUME BlockTypeOK, PlaceInv, AdmitEntry(0),
         NEW t, t = warpT[0], NEW s, s = red[0].slot, NEW k, k = entryIds[t]
  PROVE  /\ s \in SlotIds /\ t \in DOMAIN entryIds /\ k \in BlockExperts /\ blockMap[k] = -1
         /\ \A e \in BlockExperts :
              blockMap'[e] = IF e = k THEN s ELSE IF e = slotExpert[s] THEN -1 ELSE blockMap[e]
         /\ \A r \in SlotIds : slotExpert'[r] = IF r = s THEN k ELSE slotExpert[r]
         /\ \A r \in SlotIds : slotStamp'[r] = IF r = s THEN stampClock + 1 ELSE slotStamp[r]
         /\ stampClock' = stampClock + 1
         /\ \A u \in DOMAIN entryIds : /\ entryBase'[u] = IF u = t THEN s ELSE entryBase[u]
                                       /\ mark'[u] = IF u = t THEN "fetch" ELSE mark[u]
         /\ UNCHANGED <<entryIds, red, warpT, warpStep, overtook>>
  <1>1. 0 \in Warps
    BY WarpsAre
  <1>2. t \in DOMAIN entryIds /\ k \in BlockExperts
    BY <1>1, WorksOnEntry DEF AdmitEntry
  <1>3. s \in SlotIds
    BY <1>1 DEF BlockTypeOK
  <1>4. blockMap[k] = -1
    <2>1. blockMap[k] < 0
      BY DEF PlaceInv, AdmitEntry, Missing
    <2>2. blockMap[k] \in SlotIds \cup {-1}
      BY <1>2 DEF BlockTypeOK
    <2> QED BY Zenon, <2>1, <2>2, NoSlot
  <1>5. /\ blockMap' = [e \in BlockExperts |->
                          IF e = k THEN s ELSE IF e = slotExpert[s] THEN -1 ELSE blockMap[e]]
        /\ slotExpert' = [slotExpert EXCEPT ![s] = k]
        /\ slotStamp' = [slotStamp EXCEPT ![s] = stampClock + 1]
        /\ stampClock' = stampClock + 1
        /\ entryBase' = [entryBase EXCEPT ![t] = s]
        /\ mark' = [mark EXCEPT ![t] = "fetch"]
    BY DEF AdmitEntry
  <1>6. UNCHANGED <<entryIds, red, warpT, warpStep, overtook>>
    BY DEF AdmitEntry
  <1> QED BY <1>2, <1>3, <1>4, <1>5, <1>6 DEF BlockTypeOK

\* The other warps only pass by.
LEMMA AdmitOther ==
  ASSUME NEW w \in Warps, w # 0, AdmitEntry(w)
  PROVE  UNCHANGED <<blockTable, mark, entryBase, entryIds, red, warpT, warpStep, overtook>>
  BY DEF AdmitEntry

\* The table stays inverse to the map and behind the clock, in step or not.
LEMMA TableStep == BlockTypeOK /\ TableInv /\ PlaceInv /\ [BlockNext]_blockVars => TableInv'
  <1> SUFFICES ASSUME BlockTypeOK, TableInv, PlaceInv, [BlockNext]_blockVars
               PROVE  TableInv'
    OBVIOUS
  <1>1. CASE LaunchAdmit
    <2>1. UNCHANGED <<blockMap, slotExpert>>
      BY <1>1 DEF LaunchAdmit
    <2>2. \A s \in SlotIds : slotStamp'[s] <= stampClock'
      <3> SUFFICES ASSUME NEW s \in SlotIds
                   PROVE  slotStamp'[s] <= stampClock'
        OBVIOUS
      <3>1. \/ slotStamp'[s] <= stampClock'
            \/ slotStamp'[s] = slotStamp[s] /\ stampClock <= stampClock'
        BY <1>1, LaunchTable
      <3>2. slotStamp[s] <= stampClock /\ slotStamp[s] \in Nat /\ stampClock \in Nat /\ stampClock' \in Nat
        BY <1>1, LaunchTable DEF TableInv, BlockTypeOK
      <3> QED BY <3>1, <3>2
    <2> QED BY <2>1, <2>2 DEF TableInv
  <1>2. ASSUME NEW w \in Warps, CheckEntry(w) \/ LookDuplicate(w) \/ ScanSlots(w) \/ ReduceStep(w)
        PROVE  UNCHANGED blockTable
    BY <1>2 DEF CheckEntry, LookDuplicate, ScanSlots, ReduceStep
  <1>3. ASSUME NEW w \in Warps, AdmitEntry(w)
        PROVE  TableInv'
    <2>1. CASE w # 0
      BY <1>3, <2>1, AdmitOther, TableUndisturbed
    <2>2. CASE w = 0
      <3> DEFINE t == warpT[0]
                 s == red[0].slot
                 k == entryIds[t]
      <3>1. /\ s \in SlotIds /\ k \in BlockExperts /\ blockMap[k] = -1
            /\ \A e \in BlockExperts :
                 blockMap'[e] = IF e = k THEN s ELSE IF e = slotExpert[s] THEN -1 ELSE blockMap[e]
            /\ \A r \in SlotIds : slotExpert'[r] = IF r = s THEN k ELSE slotExpert[r]
            /\ \A r \in SlotIds : slotStamp'[r] = IF r = s THEN stampClock + 1 ELSE slotStamp[r]
            /\ stampClock' = stampClock + 1
        BY <1>3, <2>2, AdmitTable
      <3> HIDE DEF s, k, t
      <3>2. ASSUME NEW e \in BlockExperts, blockMap'[e] >= 0
            PROVE  slotExpert'[blockMap'[e]] = e
        <4>1. CASE e = k
          BY <3>1, <4>1
        <4>2. CASE e # k
          <5>1. blockMap'[e] = blockMap[e] /\ e # slotExpert[s]
            BY <3>1, <3>2, <4>2
          <5>2. blockMap[e] \in SlotIds /\ slotExpert[blockMap[e]] = e
            BY <3>2, <5>1 DEF TableInv, BlockTypeOK
          <5> QED BY <3>1, <5>1, <5>2
        <4> QED BY <4>1, <4>2
      <3>3. ASSUME NEW r \in SlotIds, slotExpert'[r] >= 0
            PROVE  blockMap'[slotExpert'[r]] = r
        <4>1. CASE r = s
          BY <3>1, <4>1
        <4>2. CASE r # s
          <5>1. slotExpert'[r] = slotExpert[r] /\ slotExpert[r] \in BlockExperts
            BY <3>1, <3>3, <4>2 DEF BlockTypeOK
          <5>2. blockMap[slotExpert[r]] = r /\ r >= 0
            BY <3>3, <5>1, WarpsAre DEF TableInv
          <5>3. slotExpert[r] # k
            BY <3>1, <5>2
          <5>4. slotExpert[r] # slotExpert[s]
            <6>1. slotExpert[r] = slotExpert[s] => blockMap[slotExpert[s]] = s
              BY <3>1, <3>3, <5>1 DEF TableInv
            <6> QED BY <4>2, <5>2, <6>1
          <5> QED BY <3>1, <5>1, <5>2, <5>3, <5>4
        <4> QED BY <4>1, <4>2
      <3>4. \A r \in SlotIds : slotStamp'[r] <= stampClock'
        <4>1. \A r \in SlotIds : slotStamp[r] \in Nat /\ stampClock \in Nat /\ slotStamp[r] <= stampClock
          BY DEF TableInv, BlockTypeOK
        <4> QED BY <3>1, <4>1
      <3> QED BY <3>2, <3>3, <3>4 DEF TableInv
    <2> QED BY <2>1, <2>2
  <1>4. CASE Barrier \/ UNCHANGED blockVars
    <2>1. UNCHANGED blockTable
      BY <1>4 DEF Barrier, blockVars
    <2> QED BY <2>1, TableUndisturbed
  <1> QED BY <1>1, <1>2, <1>3, <1>4, TableUndisturbed DEF BlockNext

\* Only an entry whose expert has no slot is admitted by thread 0, in step or not.
LEMMA PlaceStep == BlockTypeOK /\ PlaceInv /\ [BlockNext]_blockVars => PlaceInv'
  <1> SUFFICES ASSUME BlockTypeOK, PlaceInv, [BlockNext]_blockVars
               PROVE  PlaceInv'
    OBVIOUS
  <1>0. 0 \in Warps /\ BlockTypeOK'
    BY WarpsAre, BlockTypeStep
  <1>1. CASE LaunchAdmit
    <2>1. warpPc' = [w \in Warps |-> "check"]
      BY Zenon, <1>1 DEF LaunchAdmit
    <2>2. \A w \in Warps : warpPc'[w] = "check"
      BY <2>1
    <2> QED BY <1>0, <2>2 DEF PlaceInv
  <1>2. ASSUME NEW w \in Warps, CheckEntry(w)
        PROVE  PlaceInv'
    <2>1. UNCHANGED <<blockMap, entryIds>>
      BY <1>2 DEF CheckEntry, blockTable
    <2>2. /\ \A v \in Warps : v # w => warpPc'[v] = warpPc[v] /\ warpT'[v] = warpT[v]
          /\ warpPc[w] = "check"
          /\ \/ warpPc'[w] = "left" /\ warpT'[w] = warpT[w] /\ warpT[w] > Len(entryIds)
             \/ warpPc'[w] = "check"
             \/ warpPc'[w] = "look" /\ warpT'[w] = warpT[w] /\ warpT[w] <= Len(entryIds)
      BY <1>2 DEF CheckEntry, Goto, BlockTypeOK
    <2> QED BY <1>0, <2>1, <2>2 DEF PlaceInv, Missing
  <1>3. ASSUME NEW w \in Warps, LookDuplicate(w) \/ AdmitEntry(w)
        PROVE  PlaceInv'
    <2>1. /\ \A v \in Warps : v # w => warpPc'[v] = warpPc[v]
          /\ warpPc[w] \notin {"check", "left"} /\ warpPc'[w] = "atEnd"
          /\ warpT' = warpT /\ entryIds' = entryIds
      BY <1>3 DEF LookDuplicate, AdmitEntry, Goto, BlockTypeOK
    <2>2. w # 0 => UNCHANGED blockMap
      BY <1>3 DEF LookDuplicate, AdmitEntry, blockTable
    <2> QED BY <1>0, <2>1, <2>2 DEF PlaceInv, Missing
  <1>4. ASSUME NEW w \in Warps, ScanSlots(w)
        PROVE  PlaceInv'
    <2>1. /\ \A v \in Warps : v # w => warpPc'[v] = warpPc[v]
          /\ warpPc[w] = "look" /\ warpPc'[w] = "atScanned" /\ Missing(warpT[w])
          /\ UNCHANGED <<warpT, entryIds, blockMap>>
      BY <1>4 DEF ScanSlots, Goto, BlockTypeOK, Missing, blockTable
    <2> QED BY <1>0, <2>1 DEF PlaceInv, Missing
  <1>5. ASSUME NEW w \in Warps, ReduceStep(w)
        PROVE  PlaceInv'
    <2>1. /\ \A v \in Warps : v # w => warpPc'[v] = warpPc[v]
          /\ warpPc[w] = "reduce" /\ warpPc'[w] = "atReduced"
          /\ UNCHANGED <<warpT, entryIds, blockMap>>
      BY <1>5 DEF ReduceStep, Goto, BlockTypeOK, blockTable
    <2> QED BY <1>0, <2>1 DEF PlaceInv, Missing
  <1>6. CASE Barrier
    <2>1. UNCHANGED <<entryIds, blockMap>>
      BY <1>6 DEF Barrier, blockTable
    <2>2. ASSUME NEW v \in Warps
          PROVE  \/ warpPc[v] = "left" /\ warpPc'[v] = "left" /\ warpT'[v] = warpT[v]
                 \/ warpPc'[v] = "check"
                 \/ /\ warpPc[v] \in {"atScanned", "atReduced"} /\ warpT'[v] = warpT[v]
                    /\ warpPc'[v] \in {"reduce", "admit"}
      BY <1>6, <2>2 DEF Barrier, Waits, BlockTypeOK
    <2> QED BY <1>0, <2>1, <2>2 DEF PlaceInv, Missing
  <1>7. CASE UNCHANGED blockVars
    BY <1>7 DEF PlaceInv, blockVars, blockTable, Missing
  <1> QED BY <1>1, <1>2, <1>3, <1>4, <1>5, <1>6, <1>7 DEF BlockNext

-----------------------------------------------------------------------------
\* The entries of a launch and their slots

\* A slot holds an expert of a list if the expert is mapped to it.
LEMMA HoldsOneOf ==
  ASSUME BlockTypeOK, TableInv, NEW list \in Seq(BlockExperts), NEW s \in SlotIds
  PROVE  slotExpert[s] \in ToSet(list) <=> \E u \in DOMAIN list : blockMap[list[u]] = s
  <1>1. slotExpert[s] \in ToSet(list) <=> \E u \in DOMAIN list : slotExpert[s] = list[u]
    BY DEF ToSet
  <1>2. ASSUME NEW u \in DOMAIN list
        PROVE  slotExpert[s] = list[u] <=> blockMap[list[u]] = s
    <2>1. list[u] \in BlockExperts
      BY ElementOfSeq, LenProperties
    <2>2. list[u] >= 0 /\ s >= 0
      BY <2>1, ExpertsAre, WarpsAre
    <2> QED BY <2>1, <2>2 DEF TableInv
  <1> QED BY <1>1, <1>2

\* While an entry's expert has no slot, some slot is not in use by this launch.
LEMMA SlotToSpare ==
  ASSUME BlockTypeOK, TableInv, NEW t \in DOMAIN entryIds, Missing(t)
  PROVE  \E r \in SlotIds : r \notin Kept
  <1> DEFINE E == ToSet(entryIds)
             k == entryIds[t]
             f == [s \in Kept |-> slotExpert[s]]
  <1>1. k \in E /\ E \subseteq BlockExperts
    BY PlacesAre DEF ToSet
  <1>2. IsFiniteSet(E)
    <2> DEFINE g == [u \in DOMAIN entryIds |-> entryIds[u]]
    <2>1. g \in Surjection(DOMAIN entryIds, E)
      BY DEF Surjection, ToSet
    <2>2. IsFiniteSet(DOMAIN entryIds)
      BY PlacesAre, FS_Interval
    <2> HIDE DEF g, E
    <2> QED BY <2>1, <2>2, FS_Surjection
  <1>3. Cardinality(E) \in Nat /\ Cardinality(E) <= BlockSlots
    BY <1>2, FS_CardinalityType DEF BlockTypeOK
  <1>4. IsFiniteSet(E \ {k}) /\ Cardinality(E \ {k}) = Cardinality(E) - 1
    <2> HIDE DEF E
    <2> QED BY <1>1, <1>2, FS_RemoveElement
  <1>5. f \in Injection(Kept, E \ {k})
    <2>1. ASSUME NEW s \in Kept
          PROVE  s \in SlotIds /\ f[s] = slotExpert[s] /\ slotExpert[s] \in E \ {k} /\ blockMap[slotExpert[s]] = s
      <3>1. s \in SlotIds /\ slotExpert[s] \in E /\ slotExpert[s] \in BlockExperts
        BY <1>1 DEF Kept
      <3>4. s >= 0 /\ slotExpert[s] >= 0
        BY <3>1, ExpertsAre, WarpsAre
      <3>2. blockMap[slotExpert[s]] = s
        BY <3>1, <3>4 DEF TableInv
      <3>3. slotExpert[s] # k
        <4>1. slotExpert[s] = k => s < 0
          BY <3>2 DEF Missing
        <4> QED BY <3>4, <4>1, <3>1, WarpsAre
      <3> QED BY <3>1, <3>2, <3>3
    <2>2. f \in [Kept -> E \ {k}]
      BY <2>1
    <2>3. \A s, r \in Kept : f[s] = f[r] => s = r
      <3> HIDE DEF f
      <3> QED BY <2>1
    <2> HIDE DEF f
    <2> QED BY <2>2, <2>3 DEF Injection, IsInjective
  <1>6. IsFiniteSet(Kept) /\ Cardinality(Kept) <= Cardinality(E \ {k})
    <2> HIDE DEF f, E
    <2> QED BY <1>4, <1>5, FS_Injection
  <1>7. Cardinality(Kept) \in Nat
    BY <1>6, FS_CardinalityType
  <1>8. Cardinality(SlotIds) = BlockSlots
    BY FS_Interval, WarpsAre DEF SlotIds
  <1>9. Cardinality(Kept) < Cardinality(SlotIds)
    <2> HIDE DEF E
    <2> QED BY <1>3, <1>4, <1>6, <1>7, <1>8, WarpsAre
  <1>10. Kept \subseteq SlotIds
    BY DEF Kept
  <1>11. Kept # SlotIds
    BY <1>7, <1>8, <1>9
  <1> QED BY <1>10, <1>11

\* Thread 0 admits when the warps in step have found the oldest slot of all.
LEMMA AdmitsOldest ==
  ASSUME BlockTypeOK, NEW t \in Places, InStep(t), warpPc[0] = "admit"
  PROVE  /\ Admitting(t) /\ warpT[0] = t
         /\ \A r \in SlotIds : slotStamp[red[0].slot] <= slotStamp[r]
  <1>1. 0 \in Warps
    BY WarpsAre
  <1>2. Admitting(t) /\ warpT[0] = t
    <2>1. ~Walking(t) /\ ~Answering(t) /\ ~Scanning(t)
      BY <1>1 DEF Walking, Answering, Scanning, Late
    <2>2. \A q \in Strides : ~Reducing(t, q)
      BY <1>1 DEF Reducing
    <2>3. Admitting(t)
      BY <2>1, <2>2 DEF InStep
    <2> QED BY <1>1, <2>3 DEF Admitting
  <1>3. Traces(0) /\ Found(0, 1)
    BY <1>2 DEF Admitting
  <1>4. \A r \in SlotIds : r % 1 = 0
    BY WarpsAre
  <1>5. \A r \in SlotIds : red[0].stamp <= slotStamp[r]
    BY <1>3, <1>4 DEF Found
  <1> QED BY <1>2, <1>3, <1>5 DEF Traces

\* So the victim is not a slot that this launch uses.
LEMMA VictimNotKept ==
  ASSUME BlockTypeOK, TableInv, Younger, NEW t \in DOMAIN entryIds, Missing(t),
         NEW s \in SlotIds, \A r \in SlotIds : slotStamp[s] <= slotStamp[r]
  PROVE  s \notin Kept
  <1>1. PICK r \in SlotIds : r \notin Kept
    BY SlotToSpare
  <1>2. slotStamp[s] \in Nat /\ slotStamp[r] \in Nat /\ slotStamp[s] <= slotStamp[r]
    BY DEF BlockTypeOK
  <1> QED BY <1>1, <1>2 DEF Younger

\* The launch begins with all its experts' slots younger than the others.
LEMMA EntriesLaunched ==
  ASSUME BlockTypeOK, TableInv, LaunchAdmit
  PROVE  Younger' /\ Placed' /\ Repeats'
  <1> USE DEF Missing
  <1>1. entryIds' \in Seq(BlockExperts)
    BY LaunchTable
  <1>2. UNCHANGED <<blockMap, slotExpert>>
    BY DEF LaunchAdmit
  <1>3. Younger'
    <2> SUFFICES ASSUME NEW s \in SlotIds, s \in Kept', NEW r \in SlotIds, r \notin Kept'
                 PROVE  slotStamp'[r] < slotStamp'[s]
      BY DEF Younger, Kept
    <2>1. \E u \in DOMAIN entryIds' : blockMap[entryIds'[u]] = s
      BY <1>1, <1>2, HoldsOneOf DEF Kept
    <2>2. ~ \E u \in DOMAIN entryIds' : blockMap[entryIds'[u]] = r
      BY <1>1, <1>2, HoldsOneOf DEF Kept
    <2>3. stampClock < slotStamp'[s] /\ slotStamp'[r] = slotStamp[r]
      BY <2>1, <2>2, LaunchTable
    <2>4. slotStamp[r] <= stampClock /\ slotStamp[r] \in Nat /\ stampClock \in Nat /\ slotStamp'[s] \in Nat
      BY LaunchTable DEF TableInv, BlockTypeOK
    <2> QED BY <2>3, <2>4
  <1>4. /\ mark' = [t \in DOMAIN entryIds' |-> IF blockMap[entryIds'[t]] >= 0 THEN "hit" ELSE "miss"]
        /\ entryBase' = [t \in DOMAIN entryIds' |-> blockMap[entryIds'[t]]]
    BY LaunchTable
  <1>5. ASSUME NEW u \in DOMAIN entryIds'
        PROVE  /\ mark'[u] # "miss" => entryBase'[u] >= 0 /\ blockMap'[entryIds'[u]] = entryBase'[u]
               /\ mark'[u] = "miss" => ~(blockMap'[entryIds'[u]] >= 0)
    BY <1>2, <1>4
  <1>6. \A u \in DOMAIN entryIds' : blockMap'[entryIds'[u]] \in Int
    <2> SUFFICES ASSUME NEW u \in DOMAIN entryIds'
                 PROVE  blockMap[entryIds'[u]] \in Int
      BY <1>2
    <2>1. entryIds'[u] \in BlockExperts
      BY <1>1, ElementOfSeq, LenProperties
    <2>2. blockMap[entryIds'[u]] \in SlotIds \cup {-1}
      BY <2>1 DEF BlockTypeOK
    <2> QED BY Zenon, <2>2, SlotOrNone
  <1>7. Repeats'
    BY <1>5, <1>6 DEF Repeats
  <1> QED BY <1>3, <1>5, <1>7 DEF Placed

\* An admission gives the slot to the entry, and takes it from no other one.
LEMMA EntriesAdmitted ==
  ASSUME BlockTypeOK, TableInv, PlaceInv, Younger, Placed, Repeats,
         NEW t \in Places, InStep(t), AdmitEntry(0)
  PROVE  Younger' /\ Placed' /\ Repeats'
  <1> DEFINE s == red[0].slot
             k == entryIds[t]
  <1>1. /\ Admitting(t) /\ warpT[0] = t
        /\ \A r \in SlotIds : slotStamp[s] <= slotStamp[r]
    BY AdmitsOldest DEF AdmitEntry
  <1>2. /\ s \in SlotIds /\ t \in DOMAIN entryIds /\ k \in BlockExperts /\ blockMap[k] = -1
        /\ \A e \in BlockExperts :
             blockMap'[e] = IF e = k THEN s ELSE IF e = slotExpert[s] THEN -1 ELSE blockMap[e]
        /\ \A r \in SlotIds : slotExpert'[r] = IF r = s THEN k ELSE slotExpert[r]
        /\ \A r \in SlotIds : slotStamp'[r] = IF r = s THEN stampClock + 1 ELSE slotStamp[r]
        /\ stampClock' = stampClock + 1
        /\ \A u \in DOMAIN entryIds : /\ entryBase'[u] = IF u = t THEN s ELSE entryBase[u]
                                      /\ mark'[u] = IF u = t THEN "fetch" ELSE mark[u]
        /\ UNCHANGED entryIds
    BY <1>1, AdmitTable
  <1>3. s \notin Kept
    <2>1. Missing(t)
      BY <1>2 DEF Missing
    <2> HIDE DEF s
    <2> QED BY <1>1, <1>2, <2>1, VictimNotKept
  <1>4. \A r \in SlotIds : r \in Kept' <=> r = s \/ r \in Kept
    <2>1. k \in ToSet(entryIds)
      BY <1>2 DEF ToSet
    <2>2. ToSet(entryIds)' = ToSet(entryIds)
      BY <1>2
    <2> HIDE DEF s, k
    <2> QED BY <1>2, <2>1, <2>2 DEF Kept
  <1> HIDE DEF s, k
  <1>5. Younger'
    <2> SUFFICES ASSUME NEW a \in SlotIds, a \in Kept', NEW r \in SlotIds, r \notin Kept'
                 PROVE  slotStamp'[r] < slotStamp'[a]
      BY DEF Younger, Kept
    <2>1. r # s /\ r \notin Kept /\ slotStamp'[r] = slotStamp[r]
      BY <1>2, <1>4
    <2>2. CASE a = s
      <3>1. slotStamp'[a] = stampClock + 1
        BY <1>2, <2>2
      <3>2. slotStamp[r] <= stampClock /\ slotStamp[r] \in Nat /\ stampClock \in Nat
        BY DEF TableInv, BlockTypeOK
      <3> QED BY <2>1, <3>1, <3>2
    <2>3. CASE a # s
      BY <1>2, <1>4, <2>1, <2>3 DEF Younger
    <2> QED BY <2>2, <2>3
  <1>6. ASSUME NEW u \in DOMAIN entryIds
        PROVE  /\ entryIds'[u] = entryIds[u] /\ entryIds[u] \in BlockExperts
               /\ entryIds[u] # k => /\ blockMap'[entryIds[u]] = blockMap[entryIds[u]]
               /\ entryIds[u] = k => blockMap'[entryIds[u]] = s
    <2>1. entryIds'[u] = entryIds[u] /\ entryIds[u] \in BlockExperts
      BY <1>2, PlacesAre
    <2>2. entryIds[u] # slotExpert[s]
      BY <1>2, <1>3 DEF Kept, ToSet
    <2> QED BY <1>2, <2>1, <2>2
  <1>7. DOMAIN entryIds' = DOMAIN entryIds /\ s >= 0 /\ k = entryIds[t]
    BY <1>2, WarpsAre DEF k
  <1>8. Placed'
    <2> SUFFICES ASSUME NEW u \in DOMAIN entryIds, mark'[u] # "miss"
                 PROVE  entryBase'[u] >= 0 /\ blockMap'[entryIds'[u]] = entryBase'[u]
      BY <1>7 DEF Placed
    <2>1. CASE u = t
      BY <1>2, <1>6, <1>7, <2>1
    <2>2. CASE u # t
      <3>1. entryBase[u] >= 0 /\ blockMap[entryIds[u]] = entryBase[u]
        BY <1>2, <2>2 DEF Placed
      <3>2. entryIds[u] # k
        BY <1>2, <3>1
      <3> QED BY <1>2, <1>6, <2>2, <3>1, <3>2
    <2> QED BY <2>1, <2>2
  <1>9. Repeats'
    <2> SUFFICES ASSUME NEW u \in DOMAIN entryIds, mark'[u] = "miss", ~(blockMap'[entryIds'[u]] < 0)
                 PROVE  \E v \in DOMAIN entryIds : v # u /\ entryIds[v] = entryIds[u]
      BY <1>2, <1>7 DEF Repeats, Repeated, Missing
    <2>1. u # t /\ mark[u] = "miss"
      BY <1>2
    <2>2. CASE entryIds[u] = k
      BY <1>2, <1>7, <2>1, <2>2
    <2>3. CASE entryIds[u] # k
      BY <1>6, <2>1, <2>3 DEF Repeats, Repeated, Missing
    <2> QED BY <2>2, <2>3
  <1> QED BY <1>5, <1>8, <1>9

\* Otherwise the table stays, and thread 0 may find an expert that has its slot.
LEMMA EntriesStay ==
  ASSUME BlockTypeOK, Younger, Placed, Repeats, UNCHANGED <<blockTable, entryIds>>,
         \A u \in DOMAIN entryIds :
           \/ mark'[u] = mark[u] /\ entryBase'[u] = entryBase[u]
           \/ mark'[u] # "miss" /\ entryBase'[u] = blockMap[entryIds[u]] /\ entryBase'[u] >= 0
  PROVE  Younger' /\ Placed' /\ Repeats'
  <1> USE DEF blockTable
  <1>1. Younger'
    BY DEF Younger, Kept
  <1>2. Placed'
    BY DEF Placed
  <1>3. Repeats'
    BY DEF Repeats, Repeated, Missing
  <1> QED BY <1>1, <1>2, <1>3

\* The entries keep their slots through every step of warps in step.
LEMMA EntriesStep ==
  ASSUME BlockTypeOK, TableInv, PlaceInv, [BlockNext]_blockVars, ~overtook => StepInv, ~overtook'
  PROVE  Younger' /\ Placed' /\ Repeats'
  <1>1. CASE LaunchAdmit
    BY <1>1, EntriesLaunched
  <1>2. ASSUME ~LaunchAdmit
        PROVE  ~overtook
    BY <1>2 DEF BlockNext, blockVars, CheckEntry, LookDuplicate, ScanSlots, ReduceStep, AdmitEntry, Barrier
  <1>3. ASSUME NEW w \in Warps, ~overtook,
               CheckEntry(w) \/ ScanSlots(w) \/ ReduceStep(w) \/ Barrier \/ UNCHANGED blockVars
        PROVE  Younger' /\ Placed' /\ Repeats'
    <2>1. UNCHANGED <<blockTable, entryIds, mark, entryBase>>
      BY <1>3 DEF CheckEntry, ScanSlots, ReduceStep, Barrier, blockVars
    <2>2. Younger /\ Placed /\ Repeats
      BY <1>3 DEF StepInv
    <2> QED BY <2>1, <2>2, EntriesStay
  <1>4. ASSUME NEW w \in Warps, ~overtook, LookDuplicate(w)
        PROVE  Younger' /\ Placed' /\ Repeats'
    <2>1. UNCHANGED <<blockTable, entryIds>>
      BY <1>4 DEF LookDuplicate
    <2>2. ASSUME NEW u \in DOMAIN entryIds
          PROVE  \/ mark'[u] = mark[u] /\ entryBase'[u] = entryBase[u]
                 \/ mark'[u] # "miss" /\ entryBase'[u] = blockMap[entryIds[u]] /\ entryBase'[u] >= 0
      BY <1>4 DEF LookDuplicate, BlockTypeOK
    <2>3. Younger /\ Placed /\ Repeats
      BY <1>4 DEF StepInv
    <2> QED BY <2>1, <2>2, <2>3, EntriesStay
  <1>5. ASSUME NEW w \in Warps, ~overtook, AdmitEntry(w)
        PROVE  Younger' /\ Placed' /\ Repeats'
    <2>1. Younger /\ Placed /\ Repeats
      BY <1>5 DEF StepInv
    <2>2. CASE w = 0
      <3>1. PICK t \in Places : InStep(t)
        BY <1>5 DEF StepInv
      <3> QED BY <1>5, <2>1, <2>2, <3>1, EntriesAdmitted
    <2>3. CASE w # 0
      <3>1. UNCHANGED <<blockTable, entryIds, mark, entryBase>>
        BY <1>5, <2>3, AdmitOther
      <3> QED BY <2>1, <3>1, EntriesStay
    <2> QED BY <2>2, <2>3
  <1> QED BY <1>1, <1>2, <1>3, <1>4, <1>5, WarpsAre DEF BlockNext

-----------------------------------------------------------------------------
\* The warps stay in step

\* Everybody is at t at most.
LEMMA NobodyAhead ==
  ASSUME BlockTypeOK, NEW t \in Places, InStep(t), NEW w \in Warps
  PROVE  warpT[w] <= t /\ warpT[w] \in Nat
  <1>1. t \in Nat /\ warpT[w] \in Nat
    BY PlacesAre DEF BlockTypeOK
  <1> QED BY <1>1 DEF InStep, Walking, Answering, Scanning, Reducing, Admitting, Late

\* A warp that has left has found that no entry is left.
LEMMA CheckLeaves ==
  ASSUME BlockTypeOK, NEW t \in Places, InStep(t), NEW w \in Warps, CheckEntry(w),
         warpT[w] > Len(entryIds)
  PROVE  InStep(t)'
  <1>1. t \in Nat /\ Len(entryIds) \in Nat /\ warpT[w] <= t /\ warpT[w] \in Nat
    BY NobodyAhead, PlacesAre
  <1>2. Walking(t)
    <2>1. t > Len(entryIds)
      BY <1>1
    <2> QED BY <1>1, <2>1 DEF InStep, Answering, Scanning, Reducing, Admitting
  <1>3. /\ warpPc' = [warpPc EXCEPT ![w] = "left"]
        /\ UNCHANGED <<warpT, mark, entryIds>>
    BY <1>1 DEF CheckEntry, Goto
  <1>4. Walking(t)'
    BY <1>2, <1>3 DEF Walking, BlockTypeOK
  <1> QED BY <1>3, <1>4 DEF InStep

\* An entry that is done is skipped, by a warp that is late or by the first to come to it.
LEMMA CheckSkips ==
  ASSUME BlockTypeOK, NEW t \in Places, InStep(t), NEW w \in Warps, CheckEntry(w), ~overtook',
         warpT[w] <= Len(entryIds), mark[warpT[w]] # "miss"
  PROVE  \E v \in Places' : InStep(v)'
  <1>1. t \in Nat /\ Len(entryIds) \in Nat /\ warpT[w] <= t /\ warpT[w] \in Nat \ {0}
    BY NobodyAhead, PlacesAre DEF BlockTypeOK
  <1>2. /\ warpPc[w] = "check" /\ warpT' = [warpT EXCEPT ![w] = warpT[w] + 1]
        /\ overtook' = (overtook \/ \E v \in Warps : warpT[v] = warpT[w] /\ warpPc[v] = "atEnd")
        /\ UNCHANGED <<blockTable, entryIds, mark, red, warpStep, warpPc>>
    BY <1>1 DEF CheckEntry
  <1>3. /\ warpT'[w] = warpT[w] + 1 /\ \A v \in Warps : v # w => warpT'[v] = warpT[v]
        /\ 0 \in Warps /\ Places' = Places
    BY <1>2, WarpsAre DEF BlockTypeOK, Places
  <1>4. CASE Walking(t)
    <2>1. CASE warpT[w] < t
      <3>1. Walking(t)'
        BY <1>1, <1>2, <1>3, <1>4, <2>1 DEF Walking
      <3>2. InStep(t)'
        BY <1>2, <3>1 DEF InStep
      <3> QED BY <1>3, <3>2
    <2>2. CASE warpT[w] = t
      <3>1. t + 1 \in Places
        BY <1>1, <2>2 DEF Places
      <3>2. Walking(t + 1)'
        <4>1. \A v \in Warps : v # w => warpT[v] \in Nat /\ warpT[v] <= t
          BY NobodyAhead
        <4>2. \A v \in Warps : warpPc[v] \in {"check", "left"}
          BY <1>4 DEF Walking
        <4> QED BY <1>1, <1>2, <1>3, <2>2, <4>1, <4>2 DEF Walking
      <3>3. \A u \in 1..t : u \in DOMAIN entryIds /\ mark[u] # "miss"
        <4>1. \A u \in 1..(t - 1) : u \in DOMAIN entryIds /\ mark[u] # "miss"
          BY DEF InStep
        <4>2. t \in DOMAIN entryIds /\ mark[t] # "miss"
          BY <1>1, <2>2, PlacesAre
        <4> QED BY <1>1, <4>1, <4>2
      <3>4. InStep(t + 1)'
        <4>1. (t + 1) - 1 = t
          BY <1>1
        <4> QED BY <1>2, <3>2, <3>3, <4>1 DEF InStep
      <3> QED BY <1>3, <3>1, <3>4
    <2> QED BY <1>1, <2>1, <2>2
  <1>5. CASE Answering(t)
    <2>1. warpT[w] # t
      <3>1. warpT[w] = t => warpPc[0] = "atEnd" /\ warpT[0] = t
        BY <1>3, <1>5 DEF Answering, Late
      <3> QED BY <1>2, <1>3, <3>1
    <2>2. warpT'[w] <= t
      BY <1>1, <1>3, <2>1
    <2>3. Answering(t)'
      BY <1>2, <1>3, <1>5, <2>2 DEF Answering, Late, Missing, Repeated, blockTable
    <2>4. InStep(t)'
      BY <1>2, <2>3 DEF InStep
    <2> QED BY <1>3, <2>4
  <1>6. CASE Scanning(t)
    <2>1. warpT[w] # t
      BY <1>6 DEF Scanning
    <2>2. warpT'[w] <= t
      BY <1>1, <1>3, <2>1
    <2>3. Scanning(t)'
      BY <1>2, <1>3, <1>6, <2>2 DEF Scanning, Scanned, Traces, Found, Late, Missing, blockTable
    <2>4. InStep(t)'
      BY <1>2, <2>3 DEF InStep
    <2> QED BY <1>3, <2>4
  <1>7. ~Admitting(t) /\ \A q \in Strides : ~Reducing(t, q)
    BY <1>2 DEF Admitting, Reducing
  <1> QED BY <1>4, <1>5, <1>6, <1>7 DEF InStep

\* The first warp to come to an entry that is not done begins a phase, the others join in.
LEMMA CheckLooks ==
  ASSUME BlockTypeOK, PlaceInv, Repeats, NEW t \in Places, InStep(t), NEW w \in Warps, CheckEntry(w),
         warpT[w] <= Len(entryIds), mark[warpT[w]] = "miss"
  PROVE  InStep(t)'
  <1>1. t \in Nat /\ Len(entryIds) \in Nat /\ warpT[w] <= t /\ warpT[w] \in Nat \ {0}
    BY NobodyAhead, PlacesAre DEF BlockTypeOK
  <1>2. /\ warpPc[w] = "check" /\ warpPc' = [warpPc EXCEPT ![w] = "look"]
        /\ UNCHANGED <<blockTable, entryIds, mark, red, warpStep, warpT>>
    BY <1>1 DEF CheckEntry, Goto
  <1>3. warpPc'[w] = "look" /\ \A v \in Warps : v # w => warpPc'[v] = warpPc[v]
    BY <1>2 DEF BlockTypeOK
  <1>4. warpT[w] = t
    BY <1>1 DEF InStep
  <1>5. t \in DOMAIN entryIds
    BY <1>1, <1>4, PlacesAre
  <1>6. CASE Walking(t)
    <2>1. \A v \in Warps : v # w => warpPc[v] = "check" /\ warpT[v] <= t
      <3> SUFFICES ASSUME NEW v \in Warps, warpPc[v] = "left"
                   PROVE  FALSE
        BY <1>6 DEF Walking
      <3>1. warpT[v] > Len(entryIds) /\ warpT[v] <= t /\ warpT[v] \in Nat
        BY <1>6 DEF Walking, PlaceInv, BlockTypeOK
      <3> QED BY <1>1, <1>4, <3>1
    <2>2. warpPc'[0] # "atEnd"
      BY <1>3, <2>1, WarpsAre
    <2>3. CASE Missing(t)
      <3>1. Scanning(t)'
        BY <1>2, <1>3, <1>4, <2>1, <2>3 DEF Scanning, Late, Missing, blockTable
      <3> QED BY <1>2, <3>1 DEF InStep
    <2>4. CASE ~Missing(t)
      <3>1. Repeated(t)
        BY <1>4, <1>5, <2>4 DEF Repeats
      <3>2. Answering(t)'
        BY <1>2, <1>3, <1>4, <2>1, <2>2, <2>4, <3>1 DEF Answering, Late, Missing, Repeated, blockTable
      <3> QED BY <1>2, <3>2 DEF InStep
    <2> QED BY <2>3, <2>4
  <1>7. CASE Answering(t)
    <2>1. warpPc'[0] # "atEnd"
      BY <1>3, <1>4, <1>7, WarpsAre DEF Answering
    <2>2. Answering(t)'
      BY <1>2, <1>3, <1>4, <1>7, <2>1 DEF Answering, Late, Missing, Repeated, blockTable
    <2> QED BY <1>2, <2>2 DEF InStep
  <1>8. CASE Scanning(t)
    <2>1. Scanning(t)'
      BY <1>2, <1>3, <1>4, <1>8 DEF Scanning, Scanned, Traces, Found, Late, Missing, blockTable
    <2> QED BY <1>2, <2>1 DEF InStep
  <1>9. ~Admitting(t) /\ \A q \in Strides : ~Reducing(t, q)
    BY <1>2 DEF Admitting, Reducing
  <1> QED BY <1>6, <1>7, <1>8, <1>9 DEF InStep

\* Thread 0 answers the entry it works on.
LEMMA LookStaysInStep ==
  ASSUME BlockTypeOK, PlaceInv, NEW t \in Places, InStep(t), NEW w \in Warps, LookDuplicate(w)
  PROVE  InStep(t)'
  <1>1. /\ warpPc[w] = "look" /\ ~Missing(warpT[w]) /\ warpPc' = [warpPc EXCEPT ![w] = "atEnd"]
        /\ UNCHANGED <<blockTable, entryIds, red, warpT, warpStep>>
        /\ mark' = IF w = 0 THEN [mark EXCEPT ![warpT[w]] = "hit"] ELSE mark
    <2>1. blockMap[entryIds[warpT[w]]] >= 0 => ~(blockMap[entryIds[warpT[w]]] < 0)
      <3>1. warpT[w] \in DOMAIN entryIds
        BY WorksOnEntry DEF LookDuplicate
      <3>2. blockMap[entryIds[warpT[w]]] \in Int
        BY <3>1, PlacesAre, SlotOrNone
      <3> QED BY <3>2
    <2> QED BY <2>1 DEF LookDuplicate, Goto, Missing
  <1>2. warpPc'[w] = "atEnd" /\ \A v \in Warps : v # w => warpPc'[v] = warpPc[v]
    BY <1>1 DEF BlockTypeOK
  <1>3. Answering(t) /\ warpT[w] = t
    <2>1. ~Walking(t) /\ ~Admitting(t) /\ \A q \in Strides : ~Reducing(t, q)
      BY <1>1 DEF Walking, Admitting, Reducing
    <2>2. ~Scanning(t)
      BY <1>1 DEF Scanning, Late
    <2> QED BY <1>1, <2>1, <2>2 DEF InStep, Answering, Late
  <1>4. t \in DOMAIN entryIds /\ 0 \in Warps /\ t \in Nat
    BY <1>3, PlacesAre, WarpsAre DEF Answering, Places
  <1>5. /\ mark'[t] = IF w = 0 THEN "hit" ELSE mark[t]
        /\ \A u \in DOMAIN entryIds : u # t => mark'[u] = mark[u]
    BY <1>1, <1>3, <1>4 DEF BlockTypeOK
  <1>6. Answering(t)'
    <2>1. mark'[t] = "miss" <=> warpPc'[0] # "atEnd"
      BY <1>2, <1>3, <1>4, <1>5 DEF Answering
    <2> QED BY <1>1, <1>2, <1>3, <2>1 DEF Answering, Late, Missing, Repeated, blockTable
  <1>7. \A u \in 1..(t - 1) : u # t
    BY <1>4
  <1> QED BY <1>1, <1>5, <1>6, <1>7 DEF InStep

\* A scan finds the oldest slot of the warp's class.
LEMMA ScanStaysInStep ==
  ASSUME BlockTypeOK, NEW t \in Places, InStep(t), NEW w \in Warps, ScanSlots(w)
  PROVE  InStep(t)'
  <1> DEFINE T == {s \in SlotIds : s % NWarps = w}
             s == Oldest(T)
  <1>1. /\ warpPc[w] = "look" /\ Missing(warpT[w]) /\ warpPc' = [warpPc EXCEPT ![w] = "atScanned"]
        /\ UNCHANGED <<blockTable, entryIds, mark, warpT>>
        /\ warpStep' = [warpStep EXCEPT ![w] = (NWarps * Lanes) \div 2]
        /\ red' = [red EXCEPT ![w] = [slot |-> s, stamp |-> slotStamp[s]]]
    BY DEF ScanSlots, Goto, Missing
  <1>2. s \in T /\ \A r \in T : slotStamp[s] <= slotStamp[r]
    <2>1. w \in T
      BY WarpsAre DEF SlotIds
    <2> HIDE DEF T
    <2>2. T \subseteq SlotIds
      BY DEF T
    <2> QED BY <2>1, <2>2, OldestIs
  <1>3. \A r \in SlotIds : r % NWarps = w => slotStamp[s] <= slotStamp[r]
    BY <1>2
  <1> HIDE DEF s
  <1>4. /\ warpPc'[w] = "atScanned" /\ warpStep'[w] = (NWarps * Lanes) \div 2
        /\ red'[w].slot = s /\ red'[w].stamp = slotStamp[s]
        /\ \A v \in Warps : v # w => warpPc'[v] = warpPc[v] /\ red'[v] = red[v] /\ warpStep'[v] = warpStep[v]
    BY <1>1 DEF BlockTypeOK
  <1>5. Scanning(t) /\ warpT[w] = t
    <2>1. ~Walking(t) /\ ~Admitting(t) /\ \A q \in Strides : ~Reducing(t, q)
      BY <1>1 DEF Walking, Admitting, Reducing
    <2>2. ~Answering(t)
      BY <1>1 DEF Answering, Late
    <2> QED BY <1>1, <2>1, <2>2 DEF InStep, Scanning, Late
  <1>6. Scanned(w)'
    BY <1>1, <1>3, <1>4 DEF Scanned, Traces, Found, blockTable
  <1>7. \A v \in Warps : v # w /\ Scanned(v) => Scanned(v)'
    BY <1>1, <1>4 DEF Scanned, Traces, Found, blockTable
  <1>8. Scanning(t)'
    BY <1>1, <1>4, <1>5, <1>6, <1>7 DEF Scanning, Late, Missing, blockTable
  <1> QED BY <1>1, <1>8 DEF InStep

\* The number of a slot modulo half as much.
LEMMA HalfClass ==
  ASSUME NEW s \in Nat, NEW w \in Nat, NEW m \in {1, 2}, s % m = w
  PROVE  s % (2 * m) = w \/ s % (2 * m) = w + m
  <1>1. CASE m = 1
    BY <1>1
  <1>2. CASE m = 2
    BY <1>2
  <1> QED BY <1>1, <1>2

\* A step of the reduction leaves a warp with the older one of two findings.
LEMMA ReduceFinds ==
  ASSUME BlockTypeOK, NEW t \in Places, NEW q \in Strides, Reducing(t, q),
         NEW w \in Warps, warpPc[w] = "reduce", ReduceStep(w)
  PROVE  /\ Traces(w)'
         /\ w < Reach(q) => Found(w, Reach(q))'
         /\ w < Reach(q \div 2) => Found(w, Reach(q \div 2))'
  <1> DEFINE r == q \div Lanes
             h == Reach(q \div 2)
             v == w + r
  <1>1. warpStep[w] = q /\ UNCHANGED slotStamp
    BY DEF Reducing, ReduceStep, blockTable
  <1>2. red' = IF w < r /\ red[v].stamp < red[w].stamp THEN [red EXCEPT ![w] = red[v]] ELSE red
    BY <1>1 DEF ReduceStep
  <1>3. /\ h \in {1, 2} /\ Reach(q) \in {1, 2, 4}
        /\ Reach(q) > 1 => Reach(q) = 2 * h /\ r = h
        /\ Reach(q) = 1 => r = 0 /\ h = 1
    BY NextStride
  <1>4. w \in Nat /\ Reach(q) <= NWarps /\ NWarps \in Nat
    BY WarpsAre DEF Reducing
  <1> HIDE DEF r, h
  <1>5. w < r => v \in Warps /\ v < Reach(q) /\ w < Reach(q)
    BY <1>3, <1>4, WarpsAre
  <1>6. \A u \in Warps : /\ Traces(u) /\ (u < Reach(q) => Found(u, Reach(q)))
                         /\ red[u].stamp \in Nat
    BY DEF Reducing, BlockTypeOK
  <1>7. \A s \in SlotIds : slotStamp[s] \in Nat
    BY DEF BlockTypeOK
  <1> HIDE DEF v
  <1>8. CASE w < r
    <2>1. PICK u \in {w, v} : red'[w] = red[u] /\ red[u].stamp <= red[w].stamp /\ red[u].stamp <= red[v].stamp
      <3>1. red[w].stamp \in Nat /\ red[v].stamp \in Nat
        BY <1>5, <1>6, <1>8
      <3>2. CASE red[v].stamp < red[w].stamp
        BY <1>2, <1>8, <3>1, <3>2 DEF BlockTypeOK
      <3>3. CASE ~(red[v].stamp < red[w].stamp)
        BY <1>2, <1>8, <3>1, <3>3
      <3> QED BY <3>2, <3>3
    <2>2. u \in Warps /\ v \in Warps
      BY <1>5, <1>8
    <2>3. Traces(w)'
      BY <1>1, <1>6, <2>1, <2>2 DEF Traces
    <2>4. \A s \in SlotIds : s % Reach(q) = w \/ s % Reach(q) = v => red'[w].stamp <= slotStamp[s]
      <3> SUFFICES ASSUME NEW s \in SlotIds, NEW x \in {w, v}, s % Reach(q) = x
                   PROVE  red'[w].stamp <= slotStamp[s]
        OBVIOUS
      <3>1. red[x].stamp <= slotStamp[s]
        BY <1>5, <1>6, <1>8 DEF Found
      <3>2. red[u].stamp <= red[x].stamp
        BY <2>1
      <3>3. red[u].stamp \in Nat /\ red[x].stamp \in Nat /\ slotStamp[s] \in Nat
        BY <1>5, <1>6, <1>7, <1>8, <2>2
      <3> QED BY <2>1, <3>1, <3>2, <3>3
    <2>5. Found(w, Reach(q))'
      BY <1>1, <2>4 DEF Found
    <2>6. Found(w, h)'
      <3>1. Reach(q) = 2 * h /\ v = w + h
        BY <1>3, <1>4, <1>8 DEF v
      <3>2. ASSUME NEW s \in SlotIds, s % h = w
            PROVE  s % Reach(q) = w \/ s % Reach(q) = v
        <4>1. s \in Nat
          BY WarpsAre
        <4> QED BY <1>3, <1>4, <3>1, <3>2, <4>1, HalfClass
      <3> QED BY <1>1, <2>4, <3>2 DEF Found
    <2> QED BY <2>3, <2>5, <2>6 DEF h
  <1>9. CASE ~(w < r)
    <2>1. red' = red
      BY <1>2, <1>9
    <2>2. w < h => Reach(q) = h /\ w < Reach(q)
      BY <1>3, <1>4, <1>9
    <2>3. Traces(w)' /\ (w < Reach(q) => Found(w, Reach(q))')
      BY <1>1, <1>6, <2>1 DEF Traces, Found
    <2> QED BY <2>2, <2>3 DEF h
  <1> QED BY <1>8, <1>9

\* A step of the reduction halves the classes.
LEMMA ReduceStaysInStep ==
  ASSUME BlockTypeOK, NEW t \in Places, InStep(t), NEW w \in Warps, ReduceStep(w)
  PROVE  InStep(t)'
  <1>1. /\ warpPc[w] = "reduce" /\ warpPc' = [warpPc EXCEPT ![w] = "atReduced"]
        /\ warpStep' = [warpStep EXCEPT ![w] = warpStep[w] \div 2]
        /\ UNCHANGED <<blockTable, entryIds, mark, warpT>>
    BY DEF ReduceStep, Goto
  <1>2. PICK q \in Strides : Reducing(t, q)
    <2>1. ~Walking(t) /\ ~Answering(t) /\ ~Scanning(t) /\ ~Admitting(t)
      BY <1>1 DEF Walking, Answering, Scanning, Admitting, Late
    <2> QED BY <2>1 DEF InStep
  <1>3. /\ Traces(w)'
        /\ w < Reach(q) => Found(w, Reach(q))'
        /\ w < Reach(q \div 2) => Found(w, Reach(q \div 2))'
    BY <1>1, <1>2, ReduceFinds
  <1>4. \A v \in Warps : v # w => /\ warpPc'[v] = warpPc[v] /\ warpStep'[v] = warpStep[v]
                                  /\ red'[v] = red[v]
    BY <1>1 DEF ReduceStep, BlockTypeOK
  <1>5. warpPc'[w] = "atReduced" /\ warpStep'[w] = q \div 2
    BY <1>1, <1>2 DEF Reducing, BlockTypeOK
  <1>6. \A v \in Warps, m \in {Reach(q), Reach(q \div 2)} :
          v # w => /\ Traces(v) => Traces(v)'
                   /\ Found(v, m) => Found(v, m)'
    BY <1>1, <1>4 DEF Traces, Found, blockTable
  <1>7. ASSUME NEW v \in Warps
        PROVE  /\ warpT'[v] = t /\ Traces(v)'
               /\ v < Reach(q) => Found(v, Reach(q))'
               /\ \/ warpPc'[v] = "reduce" /\ warpStep'[v] = q
                  \/ /\ warpPc'[v] = "atReduced" /\ warpStep'[v] = q \div 2
                     /\ v < Reach(q \div 2) => Found(v, Reach(q \div 2))'
    <2>1. warpT'[v] = t
      BY <1>1, <1>2 DEF Reducing
    <2>2. CASE v = w
      BY <1>3, <1>5, <2>1, <2>2
    <2>3. CASE v # w
      BY <1>2, <1>4, <1>6, <2>1, <2>3 DEF Reducing
    <2> QED BY <2>2, <2>3
  <1>8. /\ t <= Len(entryIds)' /\ Missing(t)' /\ mark'[t] = "miss" /\ Reach(q) <= NWarps
    BY <1>1, <1>2 DEF Reducing, Missing, blockTable
  <1>9. Reducing(t, q)'
    BY <1>7, <1>8 DEF Reducing
  <1> QED BY <1>1, <1>9 DEF InStep

\* After the admission by thread 0 the entry is done.
LEMMA AdmitStaysInStep ==
  ASSUME BlockTypeOK, PlaceInv, NEW t \in Places, InStep(t), NEW w \in Warps, AdmitEntry(w)
  PROVE  InStep(t)'
  <1>1. /\ warpPc[w] = "admit" /\ warpPc' = [warpPc EXCEPT ![w] = "atEnd"]
        /\ UNCHANGED <<entryIds, red, warpT, warpStep>>
    BY DEF AdmitEntry, Goto
  <1>2. warpPc'[w] = "atEnd" /\ (\A v \in Warps : v # w => warpPc'[v] = warpPc[v]) /\ 0 \in Warps
    BY <1>1, WarpsAre DEF BlockTypeOK
  <1>3. Admitting(t)
    <2>1. ~Walking(t) /\ ~Answering(t) /\ ~Scanning(t) /\ \A q \in Strides : ~Reducing(t, q)
      BY <1>1 DEF Walking, Answering, Scanning, Reducing, Late
    <2> QED BY <2>1 DEF InStep
  <1>4. \A v \in Warps : warpT'[v] = t /\ warpPc'[v] \in {"admit", "atEnd"}
    BY <1>1, <1>2, <1>3 DEF Admitting
  <1>5. CASE w = 0
    <2>1. \A u \in DOMAIN entryIds : mark'[u] = IF u = t THEN "fetch" ELSE mark[u]
      <3>1. warpT[0] = t
        BY <1>2, <1>3 DEF Admitting
      <3> QED BY <1>5, <3>1, AdmitTable
    <2>2. t \in DOMAIN entryIds /\ t \in Nat
      BY <1>3, PlacesAre DEF Admitting, Places
    <2>3. Admitting(t)'
      BY <1>1, <1>2, <1>3, <1>4, <1>5, <2>1, <2>2 DEF Admitting
    <2>4. \A u \in 1..(t - 1) : u \in DOMAIN entryIds /\ mark'[u] # "miss"
      BY <2>1, <2>2 DEF InStep
    <2> QED BY <1>1, <2>3, <2>4 DEF InStep
  <1>6. CASE w # 0
    <2>1. UNCHANGED <<blockTable, mark>>
      BY <1>6, AdmitOther
    <2>2. warpPc'[0] = warpPc[0]
      BY <1>2, <1>6
    <2>3. Admitting(t)'
      BY <1>1, <1>3, <1>4, <2>1, <2>2 DEF Admitting, Missing, Traces, Found, blockTable
    <2> QED BY <1>1, <2>1, <2>3 DEF InStep
  <1> QED BY <1>5, <1>6

\* At the end of an entry all warps go on to the next one.
LEMMA BarrierEnds ==
  ASSUME BlockTypeOK, NEW t \in Places, InStep(t), Barrier, t <= Len(entryIds), mark[t] # "miss",
         \A w \in Warps : warpT[w] = t /\ warpPc[w] = "atEnd"
  PROVE  t + 1 \in Places' /\ InStep(t + 1)'
  <1>1. t \in Nat \ {0} /\ Len(entryIds) \in Nat /\ DOMAIN entryIds = 1..Len(entryIds)
    BY PlacesAre DEF Places
  <1>2. \A w \in Warps : warpT'[w] = t + 1 /\ warpPc'[w] = "check"
    BY <1>1 DEF Barrier
  <1>3. UNCHANGED <<entryIds, mark>>
    BY DEF Barrier
  <1>4. Walking(t + 1)'
    BY <1>1, <1>2 DEF Walking
  <1>5. \A u \in 1..((t + 1) - 1) : u \in DOMAIN entryIds /\ mark[u] # "miss"
    BY <1>1 DEF InStep
  <1>6. t + 1 \in Places'
    BY <1>1, <1>3 DEF Places
  <1> QED BY <1>3, <1>4, <1>5, <1>6 DEF InStep

\* The barrier ends a phase for all warps at once.
LEMMA BarrierStaysInStep ==
  ASSUME BlockTypeOK, PlaceInv, NEW t \in Places, InStep(t), Barrier
  PROVE  \E v \in Places' : InStep(v)'
  <1>1. UNCHANGED <<blockTable, entryIds, mark, red, warpStep>> /\ Places' = Places
    BY DEF Barrier, Places
  <1>2. \A w \in Warps : Waits(w) \/ warpPc[w] = "left"
    BY DEF Barrier
  <1>3. 0 \in Warps /\ t \in Nat /\ Len(entryIds) \in Nat
    BY WarpsAre, PlacesAre
  <1>4. \A w \in Warps : warpT[w] \in Nat /\ (warpPc[w] = "left" => warpT[w] > Len(entryIds))
    BY DEF PlaceInv, BlockTypeOK
  <1>5. \A w \in Warps :
          /\ warpPc[w] \in {"atScanned", "atReduced"} /\ warpStep[w] > 0
               => warpPc'[w] = "reduce" /\ warpT'[w] = warpT[w]
          /\ warpPc[w] \in {"atScanned", "atReduced"} /\ ~(warpStep[w] > 0)
               => warpPc'[w] = "admit" /\ warpT'[w] = warpT[w]
    BY <1>4 DEF Barrier
  <1>6. CASE Walking(t)
    BY <1>6 DEF Barrier, Walking, Waits
  <1>7. CASE Answering(t)
    <2>1. \A w \in Warps : warpT[w] = t /\ warpPc[w] = "atEnd"
      BY <1>2, <1>7 DEF Answering, Late, Waits
    <2>2. t <= Len(entryIds) /\ mark[t] # "miss"
      BY <1>3, <1>7, <2>1 DEF Answering
    <2> QED BY <2>1, <2>2, BarrierEnds
  <1>8. CASE Scanning(t)
    <2> DEFINE q == (NWarps * Lanes) \div 2
    <2>1. q \in Strides /\ q > 0 /\ Reach(q) = NWarps
      BY FirstStride
    <2>2. \A w \in Warps : warpT[w] = t /\ warpPc[w] = "atScanned" /\ Scanned(w)
      BY <1>2, <1>8 DEF Scanning, Late, Waits
    <2>3. \A w \in Warps : Traces(w) /\ Found(w, NWarps) /\ warpStep[w] = q
      BY <2>2 DEF Scanned
    <2> HIDE DEF q
    <2>4. \A w \in Warps : /\ warpT'[w] = t /\ warpPc'[w] = "reduce" /\ warpStep'[w] = q
                           /\ Traces(w)' /\ Found(w, NWarps)'
      BY <1>1, <1>5, <2>1, <2>2, <2>3 DEF Traces, Found, blockTable
    <2>5. t <= Len(entryIds)' /\ Missing(t)' /\ mark'[t] = "miss" /\ Reach(q) <= NWarps
      BY <1>1, <1>8, <2>1, WarpsAre DEF Scanning, Missing, blockTable
    <2>6. Reducing(t, q)'
      BY <2>1, <2>4, <2>5 DEF Reducing
    <2>7. InStep(t)'
      BY <1>1, <2>1, <2>6 DEF InStep
    <2> QED BY <1>1, <2>7
  <1>9. CASE \E q \in Strides : Reducing(t, q)
    <2>1. PICK q \in Strides : Reducing(t, q)
      BY <1>9
    <2> DEFINE h == q \div 2
    <2>2. /\ h \in Nat /\ (h > 0 => h \in Strides) /\ (h = 0 => Reach(q) = 1)
          /\ Reach(q) \in {1, 2, 4} /\ Reach(h) \in {1, 2}
          /\ Reach(q) > 1 => Reach(q) = 2 * Reach(h)
          /\ Reach(q) = 1 => Reach(h) = 1
      BY NextStride
    <2>3. \A w \in Warps : /\ warpT[w] = t /\ Traces(w) /\ warpPc[w] = "atReduced" /\ warpStep[w] = h
                           /\ w < Reach(h) => Found(w, Reach(h))
      BY <1>2, <2>1 DEF Reducing, Waits
    <2>4. Reach(q) <= NWarps
      BY <2>1 DEF Reducing
    <2> HIDE DEF h
    <2>5. Reach(h) <= NWarps
      BY <2>2, <2>4, WarpsAre
    <2>6. \A w \in Warps : Traces(w)' /\ (w < Reach(h) => Found(w, Reach(h))')
      BY <1>1, <2>3 DEF Traces, Found, blockTable
    <2>7. t <= Len(entryIds)' /\ Missing(t)' /\ mark'[t] = "miss"
      BY <1>1, <2>1 DEF Reducing, Missing, blockTable
    <2>8. CASE h > 0
      <3>1. \A w \in Warps : warpT'[w] = t /\ warpPc'[w] = "reduce" /\ warpStep'[w] = h
        BY <1>1, <1>5, <2>3, <2>8
      <3>2. Reducing(t, h)'
        BY <2>5, <2>6, <2>7, <3>1 DEF Reducing
      <3>3. InStep(t)'
        BY <1>1, <2>2, <2>8, <3>2 DEF InStep
      <3> QED BY <1>1, <3>3
    <2>9. CASE h = 0
      <3>1. \A w \in Warps : warpT'[w] = t /\ warpPc'[w] = "admit"
        BY <1>5, <2>3, <2>9
      <3>2. Reach(h) = 1
        BY <2>2, <2>9
      <3>3. Traces(0)' /\ Found(0, 1)'
        BY <1>3, <2>6, <3>2
      <3>4. Admitting(t)'
        BY <1>3, <2>7, <3>1, <3>3 DEF Admitting
      <3>5. InStep(t)'
        BY <1>1, <3>4 DEF InStep
      <3> QED BY <1>1, <3>5
    <2> QED BY <2>2, <2>8, <2>9
  <1>10. CASE Admitting(t)
    <2>1. \A w \in Warps : warpT[w] = t /\ warpPc[w] = "atEnd"
      BY <1>2, <1>10 DEF Admitting, Waits
    <2>2. t <= Len(entryIds) /\ mark[t] # "miss"
      BY <1>3, <1>10, <2>1 DEF Admitting
    <2> QED BY <2>1, <2>2, BarrierEnds
  <1> QED BY <1>6, <1>7, <1>8, <1>9, <1>10 DEF InStep

\* A launch begins at its first entry.
LEMMA LaunchInStep ==
  ASSUME LaunchAdmit
  PROVE  1 \in Places' /\ InStep(1)'
  <1>1. warpPc' = [w \in Warps |-> "check"] /\ warpT' = [w \in Warps |-> 1]
    BY Zenon DEF LaunchAdmit
  <1>2. Walking(1)'
    BY <1>1 DEF Walking
  <1>3. 1..(1 - 1) = {}
    OBVIOUS
  <1>4. 1 \in Places'
    <2>1. entryIds' \in Seq(BlockExperts)
      BY BlockConstants DEF LaunchAdmit
    <2> QED BY <2>1, LenProperties DEF Places
  <1> QED BY <1>2, <1>3, <1>4 DEF InStep

\* So every step leaves the warps in step, until one overtakes the others.
LEMMA InStepStep ==
  ASSUME BlockTypeOK, PlaceInv, [BlockNext]_blockVars, ~overtook => StepInv, ~overtook'
  PROVE  \E t \in Places' : InStep(t)'
  <1>1. CASE LaunchAdmit
    BY <1>1, LaunchInStep
  <1>2. ASSUME ~LaunchAdmit
        PROVE  ~overtook
    BY <1>2 DEF BlockNext, blockVars, CheckEntry, LookDuplicate, ScanSlots, ReduceStep, AdmitEntry, Barrier
  <1>3. ASSUME ~LaunchAdmit
        PROVE  \E t \in Places' : InStep(t)'
    <2>1. Repeats /\ \E t \in Places : InStep(t)
      BY <1>2, <1>3 DEF StepInv
    <2>2. PICK t \in Places : InStep(t)
      BY <2>1
    <2>3. ASSUME NEW w \in Warps, CheckEntry(w)
          PROVE  \E v \in Places' : InStep(v)'
      <3>1. Places' = Places /\ Len(entryIds) \in Nat /\ warpT[w] \in Nat
        BY <2>3, PlacesAre DEF CheckEntry, Places, BlockTypeOK
      <3>2. CASE warpT[w] > Len(entryIds)
        BY <2>2, <2>3, <3>1, <3>2, CheckLeaves
      <3>3. CASE warpT[w] <= Len(entryIds) /\ mark[warpT[w]] # "miss"
        BY <2>2, <2>3, <3>3, CheckSkips
      <3>4. CASE warpT[w] <= Len(entryIds) /\ mark[warpT[w]] = "miss"
        BY <2>1, <2>2, <2>3, <3>1, <3>4, CheckLooks
      <3> QED BY <3>1, <3>2, <3>3, <3>4
    <2>4. ASSUME NEW w \in Warps, LookDuplicate(w) \/ ScanSlots(w) \/ ReduceStep(w) \/ AdmitEntry(w)
          PROVE  \E v \in Places' : InStep(v)'
      <3>1. Places' = Places
        BY <2>4 DEF LookDuplicate, ScanSlots, ReduceStep, AdmitEntry, Places
      <3>2. InStep(t)'
        BY <2>2, <2>4, LookStaysInStep, ScanStaysInStep, ReduceStaysInStep, AdmitStaysInStep
      <3> QED BY <3>1, <3>2
    <2>5. CASE Barrier
      BY <2>2, <2>5, BarrierStaysInStep
    <2>6. CASE UNCHANGED blockVars
      <3>1. InStep(t)' /\ Places' = Places
        BY <2>2, <2>6 DEF blockVars, blockTable, InStep, Walking, Answering, Scanning, Reducing, Admitting,
                          Late, Missing, Repeated, Scanned, Traces, Found, Places
      <3> QED BY <3>1
    <2> QED BY <1>3, <2>3, <2>4, <2>5, <2>6 DEF BlockNext
  <1> QED BY <1>1, <1>3

-----------------------------------------------------------------------------
\* The invariant, and what follows from it

\* The invariant holds at first,
LEMMA BlockInitInv == BlockInit => BlockInv /\ ~overtook
  <1> SUFFICES ASSUME BlockInit
               PROVE  BlockInv /\ ~overtook
    OBVIOUS
  <1>1. entryIds = <<>> /\ mark = <<>> /\ entryBase = <<>> /\ entryIds \in Seq(BlockExperts)
    BY DEF BlockInit
  <1>2. Len(entryIds) = 0 /\ DOMAIN entryIds = {} /\ ToSet(entryIds) = {}
    BY <1>1 DEF ToSet
  <1>3. BlockTypeOK
    <2>1. /\ blockMap \in [BlockExperts -> SlotIds \cup {-1}]
          /\ slotExpert \in [SlotIds -> BlockExperts \cup {-1}]
          /\ slotStamp \in [SlotIds -> Nat] /\ stampClock \in Nat
      BY DEF BlockInit
    <2>2. Cardinality(ToSet(entryIds)) <= BlockSlots
      BY <1>2, FS_EmptySet, WarpsAre
    <2>3. /\ mark \in [DOMAIN entryIds -> {"hit", "miss", "fetch"}]
          /\ entryBase \in [DOMAIN entryIds -> SlotIds \cup {-1}]
      BY <1>1, <1>2
    <2>4. red \in [Warps -> [slot : SlotIds, stamp : Nat]]
      <3>1. 0 \in SlotIds
        BY WarpsAre DEF SlotIds
      <3> QED BY <3>1 DEF BlockInit
    <2>5. warpPc \in [Warps -> Pcs] /\ warpT \in [Warps -> Nat \ {0}]
      BY DEF BlockInit, Pcs
    <2>6. warpStep \in [Warps -> 0..((NWarps * Lanes) \div 2)] /\ overtook \in BOOLEAN
      <3>1. 0 \in 0..((NWarps * Lanes) \div 2)
        BY FirstStride, NextStride
      <3> QED BY <3>1 DEF BlockInit
    <2> QED BY <1>1, <2>1, <2>2, <2>3, <2>4, <2>5, <2>6 DEF BlockTypeOK
  <1>4. TableInv
    <2>1. \A e \in BlockExperts : blockMap[e] = -1
      BY DEF BlockInit
    <2>2. \A s \in SlotIds : slotExpert[s] = -1 /\ slotStamp[s] = 0 /\ stampClock = 0
      BY DEF BlockInit
    <2> QED BY <2>1, <2>2 DEF TableInv
  <1>5. \A w \in Warps : warpPc[w] = "left" /\ warpT[w] = 1
    BY DEF BlockInit
  <1>6. PlaceInv
    BY <1>2, <1>5, WarpsAre DEF PlaceInv
  <1>7. StepInv
    <2>1. Placed /\ Repeats
      BY <1>2 DEF Placed, Repeats
    <2>2. Younger
      BY <1>2 DEF Younger, Kept
    <2>3. 1 \in Places /\ InStep(1)
      <3>1. Walking(1)
        BY <1>5 DEF Walking
      <3>2. 1..(1 - 1) = {}
        OBVIOUS
      <3> QED BY <1>2, <3>1, <3>2 DEF InStep, Places
    <2> QED BY <2>1, <2>2, <2>3 DEF StepInv
  <1> QED BY <1>3, <1>4, <1>6, <1>7 DEF BlockInv, BlockInit

\* and is kept by every step.
LEMMA BlockInvStep == BlockInv /\ [BlockNext]_blockVars => BlockInv'
  <1> SUFFICES ASSUME BlockInv, [BlockNext]_blockVars
               PROVE  BlockInv'
    OBVIOUS
  <1>1. BlockTypeOK /\ TableInv /\ PlaceInv /\ (~overtook => StepInv)
    BY DEF BlockInv
  <1>2. BlockTypeOK' /\ TableInv' /\ PlaceInv'
    BY <1>1, BlockTypeStep, TableStep, PlaceStep
  <1>3. ASSUME ~overtook'
        PROVE  StepInv'
    <2>1. Younger' /\ Placed' /\ Repeats'
      BY <1>1, <1>3, EntriesStep
    <2>2. (\E t \in Places : InStep(t))'
      <3>1. \E t \in Places' : InStep(t)'
        BY <1>1, <1>3, InStepStep
      <3> QED BY <3>1
    <2> QED BY <2>1, <2>2 DEF StepInv
  <1> QED BY <1>2, <1>3 DEF BlockInv

\* The table of slots, the place of every warp, and, as long as no warp has skipped an
\* entry that the others work on, the phases and what has been found are as described.
THEOREM BlockInvariance == BlockSpec => []BlockInv
  <1>1. BlockInit => BlockInv
    BY BlockInitInv
  <1> QED BY <1>1, BlockInvStep, PTL DEF BlockSpec

\* When the warps that were in step have left, all entries are done.
LEMMA DoneInStep ==
  ASSUME BlockInv, ~overtook
  PROVE  EveryEntryKeepsItsSlot
  <1> SUFFICES ASSUME Finished, NEW u \in DOMAIN entryIds
               PROVE  /\ entryBase[u] >= 0
                      /\ slotExpert[entryBase[u]] = entryIds[u]
                      /\ blockMap[entryIds[u]] = entryBase[u]
    BY DEF EveryEntryKeepsItsSlot
  <1>1. PICK t \in Places : InStep(t)
    BY DEF BlockInv, StepInv
  <1>2. warpT[0] > Len(entryIds) /\ warpT[0] <= t /\ warpT[0] \in Nat
    <2>1. 0 \in Warps
      BY WarpsAre
    <2> QED BY <1>1, <2>1, NobodyAhead DEF BlockInv, PlaceInv, Finished
  <1>3. u \in 1..Len(entryIds) /\ Len(entryIds) \in Nat /\ t \in Nat /\ entryIds[u] \in BlockExperts
    BY PlacesAre DEF BlockInv
  <1>4. u \in 1..(t - 1)
    BY <1>2, <1>3
  <1>5. mark[u] # "miss"
    BY <1>1, <1>4 DEF InStep
  <1>6. entryBase[u] >= 0 /\ blockMap[entryIds[u]] = entryBase[u]
    BY <1>5 DEF BlockInv, StepInv, Placed
  <1> QED BY <1>3, <1>6 DEF BlockInv, TableInv

\* As long as the warps of lru_admit stay in step, every entry of a launch is read from a slot
\* that is its expert's: for two or four warps of any size, any slots and any entries that fit.
THEOREM InStepEntriesKeepTheirSlots == BlockSpec => []EntriesKeepTheirSlotsInStep
  <1>1. BlockInv => EntriesKeepTheirSlotsInStep
    BY DoneInStep DEF EntriesKeepTheirSlotsInStep
  <1> QED BY <1>1, BlockInvariance, PTL

\* No launch routes to an expert twice: the launches of a single sequence.
NoneShared == \A list \in EntryLists : IsInjective(list)

\* To overtake a warp needs an entry that repeats an expert.
LEMMA NobodyOvertakes ==
  ASSUME NoneShared, BlockInv, ~overtook, entryIds \in EntryLists \cup {<<>>}, [BlockNext]_blockVars
  PROVE  ~overtook' /\ entryIds' \in EntryLists \cup {<<>>}
  <1>1. entryIds' \in EntryLists \cup {<<>>}
    BY DEF BlockNext, blockVars, LaunchAdmit, CheckEntry, LookDuplicate, ScanSlots, ReduceStep,
           AdmitEntry, Barrier
  <1>2. ASSUME NEW w \in Warps, CheckEntry(w), NEW v \in Warps, warpT[v] = warpT[w], warpPc[v] = "atEnd",
               warpT[w] <= Len(entryIds), mark[warpT[w]] # "miss"
        PROVE  FALSE
    <2>1. PICK t \in Places : InStep(t)
      BY DEF BlockInv, StepInv
    <2>2. warpPc[w] = "check"
      BY <1>2 DEF CheckEntry
    <2>3. Answering(t)
      BY <1>2, <2>1, <2>2 DEF InStep, Walking, Scanning, Reducing, Admitting, Late
    <2>4. t \in DOMAIN entryIds /\ IsInjective(entryIds)
      <3>1. t \in DOMAIN entryIds
        BY <2>3, PlacesAre DEF Answering, Places, BlockInv
      <3>2. entryIds # <<>>
        BY <3>1
      <3> QED BY <3>1, <3>2 DEF NoneShared
    <2> QED BY <2>3, <2>4 DEF Answering, Repeated, IsInjective
  <1>3. ~overtook'
    <2>1. CASE LaunchAdmit
      BY <2>1 DEF LaunchAdmit
    <2>2. ASSUME NEW w \in Warps, CheckEntry(w)
          PROVE  ~overtook'
      BY <1>2, <2>2 DEF CheckEntry
    <2> QED BY <2>1, <2>2 DEF BlockNext, blockVars, LookDuplicate, ScanSlots, ReduceStep, AdmitEntry, Barrier
  <1> QED BY <1>1, <1>3

\* So a launch in which no expert is shared, as of a single sequence, keeps its slots whatever
\* the pace of the warps: only a batch can meet the race of finding 5.
THEOREM UnsharedEntriesKeepTheirSlots ==
  ASSUME NoneShared
  PROVE  BlockSpec => []EveryEntryKeepsItsSlot
  <1> DEFINE Inv == BlockInv /\ ~overtook /\ entryIds \in EntryLists \cup {<<>>}
  <1>1. BlockInit => Inv
    BY BlockInitInv DEF BlockInit
  <1>2. Inv /\ [BlockNext]_blockVars => Inv'
    BY NobodyOvertakes, BlockInvStep
  <1>3. Inv => EveryEntryKeepsItsSlot
    BY DoneInStep
  <1> HIDE DEF Inv
  <1> QED BY <1>1, <1>2, <1>3, PTL DEF BlockSpec

-----------------------------------------------------------------------------
(***************************************************************************)
(* The slot table implements LruSet.  A stamp tells the launches apart:    *)
(* the older of two slots was not stamped in a later launch, and a slot    *)
(* that no launch has stamped holds no expert.                             *)
(***************************************************************************)
TouchInv ==
  /\ touchedIn \in [SlotIds -> Nat] /\ launchCount \in Nat
  /\ \A s \in SlotIds : touchedIn[s] <= launchCount
  /\ \A r, s \in SlotIds : slotStamp[r] <= slotStamp[s] => touchedIn[r] <= touchedIn[s]
  /\ \A s \in SlotIds : slotStamp[s] = 0 <=> touchedIn[s] = 0
  /\ \A s \in SlotIds : slotStamp[s] = 0 <=> slotExpert[s] = -1
  /\ launchCount = 0 => Finished

\* A step that stamps the slots of T, ahead of all stamps, keeps the order of the launches.
LEMMA StampsInOrder ==
  ASSUME BlockTypeOK, TableInv, TouchInv, NEW T \in SUBSET SlotIds,
         slotStamp' \in [SlotIds -> Nat],
         \A s \in SlotIds : IF s \in T THEN stampClock < slotStamp'[s] ELSE slotStamp'[s] = slotStamp[s],
         launchCount' \in Nat, launchCount <= launchCount', launchCount' > 0,
         touchedIn' = [s \in SlotIds |-> IF slotStamp'[s] # slotStamp[s] THEN launchCount' ELSE touchedIn[s]]
  PROVE  /\ touchedIn' \in [SlotIds -> Nat]
         /\ \A s \in SlotIds : touchedIn'[s] = IF s \in T THEN launchCount' ELSE touchedIn[s]
         /\ \A s \in SlotIds : touchedIn'[s] <= launchCount'
         /\ \A r, s \in SlotIds : slotStamp'[r] <= slotStamp'[s] => touchedIn'[r] <= touchedIn'[s]
         /\ \A s \in SlotIds : slotStamp'[s] = 0 <=> touchedIn'[s] = 0
  <1>1. \A s \in SlotIds : slotStamp[s] \in Nat /\ slotStamp'[s] \in Nat /\ slotStamp[s] <= stampClock
    BY DEF BlockTypeOK, TableInv
  <1>2. stampClock \in Nat /\ \A s \in SlotIds : touchedIn[s] \in Nat /\ touchedIn[s] <= launchCount
    BY DEF BlockTypeOK, TouchInv
  <1>3. \A s \in SlotIds : touchedIn'[s] = IF s \in T THEN launchCount' ELSE touchedIn[s]
    BY <1>1, <1>2
  <1>4. touchedIn' \in [SlotIds -> Nat]
    BY <1>2
  <1>5. \A s \in SlotIds : touchedIn'[s] <= launchCount'
    BY <1>2, <1>3 DEF TouchInv
  <1>6. ASSUME NEW r \in SlotIds, NEW s \in SlotIds, slotStamp'[r] <= slotStamp'[s]
        PROVE  touchedIn'[r] <= touchedIn'[s]
    <2>1. CASE s \in T
      BY <1>3, <1>5, <2>1
    <2>2. CASE s \notin T
      <3>1. r \notin T
        BY <1>1, <1>2, <1>6, <2>2
      <3> QED BY <1>3, <1>6, <2>2, <3>1 DEF TouchInv
    <2> QED BY <2>1, <2>2
  <1>7. \A s \in SlotIds : slotStamp'[s] = 0 <=> touchedIn'[s] = 0
    BY <1>1, <1>2, <1>3 DEF TouchInv
  <1> QED BY <1>3, <1>4, <1>5, <1>6, <1>7

\* TouchInv holds at first,
LEMMA TouchInit == TouchedInit => TouchInv
  BY DEF TouchedInit, BlockInit, TouchInv, Finished

\* after a launch,
LEMMA TouchLaunch ==
  ASSUME BlockTypeOK, TableInv, TouchInv, TouchedNext, LaunchAdmit
  PROVE  TouchInv'
  <1> DEFINE T == {s \in SlotIds : \E u \in DOMAIN entryIds' : blockMap[entryIds'[u]] = s}
  <1>1. /\ slotStamp' \in [SlotIds -> Nat]
        /\ \A s \in SlotIds : IF s \in T THEN stampClock < slotStamp'[s] ELSE slotStamp'[s] = slotStamp[s]
    BY LaunchTable
  <1>2. /\ launchCount' \in Nat /\ launchCount <= launchCount' /\ launchCount' > 0
        /\ slotExpert' = slotExpert
    BY DEF LaunchAdmit, TouchInv
  <1>3. touchedIn' = [s \in SlotIds |-> IF slotStamp'[s] # slotStamp[s] THEN launchCount' ELSE touchedIn[s]]
    BY DEF TouchedNext
  <1>4. ASSUME NEW s \in SlotIds
        PROVE  slotStamp'[s] = 0 <=> slotExpert'[s] = -1
    <2>1. CASE s \in T
      <3>1. PICK u \in DOMAIN entryIds' : blockMap[entryIds'[u]] = s
        BY <2>1
      <3>2. entryIds'[u] \in BlockExperts /\ entryIds'[u] \in Nat /\ s >= 0
        BY LaunchTable, ElementOfSeq, LenProperties, ExpertsAre, WarpsAre
      <3>3. slotExpert[s] = entryIds'[u]
        BY <3>1, <3>2 DEF TableInv
      <3>4. stampClock \in Nat /\ slotStamp'[s] \in Nat /\ stampClock < slotStamp'[s]
        BY <1>1, <2>1 DEF BlockTypeOK
      <3> QED BY <1>2, <3>2, <3>3, <3>4
    <2>2. CASE s \notin T
      BY <1>1, <1>2, <2>2 DEF TouchInv
    <2> QED BY <2>1, <2>2
  <1>5. T \in SUBSET SlotIds
    OBVIOUS
  <1> HIDE DEF T
  <1>6. /\ touchedIn' \in [SlotIds -> Nat]
        /\ \A s \in SlotIds : touchedIn'[s] <= launchCount'
        /\ \A r, s \in SlotIds : slotStamp'[r] <= slotStamp'[s] => touchedIn'[r] <= touchedIn'[s]
        /\ \A s \in SlotIds : slotStamp'[s] = 0 <=> touchedIn'[s] = 0
    BY Zenon, <1>1, <1>2, <1>3, <1>5, StampsInOrder
  <1> QED BY <1>2, <1>4, <1>6 DEF TouchInv

\* after an admission
LEMMA TouchAdmit ==
  ASSUME BlockTypeOK, TableInv, PlaceInv, TouchInv, TouchedNext, AdmitEntry(0)
  PROVE  TouchInv'
  <1> DEFINE v == red[0].slot
             k == entryIds[warpT[0]]
  <1>1. /\ v \in SlotIds /\ k \in BlockExperts
        /\ \A r \in SlotIds : slotExpert'[r] = IF r = v THEN k ELSE slotExpert[r]
        /\ \A r \in SlotIds : slotStamp'[r] = IF r = v THEN stampClock + 1 ELSE slotStamp[r]
    BY AdmitTable
  <1> HIDE DEF v, k
  <1>2. stampClock \in Nat /\ k \in Nat
    BY <1>1, ExpertsAre DEF BlockTypeOK
  <1>3. slotStamp' \in [SlotIds -> Nat]
    <2>1. slotStamp' = [slotStamp EXCEPT ![v] = stampClock + 1]
      BY DEF AdmitEntry, v
    <2>2. slotStamp \in [SlotIds -> Nat] /\ stampClock + 1 \in Nat
      BY <1>2 DEF BlockTypeOK
    <2> QED BY Zenon, <2>1, <2>2
  <1>4. \A s \in SlotIds : IF s \in {v} THEN stampClock < slotStamp'[s] ELSE slotStamp'[s] = slotStamp[s]
    BY <1>1, <1>2
  <1>5. launchCount' = launchCount /\ launchCount \in Nat /\ launchCount > 0
    <2>1. warpPc[0] # "left" /\ 0 \in Warps
      BY WarpsAre DEF AdmitEntry
    <2>2. launchCount # 0
      BY <2>1 DEF TouchInv, Finished
    <2> QED BY <2>2 DEF AdmitEntry, TouchInv
  <1>6. touchedIn' = [s \in SlotIds |-> IF slotStamp'[s] # slotStamp[s] THEN launchCount' ELSE touchedIn[s]]
    BY DEF TouchedNext
  <1>7. {v} \in SUBSET SlotIds /\ launchCount <= launchCount'
    BY <1>1, <1>5
  <1>8. /\ touchedIn' \in [SlotIds -> Nat]
        /\ \A s \in SlotIds : touchedIn'[s] <= launchCount'
        /\ \A r, s \in SlotIds : slotStamp'[r] <= slotStamp'[s] => touchedIn'[r] <= touchedIn'[s]
        /\ \A s \in SlotIds : slotStamp'[s] = 0 <=> touchedIn'[s] = 0
    BY Zenon, <1>3, <1>4, <1>5, <1>6, <1>7, StampsInOrder
  <1>9. \A s \in SlotIds : slotStamp'[s] = 0 <=> slotExpert'[s] = -1
    BY <1>1, <1>2 DEF TouchInv
  <1> QED BY <1>5, <1>8, <1>9 DEF TouchInv

\* and after any step.
LEMMA TouchStep ==
  ASSUME BlockTypeOK, TableInv, PlaceInv, TouchInv, [TouchedNext]_touchedVars
  PROVE  TouchInv'
  <1>1. ASSUME UNCHANGED <<slotExpert, slotStamp, launchCount, touchedIn>>, launchCount > 0 \/ Finished'
        PROVE  TouchInv'
    BY <1>1 DEF TouchInv
  <1>2. CASE TouchedNext
    <2>1. ASSUME UNCHANGED slotStamp
          PROVE  touchedIn' = touchedIn
      <3>1. touchedIn' = [s \in SlotIds |-> touchedIn[s]]
        BY <1>2, <2>1 DEF TouchedNext
      <3> QED BY <3>1 DEF TouchInv
    <2>2. ASSUME ~Finished
          PROVE  launchCount > 0
      BY <2>2 DEF TouchInv
    <2>3. CASE LaunchAdmit
      BY <1>2, <2>3, TouchLaunch
    <2>4. CASE Barrier
      <3>1. ~Finished
        BY <2>4 DEF Barrier, Finished, Waits
      <3> QED BY <1>1, <2>1, <2>2, <2>4, <3>1 DEF Barrier, blockTable
    <2>5. ASSUME NEW w \in Warps, CheckEntry(w) \/ LookDuplicate(w) \/ ScanSlots(w) \/ ReduceStep(w)
          PROVE  TouchInv'
      <3>1. ~Finished
        BY <2>5 DEF CheckEntry, LookDuplicate, ScanSlots, ReduceStep, Finished
      <3>2. UNCHANGED <<slotExpert, slotStamp, launchCount>>
        BY <2>5 DEF CheckEntry, LookDuplicate, ScanSlots, ReduceStep, blockTable
      <3> QED BY <1>1, <2>1, <2>2, <3>1, <3>2
    <2>6. ASSUME NEW w \in Warps, AdmitEntry(w)
          PROVE  TouchInv'
      <3>1. CASE w = 0
        BY <1>2, <2>6, <3>1, TouchAdmit
      <3>2. CASE w # 0
        <4>1. ~Finished
          BY <2>6 DEF AdmitEntry, Finished
        <4>2. UNCHANGED <<slotExpert, slotStamp, launchCount>>
          BY <2>6, <3>2 DEF AdmitEntry, blockTable
        <4> QED BY <1>1, <2>1, <2>2, <4>1, <4>2
      <3> QED BY <3>1, <3>2
    <2> QED BY <1>2, <2>3, <2>4, <2>5, <2>6 DEF TouchedNext, BlockNext
  <1>3. CASE UNCHANGED touchedVars
    BY <1>3 DEF touchedVars, blockVars, blockTable, TouchInv, Finished
  <1> QED BY <1>2, <1>3

\* A slot is no negative number.
LEMMA SlotIsNat == \A s \in SlotIds : s \in Nat /\ s >= 0 /\ ~(s < 0)
  BY WarpsAre

\* The residents of LruSet are the experts that have a slot.
LEMMA ResidentHasSlot ==
  ASSUME BlockTypeOK, TableInv, TouchInv
  PROVE  /\ \A e \in BlockExperts : e \in Lru!Resident <=> blockMap[e] \in SlotIds
         /\ Lru!Resident \subseteq BlockExperts
         /\ \A e \in Lru!Resident : /\ slotExpert[blockMap[e]] = e /\ BlockAge[e] = touchedIn[blockMap[e]]
                                    /\ ~(blockMap[e] < 0)
         /\ \A e \in BlockExperts : e \notin Lru!Resident => blockMap[e] = -1 /\ blockMap[e] < 0 /\ BlockAge[e] = 0
  <1>1. ASSUME NEW e \in BlockExperts
        PROVE  /\ blockMap[e] \in SlotIds => /\ ~(blockMap[e] < 0) /\ slotExpert[blockMap[e]] = e
                                             /\ BlockAge[e] = touchedIn[blockMap[e]] /\ BlockAge[e] # 0
               /\ blockMap[e] \notin SlotIds => blockMap[e] = -1 /\ blockMap[e] < 0 /\ BlockAge[e] = 0
    <2>1. blockMap[e] \in SlotIds \cup {-1} /\ e \in Nat
      BY ExpertsAre DEF BlockTypeOK
    <2>2. CASE blockMap[e] \in SlotIds
      <3>1. blockMap[e] >= 0 /\ ~(blockMap[e] < 0)
        BY Zenon, <2>2, SlotIsNat
      <3>2. slotExpert[blockMap[e]] = e
        BY <3>1 DEF TableInv
      <3>3. BlockAge[e] = touchedIn[blockMap[e]]
        BY <3>1 DEF BlockAge
      <3>4. touchedIn[blockMap[e]] # 0
        BY <2>1, <2>2, <3>2 DEF TouchInv
      <3> QED BY <2>2, <3>1, <3>2, <3>3, <3>4
    <2>3. CASE blockMap[e] \notin SlotIds
      <3>1. blockMap[e] = -1
        BY <2>1, <2>3
      <3> QED BY <2>3, <3>1 DEF BlockAge
    <2> QED BY <2>2, <2>3
  <1>2. \A e : e \in Lru!Resident <=> e \in BlockExperts /\ BlockAge[e] # 0
    BY DEF Lru!Resident
  <1> QED BY <1>1, <1>2

\* The oldest slot is free just when fewer experts than slots are resident.
LEMMA OldestFreeMeansRoom ==
  ASSUME BlockTypeOK, TableInv, TouchInv, NEW v \in SlotIds, \A r \in SlotIds : slotStamp[v] <= slotStamp[r]
  PROVE  slotExpert[v] = -1 <=> Cardinality(Lru!Resident) < BlockSlots
  <1> DEFINE R == Lru!Resident
             place == [e \in R |-> blockMap[e]]
             Used == {s \in SlotIds : slotExpert[s] # -1}
  <1>1. place \in Injection(R, Used)
    <2>1. ASSUME NEW e \in R
          PROVE  blockMap[e] \in Used /\ slotExpert[blockMap[e]] = e
      <3>1. e \in BlockExperts /\ blockMap[e] \in SlotIds /\ slotExpert[blockMap[e]] = e
        BY ResidentHasSlot
      <3>2. e \in Nat
        BY <3>1, ExpertsAre
      <3> QED BY <3>1, <3>2
    <2>2. place \in [R -> Used] /\ \A d, e \in R : place[d] = place[e] => d = e
      BY <2>1
    <2> HIDE DEF place, R, Used
    <2> QED BY <2>2 DEF Injection, IsInjective
  <1>2. IsFiniteSet(SlotIds) /\ Cardinality(SlotIds) = BlockSlots /\ Used \subseteq SlotIds
    <2>1. BlockSlots \in Nat
      BY WarpsAre
    <2>2. IsFiniteSet(SlotIds) /\ Cardinality(SlotIds) = BlockSlots
      BY <2>1, FS_Interval DEF SlotIds
    <2> QED BY <2>2
  <1> HIDE DEF place, R, Used
  <1>3. IsFiniteSet(Used) /\ Cardinality(Used) \in Nat /\ BlockSlots \in Nat
    BY <1>2, FS_Subset, FS_CardinalityType
  <1>4. IsFiniteSet(R) /\ Cardinality(R) <= Cardinality(Used) /\ Cardinality(R) \in Nat
    BY <1>1, <1>3, FS_Injection, FS_CardinalityType
  <1>5. CASE slotExpert[v] = -1
    <2>1. Used # SlotIds
      BY <1>5 DEF Used
    <2>2. Cardinality(Used) <= BlockSlots /\ Cardinality(Used) # BlockSlots
      BY <1>2, <2>1, FS_Subset
    <2> QED BY <1>3, <1>4, <1>5, <2>2 DEF R
  <1>6. CASE slotExpert[v] # -1
    <2>1. ASSUME NEW s \in SlotIds
          PROVE  slotExpert[s] \in R /\ blockMap[slotExpert[s]] = s
      <3>1. slotStamp[v] # 0 /\ slotStamp[v] <= slotStamp[s] /\ slotStamp[v] \in Nat /\ slotStamp[s] \in Nat
        BY <1>6 DEF TouchInv, BlockTypeOK
      <3>2. slotExpert[s] \in BlockExperts
        BY <3>1 DEF TouchInv, BlockTypeOK
      <3>3. slotExpert[s] >= 0
        BY <3>2, ExpertsAre
      <3>4. blockMap[slotExpert[s]] = s
        BY <3>3 DEF TableInv
      <3> QED BY <3>2, <3>4, ResidentHasSlot DEF R
    <2>2. slotExpert \in Injection(SlotIds, R)
      <3>1. slotExpert \in [SlotIds -> R]
        BY <2>1 DEF BlockTypeOK
      <3>2. \A r, s \in SlotIds : slotExpert[r] = slotExpert[s] => r = s
        BY <2>1
      <3> QED BY <3>1, <3>2 DEF Injection, IsInjective
    <2>3. BlockSlots <= Cardinality(R)
      BY <1>2, <1>4, <2>2, FS_Injection
    <2> QED BY <1>3, <1>4, <1>6, <2>3 DEF R
  <1> QED BY <1>5, <1>6

\* When the warps that were in step have left, every expert of the launch has a slot.
LEMMA NothingUnplaced ==
  ASSUME BlockInv, ~overtook, Finished
  PROVE  Unplaced = {}
  <1>1. EveryEntryKeepsItsSlot
    BY DoneInStep
  <1>2. ASSUME NEW e \in ToSet(entryIds)
        PROVE  ~(blockMap[e] < 0)
    <2>1. PICK u \in DOMAIN entryIds : e = entryIds[u]
      BY DEF ToSet
    <2>2. blockMap[e] = entryBase[u] /\ entryBase[u] >= 0 /\ entryBase[u] \in SlotIds \cup {-1}
      BY <1>1, <2>1 DEF EveryEntryKeepsItsSlot, BlockInv, BlockTypeOK
    <2>3. entryBase[u] \in Int
      BY Zenon, <2>2, SlotOrNone
    <2> QED BY <2>2, <2>3
  <1> QED BY <1>2 DEF Unplaced

\* A launch is a step that routes to its experts.
LEMMA LaunchTouches ==
  ASSUME BlockInv, TouchInv, TouchedNext, LaunchAdmit, ~overtook
  PROVE  Lru!Next
  <1> DEFINE R == ToSet(entryIds')
  <1>0. BlockTypeOK /\ TableInv
    BY DEF BlockInv
  <1>1. entryIds' \in Seq(BlockExperts) /\ blockMap' = blockMap /\ slotExpert' = slotExpert
    BY <1>0, LaunchTable DEF LaunchAdmit
  <1>2. R \subseteq BlockExperts
    BY <1>1, ElementOfSeq, LenProperties DEF ToSet
  <1>3. Unplaced = {}
    BY NothingUnplaced DEF LaunchAdmit
  <1>4. launchCount' = launchCount + 1
    BY DEF LaunchAdmit
  <1>5. ASSUME NEW s \in SlotIds
        PROVE  touchedIn'[s] = IF slotExpert[s] \in R THEN launchCount' ELSE touchedIn[s]
    <2>1. slotExpert[s] \in R <=> \E u \in DOMAIN entryIds' : blockMap[entryIds'[u]] = s
      BY <1>0, <1>1, HoldsOneOf
    <2>2. IF slotExpert[s] \in R THEN stampClock < slotStamp'[s] ELSE slotStamp'[s] = slotStamp[s]
      BY <1>0, <2>1, LaunchTable
    <2>3. stampClock \in Nat /\ slotStamp'[s] \in Nat /\ slotStamp[s] \in Nat /\ slotStamp[s] <= stampClock
      BY <1>0, LaunchTable DEF BlockTypeOK, TableInv
    <2>4. slotStamp'[s] # slotStamp[s] <=> slotExpert[s] \in R
      BY <2>2, <2>3
    <2>5. touchedIn'[s] = IF slotStamp'[s] # slotStamp[s] THEN launchCount' ELSE touchedIn[s]
      BY DEF TouchedNext
    <2> QED BY <2>4, <2>5
  <1> HIDE DEF R
  <1>6. ASSUME NEW e \in BlockExperts
        PROVE  BlockAge'[e] = IF e \in R \cap Lru!Resident THEN launchCount' ELSE BlockAge[e]
    <2>1. BlockAge'[e] = IF blockMap[e] < 0 THEN 0 ELSE touchedIn'[blockMap[e]]
      BY <1>1 DEF BlockAge
    <2>2. CASE e \in Lru!Resident
      <3>1. /\ blockMap[e] \in SlotIds /\ slotExpert[blockMap[e]] = e
            /\ BlockAge[e] = touchedIn[blockMap[e]]
        BY <1>0, <2>2, ResidentHasSlot
      <3>2. ~(blockMap[e] < 0)
        BY <1>0, <2>2, ResidentHasSlot
      <3> QED BY <1>5, <2>1, <2>2, <3>1, <3>2
    <2>3. CASE e \notin Lru!Resident
      <3>1. blockMap[e] < 0 /\ BlockAge[e] = 0
        BY <1>0, <2>3, ResidentHasSlot
      <3> QED BY <2>1, <2>3, <3>1
    <2> QED BY <2>2, <2>3
  <1>7. BlockAge' = [e \in BlockExperts |-> IF e \in R \cap Lru!Resident THEN launchCount' ELSE BlockAge[e]]
    <2>1. BlockAge' = [e \in BlockExperts |-> BlockAge'[e]]
      BY DEF BlockAge
    <2> QED BY <1>6, <2>1
  <1>8. Unplaced' = R \ Lru!Resident
    <2>1. Unplaced' = {e \in R : blockMap[e] < 0}
      BY <1>1 DEF Unplaced, R
    <2>2. \A e \in R : blockMap[e] < 0 <=> e \notin Lru!Resident
      BY Zenon, <1>0, <1>2, ResidentHasSlot
    <2> QED BY <2>1, <2>2
  <1>9. Lru!Touch(R)
    BY <1>3, <1>4, <1>7, <1>8 DEF Lru!Touch
  <1> QED BY <1>2, <1>9 DEF Lru!Next

\* An admission of the warps in step enters its expert, in a free place or in that of the oldest.
LEMMA AdmissionEnters ==
  ASSUME BlockInv, TouchInv, TouchedNext, AdmitEntry(0), ~overtook
  PROVE  Lru!Next
  <1>1. PICK t \in Places : InStep(t)
    BY DEF BlockInv, StepInv
  <1> DEFINE v == red[0].slot
             k == entryIds[t]
             old == slotExpert[v]
  <1>0. BlockTypeOK /\ TableInv /\ PlaceInv /\ Younger
    BY DEF BlockInv, StepInv
  <1>2. warpT[0] = t /\ \A r \in SlotIds : slotStamp[v] <= slotStamp[r]
    BY <1>0, <1>1, AdmitsOldest DEF AdmitEntry
  <1>3. /\ v \in SlotIds /\ t \in DOMAIN entryIds /\ k \in BlockExperts /\ blockMap[k] = -1
        /\ \A e \in BlockExperts : blockMap'[e] = IF e = k THEN v ELSE IF e = old THEN -1 ELSE blockMap[e]
        /\ \A r \in SlotIds : slotStamp'[r] = IF r = v THEN stampClock + 1 ELSE slotStamp[r]
        /\ entryIds' = entryIds
    BY <1>0, <1>2, AdmitTable
  <1>4. v \notin Kept
    <2>1. Missing(t)
      BY <1>3 DEF Missing
    <2> HIDE DEF v
    <2> QED BY <1>0, <1>2, <1>3, <2>1, VictimNotKept
  <1> HIDE DEF v, k
  <1>5. launchCount' = launchCount /\ v >= 0 /\ ~(v < 0)
    BY <1>3, SlotIsNat DEF AdmitEntry
  <1>6. \A r \in SlotIds : touchedIn'[r] = IF r = v THEN launchCount ELSE touchedIn[r]
    <2>1. \A r \in SlotIds : slotStamp'[r] # slotStamp[r] <=> r = v
      BY <1>0, <1>3 DEF BlockTypeOK, TableInv
    <2>2. \A r \in SlotIds : touchedIn'[r] = IF slotStamp'[r] # slotStamp[r] THEN launchCount' ELSE touchedIn[r]
      BY DEF TouchedNext
    <2> QED BY <1>5, <2>1, <2>2
  <1>7. \A e \in BlockExperts : BlockAge'[e] = IF e = k THEN launchCount ELSE IF e = old THEN 0 ELSE BlockAge[e]
    <2> TAKE e \in BlockExperts
    <2>1. BlockAge'[e] = IF blockMap'[e] < 0 THEN 0 ELSE touchedIn'[blockMap'[e]]
      BY DEF BlockAge
    <2>2. CASE e = k
      BY <1>3, <1>5, <1>6, <2>1, <2>2
    <2>3. CASE e # k /\ e = old
      BY <1>3, <2>1, <2>3
    <2>4. CASE e # k /\ e # old
      <3>1. blockMap'[e] = blockMap[e]
        BY <1>3, <2>4
      <3>2. CASE e \in Lru!Resident
        <4>1. /\ blockMap[e] \in SlotIds /\ slotExpert[blockMap[e]] = e
              /\ BlockAge[e] = touchedIn[blockMap[e]]
          BY <1>0, <3>2, ResidentHasSlot
        <4>2. blockMap[e] # v /\ ~(blockMap[e] < 0)
          BY Zenon, <1>0, <2>4, <3>2, <4>1, ResidentHasSlot
        <4> QED BY <1>6, <2>1, <2>4, <3>1, <4>1, <4>2
      <3>3. CASE e \notin Lru!Resident
        <4>1. blockMap[e] < 0 /\ BlockAge[e] = 0
          BY <1>0, <3>3, ResidentHasSlot
        <4> QED BY <2>1, <2>4, <3>1, <4>1
      <3> QED BY <3>2, <3>3
    <2> QED BY <2>2, <2>3, <2>4
  <1>8. BlockAge' = [e \in BlockExperts |-> BlockAge'[e]] /\ BlockAge = [e \in BlockExperts |-> BlockAge[e]]
    BY DEF BlockAge
  <1>9. k \in Unplaced /\ Unplaced' = Unplaced \ {k}
    <2>1. k \in ToSet(entryIds)
      BY <1>3 DEF ToSet, k
    <2>2. old \notin ToSet(entryIds)
      BY <1>3, <1>4 DEF Kept
    <2>3. ToSet(entryIds) \subseteq BlockExperts
      BY <1>0, PlacesAre DEF ToSet
    <2>4. Unplaced' = {e \in ToSet(entryIds) : blockMap'[e] < 0}
      BY <1>3 DEF Unplaced
    <2>5. \A e \in ToSet(entryIds) : blockMap'[e] < 0 <=> e # k /\ blockMap[e] < 0
      <3> TAKE e \in ToSet(entryIds)
      <3>1. blockMap'[e] = IF e = k THEN v ELSE blockMap[e]
        BY Zenon, <1>3, <2>2, <2>3
      <3> QED BY Zenon, <1>5, <3>1
    <2> QED BY <1>3, <2>1, <2>4, <2>5 DEF Unplaced
  <1>10. Lru!Cardinality(Lru!Resident) = Cardinality(Lru!Resident)
    BY DEF Lru!Cardinality, Cardinality
  <1>11. old = -1 <=> Cardinality(Lru!Resident) < BlockSlots
    BY <1>0, <1>2, <1>3, OldestFreeMeansRoom
  <1>12. CASE old = -1
    <2>1. \A e \in BlockExperts : e # old
      BY <1>12, ExpertsAre
    <2>2. BlockAge' = [BlockAge EXCEPT ![k] = launchCount]
      BY <1>3, <1>7, <1>8, <2>1
    <2>3. Lru!Enter(k)
      BY <1>5, <1>9, <1>10, <1>11, <1>12, <2>2 DEF Lru!Enter
    <2> QED BY <1>3, <2>3 DEF Lru!Next
  <1>13. CASE old # -1
    <2>1. old \in BlockExperts /\ old \in Nat
      BY <1>0, <1>3, <1>13, ExpertsAre DEF BlockTypeOK
    <2>2. blockMap[old] = v
      BY <1>0, <1>3, <2>1 DEF TableInv
    <2>3. old \in Lru!Resident /\ old # k /\ BlockAge[old] = touchedIn[v]
      BY <1>0, <1>3, <1>5, <2>1, <2>2, ResidentHasSlot
    <2>4. \A e \in Lru!Resident : BlockAge[old] <= BlockAge[e]
      <3> TAKE e \in Lru!Resident
      <3>1. blockMap[e] \in SlotIds /\ BlockAge[e] = touchedIn[blockMap[e]]
        BY <1>0, ResidentHasSlot
      <3> QED BY <1>2, <1>3, <2>3, <3>1 DEF TouchInv
    <2>5. BlockAge' = [BlockAge EXCEPT ![old] = 0, ![k] = launchCount]
      BY <1>3, <1>7, <1>8, <2>1, <2>3
    <2>6. Lru!Enter(k)
      BY <1>5, <1>9, <1>10, <1>11, <1>13, <2>3, <2>4, <2>5 DEF Lru!Enter
    <2> QED BY <1>3, <2>6 DEF Lru!Next
  <1> QED BY <1>12, <1>13

\* Other steps leave the set as it is.
LEMMA OthersStutter ==
  ASSUME TouchInv, UNCHANGED <<blockMap, entryIds, launchCount, touchedIn>>
  PROVE  UNCHANGED Lru!lruVars
  BY DEF Lru!lruVars, BlockAge, Unplaced

\* So a step that no warp has overtaken is one of LruSet.
LEMMA TouchedRefines ==
  ASSUME BlockInv, TouchInv, [TouchedNext]_touchedVars, ~overtook
  PROVE  [Lru!Next]_(Lru!lruVars)
  <1>1. CASE TouchedNext
    <2>1. ASSUME UNCHANGED slotStamp
          PROVE  touchedIn' = touchedIn
      <3>1. touchedIn' = [s \in SlotIds |-> touchedIn[s]]
        BY <1>1, <2>1 DEF TouchedNext
      <3> QED BY <3>1 DEF TouchInv
    <2>2. CASE LaunchAdmit
      BY <1>1, <2>2, LaunchTouches
    <2>3. CASE Barrier
      BY <2>1, <2>3, OthersStutter DEF Barrier, blockTable
    <2>4. ASSUME NEW w \in Warps, CheckEntry(w) \/ LookDuplicate(w) \/ ScanSlots(w) \/ ReduceStep(w)
          PROVE  UNCHANGED Lru!lruVars
      <3>1. UNCHANGED <<blockMap, slotStamp, entryIds, launchCount>>
        BY <2>4 DEF CheckEntry, LookDuplicate, ScanSlots, ReduceStep, blockTable
      <3> QED BY <2>1, <3>1, OthersStutter
    <2>5. ASSUME NEW w \in Warps, AdmitEntry(w)
          PROVE  [Lru!Next]_(Lru!lruVars)
      <3>1. CASE w = 0
        BY <1>1, <2>5, <3>1, AdmissionEnters
      <3>2. CASE w # 0
        <4>1. UNCHANGED <<blockMap, slotStamp, entryIds, launchCount>>
          BY <2>5, <3>2 DEF AdmitEntry, blockTable
        <4> QED BY <2>1, <4>1, OthersStutter
      <3> QED BY <3>1, <3>2
    <2> QED BY <1>1, <2>2, <2>3, <2>4, <2>5 DEF TouchedNext, BlockNext
  <1>2. CASE UNCHANGED touchedVars
    BY <1>2, OthersStutter DEF touchedVars, blockVars, blockTable
  <1> QED BY <1>1, <1>2

\* The first state is the empty set.
LEMMA TouchedInitRefines == TouchedInit => Lru!Init
  <1> SUFFICES ASSUME TouchedInit
               PROVE  Lru!Init
    OBVIOUS
  <1>1. entryIds = <<>> /\ blockMap = [e \in BlockExperts |-> -1] /\ launchCount = 0
    BY DEF TouchedInit, BlockInit
  <1>2. Unplaced = {}
    BY <1>1 DEF Unplaced, ToSet
  <1>3. BlockAge = [e \in BlockExperts |-> 0]
    BY <1>1 DEF BlockAge
  <1> QED BY <1>1, <1>2, <1>3 DEF Lru!Init

\* The slot table that lru_admit keeps on the device is the abstract set of LruSet, as the one
\* of SlotCache on the host is, as long as no warp overtakes: for two or four warps of any size,
\* any slots, launches and entries that fit, experts that are shared among them.
THEOREM BlockImplementsLruInStep == TouchedSpec => BlockRefinesLruInStep
  <1> DEFINE Inv == BlockInv /\ TouchInv
             Step == ~overtook /\ ~overtook' => [Lru!Next]_(Lru!lruVars)
  <1>1. TouchedInit => Inv /\ Lru!Init
    BY BlockInitInv, TouchInit, TouchedInitRefines DEF TouchedInit
  <1>2. Inv /\ [TouchedNext]_touchedVars => Inv'
    <2>1. [TouchedNext]_touchedVars => [BlockNext]_blockVars
      BY DEF TouchedNext, touchedVars
    <2> QED BY <2>1, BlockInvStep, TouchStep DEF BlockInv
  <1>3. Inv /\ [TouchedNext]_touchedVars => [Step]_touchedVars
    BY TouchedRefines
  <1> HIDE DEF Inv, Step
  <1>4. TouchedSpec => Lru!Init /\ [][Step]_touchedVars
    BY <1>1, <1>2, <1>3, PTL DEF TouchedSpec
  <1> QED BY <1>4 DEF BlockRefinesLruInStep, Step

\* For launches that route to no expert twice it is so whatever the pace of the warps.
THEOREM BlockImplementsLru ==
  ASSUME NoneShared
  PROVE  TouchedSpec => BlockRefinesLru
  <1> DEFINE Inv == BlockInv /\ TouchInv /\ ~overtook /\ entryIds \in EntryLists \cup {<<>>}
  <1>1. TouchedInit => Inv /\ Lru!Init
    BY BlockInitInv, TouchInit, TouchedInitRefines DEF TouchedInit, BlockInit
  <1>2. Inv /\ [TouchedNext]_touchedVars => Inv'
    <2>1. [TouchedNext]_touchedVars => [BlockNext]_blockVars
      BY DEF TouchedNext, touchedVars
    <2> QED BY <2>1, BlockInvStep, TouchStep, NobodyOvertakes DEF BlockInv
  <1>3. Inv /\ [TouchedNext]_touchedVars => [Lru!Next]_(Lru!lruVars)
    BY TouchedRefines
  <1> HIDE DEF Inv
  <1> QED BY <1>1, <1>2, <1>3, PTL DEF TouchedSpec, BlockRefinesLru, Lru!Spec

=============================================================================
