--------------------------- MODULE SlotCacheProofs ---------------------------
(***************************************************************************)
(* Proofs about SlotCache and SlotCacheWindow, for every number of layers, *)
(* experts and slots, and every size of a step.                            *)
(***************************************************************************)
EXTENDS SlotCacheWindow, FiniteSetTheorems, TLAPS

-----------------------------------------------------------------------------
(* Facts about the constants and the operators *)

\* What a step routes to are keys.
LEMMA RoutedKeys ==
  ASSUME NEW l \in Layers, NEW E \in Routes
  PROVE  ({l} \X E) \subseteq Keys
  BY DEF Keys, Routes

\* A step routes to no more than TopK keys.
LEMMA RoutedKeysBound ==
  ASSUME NEW l \in Layers, NEW E \in Routes
  PROVE  /\ IsFiniteSet({l} \X E)
         /\ Cardinality({l} \X E) <= TopK
  <1>1. IsFiniteSet(E)
    BY FS_Subset, ExpertsAssumption DEF Routes
  <1>2. /\ IsFiniteSet({l} \X E)
        /\ Cardinality({l} \X E) = Cardinality({l}) * Cardinality(E)
    BY <1>1, FS_Singleton, FS_Product
  <1>3. Cardinality({l}) = 1 /\ Cardinality(E) \in Nat
    BY <1>1, FS_Singleton, FS_CardinalityType
  <1>4. Cardinality(E) <= TopK
    BY DEF Routes
  <1> QED BY <1>2, <1>3, <1>4

\* There are Capacity slots.
LEMMA SlotsFinite == IsFiniteSet(Slots) /\ Cardinality(Slots) = Capacity
  BY FS_Interval, SizesAssumption DEF Slots

-----------------------------------------------------------------------------
(* Types *)

\* Type correctness is inductive: lookup, an admission and forget keep it.
LEMMA CacheTypeStep ==
  ASSUME CacheTypeOK, [CacheNext]_cacheVars
  PROVE  CacheTypeOK'
  <1>1. ASSUME NEW l \in Layers, NEW E \in Routes, Lookup(l, E)
        PROVE  CacheTypeOK'
    <2> DEFINE R == {l} \X E
    <2>1. R \subseteq Keys
      BY RoutedKeys
    <2>2. tick' \in Nat /\ tick' = tick + 1
      BY <1>1 DEF Lookup, CacheTypeOK
    <2>3. lastUsed' \in [Slots -> 0..tick']
      BY <1>1, <2>2 DEF Lookup, CacheTypeOK
    <2>4. grant' \in [Keys -> Slots \cup {None}]
      BY <1>1 DEF Lookup, CacheTypeOK
    <2>5. todo' \subseteq Keys /\ hits' \subseteq Keys /\ misses' \subseteq Keys
      BY <1>1, <2>1 DEF Lookup, Hits
    <2> QED BY <1>1, <2>2, <2>3, <2>4, <2>5 DEF Lookup, CacheTypeOK
  <1>2. ASSUME NEW k \in Keys, Admit(k)
        PROVE  CacheTypeOK'
    <2>1. PICK s \in Slots :
            /\ map' = Remap(k, s)
            /\ slots' = [slots EXCEPT ![s] = k]
            /\ lastUsed' = [lastUsed EXCEPT ![s] = tick]
            /\ grant' = [grant EXCEPT ![k] = s]
      BY <1>2 DEF Admit
    <2>2. map' \in [Keys -> Slots \cup {None}]
      BY <2>1 DEF Remap, CacheTypeOK
    <2>3. slots' \in [Slots -> Keys \cup {None}]
      BY <2>1 DEF CacheTypeOK
    <2>4. tick' = tick /\ tick \in Nat /\ tick \in 0..tick
      BY <1>2 DEF Admit, CacheTypeOK
    <2>5. lastUsed' \in [Slots -> 0..tick']
      BY <2>1, <2>4 DEF CacheTypeOK
    <2>6. grant' \in [Keys -> Slots \cup {None}]
      BY <2>1 DEF CacheTypeOK
    <2>7. todo' \subseteq Keys /\ hits' \subseteq Keys /\ misses' \subseteq Keys
      BY <1>2 DEF Admit, CacheTypeOK
    <2> QED BY <2>2, <2>3, <2>4, <2>5, <2>6, <2>7 DEF CacheTypeOK
  <1>3. ASSUME NEW k \in Keys, Forget(k)
        PROVE  CacheTypeOK'
    BY <1>3 DEF Forget, CacheTypeOK
  <1>4. CASE UNCHANGED cacheVars
    BY <1>4 DEF cacheVars, CacheTypeOK
  <1> QED BY <1>1, <1>2, <1>3, <1>4 DEF CacheNext

\* The variables keep their types; in particular no slot is ever stamped with
\* a tick that has not come yet, which is what lets a new tick be the youngest.
THEOREM CacheTypeCorrect == CacheSpec => []CacheTypeOK
  <1>1. CacheInit => CacheTypeOK
    BY DEF CacheInit, CacheTypeOK
  <1>2. CacheTypeOK /\ [CacheNext]_cacheVars => CacheTypeOK'
    BY CacheTypeStep
  <1> QED BY <1>1, <1>2, PTL DEF CacheSpec

-----------------------------------------------------------------------------
(* The map and the slot table agree *)

\* Agreement alone is not inductive: Admit would break it for an expert that
\* is mapped already, so the experts that wait for a slot must not be.
TodoUnmapped == \A k \in todo : map[k] = None

\* Each pass of lookup, and forget, changes map and slot table together.
LEMMA MapMatchesSlotsStep ==
  ASSUME CacheTypeOK, MapMatchesSlots, TodoUnmapped, [CacheNext]_cacheVars
  PROVE  MapMatchesSlots' /\ TodoUnmapped'
  <1>1. ASSUME NEW l \in Layers, NEW E \in Routes, Lookup(l, E)
        PROVE  MapMatchesSlots' /\ TodoUnmapped'
    BY <1>1 DEF Lookup, Hits, MapMatchesSlots, TodoUnmapped
  <1>2. ASSUME NEW k \in Keys, Admit(k)
        PROVE  MapMatchesSlots' /\ TodoUnmapped'
    <2>1. PICK s \in Slots :
            map' = Remap(k, s) /\ slots' = [slots EXCEPT ![s] = k] /\ IsLruSlot(s)
      BY <1>2 DEF Admit
    <2>2. \A j \in Keys : map'[j] = IF j = k THEN s
                                    ELSE IF j = slots[s] THEN None ELSE map[j]
      BY <2>1 DEF Remap
    <2>3. \A t \in Slots : slots'[t] = IF t = s THEN k ELSE slots[t]
      BY <2>1 DEF CacheTypeOK
    <2>4. map[k] = None
      BY <1>2 DEF Admit, TodoUnmapped
    <2>5. ASSUME NEW j \in Keys, NEW t \in Slots
          PROVE  map'[j] = t <=> slots'[t] = j
      <3>1. map[j] = t <=> slots[t] = j
        BY DEF MapMatchesSlots
      <3>2. map[j] = s <=> slots[s] = j
        BY DEF MapMatchesSlots
      <3>3. None # t /\ None # j
        BY NoneAssumption
      <3> QED BY <2>2, <2>3, <2>4, <3>1, <3>2, <3>3
    <2>6. todo' \subseteq todo \ {k} /\ todo \subseteq Keys
      BY <1>2 DEF Admit, CacheTypeOK
    <2> QED BY <2>2, <2>5, <2>6 DEF MapMatchesSlots, TodoUnmapped
  <1>3. ASSUME NEW k \in Keys, Forget(k)
        PROVE  MapMatchesSlots' /\ TodoUnmapped'
    BY <1>3, NoneAssumption DEF Forget, CacheTypeOK, MapMatchesSlots, TodoUnmapped
  <1>4. CASE UNCHANGED cacheVars
    BY <1>4 DEF cacheVars, MapMatchesSlots, TodoUnmapped
  <1> QED BY <1>1, <1>2, <1>3, <1>4 DEF CacheNext

\* A mapped key is in the slot it maps to, and in no other.
THEOREM MapMatchesSlotsAlways == CacheSpec => []MapMatchesSlots
  <1>1. CacheInit => MapMatchesSlots /\ TodoUnmapped
    BY NoneAssumption DEF CacheInit, MapMatchesSlots, TodoUnmapped
  <1>2. CacheTypeOK /\ MapMatchesSlots /\ TodoUnmapped /\ [CacheNext]_cacheVars
          => MapMatchesSlots' /\ TodoUnmapped'
    BY MapMatchesSlotsStep
  <1> QED BY <1>1, <1>2, CacheTypeCorrect, PTL DEF CacheSpec

-----------------------------------------------------------------------------
(***************************************************************************)
(* A step's hits and admissions survive the step, provided there are as    *)
(* many slots as experts in a step.  Alone this is not inductive: what     *)
(* keeps Admit away from a granted slot is that its stamp is the current   *)
(* tick, that only granted slots have this stamp, and that while an expert *)
(* still waits for a slot they are fewer than all slots.                   *)
(***************************************************************************)
Granted == hits \cup misses

GrantInv ==
  /\ CacheTypeOK
  /\ MapMatchesSlots
  /\ \A k \in Granted : map[k] = grant[k] /\ map[k] # None
  /\ todo \cap Granted = {} /\ TodoUnmapped
  /\ hits \cap misses = {}
  /\ IsFiniteSet(todo \cup Granted) /\ Cardinality(todo \cup Granted) <= TopK
  /\ todo # {} => \A s \in Slots : lastUsed[s] = tick <=> slots[s] \in Granted

\* The pigeonhole: while an expert waits, some slot is not granted, so the
\* slot that take_lru_slot picks is not granted either.
LEMMA VictimNotGranted ==
  ASSUME TopK <= Capacity, GrantInv, NEW k \in todo, NEW s \in Slots, IsLruSlot(s)
  PROVE  slots[s] \notin Granted
  <1>1. CASE Free # {}
    BY <1>1, NoneAssumption DEF IsLruSlot, Free, GrantInv, CacheTypeOK, Granted
  <1>2. CASE Free = {}
    <2> SUFFICES ASSUME slots[s] \in Granted
                 PROVE  FALSE
      OBVIOUS
    <2>1. lastUsed[s] = tick
      BY DEF GrantInv
    <2>2. \A t \in Slots : lastUsed[t] = tick
      <3> TAKE t \in Slots
      <3>1. lastUsed[s] <= lastUsed[t]
        BY <1>2 DEF IsLruSlot, GrantInv, CacheTypeOK
      <3>2. lastUsed[t] \in 0..tick /\ tick \in Nat
        BY DEF GrantInv, CacheTypeOK
      <3> QED BY <2>1, <3>1, <3>2
    <2>3. slots \in [Slots -> Granted]
      BY <2>2 DEF GrantInv, CacheTypeOK
    <2>4. IsFiniteSet(Granted) /\ Cardinality(Granted) < Cardinality(Slots)
      <3>1. IsFiniteSet(Granted) /\ Granted \subseteq (todo \cup Granted)
        BY FS_Subset DEF GrantInv
      <3>2. k \notin Granted
        BY DEF GrantInv
      <3>3. /\ Cardinality(Granted) <= Cardinality(todo \cup Granted)
            /\ Cardinality(Granted) # Cardinality(todo \cup Granted)
        BY <3>1, <3>2, FS_Subset DEF GrantInv
      <3>4. Cardinality(Granted) \in Nat /\ Cardinality(todo \cup Granted) \in Nat
        BY <3>1, FS_CardinalityType DEF GrantInv
      <3> QED BY <3>1, <3>3, <3>4, SlotsFinite, SizesAssumption DEF GrantInv
    <2>5. PICK x, y \in Slots : x # y /\ slots[x] = slots[y]
      BY <2>3, <2>4, SlotsFinite, FS_PigeonHole
    <2>6. slots[x] \in Keys
      BY <2>3 DEF GrantInv, CacheTypeOK, Granted
    <2> QED BY <2>5, <2>6 DEF GrantInv, MapMatchesSlots
  <1> QED BY <1>1, <1>2

\* Before the first lookup nothing is granted.
LEMMA GrantInvInit == CacheInit => GrantInv
  <1> SUFFICES ASSUME CacheInit
               PROVE  GrantInv
    OBVIOUS
  <1>1. CacheTypeOK
    BY DEF CacheInit, CacheTypeOK
  <1>2. MapMatchesSlots
    BY NoneAssumption DEF CacheInit, MapMatchesSlots
  <1>3. todo = {} /\ Granted = {} /\ todo \cup Granted = {}
    BY DEF CacheInit, Granted
  <1>4. IsFiniteSet({}) /\ Cardinality({}) = 0
    BY FS_EmptySet
  <1> QED BY <1>1, <1>2, <1>3, <1>4, SizesAssumption DEF GrantInv, TodoUnmapped, Granted

\* Pass 1 stamps the slots of the hits, and only those, with the new tick.
LEMMA GrantInvLookup ==
  ASSUME GrantInv, CacheTypeOK', MapMatchesSlots',
         NEW l \in Layers, NEW E \in Routes, Lookup(l, E)
  PROVE  GrantInv'
  <1> DEFINE R == {l} \X E
  <1>1. R \subseteq Keys /\ IsFiniteSet(R) /\ Cardinality(R) <= TopK
    BY RoutedKeys, RoutedKeysBound
  <1>2. Granted' = Hits(R) /\ todo' = R \ Hits(R) /\ todo' \cup Granted' = R
    BY DEF Lookup, Granted, Hits
  <1>3. \A k \in Hits(R) : map'[k] = grant'[k] /\ map'[k] # None
    BY <1>1 DEF Lookup, Hits
  <1>5. \A k \in todo' : map'[k] = None
    BY <1>1, <1>2 DEF Lookup, Hits
  <1>4. ASSUME NEW s \in Slots
        PROVE  lastUsed'[s] = tick' <=> slots'[s] \in Granted'
    <2>1. lastUsed'[s] = IF \E k \in Hits(R) : map[k] = s
                         THEN tick' ELSE lastUsed[s]
      BY DEF Lookup
    <2>2. lastUsed[s] # tick'
      BY DEF Lookup, GrantInv, CacheTypeOK
    <2>3. \A k \in Hits(R) : map[k] = s <=> slots[s] = k
      BY <1>1 DEF GrantInv, MapMatchesSlots, Hits
    <2>4. slots' = slots
      BY DEF Lookup
    <2> QED BY <1>2, <2>1, <2>2, <2>3, <2>4
  <1>6. misses' = {}
    BY DEF Lookup
  <1> QED BY <1>1, <1>2, <1>3, <1>4, <1>5, <1>6 DEF GrantInv, TodoUnmapped

\* Pass 2 takes a slot that is not granted, and stamps it as granted.
LEMMA GrantInvAdmit ==
  ASSUME TopK <= Capacity, GrantInv, CacheTypeOK', MapMatchesSlots',
         NEW k \in Keys, Admit(k)
  PROVE  GrantInv'
  <1>1. PICK s \in Slots :
          /\ IsLruSlot(s)
          /\ map' = Remap(k, s)
          /\ slots' = [slots EXCEPT ![s] = k]
          /\ lastUsed' = [lastUsed EXCEPT ![s] = tick]
          /\ grant' = [grant EXCEPT ![k] = s]
    BY DEF Admit
  <1>2. k \in todo /\ k \notin Granted /\ slots[s] \notin Granted
    BY <1>1, VictimNotGranted DEF Admit, GrantInv
  <1>3. Granted' = Granted \cup {k} /\ todo' = todo \ {k} /\ tick' = tick
    BY DEF Admit, Granted
  <1>4. todo' \cup Granted' = todo \cup Granted
    BY <1>2, <1>3
  <1>5. ASSUME NEW j \in Granted'
        PROVE  map'[j] = grant'[j] /\ map'[j] # None
    <2>1. j \in Keys
      BY <1>3 DEF Granted, GrantInv, CacheTypeOK
    <2>2. map'[j] = IF j = k THEN s ELSE IF j = slots[s] THEN None ELSE map[j]
      BY <1>1, <2>1 DEF Remap
    <2>3. grant'[j] = IF j = k THEN s ELSE grant[j]
      BY <1>1, <2>1 DEF GrantInv, CacheTypeOK
    <2>4. j # k => j \in Granted
      BY <1>3
    <2> QED BY <1>2, <2>2, <2>3, <2>4, NoneAssumption DEF GrantInv
  <1>6. ASSUME todo' # {}, NEW t \in Slots
        PROVE  lastUsed'[t] = tick' <=> slots'[t] \in Granted'
    <2>1. slots'[t] = (IF t = s THEN k ELSE slots[t])
      BY <1>1 DEF GrantInv, CacheTypeOK
    <2>2. lastUsed'[t] = (IF t = s THEN tick ELSE lastUsed[t])
      BY <1>1 DEF GrantInv, CacheTypeOK
    <2>3. lastUsed[t] = tick <=> slots[t] \in Granted
      BY <1>2 DEF GrantInv
    <2>4. slots[t] # k
      <3>1. map[k] = None /\ k \in Keys
        BY <1>2 DEF GrantInv, TodoUnmapped
      <3> QED BY <3>1, NoneAssumption DEF GrantInv, MapMatchesSlots
    <2> QED BY <1>3, <2>1, <2>2, <2>3, <2>4
  <1>7. ASSUME NEW j \in todo'
        PROVE  map'[j] = None
    <2>1. j \in todo /\ j # k /\ j \in Keys
      BY <1>3 DEF GrantInv, CacheTypeOK
    <2>2. map'[j] = IF j = slots[s] THEN None ELSE map[j]
      BY <1>1, <2>1 DEF Remap
    <2> QED BY <2>1, <2>2 DEF GrantInv, TodoUnmapped
  <1>8. hits' \cap misses' = {}
    BY <1>2 DEF Admit, GrantInv, Granted
  <1> QED BY <1>2, <1>3, <1>4, <1>5, <1>6, <1>7, <1>8 DEF GrantInv, TodoUnmapped

\* forget takes a miss out of its slot and out of the grants.
LEMMA GrantInvForget ==
  ASSUME GrantInv, CacheTypeOK', MapMatchesSlots', NEW k \in Keys, Forget(k)
  PROVE  GrantInv'
  <1>1. /\ todo = {} /\ todo' = {} /\ misses' = misses \ {k} /\ hits' = hits
        /\ grant' = [grant EXCEPT ![k] = None] /\ k \in misses
    BY DEF Forget
  <1>2. map[k] # None
    BY <1>1 DEF GrantInv, Granted
  <1>3. map' = [map EXCEPT ![k] = None]
    BY <1>2 DEF Forget
  <1>4. Granted' = Granted \ {k}
    BY <1>1 DEF Granted, GrantInv
  <1>5. \A j \in Granted' : map'[j] = grant'[j] /\ map'[j] # None
    BY <1>1, <1>3, <1>4 DEF GrantInv, CacheTypeOK, Granted
  <1>6. IsFiniteSet(todo' \cup Granted') /\ Cardinality(todo' \cup Granted') <= TopK
    <2>1. (todo' \cup Granted') \subseteq (todo \cup Granted)
      BY <1>1, <1>4
    <2>2. IsFiniteSet(todo \cup Granted) /\ Cardinality(todo \cup Granted) <= TopK
      BY DEF GrantInv
    <2>3. /\ IsFiniteSet(todo' \cup Granted')
          /\ Cardinality(todo' \cup Granted') <= Cardinality(todo \cup Granted)
      BY <2>1, <2>2, FS_Subset
    <2>4. Cardinality(todo' \cup Granted') \in Nat /\ Cardinality(todo \cup Granted) \in Nat
      BY <2>2, <2>3, FS_CardinalityType
    <2> QED BY <2>2, <2>3, <2>4, SizesAssumption
  <1>7. hits' \cap misses' = {}
    BY <1>1 DEF GrantInv
  <1> QED BY <1>1, <1>5, <1>6, <1>7 DEF GrantInv, TodoUnmapped

\* GrantInv is inductive, given as many slots as experts in a step.
LEMMA GrantInvStep ==
  ASSUME TopK <= Capacity, GrantInv, CacheTypeOK', [CacheNext]_cacheVars
  PROVE  GrantInv'
  <1>1. MapMatchesSlots'
    BY MapMatchesSlotsStep DEF GrantInv
  <1>2. ASSUME NEW l \in Layers, NEW E \in Routes, Lookup(l, E)
        PROVE  GrantInv'
    BY <1>1, <1>2, GrantInvLookup
  <1>3. ASSUME NEW k \in Keys, Admit(k)
        PROVE  GrantInv'
    BY <1>1, <1>3, GrantInvAdmit
  <1>4. ASSUME NEW k \in Keys, Forget(k)
        PROVE  GrantInv'
    BY <1>1, <1>4, GrantInvForget
  <1>5. CASE UNCHANGED cacheVars
    BY <1>5 DEF cacheVars, GrantInv, Granted, CacheTypeOK, MapMatchesSlots, TodoUnmapped
  <1> QED BY <1>2, <1>3, <1>4, <1>5 DEF CacheNext

\* With at least as many slots as experts in a step, every (expert, slot) pair
\* a lookup returns is still in force when the lookup has returned and the
\* caller reads hits and fills misses, in whatever order it forgets others.
THEOREM GrantsSurvive ==
  ASSUME TopK <= Capacity
  PROVE  CacheSpec => []GrantsSurviveTheStep
  <1>1. CacheInit => GrantInv
    BY GrantInvInit
  <1>2. GrantInv /\ CacheTypeOK' /\ [CacheNext]_cacheVars => GrantInv'
    BY GrantInvStep
  <1>3. GrantInv => GrantsSurviveTheStep
    BY DEF GrantInv, GrantsSurviveTheStep, Granted
  <1> QED BY <1>1, <1>2, <1>3, CacheTypeCorrect, PTL DEF CacheSpec

-----------------------------------------------------------------------------
(***************************************************************************)
(* The cache implements LruSet.  The refinement mapping Age needs to tell  *)
(* resident keys from others by their age alone, so an occupied slot must  *)
(* bear a stamp other than 0.                                              *)
(***************************************************************************)
RefineInv ==
  /\ CacheTypeOK /\ MapMatchesSlots /\ TodoUnmapped
  /\ \A s \in Slots : slots[s] # None => lastUsed[s] # 0
  /\ todo # {} => tick # 0

\* The residents of LruSet are the keys that are mapped.
LEMMA ResidentIsMapped ==
  ASSUME RefineInv
  PROVE  /\ Lru!Resident = {k \in Keys : map[k] # None}
         /\ \A k \in Lru!Resident : map[k] \in Slots /\ slots[map[k]] = k
  <1>1. \A k \in Keys : map[k] # None => map[k] \in Slots /\ slots[map[k]] = k
    BY DEF RefineInv, CacheTypeOK, MapMatchesSlots
  <1>2. \A k \in Keys : Age[k] # 0 <=> map[k] # None
    BY <1>1, NoneAssumption DEF Age, RefineInv
  <1> QED BY <1>1, <1>2 DEF Lru!Resident

\* There is a free slot just when fewer keys than slots are resident.
LEMMA FreeMeansRoom ==
  ASSUME RefineInv
  PROVE  Free # {} <=> Cardinality(Lru!Resident) < Capacity
  <1> DEFINE R == Lru!Resident
             place == [k \in R |-> map[k]]
  <1>1. place \in [R -> Slots \ Free]
    BY ResidentIsMapped, NoneAssumption DEF Free
  <1>2. \A j, k \in R : place[j] = place[k] => j = k
    BY ResidentIsMapped
  <1>3. place \in Injection(R, Slots \ Free)
    BY <1>1, <1>2 DEF Injection, IsInjective
  <1>4. IsFiniteSet(Slots \ Free)
    BY SlotsFinite, FS_Subset
  <1>5. IsFiniteSet(R) /\ Cardinality(R) <= Cardinality(Slots \ Free)
    BY <1>3, <1>4, FS_Injection
  <1>6. ASSUME Free # {}
        PROVE  Cardinality(R) < Capacity
    <2>1. /\ Cardinality(Slots \ Free) <= Cardinality(Slots)
          /\ Cardinality(Slots) = Cardinality(Slots \ Free) => Slots = Slots \ Free
      BY SlotsFinite, FS_Subset
    <2>2. Slots # Slots \ Free
      BY <1>6 DEF Free
    <2>3. Cardinality(R) \in Nat /\ Cardinality(Slots \ Free) \in Nat
      BY <1>4, <1>5, FS_CardinalityType
    <2> QED BY <1>5, <2>1, <2>2, <2>3, SlotsFinite, SizesAssumption
  <1>7. ASSUME Free = {}
        PROVE  ~(Cardinality(R) < Capacity)
    <2>1. slots \in [Slots -> R]
      BY <1>7, ResidentIsMapped, NoneAssumption
         DEF Free, RefineInv, CacheTypeOK, MapMatchesSlots
    <2>2. \A s, t \in Slots : slots[s] = slots[t] => s = t
      BY <2>1, ResidentIsMapped DEF RefineInv, MapMatchesSlots
    <2>3. slots \in Injection(Slots, R)
      BY <2>1, <2>2 DEF Injection, IsInjective
    <2>4. Capacity <= Cardinality(R)
      BY <1>5, <2>3, SlotsFinite, FS_Injection
    <2> QED BY <1>5, <2>4, FS_CardinalityType, SizesAssumption
  <1> QED BY <1>6, <1>7

\* RefineInv is inductive.
LEMMA RefineInvStep ==
  ASSUME RefineInv, [CacheNext]_cacheVars
  PROVE  RefineInv'
  <1>1. CacheTypeOK' /\ MapMatchesSlots' /\ TodoUnmapped'
    BY CacheTypeStep, MapMatchesSlotsStep DEF RefineInv
  <1>2. ASSUME NEW l \in Layers, NEW E \in Routes, Lookup(l, E)
        PROVE  RefineInv'
    <2>1. tick' # 0
      BY <1>2 DEF Lookup, RefineInv, CacheTypeOK
    <2>2. \A s \in Slots : lastUsed'[s] = tick' \/ lastUsed'[s] = lastUsed[s]
      BY <1>2 DEF Lookup
    <2>3. slots' = slots
      BY <1>2 DEF Lookup
    <2> QED BY <1>1, <2>1, <2>2, <2>3 DEF RefineInv
  <1>3. ASSUME NEW k \in Keys, Admit(k)
        PROVE  RefineInv'
    BY <1>1, <1>3 DEF Admit, RefineInv, CacheTypeOK
  <1>4. ASSUME NEW k \in Keys, Forget(k)
        PROVE  RefineInv'
    <2>1. CASE map[k] = None
      BY <1>1, <1>4, <2>1 DEF Forget, RefineInv
    <2>2. CASE map[k] # None
      BY <1>1, <1>4, <2>2 DEF Forget, RefineInv, CacheTypeOK
    <2> QED BY <2>1, <2>2
  <1>5. CASE UNCHANGED cacheVars
    BY <1>1, <1>5 DEF cacheVars, RefineInv
  <1> QED BY <1>2, <1>3, <1>4, <1>5 DEF CacheNext

\* Pass 1 of lookup is a step that routes to its keys.
LEMMA LookupTouches ==
  ASSUME RefineInv, RefineInv', NEW l \in Layers, NEW E \in Routes, Lookup(l, E)
  PROVE  Lru!Touch({l} \X E)
  <1> DEFINE R == {l} \X E
  <1>1. R \subseteq Keys
    BY RoutedKeys
  <1>2. Hits(R) = R \cap Lru!Resident
    BY <1>1, ResidentIsMapped DEF Hits
  <1>3. Age' = [k \in Keys |-> IF k \in Hits(R) THEN tick' ELSE Age[k]]
    <2>1. SUFFICES ASSUME NEW k \in Keys
                   PROVE  Age'[k] = IF k \in Hits(R) THEN tick' ELSE Age[k]
      BY DEF Age
    <2>2. Age'[k] = IF map[k] = None THEN 0 ELSE lastUsed'[map[k]]
      BY DEF Age, Lookup
    <2>3. CASE map[k] = None
      BY <2>2, <2>3 DEF Hits, Age
    <2>4. CASE map[k] # None
      <3>1. map[k] \in Slots
        BY <2>4 DEF RefineInv, CacheTypeOK
      <3>2. (\E j \in Hits(R) : map[j] = map[k]) <=> k \in Hits(R)
        BY <1>1, <3>1 DEF Hits, RefineInv, MapMatchesSlots
      <3>3. lastUsed'[map[k]] = IF k \in Hits(R) THEN tick' ELSE lastUsed[map[k]]
        BY <3>1, <3>2 DEF Lookup
      <3> QED BY <2>2, <2>4, <3>3 DEF Age
    <2> QED BY <2>3, <2>4
  <1> QED BY <1>2, <1>3 DEF Lookup, Lru!Touch

\* Admission enters the key, in a free place or in that of the oldest key.
LEMMA AdmitEnters ==
  ASSUME RefineInv, RefineInv', NEW k \in Keys, Admit(k)
  PROVE  Lru!Enter(k)
  <1>1. PICK s \in Slots :
          /\ IsLruSlot(s)
          /\ map' = Remap(k, s)
          /\ lastUsed' = [lastUsed EXCEPT ![s] = tick]
    BY DEF Admit
  <1>2. k \in todo /\ todo' = todo \ {k} /\ tick' = tick /\ map[k] = None
    BY DEF Admit, RefineInv, TodoUnmapped
  <1>3. \A j \in Keys : Age'[j] = IF j = k THEN tick
                                  ELSE IF j = slots[s] THEN 0 ELSE Age[j]
    <2> TAKE j \in Keys
    <2>1. map'[j] = IF j = k THEN s ELSE IF j = slots[s] THEN None ELSE map[j]
      BY <1>1 DEF Remap
    <2>2. \A t \in Slots : lastUsed'[t] = IF t = s THEN tick ELSE lastUsed[t]
      BY <1>1 DEF RefineInv, CacheTypeOK
    <2>3. Age'[j] = IF map'[j] = None THEN 0 ELSE lastUsed'[map'[j]]
      BY DEF Age
    <2>4. j # slots[s] /\ map[j] # None => map[j] \in Slots /\ map[j] # s
      BY DEF RefineInv, CacheTypeOK, MapMatchesSlots
    <2> QED BY <2>1, <2>2, <2>3, <2>4, NoneAssumption DEF Age
  <1>4. Age \in [Keys -> Int] /\ Age' = [j \in Keys |-> Age'[j]]
    BY DEF Age, RefineInv, CacheTypeOK
  <1>0. Lru!Cardinality(Lru!Resident) = Cardinality(Lru!Resident)
    BY DEF Lru!Cardinality, Cardinality
  <1>5. CASE Free # {}
    <2>1. slots[s] = None
      BY <1>1, <1>5 DEF IsLruSlot, Free
    <2>2. Age' = [Age EXCEPT ![k] = tick]
      BY <1>3, <1>4, <2>1, NoneAssumption
    <2> QED BY <1>0, <1>2, <1>5, <2>2, FreeMeansRoom DEF Lru!Enter
  <1>6. CASE Free = {}
    <2> DEFINE v == slots[s]
    <2>1. v \in Keys /\ map[v] = s
      BY <1>6 DEF Free, RefineInv, CacheTypeOK, MapMatchesSlots
    <2>2. v \in Lru!Resident /\ v # k
      BY <1>2, <2>1, ResidentIsMapped, NoneAssumption
    <2>3. \A r \in Lru!Resident : Age[v] <= Age[r]
      <3> TAKE r \in Lru!Resident
      <3>1. r \in Keys /\ map[r] \in Slots /\ map[r] # None
        BY ResidentIsMapped, NoneAssumption
      <3>2. lastUsed[s] <= lastUsed[map[r]]
        BY <1>1, <1>6, <3>1 DEF IsLruSlot, RefineInv, CacheTypeOK
      <3> QED BY <2>1, <3>1, <3>2, NoneAssumption DEF Age
    <2>4. Age' = [Age EXCEPT ![v] = 0, ![k] = tick]
      BY <1>3, <1>4, <2>1, <2>2
    <2>5. ~(Cardinality(Lru!Resident) < Capacity)
      BY <1>6, FreeMeansRoom
    <2> QED BY <1>0, <1>2, <2>2, <2>3, <2>4, <2>5 DEF Lru!Enter
  <1> QED BY <1>5, <1>6

\* forget drops the key, unless it has lost its place already.
LEMMA ForgetDrops ==
  ASSUME RefineInv, NEW k \in Keys, Forget(k)
  PROVE  Lru!Drop(k) \/ UNCHANGED Lru!lruVars
  <1>1. CASE map[k] = None
    BY <1>1 DEF Forget, Age, Lru!lruVars
  <1>2. CASE map[k] # None
    <2>1. /\ map' = [map EXCEPT ![k] = None]
          /\ lastUsed' = [lastUsed EXCEPT ![map[k]] = 0]
          /\ todo = {} /\ UNCHANGED <<tick, todo>>
      BY <1>2 DEF Forget
    <2>2. map[k] \in Slots /\ k \in Lru!Resident
      BY <1>2, ResidentIsMapped
    <2>3. \A j \in Keys : Age'[j] = IF j = k THEN 0 ELSE Age[j]
      <3> TAKE j \in Keys
      <3>1. map'[j] = IF j = k THEN None ELSE map[j]
        BY <2>1 DEF RefineInv, CacheTypeOK
      <3>2. \A t \in Slots : lastUsed'[t] = IF t = map[k] THEN 0 ELSE lastUsed[t]
        BY <2>1 DEF RefineInv, CacheTypeOK
      <3>3. j # k /\ map[j] # None => map[j] \in Slots /\ map[j] # map[k]
        BY <2>2 DEF RefineInv, CacheTypeOK, MapMatchesSlots
      <3> QED BY <3>1, <3>2, <3>3 DEF Age
    <2>4. Age' = [Age EXCEPT ![k] = 0]
      BY <2>3 DEF Age
    <2> QED BY <2>1, <2>2, <2>4 DEF Lru!Drop
  <1> QED BY <1>1, <1>2

\* The cache implements the abstract LRU set: it evicts only when it is full,
\* and then only a key that no other resident was routed to less recently than.
THEOREM CacheImplementsLru == CacheSpec => RefinesLru
  <1>1. CacheInit => RefineInv
    BY NoneAssumption DEF CacheInit, RefineInv, CacheTypeOK, MapMatchesSlots, TodoUnmapped
  <1>2. RefineInv /\ [CacheNext]_cacheVars => RefineInv'
    BY RefineInvStep
  <1>3. CacheInit => Lru!Init
    BY DEF CacheInit, Lru!Init, Age
  <1>4. RefineInv /\ [CacheNext]_cacheVars => [Lru!Next]_(Lru!lruVars)
    <2> SUFFICES ASSUME RefineInv, [CacheNext]_cacheVars
                 PROVE  [Lru!Next]_(Lru!lruVars)
      OBVIOUS
    <2>1. RefineInv'
      BY RefineInvStep
    <2>2. ASSUME NEW l \in Layers, NEW E \in Routes, Lookup(l, E)
          PROVE  Lru!Next
      BY <2>1, <2>2, LookupTouches, RoutedKeys DEF Lru!Next
    <2>3. ASSUME NEW k \in Keys, Admit(k)
          PROVE  Lru!Next
      BY <2>1, <2>3, AdmitEnters DEF Lru!Next
    <2>4. ASSUME NEW k \in Keys, Forget(k)
          PROVE  [Lru!Next]_(Lru!lruVars)
      BY <2>4, ForgetDrops DEF Lru!Next
    <2>5. CASE UNCHANGED cacheVars
      BY <2>5 DEF cacheVars, Lru!lruVars, Age
    <2> QED BY <2>2, <2>3, <2>4, <2>5 DEF CacheNext
  <1> QED BY <1>1, <1>2, <1>3, <1>4, PTL DEF CacheSpec, RefinesLru, Lru!Spec

-----------------------------------------------------------------------------
\* A working set that fits stays resident.

\* There are finitely many keys, so windows can be counted.
LEMMA KeysFinite == IsFiniteSet(Keys)
  <1>1. IsFiniteSet(Layers)
    BY FS_Interval, SizesAssumption DEF Layers
  <1> QED BY <1>1, ExpertsAssumption, FS_Product DEF Keys

(***************************************************************************)
(* A key counts while it is resident or waits for its slot; its stamp is   *)
(* the time of its last lookup.  The inductive invariant says that the     *)
(* window of such a key has every key whose stamp is no older, and that    *)
(* the window of any other key it was ever looked up with is too large.    *)
(* The first part is what makes the second one follow when Admit evicts:   *)
(* the victim's stamp is the oldest, so all slots' keys are in its window, *)
(* and so is the key that takes its place.                                 *)
(***************************************************************************)
Present(k) == map[k] # None \/ k \in todo

Stamp(k) == IF map[k] # None THEN lastUsed[map[k]] ELSE tick

YoungerInWindow(k) ==
  /\ k \in window[k]
  /\ todo \subseteq window[k]
  /\ \A j \in Keys : map[j] # None /\ Stamp(j) >= Stamp(k) => j \in window[k]

WindowInv ==
  /\ CacheTypeOK /\ MapMatchesSlots /\ TodoUnmapped
  /\ WindowTypeOK
  /\ \A k \in Keys : Present(k) => YoungerInWindow(k)
  /\ \A k \in Keys : window[k] # {} /\ ~Present(k)
                       => Cardinality(window[k]) > Capacity

\* Evicting takes more than Capacity keys.
LEMMA VictimWindowFull ==
  ASSUME WindowInv, NEW k \in todo, NEW s \in Slots, IsLruSlot(s),
         slots[s] # None
  PROVE  Cardinality(window[slots[s]]) > Capacity
  <1> DEFINE v == slots[s]
  <1>1. v \in Keys /\ map[v] = s /\ Present(v)
    BY NoneAssumption DEF WindowInv, CacheTypeOK, MapMatchesSlots, Present
  <1>2. k \in Keys /\ map[k] = None /\ k \in window[v]
    BY <1>1 DEF WindowInv, CacheTypeOK, TodoUnmapped, YoungerInWindow
  <1>3. \A t \in Slots : slots[t] # None /\ lastUsed[s] <= lastUsed[t]
    <2>1. Free = {}
      BY DEF IsLruSlot, Free
    <2> QED BY <2>1 DEF IsLruSlot, Free, WindowInv, CacheTypeOK
  <1>4. \A t \in Slots : slots[t] \in window[v] \ {k}
    <2> TAKE t \in Slots
    <2>1. slots[t] \in Keys /\ map[slots[t]] = t /\ t # None /\ s # None
      BY <1>3, NoneAssumption DEF WindowInv, CacheTypeOK, MapMatchesSlots
    <2>2. Stamp(slots[t]) >= Stamp(v)
      BY <1>1, <1>3, <2>1 DEF Stamp, WindowInv, CacheTypeOK
    <2> QED BY <1>1, <1>2, <2>1, <2>2 DEF WindowInv, YoungerInWindow
  <1>5. IsFiniteSet(window[v])
    BY <1>1, KeysFinite, FS_Subset DEF WindowInv, WindowTypeOK
  <1>6. /\ IsFiniteSet(window[v] \ {k})
        /\ Cardinality(window[v] \ {k}) = Cardinality(window[v]) - 1
    BY <1>2, <1>5, FS_RemoveElement
  <1>7. slots \in [Slots -> window[v] \ {k}]
    BY <1>4 DEF WindowInv, CacheTypeOK
  <1>8. \A x, y \in Slots : x # y => slots[x] # slots[y]
    BY <1>3, NoneAssumption DEF WindowInv, CacheTypeOK, MapMatchesSlots
  <1>9. ~(Cardinality(window[v] \ {k}) < Cardinality(Slots))
    BY <1>6, <1>7, <1>8, SlotsFinite, FS_PigeonHole
  <1> QED BY <1>5, <1>6, <1>9, SlotsFinite, SizesAssumption, FS_CardinalityType

\* A window stays a set of keys.
LEMMA WindowTypeStep ==
  ASSUME WindowTypeOK, [WindowNext]_windowVars
  PROVE  WindowTypeOK'
  <1>1. ASSUME NEW l \in Layers, NEW E \in Routes, WindowLookup(l, E)
        PROVE  WindowTypeOK'
    BY <1>1, RoutedKeys DEF WindowLookup, WindowTypeOK
  <1>2. ASSUME NEW k \in Keys, WindowAdmit(k)
        PROVE  WindowTypeOK'
    BY <1>2 DEF WindowAdmit, WindowTypeOK
  <1>3. ASSUME NEW k \in Keys, WindowForget(k)
        PROVE  WindowTypeOK'
    BY <1>3 DEF WindowForget, WindowTypeOK
  <1>4. CASE UNCHANGED windowVars
    BY <1>4 DEF windowVars, WindowTypeOK
  <1> QED BY <1>1, <1>2, <1>3, <1>4 DEF WindowNext

\* The history adds no step: what SlotCache proves holds here.
LEMMA WindowNextCacheNext ==
  ASSUME [WindowNext]_windowVars
  PROVE  [CacheNext]_cacheVars
  BY DEF WindowNext, WindowLookup, WindowAdmit, WindowForget, CacheNext,
         windowVars, cacheVars

\* What every step of the cache keeps; the two window parts follow by action.
LEMMA WindowBasics ==
  ASSUME WindowInv, [WindowNext]_windowVars
  PROVE  CacheTypeOK' /\ MapMatchesSlots' /\ TodoUnmapped' /\ WindowTypeOK'
  BY WindowNextCacheNext, CacheTypeStep, MapMatchesSlotsStep, WindowTypeStep
     DEF WindowInv

\* Pass 1 puts the keys it stamps into every window that is open.
LEMMA WindowInvLookup ==
  ASSUME WindowInv, CacheTypeOK', MapMatchesSlots', TodoUnmapped', WindowTypeOK',
         NEW l \in Layers, NEW E \in Routes, WindowLookup(l, E)
  PROVE  WindowInv'
  <1> DEFINE R == {l} \X E
  <1>1. R \subseteq Keys
    BY RoutedKeys
  <1>2. Lookup(l, E)
    BY DEF WindowLookup
  <1>3. map' = map /\ todo' = R \ Hits(R) /\ tick' = tick + 1 /\ tick \in Nat
    BY <1>2 DEF Lookup, WindowInv, CacheTypeOK
  <1>4. todo = {}
    BY <1>2 DEF Lookup
  <1>5. \A k \in Keys : window'[k] = IF k \in R THEN R
                                     ELSE IF window[k] = {} THEN {}
                                     ELSE window[k] \cup R
    BY DEF WindowLookup
  <1>6. ASSUME NEW k \in Keys, map[k] # None
        PROVE  Stamp(k)' = IF k \in R THEN tick' ELSE Stamp(k)
    <2>1. map[k] \in Slots
      BY <1>6 DEF WindowInv, CacheTypeOK
    <2>2. \A h \in Hits(R) : map[h] = map[k] => h = k
      BY <1>1, <2>1 DEF Hits, WindowInv, MapMatchesSlots
    <2>3. k \in R <=> k \in Hits(R)
      BY <1>6 DEF Hits
    <2>4. lastUsed'[map[k]] = IF \E h \in Hits(R) : map[h] = map[k]
                              THEN tick' ELSE lastUsed[map[k]]
      BY <1>2, <2>1 DEF Lookup
    <2> QED BY <1>3, <1>6, <2>2, <2>3, <2>4 DEF Stamp
  <1>7. ASSUME NEW k \in Keys, map[k] # None
        PROVE  Stamp(k) \in Nat /\ Stamp(k) <= tick
    BY <1>7 DEF Stamp, WindowInv, CacheTypeOK
  <1>8. ASSUME NEW k \in Keys, Present(k)'
        PROVE  YoungerInWindow(k)'
    <2>1. CASE k \in R
      <3>1. window'[k] = R
        BY <1>5, <2>1
      <3>2. Stamp(k)' = tick'
        BY <1>3, <1>6, <2>1 DEF Stamp
      <3>3. ASSUME NEW j \in Keys, map'[j] # None, Stamp(j)' >= Stamp(k)'
            PROVE  j \in R
        BY <1>3, <1>6, <1>7, <3>2, <3>3
      <3> QED BY <1>3, <2>1, <3>1, <3>3 DEF YoungerInWindow
    <2>2. CASE k \notin R
      <3>1. map[k] # None
        BY <1>3, <1>8, <2>2 DEF Present
      <3>2. YoungerInWindow(k)
        BY <3>1 DEF WindowInv, Present
      <3>3. window'[k] = window[k] \cup R
        BY <1>5, <2>2, <3>2 DEF YoungerInWindow
      <3>4. Stamp(k)' = Stamp(k)
        BY <1>6, <2>2, <3>1
      <3>5. ASSUME NEW j \in Keys, map'[j] # None, Stamp(j)' >= Stamp(k)'
            PROVE  j \in window'[k]
        BY <1>3, <1>6, <3>2, <3>3, <3>4, <3>5 DEF YoungerInWindow
      <3> QED BY <1>3, <3>2, <3>3, <3>5 DEF YoungerInWindow
    <2> QED BY <2>1, <2>2
  <1>9. ASSUME NEW k \in Keys, window'[k] # {}, ~Present(k)'
        PROVE  Cardinality(window'[k]) > Capacity
    <2>1. k \notin R
      BY <1>3, <1>9 DEF Present, Hits
    <2>2. window[k] # {} /\ window'[k] = window[k] \cup R
      BY <1>5, <1>9, <2>1
    <2>3. ~Present(k)
      BY <1>3, <1>4, <1>9 DEF Present
    <2>4. Cardinality(window[k]) > Capacity
      BY <2>2, <2>3 DEF WindowInv
    <2>5. IsFiniteSet(window'[k]) /\ window[k] \subseteq window'[k]
      BY <2>2, KeysFinite, FS_Subset DEF WindowTypeOK
    <2>6. /\ IsFiniteSet(window[k])
          /\ Cardinality(window[k]) <= Cardinality(window'[k])
      BY <2>5, FS_Subset
    <2>7. Cardinality(window[k]) \in Nat /\ Cardinality(window'[k]) \in Nat
      BY <2>5, <2>6, FS_CardinalityType
    <2> QED BY <2>4, <2>6, <2>7, SizesAssumption
  <1> QED BY <1>8, <1>9 DEF WindowInv

\* Pass 2 evicts only a key whose window has outgrown the slots.
LEMMA WindowInvAdmit ==
  ASSUME WindowInv, CacheTypeOK', MapMatchesSlots', TodoUnmapped', WindowTypeOK',
         NEW k \in Keys, WindowAdmit(k)
  PROVE  WindowInv'
  <1>1. PICK s \in Slots :
          /\ IsLruSlot(s)
          /\ map' = Remap(k, s)
          /\ slots' = [slots EXCEPT ![s] = k]
          /\ lastUsed' = [lastUsed EXCEPT ![s] = tick]
    BY DEF WindowAdmit, Admit
  <1>2. /\ k \in todo /\ todo' = todo \ {k} /\ tick' = tick /\ window' = window
        /\ map[k] = None /\ tick \in Nat
    BY DEF WindowAdmit, Admit, WindowInv, TodoUnmapped, CacheTypeOK
  <1>3. \A j \in Keys : map'[j] = IF j = k THEN s
                                  ELSE IF j = slots[s] THEN None ELSE map[j]
    BY <1>1 DEF Remap
  <1>4. ASSUME NEW j \in Keys, map'[j] # None
        PROVE  j = k \/ (map[j] # None /\ j # slots[s])
    BY <1>3, <1>4
  <1>5. ASSUME NEW j \in Keys, map'[j] # None \/ j \in todo'
        PROVE  Stamp(j)' = Stamp(j) /\ Present(j)
    <2>1. CASE j = k
      <3>1. map'[j] = s /\ s # None /\ lastUsed'[s] = tick
        BY <1>1, <1>3, <2>1, NoneAssumption DEF WindowInv, CacheTypeOK
      <3> QED BY <1>2, <2>1, <3>1 DEF Stamp, Present
    <2>2. CASE j # k /\ map'[j] # None
      <3>1. map'[j] = map[j] /\ map[j] # None /\ j # slots[s]
        BY <1>3, <2>2
      <3>2. map[j] \in Slots /\ map[j] # s
        BY <3>1 DEF WindowInv, CacheTypeOK, MapMatchesSlots
      <3>3. lastUsed'[map[j]] = lastUsed[map[j]]
        BY <1>1, <3>2 DEF WindowInv, CacheTypeOK
      <3> QED BY <3>1, <3>3 DEF Stamp, Present
    <2>3. CASE j # k /\ map'[j] = None /\ j \in todo'
      BY <1>2, <2>3 DEF Stamp, Present, WindowInv, TodoUnmapped
    <2> QED BY <1>5, <2>1, <2>2, <2>3
  <1>6. ASSUME NEW j \in Keys, Present(j)'
        PROVE  YoungerInWindow(j)'
    <2>1. Stamp(j)' = Stamp(j) /\ YoungerInWindow(j)
      BY <1>5, <1>6 DEF Present, WindowInv
    <2>2. ASSUME NEW i \in Keys, map'[i] # None, Stamp(i)' >= Stamp(j)'
          PROVE  i \in window[j]
      <3>1. CASE i = k
        BY <1>2, <2>1, <3>1 DEF YoungerInWindow
      <3>2. CASE i # k
        BY <1>4, <1>5, <2>1, <2>2, <3>2 DEF YoungerInWindow
      <3> QED BY <3>1, <3>2
    <2> QED BY <1>2, <2>1, <2>2 DEF YoungerInWindow
  <1>7. ASSUME NEW j \in Keys, window'[j] # {}, ~Present(j)'
        PROVE  Cardinality(window'[j]) > Capacity
    <2>1. CASE j = slots[s]
      <3>1. slots[s] # None
        BY <2>1, NoneAssumption
      <3> QED BY <1>1, <1>2, <2>1, <3>1, VictimWindowFull
    <2>2. CASE j # slots[s]
      <3>1. j # k
        BY <1>3, <1>7, NoneAssumption DEF Present
      <3>2. ~Present(j)
        BY <1>2, <1>3, <1>7, <2>2, <3>1 DEF Present
      <3> QED BY <1>2, <1>7, <3>2 DEF WindowInv
    <2> QED BY <2>1, <2>2
  <1> QED BY <1>6, <1>7 DEF WindowInv

\* forget closes the window of the key it unmaps.
LEMMA WindowInvForget ==
  ASSUME WindowInv, CacheTypeOK', MapMatchesSlots', TodoUnmapped', WindowTypeOK',
         NEW k \in Keys, WindowForget(k)
  PROVE  WindowInv'
  <1>1. todo = {} /\ todo' = {} /\ tick' = tick
    BY DEF WindowForget, Forget
  <1>2. \A j \in Keys : window'[j] = IF j = k THEN {} ELSE window[j]
    BY DEF WindowForget, WindowInv, WindowTypeOK
  <1>3. \A j \in Keys : map'[j] = IF j = k THEN None ELSE map[j]
    BY DEF WindowForget, Forget, WindowInv, CacheTypeOK
  <1>4. ASSUME NEW j \in Keys, map'[j] # None
        PROVE  j # k /\ map[j] # None /\ Stamp(j)' = Stamp(j)
    <2>1. j # k /\ map[j] # None /\ map'[j] = map[j]
      BY <1>3, <1>4
    <2>2. map[j] \in Slots
      BY <2>1 DEF WindowInv, CacheTypeOK
    <2>3. map[j] # map[k]
      BY <2>1, <2>2 DEF WindowInv, MapMatchesSlots
    <2>4. lastUsed'[map[j]] = lastUsed[map[j]]
      BY <2>2, <2>3 DEF WindowForget, Forget, WindowInv, CacheTypeOK
    <2> QED BY <2>1, <2>4 DEF Stamp
  <1>5. ASSUME NEW j \in Keys, Present(j)'
        PROVE  YoungerInWindow(j)'
    <2>1. map'[j] # None
      BY <1>1, <1>5 DEF Present
    <2>2. j # k /\ YoungerInWindow(j) /\ Stamp(j)' = Stamp(j) /\ window'[j] = window[j]
      BY <1>2, <1>4, <2>1 DEF WindowInv, Present
    <2> QED BY <1>1, <1>4, <2>2 DEF YoungerInWindow
  <1>6. ASSUME NEW j \in Keys, window'[j] # {}, ~Present(j)'
        PROVE  Cardinality(window'[j]) > Capacity
    <2>1. j # k /\ window'[j] = window[j]
      BY <1>2, <1>6
    <2>2. ~Present(j)
      BY <1>1, <1>3, <1>6, <2>1 DEF Present
    <2> QED BY <1>6, <2>1, <2>2 DEF WindowInv
  <1> QED BY <1>5, <1>6 DEF WindowInv

\* WindowInv is inductive.
LEMMA WindowInvStep ==
  ASSUME WindowInv, [WindowNext]_windowVars
  PROVE  WindowInv'
  <1>1. CacheTypeOK' /\ MapMatchesSlots' /\ TodoUnmapped' /\ WindowTypeOK'
    BY WindowBasics
  <1>2. ASSUME NEW l \in Layers, NEW E \in Routes, WindowLookup(l, E)
        PROVE  WindowInv'
    BY <1>1, <1>2, WindowInvLookup
  <1>3. ASSUME NEW k \in Keys, WindowAdmit(k)
        PROVE  WindowInv'
    BY <1>1, <1>3, WindowInvAdmit
  <1>4. ASSUME NEW k \in Keys, WindowForget(k)
        PROVE  WindowInv'
    BY <1>1, <1>4, WindowInvForget
  <1>5. CASE UNCHANGED windowVars
    BY <1>1, <1>5 DEF windowVars, cacheVars, WindowInv, Present, YoungerInWindow, Stamp
  <1> QED BY <1>2, <1>3, <1>4, <1>5 DEF WindowNext

\* A key leaves the cache, other than by forget, only after more than Capacity
\* different keys were routed to since its own last lookup.
THEOREM WorkingSetStaysAlways == WindowSpec => []WorkingSetStays
  <1>1. WindowInit => WindowInv
    BY NoneAssumption
       DEF WindowInit, CacheInit, WindowInv, CacheTypeOK, MapMatchesSlots,
           TodoUnmapped, WindowTypeOK, Present
  <1>2. WindowInv /\ [WindowNext]_windowVars => WindowInv'
    BY WindowInvStep
  <1>3. WindowInv => WorkingSetStays
    <2> SUFFICES ASSUME WindowInv, NEW k \in Keys, window[k] # {},
                        Cardinality(window[k]) <= Capacity
                 PROVE  Present(k)
      BY DEF WorkingSetStays, Present
    <2>1. IsFiniteSet(window[k])
      BY KeysFinite, FS_Subset DEF WindowInv, WindowTypeOK
    <2>2. Cardinality(window[k]) \in Nat
      BY <2>1, FS_CardinalityType
    <2> QED BY <2>2, SizesAssumption DEF WindowInv
  <1> QED BY <1>1, <1>2, <1>3, PTL DEF WindowSpec

=============================================================================
