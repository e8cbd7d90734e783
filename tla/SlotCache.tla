------------------------------ MODULE SlotCache ------------------------------
(***************************************************************************)
(* ft-core's SlotCache: the LRU index of the expert slots in VRAM.  It     *)
(* decides which slot holds which (layer, expert) and never touches the    *)
(* weights themselves; HostMoe adds the copies and the kernels.            *)
(*                                                                         *)
(* A lookup handles one layer's routed experts in two passes: the first    *)
(* touches every hit (Lookup), the second admits the missing experts one   *)
(* by one (Admit).  The router's ranking can list the experts of a step in *)
(* any order, so a step is a set and Admit chooses the next missing one.   *)
(* hits_total and misses_total, which only feed a printed rate, are left   *)
(* out.                                                                    *)
(***************************************************************************)
EXTENDS Integers, FiniteSets

CONSTANTS
  NLayers,    \* layers with routed experts
  Experts,    \* experts of one layer
  TopK,       \* bound on the experts one step routes to
  Capacity,   \* slots in VRAM
  None,       \* no key, no slot
  MaxTick     \* bound of the model: lookups made

Layers == 0..(NLayers - 1)
Keys   == Layers \X Experts
Slots  == 0..(Capacity - 1)

Routes == {E \in SUBSET Experts : E # {} /\ Cardinality(E) <= TopK}

ASSUME SizesAssumption ==
  /\ NLayers \in Nat \ {0}
  /\ Capacity \in Nat \ {0}
  /\ TopK \in Nat
  /\ MaxTick \in Nat
ASSUME ExpertsAssumption == IsFiniteSet(Experts)
ASSUME NoneAssumption == None \notin Keys /\ None \notin Slots

VARIABLES
  map,        \* key -> its slot, or None
  slots,      \* slot -> the key occupying it, or None when free
  lastUsed,   \* slot -> tick of its last touch
  tick,       \* lookups made so far
  todo,       \* missing experts of this lookup that have no slot yet
  hits,       \* keys the current lookup returned as hits
  misses,     \* keys it admitted and that the caller has not forgotten
  grant       \* key -> slot the current lookup returned for it, or None

cacheVars == <<map, slots, lastUsed, tick, todo, hits, misses, grant>>

CacheTypeOK ==
  /\ map \in [Keys -> Slots \cup {None}]
  /\ slots \in [Slots -> Keys \cup {None}]
  /\ lastUsed \in [Slots -> 0..tick]
  /\ tick \in Nat
  /\ todo \subseteq Keys /\ hits \subseteq Keys /\ misses \subseteq Keys
  /\ grant \in [Keys -> Slots \cup {None}]

CacheInit ==
  /\ map = [k \in Keys |-> None]
  /\ slots = [s \in Slots |-> None]
  /\ lastUsed = [s \in Slots |-> 0]
  /\ tick = 0
  /\ todo = {} /\ hits = {} /\ misses = {}
  /\ grant = [k \in Keys |-> None]

(***************************************************************************)
(* take_lru_slot: the first free slot, else the lowest-numbered slot with  *)
(* the oldest touch.                                                       *)
(***************************************************************************)
Free == {s \in Slots : slots[s] = None}

\* Mutant of IsLruSlot: the comparison is the wrong way round.
IsMruSlot(s) ==
  IF Free # {}
  THEN s \in Free /\ \A t \in Free : s <= t
  ELSE \A t \in Slots : lastUsed[s] >= lastUsed[t]

\* Mutant of IsLruSlot: any slot whose touch is not the last one will do.
IsSomeOldSlot(s) ==
  IF Free # {}
  THEN s \in Free /\ \A t \in Free : s <= t
  ELSE lastUsed[s] < tick

IsLruSlot(s) ==
  IF Free # {}
  THEN s \in Free /\ \A t \in Free : s <= t
  ELSE \A t \in Slots : \/ lastUsed[s] < lastUsed[t]
                        \/ lastUsed[s] = lastUsed[t] /\ s <= t

(***************************************************************************)
(* Pass 1 of lookup: stamp the slot of every routed expert that is mapped. *)
(***************************************************************************)
Hits(R) == {k \in R : map[k] # None}

\* Mutant of Lookup: hits are not touched before the misses are admitted.
LookupWithoutTouch(l, E) ==
  LET R == {l} \X E
  IN  /\ todo = {}
      /\ tick < MaxTick
      /\ tick' = tick + 1
      /\ hits' = Hits(R)
      /\ todo' = R \ Hits(R)
      /\ misses' = {}
      /\ grant' = [k \in Keys |-> IF k \in Hits(R) THEN map[k] ELSE None]
      /\ UNCHANGED <<map, slots, lastUsed>>

Lookup(l, E) ==
  LET R == {l} \X E
  IN  /\ todo = {}
      /\ tick < MaxTick
      /\ tick' = tick + 1
      /\ lastUsed' = [s \in Slots |-> IF \E k \in Hits(R) : map[k] = s
                                      THEN tick' ELSE lastUsed[s]]
      /\ hits' = Hits(R)
      /\ todo' = R \ Hits(R)
      /\ misses' = {}
      /\ grant' = [k \in Keys |-> IF k \in Hits(R) THEN map[k] ELSE None]
      /\ UNCHANGED <<map, slots>>

\* Mutant of Remap: the evicted key stays mapped.
RemapKeepingTheOld(k, s) == [map EXCEPT ![k] = s]

(***************************************************************************)
(* Pass 2, for one missing expert: evict whatever its slot holds, map it.  *)
(***************************************************************************)
Remap(k, s) ==
  [j \in Keys |-> IF j = k THEN s ELSE IF j = slots[s] THEN None ELSE map[j]]

Admit(k) ==
  /\ k \in todo
  /\ \E s \in Slots :
       /\ IsLruSlot(s)
       /\ map' = Remap(k, s)
       /\ slots' = [slots EXCEPT ![s] = k]
       /\ lastUsed' = [lastUsed EXCEPT ![s] = tick]
       /\ grant' = [grant EXCEPT ![k] = s]
  /\ todo' = todo \ {k}
  /\ misses' = misses \cup {k}
  /\ UNCHANGED <<tick, hits>>

(***************************************************************************)
(* forget: the caller serves this miss without filling its slot.  The      *)
(* mapping may be gone already when a later miss of the step evicted it.   *)
(***************************************************************************)
Forget(k) ==
  /\ todo = {}
  /\ k \in misses
  /\ IF map[k] = None
     THEN UNCHANGED <<map, slots, lastUsed>>
     ELSE /\ map' = [map EXCEPT ![k] = None]
          /\ slots' = [slots EXCEPT ![map[k]] = None]
          /\ lastUsed' = [lastUsed EXCEPT ![map[k]] = 0]
  /\ misses' = misses \ {k}
  /\ grant' = [grant EXCEPT ![k] = None]
  /\ UNCHANGED <<tick, todo, hits>>

CacheNext ==
  \/ \E l \in Layers, E \in Routes : Lookup(l, E)
  \/ \E k \in Keys : Admit(k)
  \/ \E k \in Keys : Forget(k)

CacheSpec == CacheInit /\ [][CacheNext]_cacheVars

-----------------------------------------------------------------------------
(***************************************************************************)
(* The map and the slot table always describe the same assignment: a       *)
(* mapped key occupies exactly the slot it maps to and an occupied slot is *)
(* mapped.  A stale entry on either side would serve one expert with       *)
(* another one's weights.                                                  *)
(***************************************************************************)
MapMatchesSlots == \A k \in Keys, s \in Slots : map[k] = s <=> slots[s] = k

(***************************************************************************)
(* What the comment on lookup promises (lib.rs:61-64), and more: the slot  *)
(* returned for a hit is not evicted by the misses of the same step, and   *)
(* neither is the slot returned for an earlier miss.  The caller reads and *)
(* fills these slots only after the lookup has returned.                   *)
(***************************************************************************)
GrantsSurviveTheStep == \A k \in hits \cup misses : map[k] = grant[k]

(***************************************************************************)
(* The first half of the above, which is all the comment says: a step's    *)
(* own hits are never evicted by its own misses.                           *)
(***************************************************************************)
OwnHitsNotEvicted == \A k \in hits : map[k] = grant[k]

(***************************************************************************)
(* The refinement: seen without slots, the cache is a set of keys with     *)
(* ages that evicts only when full, and then only a least recently routed  *)
(* key.  Age 0 stands for a key that is not resident.                      *)
(***************************************************************************)
Age == [k \in Keys |-> IF map[k] = None THEN 0 ELSE lastUsed[map[k]]]

Lru == INSTANCE LruSet WITH age <- Age, now <- tick, pendingKeys <- todo

RefinesLru == Lru!Spec
=============================================================================
