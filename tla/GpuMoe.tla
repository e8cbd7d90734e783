------------------------------- MODULE GpuMoe -------------------------------
(***************************************************************************)
(* The device-routed mixture-of-experts section (forward_batch and         *)
(* enqueue_stack with gpu_routing): the host enqueues everything without   *)
(* ever waiting; the kernel lru_admit keeps the slot table on the device,  *)
(* promote_experts copies the misses into their slots on the copy stream,  *)
(* and the expert GEMVs read every expert from its slot, hit or miss.      *)
(*                                                                         *)
(* One entry per sequence and rank.  Two sequences can route to the same   *)
(* expert; one sequence never routes to an expert twice.  lru_admit runs   *)
(* as one block; here its threads agree on what they read.                 *)
(***************************************************************************)
EXTENDS Integers, FiniteSets

CONSTANTS
  NLayers, Experts,
  Batch,      \* sequences decoded together
  TopK,       \* experts per sequence and layer
  NSlots,     \* slots in VRAM
  ClockBits,  \* width of the clock and of the stamps, 32 in the code
  None,
  MaxLaunch   \* bound of the model: layers executed

Layers  == 0..(NLayers - 1)
Keys    == Layers \X Experts
Slots   == 0..(NSlots - 1)
Entries == 1..(Batch * TopK)
Stamps  == 0..(2^ClockBits - 1)

ASSUME GpuAssumption ==
  /\ NLayers \in Nat \ {0} /\ NSlots \in Nat \ {0}
  /\ Batch \in Nat \ {0} /\ TopK \in Nat \ {0}
  /\ ClockBits \in Nat /\ MaxLaunch \in Nat
  /\ None \notin Keys \cup Slots

VARIABLES
  map,        \* lru_map: key -> slot, or None
  slotKey,    \* lru_slot_key: slot -> key, or None
  slotLast,   \* lru_slot_last: slot -> stamp
  clock,      \* lru_clock
  pc,         \* compute stream: the kernel it has come to
  layer,      \* its layer
  launched,   \* layers executed so far
  ids,        \* moe_ids: entry -> expert
  t,          \* loop variable of lru_admit
  needs,      \* entries marked "needs admission"
  base,       \* pair_bases: entry -> slot to read
  src, dst,   \* promote_src, promote_dst: entry -> key (or None), slot
  promotes,   \* promote_experts not complete whose lru_admit is
  promoting,  \* entries of which the running one has blocks left
  copyOn,     \* whether promote_experts runs
  slotData,   \* slot -> key whose weights it holds in full, or None
  cutShort    \* history: a pass failed after lru_admit, and its promote was
              \*   not launched, or not complete and nothing waits for it

lruVars  == <<map, slotKey, slotLast, clock>>
outVars  == <<base, src, dst>>
copyVars == <<promoting, copyOn, slotData>>
vars     == <<lruVars, pc, layer, launched, ids, t, needs, outVars, promotes,
              copyVars, cutShort>>

SeqOf(e) == (e - 1) \div TopK
Key(e)   == <<layer, ids[e]>>

Choices == {f \in [Entries -> Experts] :
              \A d, e \in Entries : d # e /\ SeqOf(d) = SeqOf(e) => f[d] # f[e]}

TypeOK ==
  /\ map \in [Keys -> Slots \cup {None}]
  /\ slotKey \in [Slots -> Keys \cup {None}]
  /\ slotLast \in [Slots -> Stamps] /\ clock \in Stamps
  /\ pc \in {"router", "touch", "admit", "wait", "gemv"}
  /\ layer \in Layers /\ launched \in 0..MaxLaunch
  /\ ids \in [Entries -> Experts \cup {None}]
  /\ t \in 1..(Batch * TopK + 1)
  /\ needs \subseteq Entries /\ promoting \subseteq Entries
  /\ base \in [Entries -> Slots \cup {None}]
  /\ src \in [Entries -> Keys \cup {None}]
  /\ dst \in [Entries -> Slots \cup {None}]
  /\ promotes \in Nat /\ copyOn \in BOOLEAN
  /\ slotData \in [Slots -> Keys \cup {None}]
  /\ cutShort \in BOOLEAN

Init ==
  /\ map = [k \in Keys |-> None] /\ slotKey = [s \in Slots |-> None]
  /\ slotLast = [s \in Slots |-> 0] /\ clock = 0
  /\ pc = "router" /\ layer = 0 /\ launched = 0
  /\ ids = [e \in Entries |-> None] /\ t = 1 /\ needs = {}
  /\ base = [e \in Entries |-> None]
  /\ src = [e \in Entries |-> None] /\ dst = [e \in Entries |-> None]
  /\ promotes = 0 /\ promoting = {} /\ copyOn = FALSE
  /\ slotData = [s \in Slots |-> None]
  /\ cutShort = FALSE

-----------------------------------------------------------------------------
(* The compute stream *)

\* topk_router: every sequence gets TopK different experts.
Router ==
  /\ pc = "router" /\ launched < MaxLaunch
  /\ ids' \in Choices
  /\ launched' = launched + 1
  /\ pc' = "touch" /\ t' = 1 /\ needs' = {}
  /\ UNCHANGED <<lruVars, layer, outVars, promotes, copyVars, cutShort>>

Tick == (clock + 1) % 2^ClockBits

\* Mutant of Stamped: the slot keeps its old stamp.
StampedNever(s) == slotLast

Stamped(s) == [slotLast EXCEPT ![s] = Tick]

\* lru_admit, pass 1: touch the entry if it is a hit, else mark it.  The mark,
\* like "none", is a negative promote_src, which promote_experts passes over.
Touch ==
  /\ pc = "touch" /\ t \in Entries
  /\ LET s == map[Key(t)]
     IN  IF s # None
         THEN /\ clock' = Tick
              /\ slotLast' = Stamped(s)
              /\ base' = [base EXCEPT ![t] = s]
              /\ UNCHANGED needs
         ELSE /\ needs' = needs \cup {t}
              /\ UNCHANGED <<clock, slotLast, base>>
  /\ src' = [src EXCEPT ![t] = None]
  /\ t' = t + 1
  /\ UNCHANGED <<map, slotKey, pc, layer, launched, ids, dst, promotes,
                 copyVars, cutShort>>

Touched ==
  /\ pc = "touch" /\ t \notin Entries
  /\ pc' = "admit" /\ t' = 1
  /\ UNCHANGED <<lruVars, layer, launched, ids, needs, outVars, promotes,
                 copyVars, cutShort>>

\* The oldest stamp; the strided scan decides between equal ones.
IsVictim(s) == \A r \in Slots : slotLast[s] <= slotLast[r]

\* Mutant of AdmitDuplicate: the weights are fetched once more.
AdmitDuplicateFetching ==
  /\ pc = "admit" /\ t \in needs /\ map[Key(t)] # None
  /\ base' = [base EXCEPT ![t] = map[Key(t)]]
  /\ dst' = [dst EXCEPT ![t] = map[Key(t)]]
  /\ src' = [src EXCEPT ![t] = Key(t)]
  /\ t' = t + 1 /\ needs' = needs \ {t}
  /\ UNCHANGED <<lruVars, pc, layer, launched, ids, promotes, copyVars, cutShort>>

\* Pass 2, an entry another sequence's entry has admitted meanwhile.
AdmitDuplicate ==
  /\ pc = "admit" /\ t \in needs /\ map[Key(t)] # None
  /\ base' = [base EXCEPT ![t] = map[Key(t)]]
  /\ src' = [src EXCEPT ![t] = None]
  /\ t' = t + 1 /\ needs' = needs \ {t}
  /\ UNCHANGED <<lruVars, pc, layer, launched, ids, dst, promotes, copyVars,
                 cutShort>>

\* Mutant of Remapped: the evicted key stays mapped.
RemappedKeepingTheOld(k, s) == [map EXCEPT ![k] = s]

Remapped(k, s) ==
  [j \in Keys |-> IF j = k THEN s ELSE IF j = slotKey[s] THEN None ELSE map[j]]

\* Pass 2, a miss: evict, remap, stamp, and have the weights fetched.
AdmitMiss ==
  /\ pc = "admit" /\ t \in needs /\ map[Key(t)] = None
  /\ \E s \in Slots :
       /\ IsVictim(s)
       /\ map' = Remapped(Key(t), s)
       /\ slotKey' = [slotKey EXCEPT ![s] = Key(t)]
       /\ slotLast' = Stamped(s)
       /\ base' = [base EXCEPT ![t] = s]
       /\ dst' = [dst EXCEPT ![t] = s]
  /\ clock' = Tick
  /\ src' = [src EXCEPT ![t] = Key(t)]
  /\ t' = t + 1 /\ needs' = needs \ {t}
  /\ UNCHANGED <<pc, layer, launched, ids, promotes, copyVars, cutShort>>

AdmitSkip ==
  /\ pc = "admit" /\ t \in Entries \ needs
  /\ t' = t + 1
  /\ UNCHANGED <<lruVars, pc, layer, launched, ids, needs, outVars, promotes,
                 copyVars, cutShort>>

\* lru_admit is complete, and with it the event the copy stream waits for.
Admitted ==
  /\ pc = "admit" /\ t \notin Entries
  /\ pc' = "wait" /\ promotes' = promotes + 1
  /\ UNCHANGED <<lruVars, layer, launched, ids, t, needs, outVars, copyVars,
                 cutShort>>

\* Mutant of GemvStart: the compute stream does not wait for the promote.
GemvStartAtOnce ==
  /\ pc = "wait"
  /\ pc' = "gemv"
  /\ UNCHANGED <<lruVars, layer, launched, ids, t, needs, outVars, promotes,
                 copyVars, cutShort>>

\* The GEMVs start when this promote is complete, the last on the copy stream,
GemvStart ==
  /\ pc = "wait" /\ promotes = 0
  /\ pc' = "gemv"
  /\ UNCHANGED <<lruVars, layer, launched, ids, t, needs, outVars, promotes,
                 copyVars, cutShort>>

\* Mutant of GemvEnd: the layers do not end.
GemvEndPastTheLast ==
  /\ pc = "gemv"
  /\ pc' = "router"
  /\ layer' = layer + 1
  /\ UNCHANGED <<lruVars, launched, ids, t, needs, outVars, promotes, copyVars,
                 cutShort>>

\* and the next layer, or the next pass, follows them in stream order.
GemvEnd ==
  /\ pc = "gemv"
  /\ pc' = "router"
  /\ layer' = (layer + 1) % NLayers
  /\ UNCHANGED <<lruVars, launched, ids, t, needs, outVars, promotes, copyVars,
                 cutShort>>

\* A `?`: the pass ends with what it has enqueued, nothing is undone, and the
\* next one follows.  At "admit" the event of lru_admit, the wait of the copy
\* stream or the launch of promote_experts has failed; at "wait" the event of
\* promote_experts or the wait for it, and promote_experts runs on by itself.
\* (A captured graph runs whole; this is the pass enqueued kernel by kernel.)
FailPass ==
  /\ \/ pc \in {"router", "gemv"} /\ UNCHANGED cutShort
     \/ pc = "touch" /\ t = 1 /\ UNCHANGED cutShort
     \/ pc = "admit" /\ t \notin Entries /\ cutShort' = TRUE
     \/ pc = "wait" /\ cutShort' = (cutShort \/ promotes # 0)
  /\ pc' = "router" /\ layer' = 0
  /\ UNCHANGED <<lruVars, launched, ids, t, needs, outVars, promotes, copyVars>>

-----------------------------------------------------------------------------
(***************************************************************************)
(* The copy stream: promote_experts copies all its entries at once, each   *)
(* with many blocks.  A block looks at promote_src and promote_dst when it *)
(* starts.  If a pass was cut short the next lru_admit may be writing them *)
(* meanwhile, and the blocks of an entry copy parts of different experts.  *)
(***************************************************************************)
PromoteStart ==
  /\ promotes > 0 /\ ~copyOn
  /\ copyOn' = TRUE /\ promoting' = Entries
  /\ slotData' = [s \in Slots |-> IF \E e \in Entries : src[e] # None /\ dst[e] = s
                                  THEN None ELSE slotData[s]]
  /\ UNCHANGED <<lruVars, pc, layer, launched, ids, t, needs, outVars, promotes,
                 cutShort>>

\* Where promote_src and promote_dst stay as they are, the copy of an entry fills
\* its slot.  Else some of the blocks, or the last of them, leave a part there.
PromoteEntry(e) ==
  /\ e \in promoting
  /\ \/ /\ promoting' = promoting \ {e}
        /\ slotData' = IF src[e] = None THEN slotData
                       ELSE [slotData EXCEPT ![dst[e]] = src[e]]
     \/ /\ cutShort /\ src[e] # None
        /\ promoting' \in {promoting, promoting \ {e}}
        /\ slotData' = [slotData EXCEPT ![dst[e]] = None]
  /\ UNCHANGED <<lruVars, pc, layer, launched, ids, t, needs, outVars, promotes,
                 copyOn, cutShort>>

PromoteEnd ==
  /\ copyOn /\ promoting = {}
  /\ copyOn' = FALSE /\ promotes' = promotes - 1
  /\ UNCHANGED <<lruVars, pc, layer, launched, ids, t, needs, outVars,
                 promoting, slotData, cutShort>>

Next ==
  \/ Router \/ Touch \/ Touched \/ AdmitDuplicate \/ AdmitMiss \/ AdmitSkip
  \/ Admitted \/ GemvStart \/ GemvEnd \/ FailPass
  \/ PromoteStart \/ PromoteEnd
  \/ \E e \in Entries : PromoteEntry(e)

Spec == Init /\ [][Next]_vars

-----------------------------------------------------------------------------
(***************************************************************************)
(* "this step's hits can never be chosen as eviction victims by this       *)
(* step's misses" (q4.cu:1374-1375), and neither are its admissions: when  *)
(* lru_admit is done, every entry's base is the slot mapped to its expert. *)
(***************************************************************************)
StepKeepsItsSlots ==
  pc \in {"wait", "gemv"} => \A e \in Entries : map[Key(e)] = base[e]

(***************************************************************************)
(* An expert missed by several sequences is fetched once, and no two       *)
(* copies of one promote write the same slot: they run at the same time.   *)
(***************************************************************************)
PromotesAreDisjoint ==
  pc = "wait" =>
    \A d, e \in Entries :
      d # e /\ src[d] # None /\ src[e] # None => src[d] # src[e] /\ dst[d] # dst[e]

(***************************************************************************)
(* While the GEMVs of a layer run, the slot each entry reads holds its     *)
(* expert's weights in full, unless a pass was cut short: failed after     *)
(* lru_admit with its promote not launched, so that its misses stay mapped *)
(* and unfilled, or with a promote on its way that nothing waits for, so   *)
(* that the next lru_admit may change promote_src and promote_dst under    *)
(* it.  A pass that fails anywhere else does no harm.                      *)
(***************************************************************************)
DeviceGemvReadsItsExpert ==
  pc = "gemv" /\ ~cutShort => \A e \in Entries : slotData[base[e]] = Key(e)

(***************************************************************************)
(* A mapped expert is in its slot, except between its admission and the    *)
(* end of its copy, again unless a pass was cut short.                     *)
(***************************************************************************)
DeviceMappedIsFilled ==
  ~cutShort =>
    \A k \in Keys :
      \/ map[k] = None
      \/ slotData[map[k]] = k
      \/ pc \in {"admit", "wait"} /\ \E e \in Entries : Key(e) = k /\ base[e] = map[k]
=============================================================================
