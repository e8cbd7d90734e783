---------------------------- MODULE LruAdmitBlock ----------------------------
(***************************************************************************)
(* The kernel lru_admit as the warps of its block execute it               *)
(* (ft-cuda/src/q4.cu).  Thread 0 touches the hits; then all warps walk    *)
(* through the entries, each at its own pace between two barriers, and     *)
(* agree on the oldest slot by a reduction in shared memory.  Module       *)
(* GpuMoe has the same kernel as one thread.                               *)
(*                                                                         *)
(* A warp is in lockstep and stands for its lanes: it scans every          *)
(* NWarps-th slot and has found the oldest of them all at once; the steps  *)
(* of the reduction within a warp are there for their barriers.            *)
(* Which entry and which barrier a warp has come to is its own; a barrier  *)
(* opens when every warp that has not left the kernel waits at one.        *)
(***************************************************************************)
EXTENDS Integers, Sequences, FiniteSets, SequencesExt

CONSTANTS
  NWarps,        \* warps of the block, a power of two; 4 in the code
  Lanes,         \* threads of a warp, a power of two; 32 in the code
  BlockSlots,    \* n_slots
  BlockExperts,  \* e_count; one layer is enough
  EntryLists,    \* the ids of launches: a few sequences' experts one after another
  MaxLaunches    \* bound: launches

ASSUME BlockConstants ==
  /\ NWarps \in {2, 4} /\ Lanes \in {2, 4, 8, 16, 32}
  /\ BlockSlots \in Nat /\ BlockSlots >= NWarps /\ MaxLaunches \in Nat
  /\ BlockExperts \subseteq Nat /\ EntryLists \subseteq Seq(BlockExperts)
  /\ \A e \in EntryLists : Cardinality(ToSet(e)) <= BlockSlots

VARIABLES
  blockMap,     \* map: expert -> slot, or -1
  slotExpert,   \* slot_key: slot -> expert, or -1
  slotStamp,    \* slot_last
  stampClock,   \* clock_ctr
  entryIds,     \* ids
  mark,         \* promote_src_key: "hit" for -1, "miss" for -2, "fetch" for a key
  entryBase,    \* bases: the slot an entry is to be read from
  red,          \* red_v and red_i: warp -> the slot it has found and its stamp
  warpPc,       \* per warp: what it does next, or the barrier it waits at
  warpT,        \* per warp: its entry
  warpStep,     \* per warp: s2 of the reduction
  overtook,     \* has a warp skipped an entry the others work on? (history)
  launchCount

blockTable == <<blockMap, slotExpert, slotStamp, stampClock>>
blockVars == <<blockTable, entryIds, mark, entryBase, red, warpPc, warpT, warpStep, overtook,
               launchCount>>

Warps == 0..(NWarps - 1)
SlotIds == 0..(BlockSlots - 1)

BlockInit ==
  /\ blockMap = [e \in BlockExperts |-> -1] /\ slotExpert = [s \in SlotIds |-> -1]
  /\ slotStamp = [s \in SlotIds |-> 0] /\ stampClock = 0
  /\ entryIds = <<>> /\ mark = <<>> /\ entryBase = <<>> /\ red = [w \in Warps |-> [slot |-> 0, stamp |-> 0]]
  /\ warpPc = [w \in Warps |-> "left"] /\ warpT = [w \in Warps |-> 1]
  /\ warpStep = [w \in Warps |-> 0] /\ overtook = FALSE /\ launchCount = 0

Finished == \A w \in Warps : warpPc[w] = "left"

\* The hits among the first n entries of list.
HitsUpTo(list, n) == {t \in 1..n : blockMap[list[t]] >= 0}

\* A launch and its first pass: thread 0 touches the hits in the order of the
\* entries, so that a slot keeps the stamp of its last one, and marks the others;
\* the other warps wait at the barrier after it.
LaunchAdmit ==
  /\ Finished /\ launchCount < MaxLaunches
  /\ launchCount' = launchCount + 1
  /\ \E list \in EntryLists :
       /\ entryIds' = list
       /\ mark' = [t \in DOMAIN list |-> IF blockMap[list[t]] >= 0 THEN "hit" ELSE "miss"]
       /\ entryBase' = [t \in DOMAIN list |-> blockMap[list[t]]]
       /\ slotStamp' = [s \in SlotIds |->
            LET touches == {t \in DOMAIN list : blockMap[list[t]] = s}
            IN  IF touches = {} THEN slotStamp[s]
                ELSE stampClock + Cardinality(HitsUpTo(list, Max(touches)))]
       /\ stampClock' = stampClock + Cardinality(HitsUpTo(list, Len(list)))
  /\ warpPc' = [w \in Warps |-> "check"] /\ warpT' = [w \in Warps |-> 1]
  /\ overtook' = FALSE
  /\ UNCHANGED <<blockMap, slotExpert, red, warpStep>>

Goto(w, where) == warpPc' = [warpPc EXCEPT ![w] = where]

\* The head of the loop: the end, an entry to skip, or one to admit.
CheckEntry(w) ==
  /\ warpPc[w] = "check"
  /\ \/ /\ warpT[w] > Len(entryIds)
        /\ Goto(w, "left")
        /\ UNCHANGED <<warpT, overtook>>
     \/ /\ warpT[w] <= Len(entryIds) /\ mark[warpT[w]] # "miss"
        /\ warpT' = [warpT EXCEPT ![w] = @ + 1]
        /\ overtook' = (overtook \/ \E v \in Warps : warpT[v] = warpT[w] /\ warpPc[v] = "atEnd")
        /\ UNCHANGED warpPc
     \/ /\ warpT[w] <= Len(entryIds) /\ mark[warpT[w]] = "miss"
        /\ Goto(w, "look")
        /\ UNCHANGED <<warpT, overtook>>
  /\ UNCHANGED <<blockTable, entryIds, mark, entryBase, red, warpStep, launchCount>>

\* An expert that an earlier entry of this launch has admitted; thread 0 says so.
LookDuplicate(w) ==
  /\ warpPc[w] = "look" /\ blockMap[entryIds[warpT[w]]] >= 0
  /\ mark' = IF w = 0 THEN [mark EXCEPT ![warpT[w]] = "hit"] ELSE mark
  /\ entryBase' = IF w = 0 THEN [entryBase EXCEPT ![warpT[w]] = blockMap[entryIds[warpT[w]]]]
                  ELSE entryBase
  /\ Goto(w, "atEnd")
  /\ UNCHANGED <<blockTable, entryIds, red, warpT, warpStep, overtook, launchCount>>

\* Mutant of Oldest: the newest.
NewestFirst(slots) ==
  CHOOSE s \in slots : \A r \in slots : slotStamp[s] > slotStamp[r] \/ (slotStamp[s] = slotStamp[r] /\ s <= r)

\* The first of the oldest slots.
Oldest(slots) ==
  CHOOSE s \in slots : \A r \in slots : slotStamp[s] < slotStamp[r] \/ (slotStamp[s] = slotStamp[r] /\ s <= r)

\* The scan of the warp's slots.
ScanSlots(w) ==
  /\ warpPc[w] = "look" /\ blockMap[entryIds[warpT[w]]] < 0
  /\ LET s == Oldest({s \in SlotIds : s % NWarps = w})
     IN  red' = [red EXCEPT ![w] = [slot |-> s, stamp |-> slotStamp[s]]]
  /\ warpStep' = [warpStep EXCEPT ![w] = (NWarps * Lanes) \div 2]
  /\ Goto(w, "atScanned")
  /\ UNCHANGED <<blockTable, entryIds, mark, entryBase, warpT, overtook, launchCount>>

\* A step of the reduction; with a stride of less than a warp it is the warp's own affair.
ReduceStep(w) ==
  /\ warpPc[w] = "reduce"
  /\ LET stride == warpStep[w] \div Lanes
     IN  red' = IF w < stride /\ red[w + stride].stamp < red[w].stamp
                THEN [red EXCEPT ![w] = red[w + stride]] ELSE red
  /\ warpStep' = [warpStep EXCEPT ![w] = @ \div 2]
  /\ Goto(w, "atReduced")
  /\ UNCHANGED <<blockTable, entryIds, mark, entryBase, warpT, overtook, launchCount>>

\* After the reduction thread 0 gives the slot away.
AdmitEntry(w) ==
  /\ warpPc[w] = "admit"
  /\ IF w = 0
     THEN LET t == warpT[w]
              victim == red[0].slot
              old == slotExpert[victim]
          IN  /\ blockMap' = [e \in BlockExperts |->
                   IF e = entryIds[t] THEN victim ELSE IF e = old THEN -1 ELSE blockMap[e]]
              /\ slotExpert' = [slotExpert EXCEPT ![victim] = entryIds[t]]
              /\ slotStamp' = [slotStamp EXCEPT ![victim] = stampClock + 1]
              /\ stampClock' = stampClock + 1
              /\ entryBase' = [entryBase EXCEPT ![t] = victim]
              /\ mark' = [mark EXCEPT ![t] = "fetch"]
     ELSE UNCHANGED <<blockTable, mark, entryBase>>
  /\ Goto(w, "atEnd")
  /\ UNCHANGED <<entryIds, red, warpT, warpStep, overtook, launchCount>>

Waits(w) == warpPc[w] \in {"atScanned", "atReduced", "atEnd"}

\* __syncthreads: which one a warp waits at makes no difference.
Barrier ==
  /\ \E w \in Warps : Waits(w)
  /\ \A w \in Warps : Waits(w) \/ warpPc[w] = "left"
  /\ warpPc' = [w \in Warps |->
       CASE warpPc[w] = "left" -> "left"
         [] warpPc[w] = "atEnd" -> "check"
         [] warpPc[w] # "left" /\ warpPc[w] # "atEnd" -> IF warpStep[w] > 0 THEN "reduce" ELSE "admit"]
  /\ warpT' = [w \in Warps |-> warpT[w] + IF warpPc[w] = "atEnd" THEN 1 ELSE 0]
  /\ UNCHANGED <<blockTable, entryIds, mark, entryBase, red, warpStep, overtook, launchCount>>

BlockNext ==
  \/ LaunchAdmit \/ Barrier
  \/ \E w \in Warps : \/ CheckEntry(w) \/ LookDuplicate(w) \/ ScanSlots(w)
                      \/ ReduceStep(w) \/ AdmitEntry(w)

BlockSpec == BlockInit /\ [][BlockNext]_blockVars

-----------------------------------------------------------------------------
\* Properties

\* When the kernel has ended, every entry is read from a slot that is its expert's:
\* no hit or miss of a launch is evicted by a later miss of the same launch.
EveryEntryKeepsItsSlot ==
  Finished => \A t \in DOMAIN entryIds :
                /\ entryBase[t] >= 0
                /\ slotExpert[entryBase[t]] = entryIds[t]
                /\ blockMap[entryIds[t]] = entryBase[t]

\* So it is as long as the warps stay in step, which a duplicate expert in the
\* batch can end: then a warp finds the entry answered already and goes on.
EntriesKeepTheirSlotsInStep == ~overtook => EveryEntryKeepsItsSlot

=============================================================================
