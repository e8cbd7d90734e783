--------------------------- MODULE LruAdmitBlockLru ---------------------------
(***************************************************************************)
(* LruAdmitBlock with a history variable: for every slot, the launch in    *)
(* which it was last stamped.  With it the slot table that the kernel      *)
(* keeps on the device can be seen as the set of keys with ages that       *)
(* ft-core's SlotCache, on the host, is seen as too (LruSet).              *)
(***************************************************************************)
EXTENDS LruAdmitBlock

VARIABLE touchedIn   \* slot -> number of the launch that stamped it last, 0 if none has

touchedVars == <<blockVars, touchedIn>>

TouchedInit == BlockInit /\ touchedIn = [s \in SlotIds |-> 0]

\* The stamps of a launch are ahead of all earlier ones: a slot that is stamped changes its stamp.
TouchedNext ==
  /\ BlockNext
  /\ touchedIn' = [s \in SlotIds |-> IF slotStamp'[s] # slotStamp[s] THEN launchCount' ELSE touchedIn[s]]

TouchedSpec == TouchedInit /\ [][TouchedNext]_touchedVars

-----------------------------------------------------------------------------
\* Properties

\* An expert is as old as the launch that last touched its slot; those of the launch that
\* have no slot yet are to get one.
BlockAge == [e \in BlockExperts |-> IF blockMap[e] < 0 THEN 0 ELSE touchedIn[blockMap[e]]]
Unplaced == {e \in ToSet(entryIds) : blockMap[e] < 0}

Lru == INSTANCE LruSet WITH Keys <- BlockExperts, Capacity <- BlockSlots,
                            age <- BlockAge, now <- launchCount, pendingKeys <- Unplaced

(***************************************************************************)
(* The slot table on the device evicts as the one on the host does: only   *)
(* when all slots are in use, and then an expert that no later launch than *)
(* any other's has touched; every new expert of a launch gets a slot       *)
(* before the next launch begins.  It does so whatever order the warps     *)
(* scan, reduce and wait in, but for a warp that overtakes the others.     *)
(***************************************************************************)
BlockRefinesLruInStep ==
  Lru!Init /\ [][~overtook /\ ~overtook' => [Lru!Next]_(Lru!lruVars)]_touchedVars

\* And without exception when no launch routes to an expert twice.
BlockRefinesLru == Lru!Spec
=============================================================================
