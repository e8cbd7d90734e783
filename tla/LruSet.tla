------------------------------- MODULE LruSet -------------------------------
(***************************************************************************)
(* What ft-core's SlotCache promises its callers, without slots: at most   *)
(* Capacity keys are resident, each with the time it was last routed to;   *)
(* a key leaves only when it is dropped by name, or when a new key needs   *)
(* its place, there is no room, and no resident was routed to less         *)
(* recently.                                                               *)
(***************************************************************************)
EXTENDS Integers, FiniteSets

CONSTANTS
  Keys,       \* what can be resident
  Capacity    \* how many at once

VARIABLES
  age,          \* key -> time of its last touch, 0 when not resident
  now,          \* steps begun
  pendingKeys   \* keys of the current step that are not yet resident

lruVars == <<age, now, pendingKeys>>

Resident == {k \in Keys : age[k] # 0}

Init ==
  /\ age = [k \in Keys |-> 0]
  /\ now = 0
  /\ pendingKeys = {}

\* A step routes to the keys R: those that are resident become young.
Touch(R) ==
  /\ pendingKeys = {}
  /\ now' = now + 1
  /\ age' = [k \in Keys |-> IF k \in R \cap Resident THEN now' ELSE age[k]]
  /\ pendingKeys' = R \ Resident

\* One of its other keys gets a place, a free one when there is any.
Enter(k) ==
  /\ k \in pendingKeys
  /\ IF Cardinality(Resident) < Capacity
     THEN age' = [age EXCEPT ![k] = now]
     ELSE \E v \in Resident :
            /\ \A r \in Resident : age[v] <= age[r]
            /\ age' = [age EXCEPT ![v] = 0, ![k] = now]
  /\ pendingKeys' = pendingKeys \ {k}
  /\ now' = now

Drop(k) ==
  /\ pendingKeys = {}
  /\ k \in Resident
  /\ age' = [age EXCEPT ![k] = 0]
  /\ UNCHANGED <<now, pendingKeys>>

Next ==
  \/ \E R \in SUBSET Keys : Touch(R)
  \/ \E k \in Keys : Enter(k) \/ Drop(k)

Spec == Init /\ [][Next]_lruVars

=============================================================================
