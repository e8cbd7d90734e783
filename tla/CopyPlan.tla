------------------------------- MODULE CopyPlan -------------------------------
(***************************************************************************)
(* plan_runs (ft-core/src/lib.rs): the misses of a layer, as lookup has    *)
(* returned them, made into runs that are contiguous in the host bank.     *)
(* The bank has a layer's experts one after another, so that a run is one  *)
(* copy into several slots.                                                *)
(***************************************************************************)
EXTENDS Integers, Sequences, FiniteSets, SequencesExt

CONSTANTS PlanExperts, PlanSlots  \* sets of numbers

ASSUME PlanConstants == PlanExperts \subseteq Nat /\ PlanSlots \subseteq Nat

VARIABLES
  missList,   \* the misses as they came: pairs of an expert and its slot
  unplanned,  \* those that have no run yet, in the order of the loop
  runs        \* runs so far: [start, count, slots]

planVars == <<missList, unplanned, runs>>

\* Misses of one lookup: every expert once, every slot once.
MissLists ==
  UNION {{m \in [1..n -> PlanExperts \X PlanSlots] :
            \A i, j \in 1..n : i # j => m[i][1] # m[j][1] /\ m[i][2] # m[j][2]} :
         n \in 0..Cardinality(PlanSlots)}

\* sort_by_key: the same misses, by expert. Their experts differ, so there is one order.
ByExpert(list) ==
  {s \in [DOMAIN list -> ToSet(list)] :
     ToSet(s) = ToSet(list) /\ \A i, j \in DOMAIN s : i < j => s[i][1] < s[j][1]}

PlanInit ==
  /\ missList \in MissLists
  /\ unplanned \in ByExpert(missList)
  /\ runs = <<>>

\* Mutant of Continues: as if every run had one expert.
ContinuesFirst(run, e) == run.start + 1 = e
Continues(run, e) == run.start + run.count = e

Longer(run, s) ==
  [start |-> run.start, count |-> run.count + 1, slots |-> Append(run.slots, s)]

PlanMiss ==
  /\ unplanned # <<>>
  /\ LET e == unplanned[1][1]
         s == unplanned[1][2]
     IN  runs' = IF runs # <<>> /\ Continues(Last(runs), e)
                 THEN Append(Front(runs), Longer(Last(runs), s))
                 ELSE Append(runs, [start |-> e, count |-> 1, slots |-> <<s>>])
  /\ unplanned' = Tail(unplanned)
  /\ UNCHANGED missList

PlanNext == PlanMiss
PlanSpec == PlanInit /\ [][PlanNext]_planVars

-----------------------------------------------------------------------------
\* Properties

\* The runs copy every miss into its own slot, no two runs copy the same miss, and they
\* are as few as can be: no run begins where another ends (doc: lib.rs plan_runs).
Copies(run) == {<<run.start + i - 1, run.slots[i]>> : i \in 1..run.count}
RunsCopyEachMissOnce ==
  unplanned = <<>> =>
    /\ \A i \in DOMAIN runs : Len(runs[i].slots) = runs[i].count
    /\ UNION {Copies(runs[i]) : i \in DOMAIN runs} = ToSet(missList)
    /\ \A i, j \in DOMAIN runs : i # j => Copies(runs[i]) \cap Copies(runs[j]) = {}
    /\ \A i, j \in DOMAIN runs : runs[i].start + runs[i].count # runs[j].start

=============================================================================
