--------------------------- MODULE SlotCacheWindow ---------------------------
(***************************************************************************)
(* SlotCache with a history variable: for every key, the keys routed to    *)
(* from its own last lookup on.  It states what makes LRU the right policy *)
(* for expert routing, a fact about many lookups that no single one shows. *)
(***************************************************************************)
EXTENDS SlotCache

VARIABLE window   \* key -> keys routed to since its last lookup, {} if none

windowVars == <<cacheVars, window>>

WindowTypeOK == window \in [Keys -> SUBSET Keys]

WindowInit == CacheInit /\ window = [k \in Keys |-> {}]

WindowLookup(l, E) ==
  LET R == {l} \X E
  IN  /\ Lookup(l, E)
      /\ window' = [k \in Keys |-> IF k \in R THEN R
                                   ELSE IF window[k] = {} THEN {}
                                   ELSE window[k] \cup R]

WindowAdmit(k) == Admit(k) /\ window' = window

\* A forgotten key has to be looked up again before anything holds of it.
WindowForget(k) == Forget(k) /\ window' = [window EXCEPT ![k] = {}]

WindowNext ==
  \/ \E l \in Layers, E \in Routes : WindowLookup(l, E)
  \/ \E k \in Keys : WindowAdmit(k)
  \/ \E k \in Keys : WindowForget(k)

WindowSpec == WindowInit /\ [][WindowNext]_windowVars

(***************************************************************************)
(* A working set that fits stays: a key is evicted only after more than    *)
(* Capacity different keys, itself included, were routed to since its last *)
(* lookup.  So a prompt whose layers keep routing to the same experts pays *)
(* for each of them once.                                                  *)
(***************************************************************************)
WorkingSetStays ==
  \A k \in Keys :
    window[k] # {} /\ Cardinality(window[k]) <= Capacity
      => map[k] # None \/ k \in todo
=============================================================================
