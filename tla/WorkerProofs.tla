----------------------------- MODULE WorkerProofs -----------------------------
(***************************************************************************)
(* Proofs about the continuous-batching server, for any number of requests *)
(* and KV slots, any context length, prompts and budgets, and every        *)
(* interleaving of the worker, the pumps and the clients.                  *)
(***************************************************************************)
EXTENDS Worker, FiniteSetTheorems, SequenceTheorems, TLAPS

-----------------------------------------------------------------------------
(***************************************************************************)
(* Where a request is: not yet made, queued, in prefill, active, or done.  *)
(* While a step emits, the sequences it has gone through are split into    *)
(* those that go on and those that do not.                                 *)
(***************************************************************************)
Distinct(s) == \A i, j \in DOMAIN s : s[i] = s[j] => i = j

Emitted == {active[i] : i \in 1..idx}

PlaceInv ==
  /\ Distinct(jobs) /\ Distinct(active) /\ Distinct(kept) /\ Distinct(ended)
  /\ ToSet(jobs) \cap Held = {}
  /\ cur \notin ToSet(active)
  /\ pc = "prefill" <=> cur # None
  /\ pc = "dead" => active = <<>> /\ jobs = <<>>
  /\ pc = "decode" => active # <<>>
  /\ IF pc = "emit" THEN /\ idx <= Len(active)
                         /\ ToSet(kept) \cup ToSet(ended) = Emitted
                         /\ ToSet(kept) \cap ToSet(ended) = {}
                    ELSE kept = <<>> /\ ended = <<>>

\* Nothing has happened to a request nobody has made yet.
NewInv ==
  \A r \in Requests : client[r] = "new" =>
    /\ r \notin ToSet(jobs) /\ r \notin Held
    /\ ~rxOpen[r] /\ evq[r] = <<>> /\ pumped[r] = 0 /\ out[r] = None /\ late[r] = 0

(***************************************************************************)
(* The KV slots: SlotsAccountedFor without cardinalities.                  *)
(***************************************************************************)
SlotInv ==
  pc # "dead" =>
    /\ Distinct(free)
    /\ \A r \in Requests : slot[r] # None <=> r \in Held
    /\ \A r, q \in Requests : slot[r] # None /\ slot[r] = slot[q] => r = q
    /\ \A r \in Requests : slot[r] \notin ToSet(free)
    /\ \A s \in KvSlots : s \in ToSet(free) \/ \E r \in Requests : slot[r] = s

(***************************************************************************)
(* The positions filled, at every point of a step: a token that is sent is *)
(* fed to the model by the decode pass that follows.                       *)
(***************************************************************************)
Due(r) == IF r \in ToSet(kept) \/ pc = "decode" THEN 1 ELSE 0

PosInv ==
  /\ \A r \in Requests : client[r] # "new" => /\ prompt[r] > 0
                                              /\ prompt[r] + maxNew[r] <= MaxSeq
  /\ pc = "prefill" => seqPos[slot[cur]] = fed /\ fed < prompt[cur]
  /\ \A r \in ToSet(active) :
       /\ remaining[r] <= maxNew[r]
       /\ seqPos[slot[r]] = prompt[r] + (maxNew[r] - remaining[r]) - Due(r)

(***************************************************************************)
(* What a pump finds: tokens only, as long as the worker has not given the *)
(* sequence up, and nothing once it has returned.                          *)
(***************************************************************************)
AllToks(r) == \A i \in DOMAIN evq[r] : evq[r][i] = "tok"

GoingOn == (ToSet(active) \ ToSet(ended)) \cup ({cur} \ {None})

EventsInOrder(r) ==
  /\ ~rxOpen[r] => evq[r] = <<>>
  /\ r \in GoingOn \/ r \in ToSet(jobs) => AllToks(r)
  /\ \A i \in DOMAIN evq[r] : evq[r][i] # "tok" => i = Len(evq[r])

EventInv == \A r \in Requests : EventsInOrder(r)

(***************************************************************************)
(* The budget: what a pump has received, what is on its way to it and what *)
(* the worker may still send add up to the output budget.                  *)
(***************************************************************************)
WithinBudget(r) ==
  /\ pumped[r] <= maxNew[r]
  /\ out[r] # None => ~rxOpen[r]
  /\ out[r] = "Length" => pumped[r] = maxNew[r]
  /\ rxOpen[r] =>
       /\ r \in ToSet(jobs) \/ r = cur => evq[r] = <<>> /\ pumped[r] = 0
       /\ r \in ToSet(active) \ ToSet(ended) =>
            pumped[r] + Len(evq[r]) + remaining[r] = maxNew[r]
       /\ pumped[r] + Len(evq[r]) <= maxNew[r] + 1
       /\ AllToks(r) => pumped[r] + Len(evq[r]) <= maxNew[r]
       /\ \A i \in DOMAIN evq[r] :
            evq[r][i] = "Length" => pumped[r] + Len(evq[r]) = maxNew[r] + 1

BudgetInv == \A r \in Requests : WithinBudget(r)

(***************************************************************************)
(* Passes made for nobody: a sequence without a receiver is found out when *)
(* its next token is to be sent, which is before the next pass.            *)
(***************************************************************************)
LateInv ==
  \A r \in Requests :
    /\ late[r] <= 1
    /\ rxOpen[r] => late[r] = 0
    /\ r \in ToSet(kept) => late[r] = 0
    /\ pc = "decode" /\ r \in ToSet(active) => late[r] = 0

WorkerInv ==
  /\ TypeOK /\ PlaceInv /\ NewInv /\ SlotInv
  /\ PosInv /\ EventInv /\ BudgetInv /\ LateInv

-----------------------------------------------------------------------------
(* Queues and stacks, and the sets of what is in them *)

\* What is in a queue, and where.
LEMMA QueueSet ==
  ASSUME NEW S, NEW q \in Seq(S)
  PROVE  /\ Len(q) \in Nat /\ DOMAIN q = 1..Len(q) /\ ToSet(q) \subseteq S
         /\ \A i \in 1..Len(q) : q[i] \in S /\ q[i] \in ToSet(q)
         /\ q = <<>> <=> ToSet(q) = {}
         /\ q # <<>> => Len(q) > 0
  <1>1. Len(q) \in Nat /\ DOMAIN q = 1..Len(q) /\ \A i \in 1..Len(q) : q[i] \in S
    BY LenProperties
  <1>2. q # <<>> => Len(q) > 0
    BY EmptySeq
  <1>3. ToSet(q) \subseteq S /\ \A i \in 1..Len(q) : q[i] \in ToSet(q)
    BY <1>1 DEF ToSet
  <1>4. ASSUME q = <<>>
        PROVE  ToSet(q) = {}
    <2>1. DOMAIN q = {}
      BY <1>4
    <2> QED BY <2>1 DEF ToSet
  <1>5. ASSUME q # <<>>
        PROVE  ToSet(q) # {}
    <2>1. 1 \in 1..Len(q)
      BY <1>1, <1>2, <1>5
    <2> QED BY <1>3, <2>1
  <1> QED BY <1>1, <1>2, <1>3, <1>4, <1>5

\* The empty queue.
LEMMA EmptyQueue == Distinct(<<>>) /\ ToSet(<<>>) = {} /\ Len(<<>>) = 0
  <1>1. DOMAIN <<>> = {}
    OBVIOUS
  <1> QED BY <1>1 DEF Distinct, ToSet

\* A queue of distinct elements stays one when a new element joins it.
LEMMA AppendSet ==
  ASSUME NEW S, NEW q \in Seq(S), NEW e \in S
  PROVE  /\ Append(q, e) \in Seq(S) /\ Append(q, e) # <<>>
         /\ Len(Append(q, e)) = Len(q) + 1 /\ DOMAIN Append(q, e) = 1..(Len(q) + 1)
         /\ \A i \in 1..Len(q) : Append(q, e)[i] = q[i]
         /\ Append(q, e)[Len(q) + 1] = e
         /\ ToSet(Append(q, e)) = ToSet(q) \cup {e}
         /\ Distinct(q) /\ e \notin ToSet(q) => Distinct(Append(q, e))
  <1> DEFINE r == Append(q, e)
             n == Len(q)
  <1>1. /\ n \in Nat /\ DOMAIN q = 1..n /\ r \in Seq(S) /\ r # <<>> /\ Len(r) = n + 1
        /\ DOMAIN r = 1..(n + 1) /\ \A i \in 1..n : r[i] = q[i]
        /\ r[n + 1] = e
    BY AppendProperties, LenProperties
  <1>2. \A i \in 1..(n + 1) : i \in 1..n \/ i = n + 1
    BY <1>1
  <1>3. 1..n \subseteq 1..(n + 1) /\ n + 1 \in 1..(n + 1)
    BY <1>1
  <1> HIDE DEF r, n
  <1>4. ToSet(r) = ToSet(q) \cup {e}
    BY <1>1, <1>2, <1>3 DEF ToSet
  <1>5. ASSUME Distinct(q), e \notin ToSet(q)
        PROVE  Distinct(r)
    BY <1>1, <1>2, <1>5 DEF Distinct, ToSet
  <1> QED BY <1>1, <1>4, <1>5 DEF r, n

\* The head leaves a queue of distinct elements.
LEMMA TailSet ==
  ASSUME NEW S, NEW q \in Seq(S), q # <<>>
  PROVE  /\ Tail(q) \in Seq(S) /\ Head(q) = q[1] /\ Head(q) \in S /\ Head(q) \in ToSet(q)
         /\ Len(q) \in Nat \ {0} /\ Len(Tail(q)) = Len(q) - 1
         /\ DOMAIN q = 1..Len(q) /\ DOMAIN Tail(q) = 1..(Len(q) - 1)
         /\ \A i \in 1..(Len(q) - 1) : Tail(q)[i] = q[i + 1] /\ i + 1 \in 1..Len(q)
         /\ Distinct(q) => Distinct(Tail(q)) /\ ToSet(Tail(q)) = ToSet(q) \ {Head(q)}
  <1> DEFINE r == Tail(q)
             n == Len(q)
  <1>1. n \in Nat \ {0} /\ DOMAIN q = 1..n
    BY EmptySeq, LenProperties
  <1>2. /\ r \in Seq(S) /\ Head(q) \in S /\ Len(r) = n - 1 /\ DOMAIN r = 1..(n - 1)
        /\ \A i \in 1..(n - 1) : r[i] = q[i + 1]
    BY HeadTailProperties, LenProperties
  <1>3. Head(q) = q[1]
    OBVIOUS
  <1>4. /\ \A i \in 1..(n - 1) : i + 1 \in 1..n /\ i + 1 # 1
        /\ \A i \in 1..n : i # 1 => i - 1 \in 1..(n - 1) /\ (i - 1) + 1 = i
        /\ 1 \in 1..n
        /\ \A i, j \in 1..(n - 1) : i + 1 = j + 1 => i = j
    BY <1>1
  <1> HIDE DEF r, n
  <1>5. Head(q) \in ToSet(q)
    BY <1>1, <1>3, <1>4 DEF ToSet
  <1>6. ASSUME Distinct(q)
        PROVE  Distinct(r) /\ ToSet(r) = ToSet(q) \ {Head(q)}
    <2>1. ASSUME NEW i \in DOMAIN r, NEW j \in DOMAIN r, r[i] = r[j]
          PROVE  i = j
      <3>1. i \in 1..(n - 1) /\ j \in 1..(n - 1)
        BY Zenon, <1>2
      <3>2. q[i + 1] = q[j + 1] /\ i + 1 \in DOMAIN q /\ j + 1 \in DOMAIN q
        BY Zenon, <1>1, <1>2, <1>4, <2>1, <3>1
      <3>3. i + 1 = j + 1
        BY Zenon, <1>6, <3>2 DEF Distinct
      <3> QED BY Zenon, <1>4, <3>1, <3>3
    <2>2. ASSUME NEW x \in ToSet(r)
          PROVE  x \in ToSet(q) /\ x # Head(q)
      <3>1. PICK i \in 1..(n - 1) : x = r[i]
        BY Zenon, <1>2 DEF ToSet
      <3>2. x = q[i + 1] /\ i + 1 \in 1..n /\ i + 1 # 1
        BY <1>2, <1>4, <3>1
      <3> QED BY Zenon, <1>1, <1>3, <1>4, <1>6, <3>2 DEF Distinct, ToSet
    <2>3. \A x \in ToSet(q) : x # Head(q) => x \in ToSet(r)
      <3> TAKE x \in ToSet(q)
      <3> HAVE x # Head(q)
      <3>1. PICK i \in 1..n : x = q[i]
        BY <1>1 DEF ToSet
      <3>2. i - 1 \in 1..(n - 1) /\ r[i - 1] = x
        BY <1>2, <1>3, <1>4, <3>1
      <3> QED BY <1>2, <3>2 DEF ToSet
    <2> QED BY <2>1, <2>2, <2>3 DEF Distinct
  <1> QED BY <1>1, <1>2, <1>3, <1>4, <1>5, <1>6 DEF r, n

\* The top is popped off a stack of distinct elements.
LEMMA FrontSet ==
  ASSUME NEW S, NEW q \in Seq(S), q # <<>>
  PROVE  /\ Front(q) \in Seq(S) /\ Last(q) \in S /\ Last(q) \in ToSet(q)
         /\ Distinct(q) => Distinct(Front(q)) /\ ToSet(Front(q)) = ToSet(q) \ {Last(q)}
  <1> DEFINE r == Front(q)
             n == Len(q)
  <1>1. n \in Nat \ {0} /\ DOMAIN q = 1..n /\ \A i \in 1..n : q[i] \in S
    BY EmptySeq, LenProperties
  <1>2. r \in Seq(S) /\ DOMAIN r = 1..(n - 1) /\ \A i \in 1..(n - 1) : r[i] = q[i]
    <2>1. \A i \in 1..(n - 1) : q[i] \in S
      BY <1>1
    <2>2. /\ r \in Seq(S) /\ Len(r) = IF 1 <= n - 1 THEN (n - 1) - 1 + 1 ELSE 0
          /\ \A i \in 1..((n - 1) - 1 + 1) : r[i] = q[1 + i - 1]
      BY <1>1, <2>1, SubSeqProperties DEF Front
    <2>3. (n - 1) - 1 + 1 = n - 1 /\ \A i \in 1..(n - 1) : 1 + i - 1 = i
      BY <1>1
    <2>4. Len(r) = n - 1
      <3>1. CASE n = 1
        BY <2>2, <3>1
      <3>2. CASE n # 1
        <4>1. 1 <= n - 1
          BY <1>1, <3>2
        <4> QED BY <2>2, <2>3, <4>1
      <3> QED BY <3>1, <3>2
    <2> QED BY <2>2, <2>3, <2>4, LenProperties
  <1>3. Last(q) = q[n]
    BY DEF Last
  <1>0. n \in Nat \ {0}
    BY <1>1
  <1> HIDE DEF r, n
  <1>4. /\ \A i \in 1..(n - 1) : i \in 1..n /\ i # n
        /\ \A i \in 1..n : i # n => i \in 1..(n - 1)
        /\ n \in 1..n
    BY <1>0
  <1>5. Last(q) \in S /\ Last(q) \in ToSet(q)
    BY <1>1, <1>3, <1>4 DEF ToSet
  <1>6. ASSUME Distinct(q)
        PROVE  Distinct(r) /\ ToSet(r) = ToSet(q) \ {Last(q)}
    <2>1. Distinct(r)
      BY <1>1, <1>2, <1>4, <1>6 DEF Distinct
    <2>2. \A x \in ToSet(r) : x \in ToSet(q) /\ x # Last(q)
      BY <1>1, <1>2, <1>3, <1>4, <1>6 DEF Distinct, ToSet
    <2>3. \A x \in ToSet(q) : x # Last(q) => x \in ToSet(r)
      BY <1>1, <1>2, <1>3, <1>4 DEF ToSet
    <2> QED BY <2>1, <2>2, <2>3
  <1> QED BY <1>2, <1>5, <1>6 DEF r

\* A batch of elements is pushed on a stack.
LEMMA ConcatSet ==
  ASSUME NEW S, NEW p \in Seq(S), NEW q \in Seq(S)
  PROVE  /\ p \o q \in Seq(S) /\ ToSet(p \o q) = ToSet(p) \cup ToSet(q)
         /\ Distinct(p) /\ Distinct(q) /\ ToSet(p) \cap ToSet(q) = {} => Distinct(p \o q)
  <1> DEFINE r == p \o q
             m == Len(p)
             n == Len(q)
  <1>1. /\ m \in Nat /\ n \in Nat /\ DOMAIN p = 1..m /\ DOMAIN q = 1..n
        /\ r \in Seq(S) /\ DOMAIN r = 1..(m + n)
        /\ \A i \in 1..(m + n) : r[i] = IF i <= m THEN p[i] ELSE q[i - m]
    BY ConcatProperties, LenProperties
  <1>2. /\ \A i \in 1..(m + n) : IF i <= m THEN i \in 1..m ELSE i - m \in 1..n
        /\ \A i \in 1..m : i \in 1..(m + n) /\ i <= m
        /\ \A i \in 1..n : i + m \in 1..(m + n) /\ ~(i + m <= m) /\ (i + m) - m = i
        /\ \A i, j \in 1..(m + n) : i - m = j - m => i = j
    BY <1>1
  <1> HIDE DEF r, m, n
  <1>3. /\ \A i \in 1..m : r[i] = p[i] /\ i \in DOMAIN r
        /\ \A i \in 1..n : r[i + m] = q[i] /\ i + m \in DOMAIN r
    BY <1>1, <1>2
  <1>4. \A x \in ToSet(r) : x \in ToSet(p) \/ x \in ToSet(q)
    BY <1>1, <1>2 DEF ToSet
  <1>5. \A x \in ToSet(p) : x \in ToSet(r)
    BY <1>1, <1>3 DEF ToSet
  <1>6. \A x \in ToSet(q) : x \in ToSet(r)
    <2> TAKE x \in ToSet(q)
    <2>1. PICK i \in 1..n : x = q[i]
      BY <1>1 DEF ToSet
    <2>2. x = r[i + m] /\ i + m \in DOMAIN r
      BY <1>3, <2>1
    <2> QED BY <2>2 DEF ToSet
  <1>7. ASSUME Distinct(p), Distinct(q), ToSet(p) \cap ToSet(q) = {}
        PROVE  Distinct(r)
    <2> SUFFICES ASSUME NEW i \in DOMAIN r, NEW j \in DOMAIN r, r[i] = r[j]
                 PROVE  i = j
      BY DEF Distinct
    <2>1. \A h \in DOMAIN r : IF h <= m THEN r[h] = p[h] /\ h \in DOMAIN p /\ r[h] \in ToSet(p)
                              ELSE r[h] = q[h - m] /\ h - m \in DOMAIN q /\ r[h] \in ToSet(q)
      BY <1>1, <1>2 DEF ToSet
    <2>2. CASE i <= m /\ j <= m
      BY <1>7, <2>1, <2>2 DEF Distinct
    <2>3. CASE ~(i <= m) /\ ~(j <= m)
      <3>1. i - m = j - m
        BY <1>7, <2>1, <2>3 DEF Distinct
      <3> QED BY <1>1, <1>2, <3>1
    <2>4. CASE (i <= m) # (j <= m)
      BY <1>7, <2>1, <2>4
    <2> QED BY <2>2, <2>3, <2>4
  <1> QED BY <1>1, <1>4, <1>5, <1>6, <1>7 DEF r

\* The slots of a queue of sequences that hold one each.
LEMMA SlotsSet ==
  ASSUME NEW q \in Seq(Requests), \A x \in ToSet(q) : slot[x] \in KvSlots
  PROVE  /\ SlotsOf(q) \in Seq(KvSlots) /\ ToSet(SlotsOf(q)) = {slot[x] : x \in ToSet(q)}
         /\ Distinct(q) /\ (\A x, y \in ToSet(q) : slot[x] = slot[y] => x = y)
              => Distinct(SlotsOf(q))
  <1> DEFINE r == SlotsOf(q)
  <1>1. /\ Len(q) \in Nat /\ DOMAIN q = 1..Len(q) /\ DOMAIN r = DOMAIN q
        /\ \A i \in DOMAIN q : q[i] \in ToSet(q) /\ r[i] = slot[q[i]]
    BY QueueSet DEF SlotsOf
  <1>2. r \in [1..Len(q) -> KvSlots]
    BY <1>1 DEF SlotsOf
  <1>3. r \in Seq(KvSlots)
    BY <1>1, <1>2, IsASeq
  <1> HIDE DEF r
  <1>4. ToSet(r) = {slot[x] : x \in ToSet(q)}
    BY <1>1 DEF ToSet
  <1>5. ASSUME Distinct(q), \A x, y \in ToSet(q) : slot[x] = slot[y] => x = y
        PROVE  Distinct(r)
    BY <1>1, <1>5 DEF Distinct
  <1> QED BY <1>3, <1>4, <1>5 DEF r

-----------------------------------------------------------------------------
(* Who is where *)

\* The queues are queues, and nobody is called None.
LEMMA PlaceTypes ==
  ASSUME WorkerInv
  PROVE  /\ jobs \in Seq(Requests) /\ active \in Seq(Requests) /\ free \in Seq(KvSlots)
         /\ kept \in Seq(Requests) /\ ended \in Seq(Requests) /\ idx \in Nat
         /\ cur \in Requests \cup {None} /\ None \notin Requests
         /\ ToSet(jobs) \subseteq Requests /\ ToSet(active) \subseteq Requests
         /\ ToSet(kept) \subseteq Requests /\ ToSet(ended) \subseteq Requests
         /\ Held \subseteq Requests /\ Len(active) \in Nat /\ DOMAIN active = 1..Len(active)
         /\ \A i \in 1..Len(active) : active[i] \in ToSet(active)
  <1>1. /\ jobs \in Seq(Requests) /\ active \in Seq(Requests) /\ free \in Seq(KvSlots)
        /\ kept \in Seq(Requests) /\ ended \in Seq(Requests) /\ idx \in Nat
        /\ cur \in Requests \cup {None} /\ None \notin Requests
    BY WorkerAssumption DEF WorkerInv, TypeOK
  <1>2. /\ ToSet(jobs) \subseteq Requests /\ ToSet(active) \subseteq Requests
        /\ ToSet(kept) \subseteq Requests /\ ToSet(ended) \subseteq Requests
        /\ Len(active) \in Nat /\ DOMAIN active = 1..Len(active)
        /\ \A i \in 1..Len(active) : active[i] \in ToSet(active)
    BY <1>1, QueueSet
  <1> QED BY <1>1, <1>2 DEF Held

\* What the clients and the pumps do leaves the worker's places alone.
LEMMA OthersOnly ==
  ASSUME NEW r \in Requests, Leave(r) \/ Pump(r)
  PROVE  /\ UNCHANGED <<prompt, maxNew, jobs, pc, free, active, seqVars, loopVars, seqPos,
                        txOpen, late>>
         /\ Held' = Held /\ Emitted' = Emitted
  BY DEF Leave, Pump, PumpToken, PumpDone, PumpFailed, Held, Emitted, clientVars, loopVars,
         emitVars

\* The sequence a step of the emit loop is about has not been gone through.
LEMMA NextToEmit ==
  ASSUME WorkerInv, pc = "emit", idx < Len(active)
  PROVE  /\ active[idx + 1] \in ToSet(active) /\ active[idx + 1] \in Requests
         /\ active[idx + 1] \notin Emitted /\ idx + 1 \in Nat
         /\ active[idx + 1] \notin ToSet(kept) /\ active[idx + 1] \notin ToSet(ended)
         /\ {active[i] : i \in 1..(idx + 1)} = Emitted \cup {active[idx + 1]}
  <1>1. idx \in Nat /\ idx + 1 \in DOMAIN active /\ \A i \in 1..idx : i \in DOMAIN active
    BY PlaceTypes
  <1>2. active[idx + 1] \in ToSet(active) /\ active[idx + 1] \in Requests
    BY <1>1, PlaceTypes
  <1>3. \A i \in 1..idx : i # idx + 1
    BY <1>1
  <1>4. active[idx + 1] \notin Emitted
    BY <1>1, <1>3 DEF Emitted, WorkerInv, PlaceInv, Distinct
  <1>5. \A i \in 1..(idx + 1) : i \in 1..idx \/ i = idx + 1
    BY <1>1
  <1>6. 1..idx \subseteq 1..(idx + 1) /\ idx + 1 \in 1..(idx + 1)
    BY <1>1
  <1>7. {active[i] : i \in 1..(idx + 1)} = Emitted \cup {active[idx + 1]}
    BY <1>5, <1>6 DEF Emitted
  <1>8. ToSet(kept) \cup ToSet(ended) = Emitted
    BY DEF WorkerInv, PlaceInv
  <1> QED BY <1>1, <1>2, <1>4, <1>7, <1>8

\* When the emit loop is over the active sequences are split.
LEMMA AllEmitted ==
  ASSUME WorkerInv, pc = "emit", idx = Len(active)
  PROVE  /\ ToSet(kept) \cup ToSet(ended) = ToSet(active)
         /\ ToSet(kept) \cap ToSet(ended) = {}
  <1>1. Emitted = ToSet(active)
    BY PlaceTypes DEF Emitted, ToSet
  <1> QED BY <1>1 DEF WorkerInv, PlaceInv

\* PlaceInv is inductive.
LEMMA PlaceStep ==
  ASSUME WorkerInv, [Next]_vars
  PROVE  PlaceInv'
  <1> USE DEF loopVars, emitVars, clientVars, seqVars, pumpVars
  <1>a. PlaceInv /\ NewInv
    BY DEF WorkerInv
  <1>1. ASSUME NEW r \in Requests, Submit(r)
        PROVE  PlaceInv'
    <2>1. /\ UNCHANGED <<pc, active, cur, idx, kept, ended>> /\ Held' = Held /\ Emitted' = Emitted
          /\ r \notin ToSet(jobs) /\ r \notin Held
      BY <1>1, <1>a DEF Submit, Held, Emitted, NewInv
    <2>2. CASE pc = "dead"
      BY <1>1, <1>a, <2>1, <2>2 DEF Submit, PlaceInv
    <2>3. CASE pc # "dead"
      <3>1. jobs' = Append(jobs, r)
        BY <1>1, <2>3 DEF Submit
      <3>2. Distinct(jobs') /\ ToSet(jobs') = ToSet(jobs) \cup {r}
        BY <1>a, <2>1, <3>1, PlaceTypes, AppendSet DEF PlaceInv
      <3> QED BY <1>a, <2>1, <2>3, <3>2 DEF PlaceInv
    <2> QED BY <2>2, <2>3
  <1>2. ASSUME NEW r \in Requests, Leave(r) \/ Pump(r)
        PROVE  PlaceInv'
    BY <1>2, <1>a, OthersOnly DEF PlaceInv
  <1>3. CASE AdmitJob
    <2>1. /\ pc = "admit" /\ pc' = "prefill" /\ jobs # <<>> /\ cur' = Head(jobs)
          /\ jobs' = Tail(jobs) /\ UNCHANGED <<active, kept, ended>>
      BY <1>3 DEF AdmitJob
    <2>2. /\ Head(jobs) \in ToSet(jobs) /\ Head(jobs) \in Requests
          /\ Distinct(jobs') /\ ToSet(jobs') = ToSet(jobs) \ {Head(jobs)}
      BY <1>a, <2>1, PlaceTypes, TailSet DEF PlaceInv
    <2>3. Held' = Held \cup {Head(jobs)} /\ Head(jobs) \notin Held /\ Head(jobs) # None
      BY <1>a, <2>1, <2>2, PlaceTypes DEF Held, PlaceInv
    <2>4. cur' \notin ToSet(active')
      BY <2>1, <2>3 DEF Held
    <2> QED BY <1>a, <2>1, <2>2, <2>3, <2>4 DEF PlaceInv
  <1>4. CASE PrefillToken
    <2>1. pc = "prefill" /\ cur \in Requests /\ cur # None /\ cur \notin ToSet(active)
          /\ UNCHANGED <<jobs, kept, ended>> /\ kept = <<>> /\ ended = <<>>
      BY <1>4, <1>a, PlaceTypes DEF PrefillToken, PlaceInv
    <2>2. CASE UNCHANGED <<pc, cur, active>>
      <3>1. Held' = Held
        BY <2>2 DEF Held
      <3> QED BY <1>a, <2>1, <2>2, <3>1 DEF PlaceInv
    <2>3. CASE active' = Append(active, cur) /\ cur' = None /\ pc' = "admit"
      <3>1. Distinct(active') /\ ToSet(active') = ToSet(active) \cup {cur}
        BY <1>a, <2>1, <2>3, PlaceTypes, AppendSet DEF PlaceInv
      <3>2. Held' = Held /\ None \notin ToSet(active')
        BY <2>1, <2>3, <3>1, PlaceTypes DEF Held
      <3> QED BY <1>a, <2>1, <2>3, <3>1, <3>2 DEF PlaceInv
    <2> QED BY <1>4, <2>2, <2>3 DEF PrefillToken
  <1>5. CASE PrefillFails
    <2>1. /\ pc = "prefill" /\ pc' = "admit" /\ cur' = None
          /\ UNCHANGED <<jobs, active, kept, ended>>
      BY <1>5 DEF PrefillFails
    <2>2. Held' \subseteq Held /\ None \notin ToSet(active)
      BY <2>1, PlaceTypes DEF Held
    <2> QED BY <1>a, <2>1, <2>2 DEF PlaceInv
  <1>6. CASE BeginStep
    <2>1. /\ pc = "admit" /\ pc' = "emit" /\ idx' = 0 /\ kept' = <<>> /\ ended' = <<>>
          /\ UNCHANGED <<jobs, active, cur>>
      BY <1>6 DEF BeginStep
    <2>2. Held' = Held /\ Emitted' = {}
      BY <2>1 DEF Held, Emitted
    <2>3. idx' <= Len(active')
      BY <2>1, PlaceTypes
    <2> QED BY <1>a, <2>1, <2>2, <2>3, EmptyQueue DEF PlaceInv
  <1>7. CASE EmitNext
    <2> DEFINE r == active[idx + 1]
    <2>1. /\ pc = "emit" /\ pc' = "emit" /\ idx < Len(active) /\ idx' = idx + 1
          /\ kept' = (IF GoesOn(r) THEN Append(kept, r) ELSE kept)
          /\ ended' = (IF GoesOn(r) THEN ended ELSE Append(ended, r))
          /\ UNCHANGED <<jobs, active, cur>>
      BY <1>7 DEF EmitNext
    <2>2. /\ r \in Requests /\ r \notin ToSet(kept) /\ r \notin ToSet(ended)
          /\ Emitted' = Emitted \cup {r} /\ Held' = Held /\ idx' <= Len(active')
      BY <2>1, NextToEmit, PlaceTypes DEF Held, Emitted
    <2>3. /\ ToSet(kept) \cup ToSet(ended) = Emitted /\ ToSet(kept) \cap ToSet(ended) = {}
          /\ Distinct(kept) /\ Distinct(ended)
      BY <1>a, <2>1 DEF PlaceInv
    <2>4. /\ Distinct(kept') /\ Distinct(ended')
          /\ ToSet(kept') = ToSet(kept) \cup (IF GoesOn(r) THEN {r} ELSE {})
          /\ ToSet(ended') = ToSet(ended) \cup (IF GoesOn(r) THEN {} ELSE {r})
      <3> HIDE DEF r
      <3>1. CASE GoesOn(r)
        BY <2>1, <2>2, <2>3, <3>1, PlaceTypes, AppendSet
      <3>2. CASE ~GoesOn(r)
        BY <2>1, <2>2, <2>3, <3>2, PlaceTypes, AppendSet
      <3> QED BY <3>1, <3>2
    <2>5. ToSet(kept') \cup ToSet(ended') = Emitted' /\ ToSet(kept') \cap ToSet(ended') = {}
      <3> HIDE DEF r
      <3> QED BY <2>2, <2>3, <2>4
    <2> QED BY <1>a, <2>1, <2>2, <2>4, <2>5 DEF PlaceInv
  <1>8. CASE Retain
    <2>1. /\ pc = "emit" /\ idx = Len(active) /\ active' = kept /\ kept' = <<>> /\ ended' = <<>>
          /\ pc' = (IF kept = <<>> THEN "admit" ELSE "decode") /\ UNCHANGED <<jobs, cur>>
      BY <1>8 DEF Retain
    <2>2. Held' \subseteq Held /\ ToSet(kept) \subseteq ToSet(active)
      BY <2>1, AllEmitted DEF Held
    <2> QED BY <1>a, <2>1, <2>2, EmptyQueue DEF PlaceInv
  <1>9. CASE DecodeStep
    <2>1. /\ pc = "decode" /\ pc' = "admit" /\ UNCHANGED <<jobs, active, cur, kept, ended>>
      BY <1>9 DEF DecodeStep
    <2>2. Held' = Held
      BY <2>1 DEF Held
    <2> QED BY <1>a, <2>1, <2>2 DEF PlaceInv
  <1>10. CASE DecodeFails
    <2>1. /\ pc = "decode" /\ pc' = "admit" /\ active' = <<>>
          /\ UNCHANGED <<jobs, cur, kept, ended>>
      BY <1>10 DEF DecodeFails
    <2>2. Held' \subseteq Held
      BY <2>1, EmptyQueue DEF Held
    <2> QED BY <1>a, <2>1, <2>2, EmptyQueue DEF PlaceInv
  <1>11. CASE WorkerDies
    <2>1. /\ pc \in {"prefill", "decode"} /\ pc' = "dead" /\ active' = <<>> /\ jobs' = <<>>
          /\ cur' = None /\ UNCHANGED <<kept, ended>>
      BY <1>11 DEF WorkerDies
    <2> QED BY <1>a, <2>1, EmptyQueue DEF PlaceInv
  <1>12. CASE UNCHANGED vars
    BY <1>12, <1>a DEF vars, PlaceInv, Held, Emitted
  <1> QED
    BY <1>1, <1>2, <1>3, <1>4, <1>5, <1>6, <1>7, <1>8, <1>9, <1>10, <1>11, <1>12
    DEF Next, WorkerNext

\* The worker turns its attention to nobody but those who wait for it, and has
\* nothing to say to the others.
LEMMA WorkerOnly ==
  ASSUME WorkerInv, WorkerNext
  PROVE  /\ UNCHANGED <<clientVars, pumpVars>>
         /\ ToSet(jobs') \subseteq ToSet(jobs) /\ Held' \subseteq Held \cup ToSet(jobs)
         /\ \A r \in Requests : r \notin Held => evq'[r] = evq[r] /\ late'[r] = late[r]
  <1> USE DEF loopVars, emitVars, clientVars, seqVars, pumpVars
  <1>a. /\ PlaceInv /\ evq \in [Requests -> Seq(Events)] /\ late \in [Requests -> Nat]
    BY DEF WorkerInv, TypeOK
  <1>1. CASE AdmitJob
    <2>1. Head(jobs) \in ToSet(jobs) /\ ToSet(jobs') \subseteq ToSet(jobs)
      BY <1>1, <1>a, PlaceTypes, TailSet DEF AdmitJob, PlaceInv
    <2> QED BY <1>1, <2>1 DEF AdmitJob, Held
  <1>2. CASE PrefillToken
    <2>1. CASE UNCHANGED <<cur, active>>
      BY <1>2, <2>1 DEF PrefillToken, Held
    <2>2. CASE active' = Append(active, cur) /\ cur' = None /\ pc' = "admit"
      <3>1. cur \in Requests /\ cur \in Held
        BY <1>2, <1>a, PlaceTypes DEF PrefillToken, PlaceInv, Held
      <3>2. ToSet(active') = ToSet(active) \cup {cur}
        BY <2>2, <3>1, PlaceTypes, AppendSet
      <3> QED BY <1>2, <2>2, <3>1, <3>2 DEF PrefillToken, Held
    <2> QED BY <1>2, <2>1, <2>2 DEF PrefillToken
  <1>3. CASE PrefillFails
    <2>1. cur \in Requests /\ cur \in Held
      BY <1>3, <1>a, PlaceTypes DEF PrefillFails, PlaceInv, Held
    <2> QED BY <1>3, <1>a, <2>1 DEF PrefillFails, Sent, DropSeqs, Held
  <1>4. CASE BeginStep
    BY <1>4 DEF BeginStep, Held
  <1>5. CASE EmitNext
    <2>1. active[idx + 1] \in Held /\ active[idx + 1] \in Requests
      BY <1>5, NextToEmit DEF EmitNext, Held
    <2>2. evq' = Sent(active[idx + 1], IF Finish(active[idx + 1]) = None THEN "tok"
                                       ELSE Finish(active[idx + 1]))
          /\ UNCHANGED <<clientVars, pumpVars, jobs, active, cur, late>>
      BY <1>5 DEF EmitNext
    <2>3. \A r \in Requests : r # active[idx + 1] => evq'[r] = evq[r]
      BY <1>a, <2>1, <2>2 DEF Sent
    <2> QED BY <2>1, <2>2, <2>3 DEF Held
  <1>6. CASE Retain
    <2>1. ToSet(kept) \subseteq ToSet(active)
      BY <1>6, AllEmitted DEF Retain
    <2> QED BY <1>6, <2>1 DEF Retain, Held
  <1>7. CASE DecodeStep
    BY <1>7 DEF DecodeStep, Held
  <1>8. CASE DecodeFails
    BY <1>8, EmptyQueue DEF DecodeFails, Held
  <1>9. CASE WorkerDies
    BY <1>9, EmptyQueue DEF WorkerDies, Held
  <1> QED BY <1>1, <1>2, <1>3, <1>4, <1>5, <1>6, <1>7, <1>8, <1>9 DEF WorkerNext

\* NewInv is inductive.
LEMMA NewStep ==
  ASSUME WorkerInv, [Next]_vars
  PROVE  NewInv'
  <1> USE DEF loopVars, emitVars, clientVars, seqVars, pumpVars
  <1>a. /\ NewInv /\ client \in [Requests -> {"new", "waiting", "gone"}]
        /\ rxOpen \in [Requests -> BOOLEAN] /\ evq \in [Requests -> Seq(Events)]
        /\ pumped \in [Requests -> 0..MaxSeq]
        /\ out \in [Requests -> {None, "Stop", "Length", "Failed"}]
    BY DEF WorkerInv, TypeOK
  <1>1. ASSUME NEW q \in Requests, Submit(q)
        PROVE  NewInv'
    <2>1. Held' = Held /\ ToSet(jobs') \subseteq ToSet(jobs) \cup {q}
      <3>1. CASE jobs' = Append(jobs, q)
        BY <1>1, <3>1, PlaceTypes, AppendSet DEF Submit, Held
      <3>2. CASE jobs' = jobs
        BY <1>1, <3>2 DEF Submit, Held
      <3> QED BY <1>1, <3>1, <3>2 DEF Submit
    <2>2. client' = [client EXCEPT ![q] = "waiting"] /\ UNCHANGED <<evq, pumped, late>>
      BY <1>1 DEF Submit
    <2>3. \A r \in Requests : r # q => rxOpen'[r] = rxOpen[r] /\ out'[r] = out[r]
      BY <1>1, <1>a DEF Submit
    <2> QED BY <1>a, <2>1, <2>2, <2>3 DEF NewInv
  <1>2. ASSUME NEW q \in Requests, Leave(q)
        PROVE  NewInv'
    <2>1. /\ client' = [client EXCEPT ![q] = "gone"] /\ Held' = Held
          /\ UNCHANGED <<jobs, rxOpen, evq, pumped, out, late>>
      BY <1>2, OthersOnly DEF Leave
    <2> QED BY <1>a, <2>1 DEF NewInv
  <1>3. ASSUME NEW q \in Requests, Pump(q)
        PROVE  NewInv'
    <2>1. /\ client' = client /\ Held' = Held /\ jobs' = jobs /\ late' = late /\ rxOpen[q]
      BY <1>3, OthersOnly DEF Pump, PumpToken, PumpDone, PumpFailed
    <2>2. \A r \in Requests : r # q => /\ rxOpen'[r] = rxOpen[r] /\ evq'[r] = evq[r]
                                       /\ pumped'[r] = pumped[r] /\ out'[r] = out[r]
      BY <1>3, <1>a DEF Pump, PumpToken, PumpDone, PumpFailed, PumpEnds
    <2> QED BY <1>a, <2>1, <2>2 DEF NewInv
  <1>4. CASE WorkerNext
    BY <1>4, <1>a, WorkerOnly DEF NewInv
  <1>5. CASE UNCHANGED vars
    BY <1>5, <1>a DEF vars, NewInv, Held
  <1> QED BY <1>1, <1>2, <1>3, <1>4, <1>5 DEF Next

-----------------------------------------------------------------------------
(* KV slots *)

\* None is not the number of a KV slot.
LEMMA NoneIsNoSlot == None \notin KvSlots
  <1>1. MaxBatch \in Nat /\ None \notin Nat
    BY WorkerAssumption
  <1>2. KvSlots \subseteq Nat
    BY <1>1 DEF KvSlots
  <1> QED BY <1>1, <1>2

\* Dropping sequences and pushing their slots keeps every slot accounted for.
LEMMA SlotsGivenBack ==
  ASSUME WorkerInv, pc # "dead", NEW q \in Seq(Requests), Distinct(q), ToSet(q) \subseteq Held,
         DropSeqs(ToSet(q)), free' = free \o SlotsOf(q), Held' = Held \ ToSet(q)
  PROVE  SlotInv' /\ free' \in Seq(KvSlots)
  <1>a. /\ SlotInv /\ slot \in [Requests -> KvSlots \cup {None}] /\ free \in Seq(KvSlots)
        /\ Held \subseteq Requests /\ None \notin KvSlots
    BY PlaceTypes, NoneIsNoSlot DEF WorkerInv, TypeOK
  <1>1. \A r \in ToSet(q) : r \in Requests /\ slot[r] \in KvSlots /\ slot[r] # None
    BY <1>a DEF SlotInv
  <1>2. \A r, p \in ToSet(q) : slot[r] = slot[p] => r = p
    BY <1>a, <1>1 DEF SlotInv
  <1>3. /\ SlotsOf(q) \in Seq(KvSlots) /\ ToSet(SlotsOf(q)) = {slot[r] : r \in ToSet(q)}
        /\ Distinct(SlotsOf(q))
    BY <1>1, <1>2, SlotsSet
  <1>4. ToSet(free) \cap ToSet(SlotsOf(q)) = {}
    BY <1>a, <1>1, <1>3 DEF SlotInv
  <1>5. /\ free' \in Seq(KvSlots) /\ Distinct(free')
        /\ ToSet(free') = ToSet(free) \cup {slot[r] : r \in ToSet(q)}
    BY <1>a, <1>3, <1>4, ConcatSet DEF SlotInv
  <1>6. \A r \in Requests : slot'[r] = IF r \in ToSet(q) THEN None ELSE slot[r]
    BY DEF DropSeqs
  <1>7. \A r \in Requests : slot'[r] # None <=> r \in Held'
    BY <1>a, <1>6 DEF SlotInv
  <1>8. \A r, p \in Requests : slot'[r] # None /\ slot'[r] = slot'[p] => r = p
    BY <1>a, <1>6 DEF SlotInv
  <1>9. \A r \in Requests : slot'[r] \notin ToSet(free')
    <2> TAKE r \in Requests
    <2>1. CASE r \in ToSet(q)
      <3>1. slot'[r] = None /\ ToSet(free') \subseteq KvSlots
        BY <1>5, <1>6, <2>1, QueueSet
      <3> QED BY <1>a, <3>1
    <2>2. CASE r \notin ToSet(q)
      <3>1. slot'[r] = slot[r] /\ slot[r] \notin ToSet(free)
        BY <1>a, <1>6, <2>2 DEF SlotInv
      <3>2. \A p \in ToSet(q) : slot[p] # slot[r]
        BY <1>a, <1>1, <2>2 DEF SlotInv
      <3> QED BY <1>5, <3>1, <3>2
    <2> QED BY <2>1, <2>2
  <1>10. ASSUME NEW s \in KvSlots
         PROVE  s \in ToSet(free') \/ \E r \in Requests : slot'[r] = s
    <2>1. CASE s \in ToSet(free)
      BY <1>5, <2>1
    <2>2. CASE \E r \in Requests : slot[r] = s
      <3>1. PICK r \in Requests : slot[r] = s
        BY <2>2
      <3>2. CASE r \in ToSet(q)
        BY <1>5, <3>1, <3>2
      <3>3. CASE r \notin ToSet(q)
        BY <1>6, <3>1, <3>3
      <3> QED BY <3>2, <3>3
    <2> QED BY <1>a, <2>1, <2>2 DEF SlotInv
  <1> QED BY <1>5, <1>7, <1>8, <1>9, <1>10 DEF SlotInv

\* SlotInv is inductive.
LEMMA SlotStep ==
  ASSUME WorkerInv, [Next]_vars
  PROVE  SlotInv'
  <1> USE DEF loopVars, emitVars, clientVars, seqVars, pumpVars
  <1>a. /\ SlotInv /\ PlaceInv
        /\ slot \in [Requests -> KvSlots \cup {None}] /\ free \in Seq(KvSlots)
        /\ Held \subseteq Requests /\ None \notin KvSlots
    BY PlaceTypes, NoneIsNoSlot DEF WorkerInv, TypeOK
  <1>1. ASSUME UNCHANGED <<slot, free>>, Held' = Held, pc # "dead"
        PROVE  SlotInv'
    BY <1>1, <1>a DEF SlotInv
  <1>2. ASSUME UNCHANGED <<slot, free, pc>>, Held' = Held
        PROVE  SlotInv'
    BY <1>2, <1>a DEF SlotInv
  <1>3. ASSUME NEW r \in Requests, Submit(r) \/ Leave(r) \/ Pump(r)
        PROVE  SlotInv'
    <2>1. UNCHANGED <<slot, free, pc>> /\ Held' = Held
      BY <1>3, OthersOnly DEF Submit, Held
    <2> QED BY <1>2, <2>1
  <1>4. CASE AdmitJob
    <2> DEFINE r == Head(jobs)
               s == Last(free)
    <2>1. /\ pc = "admit" /\ jobs # <<>> /\ free # <<>> /\ cur' = r /\ free' = Front(free)
          /\ slot' = [slot EXCEPT ![r] = s] /\ active' = active
      BY <1>4 DEF AdmitJob
    <2>2. r \in Requests /\ r \in ToSet(jobs) /\ r \notin Held /\ r # None
      BY <1>a, <2>1, PlaceTypes, TailSet DEF PlaceInv
    <2>3. s \in KvSlots /\ s \in ToSet(free) /\ Distinct(free') /\ ToSet(free') = ToSet(free) \ {s}
      BY <1>a, <2>1, FrontSet DEF SlotInv
    <2>4. Held' = Held \cup {r}
      <3>1. cur = None
        BY <1>a, <2>1 DEF PlaceInv
      <3> QED BY <2>1, <2>2, <3>1 DEF Held
    <2> HIDE DEF r, s
    <2>5. \A q \in Requests : slot'[q] = IF q = r THEN s ELSE slot[q]
      BY <1>a, <2>1, <2>2
    <2>6. s # None /\ slot[r] = None /\ \A q \in Requests : slot[q] # s
      BY <1>a, <2>1, <2>2, <2>3 DEF SlotInv
    <2>7. \A q \in Requests : slot'[q] # None <=> q \in Held'
      BY <1>a, <2>1, <2>4, <2>5, <2>6 DEF SlotInv
    <2>8. \A q, p \in Requests : slot'[q] # None /\ slot'[q] = slot'[p] => q = p
      BY <1>a, <2>1, <2>5, <2>6 DEF SlotInv
    <2>9. \A q \in Requests : slot'[q] \notin ToSet(free')
      BY <1>a, <2>1, <2>3, <2>5 DEF SlotInv
    <2>10. \A t \in KvSlots : t \in ToSet(free') \/ \E q \in Requests : slot'[q] = t
      <3> TAKE t \in KvSlots
      <3>1. CASE t = s
        BY <2>2, <2>5, <3>1
      <3>2. CASE t # s
        <4>1. t \in ToSet(free) \/ \E q \in Requests : slot[q] = t
          BY <1>a, <2>1 DEF SlotInv
        <4> QED BY <1>a, <2>3, <2>5, <2>6, <3>2, <4>1
      <3> QED BY <3>1, <3>2
    <2> QED BY <2>3, <2>7, <2>8, <2>9, <2>10 DEF SlotInv
  <1>5. CASE PrefillToken
    <2>1. UNCHANGED <<slot, free>> /\ pc = "prefill"
      BY <1>5 DEF PrefillToken
    <2>2. Held' = Held
      <3>1. CASE UNCHANGED <<cur, active>>
        BY <3>1 DEF Held
      <3>2. CASE active' = Append(active, cur) /\ cur' = None
        <4>1. cur \in Requests /\ cur # None
          BY <1>a, <2>1, PlaceTypes DEF PlaceInv
        <4>2. ToSet(active') = ToSet(active) \cup {cur}
          BY <3>2, <4>1, PlaceTypes, AppendSet
        <4> QED BY <3>2, <4>1, <4>2, PlaceTypes DEF Held
      <3> QED BY <1>5, <3>1, <3>2 DEF PrefillToken
    <2> QED BY <1>1, <2>1, <2>2
  <1>6. CASE PrefillFails
    <2>1. /\ pc = "prefill" /\ free' = Append(free, slot[cur]) /\ DropSeqs({cur})
          /\ cur' = None /\ active' = active
      BY <1>6 DEF PrefillFails
    <2>2. cur \in Requests /\ cur \in Held /\ Held' = Held \ {cur}
      BY <1>a, <2>1, PlaceTypes DEF PlaceInv, Held
    <2>3. slot[cur] \in KvSlots /\ slot[cur] # None /\ slot[cur] \notin ToSet(free)
      BY <1>a, <2>1, <2>2 DEF SlotInv
    <2>4. Distinct(free') /\ ToSet(free') = ToSet(free) \cup {slot[cur]}
      BY <1>a, <2>1, <2>3, AppendSet DEF SlotInv
    <2>5. \A r \in Requests : slot'[r] = IF r = cur THEN None ELSE slot[r]
      BY <2>1 DEF DropSeqs
    <2>6. \A r \in Requests : slot'[r] # None <=> r \in Held'
      BY <1>a, <2>1, <2>2, <2>5 DEF SlotInv
    <2>7. \A r, p \in Requests : slot'[r] # None /\ slot'[r] = slot'[p] => r = p
      BY <1>a, <2>1, <2>5 DEF SlotInv
    <2>8. \A r \in Requests : slot'[r] \notin ToSet(free')
      <3>1. None \notin ToSet(free)
        BY <1>a, QueueSet
      <3> QED BY <1>a, <2>1, <2>2, <2>3, <2>4, <2>5, <3>1 DEF SlotInv
    <2>9. \A s \in KvSlots : s \in ToSet(free') \/ \E r \in Requests : slot'[r] = s
      <3> TAKE s \in KvSlots
      <3>1. s \in ToSet(free) \/ \E r \in Requests : slot[r] = s
        BY <1>a, <2>1 DEF SlotInv
      <3> QED BY <2>4, <2>5, <3>1
    <2> QED BY <2>4, <2>6, <2>7, <2>8, <2>9 DEF SlotInv
  <1>7. CASE BeginStep \/ EmitNext \/ DecodeStep
    <2>1. UNCHANGED <<slot, free>> /\ Held' = Held /\ pc # "dead"
      BY <1>7 DEF BeginStep, EmitNext, DecodeStep, Held
    <2> QED BY <1>1, <2>1
  <1>8. CASE Retain
    <2>1. /\ pc = "emit" /\ idx = Len(active) /\ free' = free \o SlotsOf(ended)
          /\ DropSeqs(ToSet(ended)) /\ active' = kept /\ cur' = cur
      BY <1>8 DEF Retain
    <2>2. cur = None /\ Distinct(ended) /\ ended \in Seq(Requests)
      BY <1>a, <2>1, PlaceTypes DEF PlaceInv
    <2>3. ToSet(ended) \subseteq Held /\ Held' = Held \ ToSet(ended)
      BY <2>1, <2>2, AllEmitted DEF Held
    <2> QED BY <2>1, <2>2, <2>3, SlotsGivenBack
  <1>9. CASE DecodeFails
    <2>1. /\ pc = "decode" /\ free' = free \o SlotsOf(active)
          /\ DropSeqs(ToSet(active)) /\ active' = <<>> /\ cur' = cur
      BY <1>9 DEF DecodeFails
    <2>2. cur = None /\ Distinct(active) /\ active \in Seq(Requests)
      BY <1>a, <2>1, PlaceTypes DEF PlaceInv
    <2>3. ToSet(active) \subseteq Held /\ Held' = Held \ ToSet(active)
      BY <2>1, <2>2, EmptyQueue DEF Held
    <2> QED BY <2>1, <2>2, <2>3, SlotsGivenBack
  <1>10. CASE WorkerDies
    BY <1>10 DEF WorkerDies, SlotInv
  <1>11. CASE UNCHANGED vars
    <2>1. UNCHANGED <<slot, free, pc>> /\ Held' = Held
      BY <1>11 DEF vars, Held
    <2> QED BY <1>2, <2>1
  <1> QED
    BY <1>3, <1>4, <1>5, <1>6, <1>7, <1>8, <1>9, <1>10, <1>11 DEF Next, WorkerNext

-----------------------------------------------------------------------------
(* Positions and budgets *)

\* What a sequence holds: a slot of its own, positions in it, a prompt and a
\* budget that fit together.
LEMMA HeldFacts ==
  ASSUME WorkerInv, pc # "dead", NEW r \in Held
  PROVE  /\ r \in Requests /\ r # None /\ client[r] # "new"
         /\ slot[r] \in KvSlots /\ slot[r] \notin ToSet(free) /\ seqPos[slot[r]] \in Int
         /\ \A q \in Requests : slot[q] = slot[r] => q = r
         /\ prompt[r] \in Int /\ maxNew[r] \in Int /\ remaining[r] \in Int
         /\ MaxSeq \in Nat /\ fed \in Int
         /\ prompt[r] > 0 /\ prompt[r] + maxNew[r] <= MaxSeq
         /\ PromptFed(r) = prompt[r]
  <1>1. r \in Requests /\ r # None
    BY PlaceTypes
  <1>2. client[r] # "new"
    BY <1>1 DEF WorkerInv, NewInv
  <1>3. /\ slot[r] \in KvSlots /\ slot[r] # None /\ slot[r] \notin ToSet(free)
        /\ \A q \in Requests : slot[q] = slot[r] => q = r
    BY <1>1 DEF WorkerInv, SlotInv, TypeOK
  <1>4. MaxSeq \in Nat
    BY WorkerAssumption
  <1>5. /\ seqPos[slot[r]] \in Int /\ prompt[r] \in Int /\ maxNew[r] \in Int
        /\ remaining[r] \in Int /\ fed \in Int
    BY <1>1, <1>3, <1>4 DEF WorkerInv, TypeOK
  <1>6. prompt[r] > 0 /\ prompt[r] + maxNew[r] <= MaxSeq
    BY <1>1, <1>2 DEF WorkerInv, PosInv
  <1>7. PromptFed(r) = prompt[r]
    BY <1>4, <1>5, <1>6 DEF PromptFed, MinOf
  <1> QED BY <1>1, <1>2, <1>3, <1>4, <1>5, <1>6, <1>7

\* The budget of a request fits behind its prompt.
LEMMA BudgetFits ==
  ASSUME NEW p \in PromptLens, NEW m \in MaxTokens, Room(p) > 0
  PROVE  /\ p \in 0..MaxSeq /\ MinOf(m, Room(p)) \in 0..MaxSeq
         /\ p > 0 /\ p + MinOf(m, Room(p)) <= MaxSeq
  <1>1. p \in Nat \ {0} /\ m \in Nat /\ MaxSeq \in Nat
    BY WorkerAssumption
  <1> QED BY <1>1 DEF Room, MinOf

\* PosInv is inductive.
LEMMA PosStep ==
  ASSUME WorkerInv, [Next]_vars
  PROVE  PosInv'
  <1> USE DEF loopVars, emitVars, clientVars, seqVars, pumpVars
  <1>a. /\ PosInv /\ PlaceInv /\ NewInv
        /\ client \in [Requests -> {"new", "waiting", "gone"}]
        /\ prompt \in [Requests -> 0..MaxSeq] /\ maxNew \in [Requests -> 0..MaxSeq]
        /\ slot \in [Requests -> KvSlots \cup {None}] /\ seqPos \in [KvSlots -> 0..MaxSeq]
        /\ remaining \in [Requests -> 0..MaxSeq]
    BY DEF WorkerInv, TypeOK
  <1>b. /\ ToSet(active) \subseteq Held /\ ToSet(active) \subseteq Requests
        /\ ToSet(kept) \subseteq ToSet(active) \/ pc = "emit"
    BY <1>a, PlaceTypes, EmptyQueue DEF Held, PlaceInv
  <1>1. ASSUME NEW r \in Requests, Submit(r)
        PROVE  PosInv'
    <2>1. /\ client[r] = "new" /\ client' = [client EXCEPT ![r] = "waiting"]
          /\ UNCHANGED <<pc, active, slot, remaining, cur, fed, kept, seqPos>>
      BY <1>1 DEF Submit
    <2>2. PICK p \in PromptLens, m \in MaxTokens :
                 /\ Room(p) > 0
                 /\ prompt' = [prompt EXCEPT ![r] = p]
                 /\ maxNew' = [maxNew EXCEPT ![r] = MinOf(m, Room(p))]
      BY <1>1 DEF Submit
    <2>3. r \notin Held /\ r \notin ToSet(active)
      BY <1>a, <1>b, <2>1 DEF NewInv
    <2>4. \A q \in Requests :
             client'[q] # "new" => prompt'[q] > 0 /\ prompt'[q] + maxNew'[q] <= MaxSeq
      BY <1>a, <2>1, <2>2, BudgetFits DEF PosInv
    <2>5. \A q \in Requests : q # r => prompt'[q] = prompt[q] /\ maxNew'[q] = maxNew[q]
      BY <1>a, <2>2
    <2>6. pc = "prefill" => cur \in Requests /\ cur # r
      BY <1>a, <2>3, PlaceTypes DEF PlaceInv, Held
    <2>7. pc' = "prefill" => seqPos'[slot'[cur']] = fed' /\ fed' < prompt'[cur']
      BY <1>a, <2>1, <2>5, <2>6 DEF PosInv
    <2>8. \A q \in ToSet(active') :
             /\ remaining'[q] <= maxNew'[q]
             /\ seqPos'[slot'[q]] = prompt'[q] + (maxNew'[q] - remaining'[q]) - Due(q)'
      BY <1>a, <1>b, <2>1, <2>3, <2>5 DEF PosInv, Due
    <2> QED BY <2>4, <2>7, <2>8 DEF PosInv
  <1>2. ASSUME NEW r \in Requests, Leave(r) \/ Pump(r)
        PROVE  PosInv'
    <2>1. /\ UNCHANGED <<prompt, maxNew, pc, active, slot, remaining, cur, fed, kept, seqPos>>
      BY <1>2, OthersOnly
    <2>2. \A q \in Requests : client'[q] # "new" => client[q] # "new"
      BY <1>2, <1>a DEF Leave, Pump, PumpToken, PumpDone, PumpFailed
    <2> QED BY <1>a, <2>1, <2>2 DEF PosInv, Due
  <1>3. CASE AdmitJob
    <2> DEFINE r == Head(jobs)
               s == Last(free)
    <2>1. /\ pc = "admit" /\ jobs # <<>> /\ free # <<>> /\ cur' = r /\ fed' = 0
          /\ slot' = [slot EXCEPT ![r] = s] /\ seqPos' = [seqPos EXCEPT ![s] = 0]
          /\ pc' = "prefill"
          /\ UNCHANGED <<client, prompt, maxNew, active, remaining, kept>>
      BY <1>3 DEF AdmitJob
    <2>2. r \in ToSet(jobs) /\ r \in Requests
      BY <2>1, PlaceTypes, TailSet
    <2>3. s \in ToSet(free) /\ s \in KvSlots
      BY <2>1, PlaceTypes, FrontSet
    <2> HIDE DEF r, s
    <2>4. r \notin Held /\ client[r] # "new"
      BY <1>a, <2>2 DEF PlaceInv, NewInv
    <2>5. slot'[r] = s /\ seqPos'[s] = 0 /\ prompt[r] > 0
      BY <1>a, <2>1, <2>2, <2>3, <2>4 DEF PosInv
    <2>6. \A q \in ToSet(active) : slot'[q] = slot[q] /\ seqPos'[slot[q]] = seqPos[slot[q]]
      BY <1>a, <1>b, <2>1, <2>3, <2>4, HeldFacts
    <2>7. \A q : Due(q)' = Due(q)
      BY <2>1 DEF Due
    <2> QED BY <1>a, <2>1, <2>5, <2>6, <2>7 DEF PosInv
  <1>4. CASE PrefillToken
    <2>1. /\ pc = "prefill" /\ UNCHANGED <<client, prompt, maxNew, slot, kept>>
          /\ seqPos' = [seqPos EXCEPT ![slot[cur]] = @ + 1]
      BY <1>4 DEF PrefillToken
    <2>2. cur \in Held /\ cur \notin ToSet(active) /\ kept = <<>>
      BY <1>a, <2>1, PlaceTypes DEF PlaceInv, Held
    <2>3. /\ cur \in Requests /\ slot[cur] \in KvSlots /\ prompt[cur] \in Int /\ fed \in Int
          /\ maxNew[cur] \in Int
          /\ PromptFed(cur) = prompt[cur] /\ seqPos[slot[cur]] = fed /\ fed < prompt[cur]
      BY <1>a, <2>1, <2>2, HeldFacts DEF PosInv
    <2>4. seqPos'[slot[cur]] = fed + 1
      BY <1>a, <2>1, <2>3
    <2>5. \A q \in ToSet(active) : seqPos'[slot[q]] = seqPos[slot[q]]
      BY <1>a, <1>b, <2>1, <2>2, <2>3, HeldFacts
    <2>6. CASE fed + 1 < PromptFed(cur)
      <3>1. fed' = fed + 1 /\ UNCHANGED <<pc, cur, active, remaining>>
        BY <1>4, <2>6 DEF PrefillToken
      <3>2. \A q : Due(q)' = Due(q)
        BY <2>1, <3>1 DEF Due
      <3> QED BY <1>a, <2>1, <2>3, <2>4, <2>5, <2>6, <3>1, <3>2 DEF PosInv
    <2>7. CASE ~(fed + 1 < PromptFed(cur))
      <3>1. /\ active' = Append(active, cur) /\ pc' = "admit"
            /\ remaining' = [remaining EXCEPT ![cur] = maxNew[cur]]
        BY <1>4, <2>7 DEF PrefillToken
      <3>2. ToSet(active') = ToSet(active) \cup {cur}
        BY <2>3, <3>1, PlaceTypes, AppendSet
      <3>3. \A q : Due(q)' = 0 /\ Due(q) = 0
        BY <2>1, <2>2, <3>1, EmptyQueue DEF Due
      <3>4. seqPos'[slot'[cur]] = prompt'[cur] + (maxNew'[cur] - remaining'[cur]) - 0
            /\ remaining'[cur] <= maxNew'[cur]
        BY <1>a, <2>1, <2>3, <2>4, <2>7, <3>1
      <3>5. \A q \in ToSet(active) :
             /\ remaining'[q] <= maxNew'[q]
             /\ seqPos'[slot'[q]] = prompt'[q] + (maxNew'[q] - remaining'[q]) - 0
        BY <1>a, <1>b, <2>1, <2>2, <2>5, <3>1, <3>3 DEF PosInv
      <3> QED BY <1>a, <2>1, <3>1, <3>2, <3>3, <3>4, <3>5 DEF PosInv
    <2> QED BY <2>6, <2>7
  <1>5. CASE PrefillFails
    <2>1. /\ pc = "prefill" /\ pc' = "admit" /\ DropSeqs({cur})
          /\ UNCHANGED <<client, prompt, maxNew, active, kept, seqPos>>
      BY <1>5 DEF PrefillFails
    <2>2. cur \notin ToSet(active)
      BY <1>a DEF PlaceInv
    <2>3. \A q \in ToSet(active) : slot'[q] = slot[q] /\ remaining'[q] = remaining[q]
      BY <1>b, <2>1, <2>2 DEF DropSeqs
    <2>4. \A q : Due(q)' = Due(q)
      BY <2>1 DEF Due
    <2> QED BY <1>a, <2>1, <2>3, <2>4 DEF PosInv
  <1>6. CASE BeginStep
    <2>1. /\ pc = "admit" /\ pc' = "emit" /\ kept' = <<>>
          /\ UNCHANGED <<client, prompt, maxNew, active, slot, remaining, seqPos>>
      BY <1>6 DEF BeginStep
    <2>2. kept = <<>>
      BY <1>a, <2>1 DEF PlaceInv
    <2>3. \A q : Due(q)' = Due(q)
      BY <2>1, <2>2 DEF Due
    <2> QED BY <1>a, <2>1, <2>3 DEF PosInv
  <1>7. CASE EmitNext
    <2>0. PICK r \in Requests : r = active[idx + 1]
      BY <1>7, NextToEmit DEF EmitNext
    <2>1. /\ pc = "emit" /\ pc' = "emit" /\ idx < Len(active)
          /\ kept' = (IF GoesOn(r) THEN Append(kept, r) ELSE kept)
          /\ remaining' = (IF GoesOn(r) THEN [remaining EXCEPT ![r] = @ - 1] ELSE remaining)
          /\ UNCHANGED <<client, prompt, maxNew, active, slot, seqPos>>
      BY <1>7, <2>0 DEF EmitNext
    <2>2. r \in Requests /\ r \in ToSet(active) /\ r \notin ToSet(kept)
      BY <2>0, <2>1, NextToEmit
    <2>3. CASE ~GoesOn(r)
      <3>1. \A q : Due(q)' = Due(q)
        BY <2>1, <2>3 DEF Due
      <3> QED BY <1>a, <2>1, <2>3, <3>1 DEF PosInv
    <2>4. CASE GoesOn(r)
      <3>1. ToSet(kept') = ToSet(kept) \cup {r}
        BY <2>1, <2>2, <2>4, PlaceTypes, AppendSet
      <3>2. Due(r) = 0 /\ Due(r)' = 1 /\ \A q : q # r => Due(q)' = Due(q)
        BY <2>1, <2>2, <3>1 DEF Due
      <3>3. remaining'[r] = remaining[r] - 1
            /\ \A q \in Requests : q # r => remaining'[q] = remaining[q]
        BY <1>a, <2>1, <2>2, <2>4
      <3>4. ASSUME NEW q \in ToSet(active)
            PROVE  /\ remaining'[q] <= maxNew[q]
                   /\ seqPos[slot[q]] = prompt[q] + (maxNew[q] - remaining'[q]) - Due(q)'
        <4>1. /\ remaining[q] <= maxNew[q]
              /\ seqPos[slot[q]] = prompt[q] + (maxNew[q] - remaining[q]) - Due(q)
          BY <1>a, <3>4 DEF PosInv
        <4>2. CASE q # r
          BY <1>b, <3>2, <3>3, <3>4, <4>1, <4>2
        <4>3. CASE q = r
          <5>1. /\ maxNew[q] \in Int /\ prompt[q] \in Int /\ remaining[q] \in Int
            BY <1>b, <2>1, <3>4, HeldFacts
          <5>2. Due(q) = 0 /\ Due(q)' = 1 /\ remaining'[q] = remaining[q] - 1
            BY <3>2, <3>3, <4>3
          <5> QED BY <4>1, <5>1, <5>2
        <4> QED BY <4>2, <4>3
      <3> QED BY <1>a, <2>1, <3>4 DEF PosInv
    <2> QED BY <2>3, <2>4
  <1>8. CASE Retain
    <2>1. /\ pc = "emit" /\ idx = Len(active) /\ active' = kept /\ kept' = <<>>
          /\ pc' = (IF kept = <<>> THEN "admit" ELSE "decode") /\ DropSeqs(ToSet(ended))
          /\ UNCHANGED <<client, prompt, maxNew, seqPos>>
      BY <1>8 DEF Retain
    <2>2. ToSet(kept) \subseteq ToSet(active) /\ ToSet(kept) \cap ToSet(ended) = {}
      BY <2>1, AllEmitted
    <2>3. \A q \in ToSet(kept) : slot'[q] = slot[q] /\ remaining'[q] = remaining[q]
      BY <1>b, <2>1, <2>2 DEF DropSeqs
    <2>4. \A q \in ToSet(kept) : Due(q) = 1 /\ Due(q)' = 1
      BY <2>1, EmptyQueue DEF Due
    <2> QED BY <1>a, <2>1, <2>2, <2>3, <2>4 DEF PosInv
  <1>9. CASE DecodeStep
    <2>1. /\ pc = "decode" /\ pc' = "admit"
          /\ seqPos' = [s \in KvSlots |-> IF \E r \in ToSet(active) : slot[r] = s
                                          THEN seqPos[s] + 1 ELSE seqPos[s]]
          /\ UNCHANGED <<client, prompt, maxNew, active, slot, remaining, kept>>
      BY <1>9 DEF DecodeStep
    <2>2. \A q : Due(q) = 1 /\ Due(q)' = 0
      BY <1>a, <2>1, EmptyQueue DEF Due, PlaceInv
    <2>3. ASSUME NEW q \in ToSet(active)
          PROVE  /\ remaining[q] <= maxNew[q]
                 /\ seqPos'[slot[q]] = prompt[q] + (maxNew[q] - remaining[q]) - 0
      <3>1. /\ slot[q] \in KvSlots /\ prompt[q] \in Int /\ maxNew[q] \in Int /\ remaining[q] \in Int
        BY <1>b, <2>1, <2>3, HeldFacts
      <3>2. seqPos'[slot[q]] = seqPos[slot[q]] + 1
        BY <2>1, <2>3, <3>1
      <3>3. /\ remaining[q] <= maxNew[q]
            /\ seqPos[slot[q]] = prompt[q] + (maxNew[q] - remaining[q]) - 1
        BY <1>a, <2>2, <2>3 DEF PosInv
      <3> QED BY <3>1, <3>2, <3>3
    <2> QED BY <1>a, <2>1, <2>2, <2>3 DEF PosInv
  <1>10. CASE DecodeFails
    <2>1. /\ pc' = "admit" /\ active' = <<>> /\ UNCHANGED <<client, prompt, maxNew>>
      BY <1>10 DEF DecodeFails
    <2> QED BY <1>a, <2>1, EmptyQueue DEF PosInv
  <1>11. CASE WorkerDies
    <2>1. /\ pc' = "dead" /\ active' = <<>> /\ UNCHANGED <<client, prompt, maxNew>>
      BY <1>11 DEF WorkerDies
    <2> QED BY <1>a, <2>1, EmptyQueue DEF PosInv
  <1>12. CASE UNCHANGED vars
    BY <1>12, <1>a DEF vars, PosInv, Due
  <1> QED
    BY <1>1, <1>2, <1>3, <1>4, <1>5, <1>6, <1>7, <1>8, <1>9, <1>10, <1>11, <1>12
    DEF Next, WorkerNext

-----------------------------------------------------------------------------
(* Events *)

\* What a pump's channel and counters are.
LEMMA ChannelTypes ==
  ASSUME WorkerInv, NEW r \in Requests
  PROVE  /\ evq[r] \in Seq(Events) /\ Len(evq[r]) \in Nat /\ DOMAIN evq[r] = 1..Len(evq[r])
         /\ pumped[r] \in Nat /\ maxNew[r] \in Nat /\ remaining[r] \in Nat /\ MaxSeq \in Nat
         /\ maxNew[r] <= MaxSeq
  <1>1. evq[r] \in Seq(Events) /\ MaxSeq \in Nat
    BY WorkerAssumption DEF WorkerInv, TypeOK
  <1>2. Len(evq[r]) \in Nat /\ DOMAIN evq[r] = 1..Len(evq[r])
    BY <1>1, QueueSet
  <1>3. pumped[r] \in Nat /\ maxNew[r] \in Nat /\ remaining[r] \in Nat /\ maxNew[r] <= MaxSeq
    BY <1>1 DEF WorkerInv, TypeOK
  <1> QED BY <1>1, <1>2, <1>3

\* An event joins a channel of tokens.
LEMMA EventAppended ==
  ASSUME NEW s \in Seq(Events), \A i \in DOMAIN s : s[i] = "tok", NEW e \in Events
  PROVE  /\ \A i \in DOMAIN Append(s, e) : Append(s, e)[i] # "tok" => i = Len(Append(s, e))
         /\ \A i \in DOMAIN Append(s, e) : Append(s, e)[i] \in {"tok", e}
         /\ Append(s, e)[Len(s) + 1] = e /\ Len(s) + 1 \in DOMAIN Append(s, e)
         /\ Append(s, e) \in Seq(Events) /\ Len(Append(s, e)) = Len(s) + 1
  <1> DEFINE n == Len(s)
             t == Append(s, e)
  <1>1. /\ n \in Nat /\ DOMAIN s = 1..n /\ t \in Seq(Events) /\ Len(t) = n + 1
        /\ DOMAIN t = 1..(n + 1) /\ t[n + 1] = e /\ \A i \in 1..n : t[i] = s[i]
    BY AppendSet, QueueSet
  <1>2. (\A i \in 1..(n + 1) : i \in 1..n \/ i = n + 1) /\ n + 1 \in 1..(n + 1)
    BY <1>1
  <1> HIDE DEF n, t
  <1> QED BY <1>1, <1>2 DEF n, t

\* An event is taken off a channel whose first event is a token.
LEMMA EventTaken ==
  ASSUME NEW s \in Seq(Events), s # <<>>, Head(s) = "tok"
  PROVE  /\ Tail(s) \in Seq(Events) /\ Len(Tail(s)) = Len(s) - 1 /\ Len(s) \in Nat \ {0}
         /\ \A i \in DOMAIN Tail(s) : Tail(s)[i] = s[i + 1] /\ i + 1 \in DOMAIN s
         /\ (\A i \in DOMAIN s : s[i] # "tok" => i = Len(s))
              => \A i \in DOMAIN Tail(s) : Tail(s)[i] # "tok" => i = Len(Tail(s))
         /\ (\A i \in DOMAIN s : s[i] = "tok") <=> (\A i \in DOMAIN Tail(s) : Tail(s)[i] = "tok")
  <1> DEFINE n == Len(s)
             t == Tail(s)
  <1>1. /\ n \in Nat \ {0} /\ DOMAIN s = 1..n /\ t \in Seq(Events) /\ Len(t) = n - 1
        /\ DOMAIN t = 1..(n - 1) /\ s[1] = "tok"
        /\ \A i \in 1..(n - 1) : t[i] = s[i + 1] /\ i + 1 \in 1..n
    BY TailSet
  <1>2. /\ \A i \in 1..(n - 1) : i + 1 = n => i = n - 1
        /\ \A i \in 1..n : i = 1 \/ (i - 1 \in 1..(n - 1) /\ (i - 1) + 1 = i)
    <2>1. n \in Nat \ {0}
      BY <1>1
    <2> HIDE DEF n, t
    <2> QED BY <2>1
  <1> HIDE DEF n, t
  <1>3. (\A i \in 1..n : s[i] # "tok" => i = n)
          => \A i \in 1..(n - 1) : t[i] # "tok" => i = n - 1
    BY <1>1, <1>2
  <1>4. (\A i \in 1..n : s[i] = "tok") <=> (\A i \in 1..(n - 1) : t[i] = "tok")
    <2>1. ASSUME \A i \in 1..(n - 1) : t[i] = "tok", NEW i \in 1..n
          PROVE  s[i] = "tok"
      <3>1. CASE i = 1
        BY <1>1, <3>1
      <3>2. CASE i # 1
        <4>1. i - 1 \in 1..(n - 1) /\ (i - 1) + 1 = i
          BY <1>2, <3>2
        <4>2. t[i - 1] = s[(i - 1) + 1]
          BY <1>1, <4>1
        <4> QED BY <2>1, <4>1, <4>2
      <3> QED BY <3>1, <3>2
    <2> QED BY <1>1, <2>1
  <1> QED BY <1>1, <1>3, <1>4 DEF n, t

\* EventInv is inductive.
LEMMA EventStep ==
  ASSUME WorkerInv, [Next]_vars
  PROVE  EventInv'
  <1> USE DEF loopVars, emitVars, clientVars, seqVars, pumpVars
  <1>a. /\ EventInv /\ PlaceInv /\ NewInv
        /\ rxOpen \in [Requests -> BOOLEAN] /\ evq \in [Requests -> Seq(Events)]
    BY DEF WorkerInv, TypeOK
  <1>b. ASSUME NEW q \in Requests, evq'[q] = evq[q], rxOpen[q] => rxOpen'[q],
               q \in GoingOn' \/ q \in ToSet(jobs') =>
                 q \in GoingOn \/ q \in ToSet(jobs) \/ evq[q] = <<>>
        PROVE  EventsInOrder(q)'
    <2>1. EventsInOrder(q)
      BY <1>a DEF EventInv
    <2>2. evq[q] = <<>> => AllToks(q)
      BY DEF AllToks
    <2> QED BY <1>b, <2>1, <2>2 DEF EventsInOrder, AllToks
  <1>c. ASSUME NEW q \in Requests, NEW e \in Events, AllToks(q), rxOpen[q] <=> rxOpen'[q],
               evq'[q] = IF rxOpen[q] THEN Append(evq[q], e) ELSE evq[q],
               e # "tok" /\ rxOpen[q] => q \notin GoingOn' /\ q \notin ToSet(jobs')
        PROVE  EventsInOrder(q)'
    <2>1. evq[q] \in Seq(Events) /\ EventsInOrder(q)
      BY <1>a DEF EventInv
    <2>2. CASE rxOpen[q]
      BY <1>c, <2>1, <2>2, EventAppended DEF EventsInOrder, AllToks
    <2>3. CASE ~rxOpen[q]
      BY <1>c, <2>1, <2>3 DEF EventsInOrder, AllToks
    <2> QED BY <2>2, <2>3
  <1>d. \A q \in Requests : q \in GoingOn => AllToks(q)
    BY <1>a DEF EventInv, EventsInOrder
  <1>1. ASSUME NEW r \in Requests, Submit(r)
        PROVE  EventInv'
    <2>1. evq' = evq /\ GoingOn' = GoingOn /\ \A q \in Requests : rxOpen[q] => rxOpen'[q]
      BY <1>1, <1>a DEF Submit, GoingOn
    <2>2. evq[r] = <<>>
      BY <1>1, <1>a DEF Submit, NewInv
    <2>3. ToSet(jobs') \subseteq ToSet(jobs) \cup {r}
      <3>1. CASE jobs' = Append(jobs, r)
        BY <3>1, PlaceTypes, AppendSet
      <3>2. CASE jobs' = jobs
        BY <3>2
      <3> QED BY <1>1, <3>1, <3>2 DEF Submit
    <2> QED BY <1>b, <2>1, <2>2, <2>3 DEF EventInv
  <1>2. ASSUME NEW r \in Requests, Leave(r)
        PROVE  EventInv'
    <2>1. evq' = evq /\ rxOpen' = rxOpen /\ GoingOn' = GoingOn /\ jobs' = jobs
      BY <1>2 DEF Leave, GoingOn
    <2> QED BY <1>b, <2>1 DEF EventInv
  <1>3. ASSUME NEW r \in Requests, Pump(r)
        PROVE  EventInv'
    <2>1. GoingOn' = GoingOn /\ jobs' = jobs
      BY <1>3, OthersOnly DEF GoingOn
    <2>2. \A q \in Requests : q # r => evq'[q] = evq[q] /\ rxOpen'[q] = rxOpen[q]
      BY <1>3, <1>a DEF Pump, PumpToken, PumpDone, PumpFailed, PumpEnds
    <2>3. \A q \in Requests : q # r => EventsInOrder(q)'
      BY <1>b, <2>1, <2>2
    <2>4. CASE evq'[r] = <<>>
      BY <2>3, <2>4 DEF EventInv, EventsInOrder, AllToks
    <2>5. CASE /\ rxOpen[r] /\ evq[r] # <<>> /\ Head(evq[r]) = "tok"
               /\ rxOpen' = rxOpen /\ evq'[r] = Tail(evq[r])
      <3>1. EventsInOrder(r) /\ evq[r] \in Seq(Events)
        BY <1>a DEF EventInv
      <3>2. EventsInOrder(r)'
        BY <2>1, <2>5, <3>1, EventTaken DEF EventsInOrder, AllToks
      <3> QED BY <2>3, <3>2 DEF EventInv
    <2> QED BY <1>3, <1>a, <2>4, <2>5 DEF Pump, PumpToken, PumpDone, PumpFailed, PumpEnds
  <1>4. CASE AdmitJob
    <2>1. evq' = evq /\ rxOpen' = rxOpen
      BY <1>4 DEF AdmitJob
    <2>2. Head(jobs) \in ToSet(jobs) /\ ToSet(jobs') \subseteq ToSet(jobs)
      BY <1>4, <1>a, PlaceTypes, TailSet DEF AdmitJob, PlaceInv
    <2>3. GoingOn' \subseteq GoingOn \cup {Head(jobs)}
      BY <1>4 DEF AdmitJob, GoingOn
    <2> QED BY <1>b, <2>1, <2>2, <2>3 DEF EventInv
  <1>5. CASE PrefillToken
    <2>1. evq' = evq /\ rxOpen' = rxOpen /\ jobs' = jobs /\ ended' = ended /\ pc = "prefill"
      BY <1>5 DEF PrefillToken
    <2>2. cur \in Requests /\ cur # None /\ ToSet(ended) = {}
      BY <1>a, <2>1, PlaceTypes, EmptyQueue DEF PlaceInv
    <2>3. GoingOn' \subseteq GoingOn
      <3>1. CASE UNCHANGED <<cur, active>>
        BY <2>1, <3>1 DEF GoingOn
      <3>2. CASE active' = Append(active, cur) /\ cur' = None
        <4>1. ToSet(active') = ToSet(active) \cup {cur}
          BY <2>2, <3>2, PlaceTypes, AppendSet
        <4> QED BY <2>1, <2>2, <3>2, <4>1 DEF GoingOn
      <3> QED BY <1>5, <3>1, <3>2 DEF PrefillToken
    <2> QED BY <1>b, <2>1, <2>3 DEF EventInv
  <1>6. CASE PrefillFails
    <2>0. pc = "prefill" /\ cur \in Requests
      BY <1>6, <1>a, PlaceTypes DEF PrefillFails, PlaceInv
    <2>1. PICK r \in Requests : r = cur
      BY <2>0
    <2>2. /\ evq' = Sent(r, "Failed") /\ rxOpen' = rxOpen /\ jobs' = jobs /\ active' = active
          /\ cur' = None /\ ended' = ended
      BY <1>6, <2>1 DEF PrefillFails
    <2>3. r # None /\ r \notin ToSet(jobs) /\ r \notin ToSet(active)
      BY <1>a, <2>0, <2>1, PlaceTypes DEF PlaceInv, Held
    <2>4. r \in GoingOn /\ GoingOn' \subseteq GoingOn /\ r \notin GoingOn'
      BY <2>1, <2>2, <2>3 DEF GoingOn
    <2>5. \A q \in Requests : q # r => evq'[q] = evq[q]
      BY <1>a, <2>2 DEF Sent
    <2>6. evq'[r] = (IF rxOpen[r] THEN Append(evq[r], "Failed") ELSE evq[r])
          /\ "Failed" \in Events
      BY <1>a, <2>2 DEF Sent, Events
    <2>7. EventsInOrder(r)'
      BY <1>c, <1>d, <2>2, <2>3, <2>4, <2>6
    <2>8. \A q \in Requests : q # r => EventsInOrder(q)'
      BY <1>b, <2>2, <2>4, <2>5
    <2> QED BY <2>7, <2>8 DEF EventInv
  <1>7. CASE BeginStep
    <2>1. evq' = evq /\ rxOpen' = rxOpen /\ jobs' = jobs
      BY <1>7 DEF BeginStep
    <2>2. GoingOn' = GoingOn
      BY <1>7, <1>a DEF BeginStep, GoingOn, PlaceInv
    <2> QED BY <1>b, <2>1, <2>2 DEF EventInv
  <1>8. CASE EmitNext
    <2>0. PICK r \in Requests : r = active[idx + 1]
      BY <1>8, NextToEmit DEF EmitNext
    <2> DEFINE e == IF Finish(r) = None THEN "tok" ELSE Finish(r)
    <2>1. /\ pc = "emit" /\ idx < Len(active) /\ evq' = Sent(r, e) /\ rxOpen' = rxOpen
          /\ ended' = (IF GoesOn(r) THEN ended ELSE Append(ended, r))
          /\ UNCHANGED <<jobs, active, cur>>
      BY <1>8, <2>0 DEF EmitNext
    <2>2. r \in ToSet(active) /\ r \notin ToSet(ended) /\ r # None /\ r \notin ToSet(jobs)
      BY <1>a, <2>0, <2>1, NextToEmit, PlaceTypes DEF PlaceInv, Held
    <2>3. cur = None
      BY <1>a, <2>1 DEF PlaceInv
    <2>4. ToSet(ended') = ToSet(ended) \cup (IF GoesOn(r) THEN {} ELSE {r})
      <3>1. CASE GoesOn(r)
        BY <2>1, <3>1
      <3>2. CASE ~GoesOn(r)
        BY <2>1, <3>2, PlaceTypes, AppendSet
      <3> QED BY <3>1, <3>2
    <2>5. r \in GoingOn /\ GoingOn' \subseteq GoingOn /\ (~GoesOn(r) => r \notin GoingOn')
      BY <2>1, <2>2, <2>3, <2>4 DEF GoingOn
    <2>6. e \in Events /\ (e # "tok" => Finish(r) # None)
      BY DEF Finish, Events
    <2> HIDE DEF e
    <2>7. \A q \in Requests : q # r => evq'[q] = evq[q]
      BY <1>a, <2>1 DEF Sent
    <2>8. evq'[r] = IF rxOpen[r] THEN Append(evq[r], e) ELSE evq[r]
      BY <1>a, <2>1 DEF Sent
    <2>9. EventsInOrder(r)'
      BY <1>c, <1>d, <2>1, <2>2, <2>5, <2>6, <2>8 DEF GoesOn
    <2>10. \A q \in Requests : q # r => EventsInOrder(q)'
      BY <1>b, <2>1, <2>5, <2>7
    <2> QED BY <2>9, <2>10 DEF EventInv
  <1>9. CASE Retain
    <2>1. /\ pc = "emit" /\ idx = Len(active) /\ active' = kept /\ ended' = <<>>
          /\ UNCHANGED <<evq, rxOpen, jobs, cur>>
      BY <1>9 DEF Retain
    <2>2. GoingOn' \subseteq GoingOn
      BY <2>1, AllEmitted, EmptyQueue DEF GoingOn
    <2> QED BY <1>b, <2>1, <2>2 DEF EventInv
  <1>10. CASE DecodeStep
    <2>1. evq' = evq /\ rxOpen' = rxOpen /\ jobs' = jobs /\ GoingOn' = GoingOn
      BY <1>10 DEF DecodeStep, GoingOn
    <2> QED BY <1>b, <2>1 DEF EventInv
  <1>11. CASE DecodeFails
    <2>1. /\ pc = "decode" /\ active' = <<>> /\ UNCHANGED <<rxOpen, jobs, cur, ended>>
          /\ evq' = [r \in Requests |-> IF r \in ToSet(active) /\ rxOpen[r]
                                        THEN Append(evq[r], "Failed") ELSE evq[r]]
      BY <1>11 DEF DecodeFails
    <2>2. ended = <<>> /\ cur = None /\ ToSet(active) \cap ToSet(jobs) = {}
      BY <1>a, <2>1 DEF PlaceInv, Held
    <2>3. GoingOn' = {} /\ GoingOn = ToSet(active)
      BY <2>1, <2>2, EmptyQueue DEF GoingOn
    <2>4. \A q \in Requests : q \in ToSet(active) => EventsInOrder(q)'
      <3> TAKE q \in Requests
      <3> HAVE q \in ToSet(active)
      <3>1. evq'[q] = IF rxOpen[q] THEN Append(evq[q], "Failed") ELSE evq[q]
        BY <2>1
      <3>2. AllToks(q) /\ "Failed" \in Events /\ q \notin GoingOn' /\ q \notin ToSet(jobs')
        BY <1>d, <2>1, <2>2, <2>3 DEF Events
      <3> QED BY <1>c, <2>1, <3>1, <3>2
    <2>5. \A q \in Requests : q \notin ToSet(active) => EventsInOrder(q)'
      BY <1>b, <2>1, <2>3
    <2> QED BY <2>4, <2>5 DEF EventInv
  <1>12. CASE WorkerDies
    <2>1. /\ evq' = evq /\ rxOpen' = rxOpen /\ jobs' = <<>> /\ active' = <<>> /\ cur' = None
      BY <1>12 DEF WorkerDies
    <2>2. GoingOn' = {} /\ ToSet(jobs') = {}
      BY <2>1, EmptyQueue DEF GoingOn
    <2> QED BY <1>b, <2>1, <2>2 DEF EventInv
  <1>13. CASE UNCHANGED vars
    <2>1. evq' = evq /\ rxOpen' = rxOpen /\ jobs' = jobs /\ GoingOn' = GoingOn
      BY <1>13 DEF vars, GoingOn
    <2> QED BY <1>b, <2>1 DEF EventInv
  <1> QED
    BY <1>1, <1>2, <1>3, <1>4, <1>5, <1>6, <1>7, <1>8, <1>9, <1>10, <1>11, <1>12, <1>13
    DEF Next, WorkerNext

-----------------------------------------------------------------------------
(* What is sent and received *)

\* A token taken from a channel is one of the budget.
LEMMA TokenIsBudgeted ==
  ASSUME WorkerInv, NEW r \in Requests, rxOpen[r], evq[r] # <<>>, Head(evq[r]) = "tok"
  PROVE  pumped[r] + 1 <= maxNew[r]
  <1>1. WithinBudget(r) /\ EventsInOrder(r)
    BY DEF WorkerInv, BudgetInv, EventInv
  <1>2. pumped[r] \in Nat /\ maxNew[r] \in Nat /\ Len(evq[r]) \in Nat \ {0}
    BY ChannelTypes, EventTaken
  <1>3. CASE AllToks(r)
    BY <1>1, <1>2, <1>3 DEF WithinBudget
  <1>4. CASE ~AllToks(r)
    <2>1. PICK i \in DOMAIN evq[r] : evq[r][i] # "tok"
      BY <1>4 DEF AllToks
    <2>2. i = Len(evq[r])
      BY <1>1, <2>1 DEF EventsInOrder
    <2>3. evq[r][1] = "tok"
      BY ChannelTypes, TailSet
    <2>4. Len(evq[r]) >= 2
      BY <1>2, <2>1, <2>2, <2>3
    <2> QED BY <1>1, <1>2, <2>4 DEF WithinBudget
  <1> QED BY <1>3, <1>4

\* A budget is kept when nothing that it counts changes.
LEMMA BudgetKept ==
  ASSUME WorkerInv, NEW r \in Requests, pumped'[r] = pumped[r], out'[r] = out[r],
         rxOpen'[r] <=> rxOpen[r], evq'[r] = evq[r], maxNew'[r] = maxNew[r],
         r \in ToSet(jobs') \/ r = cur' => r \in ToSet(jobs) \/ r = cur,
         r \in ToSet(active') \ ToSet(ended') =>
           r \in ToSet(active) \ ToSet(ended) /\ remaining'[r] = remaining[r]
  PROVE  WithinBudget(r)'
  <1>1. WithinBudget(r)
    BY DEF WorkerInv, BudgetInv
  <1> QED BY <1>1 DEF WithinBudget, AllToks

\* Of a budget m, p have arrived, n are on their way and k are still to be sent: when
\* one more is sent, that is one less to be sent.
LEMMA OneForOne ==
  \A p, n, k, m \in Nat :
    p + n + k = m /\ k > 0 => p + (n + 1) + (k - 1) = m /\ p + (n + 1) <= m
  OBVIOUS

\* A budget is kept when the worker sends an active sequence a token or the end.
LEMMA BudgetSpent ==
  ASSUME WorkerInv, NEW r \in Requests, NEW e \in Events, rxOpen[r],
         r \in ToSet(active) \ ToSet(ended),
         pumped'[r] = pumped[r], out'[r] = out[r], rxOpen'[r] <=> rxOpen[r],
         maxNew'[r] = maxNew[r], evq'[r] = Append(evq[r], e),
         r \notin ToSet(jobs'), r # cur',
         \/ e = "tok" /\ remaining[r] > 0 /\ remaining'[r] = remaining[r] - 1
         \/ /\ e # "tok" /\ r \notin ToSet(active') \ ToSet(ended')
            /\ e = "Length" => remaining[r] = 0
  PROVE  WithinBudget(r)'
  <1>1. WithinBudget(r) /\ AllToks(r)
    BY DEF WorkerInv, BudgetInv, EventInv, EventsInOrder, GoingOn
  <1>2. /\ evq[r] \in Seq(Events) /\ Len(evq[r]) \in Nat /\ pumped[r] \in Nat
        /\ maxNew[r] \in Nat /\ remaining[r] \in Nat
        /\ pumped[r] + Len(evq[r]) + remaining[r] = maxNew[r]
    BY <1>1, ChannelTypes DEF WithinBudget
  <1>3. /\ \A i \in DOMAIN evq'[r] : evq'[r][i] \in {"tok", e}
        /\ evq'[r][Len(evq[r]) + 1] = e /\ Len(evq[r]) + 1 \in DOMAIN evq'[r]
        /\ Len(evq'[r]) = Len(evq[r]) + 1
    BY <1>1, <1>2, EventAppended DEF AllToks
  <1>4. e # "tok" => ~AllToks(r)'
    BY <1>3 DEF AllToks
  <1>5. /\ pumped'[r] + Len(evq'[r]) <= maxNew'[r] + 1
        /\ remaining[r] = 0 => pumped'[r] + Len(evq'[r]) = maxNew'[r] + 1
    <2> DEFINE p == pumped[r]
               n == Len(evq[r])
               k == remaining[r]
               m == maxNew[r]
    <2>1. p \in Nat /\ n \in Nat /\ k \in Nat /\ m \in Nat /\ p + n + k = m
      BY Zenon, <1>2
    <2>2. Len(evq'[r]) = n + 1 /\ pumped'[r] = p /\ maxNew'[r] = m
      BY Zenon, <1>3
    <2> HIDE DEF p, n, k, m
    <2>3. p + (n + 1) <= m + 1 /\ (k = 0 => p + (n + 1) = m + 1)
      BY <2>1
    <2> QED BY Zenon, <2>2, <2>3 DEF k
  <1>6. CASE e = "tok"
    <2>1. \A i \in DOMAIN evq'[r] : evq'[r][i] # "Length"
      BY <1>3, <1>6
    <2>2. /\ pumped'[r] + Len(evq'[r]) + remaining'[r] = maxNew'[r]
          /\ pumped'[r] + Len(evq'[r]) <= maxNew'[r]
      <3>1. remaining'[r] = remaining[r] - 1 /\ remaining[r] > 0
        BY <1>6
      <3>2. /\ Len(evq'[r]) = Len(evq[r]) + 1 /\ pumped'[r] = pumped[r]
            /\ maxNew'[r] = maxNew[r]
        BY <1>3
      <3>3. /\ pumped[r] + (Len(evq[r]) + 1) + (remaining[r] - 1) = maxNew[r]
            /\ pumped[r] + (Len(evq[r]) + 1) <= maxNew[r]
        BY Zenon, <1>2, <3>1, OneForOne
      <3> QED BY Zenon, <3>1, <3>2, <3>3
    <2>3. pumped'[r] + Len(evq'[r]) <= maxNew'[r] + 1
      BY Zenon, <1>5
    <2> QED BY <1>1, <2>1, <2>2, <2>3 DEF WithinBudget
  <1>7. CASE e # "tok"
    <2>1. pumped'[r] + Len(evq'[r]) <= maxNew'[r] + 1
      BY Zenon, <1>5
    <2>2. ASSUME NEW i \in DOMAIN evq'[r], evq'[r][i] = "Length"
          PROVE  pumped'[r] + Len(evq'[r]) = maxNew'[r] + 1
      <3>1. remaining[r] = 0
        BY <1>3, <1>7, <2>2
      <3> QED BY Zenon, <1>5, <3>1
    <2> QED BY <1>1, <1>4, <1>7, <2>1, <2>2 DEF WithinBudget
  <1> QED BY <1>6, <1>7

\* A pump that returns has nothing more to count.
LEMMA BudgetOver ==
  ASSUME NEW r \in Requests, ~rxOpen'[r], pumped'[r] <= maxNew'[r],
         out'[r] = "Length" => pumped'[r] = maxNew'[r]
  PROVE  WithinBudget(r)'
  BY DEF WithinBudget

\* BudgetInv is inductive.
LEMMA BudgetStep ==
  ASSUME WorkerInv, [Next]_vars
  PROVE  BudgetInv'
  <1> USE DEF loopVars, emitVars, clientVars, seqVars, pumpVars
  <1>a. /\ BudgetInv /\ EventInv /\ PlaceInv /\ NewInv
        /\ rxOpen \in [Requests -> BOOLEAN] /\ evq \in [Requests -> Seq(Events)]
        /\ pumped \in [Requests -> 0..MaxSeq] /\ maxNew \in [Requests -> 0..MaxSeq]
        /\ out \in [Requests -> {None, "Stop", "Length", "Failed"}]
        /\ remaining \in [Requests -> 0..MaxSeq]
        /\ None \notin Requests
    BY PlaceTypes DEF WorkerInv, TypeOK
  <1>1. ASSUME NEW r \in Requests, Submit(r)
        PROVE  BudgetInv'
    <2>1. /\ client[r] = "new" /\ UNCHANGED <<active, cur, ended, remaining, evq, pumped>>
      BY <1>1 DEF Submit
    <2>2. /\ r \notin Held /\ evq[r] = <<>> /\ pumped[r] = 0 /\ out[r] = None
      BY <1>a, <2>1 DEF NewInv
    <2>3. maxNew'[r] \in Nat /\ \A q \in Requests : q # r => maxNew'[q] = maxNew[q]
      <3>1. PICK p \in PromptLens, m \in MaxTokens :
                   Room(p) > 0 /\ maxNew' = [maxNew EXCEPT ![r] = MinOf(m, Room(p))]
        BY <1>1 DEF Submit
      <3>2. MinOf(m, Room(p)) \in Nat
        BY <3>1, BudgetFits, WorkerAssumption
      <3> QED BY <1>a, <3>1, <3>2
    <2>4. \A q \in Requests : q # r => /\ rxOpen'[q] = rxOpen[q] /\ out'[q] = out[q]
                                       /\ q \in ToSet(jobs') => q \in ToSet(jobs)
      <3>1. CASE jobs' = Append(jobs, r)
        BY <1>1, <1>a, <3>1, PlaceTypes, AppendSet DEF Submit
      <3>2. CASE jobs' = jobs
        BY <1>1, <1>a, <3>2 DEF Submit
      <3> QED BY <1>1, <3>1, <3>2 DEF Submit
    <2>5. \A q \in Requests : q # r => WithinBudget(q)'
      BY <2>1, <2>3, <2>4, BudgetKept
    <2>6. WithinBudget(r)'
      <3>1. r # cur /\ r \notin ToSet(active)
        BY <1>a, <2>2 DEF Held
      <3>2. evq'[r] = <<>> /\ Len(evq'[r]) = 0 /\ pumped'[r] = 0 /\ DOMAIN evq'[r] = {}
        BY <2>1, <2>2
      <3>3. CASE pc = "dead"
        <4>1. ~rxOpen'[r] /\ out'[r] = "Failed"
          <5>1. ~rxOpen[r]
            BY <1>a, <2>1 DEF NewInv
          <5> QED BY <1>1, <1>a, <3>3, <5>1 DEF Submit
        <4> QED BY <2>3, <3>2, <4>1, BudgetOver
      <3>4. CASE pc # "dead"
        <4>1. out'[r] = None
          BY <1>1, <2>2, <3>4 DEF Submit
        <4>2. None # "Length"
          BY WorkerAssumption
        <4> QED BY <2>1, <2>3, <3>1, <3>2, <4>1, <4>2 DEF WithinBudget
      <3> QED BY <3>3, <3>4
    <2> QED BY <2>5, <2>6 DEF BudgetInv
  <1>2. ASSUME NEW r \in Requests, Leave(r)
        PROVE  BudgetInv'
    <2>1. UNCHANGED <<jobs, active, cur, ended, remaining, evq, pumped, rxOpen, out, maxNew>>
      BY <1>2 DEF Leave
    <2> QED BY <2>1, BudgetKept DEF BudgetInv
  <1>3. ASSUME NEW r \in Requests, Pump(r)
        PROVE  BudgetInv'
    <2>1. UNCHANGED <<jobs, active, cur, ended, remaining, maxNew>>
      BY <1>3, OthersOnly
    <2>2. \A q \in Requests : q # r => /\ rxOpen'[q] = rxOpen[q] /\ evq'[q] = evq[q]
                                       /\ pumped'[q] = pumped[q] /\ out'[q] = out[q]
      BY <1>3, <1>a DEF Pump, PumpToken, PumpDone, PumpFailed, PumpEnds
    <2>3. \A q \in Requests : q # r => WithinBudget(q)'
      BY <2>1, <2>2, BudgetKept
    <2>4. WithinBudget(r) /\ EventsInOrder(r)
      BY <1>a DEF BudgetInv, EventInv
    <2>5. pumped[r] \in Nat /\ maxNew[r] \in Nat /\ evq[r] \in Seq(Events)
      BY ChannelTypes
    <2>6. None \notin {"Stop", "Length", "Failed"}
      BY WorkerAssumption
    <2>7. ASSUME PumpToken(r)
          PROVE  WithinBudget(r)'
      <3>1. /\ rxOpen[r] /\ evq[r] # <<>> /\ Head(evq[r]) = "tok" /\ pumped'[r] = pumped[r] + 1
        BY <1>a, <2>7 DEF PumpToken
      <3>2. pumped[r] + 1 <= maxNew[r]
        BY <3>1, TokenIsBudgeted
      <3>3. CASE ~rxOpen'[r] /\ out'[r] \in {None, "Stop"}
        BY <2>1, <2>6, <3>1, <3>2, <3>3, BudgetOver
      <3>4. CASE evq'[r] = Tail(evq[r]) /\ UNCHANGED <<rxOpen, out>>
        <4>1. /\ Len(evq'[r]) = Len(evq[r]) - 1 /\ Len(evq[r]) \in Nat \ {0}
              /\ \A i \in DOMAIN evq'[r] : evq'[r][i] = evq[r][i + 1] /\ i + 1 \in DOMAIN evq[r]
              /\ AllToks(r)' <=> AllToks(r)
          BY <2>5, <3>1, <3>4, EventTaken DEF AllToks
        <4>2. pumped'[r] + Len(evq'[r]) = pumped[r] + Len(evq[r])
          <5>1. pumped'[r] = pumped[r] + 1 /\ Len(evq'[r]) = Len(evq[r]) - 1
            BY <3>1, <4>1
          <5>2. \A p, n \in Nat : (p + 1) + (n - 1) = p + n
            OBVIOUS
          <5>3. pumped[r] \in Nat /\ Len(evq[r]) \in Nat
            BY <2>5, <4>1
          <5> QED BY Zenon, <5>1, <5>2, <5>3
        <4>3. r \notin ToSet(jobs) /\ r # cur
          BY <2>4, <3>1 DEF WithinBudget
        <4>4. remaining[r] \in Nat
          BY ChannelTypes
        <4>5. r \in ToSet(active) \ ToSet(ended) =>
                pumped'[r] + Len(evq'[r]) + remaining[r] = maxNew[r]
          BY <2>4, <2>5, <3>1, <4>1, <4>2, <4>4 DEF WithinBudget
        <4>6. out[r] = None
          BY <2>4, <3>1 DEF WithinBudget
        <4> QED BY <2>1, <2>4, <2>6, <3>1, <3>2, <3>4, <4>1, <4>2, <4>3, <4>5, <4>6 DEF WithinBudget
      <3> QED BY <1>a, <2>7, <3>3, <3>4 DEF PumpToken, PumpEnds
    <2>8. ASSUME PumpDone(r)
          PROVE  WithinBudget(r)'
      <3>1. /\ rxOpen[r] /\ evq[r] # <<>> /\ Head(evq[r]) \in {"Stop", "Length"}
            /\ ~rxOpen'[r] /\ out'[r] \in {None, "Stop", Head(evq[r])} /\ pumped' = pumped
        BY <1>a, <2>8 DEF PumpDone, PumpEnds
      <3>2. Head(evq[r]) = evq[r][1] /\ 1 \in DOMAIN evq[r]
        BY <2>5, <3>1, TailSet
      <3>3. Len(evq[r]) = 1
        BY <2>4, <3>1, <3>2 DEF EventsInOrder
      <3>4. pumped[r] <= maxNew[r]
        BY <2>4 DEF WithinBudget
      <3>5. ASSUME out'[r] = "Length"
            PROVE  pumped[r] = maxNew[r]
        <4>1. evq[r][1] = "Length"
          BY <2>6, <3>1, <3>2, <3>5
        <4>2. pumped[r] + 1 = maxNew[r] + 1
          BY <2>4, <3>1, <3>2, <3>3, <4>1 DEF WithinBudget
        <4> QED BY <2>5, <4>2
      <3> QED BY <2>1, <3>1, <3>4, <3>5, BudgetOver
    <2>9. ASSUME PumpFailed(r)
          PROVE  WithinBudget(r)'
      <3>1. ~rxOpen'[r] /\ out'[r] \in {None, "Failed"} /\ pumped' = pumped
        BY <1>a, <2>9 DEF PumpFailed, PumpEnds
      <3>2. pumped[r] <= maxNew[r]
        BY <2>4 DEF WithinBudget
      <3> QED BY <2>1, <2>6, <3>1, <3>2, BudgetOver
    <2> QED BY <1>3, <2>3, <2>7, <2>8, <2>9 DEF Pump, BudgetInv
  <1>4. CASE AdmitJob
    <2>1. /\ cur' = Head(jobs)
          /\ UNCHANGED <<active, ended, remaining, evq, pumped, rxOpen, out, maxNew>>
      BY <1>4 DEF AdmitJob
    <2>2. Head(jobs) \in ToSet(jobs) /\ ToSet(jobs') \subseteq ToSet(jobs)
      BY <1>4, <1>a, PlaceTypes, TailSet DEF AdmitJob, PlaceInv
    <2> QED BY <2>1, <2>2, BudgetKept DEF BudgetInv
  <1>5. CASE PrefillToken
    <2>1. /\ pc = "prefill" /\ UNCHANGED <<jobs, ended, evq, pumped, rxOpen, out, maxNew>>
      BY <1>5 DEF PrefillToken
    <2>2. CASE UNCHANGED <<cur, active, remaining>>
      BY <2>1, <2>2, BudgetKept DEF BudgetInv
    <2>3. CASE /\ active' = Append(active, cur) /\ cur' = None
               /\ remaining' = [remaining EXCEPT ![cur] = maxNew[cur]]
      <3>1. cur \in Requests /\ cur \notin ToSet(jobs)
        BY <1>a, <2>1, PlaceTypes DEF PlaceInv, Held
      <3>2. PICK r \in Requests : r = cur
        BY <3>1
      <3>3. ToSet(active') = ToSet(active) \cup {r}
        BY <2>3, <3>2, PlaceTypes, AppendSet
      <3>4. \A q \in Requests : q # r => WithinBudget(q)'
        BY <1>a, <2>1, <2>3, <3>2, <3>3, BudgetKept
      <3>5. WithinBudget(r)'
        <4>1. WithinBudget(r)
          BY <1>a DEF BudgetInv
        <4>2. CASE ~rxOpen[r]
          BY <2>1, <4>1, <4>2 DEF WithinBudget
        <4>3. CASE rxOpen[r]
          <5>1. evq[r] = <<>> /\ pumped[r] = 0 /\ Len(evq[r]) = 0 /\ maxNew[r] \in Nat
            BY <3>2, <4>1, <4>3, ChannelTypes DEF WithinBudget
          <5>2. pumped[r] + Len(evq[r]) + remaining'[r] = maxNew[r]
            BY <1>a, <2>3, <3>2, <5>1
          <5> QED BY <2>1, <2>3, <3>1, <3>2, <4>1, <5>1, <5>2, <1>a DEF WithinBudget, AllToks
        <4> QED BY <4>2, <4>3
      <3> QED BY <3>4, <3>5 DEF BudgetInv
    <2> QED BY <1>5, <2>2, <2>3 DEF PrefillToken
  <1>6. CASE PrefillFails
    <2>1. pc = "prefill" /\ cur \in Requests
      BY <1>6, <1>a, PlaceTypes DEF PrefillFails, PlaceInv
    <2>2. PICK r \in Requests : r = cur
      BY <2>1
    <2>3. /\ evq' = Sent(r, "Failed") /\ DropSeqs({r}) /\ cur' = None
          /\ UNCHANGED <<jobs, active, ended, pumped, rxOpen, out, maxNew>>
      BY <1>6, <2>2 DEF PrefillFails
    <2>4. r \notin ToSet(jobs) /\ r \notin ToSet(active)
      BY <1>a, <2>1, <2>2, PlaceTypes DEF PlaceInv, Held
    <2>5. \A q \in Requests : q # r => evq'[q] = evq[q] /\ remaining'[q] = remaining[q]
      BY <1>a, <2>3 DEF Sent, DropSeqs
    <2>6. \A q \in Requests : q # r => WithinBudget(q)'
      BY <1>a, <2>2, <2>3, <2>5, BudgetKept
    <2>7. WithinBudget(r)'
      <3>1. WithinBudget(r)
        BY <1>a DEF BudgetInv
      <3>2. CASE ~rxOpen[r]
        BY <2>3, <3>1, <3>2 DEF WithinBudget
      <3>3. CASE rxOpen[r]
        <4>1. evq[r] = <<>> /\ pumped[r] = 0 /\ maxNew[r] \in Nat
          BY <2>2, <3>1, <3>3, ChannelTypes DEF WithinBudget
        <4>2. evq'[r] = <<"Failed">>
          BY <1>a, <2>3, <3>3, <4>1 DEF Sent
        <4>3. Len(evq'[r]) = 1 /\ DOMAIN evq'[r] = {1} /\ evq'[r][1] = "Failed"
          BY <4>2
        <4>4. ~AllToks(r)'
          BY <4>3 DEF AllToks
        <4>5. pumped'[r] + Len(evq'[r]) <= maxNew'[r] + 1
          <5>1. pumped'[r] = 0 /\ maxNew'[r] = maxNew[r]
            BY <2>3, <4>1
          <5>2. 0 + 1 <= maxNew[r] + 1
            BY <4>1
          <5> QED BY <4>3, <5>1, <5>2
        <4>6. \A i \in DOMAIN evq'[r] : evq'[r][i] # "Length"
          BY <4>3
        <4> QED BY <1>a, <2>3, <2>4, <3>1, <4>4, <4>5, <4>6 DEF WithinBudget
      <3> QED BY <3>2, <3>3
    <2> QED BY <2>6, <2>7 DEF BudgetInv
  <1>7. CASE BeginStep
    <2>1. /\ ended = <<>> /\ ended' = <<>>
          /\ UNCHANGED <<jobs, cur, active, remaining, evq, pumped, rxOpen, out, maxNew>>
      BY <1>7, <1>a DEF BeginStep, PlaceInv
    <2> QED BY <2>1, BudgetKept DEF BudgetInv
  <1>8. CASE EmitNext
    <2>0. PICK r \in Requests : r = active[idx + 1]
      BY <1>8, NextToEmit DEF EmitNext
    <2> DEFINE e == IF Finish(r) = None THEN "tok" ELSE Finish(r)
    <2>1. /\ pc = "emit" /\ idx < Len(active) /\ evq' = Sent(r, e)
          /\ ended' = (IF GoesOn(r) THEN ended ELSE Append(ended, r))
          /\ remaining' = (IF GoesOn(r) THEN [remaining EXCEPT ![r] = @ - 1] ELSE remaining)
          /\ UNCHANGED <<jobs, active, cur, pumped, rxOpen, out, maxNew>>
      BY <1>8, <2>0 DEF EmitNext
    <2>2. /\ r \in ToSet(active) /\ r \notin ToSet(ended) /\ r \notin ToSet(jobs) /\ r # cur
      BY <1>a, <2>0, <2>1, NextToEmit DEF PlaceInv, Held
    <2>3. ToSet(ended') = ToSet(ended) \cup (IF GoesOn(r) THEN {} ELSE {r})
      <3>1. CASE GoesOn(r)
        BY <2>1, <3>1
      <3>2. CASE ~GoesOn(r)
        BY <2>1, <3>2, PlaceTypes, AppendSet
      <3> QED BY <3>1, <3>2
    <2>4. \A q \in Requests : q # r => evq'[q] = evq[q] /\ remaining'[q] = remaining[q]
      BY <1>a, <2>1 DEF Sent
    <2>5. \A q \in Requests : q # r => WithinBudget(q)'
      BY <2>1, <2>3, <2>4, BudgetKept
    <2>6. CASE ~rxOpen[r]
      <3>1. evq'[r] = evq[r] /\ ~GoesOn(r)
        BY <2>1, <2>6 DEF Sent, GoesOn
      <3>2. WithinBudget(r)'
        BY <2>1, <2>3, <3>1, BudgetKept
      <3> QED BY <2>5, <3>2 DEF BudgetInv
    <2>7. CASE rxOpen[r]
      <3>1. e \in Events /\ evq'[r] = Append(evq[r], e)
        BY <1>a, <2>1, <2>7 DEF Sent, Finish, Events
      <3>2. remaining[r] \in Nat /\ None \notin {"Stop", "Length", "Failed"}
        BY ChannelTypes, WorkerAssumption
      <3>3. \/ e = "tok" /\ remaining[r] > 0 /\ remaining'[r] = remaining[r] - 1
            \/ /\ e # "tok" /\ ~GoesOn(r)
               /\ e = "Length" => remaining[r] = 0
        <4>1. CASE Finish(r) = None
          <5>1. GoesOn(r) /\ remaining[r] # 0
            BY <2>7, <3>2, <4>1 DEF GoesOn, Finish
          <5> QED BY <1>a, <2>1, <3>2, <4>1, <5>1
        <4>2. CASE Finish(r) # None
          BY <3>2, <4>2 DEF GoesOn, Finish
        <4> QED BY <4>1, <4>2
      <3> HIDE DEF e
      <3>4. WithinBudget(r)'
        BY <2>1, <2>2, <2>3, <2>7, <3>1, <3>3, BudgetSpent
      <3> QED BY <2>5, <3>4 DEF BudgetInv
    <2> QED BY <2>6, <2>7
  <1>9. CASE Retain
    <2>1. /\ pc = "emit" /\ idx = Len(active) /\ active' = kept /\ ended' = <<>>
          /\ DropSeqs(ToSet(ended))
          /\ UNCHANGED <<jobs, cur, evq, pumped, rxOpen, out, maxNew>>
      BY <1>9 DEF Retain
    <2>2. ToSet(active') \subseteq ToSet(active) \ ToSet(ended)
      BY <2>1, AllEmitted
    <2>3. \A q \in Requests : q \notin ToSet(ended) => remaining'[q] = remaining[q]
      BY <2>1 DEF DropSeqs
    <2> QED BY <2>1, <2>2, <2>3, BudgetKept DEF BudgetInv
  <1>10. CASE DecodeStep
    <2>1. UNCHANGED <<jobs, cur, active, ended, remaining, evq, pumped, rxOpen, out, maxNew>>
      BY <1>10 DEF DecodeStep
    <2> QED BY <2>1, BudgetKept DEF BudgetInv
  <1>11. CASE DecodeFails
    <2>1. /\ pc = "decode" /\ active' = <<>>
          /\ evq' = [r \in Requests |-> IF r \in ToSet(active) /\ rxOpen[r]
                                        THEN Append(evq[r], "Failed") ELSE evq[r]]
          /\ UNCHANGED <<jobs, cur, ended, pumped, rxOpen, out, maxNew>>
      BY <1>11 DEF DecodeFails
    <2>2. ended = <<>> /\ cur = None /\ ToSet(active) \cap ToSet(jobs) = {} /\ ToSet(active') = {}
      BY <1>a, <2>1, EmptyQueue DEF PlaceInv, Held
    <2>3. ASSUME NEW q \in Requests
          PROVE  WithinBudget(q)'
      <3>1. CASE q \in ToSet(active) /\ rxOpen[q]
        <4>1. "Failed" \in Events /\ evq'[q] = Append(evq[q], "Failed")
          BY <2>1, <3>1 DEF Events
        <4>2. q \notin ToSet(jobs) /\ q # cur' /\ q \in ToSet(active) \ ToSet(ended)
          BY <1>a, <2>1, <2>2, <3>1, EmptyQueue
        <4> QED BY <2>1, <2>2, <3>1, <4>1, <4>2, BudgetSpent
      <3>2. CASE ~(q \in ToSet(active) /\ rxOpen[q])
        <4>1. evq'[q] = evq[q]
          BY <2>1, <3>2
        <4> QED BY <2>1, <2>2, <4>1, BudgetKept
      <3> QED BY <3>1, <3>2
    <2> QED BY <2>3 DEF BudgetInv
  <1>12. CASE WorkerDies
    <2>1. /\ active' = <<>> /\ jobs' = <<>> /\ cur' = None
          /\ UNCHANGED <<evq, pumped, rxOpen, out, maxNew>>
      BY <1>12 DEF WorkerDies
    <2>2. ToSet(active') = {} /\ ToSet(jobs') = {} /\ \A q \in Requests : q # cur'
      BY <1>a, <2>1, EmptyQueue
    <2> QED BY <2>1, <2>2, BudgetKept DEF BudgetInv
  <1>13. CASE UNCHANGED vars
    <2>1. UNCHANGED <<jobs, cur, active, ended, remaining, evq, pumped, rxOpen, out, maxNew>>
      BY <1>13 DEF vars
    <2> QED BY <2>1, BudgetKept DEF BudgetInv
  <1> QED
    BY <1>1, <1>2, <1>3, <1>4, <1>5, <1>6, <1>7, <1>8, <1>9, <1>10, <1>11, <1>12, <1>13
    DEF Next, WorkerNext

\* LateInv is inductive.
LEMMA LateStep ==
  ASSUME WorkerInv, [Next]_vars
  PROVE  LateInv'
  <1> USE DEF loopVars, emitVars, clientVars, seqVars, pumpVars
  <1>a. /\ LateInv /\ PlaceInv /\ NewInv
        /\ rxOpen \in [Requests -> BOOLEAN] /\ late \in [Requests -> Nat]
    BY DEF WorkerInv, TypeOK
  <1>b. ToSet(<<>>) = {}
    BY EmptyQueue
  <1>1. ASSUME NEW r \in Requests, Submit(r)
        PROVE  LateInv'
    <2>1. late[r] = 0 /\ UNCHANGED <<late, kept, pc, active>>
      BY <1>1, <1>a DEF Submit, NewInv
    <2>2. \A q \in Requests : q # r => rxOpen'[q] = rxOpen[q]
      BY <1>1, <1>a DEF Submit
    <2> QED BY <1>a, <2>1, <2>2 DEF LateInv
  <1>2. ASSUME NEW r \in Requests, Leave(r) \/ Pump(r)
        PROVE  LateInv'
    <2>1. UNCHANGED <<late, kept, pc, active>>
      BY <1>2, OthersOnly
    <2>2. \A q \in Requests : rxOpen'[q] => rxOpen[q]
      BY <1>2, <1>a DEF Leave, Pump, PumpToken, PumpDone, PumpFailed, PumpEnds
    <2> QED BY <1>a, <2>1, <2>2 DEF LateInv
  <1>3. ASSUME UNCHANGED <<late, kept, rxOpen>>, pc' # "decode"
        PROVE  LateInv'
    BY <1>3, <1>a DEF LateInv
  <1>4. CASE AdmitJob
    BY <1>4, <1>3 DEF AdmitJob
  <1>5. CASE PrefillToken
    BY <1>5, <1>3 DEF PrefillToken
  <1>6. CASE PrefillFails
    BY <1>6, <1>3 DEF PrefillFails
  <1>7. CASE BeginStep
    BY <1>7, <1>a, <1>b DEF BeginStep, LateInv
  <1>8. CASE EmitNext
    <2>0. PICK r \in Requests : r = active[idx + 1]
      BY <1>8, NextToEmit DEF EmitNext
    <2>1. /\ pc = "emit" /\ pc' = "emit" /\ UNCHANGED <<late, rxOpen>>
          /\ kept' = (IF GoesOn(r) THEN Append(kept, r) ELSE kept)
      BY <1>8, <2>0 DEF EmitNext
    <2>2. CASE GoesOn(r)
      <3>1. ToSet(kept') = ToSet(kept) \cup {r} /\ rxOpen[r]
        BY <2>1, <2>2, PlaceTypes, AppendSet DEF GoesOn
      <3> QED BY <1>a, <2>1, <3>1 DEF LateInv
    <2>3. CASE ~GoesOn(r)
      BY <1>3, <2>1, <2>3
    <2> QED BY <2>2, <2>3
  <1>9. CASE Retain
    BY <1>9, <1>a, <1>b DEF Retain, LateInv
  <1>10. CASE DecodeStep
    <2>1. /\ pc = "decode" /\ pc' = "admit" /\ UNCHANGED <<rxOpen, kept>> /\ kept = <<>>
          /\ late' = [r \in Requests |-> IF r \in ToSet(active) /\ ~rxOpen[r]
                                         THEN late[r] + 1 ELSE late[r]]
      BY <1>10, <1>a DEF DecodeStep, PlaceInv
    <2> QED BY <1>a, <1>b, <2>1 DEF LateInv
  <1>11. CASE DecodeFails
    BY <1>11, <1>3 DEF DecodeFails
  <1>12. CASE WorkerDies
    BY <1>12, <1>3 DEF WorkerDies
  <1>13. CASE UNCHANGED vars
    BY <1>13, <1>a DEF vars, LateInv
  <1> QED
    BY <1>1, <1>2, <1>4, <1>5, <1>6, <1>7, <1>8, <1>9, <1>10, <1>11, <1>12, <1>13
    DEF Next, WorkerNext

-----------------------------------------------------------------------------
(* Types *)

\* There are no more active sequences than KV slots.
LEMMA BatchFits ==
  ASSUME WorkerInv, pc # "dead"
  PROVE  Len(active) <= MaxBatch
  <1>1. Len(active) \in Nat /\ MaxBatch \in Nat
    BY PlaceTypes, WorkerAssumption
  <1>2. IsFiniteSet(KvSlots) /\ Cardinality(KvSlots) = MaxBatch
    <2>1. 0 \in Int /\ MaxBatch - 1 \in Int
      BY <1>1
    <2>2. IsFiniteSet(KvSlots)
          /\ Cardinality(KvSlots) = IF 0 > MaxBatch - 1 THEN 0 ELSE (MaxBatch - 1) - 0 + 1
      BY <2>1, FS_Interval DEF KvSlots
    <2> QED BY <1>1, <2>2
  <1>3. IsFiniteSet(1..Len(active)) /\ Cardinality(1..Len(active)) = Len(active)
    <2>1. 1 \in Int /\ Len(active) \in Int
      BY <1>1
    <2>2. /\ IsFiniteSet(1..Len(active))
          /\ Cardinality(1..Len(active)) = IF 1 > Len(active) THEN 0 ELSE Len(active) - 1 + 1
      BY <2>1, FS_Interval
    <2> QED BY <1>1, <2>2
  <1>4. SUFFICES ASSUME MaxBatch < Len(active)
                 PROVE  FALSE
    BY <1>1
  <1> DEFINE f == [i \in 1..Len(active) |-> slot[active[i]]]
  <1>5. \A i \in 1..Len(active) : active[i] \in Held /\ active[i] \in Requests
    BY PlaceTypes DEF Held
  <1>6. f \in [1..Len(active) -> KvSlots]
    BY <1>5, HeldFacts
  <1>7. PICK i, j \in 1..Len(active) : i # j /\ f[i] = f[j]
    <2> HIDE DEF f
    <2> QED BY <1>2, <1>3, <1>4, <1>6, FS_PigeonHole
  <1>8. active[i] = active[j]
    BY <1>5, <1>7, HeldFacts
  <1> QED BY <1>7, <1>8, PlaceTypes DEF WorkerInv, PlaceInv, Distinct

\* Sequences that are dropped keep their types.
LEMMA DropTypes ==
  ASSUME WorkerInv, NEW S, DropSeqs(S)
  PROVE  /\ slot' \in [Requests -> KvSlots \cup {None}]
         /\ remaining' \in [Requests -> 0..MaxSeq]
         /\ nextTok' \in [Requests -> {"tok", "eos"}]
  <1>1. /\ slot \in [Requests -> KvSlots \cup {None}] /\ remaining \in [Requests -> 0..MaxSeq]
        /\ nextTok \in [Requests -> {"tok", "eos"}] /\ 0 \in 0..MaxSeq
    BY WorkerAssumption DEF WorkerInv, TypeOK
  <1> QED BY <1>1 DEF DropSeqs

\* A channel that gets an event remains a channel of events.
LEMMA SentTypes ==
  ASSUME WorkerInv, NEW r \in Requests, NEW e \in Events
  PROVE  Sent(r, e) \in [Requests -> Seq(Events)]
  <1>1. evq \in [Requests -> Seq(Events)] /\ Append(evq[r], e) \in Seq(Events)
    BY AppendProperties DEF WorkerInv, TypeOK
  <1> QED BY <1>1 DEF Sent

\* TypeOK is inductive, with the invariants of places and budgets.
LEMMA TypeStep ==
  ASSUME WorkerInv, [Next]_vars
  PROVE  TypeOK'
  <1> USE DEF loopVars, emitVars, clientVars, seqVars, pumpVars
  <1>a. TypeOK /\ PlaceInv /\ SlotInv
    BY DEF WorkerInv
  <1>b. /\ MaxBatch \in Nat \ {0} /\ MaxSeq \in Nat \ {0} /\ 0 \in 0..MaxSeq /\ 0 \in 0..MaxBatch
        /\ <<>> \in Seq(Requests) /\ <<>> \in Seq(KvSlots) /\ <<>> \in Seq(Events)
    BY WorkerAssumption
  <1>1. ASSUME NEW r \in Requests, Submit(r)
        PROVE  TypeOK'
    <2>1. PICK p \in PromptLens, m \in MaxTokens :
                 /\ Room(p) > 0
                 /\ prompt' = [prompt EXCEPT ![r] = p]
                 /\ maxNew' = [maxNew EXCEPT ![r] = MinOf(m, Room(p))]
      BY <1>1 DEF Submit
    <2>2. p \in 0..MaxSeq /\ MinOf(m, Room(p)) \in 0..MaxSeq
      BY <2>1, BudgetFits
    <2>3. prompt' \in [Requests -> 0..MaxSeq] /\ maxNew' \in [Requests -> 0..MaxSeq]
      BY <1>a, <2>1, <2>2 DEF TypeOK
    <2>4. Append(jobs, r) \in Seq(Requests)
      BY PlaceTypes, AppendProperties
    <2>5. /\ client' = [client EXCEPT ![r] = "waiting"]
          /\ jobs' \in {jobs, Append(jobs, r)}
          /\ txOpen' \in {txOpen, [txOpen EXCEPT ![r] = TRUE]}
          /\ rxOpen' \in {rxOpen, [rxOpen EXCEPT ![r] = TRUE]}
          /\ out' \in {out, [out EXCEPT ![r] = "Failed"]}
          /\ UNCHANGED <<pc, free, active, seqVars, loopVars, seqPos, evq, pumped, late>>
      BY <1>1 DEF Submit
    <2> QED BY <1>a, <2>3, <2>4, <2>5 DEF TypeOK
  <1>2. ASSUME NEW r \in Requests, Leave(r)
        PROVE  TypeOK'
    BY <1>2, <1>a DEF Leave, TypeOK
  <1>3. ASSUME NEW r \in Requests, Pump(r)
        PROVE  TypeOK'
    <2>1. UNCHANGED <<client, prompt, maxNew, jobs, pc, free, active, seqVars, loopVars, seqPos,
                      txOpen, late>>
      BY <1>3, OthersOnly DEF Pump, PumpToken, PumpDone, PumpFailed
    <2>2. pumped' \in [Requests -> 0..MaxSeq]
      <3>1. CASE PumpToken(r)
        <4>1. pumped[r] + 1 <= maxNew[r] /\ maxNew[r] <= MaxSeq /\ pumped[r] \in Nat
              /\ maxNew[r] \in Nat /\ MaxSeq \in Nat
          BY <3>1, TokenIsBudgeted, ChannelTypes DEF PumpToken
        <4>2. pumped[r] + 1 \in 0..MaxSeq
          BY <4>1
        <4> QED BY <1>a, <3>1, <4>2 DEF PumpToken, TypeOK
      <3>2. CASE PumpDone(r) \/ PumpFailed(r)
        BY <1>a, <3>2 DEF PumpDone, PumpFailed, TypeOK
      <3> QED BY <1>3, <3>1, <3>2 DEF Pump
    <2>3. /\ rxOpen' \in {rxOpen, [rxOpen EXCEPT ![r] = FALSE]}
          /\ \E o \in {None, "Stop", "Length", "Failed"} : out' \in {out, [out EXCEPT ![r] = o]}
      BY <1>3 DEF Pump, PumpToken, PumpDone, PumpFailed, PumpEnds
    <2>4. evq' \in [Requests -> Seq(Events)]
      <3>1. evq[r] \in Seq(Events) /\ (evq[r] # <<>> => Tail(evq[r]) \in Seq(Events))
        BY ChannelTypes, TailSet
      <3>2. CASE evq' = [evq EXCEPT ![r] = <<>>]
        BY <1>a, <1>b, <3>2 DEF TypeOK
      <3>3. CASE evq' = [evq EXCEPT ![r] = Tail(@)] /\ evq[r] # <<>>
        BY <1>a, <3>1, <3>3 DEF TypeOK
      <3> QED BY <1>3, <3>2, <3>3 DEF Pump, PumpToken, PumpDone, PumpFailed, PumpEnds
    <2>5. /\ rxOpen' \in [Requests -> BOOLEAN]
          /\ out' \in [Requests -> {None, "Stop", "Length", "Failed"}]
      <3>1. /\ rxOpen \in [Requests -> BOOLEAN]
            /\ out \in [Requests -> {None, "Stop", "Length", "Failed"}]
        BY <1>a DEF TypeOK
      <3>2. rxOpen' \in [Requests -> BOOLEAN]
        BY <2>3, <3>1
      <3>3. out' \in [Requests -> {None, "Stop", "Length", "Failed"}]
        BY <2>3, <3>1
      <3> QED BY <3>2, <3>3
    <2> QED BY <1>a, <2>1, <2>2, <2>4, <2>5 DEF TypeOK
  <1>4. CASE AdmitJob
    <2>1. /\ Head(jobs) \in Requests /\ Tail(jobs) \in Seq(Requests)
          /\ Last(free) \in KvSlots /\ Front(free) \in Seq(KvSlots)
      BY <1>4, PlaceTypes, TailSet, FrontSet DEF AdmitJob
    <2>2. /\ cur' = Head(jobs) /\ fed' = 0 /\ pc' = "prefill"
          /\ slot' = [slot EXCEPT ![Head(jobs)] = Last(free)]
          /\ seqPos' = [seqPos EXCEPT ![Last(free)] = 0]
          /\ jobs' = Tail(jobs) /\ free' = Front(free)
          /\ UNCHANGED <<clientVars, active, remaining, nextTok, emitVars, evq, txOpen,
                         pumpVars, late>>
      BY <1>4 DEF AdmitJob
    <2> QED BY <1>a, <1>b, <2>1, <2>2 DEF TypeOK
  <1>5. CASE PrefillToken
    <2>1. /\ pc = "prefill" /\ seqPos[slot[cur]] < MaxSeq
          /\ seqPos' = [seqPos EXCEPT ![slot[cur]] = @ + 1]
          /\ UNCHANGED <<clientVars, jobs, free, slot, emitVars, evq, txOpen, pumpVars, late>>
      BY <1>5 DEF PrefillToken
    <2>2. cur \in Requests /\ cur \in Held
      BY <1>a, <2>1, PlaceTypes DEF PlaceInv, Held
    <2>3. /\ slot[cur] \in KvSlots /\ PromptFed(cur) = prompt[cur] /\ prompt[cur] \in 0..MaxSeq
          /\ maxNew[cur] \in 0..MaxSeq
      BY <1>a, <2>1, <2>2, HeldFacts DEF TypeOK
    <2>4. seqPos' \in [KvSlots -> 0..MaxSeq]
      <3>1. seqPos \in [KvSlots -> 0..MaxSeq]
        BY <1>a DEF TypeOK
      <3>2. seqPos[slot[cur]] \in 0..MaxSeq /\ seqPos[slot[cur]] < MaxSeq
        BY <2>1, <2>3, <3>1
      <3>3. seqPos[slot[cur]] + 1 \in 0..MaxSeq
        BY <1>b, <3>2
      <3> QED BY <2>1, <3>1, <3>3
    <2>5. CASE fed + 1 < PromptFed(cur)
      <3>1. fed' = fed + 1 /\ UNCHANGED <<pc, cur, active, remaining, nextTok>>
        BY <1>5, <2>5 DEF PrefillToken
      <3>2. fed' \in 0..MaxSeq
        BY <1>a, <1>b, <2>3, <2>5, <3>1 DEF TypeOK
      <3> QED BY <1>a, <2>1, <2>4, <3>1, <3>2 DEF TypeOK
    <2>6. CASE ~(fed + 1 < PromptFed(cur))
      <3>1. /\ active' = Append(active, cur)
            /\ remaining' = [remaining EXCEPT ![cur] = maxNew[cur]]
            /\ \E t \in {"tok", "eos"} : nextTok' = [nextTok EXCEPT ![cur] = t]
            /\ cur' = None /\ fed' = 0 /\ pc' = "admit"
        BY <1>5, <2>6 DEF PrefillToken
      <3>2. active' \in Seq(Requests)
        BY <2>2, <3>1, PlaceTypes, AppendProperties
      <3> QED BY <1>a, <1>b, <2>1, <2>3, <2>4, <3>1, <3>2 DEF TypeOK
    <2> QED BY <2>5, <2>6
  <1>6. CASE PrefillFails
    <2>1. /\ pc = "prefill" /\ evq' = Sent(cur, "Failed")
          /\ txOpen' = [txOpen EXCEPT ![cur] = FALSE]
          /\ free' = Append(free, slot[cur]) /\ DropSeqs({cur})
          /\ cur' = None /\ fed' = 0 /\ pc' = "admit"
          /\ UNCHANGED <<clientVars, jobs, active, emitVars, seqPos, pumpVars, late>>
      BY <1>6 DEF PrefillFails
    <2>2. cur \in Requests /\ cur \in Held
      BY <1>a, <2>1, PlaceTypes DEF PlaceInv, Held
    <2>3. free' \in Seq(KvSlots)
      BY <2>1, <2>2, PlaceTypes, HeldFacts, AppendProperties
    <2>4. evq' \in [Requests -> Seq(Events)]
      <3>1. "Failed" \in Events
        BY DEF Events
      <3> QED BY <2>1, <2>2, <3>1, SentTypes
    <2>5. /\ slot' \in [Requests -> KvSlots \cup {None}]
          /\ remaining' \in [Requests -> 0..MaxSeq] /\ nextTok' \in [Requests -> {"tok", "eos"}]
      BY <2>1, DropTypes
    <2> QED BY <1>a, <1>b, <2>1, <2>3, <2>4, <2>5 DEF TypeOK
  <1>7. CASE BeginStep
    BY <1>7, <1>a, <1>b DEF BeginStep, TypeOK
  <1>8. CASE EmitNext
    <2>0. PICK r \in Requests : r = active[idx + 1]
      BY <1>8, NextToEmit DEF EmitNext
    <2>1. /\ pc = "emit" /\ idx < Len(active) /\ idx' = idx + 1
          /\ evq' = Sent(r, IF Finish(r) = None THEN "tok" ELSE Finish(r))
          /\ kept' = (IF GoesOn(r) THEN Append(kept, r) ELSE kept)
          /\ ended' = (IF GoesOn(r) THEN ended ELSE Append(ended, r))
          /\ remaining' = (IF GoesOn(r) THEN [remaining EXCEPT ![r] = @ - 1] ELSE remaining)
          /\ UNCHANGED <<clientVars, jobs, pc, free, active, slot, nextTok, cur, fed,
                         seqPos, txOpen, pumpVars, late>>
      BY <1>8, <2>0 DEF EmitNext
    <2>2. idx' \in 0..MaxBatch
      <3>1. Len(active) <= MaxBatch /\ Len(active) \in Nat /\ idx \in Nat
        BY <2>1, BatchFits, PlaceTypes
      <3> QED BY <1>b, <2>1, <3>1
    <2>3. kept' \in Seq(Requests) /\ ended' \in Seq(Requests)
      BY <2>1, PlaceTypes, AppendProperties
    <2>4. evq' \in [Requests -> Seq(Events)]
      <3>1. (IF Finish(r) = None THEN "tok" ELSE Finish(r)) \in Events
        BY DEF Finish, Events
      <3> QED BY <2>1, <3>1, SentTypes
    <2>5. remaining' \in [Requests -> 0..MaxSeq]
      <3>1. CASE GoesOn(r)
        <4>1. remaining[r] # 0
          BY <3>1, WorkerAssumption DEF GoesOn, Finish
        <4>2. remaining[r] \in 0..MaxSeq
          BY <1>a DEF TypeOK
        <4>3. remaining[r] - 1 \in 0..MaxSeq
          BY <1>b, <4>1, <4>2
        <4> QED BY <1>a, <2>1, <3>1, <4>3 DEF TypeOK
      <3>2. CASE ~GoesOn(r)
        BY <1>a, <2>1, <3>2 DEF TypeOK
      <3> QED BY <3>1, <3>2
    <2> QED BY <1>a, <2>1, <2>2, <2>3, <2>4, <2>5 DEF TypeOK
  <1>9. CASE Retain
    <2>1. /\ pc = "emit" /\ idx = Len(active) /\ free' = free \o SlotsOf(ended)
          /\ txOpen' = [r \in Requests |-> txOpen[r] /\ r \notin ToSet(ended)]
          /\ DropSeqs(ToSet(ended)) /\ active' = kept
          /\ idx' = 0 /\ kept' = <<>> /\ ended' = <<>>
          /\ pc' \in {"admit", "decode"}
          /\ UNCHANGED <<clientVars, jobs, cur, fed, seqPos, evq, pumpVars, late>>
      BY <1>9 DEF Retain
    <2>2. cur = None /\ Distinct(ended) /\ ended \in Seq(Requests) /\ cur' = cur
      BY <1>a, <2>1, PlaceTypes DEF PlaceInv
    <2>3. ToSet(ended) \subseteq Held /\ Held' = Held \ ToSet(ended)
      BY <2>1, <2>2, AllEmitted DEF Held
    <2>4. free' \in Seq(KvSlots)
      BY <2>1, <2>2, <2>3, SlotsGivenBack
    <2>5. /\ slot' \in [Requests -> KvSlots \cup {None}]
          /\ remaining' \in [Requests -> 0..MaxSeq] /\ nextTok' \in [Requests -> {"tok", "eos"}]
      BY <2>1, DropTypes
    <2> QED BY <1>a, <1>b, <2>1, <2>4, <2>5 DEF TypeOK
  <1>10. CASE DecodeStep
    <2>1. /\ pc = "decode" /\ pc' = "admit"
          /\ \A r \in ToSet(active) : seqPos[slot[r]] < MaxSeq
          /\ seqPos' = [s \in KvSlots |-> IF \E r \in ToSet(active) : slot[r] = s
                                          THEN seqPos[s] + 1 ELSE seqPos[s]]
          /\ late' = [r \in Requests |-> IF r \in ToSet(active) /\ ~rxOpen[r]
                                         THEN late[r] + 1 ELSE late[r]]
          /\ UNCHANGED <<clientVars, jobs, free, active, slot, remaining, loopVars, evq,
                         txOpen, pumpVars>>
      BY <1>10 DEF DecodeStep
    <2>2. seqPos' \in [KvSlots -> 0..MaxSeq]
      <3>1. ASSUME NEW s \in KvSlots
            PROVE  (IF \E r \in ToSet(active) : slot[r] = s THEN seqPos[s] + 1 ELSE seqPos[s])
                     \in 0..MaxSeq
        <4>1. seqPos[s] \in 0..MaxSeq
          BY <1>a DEF TypeOK
        <4>2. CASE \E r \in ToSet(active) : slot[r] = s
          <5>1. seqPos[s] < MaxSeq
            BY <2>1, <4>2
          <5>2. seqPos[s] + 1 \in 0..MaxSeq
            BY <1>b, <4>1, <5>1
          <5> QED BY <4>2, <5>2
        <4>3. CASE ~ \E r \in ToSet(active) : slot[r] = s
          BY <4>1, <4>3
        <4> QED BY <4>2, <4>3
      <3> QED BY <2>1, <3>1
    <2>3. late' \in [Requests -> Nat]
      <3>1. late \in [Requests -> Nat]
        BY <1>a DEF TypeOK
      <3>2. ASSUME NEW r \in Requests
            PROVE  (IF r \in ToSet(active) /\ ~rxOpen[r] THEN late[r] + 1 ELSE late[r]) \in Nat
        BY <3>1
      <3>3. late' = [r \in Requests |-> IF r \in ToSet(active) /\ ~rxOpen[r]
                                       THEN late[r] + 1 ELSE late[r]]
        BY <2>1
      <3> QED BY Zenon, <3>2, <3>3
    <2>4. nextTok' \in [Requests -> {"tok", "eos"}]
      <3>1. PICK t \in [ToSet(active) -> {"tok", "eos"}] :
              nextTok' = [r \in Requests |-> IF r \in ToSet(active) THEN t[r] ELSE nextTok[r]]
        BY <1>10 DEF DecodeStep
      <3> QED BY <1>a, <3>1 DEF TypeOK
    <2> QED BY <1>a, <2>1, <2>2, <2>3, <2>4 DEF TypeOK
  <1>11. CASE DecodeFails
    <2>1. /\ pc = "decode" /\ pc' = "admit" /\ active' = <<>>
          /\ evq' = [r \in Requests |-> IF r \in ToSet(active) /\ rxOpen[r]
                                        THEN Append(evq[r], "Failed") ELSE evq[r]]
          /\ free' = free \o SlotsOf(active)
          /\ txOpen' = [r \in Requests |-> txOpen[r] /\ r \notin ToSet(active)]
          /\ DropSeqs(ToSet(active))
          /\ UNCHANGED <<clientVars, jobs, loopVars, seqPos, pumpVars, late>>
      BY <1>11 DEF DecodeFails
    <2>2. cur = None /\ Distinct(active) /\ active \in Seq(Requests) /\ cur' = cur
      BY <1>a, <2>1, PlaceTypes DEF PlaceInv
    <2>3. ToSet(active) \subseteq Held /\ Held' = Held \ ToSet(active)
      BY <2>1, <2>2, EmptyQueue DEF Held
    <2>4. free' \in Seq(KvSlots)
      BY <2>1, <2>2, <2>3, SlotsGivenBack
    <2>5. /\ slot' \in [Requests -> KvSlots \cup {None}]
          /\ remaining' \in [Requests -> 0..MaxSeq] /\ nextTok' \in [Requests -> {"tok", "eos"}]
      BY <2>1, DropTypes
    <2>6. evq' \in [Requests -> Seq(Events)]
      <3>1. \A r \in Requests : evq[r] \in Seq(Events) /\ Append(evq[r], "Failed") \in Seq(Events)
        BY ChannelTypes, AppendProperties DEF Events
      <3> QED BY <2>1, <3>1
    <2> QED BY <1>a, <1>b, <2>1, <2>4, <2>5, <2>6 DEF TypeOK
  <1>12. CASE WorkerDies
    <2>1. /\ pc' = "dead" /\ txOpen' = [r \in Requests |-> FALSE]
          /\ jobs' = <<>> /\ free' = <<>> /\ active' = <<>> /\ cur' = None /\ fed' = 0
          /\ UNCHANGED <<clientVars, emitVars, seqPos, evq, pumpVars, late>>
      BY <1>12 DEF WorkerDies
    <2>2. /\ slot' \in [Requests -> KvSlots \cup {None}]
          /\ remaining' \in [Requests -> 0..MaxSeq] /\ nextTok' \in [Requests -> {"tok", "eos"}]
      BY <1>12, DropTypes DEF WorkerDies
    <2> QED BY <1>a, <1>b, <2>1, <2>2 DEF TypeOK
  <1>13. CASE UNCHANGED vars
    BY <1>13, <1>a DEF vars, TypeOK
  <1> QED
    BY <1>1, <1>2, <1>3, <1>4, <1>5, <1>6, <1>7, <1>8, <1>9, <1>10, <1>11, <1>12, <1>13
    DEF Next, WorkerNext

-----------------------------------------------------------------------------
(* The invariant and what follows from it *)

\* At first all slots are free and nobody has asked for anything.
LEMMA WorkerInit == Init => WorkerInv
  <1> SUFFICES ASSUME Init
               PROVE  WorkerInv
    OBVIOUS
  <1> USE DEF Init
  <1>1. MaxBatch \in Nat \ {0} /\ MaxSeq \in Nat \ {0} /\ None \notin Requests
    BY WorkerAssumption
  <1>2. free \in Seq(KvSlots) /\ Len(free) = MaxBatch /\ DOMAIN free = 1..MaxBatch
        /\ \A i \in 1..MaxBatch : free[i] = MaxBatch - i
    <2>1. \A i \in 1..MaxBatch : MaxBatch - i \in KvSlots
      BY <1>1 DEF KvSlots
    <2>2. free \in [1..MaxBatch -> KvSlots]
      BY <2>1
    <2>3. free \in Seq(KvSlots)
      BY <1>1, <2>2, IsASeq
    <2> QED BY <1>1, <2>3, LenProperties
  <1>3. TypeOK
    <2>1. 0 \in 0..MaxSeq /\ 0 \in 0..MaxBatch
      BY <1>1
    <2> QED BY <1>2, <2>1 DEF TypeOK
  <1>4. Held = {} /\ Distinct(<<>>) /\ ToSet(<<>>) = {}
    BY EmptyQueue DEF Held
  <1>5. PlaceInv /\ NewInv /\ LateInv
    BY <1>4, EmptyQueue DEF PlaceInv, NewInv, LateInv
  <1>6. SlotInv
    <2>1. Distinct(free)
      <3> SUFFICES ASSUME NEW i \in 1..MaxBatch, NEW j \in 1..MaxBatch, free[i] = free[j]
                   PROVE  i = j
        BY <1>2 DEF Distinct
      <3>1. MaxBatch - i = MaxBatch - j
        BY <1>2
      <3> QED BY <1>1, <3>1
    <2>2. \A s \in KvSlots : s \in ToSet(free)
      <3> TAKE s \in KvSlots
      <3>1. MaxBatch - s \in 1..MaxBatch /\ MaxBatch - (MaxBatch - s) = s
        BY <1>1 DEF KvSlots
      <3>2. free[MaxBatch - s] = s /\ MaxBatch - s \in DOMAIN free
        BY <1>2, <3>1
      <3> QED BY <3>2 DEF ToSet
    <2>3. None \notin ToSet(free)
      BY <1>2, QueueSet, NoneIsNoSlot
    <2> QED BY <1>4, <2>1, <2>2, <2>3 DEF SlotInv
  <1>7. PosInv /\ EventInv
    BY <1>4 DEF PosInv, EventInv, EventsInOrder, AllToks
  <1>8. BudgetInv
    <2>1. None \notin {"Stop", "Length", "Failed"}
      BY WorkerAssumption
    <2> QED BY <1>1, <2>1 DEF BudgetInv, WithinBudget
  <1> QED BY <1>3, <1>5, <1>6, <1>7, <1>8 DEF WorkerInv

\* Every step of the worker, a pump or a client keeps the invariant.
LEMMA WorkerStep == WorkerInv /\ [Next]_vars => WorkerInv'
  BY TypeStep, PlaceStep, NewStep, SlotStep, PosStep, EventStep, BudgetStep, LateStep
  DEF WorkerInv

\* The invariant holds in every run of the server.
THEOREM WorkerInvariance == Spec => []WorkerInv
  BY WorkerInit, WorkerStep, PTL DEF Spec

\* Every variable of the server keeps its type: no counter passes its bound
\* and no slot number is out of range.
THEOREM WorkerTypeCorrect == Spec => []TypeOK
  <1>1. WorkerInv => TypeOK
    BY DEF WorkerInv
  <1> QED BY <1>1, WorkerInvariance, PTL

\* No KV slot leaks and none is handed out twice, on any of the paths that end
\* a sequence (serve.rs: end of generation, lost receiver, failed prefill,
\* failed pass).
THEOREM SlotsNeverLeak == Spec => []SlotsAccountedFor
  <1>1. WorkerInv => SlotsAccountedFor
    <2> SUFFICES ASSUME WorkerInv, pc # "dead"
                 PROVE  /\ \A r \in Requests : slot[r] # None <=> r \in Held
                        /\ \A s \in KvSlots :
                             Cardinality({i \in DOMAIN free : free[i] = s})
                               + Cardinality({r \in Requests : slot[r] = s}) = 1
      BY DEF SlotsAccountedFor
    <2>1. /\ SlotInv /\ \A r \in Requests : slot[r] # None <=> r \in Held
      BY DEF WorkerInv, SlotInv
    <2>2. ASSUME NEW s \in KvSlots
          PROVE  Cardinality({i \in DOMAIN free : free[i] = s})
                   + Cardinality({r \in Requests : slot[r] = s}) = 1
      <3>1. s # None
        BY NoneIsNoSlot
      <3>2. CASE s \in ToSet(free)
        <4>1. PICK i \in DOMAIN free : free[i] = s
          BY <3>2 DEF ToSet
        <4>2. {j \in DOMAIN free : free[j] = s} = {i}
          BY <2>1, <4>1 DEF SlotInv, Distinct
        <4>3. {r \in Requests : slot[r] = s} = {}
          BY <2>1, <3>2 DEF SlotInv
        <4>4. Cardinality({i}) = 1 /\ Cardinality({}) = 0
          BY FS_EmptySet, FS_Singleton
        <4> QED BY <4>2, <4>3, <4>4
      <3>3. CASE s \notin ToSet(free)
        <4>1. PICK r \in Requests : slot[r] = s
          BY <2>1, <3>3 DEF SlotInv
        <4>2. {q \in Requests : slot[q] = s} = {r}
          BY <2>1, <3>1, <4>1 DEF SlotInv
        <4>3. {j \in DOMAIN free : free[j] = s} = {}
          BY <3>3 DEF ToSet
        <4>4. Cardinality({r}) = 1 /\ Cardinality({}) = 0
          BY FS_EmptySet, FS_Singleton
        <4> QED BY <4>2, <4>3, <4>4
      <3> QED BY <3>2, <3>3
    <2> QED BY <2>1, <2>2
  <1> QED BY <1>1, WorkerInvariance, PTL

\* Between steps the filled positions of a slot are the prompt and the tokens
\* sent: the handler's budget and the worker's cut of the prompt agree.
THEOREM PositionsAreTokens == Spec => []PositionsMatchTokens
  <1>1. WorkerInv => PositionsMatchTokens
    <2> SUFFICES ASSUME WorkerInv, pc = "admit", NEW r \in ToSet(active)
                 PROVE  seqPos[slot[r]] = prompt[r] + (maxNew[r] - remaining[r])
      BY DEF PositionsMatchTokens
    <2>1. r \in Held
      BY DEF Held
    <2>2. prompt[r] \in Int /\ maxNew[r] \in Int /\ remaining[r] \in Int
      BY <2>1, HeldFacts
    <2>3. Due(r) = 0
      BY EmptyQueue DEF Due, WorkerInv, PlaceInv
    <2>4. seqPos[slot[r]] = prompt[r] + (maxNew[r] - remaining[r]) - Due(r)
      BY DEF WorkerInv, PosInv
    <2> QED BY <2>2, <2>3, <2>4
  <1> QED BY <1>1, WorkerInvariance, PTL

\* No forward pass is ever asked for on a full KV slot.
THEOREM ContextNeverOverflows == Spec => []NeverContextOverflow
  <1>1. WorkerInv => NeverContextOverflow
    <2> SUFFICES ASSUME WorkerInv
                 PROVE  NeverContextOverflow
      OBVIOUS
    <2>1. ASSUME pc = "prefill"
          PROVE  seqPos[slot[cur]] < MaxSeq
      <3>1. cur \in Held
        BY <2>1, PlaceTypes DEF WorkerInv, PlaceInv, Held
      <3>2. /\ prompt[cur] \in Int /\ maxNew[cur] \in Nat /\ MaxSeq \in Nat /\ fed \in Int
            /\ prompt[cur] + maxNew[cur] <= MaxSeq
        BY <2>1, <3>1, HeldFacts, ChannelTypes
      <3>3. seqPos[slot[cur]] = fed /\ fed < prompt[cur]
        BY <2>1 DEF WorkerInv, PosInv
      <3> QED BY <3>2, <3>3
    <2>2. ASSUME pc = "decode", NEW r \in ToSet(active)
          PROVE  seqPos[slot[r]] < MaxSeq
      <3>1. r \in Held /\ r \in Requests
        BY PlaceTypes DEF Held
      <3>2. /\ prompt[r] \in Int /\ maxNew[r] \in Nat /\ remaining[r] \in Nat /\ MaxSeq \in Nat
            /\ prompt[r] + maxNew[r] <= MaxSeq
        BY <2>2, <3>1, HeldFacts, ChannelTypes
      <3>3. Due(r) = 1
        BY <2>2 DEF Due
      <3>4. /\ remaining[r] <= maxNew[r]
            /\ seqPos[slot[r]] = prompt[r] + (maxNew[r] - remaining[r]) - Due(r)
        BY DEF WorkerInv, PosInv
      <3> QED BY <3>2, <3>3, <3>4
    <2> QED BY <2>1, <2>2 DEF NeverContextOverflow
  <1> QED BY <1>1, WorkerInvariance, PTL

\* A pump finds at most one terminal event, behind all tokens, and the worker
\* has then given the sequence up.
THEOREM EndsAreFinal == Spec => []TerminalEventIsLast
  <1>1. WorkerInv => TerminalEventIsLast
    <2> SUFFICES ASSUME WorkerInv, NEW r \in Requests, NEW i \in DOMAIN evq[r],
                        evq[r][i] # "tok"
                 PROVE  /\ i = Len(evq[r]) /\ r \notin ToSet(kept)
                        /\ pc # "emit" => r \notin Held
      BY DEF TerminalEventIsLast
    <2>1. EventsInOrder(r) /\ ~AllToks(r)
      BY DEF WorkerInv, EventInv, AllToks
    <2>2. i = Len(evq[r]) /\ r \notin GoingOn
      BY <2>1 DEF EventsInOrder
    <2>3. CASE pc = "emit"
      <3>1. ToSet(kept) \subseteq ToSet(active) \ ToSet(ended)
        <4>1. Emitted \subseteq ToSet(active)
          <5>1. idx \in Nat /\ idx <= Len(active) /\ Len(active) \in Nat
            BY <2>3, PlaceTypes DEF WorkerInv, PlaceInv
          <5>2. \A j \in 1..idx : j \in 1..Len(active)
            BY <5>1
          <5> QED BY <5>2, PlaceTypes DEF Emitted
        <4> QED BY <2>3, <4>1 DEF WorkerInv, PlaceInv
      <3> QED BY <2>2, <2>3, <3>1 DEF GoingOn
    <2>4. CASE pc # "emit"
      <3>1. ToSet(kept) = {} /\ ToSet(ended) = {}
        BY <2>4, EmptyQueue DEF WorkerInv, PlaceInv
      <3> QED BY <2>2, <3>1 DEF GoingOn, Held
    <2> QED BY <2>3, <2>4
  <1> QED BY <1>1, WorkerInvariance, PTL

\* A generation that ends for length delivered exactly its budget.
THEOREM LengthIsExact == Spec => []LengthMeansBudgetSpent
  <1>1. WorkerInv => LengthMeansBudgetSpent
    BY DEF WorkerInv, BudgetInv, WithinBudget, LengthMeansBudgetSpent
  <1> QED BY <1>1, WorkerInvariance, PTL

\* Once its receiver is dropped, at most one more decode pass is made for a
\* sequence.
THEOREM CancelledSoon == Spec => []CancelledStopsAtOnce
  <1>1. WorkerInv => CancelledStopsAtOnce
    BY DEF WorkerInv, LateInv, CancelledStopsAtOnce
  <1> QED BY <1>1, WorkerInvariance, PTL
=============================================================================
