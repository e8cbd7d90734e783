------------------------------- MODULE Worker -------------------------------
(***************************************************************************)
(* The continuous-batching server (ft-model/src/bin/serve.rs): one worker  *)
(* thread owns the model and its KV slots; every request has a pump thread *)
(* that turns the worker's tokens into text for the request's handler; a   *)
(* client may leave at any time, which drops the handler and with it the   *)
(* receiving end of the text channel.                                      *)
(*                                                                         *)
(*   handler --jobs--> worker --evq[r]--> pump --(text, out[r])--> handler *)
(*                                                                         *)
(* Tokens are "tok", a token with no special role, or "eos", one that ends *)
(* the generation.  What the tokens decode to is left to the pump's        *)
(* choices: whether there is text to send, whether a stop sequence         *)
(* matched.                                                                *)
(***************************************************************************)
EXTENDS Integers, Sequences, FiniteSets, SequencesExt

CONSTANTS
  Requests,     \* requests clients may make
  MaxBatch,     \* KV slots
  MaxSeq,       \* positions of a KV slot
  PromptLens,   \* prompt lengths to choose from; never 0, there is a BOS
  MaxTokens,    \* values of max_tokens to choose from
  None

ASSUME WorkerAssumption ==
  /\ MaxBatch \in Nat \ {0} /\ MaxSeq \in Nat \ {0}
  /\ PromptLens \subseteq Nat \ {0} /\ MaxTokens \subseteq Nat
  /\ None \notin Requests /\ None \notin Nat
  /\ None \notin {"Stop", "Length", "Failed"}

KvSlots == 0..(MaxBatch - 1)

VARIABLES
  client,      \* request -> "new", "waiting" or "gone"
  prompt,      \* request -> length of its prompt
  maxNew,      \* request -> its output budget
  jobs,        \* channel of requests to the worker
  pc,          \* where the worker is; "dead" after a panic
  free,        \* free_slots, a stack
  active,      \* active sequences, in batch order
  slot,        \* request -> its KV slot, or None
  remaining,   \* request -> output tokens it may still get
  nextTok,     \* request -> token sampled but not yet sent
  cur, fed,    \* request being prefilled, or None; prompt tokens fed so far
  idx,         \* decode step: sequences gone through,
  kept, ended, \*   those of them that go on and that do not, in batch order
  seqPos,      \* KV slot -> positions filled
  evq,         \* request -> channel of worker events to its pump
  txOpen,      \* request -> whether the worker's end of it exists
  rxOpen,      \* request -> whether the pump's end exists
  pumped,      \* request -> tokens its pump has received
  out,         \* request -> how it ended for the client, or None
  late         \* history: request -> decode steps made for it since rx closed

clientVars == <<client, prompt, maxNew>>
seqVars    == <<slot, remaining, nextTok>>
emitVars   == <<idx, kept, ended>>
loopVars   == <<cur, fed, emitVars>>
pumpVars   == <<rxOpen, pumped, out>>
vars       == <<clientVars, jobs, pc, free, active, seqVars, loopVars, seqPos,
                evq, txOpen, pumpVars, late>>

Events == {"tok", "Stop", "Length", "Failed"}

TypeOK ==
  /\ client \in [Requests -> {"new", "waiting", "gone"}]
  /\ prompt \in [Requests -> 0..MaxSeq] /\ maxNew \in [Requests -> 0..MaxSeq]
  /\ jobs \in Seq(Requests)
  /\ pc \in {"admit", "prefill", "emit", "decode", "dead"}
  /\ free \in Seq(KvSlots) /\ active \in Seq(Requests)
  /\ slot \in [Requests -> KvSlots \cup {None}]
  /\ remaining \in [Requests -> 0..MaxSeq]
  /\ nextTok \in [Requests -> {"tok", "eos"}]
  /\ cur \in Requests \cup {None} /\ fed \in 0..MaxSeq
  /\ idx \in 0..MaxBatch /\ kept \in Seq(Requests) /\ ended \in Seq(Requests)
  /\ seqPos \in [KvSlots -> 0..MaxSeq]
  /\ evq \in [Requests -> Seq(Events)]
  /\ txOpen \in [Requests -> BOOLEAN] /\ rxOpen \in [Requests -> BOOLEAN]
  /\ pumped \in [Requests -> 0..MaxSeq]
  /\ out \in [Requests -> {None, "Stop", "Length", "Failed"}]
  /\ late \in [Requests -> Nat]

Init ==
  /\ client = [r \in Requests |-> "new"]
  /\ prompt = [r \in Requests |-> 0] /\ maxNew = [r \in Requests |-> 0]
  /\ jobs = <<>> /\ pc = "admit"
  /\ free = [i \in 1..MaxBatch |-> MaxBatch - i] /\ active = <<>>
  /\ slot = [r \in Requests |-> None]
  /\ remaining = [r \in Requests |-> 0]
  /\ nextTok = [r \in Requests |-> "tok"]
  /\ cur = None /\ fed = 0 /\ idx = 0 /\ kept = <<>> /\ ended = <<>>
  /\ seqPos = [s \in KvSlots |-> 0]
  /\ evq = [r \in Requests |-> <<>>]
  /\ txOpen = [r \in Requests |-> FALSE] /\ rxOpen = [r \in Requests |-> FALSE]
  /\ pumped = [r \in Requests |-> 0]
  /\ out = [r \in Requests |-> None]
  /\ late = [r \in Requests |-> 0]

MinOf(a, b) == IF a <= b THEN a ELSE b

-----------------------------------------------------------------------------
(* Handlers and clients *)

\* Gen::new: the prompt must leave room, and the budget is cut to the room.
Room(p) == MaxSeq - p

\* Gen::start: queue the job and start the pump, or answer 500 when the
\* worker's end of the channel is gone.
Submit(r) ==
  /\ client[r] = "new"
  /\ \E p \in PromptLens, m \in MaxTokens :
       /\ Room(p) > 0
       /\ prompt' = [prompt EXCEPT ![r] = p]
       /\ maxNew' = [maxNew EXCEPT ![r] = MinOf(m, Room(p))]
  /\ client' = [client EXCEPT ![r] = "waiting"]
  /\ IF pc = "dead"
     THEN /\ out' = [out EXCEPT ![r] = "Failed"]
          /\ UNCHANGED <<jobs, txOpen, rxOpen>>
     ELSE /\ jobs' = Append(jobs, r)
          /\ txOpen' = [txOpen EXCEPT ![r] = TRUE]
          /\ rxOpen' = [rxOpen EXCEPT ![r] = TRUE]
          /\ UNCHANGED out
  /\ UNCHANGED <<pc, free, active, seqVars, loopVars, seqPos, evq, pumped, late>>

\* The connection closes and the handler, with its receiver, is dropped.
Leave(r) ==
  /\ client[r] = "waiting" /\ out[r] = None
  /\ client' = [client EXCEPT ![r] = "gone"]
  /\ UNCHANGED <<prompt, maxNew, jobs, pc, free, active, seqVars, loopVars,
                 seqPos, evq, txOpen, pumpVars, late>>

-----------------------------------------------------------------------------
(* The worker *)

\* Sending succeeds while the pump's receiver exists; else it has no effect.
Sent(r, e) ==
  IF rxOpen[r] THEN [evq EXCEPT ![r] = Append(@, e)] ELSE evq

\* What remains of sequences S once the worker has dropped them.
DropSeqs(S) ==
  /\ slot' = [r \in Requests |-> IF r \in S THEN None ELSE slot[r]]
  /\ remaining' = [r \in Requests |-> IF r \in S THEN 0 ELSE remaining[r]]
  /\ nextTok' = [r \in Requests |-> IF r \in S THEN "tok" ELSE nextTok[r]]

\* Mutant of AdmitJob: the slot's positions are not reset.
AdmitJobStaleSlot ==
  /\ pc = "admit" /\ jobs # <<>> /\ free # <<>>
  /\ cur' = Head(jobs) /\ fed' = 0
  /\ slot' = [slot EXCEPT ![Head(jobs)] = Last(free)]
  /\ jobs' = Tail(jobs) /\ free' = Front(free)
  /\ pc' = "prefill"
  /\ UNCHANGED <<clientVars, active, remaining, nextTok, emitVars, seqPos, evq,
                 txOpen, pumpVars, late>>

\* With nothing active the worker blocks for a job; else it takes one if
\* there is one and a slot is free.
AdmitJob ==
  /\ pc = "admit" /\ jobs # <<>> /\ free # <<>>
  /\ LET r == Head(jobs)
         s == Last(free)
     IN  /\ cur' = r /\ fed' = 0
         /\ slot' = [slot EXCEPT ![r] = s]
         /\ seqPos' = [seqPos EXCEPT ![s] = 0]
  /\ jobs' = Tail(jobs) /\ free' = Front(free)
  /\ pc' = "prefill"
  /\ UNCHANGED <<clientVars, active, remaining, nextTok, emitVars, evq, txOpen,
                 pumpVars, late>>

\* Mutant of PromptFed: one position too many is kept for the budget.
PromptFedShort(r) == MinOf(prompt[r], MaxSeq - maxNew[r] - 1)

\* The prompt is cut to what leaves room for the budget.
PromptFed(r) == MinOf(prompt[r], MaxSeq - maxNew[r])

\* One forward pass per prompt token; the last one's sample is the first
\* output token.
PrefillToken ==
  /\ pc = "prefill"
  /\ PromptFed(cur) > 0
  /\ seqPos[slot[cur]] < MaxSeq
  /\ seqPos' = [seqPos EXCEPT ![slot[cur]] = @ + 1]
  /\ IF fed + 1 < PromptFed(cur)
     THEN /\ fed' = fed + 1
          /\ UNCHANGED <<pc, cur, active, remaining, nextTok>>
     ELSE /\ active' = Append(active, cur)
          /\ remaining' = [remaining EXCEPT ![cur] = maxNew[cur]]
          /\ \E t \in {"tok", "eos"} : nextTok' = [nextTok EXCEPT ![cur] = t]
          /\ cur' = None /\ fed' = 0 /\ pc' = "admit"
  /\ UNCHANGED <<clientVars, jobs, free, slot, emitVars, evq, txOpen, pumpVars,
                 late>>

\* Mutant of PrefillFails: the slot is not freed.
PrefillFailsLeaking ==
  /\ pc = "prefill"
  /\ evq' = Sent(cur, "Failed")
  /\ txOpen' = [txOpen EXCEPT ![cur] = FALSE]
  /\ DropSeqs({cur})
  /\ cur' = None /\ fed' = 0 /\ pc' = "admit"
  /\ UNCHANGED <<clientVars, jobs, free, active, emitVars, seqPos, pumpVars,
                 late>>

\* A forward pass can fail for reasons of its own, and does on a full slot
\* ("context overflow").  The job is dropped and its slot freed.
PrefillFails ==
  /\ pc = "prefill"
  /\ evq' = Sent(cur, "Failed")
  /\ txOpen' = [txOpen EXCEPT ![cur] = FALSE]
  /\ free' = Append(free, slot[cur])
  /\ DropSeqs({cur})
  /\ cur' = None /\ fed' = 0 /\ pc' = "admit"
  /\ UNCHANGED <<clientVars, jobs, active, emitVars, seqPos, pumpVars, late>>

BeginStep ==
  /\ pc = "admit" /\ active # <<>>
  /\ free = <<>> \/ jobs = <<>>
  /\ pc' = "emit" /\ idx' = 0 /\ kept' = <<>> /\ ended' = <<>>
  /\ UNCHANGED <<clientVars, jobs, free, active, seqVars, cur, fed, seqPos, evq,
                 txOpen, pumpVars, late>>

\* Mutant of Finish: the budget is not looked at.
FinishNeverLength(r) == IF nextTok[r] = "eos" THEN "Stop" ELSE None

\* Mutant of Finish: the budget ends one token early.
FinishOneEarly(r) ==
  IF nextTok[r] = "eos" THEN "Stop"
  ELSE IF remaining[r] <= 1 THEN "Length" ELSE None

\* Why sequence r ends here, None when it does not.
Finish(r) ==
  IF nextTok[r] = "eos" THEN "Stop"
  ELSE IF remaining[r] = 0 THEN "Length" ELSE None

\* Mutant of GoesOn: a token that could not be sent goes unnoticed.
GoesOnUnheard(r) == Finish(r) = None

\* Mutant of GoesOn: a sequence that has ended is kept.
GoesOnFinished(r) == rxOpen[r] /\ remaining[r] > 0

GoesOn(r) == Finish(r) = None /\ rxOpen[r]

\* Send the next sequence its token, or the reason why it ends.
EmitNext ==
  /\ pc = "emit" /\ idx < Len(active)
  /\ LET r == active[idx + 1]
     IN  /\ evq' = Sent(r, IF Finish(r) = None THEN "tok" ELSE Finish(r))
         /\ kept' = IF GoesOn(r) THEN Append(kept, r) ELSE kept
         /\ ended' = IF GoesOn(r) THEN ended ELSE Append(ended, r)
         /\ remaining' = IF GoesOn(r) THEN [remaining EXCEPT ![r] = @ - 1]
                                      ELSE remaining
  /\ idx' = idx + 1
  /\ UNCHANGED <<clientVars, jobs, pc, free, active, slot, nextTok, cur, fed,
                 seqPos, txOpen, pumpVars, late>>

\* The slots of the sequences S, in batch order.
SlotsOf(S) == [i \in DOMAIN S |-> slot[S[i]]]

\* Mutant of Retain: the slots of the dropped sequences are not freed.
RetainLeaking ==
  /\ pc = "emit" /\ idx = Len(active)
  /\ txOpen' = [r \in Requests |-> txOpen[r] /\ r \notin ToSet(ended)]
  /\ DropSeqs(ToSet(ended))
  /\ active' = kept
  /\ idx' = 0 /\ kept' = <<>> /\ ended' = <<>>
  /\ pc' = IF kept = <<>> THEN "admit" ELSE "decode"
  /\ UNCHANGED <<clientVars, jobs, free, cur, fed, seqPos, evq, pumpVars, late>>

\* Drop the sequences that do not go on; their senders close.
Retain ==
  /\ pc = "emit" /\ idx = Len(active)
  /\ free' = free \o SlotsOf(ended)
  /\ txOpen' = [r \in Requests |-> txOpen[r] /\ r \notin ToSet(ended)]
  /\ DropSeqs(ToSet(ended))
  /\ active' = kept
  /\ idx' = 0 /\ kept' = <<>> /\ ended' = <<>>
  /\ pc' = IF kept = <<>> THEN "admit" ELSE "decode"
  /\ UNCHANGED <<clientVars, jobs, cur, fed, seqPos, evq, pumpVars, late>>

\* One forward pass for all active sequences.
DecodeStep ==
  /\ pc = "decode"
  /\ \A r \in ToSet(active) : seqPos[slot[r]] < MaxSeq
  /\ seqPos' = [s \in KvSlots |-> IF \E r \in ToSet(active) : slot[r] = s
                                  THEN seqPos[s] + 1 ELSE seqPos[s]]
  /\ \E t \in [ToSet(active) -> {"tok", "eos"}] :
       nextTok' = [r \in Requests |-> IF r \in ToSet(active) THEN t[r]
                                      ELSE nextTok[r]]
  /\ late' = [r \in Requests |-> IF r \in ToSet(active) /\ ~rxOpen[r]
                                 THEN late[r] + 1 ELSE late[r]]
  /\ pc' = "admit"
  /\ UNCHANGED <<clientVars, jobs, free, active, slot, remaining, loopVars, evq,
                 txOpen, pumpVars>>

\* The pass fails, and with it every sequence of the batch.
DecodeFails ==
  /\ pc = "decode"
  /\ evq' = [r \in Requests |-> IF r \in ToSet(active) /\ rxOpen[r]
                                THEN Append(evq[r], "Failed") ELSE evq[r]]
  /\ free' = free \o SlotsOf(active)
  /\ txOpen' = [r \in Requests |-> txOpen[r] /\ r \notin ToSet(active)]
  /\ DropSeqs(ToSet(active))
  /\ active' = <<>>
  /\ pc' = "admit"
  /\ UNCHANGED <<clientVars, jobs, loopVars, seqPos, pumpVars, late>>

\* A panic in a forward pass ends the thread: its sequences, the channel of
\* jobs and every sender in them are dropped, without any event.
WorkerDies ==
  /\ pc \in {"prefill", "decode"}
  /\ pc' = "dead"
  /\ txOpen' = [r \in Requests |-> FALSE]
  /\ jobs' = <<>> /\ free' = <<>> /\ active' = <<>>
  /\ DropSeqs(Requests)
  /\ cur' = None /\ fed' = 0
  /\ UNCHANGED <<clientVars, emitVars, seqPos, evq, pumpVars, late>>

WorkerNext ==
  \/ AdmitJob \/ PrefillToken \/ PrefillFails \/ BeginStep \/ EmitNext
  \/ Retain \/ DecodeStep \/ DecodeFails \/ WorkerDies

-----------------------------------------------------------------------------
(* The pump of request r *)

\* The pump returns: its receiver closes, and the client learns o if present.
PumpEnds(r, o) ==
  /\ rxOpen' = [rxOpen EXCEPT ![r] = FALSE]
  /\ evq' = [evq EXCEPT ![r] = <<>>]
  /\ out' = [out EXCEPT ![r] = IF client[r] = "waiting" THEN o ELSE None]

\* A token decodes to some text or none (a stop sequence or a character may
\* be incomplete).  Only sending text tells the pump that the client is gone.
PumpToken(r) ==
  /\ rxOpen[r] /\ evq[r] # <<>> /\ Head(evq[r]) = "tok"
  /\ pumped' = [pumped EXCEPT ![r] = @ + 1]
  /\ \E text, hit \in BOOLEAN :
       IF text /\ client[r] = "gone" THEN PumpEnds(r, None)
       ELSE IF hit THEN PumpEnds(r, "Stop")
       ELSE /\ evq' = [evq EXCEPT ![r] = Tail(@)]
            /\ UNCHANGED <<rxOpen, out>>
  /\ UNCHANGED <<clientVars, jobs, pc, free, active, seqVars, loopVars, seqPos,
                 txOpen, late>>

\* The end: what was held back is flushed, and can complete a stop sequence.
PumpDone(r) ==
  /\ rxOpen[r] /\ evq[r] # <<>> /\ Head(evq[r]) \in {"Stop", "Length"}
  /\ \E hit \in BOOLEAN : PumpEnds(r, IF hit THEN "Stop" ELSE Head(evq[r]))
  /\ UNCHANGED <<clientVars, jobs, pc, free, active, seqVars, loopVars, seqPos,
                 txOpen, pumped, late>>

\* Mutant of PumpFailed: a sender that is gone goes unnoticed.
PumpFailedByEventOnly(r) ==
  /\ rxOpen[r]
  /\ evq[r] # <<>> /\ Head(evq[r]) = "Failed"
  /\ PumpEnds(r, "Failed")
  /\ UNCHANGED <<clientVars, jobs, pc, free, active, seqVars, loopVars, seqPos,
                 txOpen, pumped, late>>

\* The engine failed, or the worker's sender is gone with nothing more queued.
PumpFailed(r) ==
  /\ rxOpen[r]
  /\ IF evq[r] = <<>> THEN ~txOpen[r] ELSE Head(evq[r]) = "Failed"
  /\ PumpEnds(r, "Failed")
  /\ UNCHANGED <<clientVars, jobs, pc, free, active, seqVars, loopVars, seqPos,
                 txOpen, pumped, late>>

Pump(r) == PumpToken(r) \/ PumpDone(r) \/ PumpFailed(r)

Next ==
  \/ WorkerNext
  \/ \E r \in Requests : Submit(r) \/ Leave(r) \/ Pump(r)

Spec == Init /\ [][Next]_vars

\* Threads are scheduled; nothing makes a client submit, or leave.
FairSpec ==
  /\ Spec
  /\ WF_vars(WorkerNext)
  /\ \A r \in Requests : WF_vars(Pump(r))

-----------------------------------------------------------------------------
(***************************************************************************)
(* Every KV slot is free exactly once or held by exactly one sequence,     *)
(* active or in prefill: none leaks on any of the paths that end a         *)
(* sequence, and none is handed out twice.                                 *)
(***************************************************************************)
Held == ToSet(active) \cup ({cur} \ {None})

SlotsAccountedFor ==
  pc # "dead" =>
    /\ \A r \in Requests : slot[r] # None <=> r \in Held
    /\ \A s \in KvSlots :
         Cardinality({i \in DOMAIN free : free[i] = s})
           + Cardinality({r \in Requests : slot[r] = s}) = 1

(***************************************************************************)
(* Between steps the KV slot of a sequence is filled exactly by its whole  *)
(* prompt and the tokens sent so far: the budget the handler computed and  *)
(* the cut the worker makes agree, so nothing of a prompt is ever cut.     *)
(***************************************************************************)
PositionsMatchTokens ==
  pc = "admit" =>
    \A r \in ToSet(active) :
      seqPos[slot[r]] = prompt[r] + (maxNew[r] - remaining[r])

(***************************************************************************)
(* No forward pass is asked for on a full slot.  It would fail with        *)
(* "context overflow" (lib.rs:1172) and take the whole batch with it.      *)
(***************************************************************************)
NeverContextOverflow ==
  /\ pc = "prefill" => seqPos[slot[cur]] < MaxSeq
  /\ pc = "decode" => \A r \in ToSet(active) : seqPos[slot[r]] < MaxSeq

(***************************************************************************)
(* A pump finds at most one terminal event, behind all tokens, and the     *)
(* worker has then given the sequence up.                                  *)
(***************************************************************************)
TerminalEventIsLast ==
  \A r \in Requests : \A i \in DOMAIN evq[r] :
    evq[r][i] # "tok" =>
      /\ i = Len(evq[r])
      /\ r \notin ToSet(kept)
      /\ pc # "emit" => r \notin Held

(***************************************************************************)
(* The usage reported is real: a generation that ends for length delivered *)
(* exactly its budget, none more, none fewer.                              *)
(***************************************************************************)
LengthMeansBudgetSpent ==
  \A r \in Requests : out[r] = "Length" => pumped[r] = maxNew[r]

(***************************************************************************)
(* "A dropped receiver cancels its sequence" (serve.rs:88): once the pump  *)
(* has returned, at most the pass already agreed on is made for it.        *)
(***************************************************************************)
CancelledStopsAtOnce == \A r \in Requests : late[r] <= 1

(***************************************************************************)
(* Every client that waits gets an answer: the end of its generation, or   *)
(* an error when its pass failed, its batch failed, or the worker died.    *)
(***************************************************************************)
EveryRequestAnswered ==
  \A r \in Requests : client[r] = "waiting" ~> client[r] = "gone" \/ out[r] # None

(***************************************************************************)
(* Whatever becomes of its client, a request gives back all that it holds: *)
(* its place in the queue, its KV slot and its pump thread.                *)
(***************************************************************************)
Released(r) == r \notin ToSet(jobs) /\ slot[r] = None /\ ~rxOpen[r]

EveryRequestReleased ==
  \A r \in Requests : client[r] # "new" ~> Released(r)
=============================================================================
