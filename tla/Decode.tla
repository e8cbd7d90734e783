-------------------------------- MODULE Decode --------------------------------
(***************************************************************************)
(* The passes of the decoder with device routing (ft-model/src/lib.rs):    *)
(* forward_batch, forward_sample, and forward_sample_graphed, which        *)
(* records the launches of enqueue_stack once per batch size and replays   *)
(* them.  A pass may fail at every step; the callers drop its sequences    *)
(* and reset a slot before they use it again, as module Worker shows.      *)
(*                                                                         *)
(* The kernels are those of module DecodeStack.  What a pass leaves in the *)
(* scratch buffers is forgotten, so that a later pass that read it would   *)
(* read a stale value; only the generators of the sampling kernel, in      *)
(* rng_dev, go on from pass to pass.                                       *)
(***************************************************************************)
EXTENDS DecodeStack

CONSTANTS
  Geometries,   \* the models to load
  Greedy,       \* the sequences with a temperature of 0 or less, by slot and epoch
  MaxPasses,    \* bound: passes begun
  MaxFaults,    \* bound: driver calls that fail
  MaxResets     \* bound: slots reset

ASSUME DecodeConstants ==
  /\ MaxPasses \in Nat /\ MaxFaults \in Nat /\ MaxResets \in Nat
  /\ \A g \in Geometries :
       /\ {g.hidden, g.ffn, g.inter, g.vocab, g.experts, g.maxSeq, g.window} \subseteq Nat
       /\ {g.heads, g.topk, g.hdSwa, g.hdFull} \subseteq Nat \ {0} /\ g.hdSwa <= g.hdFull
       /\ g.kvHeads \in Seq(Nat \ {0}) /\ g.swa \in Seq(BOOLEAN) /\ Len(g.kvHeads) = Len(g.swa)

VARIABLES
  geom,         \* the loaded model; <<>> before
  machine,      \* buffers and pools, see DecodeStack
  seqPos,       \* seq_pos
  history,      \* the tokens of the sequence in each slot (history)
  graphExec,    \* graph_exec: context bound baked into the graph of a batch size, 0 for none
  capturing,    \* is the stream capturing?
  wantSample,   \* want_sample
  pass,         \* the pass under way
  answered,     \* how the last pass ended
  draws,        \* how often row i was sampled (history)
  unset,        \* slots whose sequence was dropped: reset before use
  failures,     \* the kinds of the passes that failed, and why (history)
  epoch,        \* resets of each slot
  faults, begun \* counters of the bounds

decodeVars == <<geom, machine, seqPos, history, graphExec, capturing, wantSample, pass,
                answered, draws, unset, failures, epoch, faults, begun>>

Slots == 1..MaxBatch
Batches == {r \in UNION {[1..n -> Slots] : n \in 1..MaxBatch} : IsInjective(r)}

\* The token the caller feeds next, one of a kind per place in a sequence.
Token(s) == <<"embed", s, epoch[s], seqPos[s]>>

\* The temperature of the sequence in a slot.
Temperature(s) == IF <<s, epoch[s]>> \in Greedy THEN GreedyTemp ELSE <<"temp", s>>

-----------------------------------------------------------------------------
\* The function the model computes: the residual stream x of a layer after a
\* history h of tokens, and what it is made of.

X(l, h) == IF l = 1 THEN Last(h) ELSE <<"x", l, h>>

QkvOf(l, h) == <<"gemv", <<"qkv", l>>, <<"q8", Normed(<<"attn_norm", l>>, X(l, h))>>>>
HeadOf(g, l, h, s, w) ==
  Turned(g.swa[l], Len(h) - 1, Normed(<<w, l>>, <<"section", s, QkvOf(l, h)>>))

AttentionOf(g, l, h) ==
  <<"attn", HeadOf(g, l, h, "q", "q_norm"),
    {LET then == SubSeq(h, 1, p + 1)
     IN  <<"at", p, HeadOf(g, l, then, "k", "k_norm"),
           Normed(<<"none">>, <<"section", "v", QkvOf(l, then)>>)>>
       : p \in Attended(Len(h) - 1, IF g.swa[l] THEN g.window ELSE 0)}>>

LayerOf(g, l, h) ==
  LET Dense(w, t)   == <<"gemv", <<w, l>>, <<"q8", t>>>>
      xa            == <<"add", X(l, h), Normed(<<"post_attn", l>>, Dense("o", AttentionOf(g, l, h)))>>
      gateUp        == Dense("gate_up", Normed(<<"ffn_norm", l>>, xa))
      logits        == <<"gemv", <<"router_wf", l>>, Normed(<<"none">>, xa)>>
      Expert(b, e, t) == <<"expert", b, <<"base", l, <<"id", e, logits>>>>, t>>
      inner(e)      == <<"gelu_mul", Expert("gate_up", e, <<"q8", Normed(<<"pre_ffw2", l>>, xa)>>)>>
  IN  <<"combine", <<"post_ffw", l>>, xa, <<"gemv", <<"down", l>>, <<"gelu_mul", gateUp>>>>,
        <<"sum", <<"zero">>,
          [e \in 1..g.topk |-> <<Expert("down", e, inner(e)), <<"wt", e, logits>>>>]>>>>

LogitsOf(g, h) ==
  <<"gemv", <<"lm_head">>, <<"q8", Normed(<<"final_norm">>, X(Len(g.swa) + 1, h))>>>>

\* A layer's result is given its name once it is the right one: terms stay short.
Named(g, l, h, t) == IF t = LayerOf(g, l, h) THEN X(l + 1, h) ELSE Stale

-----------------------------------------------------------------------------
\* Actions

Idle == [at |-> "idle"]
Nothing == [is |-> "nothing"]

DecodeInit ==
  /\ geom = <<>> /\ machine = <<>>
  /\ seqPos = [s \in Slots |-> 0] /\ history = [s \in Slots |-> <<>>]
  /\ graphExec = [n \in Slots |-> 0] /\ capturing = FALSE /\ wantSample = FALSE
  /\ pass = Idle /\ answered = Nothing /\ unset = {} /\ failures = {}
  /\ draws = [i \in Slots |-> 0]
  /\ epoch = [s \in Slots |-> 0] /\ faults = 0 /\ begun = 0

\* Model::load, which seeds a generator for every row
LoadModel ==
  /\ geom = <<>>
  /\ \E g \in Geometries :
       /\ geom' = g
       /\ machine' = [mem |-> [b \in {RngDev} |-> [i \in Slots |-> RngState(i, 0)]],
                      alloc |-> {}, sound |-> TRUE,
                      kv |-> [l \in Layers(g) |-> [s \in Slots |->
                                [p \in 0..(g.maxSeq - 1) |-> [k |-> Stale, v |-> Stale]]]]]
  /\ UNCHANGED <<seqPos, history, graphExec, capturing, wantSample, pass, answered, unset,
                 failures, epoch, draws, faults, begun>>

\* reset_slot, by the worker on admission
ResetSlot ==
  /\ geom # <<>> /\ pass = Idle
  /\ SumFunction(epoch) < MaxResets
  /\ \E s \in Slots :
       /\ seqPos[s] > 0 \/ s \in unset
       /\ seqPos' = [seqPos EXCEPT ![s] = 0]
       /\ history' = [history EXCEPT ![s] = <<>>]
       /\ epoch' = [epoch EXCEPT ![s] = @ + 1]
       /\ unset' = unset \ {s}
  /\ answered' = Nothing
  /\ UNCHANGED <<geom, machine, graphExec, capturing, wantSample, pass, draws, failures,
                 faults, begun>>

\* What upload_inputs, or the beginning of forward_batch, puts into the buffers;
\* forward_batch itself leaves the temperatures alone.
Uploaded(kind, reqs) ==
  LET n == Len(reqs)
      pairRow == [p \in 1..(n * geom.topk) |-> (p - 1) \div geom.topk + 1]
      inputs == {XRes, PosDev, SlotDev, PairXidx, PairSeq, DenseIdx}
                  \cup IF kind = "logits" THEN {} ELSE {TempsDev}
  IN  [b \in inputs |->
         CASE b = XRes -> [i \in 1..n |-> Token(reqs[i])]
           [] b = PosDev -> [i \in 1..n |-> seqPos[reqs[i]]]
           [] b = SlotDev -> reqs
           [] b \in {PairXidx, PairSeq} -> pairRow
           [] b = DenseIdx -> [i \in 1..(MaxBatch * geom.topk) |-> i]
           [] b = TempsDev -> [i \in 1..n |-> Temperature(reqs[i])]]

\* What is left in the buffers when a pass has ended.
Forgotten(m) == [m EXCEPT !.mem = [b \in DOMAIN m.mem \cap {RngDev} |-> m.mem[b]]]

Fail(kind, reqs, why) ==
  /\ answered' = [is |-> "failed", why |-> why]
  /\ failures' = failures \cup {<<kind, why>>}
  /\ unset' = unset \cup Range(reqs)
  /\ pass' = Idle

\* forward_sample, forward_batch or forward_sample_graphed begins: buffers are
\* allocated, the positions checked, inputs uploaded.
BeginPass ==
  /\ geom # <<>> /\ pass = Idle /\ begun < MaxPasses
  /\ begun' = begun + 1
  /\ \E kind \in {"sample", "logits", "graphed"}, reqs \in Batches :
       LET ensured == machine.alloc \cup IF kind = "graphed" THEN EnsureKeys(geom) ELSE {}
           mem     == IF capturing THEN machine.mem ELSE Over(Uploaded(kind, reqs), machine.mem)
       IN  /\ Range(reqs) \cap unset = {}
           /\ wantSample' = (wantSample \/ kind = "sample")
           /\ \/ /\ \E s \in Range(reqs) : seqPos[s] >= geom.maxSeq
                 /\ Fail(kind, reqs, "context overflow")
                 /\ machine' = [machine EXCEPT !.alloc = ensured]
              \/ /\ \A s \in Range(reqs) : seqPos[s] < geom.maxSeq
                 /\ pass' = [at |-> IF kind = "graphed" THEN "drain" ELSE "layer", kind |-> kind,
                             reqs |-> reqs, layer |-> 1,
                             tokens |-> [i \in DOMAIN reqs |-> Token(reqs[i])],
                             maxCtx |-> Max({seqPos[s] : s \in Range(reqs)}) + 1]
                 /\ machine' = [machine EXCEPT !.mem = mem, !.alloc = ensured \cup {Q8(geom.hidden)}]
                 /\ answered' = Nothing
                 /\ UNCHANGED <<unset, failures>>
  /\ UNCHANGED <<geom, seqPos, history, graphExec, capturing, epoch, draws, faults>>

\* The streams are drained, which a capturing stream refuses.
Drain ==
  /\ pass.at = "drain" /\ ~capturing
  /\ pass' = [pass EXCEPT !.at = IF graphExec[Len(pass.reqs)] = 0 THEN "begin" ELSE "launch"]
  /\ UNCHANGED <<geom, machine, seqPos, history, graphExec, capturing, wantSample, answered,
                 draws, unset, failures, epoch, faults, begun>>

BeginCapture ==
  /\ pass.at = "begin"
  /\ capturing' = TRUE
  /\ pass' = [pass EXCEPT !.at = "enqueue"]
  /\ UNCHANGED <<geom, machine, seqPos, history, graphExec, wantSample, answered, unset,
                 failures, epoch, draws, faults, begun>>

\* Mutant of BakedBound: the context of the pass that captures.
BakedBoundOfFirst(maxCtx) == maxCtx

\* The context enqueue_stack launches attention for.
BakedBound(maxCtx) == geom.maxSeq

\* enqueue_stack: launches are recorded, nothing is computed.
EnqueueStack ==
  /\ pass.at = "enqueue"
  /\ pass' = [pass EXCEPT !.at = "instantiate"]
  /\ UNCHANGED <<geom, machine, seqPos, history, graphExec, capturing, wantSample, answered,
                 unset, failures, epoch, draws, faults, begun>>

\* Mutant of EndCapture: the graph is kept, the capture goes on.
EndCaptureNever ==
  /\ pass.at = "instantiate"
  /\ graphExec' = [graphExec EXCEPT ![Len(pass.reqs)] = BakedBound(pass.maxCtx)]
  /\ pass' = [pass EXCEPT !.at = "launch"]
  /\ UNCHANGED <<geom, machine, seqPos, history, capturing, wantSample, answered, unset,
                 failures, epoch, draws, faults, begun>>

\* cuStreamEndCapture, which ends the capture whether or not it succeeds, and
\* cuGraphInstantiate.
EndCapture ==
  /\ pass.at = "instantiate"
  /\ capturing' = FALSE
  /\ \/ /\ graphExec' = [graphExec EXCEPT ![Len(pass.reqs)] = BakedBound(pass.maxCtx)]
        /\ pass' = [pass EXCEPT !.at = "launch"]
        /\ UNCHANGED <<machine, answered, unset, failures, faults>>
     \/ /\ faults < MaxFaults
        /\ faults' = faults + 1
        /\ Fail(pass.kind, pass.reqs, "fault")
        /\ machine' = Forgotten(machine)
        /\ UNCHANGED graphExec
  /\ UNCHANGED <<geom, seqPos, history, wantSample, epoch, draws, begun>>

LaunchGraph ==
  /\ pass.at = "launch"
  /\ pass' = [pass EXCEPT !.at = "layer", !.maxCtx = graphExec[Len(pass.reqs)]]
  /\ UNCHANGED <<geom, machine, seqPos, history, graphExec, capturing, wantSample, answered,
                 unset, failures, epoch, draws, faults, begun>>

\* The launches of a layer run, or are recorded by a stream that an earlier pass has
\* left capturing.
RunLayer ==
  /\ pass.at = "layer" /\ pass.layer \in Layers(geom)
  /\ IF capturing THEN UNCHANGED machine
     ELSE LET n  == Len(pass.reqs)
              l  == pass.layer
              m  == Run(geom, machine, IF pass.kind = "graphed" THEN StackLayer(geom, l, pass.maxCtx, n)
                                       ELSE EagerLayer(geom, l, pass.maxCtx, n))
              h(i) == Append(history[pass.reqs[i]], pass.tokens[i])
          IN  machine' = Put(m, XRes, [i \in 1..n |-> Named(geom, l, h(i), Get(m, XRes, i))])
  /\ pass' = [pass EXCEPT !.layer = @ + 1]
  /\ UNCHANGED <<geom, seqPos, history, graphExec, capturing, wantSample, answered, unset,
                 failures, epoch, draws, faults, begun>>

Advanced == [s \in Slots |-> seqPos[s] + IF s \in Range(pass.reqs) THEN 1 ELSE 0]

\* The end of the stack samples in a graph, and in forward_batch if it is wanted.
Samples == pass.kind = "graphed" \/ wantSample

\* Mutant of KeepsWanting: forward_sample leaves want_sample set.
KeepsWantingAlways == wantSample
\* want_sample after forward_batch has returned
KeepsWanting == wantSample /\ pass.kind # "sample"

\* Final norm, lm_head, and sampling or not.  forward_batch advances the positions
\* when it has enqueued the sampling; forward_sample then clears its flag.
RunHead ==
  /\ pass.at = "layer" /\ pass.layer \notin Layers(geom)
  /\ IF capturing THEN UNCHANGED <<machine, draws>>
     ELSE LET n == Len(pass.reqs)
          IN  /\ machine' = Run(geom, machine, LmHead(geom, n)
                                  \o IF Samples THEN <<SampleTokens(geom, n)>> ELSE <<>>)
              /\ draws' = IF Samples THEN [i \in Slots |-> draws[i] + IF i <= n THEN 1 ELSE 0] ELSE draws
  /\ pass' = [pass EXCEPT !.at = IF Samples THEN "tokens" ELSE "logits"]
  /\ seqPos' = IF wantSample /\ pass.kind # "graphed" THEN Advanced ELSE seqPos
  /\ wantSample' = KeepsWanting
  /\ UNCHANGED <<geom, history, graphExec, capturing, answered, unset, failures, epoch,
                 faults, begun>>

\* The tokens or the logits are downloaded and returned, for which the stream is
\* synchronized; a direct call of forward_batch that has sampled downloads nothing and
\* returns an empty vector.
Download ==
  /\ pass.at \in {"tokens", "logits"}
  /\ capturing => pass.at = "tokens" /\ pass.kind = "logits"
  /\ answered' =
       [is |-> IF pass.at = "logits" THEN "logits" ELSE IF pass.kind = "logits" THEN "empty" ELSE "tokens",
        kind |-> pass.kind, reqs |-> pass.reqs,
        rows |-> [i \in DOMAIN pass.reqs |->
                    Get(machine, IF pass.at = "logits" THEN LogitsDev ELSE TokOut, i)]]
  /\ seqPos' = IF pass.kind = "graphed" \/ pass.at = "logits" THEN Advanced ELSE seqPos
  /\ history' = [s \in Slots |->
       IF s \in Range(pass.reqs)
       THEN Append(history[s], pass.tokens[CHOOSE i \in DOMAIN pass.reqs : pass.reqs[i] = s])
       ELSE history[s]]
  /\ machine' = Forgotten(machine)
  /\ pass' = Idle
  /\ UNCHANGED <<geom, graphExec, capturing, wantSample, unset, failures, epoch, draws,
                 faults, begun>>

\* A stream that an earlier pass has left capturing refuses to be synchronized, and may
\* refuse any other call.
StreamRefuses ==
  /\ capturing /\ pass.at \in {"drain", "layer", "tokens", "logits"}
  /\ Fail(pass.kind, pass.reqs, "capturing")
  /\ machine' = Forgotten(machine)
  /\ UNCHANGED <<geom, seqPos, history, graphExec, capturing, wantSample, epoch, draws,
                 faults, begun>>

\* A driver call fails and ? returns.  A launch that fails while the stream records
\* leaves it capturing: enqueue_stack returns past cuStreamEndCapture.
DriverFault ==
  /\ pass.at \notin {"idle", "instantiate"}
  /\ faults < MaxFaults
  /\ faults' = faults + 1
  /\ Fail(pass.kind, pass.reqs, IF pass.at = "enqueue" THEN "broken capture" ELSE "fault")
  /\ machine' = Forgotten(machine)
  /\ UNCHANGED <<geom, seqPos, history, graphExec, capturing, wantSample, epoch, draws,
                 begun>>

DecodeNext ==
  \/ LoadModel \/ ResetSlot \/ BeginPass \/ Drain \/ BeginCapture \/ EnqueueStack \/ EndCapture
  \/ LaunchGraph \/ RunLayer \/ RunHead \/ Download \/ StreamRefuses \/ DriverFault

DecodeSpec == DecodeInit /\ [][DecodeNext]_decodeVars

-----------------------------------------------------------------------------
\* Properties

\* The logits, and the tokens of a greedy sequence, that a pass returns are the model's
\* function of that sequence's tokens and of nothing else: not of the rest of the batch,
\* of its row in it, of what earlier passes left in a buffer or an earlier sequence in the
\* KV slot, of a failed pass, or of when a graph was captured; enqueue_stack and
\* forward_batch compute the same.  At a temperature above 0 a token depends on one thing
\* more, the state of its row's generator, and that is the seed of the row advanced once
\* for each earlier pass that sampled the row: none draws again from the state of another.
AnswersFollowTheHistory ==
  answered.is \in {"tokens", "logits"} =>
    \A i \in DOMAIN answered.reqs :
      LET s      == answered.reqs[i]
          logits == LogitsOf(geom, history[s])
      IN  answered.rows[i] =
            IF answered.is = "logits" THEN logits
            ELSE IF <<s, epoch[s]>> \in Greedy THEN <<"argmax", logits>>
            ELSE <<"sample", logits, <<"temp", s>>, RngState(i, draws[i] - 1)>>

\* No launch reaches past the end of a buffer, and no width-keyed buffer is asked
\* for before it is allocated, in a captured stack or in forward_batch.
BuffersSuffice == geom # <<>> => machine.sound

\* A pass is refused because the stream is capturing only if an earlier graphed pass
\* failed between cuStreamBeginCapture and cuStreamEndCapture: every other way out, a
\* failure of either, of the instantiation or of the launch, leaves no capture open.
RefusedOnlyAfterABrokenCapture ==
  \A f \in failures : f[2] = "capturing" => <<"graphed", "broken capture">> \in failures

\* A direct forward_batch returns the logits of its rows unless some forward_sample
\* before it failed: want_sample does not outlive a pass that went well.
LogitsComeBack ==
  answered.is = "empty" => \E f \in failures : f[1] = "sample"

=============================================================================
