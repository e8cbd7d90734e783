----------------------------- MODULE DecodeStack -----------------------------
(***************************************************************************)
(* The kernels of one decode pass and the buffers they pass values through *)
(* (ft-model/src/lib.rs, forward_batch with device routing and             *)
(* enqueue_stack; the launches of ft-cuda/src/lib.rs).  Arithmetic is      *)
(* symbolic: a value is the term that says how it was computed, so that    *)
(* two values are equal only if they were computed from the same inputs in *)
(* the same way, and a value left over from another pass is seen.          *)
(*                                                                         *)
(* A launch is a record: what it reads and writes, for how many rows, and  *)
(* how far it reaches into each buffer.  A program is a sequence of        *)
(* launches and allocations; Run executes it.  Rows, layers, slots and     *)
(* pairs count from 1, positions from 0.                                   *)
(***************************************************************************)
EXTENDS Integers, Sequences, SequencesExt

CONSTANTS
  MaxBatch,   \* KV slots, and rows of every per-sequence buffer
  Chunk       \* positions per block of the attention kernel (ATTN_CHUNK)

ASSUME DecodeStackConstants == MaxBatch \in Nat \ {0} /\ Chunk \in Nat \ {0}

\* The geometry g of a model: hidden, ffn, inter, vocab, heads, topk, experts,
\* hdSwa, hdFull, maxSeq, window, and per layer kvHeads and swa.
Layers(g) == DOMAIN g.swa
HeadDim(g, l) == IF g.swa[l] THEN g.hdSwa ELSE g.hdFull
QRows(g, l) == g.heads * HeadDim(g, l)
KvDim(g, l) == g.kvHeads[l] * HeadDim(g, l)
QkvRows(g, l) == QRows(g, l) + 2 * KvDim(g, l)

CeilDiv(a, b) == (a + b - 1) \div b

-----------------------------------------------------------------------------
\* Buffers.  Those of q8bufs and ybufs are keyed by their width: two uses of one
\* width share a buffer.

Q8(k) == <<"q8bufs", k>>
Y(r) == <<"ybufs", r>>
XRes == <<"x_res">>
ScA == <<"sc_a">>
ScO == <<"sc_o">>
ScPf == <<"sc_pf">>
ScRi == <<"sc_ri">>
AttnOut == <<"attn_out_dev">>
Partials == <<"attn_partials">>
Q8Preff == <<"q8_preff">>
Q8Routed == <<"q8_routed">>
RouterLogits == <<"router_logits_dev">>
MoeIds == <<"moe_ids_dev">>
PairWts == <<"pair_wts">>
PairBases == <<"pair_bases">>
PairXidx == <<"pair_xidx">>
PairSeq == <<"pair_seq">>
DenseIdx == <<"dense_idx">>
PairYGu == <<"pair_y_gu">>
PairActQ8 == <<"pair_act_q8">>
PairYDown == <<"pair_y_down">>
RoutedOut == <<"routed_out_dev">>
LogitsDev == <<"logits_dev">>
TempsDev == <<"temps_dev">>
RngDev == <<"rng_dev">>
TokOut == <<"tok_out_dev">>
PosDev == <<"pos_dev">>
SlotDev == <<"slot_dev">>

Keyed(b) == b[1] \in {"q8bufs", "ybufs"}

\* Elements allocated by Model::load, and for the keyed ones on first use.  A q8
\* buffer is counted in the elements it can hold.
Size(g, b) ==
  CASE Keyed(b) -> MaxBatch * b[2]
    [] b[1] \in {"x_res", "sc_a", "sc_pf", "sc_ri", "q8_preff", "q8_routed", "routed_out_dev"}
         -> MaxBatch * g.hidden
    [] b[1] \in {"attn_out_dev", "sc_o"} -> MaxBatch * g.heads * g.hdFull
    [] b[1] = "attn_partials"
         -> MaxBatch * g.heads * CeilDiv(g.maxSeq, Chunk) * (g.hdFull + 2)
    [] b[1] = "router_logits_dev" -> MaxBatch * g.experts
    [] b[1] = "logits_dev" -> MaxBatch * g.vocab
    [] b[1] = "pair_y_gu" -> MaxBatch * g.topk * 2 * g.inter
    [] b[1] = "pair_act_q8" -> MaxBatch * g.topk * g.inter
    [] b[1] = "pair_y_down" -> MaxBatch * g.topk * g.hidden
    [] b[1] \in {"moe_ids_dev", "pair_wts", "pair_bases", "pair_xidx", "pair_seq", "dense_idx"}
         -> MaxBatch * g.topk
    [] b[1] \in {"temps_dev", "rng_dev", "tok_out_dev", "pos_dev", "slot_dev"} -> MaxBatch

\* Mutant of EnsureKeys: only the first layer's widths.
EnsureKeysOfFirst(g) ==
  {Q8(k) : k \in {g.hidden, g.ffn, QRows(g, 1)}} \cup {Y(r) : r \in {g.hidden, 2 * g.ffn, QkvRows(g, 1)}}

\* The width-keyed buffers that ensure_buffers allocates before a capture.
EnsureKeys(g) ==
  {Q8(k) : k \in {g.hidden, g.ffn} \cup {QRows(g, l) : l \in Layers(g)}}
  \cup {Y(r) : r \in {g.hidden, 2 * g.ffn} \cup {QkvRows(g, l) : l \in Layers(g)}}

-----------------------------------------------------------------------------
\* Launches of n rows.  A "rows" launch makes row i of its output from row i of
\* its inputs; the others say what they do in Exec.

Rows(n, does, in, out, reach) ==
  [is |-> "rows", n |-> n, does |-> does, in |-> in, out |-> out, reach |-> reach]

RmsnormRows(x, w, y, dim, n) ==
  Rows(n, <<"rmsnorm", w>>, <<x>>, y, {<<x, n * dim>>, <<y, n * dim>>})
AddRows(x, a, dim, n) ==
  Rows(n, <<"add">>, <<x, a>>, x, {<<x, n * dim>>, <<a, n * dim>>})
QuantizeQ8(x, q8, k, n) ==
  Rows(n, <<"q8">>, <<x>>, q8, {<<x, n * k>>, <<q8, n * k>>})
GemvQ4rIdx(w, q8, y, rows, k, n) ==
  Rows(n, <<"gemv", w>>, <<q8>>, y, {<<q8, n * k>>, <<y, n * rows>>, <<DenseIdx, n>>})
GemvF32Rows(w, x, y, dim, rows, n) ==
  Rows(n, <<"gemv", w>>, <<x>>, y, {<<x, n * dim>>, <<y, n * rows>>})
GeluMulQ8(gu, q8, inter, n) ==
  Rows(n, <<"gelu_mul">>, <<gu>>, q8, {<<gu, n * 2 * inter>>, <<q8, n * inter>>})
DualCombine(w, x, shared, routed, dim, n) ==
  Rows(n, <<"combine", w>>, <<x, shared, routed>>, x,
       {<<x, n * dim>>, <<shared, n * dim>>, <<routed, n * dim>>})
\* The sections of a row of qkv: which one begins at an offset.
Section(g, l, offset) ==
  CASE offset = 0 -> "q" [] offset = QRows(g, l) -> "k"
    [] offset = QRows(g, l) + KvDim(g, l) -> "v"

\* Per-head launches on one section of the qkv rows, in place.
RmsnormHeads(g, l, w, offset, n) ==
  [is |-> "section", n |-> n, does |-> <<"rmsnorm", w>>, section |-> Section(g, l, offset),
   turns |-> FALSE, out |-> Y(QkvRows(g, l)), reach |-> {<<Y(QkvRows(g, l)), n * QkvRows(g, l)>>}]
RopeHeads(g, l, offset, n) ==
  [is |-> "section", n |-> n, does |-> <<"rope", g.swa[l]>>, section |-> Section(g, l, offset),
   turns |-> TRUE, out |-> Y(QkvRows(g, l)),
   reach |-> {<<Y(QkvRows(g, l)), n * QkvRows(g, l)>>, <<PosDev, n>>}]
KvAppend(g, l, offset, n) ==
  [is |-> "append", n |-> n, layer |-> l, section |-> Section(g, l, offset),
   in |-> Y(QkvRows(g, l)),
   reach |-> {<<Y(QkvRows(g, l)), n * QkvRows(g, l)>>, <<PosDev, n>>, <<SlotDev, n>>}]
GatherRows(g, l, offset, dst, n) ==
  [is |-> "gather", n |-> n, section |-> Section(g, l, offset), in |-> Y(QkvRows(g, l)),
   out |-> dst, reach |-> {<<Y(QkvRows(g, l)), n * QkvRows(g, l)>>, <<dst, n * QRows(g, l)>>}]

\* Norm, rope, append and gather of all sections in one launch.
QkvPrep(g, l, n) ==
  [is |-> "prep", n |-> n, layer |-> l, swa |-> g.swa[l], in |-> Y(QkvRows(g, l)), out |-> AttnOut,
   reach |-> {<<Y(QkvRows(g, l)), n * QkvRows(g, l)>>, <<AttnOut, n * QRows(g, l)>>,
              <<PosDev, n>>, <<SlotDev, n>>}]

\* Attention over the KV cache: as many chunks are launched as maxCtx positions,
\* or the window, need; the merge reads as many as the row's own positions need.
AttnDecodeBatch(g, l, maxCtx, n) ==
  LET window == IF g.swa[l] THEN g.window ELSE 0
      reach  == IF window > 0 /\ window < maxCtx THEN window ELSE maxCtx
  IN  [is |-> "attn", n |-> n, layer |-> l, window |-> window, chunks |-> CeilDiv(reach, Chunk),
       reach |-> {<<AttnOut, n * QRows(g, l)>>, <<ScO, n * QRows(g, l)>>, <<PosDev, n>>, <<SlotDev, n>>,
                  <<Partials, n * g.heads * CeilDiv(g.maxSeq, Chunk) * (HeadDim(g, l) + 2)>>}]

TopkRouter(g, n) ==
  [is |-> "topk", n |-> n, topk |-> g.topk,
   reach |-> {<<RouterLogits, n * g.experts>>, <<MoeIds, n * g.topk>>, <<PairWts, n * g.topk>>}]

\* lru_admit and promote_experts: a base for every pair, from which its expert can
\* be read.  How they come by it is in module GpuMoe.
AdmitAndPromote(g, l, n) ==
  Rows(n * g.topk, <<"base", l>>, <<MoeIds>>, PairBases,
       {<<MoeIds, n * g.topk>>, <<PairBases, n * g.topk>>})

\* Each pair's bank times the activations of the row that idx names.
GemvQ4rPtr(bank, idx, q8, y, rows, k, n, of) ==
  [is |-> "ptr", n |-> n, does |-> <<"expert", bank>>, idx |-> idx, in |-> q8, out |-> y,
   reach |-> {<<PairBases, n>>, <<idx, n>>, <<q8, of * k>>, <<y, n * rows>>}]

MemsetRouted(g, n) ==
  [is |-> "zero", n |-> n, out |-> RoutedOut, reach |-> {<<RoutedOut, n * g.hidden>>}]

ReducePairs(g, n) ==
  [is |-> "reduce", n |-> n, pairs |-> n * g.topk,
   reach |-> {<<PairYDown, n * g.topk * g.hidden>>, <<PairWts, n * g.topk>>,
              <<PairSeq, n * g.topk>>, <<RoutedOut, n * g.hidden>>}]

\* A token for every row, with noise from the row's generator, which is advanced.
SampleTokens(g, n) ==
  [is |-> "sample", n |-> n,
   reach |-> {<<LogitsDev, n * g.vocab>>, <<TempsDev, n>>, <<RngDev, n>>, <<TokOut, n>>}]

Alloc(b) == [is |-> "alloc", out |-> b, reach |-> {}]

-----------------------------------------------------------------------------
\* Execution.  A machine m holds mem, what each buffer's rows contain; kv, the
\* pools; alloc, the keyed buffers there are; and sound, whether no launch has
\* reached for a keyed buffer that is not there or beyond the end of one.

Stale == <<"stale">>
Get(m, b, i) == IF b \in DOMAIN m.mem /\ i \in DOMAIN m.mem[b] THEN m.mem[b][i] ELSE Stale
Over(rows, old) ==
  [i \in DOMAIN rows \cup DOMAIN old |-> IF i \in DOMAIN rows THEN rows[i] ELSE old[i]]
Put(m, b, rows) ==
  LET old == IF b \in DOMAIN m.mem THEN m.mem[b] ELSE <<>>
  IN  [m EXCEPT !.mem = [c \in DOMAIN m.mem \cup {b} |-> IF c = b THEN Over(rows, old) ELSE m.mem[c]]]

\* What gemv leaves of a row of qkv, and a section of it.
Part(row, s) ==
  IF row[1] = "sections" THEN row[CASE s = "q" -> 2 [] s = "k" -> 3 [] s = "v" -> 4]
  ELSE <<"section", s, row>>
Sections(row) == <<"sections", Part(row, "q"), Part(row, "k"), Part(row, "v")>>

Normed(w, t) == <<"rmsnorm", w, t>>
Turned(swa, pos, t) == <<"rope", swa, pos, t>>

\* Each of n rows puts its t into the k or the v pool of a layer, at its slot and
\* position; no two rows of a batch have the same slot.
AppendRows(m, l, n, what, t) ==
  LET pool == m.kv[l]
      rowsAt(s, p) == {i \in 1..n : Get(m, SlotDev, i) = s /\ Get(m, PosDev, i) = p}
  IN  [m EXCEPT !.kv[l] = [s \in DOMAIN pool |-> [p \in DOMAIN pool[s] |->
         IF rowsAt(s, p) = {} THEN pool[s][p]
         ELSE [pool[s][p] EXCEPT ![what] = t[CHOOSE i \in rowsAt(s, p) : TRUE]]]]]

\* The positions row i attends to.
Attended(pos, window) == (IF window > 0 /\ pos + 1 > window THEN pos + 1 - window ELSE 0)..pos

Attention(m, op, i) ==
  LET pos    == Get(m, PosDev, i)
      span   == Attended(pos, op.window)
      first  == pos + 1 - Cardinality(span)
      merged == 0..(CeilDiv(Cardinality(span), Chunk) - 1)
      partial(c) ==
        IF c >= op.chunks THEN {Stale}
        ELSE {LET at == m.kv[op.layer][Get(m, SlotDev, i)][p] IN <<"at", p, at.k, at.v>>
                : p \in {p \in span : (p - first) \div Chunk = c}}
  IN  <<"attn", Get(m, AttnOut, i), UNION {partial(c) : c \in merged}>>

\* The state of a row's generator: its seed, and how often it was advanced.
RngState(i, draws) == <<"rng", i, draws>>
AdvancedRng(state) == <<state[1], state[2], state[3] + 1>>

\* Greedy sampling takes the largest logit and looks at no noise.
GreedyTemp == <<"greedy">>
Sampled(logits, temp, state) ==
  IF temp = GreedyTemp THEN <<"argmax", logits>> ELSE <<"sample", logits, temp, state>>

Exec(m, op) ==
  CASE op.is = "rows" ->
         Put(m, op.out, [i \in 1..op.n |-> op.does \o [j \in DOMAIN op.in |-> Get(m, op.in[j], i)]])
    [] op.is = "section" ->
         Put(m, op.out,
             [i \in 1..op.n |->
                LET all == Sections(Get(m, op.out, i))
                    new == op.does \o (IF op.turns THEN <<Get(m, PosDev, i)>> ELSE <<>>)
                           \o <<Part(all, op.section)>>
                IN  [all EXCEPT ![CASE op.section = "q" -> 2 [] op.section = "k" -> 3
                                    [] op.section = "v" -> 4] = new]])
    [] op.is = "append" ->
         AppendRows(m, op.layer, op.n, op.section, [i \in 1..op.n |-> Part(Get(m, op.in, i), op.section)])
    [] op.is = "gather" ->
         Put(m, op.out, [i \in 1..op.n |-> Part(Get(m, op.in, i), op.section)])
    [] op.is = "prep" ->
         LET head(i, s, w) == Normed(w, Part(Get(m, op.in, i), s))
             turned(i, t)  == Turned(op.swa, Get(m, PosDev, i), t)
             keys   == [i \in 1..op.n |-> turned(i, head(i, "k", <<"k_norm", op.layer>>))]
             values == [i \in 1..op.n |-> head(i, "v", <<"none">>)]
             appended == AppendRows(AppendRows(m, op.layer, op.n, "k", keys), op.layer, op.n, "v", values)
         IN  Put(appended, op.out, [i \in 1..op.n |-> turned(i, head(i, "q", <<"q_norm", op.layer>>))])
    [] op.is = "attn" -> Put(m, ScO, [i \in 1..op.n |-> Attention(m, op, i)])
    [] op.is = "topk" ->
         LET row(p)  == (p - 1) \div op.topk + 1
             rank(p) == ((p - 1) % op.topk) + 1
             pairs   == 1..(op.n * op.topk)
             chosen  == Put(m, MoeIds, [p \in pairs |-> <<"id", rank(p), Get(m, RouterLogits, row(p))>>])
         IN  Put(chosen, PairWts, [p \in pairs |-> <<"wt", rank(p), Get(m, RouterLogits, row(p))>>])
    [] op.is = "ptr" ->
         Put(m, op.out, [p \in 1..op.n |->
               op.does \o <<Get(m, PairBases, p), Get(m, op.in, Get(m, op.idx, p))>>])
    [] op.is = "zero" -> Put(m, op.out, [i \in 1..op.n |-> <<"zero">>])
    [] op.is = "reduce" ->
         Put(m, RoutedOut, [i \in 1..op.n |->
               LET mine == FlattenSeq([p \in 1..op.pairs |-> IF Get(m, PairSeq, p) = i THEN <<p>> ELSE <<>>])
               IN  <<"sum", Get(m, RoutedOut, i),
                     [j \in DOMAIN mine |-> <<Get(m, PairYDown, mine[j]), Get(m, PairWts, mine[j])>>]>>])
    [] op.is = "sample" ->
         Put(Put(m, TokOut, [i \in 1..op.n |->
               Sampled(Get(m, LogitsDev, i), Get(m, TempsDev, i), Get(m, RngDev, i))]),
             RngDev, [i \in 1..op.n |-> AdvancedRng(Get(m, RngDev, i))])
    [] op.is = "alloc" -> [m EXCEPT !.alloc = @ \cup {op.out}]

Sound(g, m, op) ==
  \A r \in op.reach : (Keyed(r[1]) => r[1] \in m.alloc) /\ r[2] <= Size(g, r[1])

\* A launch of a program on the machine that the one before has left.
Step(g, m, op) == [Exec(m, op) EXCEPT !.sound = @ /\ Sound(g, m, op)]

Run(g, m, program) ==
  LET after[k \in 0..Len(program)] == IF k = 0 THEN m ELSE Step(g, after[k - 1], program[k])
  IN  after[Len(program)]

-----------------------------------------------------------------------------
\* The programs.  enqueue_stack and forward_batch enqueue the same launches but for
\* the qkv heads; forward_batch allocates keyed buffers where it first needs them.

QkvGemv(g, l, n) ==
  <<RmsnormRows(XRes, <<"attn_norm", l>>, ScA, g.hidden, n),
    QuantizeQ8(ScA, Q8(g.hidden), g.hidden, n),
    GemvQ4rIdx(<<"qkv", l>>, Q8(g.hidden), Y(QkvRows(g, l)), QkvRows(g, l), g.hidden, n)>>

\* forward_batch: the qkv heads, launch by launch.
QkvHeads(g, l, n) ==
  LET k == QRows(g, l)
      v == QRows(g, l) + KvDim(g, l)
  IN  <<RmsnormHeads(g, l, <<"q_norm", l>>, 0, n),
        RmsnormHeads(g, l, <<"k_norm", l>>, k, n),
        RmsnormHeads(g, l, <<"none">>, v, n),
        RopeHeads(g, l, 0, n),
        RopeHeads(g, l, k, n),
        KvAppend(g, l, k, n),
        KvAppend(g, l, v, n),
        GatherRows(g, l, 0, AttnOut, n)>>

OProj(g, l, n) ==
  <<QuantizeQ8(ScO, Q8(QRows(g, l)), QRows(g, l), n),
    GemvQ4rIdx(<<"o", l>>, Q8(QRows(g, l)), Y(g.hidden), g.hidden, QRows(g, l), n),
    RmsnormRows(Y(g.hidden), <<"post_attn", l>>, ScA, g.hidden, n),
    AddRows(XRes, ScA, g.hidden, n)>>

PreNorms(g, l, n) ==
  <<RmsnormRows(XRes, <<"ffn_norm", l>>, ScPf, g.hidden, n),
    RmsnormRows(XRes, <<"pre_ffw2", l>>, ScRi, g.hidden, n)>>

MlpAndRouter(g, l, n) ==
  <<QuantizeQ8(ScPf, Q8Preff, g.hidden, n),
    GemvQ4rIdx(<<"gate_up", l>>, Q8Preff, Y(2 * g.ffn), 2 * g.ffn, g.hidden, n),
    GeluMulQ8(Y(2 * g.ffn), Q8(g.ffn), g.ffn, n),
    GemvQ4rIdx(<<"down", l>>, Q8(g.ffn), Y(g.hidden), g.hidden, g.ffn, n),
    RmsnormRows(XRes, <<"none">>, ScA, g.hidden, n),
    GemvF32Rows(<<"router_wf", l>>, ScA, RouterLogits, g.hidden, g.experts, n)>>

Moe(g, l, n) ==
  LET pairs == n * g.topk
  IN  <<QuantizeQ8(ScRi, Q8Routed, g.hidden, n),
        TopkRouter(g, n),
        AdmitAndPromote(g, l, n),
        MemsetRouted(g, n),
        GemvQ4rPtr("gate_up", PairXidx, Q8Routed, PairYGu, 2 * g.inter, g.hidden, pairs, n),
        GeluMulQ8(PairYGu, PairActQ8, g.inter, pairs),
        GemvQ4rPtr("down", DenseIdx, PairActQ8, PairYDown, g.hidden, g.inter, pairs, pairs),
        ReducePairs(g, n),
        DualCombine(<<"post_ffw", l>>, XRes, Y(g.hidden), RoutedOut, g.hidden, n)>>

\* One layer of enqueue_stack.
StackLayer(g, l, maxCtx, n) ==
  QkvGemv(g, l, n) \o <<QkvPrep(g, l, n), AttnDecodeBatch(g, l, maxCtx, n)>>
  \o OProj(g, l, n) \o PreNorms(g, l, n) \o MlpAndRouter(g, l, n) \o Moe(g, l, n)

\* One layer of forward_batch when routing is on the device.
EagerLayer(g, l, maxCtx, n) ==
  <<Alloc(Y(QkvRows(g, l)))>> \o QkvGemv(g, l, n) \o QkvHeads(g, l, n)
  \o <<AttnDecodeBatch(g, l, maxCtx, n), Alloc(Q8(QRows(g, l))), Alloc(Y(g.hidden))>>
  \o OProj(g, l, n) \o PreNorms(g, l, n) \o <<Alloc(Q8(g.ffn)), Alloc(Y(2 * g.ffn))>>
  \o MlpAndRouter(g, l, n) \o Moe(g, l, n)

\* Final norm and lm_head.
LmHead(g, n) ==
  <<RmsnormRows(XRes, <<"final_norm">>, ScA, g.hidden, n),
    QuantizeQ8(ScA, Q8Preff, g.hidden, n),
    GemvQ4rIdx(<<"lm_head">>, Q8Preff, LogitsDev, g.vocab, g.hidden, n)>>

=============================================================================
