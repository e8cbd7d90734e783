# Verification of freeToken-rs

TLA+ modules, TLC model-checking runs and TLAPS proofs for freeToken-rs, the Rust
engine that serves a mixture-of-experts model from a GPU whose memory holds only a
part of the experts. All paths below are relative to `src/`.

    tlc  -workers 2 -config SlotCache.cfg MCSlotCache     # one run; the table below lists them all
    tlapm SlotCacheProofs.tla                             # the proofs of one module

## 1. The system

| component | state it keeps | operations | interacts with |
|---|---|---|---|
| `SlotCache` (`ft-core/src/lib.rs`) | key to slot map, slot table, LRU stamps, clock | `lookup`, `forget` | called by the host-routed MoE section |
| miss policy (`split_misses`, `qstar_fraction`, `recommend`) | none | splits the misses of a step between PCIe and CPU | MoE section (the split), tools (the fraction) |
| copy plan (`plan_runs`) | none | makes contiguous runs of misses | so far its own test only |
| host-routed MoE section (`Model::forward_batch`) | `pending_fetch`, the pair lists, the slot buffer on the device | one forward pass over all layers | SlotCache; compute stream; copy stream; host banks |
| device-routed MoE section (`forward_batch`, `enqueue_stack`, `lru_admit`, `promote_experts`) | the slot table, stamps and clock on the device, the promote list | the same pass without a host synchronize per layer | two streams joined by two events per layer |
| graph capture (`forward_sample_graphed`) | one executable graph per batch size | capture on first use, replay | streams, device-routed section |
| KV cache and attention | `seq_pos` per KV slot, K/V pools | append, windowed attention in chunks, merge | forward pass, worker (`reset_slot`) |
| worker (`ft-model/src/bin/serve.rs`) | free KV slots, active sequences | admit and prefill, emit, retain, decode | job channel; one event channel per request; the model |
| pump, one thread per request | decoder, stop matcher, token count | tokens to text, end of generation | worker's event channel; handler's text channel |
| handlers, SSE, validation (`serve.rs`, `openai.rs`) | none across requests | size the budget, start a generation, collect or stream it | job channel, text channel |
| text streaming (`Utf8Stream`, `StopMatcher`) | bytes and text held back | push, finish | pump |
| tokenizer, chat template | vocabulary | encode, decode, render | handlers, pump |
| GGUF reader (`ft-gguf`) | cursor over a mapped file | parse metadata and tensor table | model load |
| numeric code (`q4_0.rs`, `q6k.rs`, most kernels) | none | quantise, multiply, normalise, sample | forward pass |
| tools (`generate`, `btest`, `ft-bench`) | none | drive and measure the above | |

Hard to test in this code, and what the properties below aim at:

- three actors share the expert slots: the host assigns them, the copy stream fills
  them, the compute stream reads them, and only events and synchronizes order the three
  (`lib.rs:451` switches the automatic tracking off);
- the slot table changes *before* the slot is filled, so every early return in between,
  and every second use of the same slot, matters;
- LRU over several routes in one step, with the step's own slots to be spared;
- a device clock of finite width;
- a worker with many ways to end a sequence, each of which has to return one KV slot,
  close one channel and tell one client, while clients leave and passes fail;
- four warps of one kernel that must agree on what they read between two barriers;
- a CUDA graph that is recorded once and replayed with what it was recorded with, beside
  a path without a graph, over scratch buffers that layers, passes and both paths share
  and that are keyed by width;
- text that comes in pieces which respect neither characters nor stop sequences, on its
  way to a client through three stages that each hold something back;
- byte offsets computed in two places, by a writer (file, bank) and by a reader.

## 2. Modules

| module | what it is |
|---|---|
| `LruSet` | abstract: a set of at most `Capacity` resident keys with ages, no slots |
| `SlotCache` | ft-core's cache, one action per pass of `lookup` and for `forget`; `RefinesLru` says that it implements `LruSet` |
| `SlotCacheWindow` | `SlotCache` with a history of what was routed to since a key's last lookup |
| `HostMoe` | the host-routed section; extends `SlotCache` and adds the host's loop and the two streams |
| `GpuMoe` | the device-routed section: `lru_admit`, `promote_experts`, the events |
| `LruAdmitBlock` | `lru_admit` again, as the warps of its block execute it |
| `LruAdmitBlockLru` | `LruAdmitBlock` with a history of the launch that stamped a slot last; `BlockRefinesLruInStep` says that it implements `LruSet` |
| `DecodeStack` | the launches of a decode pass and the buffers they share, with symbolic values |
| `Decode` | the passes: `forward_batch`, `forward_sample`, `forward_sample_graphed`; extends `DecodeStack` |
| `Worker` | the batching worker, the pumps and the clients |
| `Reply` | one request: validation, `Utf8Stream`, `StopMatcher`, the event stream, the collected body |
| `Prompt` | `render_chat` and the tokenizer |
| `GgufFile` | the reader of model files |
| `ExpertBank` | the layout of the experts in host memory, and the integer part of the CPU kernels |
| `CopyPlan` | `plan_runs` |
| `SlotCacheProofs`, `HostMoeProofs`, `GpuMoeProofs`, `LruAdmitBlockProofs`, `DecodeProofs`, `WorkerProofs` | the theorems about the module each is named after (`SlotCacheProofs` also about `SlotCacheWindow`, `LruAdmitBlockProofs` about `LruAdmitBlockLru`) |
| `TextProofs` | the theorems about `Reply` and `Prompt` |
| `HostBankProofs` | the theorems about `ExpertBank` and `CopyPlan` |
| `MC*` | instantiate modules for TLC: symmetry, test data; `MCParts` puts those that share no state side by side |

`HostMoe`, `GpuMoe`, `Decode` and `Worker` are four views of one pass. `Worker` sees of it
that it succeeds, fails or panics, and that it moves positions; `Decode` sees every launch
but takes for granted that the MoE GEMVs read the right expert; this is what `HostMoe` and
`GpuMoe` are about, and `GpuMoe` in turn takes for granted that a block of `lru_admit`
behaves like one thread, which is the question of `LruAdmitBlock`. `Worker` leaves open
what is said to a client; that is `Reply`.

**SlotCache.** `map`, `slots`, `last_used` and `tick` are the struct's fields. `lookup` is
one `Lookup` (pass 1: stamp the hits) followed by one `Admit` per missing expert (pass 2),
so that the state between two evictions is visible. `todo`, `hits`, `misses` are its
local vectors and `grant` the slots in the result, which the caller goes on to use. The
router can rank a step's experts in any order, so `Admit` takes any missing expert next.
`hits_total` and `misses_total` feed a printed rate and are left out.

**HostMoe.** The actions follow the section line by line: `SyncAndRoute` (the one sync
per layer, top-k, the wait for the last fetching layer's event), per sequence
`LookupSequence`, `AdmitMiss`, `SplitMisses`, `ForgetMiss`, `FetchMiss`, `AddPairs`, then
`RecordFetch` and `LaunchPairs`; `FailPass` is every `?` that matters: at a copy, at the
event, at the wait, and at any other operation on the compute stream. A stream is a
queue. A copy and a GEMV each have a start and an end, and `slotData` is `None` between
the two ends of a copy, so that a read that overlaps a copy is a state and not an
argument. The host bank is read-only and always complete. Dense kernels keep their place
in the stream and touch no slot; they are not represented. A panic in the section ends
the worker thread and belongs to `Worker`.

**GpuMoe.** `lru_admit` goes through its entries one at a time, first `Touch`, then
`AdmitDuplicate`, `AdmitMiss` or `AdmitSkip`. `promote_experts` copies all entries of
one launch in any order. Stamps are `ClockBits` wide. The strided scan decides between
equal stamps, so any oldest slot can be the victim. The block is one thread here.
`promotes` counts the launches of `promote_experts` that the copy stream has to complete, and
the GEMVs start when it is zero: the event they wait for is the last on that stream. `FailPass` is
any `?` of the pass. The device completes what was enqueued before it, so the place of
the compute stream says which operation failed: before `lru_admit`, after it with the promote not
launched (`lib.rs:1424-1430`), with the promote launched but the wait for it missing
(`lib.rs:1432-1433`), or after the wait. The second makes the pass `cutShort`, the third too if the promote
has not landed: it reads `promote_src` and `promote_dst` block by block, while the next
`lru_admit` may write them, and what it then copies is left open.

**LruAdmitBlock.** A warp has its own place (`warpPc`), entry (`warpT`) and step of the
reduction; `Barrier` opens when every warp that has not left waits at one, whichever it
is, since barriers of one block are the same barrier. `mark` is `promote_src_key`, read
at the head of the loop and overwritten by thread 0; `red` is the shared memory of the
reduction. A warp is in lockstep and stands for its lanes. `LruAdmitBlockLru` looks at its slot
table as `SlotCache` is looked at, as a set of experts with ages (`LruSet`). There the clock
advances with every touch and not with every step, so the age of an expert is the number of the
launch that stamped its slot last (`touchedIn`), a launch is a `Touch` and an admission an `Enter`.

**Worker.** `pc` is the place in the worker's loop. The emit loop takes one sequence at a
time, since pumps run between two of its sends; `kept` and `ended` are the sequences it
has gone through so far, the latter those that `retain` is about to drop. `evq[r]` with `txOpen[r]`, `rxOpen[r]` is
the `mpsc` channel of request `r`. A token is one that ends the generation or one that
does not; whether its text is empty and whether a stop sequence matches is a choice.
The handler is its receiving end only: `Leave` drops it.

**DecodeStack and Decode.** A value is the term that says how it was computed, so two
values are equal only when the same kernels made them of the same inputs. A launch is a
record of what it reads and writes, for how many rows, and how far it reaches;
`Run` executes a sequence of them on `machine`, which has the buffers, their sizes and
the KV pools, and notes in `machine.sound` whether a launch overran a buffer or asked
for one that was not there. `StackLayer` and `EagerLayer` are the launches of
`enqueue_stack` and of `forward_batch`, in the order of the code. `Decode` has the steps of
a pass as actions: upload, drain, begin of capture, enqueue, end of capture, launch, each layer, the
head, the download; `DriverFault` and the second half of `EndCapture` are the `?` at each of
them. Scratch buffers are emptied of meaning when a pass ends, so a value that survives
from another pass would show. One buffer goes on from pass to pass, `rng_dev`: the state of a
row's generator is its seed and how often the sampling kernel has advanced it. On a stream that
a failed pass has left capturing, eager launches and copies compute nothing, and the pass fails
at its first synchronisation at the latest (`StreamRefuses`); only a `forward_batch` that
downloads nothing comes to its end. Before a slot is used after a failure it is reset, as
`Worker` does.

**Reply.** `Accept` validates, and sizes and opens the answer; `TakeToken`, `TakeDone` and
`TakeFailure` are the pump's loop with the whole of `push` and `finish`; `Deliver` is what
`sse` or `collect` makes of one output; `ClientLeaves` drops the handler. A character of
three bytes stands for all that are longer than one. `Utf8Push` covers both
of the decoder's cases: an incomplete end is kept, anything invalid is replaced.

**Prompt.** `Refuse`, `HoldSystem`, `RenderTurn` and `EndChat` are the loop of `render_chat`;
`CutSpan`, `MergePair` and `EmitSpan` that of `encode_with_specials` and `encode`, one merge
at a time. `DecodeIds` is `decode_bytes`.

**GgufFile.** `todo` is what `open` still has to read: its loops and the recursion of
`value`, without a recursive operator. A read past the end leads to `Truncated`, from wherever
the reader is.

**ExpertBank.** A byte of the bank is named after the byte of the file it comes from, so
the bank shows what was put where. `ExpertAt` is the offset of an expert and `ExpertBytes` what
repacking it writes, as pairs of a place and a byte; `RepackExpert` takes the experts of a layer in any
order, as the parallel iterator does. `MultiplyBlock` computes one block as the scalar and
as the AVX2 kernel do, in the lanes of the latter and with its 16-bit saturation.

## 3. Runs

| run | expect | asks |
|---|---|---|
| `slot_cache` | pass | is the cache's state consistent, its result usable, its policy LRU? |
| `slot_cache_too_small` | violation | is "own hits are never evicted" unconditional? |
| `host_moe_single` | pass | does one sequence's pass read only filled slots, and how late can copies be? |
| `host_moe_batch` | pass | with slots handed on under copies in flight, is the mapping right in the end, and every expert computed once? |
| `host_moe_batch_race` | violation | the first question, for two sequences |
| `host_moe_failed_fetch` | violation | the first question, after a pass that failed |
| `worker` | pass | slots, positions, terminal events and cancellation with all ways to fail |
| `worker_live` | pass | exact positions and usage; is everybody answered and everything given back? |
| `gpu_moe` | pass | the device-routed section while the clock does not wrap |
| `gpu_moe_clock_wrap` | violation | the same, when it wraps |
| `lru_admit_block` | violation | do the warps of one launch keep to one another? |
| `parts` | pass | each of `Prompt`, `Reply`, `GgufFile`, `ExpertBank`, `CopyPlan`, `Decode`, `LruAdmitBlockLru` by itself |

`parts` is one run for seven parts that share no variable. A behaviour picks a part
and follows it, and the others stay in an initial state, so that the number of states is the
sum and not the product of theirs. `LruAdmitBlock` is in both runs: as long as no warp has
skipped an entry, `EntriesKeepTheirSlotsInStep` and `BlockRefinesLruInStep` hold in `parts`.

Bounds, and why they are enough:

- `slot_cache`: two layers of three experts are six keys for three slots, steps of one or
  two experts, five lookups: free slots run out in the second lookup and every later one
  can evict across layers, after any pattern of hits and of forgotten misses. 213 356
  states. `MaxTick` bounds the lookups.
- `host_moe_single`: two layers and three slots, three passes (`MaxTick` 6), half of the
  misses fetched, so that a lookup has fetched and forgotten misses at once. 2 896 400
  states. `host_moe_batch`: one layer, two slots for two experts per sequence, batches of
  one and two, six lookups, so that a slot changes hands up to four times while its first
  copy is queued. 2 098 772 states.
- `worker`: three requests over two slots is the least in which one waits while two are
  active, and a slot is used again. Prompts of one token, a budget of two in a context of
  three, so that a slot is filled to the brim. About 1.3 million states. `worker_live`:
  two requests and one slot, prompts of one and two, budgets of none and two, so that the
  second is cut to the room. About 85 000 states.
- `gpu_moe`: four layers executed over two, two entries with any of three experts, three slots: the
  second layer evicts, the third hits and evicts, duplicates occur in all of them, and two passes can
  fail and be followed by others. Two sequences of one expert each are the entries with the
  fewest restrictions. At most eight touches, fewer than 2^4. 6 869 033 states. `gpu_moe_clock_wrap`: stamps of
  three bits.
- `lru_admit_block`: two warps of two lanes are the least in which one can be late and a
  reduction has a step in the warp and one across warps. Six entries with one expert
  twice over six slots: the launch fits. With the code's four warps the same is found.
- `parts`, about 391 000 states in all:
  - `Prompt`: all texts of up to four letters out of plain ones, a space, a special, one of two
    bytes and one with no token; four ranked merges that overlap. Conversations of up to
    three messages of all roles.
  - `Reply`: up to four tokens of one or two bytes or a third of a character; stop lists
    with sequences that overlap themselves and each other, end in a wide character, are
    empty, or are too many. Four tokens complete a character and go on after it,
    or match a stop sequence after a false start.
  - `GgufFile`: nested arrays, two tensors, alignments 8, 16, 32 (absent) and 0, a
    partial block, an unknown type, a wrong value type and a wrong magic, each cut short
    at a dozen lengths.
  - `ExpertBank`: blocks of 8 and an alignment of 4 for 32 and 16; the ratio of the two,
    which the offsets depend on, is the code's. Three blocks per row need padding. Two
    layers of two experts. Blocks of extreme weights and activations, where saturation would
    show.
  - `CopyPlan`: all lists of up to three misses of five experts.
  - `Decode`: two models, one with a sliding-window and a full layer of different head
    sizes, one whose widths coincide; two KV slots, a context of two, three passes of any kind
    and batch, one fault, one reset; the first sequence of one slot and the second of the other are greedy, the rest have
    temperatures. One position per attention block, so that two positions
    are two blocks, are merged, and one is out of the window. Three passes are a captured
    one, a replay or failure, and a pass that would see what was left: a capture, a sample
    wanted, a generator that was advanced.
  - `LruAdmitBlockLru`: three slots and four experts, three launches of one to four entries out
    of seven: the first fills the slots or leaves some free, the later ones hit, take a free slot, or
    evict, and two of them repeat an expert.

Deadlock is not checked: the models stop at their bounds (lookups, requests, layers, passes)
or at the end of what they compute, and a worker without jobs is idle. In `LruAdmitBlock` the
barriers could wait for each other; the kernel's last barriers open as warps leave, so
it ends even when they are out of step. That no client waits for ever is what
`EveryRequestAnswered` and `EveryRequestReleased` state.

Each property of a passing run also has a mutant: an operator, marked as such in the
modules, that changes a modelled definition the way a plausible bug would, and under
which TLC finds the property violated.

## 4. Properties

- `MapMatchesSlots`, `GrantsSurviveTheStep`, `WorkingSetStays`, `RefinesLru`: the cache as
  its callers need it. `WorkingSetStays` is the reason for LRU: a working set that fits is
  paid for once.
- `GemvReadsItsExpert`: while a GEMV runs, each slot it reads holds the expert it is for,
  from start to end. It holds for one sequence as long as no pass was cut short between a
  lookup and the wait for its copies (`GemvReadsItsExpertUnlessCutShort`, with `cutShort` as history).
- `CopiesLagTwoLayers`: no copy is awaited in its own layer, and yet the copy stream is never
  behind by more than the copies of two layers. An event recorded too early breaks it, and so does a
  wait that is left out.
- `MappedIsFilled`: a mapped key is in its slot, or the last copy queued for the slot is its
  own. It holds in batches too.
- `EveryRoutedExpertOnce`: each routed expert of each sequence is one GPU pair or one CPU
  pair.
- `StepKeepsItsSlots`, `PromotesAreDisjoint`, `DeviceGemvReadsItsExpert`,
  `DeviceMappedIsFilled`: the same for the device-routed section. The last two hold until a pass is
  `cutShort`, the others always.
- `SlotsAccountedFor`, `NeverContextOverflow`, `TerminalEventIsLast`,
  `CancelledStopsAtOnce`, `PositionsMatchTokens`, `LengthMeansBudgetSpent`: the worker.
- `EveryRequestAnswered`, `EveryRequestReleased`: liveness.
- `EntriesKeepTheirSlotsInStep`: the slots of all entries of a launch are theirs when it
  ends, with the warps in any order between barriers, as long as none has overtaken the others.
- `BlockRefinesLruInStep`: the device evicts as the host does, by the same abstract specification: only
  when full, then an expert that was last touched no later than any other, and every new
  expert of a launch is in before the next launch. `BlockRefinesLru` is the same without exception.
- `AnswersFollowTheHistory`: the logits and the greedy tokens that a pass returns for a sequence
  are the model's function of that sequence's tokens, and of nothing else: no other row, no
  earlier pass, no earlier tenant of the KV slot, no failed pass, no time of capture. At a
  temperature above 0 a token depends on one thing more: the row's generator, in the state its
  seed has after one step for each earlier pass that sampled the row. It also says that `enqueue_stack`
  and `forward_batch` compute the same. The reference is `LogitsOf`, a definition over the
  history, without buffers.
- `BuffersSuffice`: what a capture may rely on.
- `RefusedOnlyAfterABrokenCapture`, `LogitsComeBack`: a failed pass does only the harm section 5
  names. The first tells a failure between the begin and the end of a capture from one at any
  other place of a graphed pass, after which no capture may be open.
- `TokensKeepTheText`, `PiecesFollowTheRanks`, `EveryMessageIsSaidOnce`: a prompt. The
  reference for the merges applies each rank in turn to all places; the code looks for the
  best pair each time.
- `CharactersComeWhole`, `StopsCutTheText`, `HeldBackOnlyWhatMayChange`,
  `AnswerIsTheReply`: a reply, against the same over the whole text.
- `TensorsAreWhereTheyWerePut`, `GemvReadsTheFilesRows`: readers find what writers put.
- `KernelsAgree`: the scalar and the AVX2 dot product are the same integer.
- `RunsCopyEachMissOnce`: each miss is in one run at its slot, runs are as long as can be.

**Fairness.** Only `Worker!FairSpec` has any: weak fairness of the worker thread and of each
pump, which the operating system schedules; clients need neither submit nor leave. A pump is
a thread of the runtime's blocking pool, and fairness assumes that the pool (512 threads) has one for it.
The other properties are safety properties and hold for streams and hosts that are arbitrarily late.

## 5. What the violations show

1. **Fewer slots than experts per step** (`slot_cache_too_small`). The comment on `lookup`
   promises without condition that a step's own hits survive; it takes `TopK <= Capacity`,
   which nothing enforces: the number of slots is a command-line argument.
2. **A hit on a copy in flight** (`host_moe_batch_race`). In a batch, sequence 2 routes to
   an expert that sequence 1 has missed in the same layer. `lookup` now calls it a hit and
   its GEMV reads the slot, while the copy is awaited only in the next layer.
3. **Mapped but never filled** (`host_moe_failed_fetch`). When a copy or its event fails,
   `?` leaves the misses mapped; the next pass reads them as hits.
4. **The device clock wraps** (`gpu_moe_clock_wrap`). After 2^32 touches, at some 240 per
   token about 18 million tokens, a fresh hit bears the smallest stamp and is the next
   victim of its own step.
5. **A warp that reads late** (`lru_admit_block`). In the duplicate branch thread 0 writes -1
   to `promote_src_key[t]` (`q4.cu:1399`) while a warp may still have to read -2 there. It
   then skips the entry with its barrier, meets the others one barrier early
   from then on, and scans the stamps before the last admission is in them. In the trace
   experts 4 and 5 of one launch get the same slot. It takes a batch, since one
   sequence's experts are distinct.

Noticed while modelling. The model does what the code does in each case, and the
properties are stated around them:

- A device-routed pass that fails between `lru_admit` and the landing of its promote leaves experts
  mapped whose slots are not filled, as in item 3, or a promote that the next `lru_admit`
  overtakes (`cutShort` in `GpuMoe`).
- `forward_sample` leaves `want_sample` set when its pass fails, and the next
  `forward_batch` called for its logits returns an empty vector (hence the hypothesis in
  `LogitsComeBack`). No program of the repository mixes the two: the server
  never asks for logits, `btest` asks for nothing else.
- A failure in `enqueue_stack` leaves the stream capturing; all later passes that return anything
  are refused (hence `RefusedOnlyAfterABrokenCapture`).
- The generators belong to rows of the batch, not to sequences, and no request seeds them: what is
  sampled at a temperature depends on the row and on how often it was sampled before.
- An incomplete character that is followed by invalid bytes *in the same push* is replaced,
  although its rest might come with the next (`mangled`, hypothesis of `CharactersComeWhole`).
- With stop sequences that overlap each other, which one matches can depend on how the
  text was cut into tokens. `StopsCutTheText` claims what holds for any cut.
- The doc of `render_chat` says that system messages "are prepended to the first user turn"
  (`openai.rs:161-163`). The code does so with those before that turn. One that comes later goes into the
  next turn of the user, or at the end into one of its own, which a comment there
  says (`openai.rs:194`). `EveryMessageIsSaidOnce` states what the code does.
- U+2581 in a prompt comes back as a space. An alignment of 0 in a file panics in `div_ceil`.

## 6. Proofs

TLAPS proves the following for all values of the constants that satisfy the named
`ASSUME`s. These say that sizes are natural numbers (and not zero where the program could
not start), that sets of experts are finite, that `None` is none of the things it is used
beside, in `Reply` that letters are not bytes of longer characters, in `Prompt` that merges
join and make tokens of the vocabulary and that markers and role names are written in
characters no message uses, and in `Decode` that there are heads of either kind and KV heads in every layer
(the code divides by their numbers), that at least one expert is chosen, and that the
narrower heads are not wider than the wider ones; the runs evaluate them.

A theorem with a further hypothesis names it. None of these is checked by the code, and
the runs of section 5 show that the first four are needed: `TopK <= Capacity` (item 1), `Batch = 1`
(item 2), a clock that has not wrapped (item 4), experts that no two sequences share (item 5). The fifth, `MergesBuildOnEarlierOnes`, is explained below.
`EntriesFit` is item 1 for the kernel. The default of 1024 slots satisfies both by far;
`slots` can be set lower.

| module | theorem | says | hypothesis |
|---|---|---|---|
| `SlotCacheProofs` | `CacheTypeCorrect`, `MapMatchesSlotsAlways` | `[]CacheTypeOK`, `[]MapMatchesSlots` | |
| | `GrantsSurvive` | `[]GrantsSurviveTheStep` | `TopK <= Capacity` (5.1) |
| | `CacheImplementsLru` | `CacheSpec => RefinesLru` | |
| | `WorkingSetStaysAlways` | `[]WorkingSetStays` | |
| `HostMoeProofs` | `HostInvariance`, `HostTypeCorrect` | `[]HostInv`, `[]TypeOK` | |
| | `HostUsesTheCache` | `Spec => CacheSpec` | |
| | `RoutedExpertsOnce` | `[]EveryRoutedExpertOnce` | |
| | `MappedFilled` | `[]MappedIsFilled` | `TopK <= Capacity` |
| | `GemvReadsRightWeights` | `[]GemvReadsItsExpertUnlessCutShort` | the same, and `Batch = 1` (5.2) |
| `GpuMoeProofs` | `Invariance`, `GpuTypeCorrect` | `[]IInv`, `[]TypeOK` | `EntriesFit`, `ClockSuffices` (5.4) |
| | `StepKeeps`, `PromotesDisjoint`, `DeviceMapped`, `DeviceGemvReads` | `[]StepKeepsItsSlots`, `[]PromotesAreDisjoint`, `[]DeviceMappedIsFilled`, `[]DeviceGemvReadsItsExpert` | the same |
| `LruAdmitBlockProofs` | `BlockInvariance` | `[]BlockInv` | |
| | `InStepEntriesKeepTheirSlots` | `[]EntriesKeepTheirSlotsInStep` | |
| | `UnsharedEntriesKeepTheirSlots` | `[]EveryEntryKeepsItsSlot` | `NoneShared` (5.5) |
| | `BlockImplementsLruInStep` | `TouchedSpec => BlockRefinesLruInStep` | |
| | `BlockImplementsLru` | `TouchedSpec => BlockRefinesLru` | `NoneShared` (5.5) |
| `DecodeProofs` | `CaptureAlwaysEnds`, `LogitsAreNotWithheld` | `[]RefusedOnlyAfterABrokenCapture`, `[]LogitsComeBack` | |
| | `BuffersAlwaysSuffice` | `[]BuffersSuffice` | |
| | `AnswersAlwaysFollowTheHistory` | `[]AnswersFollowTheHistory` | |
| `WorkerProofs` | `WorkerInvariance`, `WorkerTypeCorrect` | `[]WorkerInv`, `[]TypeOK` | |
| | `SlotsNeverLeak`, `PositionsAreTokens`, `ContextNeverOverflows`, `EndsAreFinal`, `LengthIsExact`, `CancelledSoon` | `[]SlotsAccountedFor`, `[]PositionsMatchTokens`, `[]NeverContextOverflow`, `[]TerminalEventIsLast`, `[]LengthMeansBudgetSpent`, `[]CancelledStopsAtOnce` | |
| `TextProofs` | `ReplyInvariant`, `StopsAlwaysCutTheText`, `AlwaysHeldBackForAReason`, `CharactersAlwaysComeWhole`, `AnswerAlwaysIsTheReply` | `[]ReplyInv`, `[]StopsCutTheText`, `[]HeldBackOnlyWhatMayChange`, `[]CharactersComeWhole`, `[]AnswerIsTheReply` | |
| | `TokensAlwaysKeepTheText`, `MessagesAreAlwaysSaidOnce` | `[]TokensKeepTheText`, `[]EveryMessageIsSaidOnce` | |
| | `PiecesAlwaysFollowTheRanks` | `[]PiecesFollowTheRanks` | `MergesBuildOnEarlierOnes` |
| `HostBankProofs` | `KernelsAlwaysAgree`, `GemvAlwaysReadsTheFilesRows`, `RunsCopyTheMisses` | `[]KernelsAgree`, `[]GemvReadsTheFilesRows`, `[]RunsCopyEachMissOnce` | |

Each module states its inductive invariant as a conjunction of named parts, has one
lemma that a step keeps each part, with a step per action, and derives the properties from
the invariant.

**SlotCache.** `CacheTypeOK` is inductive as it stands; it includes that no stamp is ahead
of the clock. `MapMatchesSlots` is inductive only together with `TodoUnmapped`, that an expert
still to be admitted is not mapped: otherwise `Admit` could give a key a second slot and leave
the first behind. For the grants, `GrantInv` says that the slots granted so far bear the
current tick, that no other slot does, and that granted and missing keys together are at most
`TopK`. When one more is missing, fewer than `Capacity` slots bear the current tick
(pigeonhole, lemma `VictimNotGranted`), so some slot is free or older and a least recently
used slot is not a granted one. For `WorkingSetStays` the invariant relates windows to stamps:
whatever is in a slot with a stamp no older than k's is in k's window. When k is evicted, its
window holds what is in all the other slots, k, and the key that comes in: more than
`Capacity` keys. The refinement goes step by step: under the mapping `Age` a `Lookup` is
`Touch`, an `Admit` enters a key with or without an eviction, a `Forget` drops one or
changes nothing. It needs that an occupied slot bears a stamp other than 0 (`RefineInv`),
for `Age` is 0 for keys that are not resident.

**HostMoe.** `HostInv` adds to the types what their guards rely on: the compute stream is a
queue whose head is what is running, a wait is for copies already issued, the misses are
split into those to fetch and those to forget, and the routes of sequences that are not in the
batch are empty. Every step of the section is a step of the cache or leaves it alone, so
`GrantInv` and all theorems about the cache hold inside the pass, which is what the rest is
built on. `PairsInv` accounts for the routed experts of a sequence between the lookup and
its pairs: hits, misses and those already given to the CPU are together what was routed,
and only forgotten misses are both a miss and a CPU pair. `FilledInv` follows the
*last* copy queued for a slot. A copy enters the queue for a key that was granted the slot
in this lookup and still has it; a key loses its slot only to one whose copy comes after. A
miss that is mapped but not yet enqueued (`AboutToFill`) is excused until it is. It holds for any
batch. `OneSequenceInv`, for one sequence, says why a GEMV overlaps no copy into its
slots: every copy in the queue is either awaited by the operation at the head of the compute
stream, or one of this layer's misses, whose slots are not those of its hits. With
two sequences the second part is false, and that is violation 5.2.

**GpuMoe.** `EntriesFit` is `Batch * TopK <= NSlots`, `ClockSuffices` is that the launches
made so far cannot have wrapped the clock (`MaxLaunch * Batch * TopK < 2^ClockBits`).
`ClockInv` counts: the clock and the entries still to be admitted are at most the entries seen.
`LruInv` says that the slots of the entries placed so far are younger than all others; as
there are fewer of them than slots, an oldest slot is none of them. That a missing entry whose
expert is mapped by now shares it with an entry already placed makes `AdmitDuplicate` right, and
`FetchInv` that each expert is fetched once. `StreamsInOrder` says that the copy stream
is idle while GEMVs run and, until a pass is cut short, works only while the compute stream waits for it, and `DataInv` where a mapped expert's weights
are: in the slot, or among the copies still to come.

**LruAdmitBlock.** `InStep(t)` says where the warps of a block in step can be: they work on one entry
t, in one of five phases (`Walking`, `Answering` a duplicate, `Scanning`, `Reducing`, `Admitting`),
and those that are late have nothing to do before t. In the reduction what a warp has found is the oldest
of a class of slots, those equal to its number modulo the reach of the step (`Found`,
`Reach`); the reach is 1 in the end, and warp 0 has an oldest of all slots. The entries fit the slots, and
those that hold an expert of this launch are younger than all others (`Younger`), so the victim is none of
them (pigeonhole). A warp overtakes only at an entry that thread 0 has answered as a duplicate meanwhile:
that takes an expert that is shared (`Repeats`), hence `UnsharedEntriesKeepTheirSlots`.
For the refinement, `TouchInv` says that stamps are in the order of the launches and that a slot is
unstamped just when it holds no expert. So the oldest slot is free just when fewer experts than slots are
resident (`OldestFreeMeansRoom`), and otherwise holds one of an earliest launch.

**Decode.** `CaptureInv` says in which places of a pass the stream is capturing, or that a graphed pass
has failed in one of these; `WantInv` does the same for `want_sample`. `BuffersInv` says which buffers are there
when: those of the loaded model always, those under a key once `EnsureKeys` or an eager layer has made
them, each with room for `MaxBatch` rows of its width. Then a program of launches that fits its
buffers (`Room`) leaves the machine sound and the buffers in place. What a fold over a sequence of
launches comes to is proved from a recursive function on its prefixes, and that it holds for all
prefixes from the shortest for which it does not.

`AnswersAlwaysFollowTheHistory` takes three steps. First, what each launch writes, row by row, and
that it leaves all else (`OnlyWrites`, `Made1`, `AppendDone`, ...); attention chunk by
chunk is attention over the window because the chunks of the launch, whose number comes from the
longest context, cover every position of a row's window once. Second, what a layer computes:
`LayerDone` says it once, and `StackLayerDoes` and `EagerLayerDoes` prove it for the launches of
`enqueue_stack` and for those of `forward_batch`, which differ in order, buffers and kernels. Third,
`AnswersInv` for the passes: of every slot that needs no reset, the pools hold the key and the
value of each layer at each position, as the model computes them from the tokens up to
it (`Caches`), and the position is the number of tokens, or one more between the sampling of a
batch and its download (`Ahead`); of every row under way, the input of the next layer
is the model's for its history and the new token (`RowsInv`). The slots of a batch differ,
so no row writes where another reads. A pass that fails leaves `unset` slots behind, of which
nothing is said until their reset. The generator of each row has been advanced as often as the row
was sampled (`RngInv`), which holds in every state with a model, since nothing but the sampling
kernel writes to it. Once a stream was left capturing and no pass is recording (`Lost`), buffers and
history part, and what holds instead is that nothing more is answered with rows (`Silent`). A captured pass has the bound `maxSeq` baked in, a
replay the same, so both cover every context that fits.

**Worker.** `PlaceInv` says where a request can be: not made, queued, in prefill, active, done,
and in only one of these; while a step emits, the sequences gone through are `kept` or
`ended`, never both. `SlotInv` is `SlotsAccountedFor` without cardinalities. `PosInv`
holds between any two sends: a token that was sent but not yet given to the model is `Due`.
`EventInv` says that a sequence the worker goes on with has only tokens in its channel, so that
the end it gets is the first. `BudgetInv` adds up what a pump has received, what is in its
channel and what the worker may still send. `LateInv` says that a sequence without a receiver
is found out at the next send. The worker's panic empties its queues and drops all senders, and it is
kept by every part.

**Reply.** `MatchInv`: what was said and what is held back are the text so far, it is free of stop
sequences, and every beginning of a stop sequence at its end lies in what is held back
(`Covers`). Hence a stop sequence that is completed later begins in what is held back,
none ever begins in what was sent, and cutting at the first of them loses nothing. `DecodeInv`: the
bytes before the pending ones do not end inside a character and the text is their
decoding. Such bytes are decoded by themselves whatever follows (`UnitsOfBoth`), so that
the next push can begin where they end. For the answer, `Underway` says that what was sent is in
the body or still in the channel, in order, and that the end, if it was sent, is the last thing
there. `Units` is a recursive function on byte strings. That it
exists is proved, since a definition by `CHOOSE` guarantees nothing, and what holds for all
of them is proved by contradiction from the shortest one for which it does not
(`LeastNumber`, from the library's theorem on well-founded subsets). This proof found that two arms of
the `CASE` in `Unit` overlapped, which TLC, taking the first, had not shown.

**Prompt.** `KeptInv`: what the tokens so far decode to, what is kept of the span in work, the special
after it and the rest are together what is kept of the text; `SpanInv` says that merging does not change what the
pieces of a span decode to, since a merge yields the token of the joined text. `SaidInv`: the turns
rendered so far say what they have to (`Told`), and the system text that waits is what they left
(`Held`), each up to what is not a letter of a message. `RanksInv`: merging the pieces so far once in
the order of the list comes to what it comes to from the characters of the span. The best pair is
what merging in turn would join first, and joining it makes no earlier merge possible.
That takes the hypothesis: no pair is listed twice and what a merge makes is part of later
pairs only, as training makes the list. With (ab, c) listed before (a, b), the loop makes abc of a, b, c
and merging in turn stops at ab, c. The list of the run satisfies the hypothesis.

**ExpertBank.** A pair of products never leaves 16 bits (`NeverSaturates`), so the AVX2 sum is a sum
of the same eight integers. For the layout, an offset is a number with mixed-radix digits
(expert, half, row, block, byte), and places that differ in a digit differ (`OneDigit`,
applied from the expert down). `BankInv` says that whatever is loaded is in place: a later
`RepackExpert` writes elsewhere.

**CopyPlan.** The runs come in the order of the experts with a gap between each two (`ApartInv`), all
before the next miss to be planned (`BehindInv`); an expert planned is in one of them at its slot
(`CoverInv`), and one that is not planned is in none (`UnplannedInv`).

**What stays with TLC, and why.**

- Liveness (`EveryRequestAnswered`, `EveryRequestReleased`): the prover does not
  support reasoning about fairness and `ENABLED`.
- `CopiesLagTwoLayers`: it would need the copies in the queue assigned to the layers they are of,
  which the model does not record.
- `TensorsAreWhereTheyWerePut`: the reference is a fold over the fields of a file. The library's
  induction theorems cannot be instantiated here; the detour by a least counterexample that
  `TextProofs` and `DecodeProofs` take is possible and long.

## 7. Not modelled, and the plan

What is left to prove, in this order:

1. `TensorsAreWhereTheyWerePut`, from what a writer of the format writes.
2. That the one thread of `GpuMoe` implements `LruSet` while its clock does not wrap, as the
   block in step does.

Not modelled, and why:

- Floating-point arithmetic: scales and rounding of the quantisers, q6_k, norms, rope,
  softmax, sampling, `qstar_fraction`, `recommend`. TLC cannot evaluate it, and the repository's
  parity tests compare it with references. `DecodeStack` keeps what goes in and what comes
  out, the generators' states included, `ExpertBank` the integer part. The seeds of the rows and
  the offsets of a block's threads are multiples of one constant (`lib.rs:672`, `q4.cu:1259`), so that
  the first noise of neighbouring rows is the same, shifted by one candidate; `RngState` says whose
  state it is, not that the noise of two rows is independent.
- The inside of the kernels other than `lru_admit` and the wrappers that only
  benchmarks and tests call. Attention is modelled by the positions its blocks cover and
  their merge.
- The `FT_SKIP_*` switches, which leave kernels out to time the others, are taken as unset.
- Sums of sizes in a GGUF file that overflow `usize`.
- JSON field names, CORS, the API key, the model list, wording of errors; the driver's
  allocation and mapping of host memory. They keep no state.
- The tools (`generate`, `btest`, `ft-bench`), which drive what is modelled.
