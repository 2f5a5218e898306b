# Verification of the inference stack of the 2x RTX 3090 recipes

TLA+ models, model-checking runs and machine-checked proofs for the parts of this repository that
schedule work, share memory and overlap operations. `OV` below stands for
`src/qwen3.8-flash-next/vllm/vllm-patches/vllm-overlay`, the overlay of vLLM that the flash-next
recipe installs.

## 1. Inventory

| component | state | operations | interacts with | what is hard | what makes it correct |
|---|---|---|---|---|---|
| **Request scheduler**, `OV/v1/core/sched/scheduler.py` | three queues, per-request token counters, block ownership, deferred frees, step sequence numbers | `schedule`, `update_from_output`, `add_request`, `finish_requests`, `reset_prefix_cache` | block pool, KV connector, worker, client | steps overlap: output, preemptions, aborts, resets and remote loads interleave; speculative tokens are guessed and rolled back | each position is delivered once and in order; counters leave no residue; a block in use has one owner; requests finish |
| **Prefetching weight offloader**, `OV/model_executor/offloader/prefetch.py` | buffer slots, an event and two flags per layer, a captured graph | forward hook (wait, compute, prefetch), capture, replay, join | CUDA streams, `cudagraph_utils.py` | two streams ordered by events only; eager passes and graph replays mix | a layer reads its own complete weights |
| **GPU model runner and worker**, `OV/v1/worker/gpu/{model_runner,cudagraph_utils}.py`, `gpu_worker.py` | request rows, sampled tokens and drafts of a row, captured graphs | add/finish rows, prepare input, forward, sample, capture, dispatch | scheduler, PLE, offloader | runs behind the scheduler, which announces steps without their tokens; graphs are chosen by shape | never more rows than `max_num_seqs`; each position computes its own token; a graph fits its batch |
| **PLE offload handshake**, `OV/v1/ple_offload/{connector,worker,protocol}.py`, `ple_offload_layer.py` | ready/consumed flags per layer and rank, a queue of one request, events that are re-recorded | launch, request thread, worker loop, wait on the model stream, dummy outputs | model runner, CPU worker process | three actors, flags without sequence numbers, timeouts, dummy forwards | the output a layer consumes is that of its own batch |
| **PLE disk table**, `OV/v1/ple_offload/worker.py` 337-440 | `.bin`, `.done.json` | attach, build, flush, finalize | file system, next boot | crash between two steps, suppressed flush errors | a table marked complete is complete |
| **Boot and serving scripts**, `src/_shared/scripts/{up,serve,down,verdict,swaparm}.sh`, `model-recipes-watchdog.ps1` | verdict file, containers, claimed cards | boot gate, stop, verdict, watchdog | docker, nvidia-smi, WSL | timeouts, restarts, stale files | the verdict shown is that of this boot |
| **KVarN quantized KV backend**, `src/_shared/patches/vllm-kvarn-0290` (`kvarn_attn.py`, `triton_kvarn_*.py`) | a small pool of full-precision slots, quantized tiles, sinks, retired sinks, fill of each block | metadata build (allocate, flush, retire, evict), store, six attention routes | prefix cache, scheduler, drafter | a block is quantized for good; the pool is at its limit; blocks are shared and recycled; every route cuts the context its own way | a read finds what was written; the pool suffices; each key is summed once |
| **QSA cache**, `OV/models/qwen3_8_flash_next/{common/qsa_cache.py,nvidia/qsa.py,nvidia/ops/qsa.py}` | ring of raw index keys, compressed keys | metadata of a step, store, compress, select, attend | runner, drafter | rejected drafts in the ring; lists of fixed length; a group that is not full | each group is pooled once from accepted tokens; each visible token is attended once |
| **PLE layer**, `OV/models/qwen3_8_flash_next/nvidia/{ple_layer,model_state}.py`, `OV/v1/attention/backends/short_conv_attn.py` | convolution slots with all candidates of a step, n-gram context | metadata, four convolution paths, rollback, n-gram hashing | runner, graphs, offload process | chunks, decodes, drafts and padding in one batch | a token reads the inputs before it, whatever batch it is in |
| **Linear attention**, `OV/model_executor/layers/mamba/gdn/qwen_gdn_linear_attn.py` | convolution slots, recurrent states | five paths through convolution, recurrence and norm | runner, metadata of upstream | gates, states and outputs are selected, split and merged separately | a token's output is of the tokens of its request up to it |
| **Quantized experts**, `OV/model_executor/layers/{quantization/...wna16.py,quantization/auto_gptq.py,fused_moe/routed_experts.py,fused_moe/oracle/int_wna16.py}` | weights on host and device, maps from experts to rows, LRU caches | load, cut, pad, repack per backend; prepare a batch | checkpoint, kernels | caches replaced while a batch is put together; scales that follow another rule than weights | a kernel multiplies by the right integer, scale and zero point of the right expert |
| **Patches of the 27B recipes**, `src/qwen3.8-27b/vllm/vllm-patches` | mamba checkpoints, speculative rows | copy bounds, alignment | vLLM | off-by-one at block boundaries | copies stay within the state |
| Model code, kernels, loaders | weights | numeric | | | not a transition system |
| Recipes, launchers, installers, benchmarks | files | sequential | | | not modelled |

The hazards of each part, at their lines, are listed in `PROJECT.json` with the properties that
cover them, or the reason none does yet.

## 2. Modules

| module | what it is |
|---|---|
| `Scheduler` | the scheduler, the worker it feeds and the connector, as a state machine |
| `SchedulerProperties` | type invariant, safety invariants, liveness |
| `MCScheduler` | the values the small instances use |
| `SchedulerProofs` | types; ownership of blocks; the fence; background loads; queues, rows of the worker, budget of a pass; counters and the order of the output |
| `KvarnPool`, `MCKvarnPool` | the KVarN cache of one group with the engine around it |
| `KvarnPoolProofs` | types; the slots of that cache: accounted for, kept by sinks in use, and how many suffice |
| `KvarnAttention` | which keys each route and kernel of the KVarN backend sums over |
| `HotExperts` | the four ways to keep frequent experts on the device |
| `HotExpertsProofs` | in each of them every routed expert contributes once; the maps, slots and copies agree. In its last part, of `ExpertWeights`: the loader writes every matrix it is to write once, from the right expert |
| `ExpertWeights` | from a checkpoint tensor to the operand of an expert kernel |
| `QsaCache` | ring and compressed keys, list of work, selection and attention of the QSA cache |
| `CudaGraphs` | which graphs are captured and which one a batch replays |
| `ModelRunner` | the rows of the model runner and the input it builds |
| `ModelRunnerProofs` | the rows agree with the scheduler, whatever is in flight; every step computes the right tokens. In its last part, of `QsaCache`: the ring keeps the group that is open, so complete groups are pooled right; a query attends to each token it is to see once |
| `ConvSlots` | batches, and the convolutions with a state they run on; extended by the next two |
| `PleLayer` | metadata, short convolution and n-grams of the PLE layer |
| `GatedDelta` | the paths of the linear attention |
| `Components` | instances of the modules from `PrefetchOffload` and `KvarnPool` to `GatedDelta`, side by side |
| `ComponentsProofs` | the theorems of `KvarnPoolProofs`, `HotExpertsProofs`, `PrefetchProofs` and `ModelRunnerProofs` for those instances |
| `PrefetchOffload` | host, compute stream, copy stream and graph of the weight offloader, with its properties |
| `PrefetchProofs` | capture and join of the offloader; every kernel reads its own layer |
| `PleHandshake` | model threads, their streams, request threads and the CPU worker of the PLE offload, with its properties |
| `PleMailbox` | what that exchange promises; `PleHandshake` implements it |
| `PleHandshakeProofs` | types; order of the launches on streams and in inboxes; the invariant of the exchange; own output, one request, the refinement, dummy forwards |
| `PleDiskTable`, `MCPleDiskTable` | the disk-backed PLE tables across boots, kills and power losses; the values of its small instances |
| `PleDiskProofs` | the invariant of the disk tables |

### Scheduler

**One thread, one action per loop iteration.** `schedule()` and `update_from_output()` are loops;
`pc` names the loop and each iteration is an action. `ScheduleStart`, then `RunningSkip` /
`RunningSchedule` / `RunningPreempt` / `RunningEnd` (lines 539-765), then `WaitingSkip` /
`WaitingPromote` / `WaitingAdmit` / `WaitingLoadRemote` / `WaitingBlocked` / `WaitingEnd`
(764-1187), then `ScheduleFinish`, which hands the step to the worker and is also
`_update_after_schedule`. `UpdateStart` (drain of the fences), `UpdateDiscard` and `UpdateDeliver`
per request of the step, `KVXferFinished` per load that arrived, `UpdateFinish`. `AddRequest`,
`AbortRequest` and the reset happen only between calls, as in the engine loop.

**Overlapping steps.** `batches` holds up to `MaxBatches` steps that were scheduled and not
processed, in order. A record keeps the tokens of each request, the blocks the step writes, the
loads it starts and, for requests that enter the worker with it, how many tokens the worker was
sent. The outcome of a step (how many drafts were accepted, whether a stop token was sampled) is
chosen when its output is processed, because nothing reads it earlier.

**The amount is fixed before the preemption loop.** The code computes `num_new_tokens` of a running
request (574-622) and then preempts until its blocks can be allocated (646-704). Under the priority
policy a victim that this pass already scheduled returns its tokens to the budget (675-681), for
requests to come and not for this one. `restored` sums what was returned since the amount was
computed, and `NumNewTokens` counts `budget - restored`.

**Tokens are positions.** The content of a token never influences the scheduler. A sampled token is
represented by the position it was sampled for, so that a token that is lost, repeated, reordered or
sampled at the wrong place shows up in `out`.

**Blocks are identities.** `Allocate` takes any free blocks, so the model covers every order of the
free list.

**Undefined cases stop the model.** An admitted request in an unexpected status raises
`RuntimeError` in the code, and a padded re-admission that the prefill threshold clips fails an
assertion (scheduler.py:1165): no action is enabled there, so the deadlock check of each run reports
it. A negative `num_new_tokens` is not such a case: the code takes `max(num_new_tokens, 0)` and
passes the request over.

External parts, modelled from how the scheduler uses them: the block pool (`Allocate`,
`ResetSucceeds`), the request queues, `check_stop` (`RoomFor`), `AsyncScheduler` (`Credited`, the
placeholders in `ScheduleFinish`), the sampler (`WorkerStart`).

Left out, each a bound of the model: prefix-cache hits (no block is shared), synchronous external
loads and loads that fail, connectors that answer "not yet" or delay the frees of finished requests,
streaming sessions, pause states, grammars, encoder inputs, LoRA, pipeline-parallel decode cadence,
prefill throttling across data-parallel ranks, extra draft slots (`input_budget` then mirrors
`token_budget`), variable-K scheduling (without it the padding of `Pads` applies), disabled chunked
prefill, mamba-aligned splits, the watermark, blocks retained for copy-on-write. `Priority` is a
unique rank for the pair (priority, arrival time). `MaxResets` bounds the resets.

### PrefetchOffload

The host issues work for one forward pass after another: eagerly, into a graph, or as a replay of
the graph. The hook of a layer is three actions, `Wait*`, `Compute*`, `Prefetch*`, in an eager and a
captured form (the two branches of `_wait_for_layer`; the target of the issued work). Each stream
executes its queue in order; `RunBegin`/`RunEnd` and `CopyBegin`/`CopyEnd` make the time a kernel
reads and a copy writes visible. An event is a count: waiting for it means that so many operations
of the other stream are complete. A copy in progress leaves the buffer `Torn`. In a replay the
copies of the graph queue behind those of the copy stream: `sync_prev_onload` orders them so, and a
replay that omits it already fails `RightWeights` through the first kernel. Left out: piecewise
graphs, several captured graphs (each is preceded by its own warm-up pass, as the first is), layers
whose parameters differ in shape (they share no buffer). `MaxPasses` bounds the passes.

### PleHandshake

**Actors.** Per rank a model thread (`host`) and its stream; per data-parallel rank a request
thread; one CPU worker. Each step of an actor that another can observe is an action. A thread of the
host waits by polling a flag, a stream by `cuStreamWaitValue32`; both are guards here.

**Data is the number of its batch.** The inputs on the GPU, the staged inputs, the output buffers
and what the stream copied hold the number of the batch they belong to. `Dummy` is what a dummy
forward wrote, `Torn` what one actor read or wrote while another was at it: a copy is two actions,
and its result is `Torn` if the source changed between them.

**Passes.** The engine (external) issues the same passes to all ranks of a data-parallel rank: a
batch, a dummy forward, or a capture, which raises the flags without a copy that lowers them.
`Depth` batches are in flight, 2 with asynchronous scheduling. Dummy forwards and captures follow
the output of the last batch, and nothing waits for the stream: the next pass, a batch or another
dummy, may be launched while a dummy forward is still on it. A forward ends with a reduction over
the tensor-parallel ranks (`AllReduce`), which ties their streams together.

**Dummies that overlap.** The host raises the flag of a dummy forward without waiting for the dummy
before it, which may then lower it. The second waits for good (`DummyLost`). This happens in every
run with two dummies in a row, and the properties hold with it: `DummiesLeaveResults` says that such
a dummy never takes the result of a batch launched behind it. It is the input event that prevents
this: it lies behind the dummy on the stream, so the request is not sent before the dummy is over.

**Refinement.** `PleMailbox` is the promise: each rank and layer has a box that the worker fills
with the results of the batches in order and the stream empties, once each. `ready` and `output`
make the box (`Mailbox`, in `PleHandshake`), and `MailboxSpec` is checked as a property.

Left out: registration and the READY handshake, `close`, the death of the worker, clamping of ids,
inputs staged from CPU tensors. `signal_dummy_outputs` writes the buffer and the two flags of a
layer in one action. `MaxPasses` bounds the passes.

### PleDiskTable

A file has a state that processes see (`file`, `mark`: the page cache) and one that a power loss
leaves (`diskFile`, `diskMark`). `WriteBack` may happen at any time. Attach is four actions per
table (`AttachFails`, `AttachReuse`, `AttachRemove`, `AttachTruncate`), a shard is copied in two,
finalizing a table is `Flush`, `CreateMarker`, `WriteMarker`. `Exit` and `PowerLoss` come between
any two. A shard holds the checkpoint it came from. Creating, removing and resizing a file is taken
to be durable at once and in order, as on a journaling file system; only contents are delayed.
`MaxBoots` bounds the boots.

### KvarnPool

One KV-cache group of the KVarN backend with the engine around it. A step is a small program:
`Admit`, `PlacePrefill`, `PlaceVerify` and `Leave` put a batch together (the scheduler, the block
pool and the prefix cache, external), `Dispatch` closes it, `Build` is `KVarNMetadataBuilder.build`
as a whole (sinks, walk-back flush, release, eviction, allocation), `Store` is `do_kv_cache_update`,
`Accept` ends the step; `Draft` repeats build and store for a pass of the drafter. Keys and values
are the pair of chain and position, so a read that finds a stale, lost or foreign row shows.
`_block_to_slot_dict` is the set `held`: which slot a block has does not matter, that the slots are
neither lost nor duplicated is `SlotsAccounted`. The quantization is exact: a tile holds what the
slot held. `HitsUnsettled` lets a prefix hit name a block that has a slot and that the same step
writes; with it `ReadsRight` fails (finding 4), so the passing instances exclude it.

The pool has `max(2S + ceil(T/G) + 8, 8)` slots for `S` requests and `T` batched tokens, while a
lockstep batch can need `3S + T/G`; it suffices while `S <= 8 + T/G`, and the recipes run up to 8.
The instances scale this down. Left out: sliding windows, start-up checks, the quantization. The
label of a stale sink (about lines 855-868) is cleared when the block is taken for another place.

There are two such hits. One names a block that another request began in an earlier step and
completes in this one: the walk-back of the request that hits it flushes it before its last tokens
are written, which is what `kvarn_half` shows. The other names a block that is written *whole* in
this step and still has the slot of a request that left: it is flushed as well, and its
`_block_fill` is popped (line 961) after line 737 had set it for this very step, which is not what
the comment at 715 says. If both requests leave next, the reclaim (927) takes the complete block for
a partial one and discards it. The second takes about 34 steps, which breadth-first search does not
reach in the time of a run; a schedule led there by hand does. That there is no third is a theorem,
`ReadsOwnTokens`.

### KvarnAttention

`forward()` has one route per shape of the batch and per environment setting. Each kernel is the
sequence of key sets it sums over for one query: the splits of a split kernel, the slices of a
streaming softmax, the rows of a packed buffer. `AttendsOnce` says that they are disjoint and
together exactly the keys up to the query. A batch that is not causal is one of the drafter's
decodes. With `KVARN_FUSED_DECODE=0` a decode batch is packed as a whole, without groups, and must
fit the scratch. Rows that pad a graph have limit zero. Window masks are left out.

### HotExperts

The four ways of `compressed_tensors_moe_wna16.py` to have frequent experts on the device, and the
plain kernel. `out` is the list of rows a token's experts were multiplied by, so an expert that is
counted twice, forgotten or multiplied by another's row shows. Kernels that run one thread block per
layer are actions; where stores of a block race with its own loads (`visible`, `StageMaps`), every
outcome is possible. The ids of a ranking are taken to be distinct. Mode "stage" asserts an expert
map, so it needs expert parallelism. The clock of the LRU cache is an int32 that is never reset; the
recipes run it with capacity 84 and batches of at most 16 tokens.

### ExpertWeights

A function of the configuration of a layer, no state: the checkpoint (three formats, three layouts),
the cut for a rank with refined scales and activation order, the padding and the permutations of
each backend, and what a kernel then multiplies. An integer, a scale or a zero point is named by the
matrix, group or channel it belongs to, and `RightOperands` compares each operand with the one the
checkpoint has for it. `Accepted` is what `create_weights`, the oracle and the conversions do not
reject, and nothing else is excluded, so two kinds of accepted configurations are computed wrong,
and `RightOperands` says that exactly these are:

* `OrderLost`: activation order, with more than one group, on a backend that ignores `g_idx` (XPU,
  emulation), or where compressed-tensors duplicates the scales (`ScaleRefine` above 1) while the
  indices still count the groups of the checkpoint.
* `GroupsCut`: GPTQ or AWQ where the boundary between two ranks cuts a group of the second matrix.
  Compressed-tensors rejects that, `auto_gptq.py` does not, and the scale both ranks need is loaded
  by one of them or by none.

`EveryPartLoaded` is exact in the same way: every physical expert gets each matrix once, except the
redundant copies under a fused checkpoint, of which `load_weights` fills the logical experts only.
The comment of `oracle/int_wna16.py` 1330-1336 describes a scatter; the code gathers with the
inverse permutation, which is the same. A kernel that is given too few scales reads `Beyond`. Left out:
channelwise scales, 8-bit activations, biases, the CPU backend.

### QsaCache

The ring of raw index keys and the compressed keys of one request, through steps with accepted and
rejected drafts, passes of the draft loop and a restart with a prefix hit; and three functions: the
list of work of a batch, the groups a query sees, the split of a query over tiles. A raw key is the
position it was computed for. Compressing before the ring takes the rows of the step is the order of
the upstream indexer (external). The ranking of groups is any order that puts visible groups first,
as the external top-k does.

### CudaGraphs

`_init_candidates`, `capture`, `dispatch` as functions of a configuration and a batch. Every batch
the scheduler can make up to the largest size is dispatched under every mode. The graphs tried for a
batch are those of the next shape above it, whatever their kind, and where decodes have graphs of
their own a size is rounded up to whole decodes of each length, so shapes of different kinds lie
between the sizes. `GraphFits` says which batches find a graph: those with a fitting one and no
graph of another shape in between (`Nearest`). The others run without a graph, or with a piecewise
one, although a captured one fits; only if every size is whole decodes of every length
(`WholeDecodes`) are there none. `Components` has an instance of either kind: sizes 2, 4, 5 and 8
with decodes of 2 and 3 lines, where the shapes of decodes are 2, 3, 4 and 6, two sizes give the
same one and some batches miss their graph; and sizes 4 and 8 with decodes of 2 and 4.

### ModelRunner

The rows of a worker (`states`, `rowOf`), the scheduler as far as the runner sees it (it announces
steps ahead and counts drafts as computed until it hears of a rejection), `Step` = `execute_model`
up to the input, `Sample` = `sample_tokens`, `Arrive` = the output reaching the scheduler,
`Preempt`. A token is the position it belongs to, `Wrong` a draft the target rejects, `Old` whatever
was in a buffer. A row that is taken anew holds `Old` where the runner writes nothing. This is the
worker of the last pipeline rank; LoRA, multimodal and pooling paths are left out.

### ConvSlots, PleLayer, GatedDelta

`ConvSlots` has the batches (chunks of a prompt, plain decodes, drafts, padded full graphs, in the
runner's sort order), the slots with the candidates of a step, the rollback to the last accepted
one, and the convolution paths as operators. `PleLayer` adds the metadata of the PLE layer, its
dispatch over the paths, and the n-grams (on the GPU and as the offload process sees them).
`GatedDelta` adds the recurrent states, the paths of `qwen_gdn_linear_attn.py` (`_forward_core` with
its split of drafts, decodes and prefills, the fused ones, the packed decode), gates and norm. The
operators of the convolution stand for the `causal_conv1d` kernels there. An output is the list of
inputs it was computed from. `Restart` gives a slot to another sequence with everything in it stale.

Two things are taken from upstream code. A plain decode does not follow a rejected draft (`RowsOf`):
the decode path does not roll back, so it would read a window that is one draft too far. And in
`GatedDelta` the metadata treats every row beside drafts as a prefill; the gates of a decode-only
part are those of the whole batch (line 1553), which is right only because of that. Left out:
hashing, gating of the PLE, the profiling fallback, `prepare_dummy_inputs`, projections, layouts,
warm-up, other devices.

### Components

The modules above (and `PrefetchOffload`) do not talk to each other, and most have a few thousand
states. `Components` instantiates them side by side: `part` names the one a behaviour is about, the
variables of the others are empty, and `Next` is its next-state relation. A module without state is
checked on every value of `input`. `Spec` is thus the union of the behaviours, and a property named
after that of a module holds of it. `KvarnPool` has three instances: the target model short of
slots, a drafter, and chunks of several blocks; `ExpertWeights` two: shards that are padded, and
shards whose boundary cuts a group; `CudaGraphs` two: sizes that are rounded to decodes, and sizes
that are whole decodes. The two PLE instances check one property. `View`
leaves out what the module's `View` says is overwritten before it is read; blocks are
interchangeable. The KVarN pool, the hot experts and the offloader are instantiated by the names of
their proof modules, so that `ComponentsProofs` can apply the theorems; the model runner and the QSA
cache have a second instance there.

## 3. Runs

| run | instance | question and result |
|---|---|---|
| `sched_async` | 2 requests, 3 blocks, 3 overlapping steps, 1 draft, 2 resets | is stale output told from fresh output? `OutputInOrder`, `StaleNamesOldSteps`, `CountersAgree`, `TypeOK` hold (2.8 million states) |
| `sched_remote_kv` | 2 requests, 3 blocks, 2 overlapping steps, loads of one block, fair | is a block reused while it is written, is anything waited for in vain? `QueuesMatchStatus`, `BlocksAccounted`, `NoReuseUnderWrite`, `NoLoadUnderWrite`, `RequestsFinish`, `ResourcesReturn` hold |
| `sched_priority` | 3 requests, 4 blocks, 2 rows, priority policy, synchronous, 1 draft | does a victim give back what it got, do rows suffice? `BudgetKept`, `WorkerRows` hold |
| `sched_reset` | as `sched_remote_kv`, no loads, 1 reset | `ResetFreesBlocks` is violated: finding 1 |
| `components` | see the table below | all hold (146,246 states) |
| `prefetch_uneven` | 3 layers, 2 buffers | `NoOverwriteWhileRead` is violated: finding 2 |
| `ple_live` | 2 data-parallel ranks, 2 layers, 2 passes each | `ForwardsFinish` holds under fairness: no flag is waited for in vain but that of a dummy the one before it lowered |
| `ple_async` | 2 tensor-parallel ranks, 2 layers, up to 2 batches in flight, 4 passes | are the flags, which carry no number, enough? `OwnOutput`, `NoDuplicateRequest`, `DummiesLeaveResults`, `MailboxSpec`, `TypeOK` hold |
| `ple_queue` | 1 rank, 2 layers, 2 batches in flight, 3 passes | `OnePendingSuffices` is violated: finding 3 |
| `kvarn_half` | 2 requests, 5 blocks, hits on blocks being written | `ReadsRight` is violated: finding 4 |
| `ple_disk` | 2 tables of 2 shards, 2 checkpoints of different shapes, 3 boots | `ServedTableWhole`, `MarkerMeansDurable`, `MarkedFilesStay`, `TypeOK` hold |
| `ple_disk_marker` | 1 table, 2 boots | `BootsComeUp` is violated: finding 5 |

The parts of `components`:

| part | instance | properties |
|---|---|---|
| pool | blocks of 2 tokens, 5 blocks, 4 slots, 1 draft token, 3 requests of up to 3 tokens, 2 at a time | `ReadsRight`, `PoolNeverExhausted`, `LiveSinkKept`, `SlotsAccounted` |
| drafter | the same with 1 further pass, 6 slots, 2 requests of up to 6 tokens | the same |
| chunks | one request of up to 8 tokens in chunks of up to 4, 5 slots | the same |
| attention | 2 requests, 0 to 3 cached tokens and 1, 2 or 4 new ones, every setting | `AttendsOnce` |
| experts | 4 experts, 3 of them on the rank, 2 copies, batches of 1 to 3 tokens, every mode | `EachExpertOnce`, `SlotsMatchMap` |
| offload | 4 layers, 2 buffers, 5 passes | `RightWeights`, `CaptureJoined` |
| weights | every accepted configuration of a 16 x 16 layer, groups of 4 and 16, tiles of 16 | `RightOperands`, `EveryPartLoaded` |
| wide weights | every accepted configuration of a 16 x 48 layer, groups of 16, tiles of 8 | `RightOperands` |
| qsa, qsa batch, qsa query | groups of 2 tokens, 2 drafts, 3 blocks; batches of up to 3 requests; every position and length | `KeysPooledRight`; `EachGroupOnce`; `SelectsOnce` |
| runner | 2 requests, 2 rows, 2 steps in flight, 1 draft, 1 preemption | `InputsRight` |
| graphs | sizes 2, 4, 5, 8, up to 3 requests, decodes of 2 and 3 lines, every mode | `GraphFits` |
| whole graphs | sizes 4, 8, up to 3 requests, decodes of 2 and 4 lines, every mode | `GraphFits` |
| ple layer, ple kinds, linear attention | 2 requests with 0 or 2 drafts; 3 requests with 1; 2 with 0 or 1 | `RowsRight` |

**Why the bounds are enough.** Every case of the code needs at most two requests that compete for
blocks and a third that waits. Three overlapping steps are the least for which a request is
preempted, resumed and preempted again with output of each life in flight, and for which a
deliverable stale output meets a pass that could resume its request. Three blocks of two or three
tokens make both requests fit alone and not together, so preemption, the break of the waiting loop
and the reservation of prefills all happen. One draft distinguishes accepted, rejected and trimmed.
The five passes of the offloader contain every change between eager, capture and replay, and four
layers on two buffers reuse each buffer within a pass. In the pool, three admissions on five blocks
make a block be cached, hit, freed and taken for another place, retired sinks compete with tails for
four slots, the drafter's requests flush a block behind the sink, and chunks of 4 tokens walk back
over two blocks. Two requests of the attention fill one group of the scratch, overflow it, and one
of them alone exceeds the slice. Two copies for three experts of a rank make every miss evict, and
batches of three are too large for the cache. The ring and the candidates of a slot wrap around
within the positions given; three requests are what a batch of a decode, a prefill and drafts takes.
Groups of 4 and 16 in a row of 16 give a layer many groups or one; 48 channels for two ranks give
each one and a half of the groups of 16.
Two rows for two requests let a row change its owner while an output of the old one is on its way.
Three batches make every flag go through two full turns, and a fourth pass lets a capture or a dummy
come before, between and after them; two layers show a claim of one while the other is still read.
Three boots let the third find what an interrupted second left of the first. Every property has a
mutant of the code (a definition named `...Mutant` beside the original) that the same run refutes.

**Fairness** (`Scheduler!Fairness`). The engine loop calls `schedule()` whenever a step may be added
and `update_from_output()` whenever one is finished, both calls return, and a step that was given to
the worker completes: weak fairness of their actions. A load that was started is eventually
reported, but a report is only processed within an update, so its fairness is strong. Nothing is
assumed of arrivals, aborts or resets.

In `PleHandshake` the threads, the streams, the reduction and the worker are weakly fair: threads
poll, the GPU executes what is issued. The engine owes nothing, and a claim may time out at any time
but need not. `ForwardsFinish` has an escape for each data-parallel rank: a claim of its own timed
out, or one of its own dummies lost its flag. The fate of another one is no excuse, so a rank must
finish beside one that failed. `PleDiskTable` states no liveness.

`components` states no liveness.

`sched_remote_kv` sets `RequiresKVDelivery` to FALSE. With TRUE and deferred frees two requests can
preempt each other forever: the preemption frees nothing at once, and its output is dropped. The
step counters grow in that cycle, so it is recorded as a hazard and not as a run.

**Findings.**
1. `reset_prefix_cache(reset_running_requests=True)` is said to succeed because preemption
   brings the reference count of all blocks to 0 (lines 2552-2554). With a KV-consumer connector
   and a step in flight the blocks are deferred, the pool refuses, and the call raises a
   `RuntimeError` that names another cause.
2. `start_onload_to_static` says its fork event prevents overwriting a buffer that is read. If
   the number of offloaded layers exceeds `prefetch_step` and is not a multiple of it, the
   wrap-around prefetch writes the buffer of a layer that is still to compute. Nothing in this
   repository rejects such a configuration.
3. The connector's queue holds one request because "each forward consumes its output before the next
   launch" (`connector.py:118-119`). The host does not wait for that: with two batches in flight the
   launch may find the queue full (458), which ends the engine; no output is wrong. The model
   reaches the phase `full` there.
4. The KVarN builder says that only blocks are quantized "whose tokens are all accepted"
   (`kvarn_attn.py:879-880`) and that sharing is safe (707). The committed length is that of one
   request: if a request of this step hits a block that another request of this step completes, the
   walk-back (893-911) flushes it before the missing tokens are stored. With hits on blocks that
   have a slot and are written in the same step left out, nothing else goes wrong: section 4 proves
   it.
5. The marker of a finished table is created empty and filled later; a kill or power loss in between
   leaves a file on which every later boot raises.

Seen while modelling, recorded as hazards: a flush that fails is suppressed and completion recorded
all the same (`FlushMayFail`); two checkpoints whose tables have one shape share a finished table
(`ShapesDistinct`); these two are the conditions of the theorems below. With two batches
in flight and a third to come `ForwardsFinish` does not hold either: if the request thread has taken
a request and not yet called `wait_event` when the next launch records the event anew
(`connector.py:451`), it waits for a record that lies behind the forward that waits for its answer,
until the claim of that launch times out. And these:

* The flag of a dummy forward is re-armed for every shape of a warm-up without waiting for the
  stream. The comment at `cudagraph_utils.py:531-533` says that re-arming keeps the second warm-up
  from waiting. It does not if the first is still on the stream and lowers the flag afterwards.
* Activation order is computed with the scales of other groups on XPU and in the emulation
  (`int_wna16.py` 1021-1081, 1364-1414), and wherever compressed-tensors refines the scales of the
  second matrix (`__init__` of the method, 338-366).
* GPTQ and AWQ layers whose shards cut a group are accepted (`auto_gptq.py` 554-572), and a shard
  then has the scales of too few groups or of the wrong ones.
* A fused checkpoint leaves redundant copies as they were allocated (`routed_experts.py` 935-970).
* With decodes of several lengths a batch may run without a graph although a captured one fits it
  (`cudagraph_utils.py` 233-260, 283-301): slower, not wrong.

## 4. Proofs

**Scheduler.** All for arbitrary requests, blocks, pipeline depth and configuration, from
`ConstantsAssumption` alone (finite sets, positive sizes, prompts shorter than the model length);
the last theorem has one condition more.

* `TypeCorrect`: `Spec => []TypeOK`. Types are not inductive by themselves: that an admitted
  request gets a positive number of tokens, and that a pass never exceeds its budget, depends on
  what may be picked. `PassInv` adds `UpdateHasStep`, `RunningQueue` (running requests,
  once each), `OnlyRunningScheduled` and `TokensLeft` (what waits has tokens left to compute).
  One lemma per action, combined in `PassStep`.
* `BlocksNeitherLostNorShared`: `Spec => []BlocksAccounted`. Inductive relative to `PassInv`;
  three lemmas cover freeing, allocating and draining, every action cites one of them.
* `NoBlockReusedUnderWrite`: `Spec => []NoReuseUnderWrite`. The invariant `FenceInv` says where
  a block that a step in flight writes can be: still with the request the step computes, whose
  `last_sched_seq` is then at least the step's number, or behind a fence at least as late
  (`Covered`); and that fences and steps are numbered in order (`FenceOrder`). The oldest step
  completes before its number is drained, so no block of a later step reaches the pool.
* `LoadsAvoidWrites`: `Spec => []NoLoadUnderWrite`. `LoadInv` says that only requests that wait for
  a load, or were finished meanwhile, have one, and that a load is given out once, over all places
  it can be in. `WriteInv` says that a request that does not run owns no block that a step in flight
  writes: a preemption behind the fence gave them all up. With one step at a time nothing is in
  flight while blocks are handed out (`SingleStep`), so the two policies have two reasons.
* `QueuesFitStatus`: `Spec => []QueuesMatchStatus`. `QueueInv` states it during a pass too, where a
  request may be in the list of those set aside (`QueueSets`, `OnlyInPass`), and that the scheduler
  knows every request that is neither new nor finished (`Known`).
* `RowsFollowQueue`: `Spec => []WorkerRows`. The worker hears of preempted and finished requests
  with the next output only. `RowInv` says that each row beyond the running requests belongs to one
  it is about to be told of, and that a running request without a row was admitted by this pass.
* `PassKeepsBudget`: `Spec => []BudgetKept`. `BudgetInv`: what a pass gave out and what is left make
  up its budget at every point of the pass, and the running loop gave nothing to the requests it has
  still to visit, so that a victim it takes from the end of the queue returns what it was given.
  What victims returned since an amount was computed only adds to the budget, so the amount still
  fits it.
* `StaleSharesExact`: `Spec => []StaleNamesOldSteps`. `TokenInv` counts the steps in flight as one
  request sees them: `inflight` is the sum of its tokens over the steps not yet drained, `stale` the
  sum over those before its last preemption (`Drain`), and `Position` says which tokens of the
  request the worker has seen, and when no old step may deliver.
* `OutputsInOrder`: `Spec => []OutputInOrder`, from `Position`: what a step delivers is the position
  after the last one the client has.
* `CountersExact`: `Spec => []CountersAgree`, when `GuessesTakenBack`: scheduling is asynchronous,
  or one step is in flight at a time, or there are no drafts. `num_computed_tokens` runs ahead of
  the tokens that are known, by what each step in flight may yet deliver. `CountInv` says by how
  much: the request is ahead by at most the sum over its fresh steps of one token and the drafts of
  each step that samples (`Guess`, `Tally`), and what a pass hands out stops short of the known
  tokens or passes them by exactly the drafts (`Given`). The condition excludes several synchronous
  steps with drafts in flight, where drafts that one step returns arrive while the next one is under
  way: TLC finds `num_computed_tokens` below zero there with two requests, three steps and five
  drafts. No run has that setting.

**PLE handshake.** All for any number of ranks, layers, passes and batches in flight, from
`HandshakeAssumption` (positive sizes). `TypeCorrect` states the types. The inductive invariant is
`IInv`, of three parts:

* `TypeInv`, the types with what they need: the worker has work exactly while it does not poll.
* `LaunchInv`: on the stream and in the inbox of a rank are the batches after the last finished,
  each once and in order, and all ranks of a data-parallel rank have the same number of dummy
  forwards to come. The reduction needs this: it ends the same forward on all ranks.
* `ExchangeInv`: of each data-parallel rank at most one request is between the queue's far end and
  the worker, and it is for the batch after the last finished (`RequestedOf`); each output is in one
  of the states of `BoxOf`, where a raised flag means the result of that batch, or the placeholder
  of a dummy forward; the worker writes only where the flags it saw are still down (`WorkerInv`).
  The three hold each other up: a request is sent after the end of the batch before, so the worker
  never meets a raised flag of an old batch; hence a flag means the right result; hence a forward
  ends with its own results and leaves the worker without work for it.

From it follow `OwnOutputAlways` (`[]OwnOutput`), `OneRequest` (`[]NoDuplicateRequest`) and
`ImplementsMailbox` (`Spec => MailboxSpec`): every step moves at most one box, and moves it as
`PleMailbox` allows. `DummiesLeaveResultsAlways` (`[]DummiesLeaveResults`) has no condition on how
dummies overlap: where a dummy copies, the batch after the last finished has not been requested, so
a raised flag is that of a dummy.

**Weight offloader** (`PrefetchProofs`). All for any number of layers, buffers and passes.
`TypeCorrect` states the types. `CapturesJoin` (`[]CaptureJoined`): `JoinInv` says that the last
copy of the graph is waited for, or is the captured event of a layer that a wait or the join at the
end will still come to. `KernelsReadTheirLayer` (`[]RightWeights`) and `NoCopyUnderKernel`
(`[]NoOverwriteWhileRead`) have the condition `EvenSlots`, that `PrefetchStep` divides `NumLayers`,
which the code does not check and without which both can fail (finding 2). The argument numbers the
operations of each stream over all passes. The k-th kernel and the k-th copy are for the same layer
(`LayerOf`): the host issues in a circle and keeps the copies `PrefetchStep` ahead (`IssueInv`). The
k-th kernel waits for the k-th copy and that copy for kernel `k - PrefetchStep` (`OrderInv`). For a
kernel of an eager pass this rests on the events and their validity (`EventInv`), for one of the
graph on the window of captured events (`WindowInv`). So the streams are never more than
`PrefetchStep` operations apart, and within that distance two layers share a buffer only if they are
the same (`SlotsApart`, the one place where `EvenSlots` matters beyond `PrefetchStep <= NumLayers`);
the buffers thus hold the last `PrefetchStep` copies (`BufferInv`).

**KVarN pool** (`KvarnPoolProofs`). For any number of requests, blocks and slots, any batch and any
drafts. `SlotsNeverLost` (`[]SlotsAccounted`): in one build a
block may be needed, walked back, unused, retired, evicted and fresh, and `free_slots` must move by
exactly what the slot map does; the sets of the build are shown to be disjoint where both count.
`SinksStay` (`[]LiveSinkKept`): the sink of a scheduled request has its slot and is not in line for
eviction. The invariant `SlotInv` adds that a retired block is a complete sink with a slot
(`RetiredAreSinks`), else an eviction would give a slot that is not there.

`PoolSuffices` (`[]PoolNeverExhausted`) has the condition `SlotsSuffice` on the size of the pool:
three blocks of each request (its first one, the one it has begun and one more that a pass of `G`
tokens or fewer can begin) and the blocks of the budget, counted in tokens, or simply all blocks of
the largest requests. While a step is under way the slots are held by what the batch touches and by
retired sinks (`TailInv`); a build that finds too few free slots evicts all the retired, and what
is left is at most what the batch touches. How many blocks that is follows from a sum over the
requests that is bounded by the budget: the tokens of a batch are a fold, of which `TypeInv` says
that it never exceeds the budget (`PoolTypes`, `[]TypeOK`). The sums are handled by induction over
the number of requests, as the least number without a property (`AllNaturals`).

`ConfiguredSuffices` compares this with the size the code computes, `max(2S + ceil(T/G) + 8, 8)`
(`config.py`, `pool_slots`, which calls two slots per request the structural peak): it is enough if
`S * (G + Drafts - 2) <= 8 * G`, so for up to eight requests with up to two drafts. Beyond that a
step in which every request verifies drafts over the end of a block touches three blocks of each,
and only the eight spare slots and those of the budget are there for the third.

`ReadsOwnTokens` (`[]ReadsRight`) is what the pool is for, and has one condition, `~HitsUnsettled`:
no request hits a block that has a slot and that the same step writes. The code does not ensure it
(finding 4); the other theorems do without it. The invariant `ReadInv` has four parts.

* `RowInv`: how tables share blocks. A block is once in a table; a block in the cache is in every
  table that has it as what its label says; a block of two requests is in the cache, and one of the
  two found it there.
* `BeforeInv`, until the builder has run: no block that a request found in the cache is written
  where it has a slot, the block a request has begun has a slot, and a block with a slot that is in
  the cache or has all its tokens is known to be full (`_block_fill`) or filled by this step.
* `StepInv`, from then on: the blocks that the step writes have slots that no eviction takes, and
  the whole blocks with a slot are known to be full.
* `DataInv`: at every accepted position a request reads its own token, or the first pass is still to
  write it (`Coming`); and so does whoever would hit a block of the cache.

The builder is the hard step. A flush or an eviction moves a block as it is; what may lose data is
giving up a slot (`drop`), which takes partial blocks that nothing writes, and a fresh slot for a
block that has data in its tile. `BuildFacts` says that a flushed block is never among the written
ones (here the condition is used); `WholeOrWritten` that a block with a wanted position is whole or
written, so it is not dropped; `WantedFresh` that a wanted position of a block with a fresh slot is
written by this very pass, because a block that was begun has a slot and a pass of the drafter
writes to blocks that have one; `WrittenWhole` that drafts, which may be rejected, never go to a
whole block. A kernel that writes a wanted place writes what is wanted there (`WriterFacts`),
however many requests share it.

**Disk tables** (`PleDiskProofs`). `TypeCorrect` holds for all constants. `TableServedWhole`,
`MarkerOutlivesPowerLoss` and `FinishedFilesOnlyRead` hold for any number of tables, shards,
checkpoints and boots, under two conditions: `ShapesDistinct`, and a flush that does not fail. The
invariant `Inv` says that a finished marker stands for a table that is whole in the page cache and
on the disk (`MarkerInv`), which a step preserves because of where the process is: behind the attach
loop a table is reused or has no marker (`Attached`), so shards are only written without one; before
a marker is created its table was flushed (`FinalizeInv`).

**Model runner** (`ModelRunnerProofs`). For any requests, rows, drafts, chunks and steps in flight,
from `RunnerAssumption` (positive sizes, a prompt shorter than the model length). `StepsFedRight` is
`[]InputsRight`. The scheduler counts what it announces as computed and learns of rejected drafts
later, the runner keeps its own count, and a preemption drops what is on its way; so the invariant
relates the two through the outputs in flight. `AheadInv`: there is a chain `f`, one value per
output still to arrive, that starts at what is announced, falls by the drafts each output rejects,
and ends where the runner is. `KnownInv` is the same chain for the tokens the scheduler knows.
`RowInv` says that a row past its prefill holds the token of its next position and drafts of which a
prefix is right, `StepInv` that the entries of a step that is not sampled yet agree with their rows,
`PlaceInv` that no two requests have one row.

**QSA cache** (the last part of `ModelRunnerProofs`, about an instance `Qsa` of `QsaCache` with
constants and variables of its own). For any compression ratio, number of drafts, block size, table
and cut of the sequence into steps, from `QsaAssumption` (positive sizes, a table without
repetitions). `PooledFromOwnTokens` is `[]KeysPooledRight`. The invariant `QsaInv` adds to it that
the ring has the raw keys of the tokens of the open group (`OpenGroupKept`). A step writes its last
rows into the ring and the draft loop rejected ones after them, all less than `Capacity` beyond the
first token of the open group, since `Capacity` is at least the ratio and the drafts; so they meet
none of its slots (`ModApart`). With the capacity of the mutant, the ratio alone, this is the step
that fails. `KeysStored` and `RingStored` say what a step leaves in the caches; that a slot of a
compressed key belongs to one group (`SlotsApart`) needs the table to be injective. A prefix hit
ends with a block and so with a group, and leaves nothing for the ring to hold (`ResumeStep`). The
metadata of a step are folds over a batch of one request, which are unfolded (`FoldOne`,
`OneOwner`). `QuerySelectsOnce` is about the query: for any ratio, context and any choice of groups
that puts the visible ones first, the columns it attends to that are not masked are the tokens of
those groups and the open tail, once each. The groups chosen are distinct and complete, the tail
starts behind them, and what the list has room for beyond is masked.

**Hot experts** (`HotExpertsProofs`). For any experts, ownership, ranking, layers, slots and
batches, from `ExpertsAssumption` (positive sizes, a ranking without repetitions). `EachOnce` is
`[]EachExpertOnce`, `MapsMatch` is `[]SlotsMatchMap`, `ExpertsTypes` is `[]TypeOK`. The invariant
`ExpertsInv` says that the map of the rank leads to rows with the right weights (`HostInv`, in mode
"vmm" after the permutation, which is shown to have every row once), and of each cache (`CacheOf`)
that its map and its slots are inverses of each other, its copies are of local experts with their
weights, and the map for the other rows is the map of the rank, without the experts that have a
fixed copy. A batch of an LRU cache is one step of the model and a loop over its places in the code;
`LoopInv` is what holds after each place: exactly the slots with experts of the batch are kept, a
local expert that was asked for is in a slot, and the miss lists name for each slot what it holds
now. That a slot is left for a miss (`VictimFree`) is the pigeonhole principle, and needs the bound
on the batch in `FitsLru`. It holds for both outcomes of the race between the stores of the block
and its own loads (`visible`): a repeated expert that misses its own slot is not given a second one.

**Expert loader** (the last part of `HotExpertsProofs`, about an instance of `ExpertWeights`).
`PartsLoaded` is `EveryPartLoaded(c)` for every configuration `c` and any number of experts and
redundant copies: what `load_weights` writes is a fold over the pairs of the mapping
(`WrittenOfAll`), each pair writes to one physical expert (`WrittenOfExpert`), and with a fused
tensor no pair leads to a copy (`CopiesUnfilled`).

**Components** (`ComponentsProofs`). A behaviour of `Components` in one part is a behaviour of that
component with the constants of its instance, so the theorems above hold of what the run explores
(`Assumptions` of `Components` include `SlotsSuffice` of the three groups, which TLC evaluates);
one lemma per part says so, and two that the two instances of the model runner, and those of the QSA
cache, are one system. The properties of a part without state are about its input: `QsaSelectsOnce`
and `ExpertPartsLoaded` are `[]SelectsOnce` and `[]EveryPartLoaded` of `Components`.

**Only model-checked.** Every safety invariant of the scheduler is proved. Liveness
(`RequestsFinish`, `ResourcesReturn`, `ForwardsFinish`) is outside what the prover supports. What
the parts of `components` about data state is checked by TLC only in `CudaGraphs` (`GraphFits`),
`KvarnAttention` (`AttendsOnce`), `PleLayer` and `GatedDelta` (`RowsRight`), in `ExpertWeights` for
the operands of a kernel (`RightOperands`), and in `QsaCache` for the metadata of batches of several
requests (`EachGroupOnce`). Their definitions are folds and recursive functions nested in one
another, and the induction theorems of the library cannot be instantiated; those that are reasoned
about above (the tokens of a batch, the places of a batch of experts, the pairs of the loader, the
one request of a step of the QSA cache) took lemmas of their own. `TypeOK` of `Components` is proved
in the parts that have a proof module.

## 5. Not modelled

What each module leaves out is said with it. Whole parts that have no model:

* *Boot and serving scripts* and *Patches of the 27B recipes*: planned, see below.
* *Model code, kernels, loaders* beyond the modules above: numeric code, what it computes is not a
  transition system; the kernels that have a model are described by what they read and write.
* *Recipes, launchers, installers, benchmarks*: configuration and scripts that run once, in order.

## 6. Plan

1. *Scheduler, rest*: streaming sessions (with the two hazards recorded for them), failed loads
   and recomputation, pause states, delayed frees of a producer, variable-K scheduling; the
   chunk-split arithmetic as pure operators.
2. *PLE start and end*: registration, READY, `close`, the death of the worker while a stream waits.
3. *BootGate*, *ServeLifecycle*: the scripts, with restarts, stale verdicts and the watchdog. The
   arithmetic of the mamba patches.
