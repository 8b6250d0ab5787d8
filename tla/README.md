# Verification of the Qwen3.8-Flash-Next serving recipe

The repository serves a model with a 47.7 GiB n-gram table with vLLM on one to three DGX Sparks. Its own logic is a set
of patches and overlays to vLLM (`src/patches`), the scripts that launch the ranks (`src/lib`, `src/run.sh`,
`src/recipes`) and the setup kit (`src/kit`). This directory models that logic in TLA+, checks it with TLC and proves
its core with TLAPS.

## 1. Inventory

| part | state | operations | interacts with | what is hard |
|---|---|---|---|---|
| Staged n-gram lookup (`model_state.py`, `ple_layer.py:490-555`, `ple_mmap.py:135-186`) | one reused pinned buffer per table, one fixed GPU staging buffer per layer, futures of the pool | `prepare_inputs`, `prepare_dummy_inputs`, `_ple_stage_rows`, `_staging_for`, `gather_cpu`, `_gather_chunk`, the forward's view | host thread, pool threads and CUDA stream share the buffers; the forward runs later | asynchrony, buffer reuse, stale padding, partial failure |
| N-gram ids (`ple_layer.py:381-488`, `ops_ple.py:25-181`, `model_state.py:82-109`) | the context tail of every request, recomputed every step | CPU path, Triton kernel, context preparation | reads the runner's token history; its ids index the table | chunk boundaries, EOS segments, rejected drafts, two implementations, overflow of the hash |
| Short convolution state (`ops_ple.py:319-675`, `ple_layer.py:845-1022`) | a window of past inputs per state slot | decode, prefill and spec modes, each with its write-back | the scheduler's slots, accepted-token counts | rollback of rejected drafts, in-place update, chunk splits |
| Table layout and hash (`ple_mmap.py:47-133, 202-230`, `ple_layer.py:53-307`) | shard list, prime head sizes and offsets, multipliers | shard scan and checks, row to file offset, contiguous read, division into heads | used by gather and resident loading | shards that disagree, short last shard, primes that must differ |
| Resident slice (`ple_layer.py:556-639`) | a rank's slice of the rows | masked local gather, all-reduce | all TP ranks in lockstep | slices that overlap or leave gaps, padding rows |
| Reduced-vocabulary drafting (`mtp_draft_vocab.py`) | the rows of `lm_head` kept per rank | slice, partial product, all-reduce, scatter | all TP ranks; the setting may change | k inside, at the end of and past a rank's slice |
| TP=3 padding (`tp_pad.py`) | patched constructor, transformed weights | head replication, padding of sizes and vocabulary | vLLM's TP sharding | head alignment after sharding, double install |
| Target forward (`tp3-pad/model.py`) | streams, pending block output, image buffer, MTP hidden buffer | layers, hyper-connections, pipeline stages, final mixer | PLE layers, pipeline, draft model | an output added late, twice or never |
| Draft steps (`tp3-pad/mtp.py`) | the top-k buffer of each MTP layer, skip flags | first and later steps, `compact_topk_indices` | the speculator | a selection reused by the wrong row |
| Sparse attention, QSA (`qsa.py`, `ops_qsa.py`) | paged cache, ring of raw keys, pooled keys, NVFP4 views | index, cache update, attend, split kernel and merge | engine's caches, scheduler's batches | order within a step, ring overwritten by drafts, programs in any order |
| Graph configuration (`compilation.py`) | `CompilationConfig` | fixing of the options, splitting ops, resolution of graph mode and sizes | attention backend, launcher's `GRAPHS` | options that change each other, resolution twice |
| Block sizes and devices (`platforms_interface.py`) | cache config; device control variable | block and page alignment; three numberings of devices | cache manager | pages that must agree, idempotence |
| Quantization (`modelopt.py`) | quantization config, parameters of a layer | reading either format, choosing the method, creation, loading, conversion, apply | checkpoint, kernels | names under which a layer is listed, scales combined over shards |
| Launch orchestration (`run.sh`, `lib/common.sh`, `recipes/*.sh`) | one container per node | tp1/tp2/tp3, stop, status | ssh to workers | a rank that fails to start, unreachable workers, left-over ranks |
| Cabling and fabric addresses (`kit/setup.sh` step 4, `kit/lib/topology.py`, `kit/lib/netconfig.sh`) | addresses of the ports, plan, FAILS | probe, cable matching, subnet plan, configuration, second probe, ping | all nodes | stale or missing answers, subnets given twice |
| Setup, other steps; kit tools (`probe.py`, `nccl_check.py`, `recipe.py`, `new_recipe.py`, `kit/bench`); tests, docs | none kept | one-shot scripts | | little control logic |

How the parts interact: setup configures the fabric; the launch scripts start one container per node on it. Inside, the
engine fixes its configuration (quantization methods, block sizes, graphs) and loads the weights, padded for TP=3 where
needed. Then vLLM's runner calls `prepare_inputs` once per step, which prepares the n-gram context and (staged mode) has
the rows of every layer gathered; the target forward reads the rows, its PLE layers move their convolution windows, its
sparse attention layers their caches; the draft model proposes tokens, some of which the next step rejects. The runner's
requests, batches and samples come from vLLM, which is not in the repository; they are modelled from how this code uses
them and marked external in `PROJECT.json`.

What makes each part correct:

- **Staged lookup**: a forward reads its own step's rows and zeros in the padding; a pinned buffer is not written
  while a copy still reads it; a failed gather is never served; every batch is served or the engine has died.
- **N-gram ids**: every token kept is looked up by the n-gram of the request's own history; the two implementations
  agree on every token, padding and overflow included; the fixed bisection finds the request.
- **Short convolution**: outputs are convolutions of the accepted history, windows hold it.
- **Table layout**: an accepted table gives every row its own bytes, by either reader; heads have partitions apart.
- **Resident slice, reduced drafting**: the sum over the ranks is a copy; logits are those of the prefix, in full width.
- **TP=3 padding**: every rank holds the heads its queries need; padding adds fill only, in whole blocks.
- **Forward**: every part of a layer reads the streams with all parts before it added, once; a draft step reads the
  selection of its own row; a sparse row reads exactly its selection, pooled from its own history.
- **Engine configuration**: pages agree; no graph is captured that cannot be replayed; captured sizes hold whole requests.
- **Quantization**: a layer's own entry decides its method; the two formats give the same method where both say the same; a
  layer computes what the checkpoint says, where its scales determine that.
- **Launch**: a launch that reports success is whole; the head comes last; ranks agree on the settings the head has; a stop
  misses only nodes where ssh or docker failed.
- **Fabric**: what was given is found again; no subnet is given twice; a reported link is a cable with these addresses.

`PROJECT.json` lists the hazards, each at its line, with the properties that would show it going wrong.

## 2. Modules

| module | models | extends / composes |
|---|---|---|
| `PleLookup` | abstract: one batch per step in, its rows out, in order | |
| `PleStaging` | host thread, gather pool, CUDA stream | instantiates `PleLookup` for the refinement |
| `PleStaging_proofs` | inductive invariant and theorems | `PleStaging` |
| `TokenSearch`, `TokenSearch_proofs` | the bisection both Triton kernels use; that it is right, and what the other proofs share: recursion over numbers, sums over finite sets, powers of two, division | used by `NgramIds` and `ShortConv` |
| `NgramIds`, `NgramIds_proofs` | context preparation, kernel, torch path; theorems, those of `PleVocab` too | `TokenSearch` |
| `ShortConv`, `ShortConv_proofs` | dispatch, convolution and write-back kernels, windows; theorems | `TokenSearch` |
| `PleVocab` | primes, partitions, multipliers | |
| `PleHash` | from an n-gram to a row, on either path, with overflow | `PleVocab` |
| `PleTable` | shard scan, its checks, both readers | |
| `RankSlices` | resident slices and their sum | |
| `DraftVocab` | reduced-vocabulary drafting | |
| `TableRows`, `TableRows_proofs` | the table, its slices and the drafts' rows side by side; theorems | `PleTable`, `RankSlices`, `DraftVocab` |
| `TpPad` | what `tp_pad.py` makes of a tensor | |
| `Algorithms` | questions put to what has no state of its own; theorems in `TableRows_proofs` | `TokenSearch`, `PleHash`, `Nvfp4`, `TpPad`, `DeviceIds` |
| `ResidualStream` | abstract: every part of every layer added at once | |
| `LayerForward` | the forward with pending outputs over pipeline stages | instantiates `ResidualStream` |
| `DraftSteps` | rounds of draft forwards | |
| `QsaLayer` | one sparse layer: construction, binding, a forward | |
| `QsaCompress` | pooled keys and their ring | |
| `QsaAttention` | the split-K kernel and its merge | |
| `Nvfp4` | decoding of the four-bit cache | |
| `SparseForward` | the parts of sparse attention side by side | `DraftSteps`, `QsaLayer`, `QsaCompress`, `QsaAttention` |
| `Forward_proofs` | theorems of the forward, the drafts and sparse attention | `LayerForward`, `SparseForward` |
| `GraphConfig`, `BlockSizes`, `DeviceIds` | engine configuration | |
| `Engine`, `Engine_proofs` | blocks and graphs side by side; theorems, those of `Weights` too | `BlockSizes`, `GraphConfig` |
| `QuantDispatch`, `QuantLinear` | the method of a layer; the life of a linear layer | |
| `Weights` | a checkpoint's entries listed one by one; a linear layer | extends `QuantDispatch`, instantiates `QuantLinear` |
| `ClusterLaunch` | `run.sh` over the nodes | |
| `Fabric` | step 4 of `setup.sh` | |
| `Cluster_proofs` | theorems of both | `ClusterLaunch`, `Fabric` |
| `MC*` | the instances TLC checks (`PleStaging` needs none) | see 3 |

An operator whose comment begins "Seeded fault" is a wrong variant of the definition after it. No specification uses
it; `PROJECT.json` pairs each with the property that fails when it takes the definition's place.

### The n-gram path

*PleStaging.* `batch` is the list of batches given to `prepare_inputs` or `prepare_dummy_inputs`. The host goes `idle ->
stage -> sync -> wait -> ... -> launch -> idle`, layer by layer: `StageZero` or `ComputeIds`, `StartGather`, `Collect`,
`IssueCopy` are `_ple_stage_rows` and `gather_cpu` cut where the host can block; `Raise` is a short read coming back
through `f.result()`. `pinned` keeps every buffer `_staging_for` allocated, since a copy may still read an old one.
`TakeChunk`, `ReadRow` and `ShortRead` are a pool thread in `_gather_chunk`, one table row at a time. `ops` is everything
enqueued on the stream and `retired` how much of it has run, so the stream may lag arbitrarily far behind. A row's
content is its identity `<<layer, step, row>>`: two rows are equal only if they are the same lookup. Since ids determine
content in the program, this distinguishes at least as much as the real bytes do. Assumed of the platform: one in-order
CUDA stream; `ids.to("cpu")` returns only when the stream has executed all before it; an exception in `prepare_inputs`
ends the engine. The pageable fallback of `_staging_for` makes the copy synchronous, a special case of the asynchronous
one modelled.

*NgramIds.* `all`, `len`, `computed` are the runner's `all_token_ids` (never cleared), length and `num_computed_tokens` per
request index; `qsl` and `ctx` are the model state's own buffers, which keep what an earlier or dummy batch left past the
rows written. `Prepare` is `prepare_inputs` up to the n-gram context, `Compute` a launch of the kernel, `Sample` the
runner taking the accepted drafts. `PackedGram` is the torch path, an operator compared with `out`. Tokens are binary (EOS
and another): the code compares tokens with EOS only, but two histories that differ at one place must give different
n-grams, which one non-EOS token and EOS do. The hash that follows is in `PleHash`.

*PleHash, PleVocab.* Integers are `Width` bits wide: products and xor wrap, and the remainder of a negative number is
computed as the compiled kernel and as torch do. Primality is decided as `_is_prime_64` decides it, small primes first
and then seven bases. The splitmix function that draws the multipliers is any natural number.

*PleTable.* A file is a sequence of cells and cell `c` of row `r` of shard `s` is `<<s, r, c>>`, so a read is right when
it returns the cells of the row asked for. The weight loader, the header scan (with or without an index file) and the
checks of `PLEMmapTable` come first; both readers are operators on what was accepted.

*ShortConv.* `window` is the cache, `launches` the step's kernel launches in stream order; within a launch the programs
(one per token for the convolution, one per request for the write-back) run in any order, one per step of the model, and
the next launch starts when all are done. A program is one step: it loads and stores only the window of its own request,
and no launch has one program store what another of the same request loads. The in-place loops are folds over the window,
so that they read what they wrote. The kernels move data without looking at it, so every input is a unique number and an
output is the list of inputs its taps read. Reads that fall into or past the padding give -1. `Schedule` batches as the
code's comments and asserts require; `ChunksOf` assumes what the metadata builder must do for the kernels to be right: a
request that has had drafts is never again classified as decode or prefill.

*RankSlices, DraftVocab.* Ranks load their slices in any order, look up with a mask, and buffers are added one rank at a
time in any order. A row of the table is one byte, since the code sums byte by byte, and sums wrap at `Byte`. In
`DraftVocab` the setting is reread every step, as the code does, and the cached slice is remade when it changed.

### The forward

*LayerForward* keeps `pending`, the `(block_output, injection)` the code leaves to the next hyper-connection, over layers,
image levels and stages; blocks, injections and mixers are constants without a definition, so nothing depends on
what they compute. The code calls `combine` on whichever hyper-connection is at hand; `Combine` does not depend on it.
*ResidualStream* is the same sum taken at once; the refinement maps the streams to `hidden` with `pending` added.

*DraftSteps* has one entry per row in `topk`, named after the round and the row that selected it; `Compact` is
`compact_topk_indices`.

*QsaLayer* binds one buffer after another (a small one to profile with, then the real one) at an address of its own and
forwards batches padded for a graph; a cell remembers the token and the format it was written in. *QsaCompress* is the
pooling kernel with its ring, one program per row; *QsaAttention* one query row, its tiles dealt to programs that run in
any order, with scores that are powers of two so that the running rescale is exact; the real kernel rounds. *Nvfp4* puts
together the bits of a float as the kernel does and reads the number back.

### Engine configuration and weights

*GraphConfig*: `Make` is `__post_init__`, `SetSplittingOps` is `set_splitting_ops_for_v1`, `Resolve` is
`resolve_cudagraph_mode_and_sizes`, called once before and once after memory is profiled. A graph mode is a pair, what
decode and what mixed batches get. *BlockSizes*: the three phases of `update_block_size_for_backend`, called twice. The phases count a token's page each in
their own way: the hybrid one has a page of its own for MLA layers (`TokenPage`), the mixed one takes keys and values for every
layer (`FullPage`). *DeviceIds*, *TpPad*: functions, without state; an entry of the device-control variable is a number or
`NotANumber` (a UUID), whose conversion raises.

*QuantDispatch*: a name is the sequence of its parts, a checkpoint a sequence of entries in the order of the file; reading
either format (with the fields the legacy one requires, and the config groups, which are looked for where the flat one has
them), the vLLM mapper, exclude patterns, the candidates of a name and the five ways of finding an entry. *QuantLinear*:
one linear layer of several shards, parameters that begin as memory nobody wrote, the external loader shard by
shard, `process_weights_after_loading`, which a reload calls again, and `apply`. A second call raises where what it needs
is gone (`Spent`: plain FP8, NVFP4) and transposes the weight of a scale per row back; `apply` then gives anything. The
refusals of input sizes that the kernels do not take are left out. Codes are multiples of 4, so that the scales 1, 2 and 4 are exact:
rounding is left out. *Weights* says what a checkpoint may list and what layers vLLM asks of, with the assumptions under which
an entry is a layer's own.

### The cluster

*ClusterLaunch*: each node holds at most one container, with the launch, rank and settings it was started with. A command
walks the nodes as run.sh does; each start ends in one of the ways the scripts can end (`Unreached`, `Refused`, `NotRun`,
`StartedNotSeen`, `Started`), while containers exit and workers come and go. Two commands never run at once: the scripts
hold no lock, and are given by one operator. Worker settings come from the forwarded variables first, then from the
worker's own `cluster.env`, which may be out of date. Only what is set at the head is forwarded: a setting may be `Unset`
there, and the worker's file then decides. A removal (`Removed`, `NotRemoved`) may fail on a node that is reached, which
the scripts do not notice. The arguments the recipes compute are not modelled.

*Fabric*: `Plan` is `topology.py` on the answers that were heard: the cables over which neighbours answered, or, with none
at all, ports that share a subnet; the first cable of every needed pair; a subnet for those that have none in common.
`Detect`, `Decline`, `Accept`, `Configure`, `Redetect` and `Ping` are `setup.sh` in its order. Answers may be lost in
either probe, a port may refuse its address (`netconfig.sh` fails) and the second probe may fail. A port has one address,
which `netconfig.sh` replaces; link state beyond "plugged in", RoCE GIDs and the LAN are left out.

## 3. Runs

| run | instances and bounds | shows |
|---|---|---|
| `staging_layers` | 2 layers, 2 steps, up to 2 tokens of 2 heads, chunks of 3 rows, 2 threads | safety of the staging buffers, the refinement of `PleLookup`, and that every batch is served |
| `ngrams` | two indices, 3 tokens, 1 draft, padding by a request and a token; one index, 5 tokens, 2 drafts; trigrams | the history property and agreement of the paths |
| `conv` | 3 taps 2 apart; one slot, two requests in turn, 2 drafts, 4 steps; two slots, 1 draft, padding, 3 steps; slots symmetric | rollback over every acceptance; mixes of kinds, order of programs, other windows |
| `algorithms` | 1-5 requests; numbers to 3500; trigrams in 8 bits; all bytes; 1-4 ranks; 3 devices, entries that are no numbers | the pure algorithms against what they should answer |
| `rows` | 1-3 shards of 0-3 rows in two files with one oddity; 3 ranks, 5 rows, 2 per rank; 2 ranks, 3 ids, every k | from the checkpoint to every rank, and the drafts' logits |
| `forward` | 3 layers, 3 stages, every plan; 3 draft steps, 3 requests, 2 rounds; a layer of 4 cells; 2 requests of 5 tokens with a draft, in groups of 3 and a ring of 4; selections of up to 4 tokens in up to 4 tiles | target forward with its refinement, drafts, sparse attention |
| `engine` | 5 formats with states around the page; every graph mode, support, op set, sizes 1-6, directives | pages, graphs, sizes, also on the second call |
| `weights` | up to 3 entries of 8 names; both formats with 5 exclude patterns, 4 cache algorithms, every set of missing fields; 6 formats of a linear layer with 1-3 shards, processed once or again | the method of every layer and what it computes |
| `launch_commands` | 3 nodes, 3 commands; fabrics of 2 nodes with any cabling and address, of 3 nodes with 4 cablings | every failure at every point, docker's included, with a knob set, unset or out of date in each file; step 4 of setup |
| `launch_stop`, `launch_override`, `weights_drafts` | 2 commands; 2 entries and 2 draft layers | the disagreements of section 5 |

One run holds several components when their questions are independent: a variable (`part`, `scope`, `topic` or `question.of`) says
which one a behaviour runs, and the variables of the others stay at rest. Each property speaks of its own part. The parts
do not interact there; where components do interact, it is by what is assumed of the input (any gather result, any
batch, any selection).

Why the bounds are enough.

- *Staging*: one step is a gather of one chunk (inline), another of two chunks that makes the buffer grow, so both
  `_staging_for` branches and both `gather_cpu` branches occur, with the second step overlapping the first's copies; the
  theorems remove the bounds.
- *N-grams*: 5 tokens hold a trigram context, a chunk that starts inside it, an EOS on either side and a rejected draft;
  the other instance is shorter and adds only what a second request can disturb: rows, starts and padding.
  What the properties say of an n-gram does not depend on the bounds the two differ in, so they are stated once.
- *Convolution*: 4 steps are a prompt, the first drafts, a rollback, and the step that reads the result; `MaxChunk` 5
  exceeds `StateLen`, so a chunk may be shorter than, equal to or longer than the window.
- *Algorithms*: 1 to 5 requests cross the powers of two where the step count changes; 8 bits overflow with trigrams of
  tokens below 10 and multipliers above 40; 256 bytes and pages of 4 and 16 are all of them.
- *Rows*: 3 shards are a first, a middle and a last; 5 rows on 3 ranks leave the last with one; k goes from 0 past the
  vocabulary. `RankSlices` is proved for all.
- *Forward*: 3 layers over 3 stages include empty stages and stages of several layers; two batches in a row see the image
  buffer used again. In the ring of `Ratio + Drafts`, the least that holds
  what it must, 5 tokens fill it, wrap it and reject a draft across a group's end.
  Selections on both pages, with tokens past the table and places left empty, reach every mask of the kernel.
- *Engine*: states of 100, 288, 600 and 1000 bytes are below, at and above the page of a block; `qlen` 1-4 against the
  sizes 1-6 gives every remainder.
- *Weights*: three entries are what one lookup can confuse: its own, a near name and a sibling. Two values of unwritten
  memory, one of them above every scale, are enough for a maximum over it to be wrong.
- *Launch*: three commands are a launch, a failed one, and a stop or a third launch. *Fabric*: with two nodes and two
  ports every cabling and address; with three nodes the documented triangle, one cable short, turned, and two at one port,
  with up to three ports addressed. Proved for all.

Deadlock is not checked where requests or commands simply end (bounded steps). It is checked in `staging_layers`.

Fairness, only in `staging_layers`: weak fairness of the host thread (an OS thread with nothing to wait for but what the
guards name), of the pool's threads together and of the stream. No fairness on new batches or on short reads. It is
justified as each is an ordinary running thread or the GPU; nothing stronger is used.

## 4. Proofs

For every value of the constants under the assumptions named in the modules:

- `PleStaging_proofs` (`SizesAssumption`): `TypeCorrect`, `ForwardCorrect`, `FailureContained`, `BufferReuseSafe`,
  `Refinement`. `TypeCorrect` is of the types and of `ReadsStayInside`: what a chunk still has to read is among the ids of
  its own part of its gather and has a place in the pinned buffer in use. `ForwardReadsItsStep` alone is not inductive: it speaks of reads already done. `IInv` adds what is still to
  come: `StreamWillLeave` says what the operations on the stream will have left in a staging row when a given one runs, `StreamInv` that each pending forward will find its step's rows, `CopyInv` that each pending
  copy's source is intact, `GatherInv` how far the chunks are (and that nothing is pending meanwhile), `OrderInv` that
  steps are in order. The key step is that `StartGather` waits for the stream, so no copy is pending while buffers are
  written. The proof has one lemma per conjunct and, in it, one step per action. The refinement maps `seen` to `out`:
  `GpuForward` is `Deliver`, `Prepare` and `PrepareDummy` are `Submit`, all else stutters.
- `Cluster_proofs`, `run.sh` (`LaunchAssumption`): `LaunchedIsWhole` and `HeadIsLast` from `IInv == Sound /\ Progress`
  (`Progress`: the nodes before the one the command is at hold its ranks), `RanksAgree` from `AgreeInv` (every container of
  the current command has the head's forwarded settings, where the head has one, none is of a later one), `StopReachesTheRest`
  from `StopInv`.
- `TableRows_proofs`, the slices (`SliceAssumption`): `SumIsCopyHolds`. Each id has exactly one owner (`OneOwner`, `SomeOwner`);
  the inductive invariant says the sum so far is the row where its owner has been added and zero where not, so no
  addition ever carries, and the order does not matter.
- `TableRows_proofs`, the table (`TableAssumption`): `RowsAreTheirOwnHolds`, `ReadersAgreeHolds`. `TableInv` says that every
  shard that is filed has the rows the loader expects of it, under its own number, and that a refusal had a reason. With the
  total checked by the scan that leaves no row without a shard (`RowsOfShardsIs`), so a row's offset lies in its tensor and in
  no other (`CellIs`). The latter rests on the one thing assumed of a file, that its tensors do not overlap: the weight
  iterator opens the same files with the safetensors library, which refuses others. The contiguous reader is compared with a
  closed form of what is left to read (`BytesFrom`), which satisfies the loop's equation and is the only solution of it.
- `TableRows_proofs`, the drafts (`DraftAssumption`): `LogitsOfPrefixHolds` from `DraftInv`: what a rank keeps is its rows of the
  target's head below the setting it was kept for (`Kept`), its buffer is those logits and zero elsewhere (`PartOf`), and
  the sum of the buffers is the prefix (`TotalIs`), as each id has one holder.
- `Forward_proofs`, the streams (`LayerAssumption`): `ForwardImplementsStreams` and `MixerHasItsInputHolds`. The invariant says
  where the forward may be (`PlanInv`, `PlaceInv`: nothing is pending where a stage begins or an embedding is added) and
  which pictures the buffer holds (`BufferInv`: without it a later batch could read those of an earlier one).
- `Cluster_proofs`, step 4 of setup (`FabricAssumption`): `GivenStayFree`, `ReportedLinksAreReal` and, of all of `FabricIsWhole`,
  `FabricIsWholeHolds`. A plan is `SoundLinks` when its new addresses are in subnets no port has, two by two apart; the
  invariant adds `GiftsKept`, that a port in a subnet that was given has the very address given. That the numbers `topology.py`
  goes through hold a free one is a counting argument (`ThirdIsFree`). That step 4 settles where nothing goes wrong needs
  what a plan is `Planned` for: chosen cables meet in no port (`CablingChosen`, from the errors that were not reported),
  each is joined or given one new address at either end, no port is given two. While ports are configured every chosen
  cable is joined and untouched, or given for (`OnCourse`); when all is set the second look finds every cable joined, has
  nothing to assign (`AllJoined`), and each ping is answered (`JoinedAnswer`).
- `TokenSearch_proofs`: `FindsTheRequestHolds`, by `Bracket`: the answer is between `lo` and `hi`, whose distance is below
  the power of two left.
- `NgramIds_proofs` (`NgramAssumption`): `KeptGramsAreOfHistoryHolds`, `PathsAgreeHolds`, `NgramTypeHolds`, and of the
  operators `ProductFitsHolds`, `TokenProductFits`, `PaddingIsLeast`. The invariant is
  `RequestsInv` (what the runner keeps), `BuffersType` (the buffers, whatever an earlier batch left in them),
  `BatchHeld` (`input`, `qsl` and `ctx` are those of the batch, padded), `KernelHeld` (every n-gram written is what the
  walk finds in those buffers) and `KeptHeld` (what was kept is that of the history). The torch path and the kernel are
  each shown to be the same walk back to the last EOS. No product of a token and a multiplier overflows for every width
  and vocabulary, since the halved bound made odd again stays below the quotient.
- `ShortConv_proofs` (`ConvAssumption`): `OutputsAreOfHistoryHolds` and `WindowHoldsHistoryHolds`. Neither is inductive: in
  the middle of a step some windows are already moved and some rows not yet read. In the invariant `HasRun` says which
  programs of which launch have run; a chunk's window is `OldWindow` until its mover (the convolution itself for decode,
  the write-back for the rest) has run for it and `NewWindow` after; a row is empty until its program ran and then holds its
  one output (`RowHeld`). It also has that the launches are `Queued`, each once, a convolution before the write-back of its
  windows, and that what a launch is given follows from the batch (`LaunchOk`). The kernels' in-place shifts are loops: at
  each turn the window is `Mixed`, new below and old above, and no place is read after it was overwritten. Which program
  of a launch runs first makes no difference because each touches its own request's window only.
- `Forward_proofs`, drafts and sparse attention (the assumption of each module): `RowsReadTheirSelectionHolds` from `LayerInv` (every token is in the cell
  of its own slot of the bound buffer in the format the layer reads; views that are kept are of an address handed out
  once); `QueriesFindTheirHeadHolds`, division alone; `SelectionIsReusedHolds` from `DraftInv`, for one MTP layer, which
  is what the released drafts have: a second one would be run in a later step with a buffer no step of the round has
  filled; `PooledIsHistoryHolds` from `IndexInv`. The last needs
  `RingIsWide`, a ring of at least `Ratio + Drafts - 1` places: `ops_qsa.py:880` checks only that the ring is not smaller
  than a group, and with fewer places rejected drafts overwrite a group that is still being collected.
- `Engine_proofs` (`GraphAssumption`, `BlockAssumption`): `SupportedIsResolvedHolds` from `ModeInv` and `RotaryInv`;
  `GatherStaysOutsideHolds` from `PlainInv`; `SizesFitHolds` from `SizesInv` (sizes are as asked, or rounded without a gap,
  `Fitted`, which resolving again leaves alone), with the compile ranges a partition; `PagesAgreeHolds` from `BlockInv`
  and `SettleInv`. For the latter, `Begun`, `PadOf` and `Ended` say what one call chooses from the block it begins with;
  `HybridStays` and `MixedIs` that what it chose is chosen again by the call after. The pages agree on `Shared`: the attention
  page, or twice that of MLA layers when some layers are in bf16. `BlockAssumption` asks of an NVFP4
  cache a head of at least two values, without which its page would be empty.
- `TableRows_proofs`, the algorithms (`AlgorithmsAssumption`): `RequestIsFoundHolds`, `HashesAgreeHolds`, `CacheIsNvfp4Holds`,
  `HeadsKeepTheirsHolds`, `PaddingSplitsHolds`, `NamesOneDeviceHolds`; and `HeadsStayApart`, for which `next_prime` is shown to pass
  no prime (`NextPrimeIs`) and so to go up from head to head (`PrimesAscend`). A product or xor that wraps stays in two's complement
  range, and the truncated remainder of the kernel, corrected, is the mathematical one of torch, so both are the same
  row of the same partition. The places of scales on a page are told apart by their two coordinates. Replicated heads
  and padded blocks are facts of division: `i \div (n * m)` is `(i \div n) \div m`. A padded size is a multiple, so
  padding it again adds nothing.
- `Forward_proofs`, the softmax (`AttentionAssumption`): `OutputIsSoftmaxHolds`. In the middle of the run a program's sums are
  neither normalised nor at the final maximum: the invariant says that they are the sums over the columns of the tiles it has
  done, rescaled to the largest score among them. The tiles of all programs partition the columns, columns masked
  out add nothing, and merging rescales all to the same maximum; since the scores are powers of two each rescale is exact.
- `Engine_proofs`, the method of a layer (`WeightsAssumption`): `FormatsAgreeHolds`, `OwnEntryDecidesHolds` and
  `DisagreementIsRefusedHolds`. The assumption is that the names a checkpoint lists stay apart when vLLM maps them, that it
  numbers its draft layers from 0 and that nothing is listed below a linear layer; `RawInv` is that each of these is listed once.
  A candidate of a name that finds an entry is then one of the layer's own names, and a fused projection finds its own
  shards or nothing, in any of the five ways of finding. The last two also assume `OneDraftLayer`: with two, finding 3
  of section 5 is a counterexample. For `FormatsAgreeHolds` (`ConfigIs`, `MappedIs`) both formats are read into configs that
  differ in two fields at most, the cache algorithm and whether NVFP4 is of the weights alone, and the theorem says to which
  layers, of which class, either difference comes through (`SameMethod`), and what only the legacy format is refused for.
- `Engine_proofs`, a linear layer (`WeightsAssumption`): `OutputIsOfTheCheckpointHolds` from `LinearInv`. Before all is loaded a
  parameter is part memory nobody wrote, part checkpoint: `CreatedOf` says what the shards loaded so far have put where, which
  needs that a block of scales never lies in two shards (`BlocksFit`). `ProcessedOf` is what each format makes of it,
  one lemma per format, and `apply` undoes exactly that; that requantization divides exactly rests on the scales being
  powers of two. The theorem is conditional where the code is: `ScaleIsShared` (the code warns otherwise), `ScalesAreWritten`
  (an NVFP4 tensor that is fused on disk leaves scales unwritten) and `Ready` (not processed again with a scale for each row).

A module that puts components side by side (`SparseForward`, `Engine`, `TableRows`, `Weights`) is proved about by lifting:
a step of the whole is a step or a stutter of the component at hand (`StepOfOne`, `StepOfGraph`, `StepOfBlocks`,
`StepOfTable`), and its invariant, under `part = ...`, `scope = ...` or `topic = ...`, is inductive for the whole. A property is proved of the very definition the run checks.

Functions that recurse over numbers are reasoned about in two steps: `WFMin` of the library gives that a set of naturals
closed under successor is all of them (`SetInduction`), and with it that a function with the defining equation exists
(`RecursionExists`), so that the CHOOSE a recursive definition stands for satisfies it. Each such proof is then of a set
of the numbers up to which the claim holds.

Only model-checked: `EveryBatchServed`, which is liveness under fairness and out of the provers' reach, and two facts of
number theory in `TableIsDivided`, which would go by induction over data: that `_is_prime_64` with its seven bases decides primality,
and that the search for the next prime ends. The rest of `TableIsDivided` is proved: `ProductFitsHolds`, and `HeadsStayApart`, which
has the second fact as its hypothesis `PrimesAreMet` (Bertrand's postulate: there is a prime between any number and its double).
The run computes every such search up to its bound, where it would stop were one without an answer.

## 5. Findings

1. `run.sh stop` reports "stopped ... on" every node and its help says it stops the container on every node in NODES, but
   `stop_on` discards ssh failures: a worker that cannot be reached keeps its container (`launch_stop`).
2. `kit/lib/cluster_env.sh` says an environment variable overrides every key for one launch. Keys outside `FORWARD_VARS`
   (`TP3_HCAS`, `LAN_IF`, `TP2_*`, ...) change the head's rank only, the workers use their file (`launch_override`).
3. `modelopt.py:1715` says the draft-local candidate serves "single- and multi-layer MTP", but the candidates of every draft
   layer begin with draft layer 0: with two draft layers of different algorithms, the second gets that of the first
   (`weights_drafts`). The checkpoint served here has one draft layer, for which `OwnEntryDecides` holds.

Observed while modelling, not shown by a run:

- `qsa.py:289` keeps the NVFP4 views of a cache by the buffer's address. Were a smaller buffer freed and a larger one put at
  the same address, the old views would be used. The model hands out each address once; whether the engine can do
  otherwise while a layer lives is outside the repository.
- `topology.py:124` avoids a subnet only if a fabric port has exactly that one. A larger network that contains it, or the
  LAN's, can be given again; in the model subnets are equal or disjoint and the LAN is absent.
- `setup.sh:210-217` reports the errors of the first plan; those of the plan made after configuring are not looked at (the
  pings that follow catch what they cover). `Fabric` models it as it is.
- While new workers come up, the old head may still run; a failed launch leaves the workers it started (`LaunchIsWhole`
  speaks of launches that report success).
- `common.sh:26` forwards variables "so every rank runs the same config", and `forward_env` forwards those that are set. One
  that neither the environment nor the head's `cluster.env` nor `common.sh` sets is left to each worker's own `cluster.env`, so
  ranks differ when a worker's file is an old one. `ForwardedAgree` speaks of the settings the head has; of the others it
  says only that no override for one launch is among them.
- `stop_on` and the stop of `run.sh` drop docker's failures as well as those of ssh: a node that was reached keeps its container when
  `docker rm -f` fails. `StopMissesOnlyFailed` counts both; finding 1 is about what is then reported.
- `modelopt.py:773` looks for `config_groups` beside `quantization`, never under it: a checkpoint described by the legacy format
  alone stays NVFP4 with quantized activations, also when only its weights are quantized, which is the case the comment at
  768-771 says zeroes experts.
- The cache of a mixed-precision checkpoint quantized otherwise than as FP8 is kept from the legacy format and dropped from
  the flat one (`modelopt.py:328-336`).
- The scales of NVFP4 are created without a sentinel (`modelopt.py:1931, 1979`) and combined by `max()` (1965, 1998): a tensor
  fused on disk, which brings one scale for several shards, leaves the others as the memory was, unless the loader outside
  the repository fills them.
- `process_weights_after_loading` (`modelopt.py:2460`) can be called again for block scales and MXFP8 only. Plain FP8 raises, as
  its scale has become one number (2052), NVFP4 as its scales are deleted (1967, 2004), and the weight with a scale per
  row is silently transposed back (2113).
- The mixed phase of `platforms_interface.py` counts a page of keys and values for MLA layers too (690-707), the hybrid phase
  an MLA page (813-821): with bf16 layers beside MLA layers, the pages of states and bf16 layers are twice the attention
  page, not equal to it as the docstring at 672 has it. `PagesAgree` states the factor.
- One entry of the device-control variable that is no number, as a UUID is, makes every logical device's visible number an error
  (`platforms_interface.py:328-331`), while a mapping set by the launcher still names the physical ones.
- `platforms_interface.py` writes no padding when states fill a page exactly; should bf16 layers then enlarge the page,
  the states' pages are not padded. `PagesAgree` names this case, and TurboQuant beside bf16, as not covered.

## 6. Not modelled

- Arithmetic: floating point of the layers and kernels, rounding of quantization, the splitmix function, the factor the
  drafts' logits are multiplied with (`mtp_draft_vocab.py:500-502`), the same for all ranks and ids.
- The refusals of sizes no kernel takes when a linear layer is created (`modelopt.py:1916, 2135, 2184`).
- The mmap mode's gather inside the forward (`ple_layer.py:613`): the argument is that of the staged path (the
  synchronous copy of the ids drains the stream), and this second caller has no model of its own.
- The e5m2 copies of the sparse attention (`qsa_e5m2.py`, `ops_qsa_e5m2.py`): the same control as `qsa.py` and `ops_qsa.py`
  with another cache format; the models are of the latter.
- The kernel that scores and takes the top k: which tokens are selected is any choice; what is done with the selection is
  modelled.
- The experts' quantization methods (`modelopt.py:603-706, 840-1466`): which one an expert layer gets is modelled, their
  weights' conversion calls kernels outside the repository.
- Weight loading by name and the vision tower (`model.py`, `mtp.py`); hashing, printing and the compile cache
  (`compilation.py`); the constants and stubs of `platforms_interface.py`.
- Setup's steps 1-3 and 5-9: commands run one after another (ssh, apt, docker, download) whose outcomes are those of the
  tools. The kit's one-shot tools, benches, tests and docs. The docker arguments the recipes build, `status` and `logs`.

What could be added next: the mmap gather as a second caller in `PleStaging`.
