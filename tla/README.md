# Perkunas: a TLA+ model of the training store and its trainer

This directory models parts of the Perkunas AI training platform in TLA+, checks them
with TLC on small instances and proves theorems about them with TLAPS. Source paths are
relative to the repository; `v2/` stands for
`training/src/perkunas_training/perkunasv2/`.

## The system

Two programs share the repository and no state.

**The shard-native trainer** (`training/`, `v2/`). A model is a list of *shards*
(embeddings, one per block, final norm, lm_head). Only a few are in memory at a time; a
run directory on disk holds the rest. Training one step visits every shard three times or
more: a forward pass, an optional pass that collects gradients, an update pass from the
last shard to the first, and, when the guard is on, a replay of the batch.

| component | state it keeps | operations | hard behaviour | what makes it correct |
|---|---|---|---|---|
| Step transaction (`v2/shard_store.py`, `ShardStepTransaction`) | staging directory of the open step, set of staged shards | open, stage parameter, stage optimizer, commit, abort | a crash between any two file operations; several attempts per step | the live shards change as a whole or not at all |
| Save queue (`_save_payload*`, `_pending_saves`) | bounded queue of writes, one thread | enqueue, write, wait for a path, flush | writes finish late, fail, or race the commit | a commit publishes only what is on disk |
| Train loop and resume (`v2/trainer.py`, `train`) | `trainer_state.json`, in-memory state | step, record, resume with repair, discard stale staging | crash between publication and record | no step lost, none applied twice |
| Guarded step replay (`_run_guarded_step_update`) | attempt number, losses | update, replay, accept, retry, skip, accept at exhaustion | several transactions per step, decisions on replayed state | the loss decided on is the candidate's; rejected candidates leave no trace |
| Payload cache and prefetch (`_cached_param_payloads`, `_pending_prefetches`) | LRU of payloads, reads in flight | prefetch, reap, load, save, invalidate | a thread reads live files while they are replaced | what is computed with is what is published or staged |
| Module cache (`_cached_modules`) | LRU of built modules | build, reuse, update in place, evict, invalidate | outlives transactions | never an earlier version |
| Active store (`active_run_dir`) | copy of the run on fast disk, manifests | seed from durable, flush to durable | crash inside a copy | a durable archive of one step |
| Residency limits | shards in use | mark active, release, enforce | nested contexts, exceptions, overlapping requests | the limit is kept and no use leaks |
| Backward pass and optimizers | gradients, running averages per shard | replay a shard, clip, update, stage | deferred gradients, head chunks, a change of optimizer | the step of a resident model |
| Archive formats and storage plan | files per shard | split, write, publish, join, allocate | boundaries, another number of parts than before | join after split is the identity; no old file is read with new ones |
| C4 tokenization (`v2/c4_tokenize.py`) | progress per split, packed shards, manifest | tokenize row batches, publish a shard, resume | crash between a shard and the progress | no token lost, repeats bounded |
| Packed loader (`train/dataset.py`, `_loader`) | order of an epoch | read block after block | starts anew on resume | the same order for the same seed |
| C4 streaming (`v2/c4_training.py`) | stream position, remainder | step, record the position, resume | crash between the shards and the record | no text skipped, repeated steps bounded |
| Shard inference and serving (`v2/inference.py`, `v2/serve.py`) | one store and generator per run | generate, compare, preload | requests on a thread pool share the store without a lock | tokens from the right context; failures leave nothing behind |
| Dense training (`train/`) | checkpoint directories, `latest` | save, update latest, resume | crash inside a save, a copy or a removal | what loads is one save |
| Audit (`v2/maintenance.py`), exports (`v2/hf_export.py`) | none of their own | read a run | boundaries | |
| Telemetry dashboard, command lines, data preparation | none of their own | | | |

**The serving runtime** (`src/kvserve/`). An HTTP process that answers chat requests with
one of several backends and manages the KV memory of its sessions.

| component | state it keeps | operations | hard behaviour | what makes it correct |
|---|---|---|---|---|
| Orchestrator (`orchestrator.py`) | active request count | complete, stream, admit | concurrent coroutines, disconnects, backend errors | what is admitted is released |
| KV control plane (`kv/control_plane.py`) | allocations | admit, store, record prefix, release | stale references | pages live as long as their allocation |
| KV pager (`kv/paging.py`) | pages, their tier, files | put, get, move, evict, prefetch, delete | payload in memory, on disk or both | a registered page can be read back |
| Prefix index (`kv/prefix.py`) | handles by tenant and model | lookup, insert, evict tenant | near matches | no tenant sees another's prefix |
| Policy, pruning, compression, quantization planner | none | pure functions | borders of bytes, groups and thresholds | what is stored decodes; a plan fits the hardware |
| API, rate limiter, MCP, metrics | buckets, counters | per request | | |

How they interact: the trainer calls the store; the store's caches, prefetch thread and
writer thread act between its calls; the transaction reads the store's paths and
invalidates its caches; the process is the only writer of a run directory. In the server,
routes call the orchestrator, which calls control plane, backend and metrics in turn, each
call synchronous except the backend's.

## Plan

| step | modules | status |
|---|---|---|
| 1 | `AtomicSteps`, `ShardTransaction`, `ShardTransaction_proofs`, `ShardCache`, `ActiveStore`, `KVPager`, `KVControl` | done |
| 2 | `StepUpdate`, `ShardStorage`, `KVCodec`, `ServingPlan`, `Algorithms`, `C4Corpus`, `C4Tokenize`, `C4Stream`, `TrainingData`, `ShardServing`, `DenseCheckpoint` | done |
| 3 | `Checkpoints_proofs` (of `ActiveStore` and `DenseCheckpoint`), `ShardCache_proofs`, `KVControl_proofs`, `StepUpdate_proofs`, `ShardServing_proofs`, the pager's part of `KVServing_proofs` | done |
| 4 | `TrainingData_proofs` (with `C4Tokenize` and `C4Stream`), the algorithms' part of `KVServing_proofs` | done |

`ShardTransaction` and `ShardCache` are two views of the same store: the first takes a
publication apart file by file and forgets the caches, the second publishes in one step and
keeps the caches. `ActiveStore` takes a whole step for one action and looks at
the copies of the run directory around it. The first two meet in two places. `ShardTransaction` loads live files wherever the
code loads a shard; `ShardCache!TrainsOnPublished` and `NoLostUpdate` are what justifies
that. `ShardCache` publishes atomically; `NoReadDuringPublish`, a part of `CachesCoherent`,
says nobody looks meanwhile. `StepUpdate` in turn looks inside the forward and update passes
of one step and leaves the caches out: a shard that is read after it was staged may give
either version. `ShardStorage` takes apart the file that `ShardTransaction` replaces in one
operation. `TrainingData` composes `C4Tokenize` and `C4Stream` over one `C4Corpus`.

## Modules

### `AtomicSteps`

What a run directory promises: one version of the model and one record of the last step.
`Publish`, `Record`, `Repair`, and `Torn`, after which nothing is promised (the LLD's
"Current known gap": a process killed inside the publishing loop).

### `ShardTransaction`

The files of a run directory, the trainer process, its writer thread and the faults that
end the process.

| in the module | in the code |
|---|---|
| `params`, `optim` | `shards/params`, `shards/optim`: per shard no file, or how many updates it holds and which transaction wrote it |
| `txnParams`, `txnOptim` | `shards/transactions/step_<N>/` |
| `saved`, `state` | `trainer_state.json` and the dictionary in `train` |
| `pending` | `_pending_saves` with the save executor's queue (one worker) |
| `pc`, `shard`, `attempt`, `staged_params`, `staged_optim`, `committed` | where `train`, `_run_*_step_update` and `commit` are, and their locals |
| `Resume`, `DiscardStale` | `_reconcile_state_with_optimizer_shards`, `discard_stale_transactions` |
| `BeginStep`, `StageParam`, `StageOptim`, `WriterStep` | forward pass and `begin_step_transaction`, `save_parameter_shard`, `save_optimizer_state`, the save thread |
| `CommitCandidate`, `RetryStep`, `SkipStep` | the outcomes of a guarded attempt |
| `BeginCommit`, `UnlinkParam`, `UnlinkOptim`, `ReplaceParam`, `ReplaceOptim`, `EndCommit` | `commit`, one file operation at a time |
| `RecordStep` | `save_trainer_state` after the step |
| `Crash`, `StepFails` | the process dies; an exception ends it through `abort` |

Abstracted: the weights (a version number), the losses (any outcome of a guard decision),
part files (one file per shard and kind, replaced atomically as `save_payload_atomic` does),
tokens, RNG and scheduler state, logs, checkpoint markers. A store without a save executor
writes at once; that is the schedule in which the writer thread always goes first.
`torn`, `skips` and `faults` are history variables, read by properties and by the bound on
faults.

### `ShardCache`

The payload cache, the prefetch thread and the module cache, driven by the passes the
trainer makes. A version names the transaction that wrote it. The replacement policy is
left open, so the results do not depend on the code's LRU. Settings are explored as a set
of configurations: window, residency limit, module cache on or off, guard on or off, master
weights in the payload or not.

### `ActiveStore`

Training with `--active-run-dir`: the durable run directory, the active copy of it, and the
two copies between them, file by file in the order `os.walk` meets the files. A file is the
number of steps it stands for. All files of the run directory itself are one
(`trainer_state.json`), as they are copied before any subdirectory is entered; a step
updates every shard; a torn publication inside the active store is `ShardTransaction`'s.
`AuditClean` is `audit_run`, as far as it compares files: it knows only single `.pt` files,
and cannot see that parameters of different steps are side by side. Its checks of shapes
and of NaNs are left out.

| in the module | in the code |
|---|---|
| `durable`, `active` | `durable_run_dir`, `active_run_dir` |
| `published` | `published_step` of `durable_flush_manifest.json` |
| `todo` | the files `copy_run_tree_atomic` has still to copy |
| `Prepare`, `SeedFile`, `EndSeed` | `_prepare_active_store_from_durable` and the manifest of the active store |
| `Resume`, `TrainStep`, `ForwardFails`, `Finish` | `train` |
| `FlushFile`, `EndFlush` | `flush_active_to_durable`, when `ShouldFlush` (`_maybe_flush_active_store`) |
| `Crash`, `PowerLoss` | the process dies and both directories stay; the RAM disk is lost too |

`durableTorn` and `activeTorn` are history: part of a copy was made, or a torn archive was
seeded from. They are set by what the faults cut, never read by an action of the trainer.

### `KVPager`

The pager as a component of its own, called in any order. A call is one action, because
nothing in it awaits; a call that writes or reads files may raise at any page of its loop,
and `Stopped` says how far it may have come: every page before the one it stops at is done.

| in the module | in the code |
|---|---|
| `tier` | `page.tier` of the pages in `self.pages`; "new" and "gone" for ids not in it |
| `resident`, `files` | pages with a `payload`; pages with a `path`, which names a file |
| `scraps` | `.tmp` files of failed writes |
| `earlier` | the order of `last_accessed_at`: of each registered page, those accessed before it |
| `Put`, `Get`, `Move`, `EvictLru`, `Prefetch`, `Delete` | the methods of those names |

Abstracted: payloads (a page has one, which never changes), the clock (accesses are totally
ordered), failures of `unlink`, the order of a prefetch (any order).

### `KVControl`

Chat requests on one asyncio loop. An action is what a coroutine does between two points
where it is suspended; `KVPager` is used through `INSTANCE`, with its variables and its
`Put` and `Delete`, the two methods the server calls.

| in the module | in the code |
|---|---|
| `pc` | where the coroutine of `complete_chat` or `stream_chat` is suspended |
| `active_requests`, `allocations` | the attributes of those names |
| `prefixes` | `_by_exact` with each handle's `kv_ref`; `Near` is what SimHash compares |
| `Admit`, `AdmissionFails` | `_admit` and `_materialize_control_plane_kv_if_supported`, up to the first await or yield |
| `PageToCpu` | `KVPolicyEngine.decide`, as far as `store_kv` reads it |
| `EnterStream`, `CloseAtFirstChunk` | what becomes of a stream suspended at its opening chunk |
| `Finally` | the finally blocks: count down, record the prefix, release |

Left out: requests that are refused before admission, embeddings and reranking (no state),
pruning and compression (a page has a fixed size), `enforce_pressure` and `evict_tenant`,
which nothing in the server calls.

### `StepUpdate`

One optimizer step of `train` at a time, shard by shard. Tensors are reduced to their
provenance: an activation is the list of weight versions it went through, a gradient is its
micro-batch, its activation, the versions above its shard and how often each token was
counted. `ResidentGradient` and `ResidentFactors` say what a model that is resident as a
whole would compute, and `MatchesResidentStep` compares.

| in the module | in the code |
|---|---|
| `boundaries`, `upstream` | the trace of `forward_trace`, the gradients handed down |
| `active`, `tuning` | `active_param_shards`, `active_optimizer_shards` |
| `payloads`, `staged`, `stored` | the list of `ShardGradientPayload`, the open transaction, the shards |
| `ForwardShard`, `EnterShard`, `BackwardTrace` | `forward_trace`, `active_module`, `_update_lm_head` .. `_update_embeddings` |
| `CaptureGradients`, `EnterDeferred` | `_collect_*_gradient`, `_apply_deferred_gradient` |
| `LoadOptimizer`, `StepAndSave`, `Commit` | `load_optimizer_state`, `_optimizer_step_and_save`, `commit` |
| `Relaunch` | a resume, perhaps with another `--optimizer` |

### `ShardStorage`, `KVCodec`, `ServingPlan`, `Algorithms`

Pure algorithms. `ShardStorage` is the payload as safetensors parts (`split_flat_tensors`,
`safetensors_payload_parts`, `_existing_payload_paths`, `load_safetensors_payload_parts`),
the files of a publication that is cut, `allocate_storage_shard_plan`, and the export
writer `SafetensorShardWriter`. A tensor is its elements with the write they come from.
`KVCodec` is `pack_signed_nbit`, group quantization, FP8 E4M3, `prune_kv_tokens` and the
tiers of `SelectiveKVCompressor`; `ServingPlan` is the policy table and the quantization
planner. `Algorithms` takes one input and computes one answer, any of them where the code
leaves a choice (`argpartition`). A quantized number is what is read back times `Qmax`, an
FP8 magnitude is in half steps of the smallest number, so that all of it is integers.

A group's scale is used as it is for the codes and stored as a float16, and what is read back
is multiplied by the stored one. `HalfSteps` are the distances of neighbouring float16 numbers
in the binades from the subnormal ones up, `ScaleFloor` is the least scale. In the code they
are 2^-24 .. 2^5 and 1e-8: in units of 2^-24/390625 that is 390625 * 2^k for k in 0..29, and
65536. Every other value of these constants that `CodecAssumption` allows is a floating-point
format of 11 significant bits over another range. Arithmetic in float32 is taken as exact, and
the rotation that surrounds the quantization is not modelled: a row is what is between the
rotation and its inverse, and residuals are left out.

### `C4Corpus`, `C4Tokenize`, `C4Stream`, `TrainingData`

`C4Corpus` is the text: rows with a file, a row batch and a number of tokens; a token is
the row it comes from and its number there, so that the text has an order and nothing needs
to be summed up. `C4Tokenize` is the job of `c4_tokenize.py` with its files, `C4Stream` the
program of `c4_training.py` with its position and its record, `TrainingData` adds the packed
loader and composes them.

| in the module | in the code |
|---|---|
| `progress`, `shards`, `temporary`, `manifest` | `<split>_progress.json`, `<split>_*.npy`, `.tmp.npy`, `manifest.json` |
| `job` | the locals of `tokenize_split` and its `C4PackedTokenWriter` |
| `stream`, `state` | `C4ParquetTokenStream` and the step; `trainer_state.json` |
| `updates`, `trained` | history: what the shards, or the recorded steps, were trained on |
| `loader`, `orders` | the iterator of `_loader`; the shard order that seed + epoch gives |

Left out: `--overwrite`, evaluation, and a loader with fewer blocks than a batch, in which
`infinite_loader` goes round without end. `Shuffles` is the
set of orders that `rng.shuffle` may give; `OrderOf` takes one the first time an epoch is
opened, and the same from then on, which is all that a seed promises. `LaunchTraining` assumes
of the operator that a packed run is not started before its tokenization has ended: `_loader`
itself reads whatever shards there are, and a run that is started earlier reads other batches
when it is resumed.

### `ShardServing`

The test host for shard runs: FastAPI runs its synchronous handlers on a thread pool, and
they share one `ParameterShardStore` per run. A request goes through `active_module` for
every shard of every token.

| in the module | in the code |
|---|---|
| `active`, `cached` | `active_param_shards`; `_cached_modules`, of each cached shard those less recently used |
| `request[r].at` | where in `active_module` the thread is |
| `request[r].held` | the module it has: its own, the cached one, or one moved away by an eviction |
| `request[r].keys`, `sampled` | the positions in the KV cache; per sampled token the positions it saw |
| `Arrive`, `ArrivePreload`, `Reject` | completions, chat, generate, compare; `preload_modules`; 404 and 400 |
| `Enter`, `TakeHit` | the lookup of `active_module`, and what follows a hit |
| `CheckMiss`, `LookAgain`, `Retake`, `PutModule`, `Evict` | `active_module_with_payload` with its own lookup after the load, `_put_cached_module`, one eviction at a time |
| `Mark`, `Enforce` | `_mark_param_active`: the entry, and the limits checked after it |
| `Use` | the forward of a shard, the end of the context, the check of the logits, the token |

Threads switch between these steps. That a test of membership and the dictionary operation
after it are one step (`Mark`) rests on CPython, which switches threads at calls and loops only;
no lock of the store protects them. Two more pairs are one step for brevity, although a thread
could be switched between them: the check of a hit against the limit and its move to the end of
the cache, and the search for the module to evict and its removal.

### `DenseCheckpoint`

`save_checkpoint`, `update_latest` and `load_checkpoint` of the dense trainer, file by file,
and the loop of `train` around them. A file is the launch and the step whose state it holds,
or `Partial` while it is written. `optimizer.pt` stands for `scaler.pt` too, and
`trainer_state.json` for `config.json`. Rank 0 alone is modelled, which is the one that
writes. `cut` and `misled` are history: a finished checkpoint was cut while it was
overwritten or removed, and a run was resumed from such remains.

## Runs

| run | instance | result |
|---|---|---|
| `ShardTransaction` | 4 shards, 2 steps, 1 replay, queue of 2, 2 faults, every process in any mode | 128,754 states; all properties hold |
| `ShardTransactionTornResume` | 3 shards, 1 fault, no guard | `ResumeRefusesDisagreement` violated |
| `ShardCache` | 4 shards, 3 transactions, all settings | 84,121 states; all properties hold |
| `ShardCacheGuard` | prefetch off, no module cache | `GuardEvaluatesCandidate` violated |
| `StepUpdate` | 4 shards, 2 micro-batches of 3 tokens, chunks of none, 2 and 3 tokens, every optimizer and clip mode, global optimizer off and every 2nd step, residency limit 1, 3 steps, 2 launches | 13,344 states; all properties hold |
| `ActiveStore` | 2 shards, 3 steps, flush after 2 and 3, 4 faults | 34,128 states; all properties hold |
| `Algorithms` | up to 4 parts of 1 to 3 tensors, exports of up to 4 tensors, codes of 2 to 4 bits, a float16 of three binades, 5 tokens, every decision of policy and planner | 51,663 states; all properties hold |
| `TrainingData` | 2 files of 3 row batches, sequences of 2 tokens, shards of 2 blocks, 3 limits, 5 packed and 6 streamed steps recorded every 2nd and every 3rd, 2 crashes | 15,396 states; all properties hold |
| `DenseCheckpoint` | 2 steps saved every 1, 2 or 3, 3 launches, 2 crashes | 674,531 states; all properties hold |
| `ShardServing` | 2 requests at a time, 3 shards, residency limits 1 and 2 with and without module cache and second run, 2 positions, prompts of 1 and 2 tokens, 3 new tokens | 5,457,854 states up to symmetry; all properties hold |
| `KVPager` | 3 pages of sizes 1 and 2, two of one request, evictions of up to 3 bytes | 10,488 states; all properties hold |
| `KVControl` | 3 requests, 2 tenants, 2 prompts near each other, all policies, with and without KV to store | 94,912 states; all properties hold |

Why the bounds are enough. Four shards give the publishing loop a first, an inner and a
last iteration, and the cache a window that is smaller than, equal to and larger than what
is left of a pass. Two steps with two faults contain a crash after the first publication, a
resume, a second publication and a crash inside it, and a fault of the resumed process;
what a third step would add starts from a state the second has. One replay makes a retry, an exhaustion and a skip possible.
A queue of two is shorter than one shard's two files plus the next one's, so enqueueing waits. `ActiveStore`
needs two shards to tear a directory, a step that is flushed periodically, one that is not
and a last one, two faults so that a cut copy is followed by a power loss and seeded from,
and two more for what comes of that: a process that dies between the last file of a copy and
its manifest has made a whole copy, torn exactly if what it copied was. With two faults TLC
does not reach the case; the proof of the invariant came upon it. The proofs remove the bounds, for all safety
properties but the two on folds; there the runs are for what the properties say of real
schedules, and for the mutants. Three pages
give an eviction loop a first, an inner and a last iteration. Three requests are one that
has ended, one in flight and one admitted; one of their pages fills 83 percent of the GPU
budget, between the thresholds of the policies, and two at a backend count as high
concurrency (16 in the code). `StepUpdate` has one block, which is the shard that is neither
first nor last, two micro-batches so that a gradient is accumulated, and three tokens so that
a chunk of two leaves a remainder; its third step is the one after a periodic step of the
global optimizer. `Algorithms` enumerates sizes around each boundary: fewer elements than
parts, as many, and more; codes that end on, before and behind a byte. In `TrainingData` a
document is longer than a sequence, one fills a block exactly, one is dropped and one is
shorter than a sequence; five packed steps pass into a second epoch, six streamed ones into
a second round of the files. `DenseCheckpoint` has a save interval that divides `max_steps`,
one that is `max_steps` and one that exceeds it, and a second crash for the launch that was
resumed from what the first left. In `ShardServing` a cached module can be evicted between
two calls of another request at both limits, and at limit 1 two requests meet behind the
check that both passed; answers outgrow the positions with and without KV cache. Its settings
are all combinations but one, limit 2 with a module cache and two separate runs (`MCSettings`):
separate runs have caches that share nothing, so what two cached modules of a store can do to
requests is there with one run, and what a change of store does is there with a cache of one.
The float16 of `Algorithms` has a floor below half its first step, so rows of zeros, rows with
subnormal scales, scales at the border of two binades and scales beyond the largest number all
occur; the theorem holds for the code's.

What the passing runs show.

- `OnlyWholeUpdates`: outside the publishing loop the live files of all shards come from
  one attempt of one step, after any number of aborted attempts, crashes and exceptions.
- `RollForwardPossible`: at every point of the publishing loop the new files of every shard
  exist, moved or staged. The code has no tool that uses this (whitepaper, "Add recovery
  tooling for incomplete commits"), and a restart deletes the staged ones.
- `ResumeIsExact`, `RecordFollowsShards`, `NoStepLost`: record and shards stay in step, in
  three strengths: exactly, when nothing was skipped; by one step, always; and no recorded
  step is missing from the shards unless the guard skipped it.
- `ImplementsAtomicSteps`: all of it together is an `AtomicSteps`. A reader's model changes
  at the first unlink of a publication; everything after it is invisible unless cut.
- `EventuallyTrained`: a run that is not torn reaches `max_steps`.
- `CachesCoherent`, `TrainsOnPublished`, `NoLostUpdate`, `GuardSeesHeldCandidate`: what a
  pass computes with is what it should be, and no prefetch is in flight when `commit` starts
  to unlink files, although no line of `commit` waits for one. The last three exclude, by
  name, the settings under which they fail (`KeepsStaleModules`, `HoldsCandidate`).
- `CacheBudget`: payloads cached and on their way fit the window together.
- `MatchesResidentStep`: streaming, replaying, chunking and deferring do not change the step.
  `OptimizerInStep`: resume may trust the shards' counter, and the shards agree on what their
  running averages have seen, also after a change of optimizer.
- `ArchiveKept`: unless a copy is cut, both directories are whole runs of one step; a cut
  archive has a record that is ahead of its shards, never behind; and what makes a resume
  refuse or fail is a finding of the audit it asks for. `TrainsOnAWholeStore`: so is the
  active copy trained on.
- `BoundedLoss`: how far training can be ahead of the archive. It grows by an interval with
  every fault: a process that dies between a step and its flush is restarted past the step,
  and nothing makes up for the flush, not even for that of the last step.
- `UsedPayloadsWhole`: a cut publication in any number of parts, over any number of old
  ones, is read back whole, refused, or, where only the optimizer state was cut, possibly in
  part: averages whose part is missing silently start anew at the step of the others.
- `PartsAddUp`, `TokensByImportance`, `PlansHold`: plans, tiers and decisions against what they
  are for.
- `StoredValuesDecode`: low-bit codes decode exactly, FP8 within half a step. A group-quantized
  number is off by half a step of its group at most, and besides by what rounding the scale to
  float16 adds for each of up to `Qmax` steps, half a 1024th of the scale or half the least
  float16; so a group whose scale is tiny comes back as zeros, and one whose scale rounds past
  the largest float16 comes back as inf and nan. The property says exactly when.
- `TokenizedOnce`, `StreamSkipsNothing`, `RepeatedStepsBounded`: no crash loses text, and
  what it repeats is bounded: a block once more per crash, `trainer_state_every` updates per
  launch of the streaming program, which has no repair on resume.
- `ResumeReplays`: a resumed packed run takes the batches of the run's first steps again,
  under later step numbers.
- `LoadedIsWhole`, `CrashKeepsCheckpoint`: a dense checkpoint that loads is one save, and one
  crash leaves one, with the exceptions the properties name: the save after the last step
  goes over a finished checkpoint with `_SUCCESS` in place when `max_steps` is a multiple of
  `save_interval`, and the removal of `latest` can stop between its files. A missing
  `optimizer.pt` is skipped on resume without a word.
- `ResidencyHeld`, `SampledFromContext`, `ErrorsNeedCompany`: overlapping requests may fail each
  other, at the limit or by an evicted module. A request that overlaps none can only fail by
  its own logits, which are refused when they are not finite. What fails, for either reason,
  leaves nothing behind, and what succeeds was computed from the right positions.
- `PagesKept`: no sequence of pager calls and failures loses a payload or a page file.
  `EvictsAsAsked`: which pages an eviction takes, and how many, also if it raises half way.
- `RequestsAccounted`, `GpuBounded`, `TenantIsolation`: what concurrent requests share stays
  consistent however each of them ends. `RequestsAccounted` says exactly what is left behind:
  the KV of streams closed at their opening chunk and of admissions that failed half way, for
  good; and that every page a request in flight counts on is registered and in memory.

What the violation runs show. Each quotes a document; details are in `PROJECT.json`.

- A store torn while its first step is published passes the audit on resume, because a
  shard without an optimizer file is not looked at.
- The guard replays through caches and live files, never through the staging directory; with
  the default settings its decision does not depend on the candidate.

### Known divergences without a run

These are stated in the modules, TLC finds each violated, and no run checks them.

- `RepairFollowsShards` (`ShardTransaction`, with `MCSkip` and one fault): after a skipped
  step the record can lag one update behind the shards without being repaired, as the repair
  compares the optimizer counter with `global_step`; whitepaper, line 786.
- `ModulesFollowSaves` (`ShardCache`, with `MCGuardModules`): a module cache smaller than the
  model keeps modules of the previous version across the commit of a guarded step; LLD, line
  817, "Invalidate cached payload/module on save".
- `PrefixesUsable` (`KVControl`): the prefix index names only KV that has just been released.
- `PreviousPublicationKept` (`ActiveStore`): a durable flush that is cut leaves neither the
  previous publication nor the new one; whitepaper, line 759.
- `ExactPackedResume` (`TrainingData`): a resumed packed run does not train a step on the
  blocks the uninterrupted run would have used, although
  `docs/perkunasv2_c4_training.md` speaks of exact token-shard resume; `ResumeReplays` says
  what it does.

### Fairness

`FairSpec` assumes weak fairness of the trainer's next step and of the writer thread: a
live process executes, and its executor's worker drains its queue. `Resume` is among the
trainer's steps: `EventuallyTrained` is about a run that somebody restarts until it is
done. In `ActiveStore` it is the trainer's next step
alone. Faults are bounded by `MaxFaults` and never forced. No fairness is assumed of a
choice: the guard may reject everything and still the run ends, as attempts are counted.
`StepUpdate` assumes that its one thread goes on (`Advance`); a relaunch is never forced.
`TrainingData` assumes it of whichever program is in use, its start included: somebody
starts a job again that died. `DenseCheckpoint` and `ShardServing` state no liveness.

## Proofs

`ShardTransaction_proofs` proves, for every number of shards, steps, replays, queue slots
and faults and every set of modes: `TypeCorrect`, `WholeUpdates`, `RollForward`,
`ExactResume`, `RecordFollows`, `StepsKept`, and `Refinement` (`Spec =>
ImplementsAtomicSteps`). The assumptions are the four named ones of `ShardTransaction`:
there is at least one shard and one queue slot, the bounds are numbers, there is a mode,
and no file is not a version.

None of the properties is inductive. The invariant that is, `IndInv`, has four parts.

- `TypeOK`.
- `QueueInv`: the queue is empty outside staging, its jobs write exactly the update of the
  live file, and what is counted as staged is written or still queued. This is what turns
  the flush and the completeness check of `commit` into "every staged file is on disk, and
  is the right one" (`FlushedIsStaged`).
- `PublishInv`: where each shard's new files are, relative to the loop index. With
  `QueueInv` it gives `RollForwardPossible`, torn or not.
- `WholeInv`: while nothing was torn, the publishing loop is turning one version into its
  successor (`Publishing`), the store is uniform everywhere else, and the record is at the
  shards' step or one behind, according to where the trainer is (`RecordAt`, `RecordDue`).

The step proof has a step per action; those that move files in the loop share
`PublishingMoves`, those between steps share `AtRestStep`. The refinement maps the abstract
version to `Published`: the first unlink of a publication is `Publish`, `RecordStep` is
`Record`, a `Resume` that repairs is `Repair`, a fault inside the loop is `Torn`, the rest
stutters.

`Checkpoints_proofs` proves, of `DenseCheckpoint`, `LoadedWhole` (`LoadedIsWhole`) and `CheckpointKept`
(`CrashKeepsCheckpoint`) for every number of steps, set of save intervals, number of launches
and of crashes, from `DenseAssumption` alone. Neither is inductive, since both speak of a
process that is down: the invariant `DenseInv` says what a crash would find at every point of
a save and of the replacement of `latest`. Beside `TypeOK`, and as long as no run was misled,
it holds

- what is in memory is of one launch and one step (`MemoryUniform`);
- outside the directory that is being rewritten, `_SUCCESS` closes a whole checkpoint unless
  a crash has cut it (`Settled`);
- the files behind the save are those of what is in memory, and `_SUCCESS` comes last where
  there was none (`SaveInOrder`): this makes a crash in a save harmless, but for one that
  goes over a finished checkpoint;
- the saved checkpoint stays whole while `latest` is replaced, and `latest.tmp` is, as far as
  it goes, a copy of it (`CopyInOrder`);
- before the first crash `latest` is whole whenever a finished checkpoint exists and it is
  not itself being replaced (`LatestKept`), from which `OneKept` follows at the crash.

The step proof has a lemma per action or pair of actions for the types, and one for what is
consistent; `PutEffect` and `UnlinkEffect` say once what writing or removing a file changes.
The Booleans are left out of `DenseTypeOK`, as no step needs them.

Of `ActiveStore` it proves `DurableRun` (`ArchiveKept`), `WholeTraining`
(`TrainsOnAWholeStore`) and `LossBounded` (`BoundedLoss`) for every number of shards, steps and
faults and every flush interval. The invariant follows a copy file by file: the record of a
directory is copied first, and what has been visited is equal on both sides
(`CopyUnderWay`); a record is never behind its shards (`RecordsLead`); a directory that no
copy has cut holds one step (`WholeStores`); an active directory without its record and
metadata holds nothing but files of the archive (`SeedOnly`). `AheadBy` is the strengthening
of `BoundedLoss`: before a flush is due the active store is less than one interval ahead,
each fault excuses one flush, and the last step's flush needs an excuse of its own.

`ShardCache_proofs` proves `CachesTellTheTruth` (`CachesCoherent`), `UpdatesBuildOnPublished`
(`NoLostUpdate`), `PassesUsePublished` (`TrainsOnPublished`), `GuardJudgesCandidate`
(`GuardSeesHeldCandidate`) and `WindowHolds` (`CacheBudget`) for every number of shards and
transactions and every setting in which the window is not larger than the residency limit,
as `effective_prefetch_window` makes it. `CacheBudget` is the hard one, because the code
counts cached and pending payloads apart. A cache that is full stays full until an abort
empties it; one that is not has kept everything the pass has visited, and whatever is on its
way lies ahead, together with all that is visited before it (`Filling`, `Wanted`). So a
payload that is added is either one that was on its way, or nothing is on its way.

`KVServing_proofs` proves, of the pager, `PagesSafe` (`PagesKept`) and `EvictionsAsAsked` (`EvictsAsAsked`) for
every number of pages of any sizes and spans. `PagesKept` is inductive together with the
finiteness of the registry, which gives a loop that raises a first page it did not reach. An
eviction stops at the first page with enough older ones: `EnoughVictims` takes the least
such page under the strict subset order of what is older, and `EvictsOldest` says that
wherever the loop raises, what it took is older than what it left.

`KVControl_proofs` proves `Accounts` (`RequestsAccounted`), `GpuHeld` (`GpuBounded`) and
`TenantsApart` (`TenantIsolation`) for every number of requests, tenants and prompts, any
relation of nearness and any budget.
Added to the three invariants: a handle in the index names KV of its own tenant and prompt
(`HandlesNamed`), and what is counted is finite (`Counted`). A theorem of an instantiated
module cannot be cited in this prover, so the two pager calls the server makes, `Put` and
`Delete`, have lemmas of their own (`PagePut`, `PageReleased`).

`StepUpdate_proofs` proves `StreamedIsResident` (`MatchesResidentStep`) and `CountsAreSteps`
(`OptimizerInStep`) for every number of blocks, micro-batches, tokens, steps and launches and
every set of head chunks, periods and optimizers. The invariant says, for each place in the
passes, which versions an activation went through, how far each micro-batch's gradient has
been handed down and what is accumulated (`Activations`, `Gradients`), what the collecting
pass has put by (`PutBy`), and that what is staged is the resident model's update (`Staged`).
`CountedOnce` is the arithmetic under the head: chunks of any size cover every token once,
the remainder included.

`TrainingData_proofs` proves `TokenizedOnceAlways` (`TokenizedOnce`),
`StreamSkipsNothingAlways` (`StreamSkipsNothing`), `RepeatedStepsAlwaysBounded`
(`RepeatedStepsBounded`) and `ResumeReplaysAlways` (`ResumeReplays`) for every text, however it
is cut into rows, row batches and files, any sizes of sequences, shards and batches, any
`max_docs`, intervals and shuffles, and any number of crashes. There is one invariant per
program, and none of the four properties is inductive.

`TokenizeInv`, of the tokenizing job:

- `JobPlaced`: the job is inside the row batch its progress leads to, and has packed nothing
  before it read the batch's first row. So what it records is where it is.
- `ReadKept`: everything before a split's progress is published or in the recorded buffer, and
  everything before the job's row is published, in its blocks or in its buffer.
- `TextPacked`: a buffer is a stretch of the text that ends at the row the reader is at
  (`TextUpTo`), hence a packed block is a window of it, and so is what the next document is
  appended to. A split that `max_docs` cut is exempt, since its batch is read again, and so
  is everything once such a split has been read on.
- `CopiesBounded`: a block can be published again only after a crash. While a job runs, a block
  that lies behind its buffer (`Past`) may be there once more than there were crashes before;
  one that is still ahead may not, and a crash pays for the difference.
- `TemporaryRewritten`: a crash between `np.save` and `os.replace` leaves a `.tmp.npy`, and
  every launch before the manifest writes that file again. This is the hard part, because it is
  about what a later launch will do: `WillPack` holds when from the recorded buffer the rows of
  the batch fill a sequence before the next record is written. The sums are carried by a
  witness, a function from rows to token counts (`Counts`), in place of a fold.
- `ManifestLast`: the manifest is written when no job runs and no half-written file is left.

`StreamInv`, of the streaming program: what the stream is past was trained on, is in the step
being taken, or is in its buffer (`StreamKept`). The record keeps only the last `seq_len`
tokens of the buffer and a file number, so the text of earlier files has to be within those:
`InFile` says that it is in the part of the buffer that the record will keep. `StepsCounted` is
the arithmetic of recorded and unrecorded steps, launch by launch: the record is written at the
next multiple of `trainer_state_every` at the latest (`NextDue`), whatever `save_every` adds.

`LoaderInv`, of the packed loader: in an epoch of which `p` batches were taken, the blocks not
read are those behind `p * BatchSize` of the epoch's order (`LoaderAt`), and the batches taken
are those of a run that begins anew (`Replays`). It rests on `ManifestLast`, as the list of
shards does not change once there is a manifest, and on orders that are drawn once.

The algorithms' part of `KVServing_proofs` starts from the lemma `AnswersInvariant`: a behaviour has an
input of its subject and one of the subject's answers. `PlansHoldAlways` (`PlansHold`) is an
analysis of the cases of the policy table and of the planner, for every machine that
`detect_hardware` describes. `TokensByImportanceAlways` (`TokensByImportance`) holds for any
number of tokens and any scores: the compressor numbers the retained tokens anew, and `Kept` is
shown to be an order-preserving bijection (`KeptRank`, `RankKept`), which makes the tiers of
the new numbers a partition of the old ones and the scores theirs. `StoredValuesDecodeAlways`
(`StoredValuesDecode`) has three parts. For low-bit codes, bit `j` of code `i` is bit
`(i - 1) * width + j` of the packed row (`PackedBits`), every byte is the sum of its eight bits,
and what the unpacker cuts out of one byte or two is the code at each of the eight offsets
(`ReadAt`). For rows, the scale of a group bounds its numbers (`GroupScaleBounds`), so nothing
is clipped and a code is off by the rounding alone (`NumberQuantized`, `RoundDivClose`). The
stored scale is within half the float16 distance at it (`StoredScale`, by `HalfStepOf`, which
finds the binade), and `NumberDecoded` puts the two errors together. For FP8, a normal magnitude
lies between two powers of two (`ExponentOf`), and a mantissa that rounds up to 8 is the next
exponent's 0 (`NormalRestored`). The lemmas hold for codes, rows and magnitudes of any size;
the theorem's inputs are those of `Inputs`, of which the rows and bounds are constants. The
assumption there is that rows consist of integers.

`ShardServing_proofs` proves `ResidencyKept` (`ResidencyHeld`), `TokensFromContext`
(`SampledFromContext`) and `FailuresNeedCompany` (`ErrorsNeedCompany`) for every number of requests,
shards, positions and tokens and any limits and prompts. Four parts are added. The limit on
computing follows at the check after the load: the requests inside are as many as the shards
entered (`UsersCounted`), so those that compute are no more than the limit. `KeysHeld`: a KV
cache that is in use holds all positions from the first to the last but one and has room,
which is why extending it never differs from the window. `Company`: two requests in flight
are both marked. `Unhurt`: a request without company has a module that nobody moved, and the
hit it found is still there; that it never evicts its own module is the argument about least
recent use in `OwnModuleStays`.

The assumptions of each are the named ones of its module, which TLC evaluates on the run.
All of them are about the constants: sizes are numbers and mostly not zero, sets of requests
are finite where they are counted, tokens such as `NoFile` are no data.

Only model-checked:

- `EventuallyTrained` (in two modules), `EventuallyDone` and `EventuallyFed`: liveness under
  fairness is outside the prover.
- `UsedPayloadsWhole` and `PartsAddUp`: splitting, dealing, joining and planning are folds,
  sorts and sums of the community modules, over sequences of any length. What such a fold
  computes needs induction over data, whose theorems take an operator as parameter, which the
  installed provers cannot instantiate. Where one plain statement about numbers needs it, it is
  argued from a least counterexample (`LargestOf`); that does not reach the folds.

## Not modelled

Tensor arithmetic (floating point), the Hadamard rotation and the low-rank codec of the KV
compression; tokenizers and data preparation (sequential file to file); the telemetry
dashboard, which reads logs and renders pages; command lines; `prepare_backup` and
dequantization of an archive; the mapping of parameter names in exports; model libraries and
the wrappers around them; HTTP parsing, authentication, the token bucket of the rate limiter,
the MCP server and metrics, each of whose handlers is one synchronous step. `PROJECT.json`
lists every component with its status and what a partly modelled one leaves out.

## Running

    tlc -workers 2 -config ShardTransaction.cfg MCShardTransaction.tla
    tlc -workers 2 -config ShardCache.cfg MCShardCache.tla
    tlc -workers 2 -config StepUpdate.cfg StepUpdate.tla
    tlc -workers 2 -config ActiveStore.cfg ActiveStore.tla
    tlc -workers 2 -config Algorithms.cfg MCAlgorithms.tla
    tlc -workers 2 -config TrainingData.cfg MCTrainingData.tla
    tlc -workers 2 -config DenseCheckpoint.cfg DenseCheckpoint.tla
    tlc -workers 2 -config ShardServing.cfg MCShardServing.tla
    tlc -workers 2 -config KVPager.cfg MCKVPager.tla
    tlc -workers 2 -config KVControl.cfg MCKVControl.tla
    tlapm ShardTransaction_proofs.tla
    tlapm Checkpoints_proofs.tla
    tlapm ShardCache_proofs.tla
    tlapm StepUpdate_proofs.tla
    tlapm ShardServing_proofs.tla
    tlapm TrainingData_proofs.tla
    tlapm KVServing_proofs.tla
    tlapm KVControl_proofs.tla
