----------------------------- MODULE ShardCache -----------------------------
(***************************************************************************)
(* The caches between the trainer and its parameter shards: the payload    *)
(* cache with its prefetch thread and the cache of built modules of        *)
(* perkunasv2/shard_store.py, driven by the passes perkunasv2/trainer.py   *)
(* makes over the shards: forward, gradient collection, update, the replay *)
(* of a guarded step, validation.                                          *)
(*                                                                         *)
(* A version names the transaction that wrote it.  The truth about a shard *)
(* is its staged version while a transaction has staged it, and its live   *)
(* file otherwise.  A transaction is published in one step here; module    *)
(* ShardTransaction takes that step apart.  Which entry a full cache gives *)
(* up is left open (the code gives up the least recently used), so what    *)
(* holds here holds for every replacement policy.  The optimizer payloads  *)
(* have a cache of the same kind of their own; the trainer's commands to   *)
(* it are the update pass's.                                               *)
(***************************************************************************)
EXTENDS Naturals, FiniteSets

CONSTANTS
  NumShards,  \* in shard_names() order: a forward pass goes up, a backward pass down
  Configs,    \* the store and trainer settings to consider
  MaxTxns,    \* bound of the model: transactions begun in a behaviour
  None,       \* no entry
  Unread      \* a prefetch the thread has not read yet

Shards == 1..NumShards
Ver == 0..MaxTxns

\* window: effective_prefetch_window(), 0 with prefetch off; resident:
\* max_resident_shards; modules: cache_active_modules; guarded: guarded_step_replay;
\* master: master_weight_dtype keeps master weights in the payload.
Config == [window : Nat, resident : Nat \ {0}, modules : BOOLEAN, guarded : BOOLEAN,
           master : BOOLEAN]

ASSUME ShardsAssumption == NumShards \in Nat \ {0, 1} /\ MaxTxns \in Nat
ASSUME ConfigsAssumption == Configs \subseteq Config /\ \A c \in Configs : c.window <= c.resident
ASSUME TokensAssumption == None \notin Ver /\ Unread \notin Ver /\ None # Unread

VARIABLES
  config,    \* fixed for a run
  live,      \* shard -> version of its live file
  staged,    \* shard -> version in the open transaction, None if not staged
  cache,     \* _cached_param_payloads
  inflight,  \* _pending_prefetches: Unread, then the version the thread read
  modules,   \* _cached_modules
  pc,        \* the pass under way
  idx,       \* its position
  ahead,     \* the prefetch before this position's shard is still to be issued
  seen,      \* shard -> version this pass computed with
  base,      \* shard -> version its staged update was computed from
  txns

store == <<live, staged, base, txns>>
vars == <<config, live, staged, cache, inflight, modules, pc, idx, ahead, seen, base, txns>>

Nothing == [s \in Shards |-> None]
Held(f) == {s \in Shards : f[s] # None}
Truth == [s \in Shards |-> IF staged[s] # None THEN staged[s] ELSE live[s]]

TypeOK ==
  /\ config \in Configs
  /\ live \in [Shards -> Ver] /\ base \in [Shards -> Ver]
  /\ staged \in [Shards -> Ver \cup {None}]
  /\ cache \in [Shards -> Ver \cup {None}]
  /\ modules \in [Shards -> Ver \cup {None}]
  /\ seen \in [Shards -> Ver \cup {None}]
  /\ inflight \in [Shards -> Ver \cup {None, Unread}]
  /\ pc \in {"forward", "collect", "update", "evaluate", "validate", "done"}
  /\ idx \in 0..(NumShards + 1) /\ ahead \in BOOLEAN /\ txns \in Ver

Init ==
  /\ config \in Configs
  /\ live = [s \in Shards |-> 0] /\ base = [s \in Shards |-> 0]
  /\ staged = Nothing /\ cache = Nothing /\ inflight = Nothing /\ modules = Nothing
  /\ seen = Nothing
  /\ pc = "forward" /\ idx = 1 /\ ahead = TRUE /\ txns = 0

-----------------------------------------------------------------------------
\* What is left of f when only `limit' entries may stay, `must' (the newest) among them.
Trimmed(f, limit, must) ==
  LET n == IF Cardinality(Held(f)) < limit THEN Cardinality(Held(f)) ELSE limit
  IN  {[s \in Shards |-> IF s \in kept THEN f[s] ELSE None] :
         kept \in {k \in SUBSET Held(f) :
                     Cardinality(k) = n /\ (limit > 0 => must \subseteq k)}}

\* A mutant of PutPayload: a save drops the old payload and does not cache the new one.
UncachedPutPayload(c, s, v) == {[c EXCEPT ![s] = None]}

\* _put_cached_payload, and _put_cached_module (no module is in use when it runs)
PutPayload(c, s, v) == Trimmed([c EXCEPT ![s] = v], config.window, {s})
PutModule(s, v) == Trimmed([modules EXCEPT ![s] = v], config.resident, {s})

\* _reap_completed_prefetches: whatever the thread has read moves into the cache.
Reaped == Trimmed([s \in Shards |-> IF inflight[s] \in Ver THEN inflight[s] ELSE cache[s]],
                  config.window, {})
Unfinished == [s \in Shards |-> IF inflight[s] \in Ver THEN None ELSE inflight[s]]

Distance(s, t) == IF s > t THEN s - t ELSE t - s

\* prefetch_shards: of the wanted shards, beginning with the one the pass is at, those
\* neither cached nor pending are scheduled while the window has room.
Scheduled(c, f, wanted, at) ==
  LET missing == {s \in wanted : c[s] = None /\ f[s] = None}
      Rank(s) == Cardinality({t \in missing : Distance(t, at) < Distance(s, at)})
  IN  [s \in Shards |->
         IF s \in missing /\ Cardinality(Held(c)) + Cardinality(Held(f)) + Rank(s) < config.window
         THEN Unread ELSE f[s]]

\* The prefetch thread reads the live files.
ThreadReads(s) ==
  /\ inflight[s] = Unread
  /\ inflight' = [inflight EXCEPT ![s] = live[s]]
  /\ UNCHANGED <<config, cache, modules, pc, idx, ahead, seen, store>>

-----------------------------------------------------------------------------
UpPasses == {"forward", "evaluate", "validate"}
DownPasses == {"collect", "update"}
\* The training forward pass computes no loss and leaves out the last shard (lm_head).
Last == IF pc = "forward" THEN NumShards - 1 ELSE NumShards
Up == pc \in UpPasses /\ idx \in 1..Last
Down == pc \in DownPasses /\ idx \in Shards

\* _prefetch_shard_window before each shard of a pass
PrefetchAhead ==
  /\ ahead
  /\ Up \/ Down
  /\ ahead' = FALSE
  /\ \E c \in Reaped :
       /\ cache' = c
       /\ inflight' =
            LET to_come == IF Up THEN idx..Last ELSE 1..idx
            IN  Scheduled(c, Unfinished, {s \in to_come : Distance(s, idx) < config.window}, idx)
  /\ UNCHANGED <<config, modules, pc, idx, seen, store>>

\* A mutant of LoadPayload: the load does not look for the shard's own prefetch.
CarelessLoadPayload(s) == inflight' = Unfinished

\* _load_parameter_payload: reap, wait for this shard's own prefetch, else read live.
LoadPayload(s) ==
  /\ inflight[s] # Unread
  /\ inflight' = Unfinished
Payload(c, s) == IF c[s] # None THEN c[s] ELSE live[s]

CachedModule(s) == config.modules /\ modules[s] # None
\* active_module_with_payload: the cached module, or one built from the payload p
BuiltModules(s, p) == IF config.modules /\ modules[s] = None THEN PutModule(s, p) ELSE {modules}
ModuleVersion(s, p) == IF CachedModule(s) THEN modules[s] ELSE p

\* forward_trace: active_module, which needs no payload when the module is cached.
ForwardShard ==
  /\ ~ahead
  /\ Up
  /\ IF CachedModule(idx)
     THEN /\ seen' = [seen EXCEPT ![idx] = modules[idx]]
          /\ UNCHANGED <<cache, inflight, modules>>
     ELSE /\ LoadPayload(idx)
          /\ \E c \in Reaped :
               /\ cache' = c
               /\ modules' \in BuiltModules(idx, Payload(c, idx))
               /\ seen' = [seen EXCEPT ![idx] = Payload(c, idx)]
  /\ idx' = idx + 1 /\ ahead' = TRUE
  /\ UNCHANGED <<config, pc, store>>

\* _collect_*_gradient: the same with the payload always loaded, and no update.
CollectShard ==
  /\ ~ahead
  /\ pc = "collect" /\ Down
  /\ LoadPayload(idx)
  /\ \E c \in Reaped :
       /\ cache' = c
       /\ modules' \in BuiltModules(idx, Payload(c, idx))
       /\ seen' = [seen EXCEPT ![idx] = ModuleVersion(idx, Payload(c, idx))]
  /\ idx' = idx - 1 /\ ahead' = TRUE
  /\ UNCHANGED <<config, pc, store>>

\* What an update of a module of version v is computed from: the master weights of
\* payload p, if it has any.
UpdatedFrom(p, v) == IF config.master THEN p ELSE v

\* _optimizer_step_and_save: the module in use is updated in place, from the master
\* weights of the payload if there are any, and save_parameter_shard stages the result:
\* it drops the old payload and any pending prefetch of the shard, and caches the new one.
UpdateShard ==
  /\ ~ahead
  /\ pc = "update" /\ Down
  /\ LoadPayload(idx)
  /\ \E c \in Reaped :
       LET p == Payload(c, idx)
           v == ModuleVersion(idx, p)
       IN  /\ cache' \in PutPayload([c EXCEPT ![idx] = None], idx, txns)
           /\ modules' \in IF config.modules
                           THEN {[m EXCEPT ![idx] = txns] : m \in BuiltModules(idx, p)}
                           ELSE {modules}
           /\ seen' = [seen EXCEPT ![idx] = v]
           /\ base' = [base EXCEPT ![idx] = UpdatedFrom(p, v)]
  /\ staged' = [staged EXCEPT ![idx] = txns]
  /\ idx' = idx - 1 /\ ahead' = TRUE
  /\ UNCHANGED <<config, pc, live, txns>>

-----------------------------------------------------------------------------
StartPass(pass) ==
  /\ pc' = pass
  /\ idx' = IF pass \in DownPasses THEN NumShards ELSE 1
  /\ ahead' = TRUE
  /\ seen' = Nothing

\* begin_step_transaction and the start of backward_update; global clipping and the
\* periodic global optimizer collect all gradients before they update.
BeginTransaction ==
  /\ txns < MaxTxns
  /\ txns' = txns + 1
  /\ \E pass \in DownPasses : StartPass(pass)

ForwardDone ==
  /\ pc = "forward" /\ idx > Last
  /\ BeginTransaction
  /\ UNCHANGED <<config, live, staged, cache, inflight, modules, base>>

CollectDone ==
  /\ pc = "collect" /\ idx = 0
  /\ StartPass("update")
  /\ UNCHANGED <<config, store, cache, inflight, modules>>

\* gradient accumulation, and a validation of several batches: the same pass once more
NextMicroBatch ==
  /\ pc \in UpPasses /\ idx > Last
  /\ StartPass(pc)
  /\ UNCHANGED <<config, store, cache, inflight, modules>>

\* _batch_loss_for_traces: the same batches again, up to the loss
EvaluateCandidate ==
  /\ pc = "update" /\ idx = 0
  /\ config.guarded
  /\ StartPass("evaluate")
  /\ UNCHANGED <<config, store, cache, inflight, modules>>

\* _prime_next_step_prefetch, and then the next step or a validation pass
PrimeAndGoOn(c0, f0) ==
  /\ cache' = c0
  /\ inflight' = Scheduled(c0, f0, {s \in Shards : s <= config.window}, 1)
  /\ \/ StartPass("forward")
     \/ StartPass("validate")

ReadyToCommit ==
  \/ pc = "update" /\ idx = 0 /\ ~config.guarded
  \/ pc = "evaluate" /\ idx > Last

\* commit, whether the guard accepted the candidate or gave up rejecting it
Commit ==
  /\ ReadyToCommit
  /\ live' = staged
  /\ staged' = Nothing
  /\ \E c \in Reaped : PrimeAndGoOn(c, Unfinished)
  /\ UNCHANGED <<config, modules, base, txns>>

\* A mutant of DropStaged: abort removes the staged files and leaves the caches alone.
ForgetfulDropStaged(f) == f

\* abort: what the transaction staged leaves every cache.
DropStaged(f) == [s \in Shards |-> IF staged[s] # None THEN None ELSE f[s]]

\* A mutant of RejectAndRetry: abort invalidates the payloads and not the modules.
ModuleKeepingRetry ==
  /\ pc = "evaluate" /\ idx > Last
  /\ cache' = DropStaged(cache) /\ inflight' = DropStaged(inflight)
  /\ staged' = Nothing
  /\ BeginTransaction
  /\ UNCHANGED <<config, live, base, modules>>

RejectAndRetry ==
  /\ pc = "evaluate" /\ idx > Last
  /\ cache' = DropStaged(cache) /\ inflight' = DropStaged(inflight)
  /\ modules' = DropStaged(modules)
  /\ staged' = Nothing
  /\ BeginTransaction
  /\ UNCHANGED <<config, live, base>>

RejectAndSkip ==
  /\ pc = "evaluate" /\ idx > Last
  /\ modules' = DropStaged(modules)
  /\ staged' = Nothing
  /\ PrimeAndGoOn(DropStaged(cache), DropStaged(inflight))
  /\ UNCHANGED <<config, live, base, txns>>

ValidateDone ==
  /\ pc = "validate" /\ idx > Last
  /\ StartPass("forward")
  /\ UNCHANGED <<config, store, cache, inflight, modules>>

Done ==
  /\ pc = "forward" /\ idx = 1 /\ txns = MaxTxns
  /\ pc' = "done"
  /\ UNCHANGED <<config, live, staged, cache, inflight, modules, idx, ahead, seen, base, txns>>

Stopped == pc = "done" /\ UNCHANGED vars

TrainerStep ==
  \/ PrefetchAhead \/ ForwardShard \/ CollectShard \/ UpdateShard
  \/ NextMicroBatch \/ ForwardDone \/ CollectDone \/ EvaluateCandidate
  \/ Commit \/ RejectAndRetry \/ RejectAndSkip \/ ValidateDone \/ Done

PrefetchThread == \E s \in Shards : ThreadReads(s)

Next == TrainerStep \/ PrefetchThread \/ Stopped

Spec == Init /\ [][Next]_vars

-----------------------------------------------------------------------------
\* Every staged version stays in the payload cache, or every module in the module cache:
\* then a guarded replay need not go back to the live files.
HoldsCandidate ==
  \/ config.window >= NumShards
  \/ config.modules /\ config.resident >= NumShards

\* A guarded replay of a candidate that is not held builds modules from the live files,
\* and a module cache keeps them.
KeepsStaleModules == config.guarded /\ config.modules /\ ~HoldsCandidate

\* Whatever the prefetch thread read and whenever it read it, a payload in the cache is
\* the truth about its shard, and a payload on its way is of a shard no one has staged:
\* _invalidate_cached_payload in save_parameter_shard and abort.
PayloadsCoherent ==
  \A s \in Shards :
    /\ cache[s] # None => cache[s] = Truth[s]
    /\ inflight[s] # None => staged[s] = None /\ inflight[s] \in {Unread, live[s]}

\* While a step is published no prefetch is reading or waiting to read: nothing else keeps
\* the prefetch thread off the files commit() unlinks and replaces.
NoReadDuringPublish == ReadyToCommit => inflight = Nothing

\* The payload cache and its thread never come between a shard and its truth.
CachesCoherent == TypeOK /\ PayloadsCoherent /\ NoReadDuringPublish

\* An update is computed from the published weights it replaces, so publishing it loses
\* no earlier update.
NoLostUpdate ==
  ~KeepsStaleModules \/ config.master =>
    \A s \in Shards : staged[s] # None => base[s] = live[s]

\* Forward, gradient and validation passes compute with published weights only, never
\* with a rejected candidate and never with an earlier publication.
TrainsOnPublished ==
  (pc # "evaluate" /\ ~KeepsStaleModules) => \A s \in Shards : seen[s] \in {None, live[s]}

\* When the guard decides, the loss it has is the candidate's, if the candidate is held.
GuardSeesHeldCandidate ==
  (pc = "evaluate" /\ HoldsCandidate) => \A s \in Shards : seen[s] \in {None, staged[s]}

\* Memory: the payloads cached and those on their way fit the window together, although
\* they are counted apart and a save adds to the cache without looking at the prefetches
\* ("With prefetch enabled, it also becomes a cache budget", whitepaper "Prefetch and
\* Residency").
CacheBudget == Cardinality(Held(cache)) + Cardinality(Held(inflight)) <= config.window

\* lld "Guarded Step Replay Safety Overlay", 3: "The trainer replays the same batch with
\* `compute_loss=True`" and 4: "The candidate is accepted when: loss_after <= ...": the
\* loss that decides is the loss of the staged candidate.
GuardEvaluatesCandidate ==
  pc = "evaluate" => \A s \in Shards : seen[s] \in {None, staged[s]}

\* lld "Failure Modes": "Shard cache becomes stale after writes" is met by "Invalidate
\* cached payload/module on save".  Between steps every cached module is the published one.
ModulesFollowSaves ==
  (pc = "forward" /\ idx = 1) => \A s \in Shards : modules[s] \in {None, live[s]}
=============================================================================
