------------------------------ MODULE StepUpdate ------------------------------
(* One optimizer step of the layer-streaming trainer: the forward traces of    *)
(* every micro-batch with one shard resident at a time, and the backward pass  *)
(* that replays them shard by shard from the head to the embeddings, scales,   *)
(* clips, updates and stages each shard.  The question is whether the pieces   *)
(* add up to the step a fully resident model would take.                       *)
(*                                                                             *)
(* Tensors are abstracted to their provenance.  An activation is the sequence  *)
(* of weight versions it went through; a gradient is the micro-batch, the      *)
(* activation it was computed at, the weight versions from its shard to the    *)
(* head, and how often each token's loss was counted.                          *)
EXTENDS Naturals, Sequences, FiniteSets

CONSTANTS Blocks,        \* transformer blocks between embeddings and final norm
          MicroBatches,  \* gradient_accumulation_steps
          Tokens,        \* label tokens of a micro-batch
          Chunks,        \* values of lm_head_chunk_tokens to run with
          Periods,       \* values of global_optimizer_every to run with
          MaxResident,   \* max_resident_shards
          MaxSteps,      \* bound on the steps of a run
          MaxLaunches    \* bound on the launches of the run

ASSUME StepUpdateAssumption ==
  /\ {Blocks, MicroBatches, Tokens, MaxResident, MaxLaunches} \subseteq Nat \ {0}
  /\ Chunks \cup Periods \cup {MaxSteps} \subseteq Nat

\* Shards in forward order: embeddings, the blocks, final_norm, lm_head.
Last   == Blocks + 3
Shards == 1..Last
Micros == 1..MicroBatches

VARIABLES
  config,      \* clip mode, period, chunk and optimizer of this launch
  launches,    \* launches so far
  step,        \* the step being taken, or the last one taken
  phase,       \* what the trainer is doing
  at,          \* the shard it is at
  micro,       \* the next micro-batch for that shard
  boundaries,  \* per micro-batch, the output of every shard passed so far
  upstream,    \* per micro-batch, the gradient handed to the shard below
  active,      \* active_param_shards
  tuning,      \* active_optimizer_shards
  module,      \* version of the weights in the active module
  local,       \* parameter gradients accumulated in the active module
  payloads,    \* ShardGradientPayloads collected this step, head first
  staged,      \* shard -> the update staged for it
  stored       \* shard -> published version and optimizer state

vars == <<config, launches, step, phase, at, micro, boundaries, upstream, active,
          tuning, module, local, payloads, staged, stored>>

Optimizers == {"adamw", "lion", "adafactor"}

\* The running averages an optimizer keeps for matrices and for vectors.
Moments(optimizer) ==
  CASE optimizer = "adamw"     -> {"matrix", "vector"} \X {"exp_avg", "exp_avg_sq"}
    [] optimizer = "lion"      -> {"matrix", "vector"} \X {"exp_avg"}
    [] optimizer = "adafactor" -> {<<"matrix", "exp_avg_sq_row">>,
                                   <<"matrix", "exp_avg_sq_col">>,
                                   <<"vector", "exp_avg_sq">>}

Init ==
  /\ config \in [clip : {"shard", "global"}, every : Periods, chunk : Chunks,
                 optimizer : Optimizers]
  /\ launches = 1 /\ step = 0 /\ phase = "idle" /\ at = 1 /\ micro = 1
  /\ boundaries = <<>> /\ upstream = <<>> /\ active = {} /\ tuning = {}
  /\ module = 0 /\ local = <<>> /\ payloads = <<>> /\ staged = <<>>
  /\ stored = [s \in Shards |-> [version |-> 0, count |-> 0,
                                 moments |-> [f \in {} |-> 0]]]

-------------------------------------------------------------------------------
\* Whether this step is one of the periodic global-optimizer steps.
GlobalOptimizerRuns == config.every > 0 /\ step % config.every = 0

\* Versions an activation of shard s can load: what is published, or, once the
\* step has staged s, the staged payload that the store left in its cache.
Loads(s) == {stored[s].version}
              \cup (IF s \in DOMAIN staged THEN {staged[s].version} ELSE {})

Admits(s) == s \notin active /\ Cardinality(active) < MaxResident

InputOf(m, s) == IF s = 1 THEN <<>> ELSE boundaries[m][s - 1]

\* How often the head's chunked loss counts token t of a micro-batch.
TimesCounted(t) ==
  IF config.chunk = 0 \/ Tokens <= config.chunk THEN 1
  ELSE Cardinality({start \in 0..(Tokens - 1) :
         /\ start % config.chunk = 0
         /\ start < t /\ t <= start + config.chunk})

UpstreamOf(m) ==
  IF at = Last THEN [through |-> <<>>, tokens |-> [t \in 1..Tokens |-> TimesCounted(t)]]
               ELSE upstream[m]

\* The norms a scale is computed from, and what they were measured on.
NormOf(gradients)  == {<<p.shard, p.measured>> : p \in gradients}
CollectedPayloads  == {payloads[i] : i \in DOMAIN payloads}

\* Mutant: an update with global scales is clipped by its own norm as well.
FactorsClippedTwice ==
  IF GlobalOptimizerRuns /\ phase # "apply"
  THEN <<<<"clip", NormOf(CollectedPayloads)>>, <<"rms", NormOf(CollectedPayloads)>>,
         <<"clip", NormOf({[shard |-> at, measured |-> local]})>>>>
  ELSE <<<<"clip", NormOf({[shard |-> at, measured |-> local]})>>>>

\* What the gradients of the shard are multiplied by, in order.  An update
\* pass that has global scales does not clip the shard by its own norm.
Factors ==
  CASE phase = "apply"      -> <<<<"clip", NormOf(CollectedPayloads)>>>>
    [] GlobalOptimizerRuns  -> <<<<"clip", NormOf(CollectedPayloads)>>,
                                 <<"rms", NormOf(CollectedPayloads)>>>>
    [] OTHER                -> <<<<"clip", NormOf({[shard |-> at, measured |-> local]})>>>>

\* Mutant: the second moments are created anew at every load.
FirstMomentsOnly(s) ==
  [f \in Moments(config.optimizer) |->
     IF f \in DOMAIN stored[s].moments /\ f[2] = "exp_avg" THEN stored[s].moments[f] ELSE 0]

\* Optimizer state handed to an update: averages the payload lacks start at 0,
\* and those of another optimizer are not carried over.
LoadedMoments(s) ==
  [f \in Moments(config.optimizer) |->
     IF f \in DOMAIN stored[s].moments THEN stored[s].moments[f] ELSE 0]

\* What StepAndSave stages for the shard at hand.
Update ==
  [version |-> step, base |-> module, gradient |-> local, factors |-> Factors,
   count   |-> stored[at].count + 1,
   moments |-> [f \in Moments(config.optimizer) |-> LoadedMoments(at)[f] + 1]]

\* Mutant: saving the optimizer state forgets to release it.
ReleaseParameters == active' = {} /\ tuning' = tuning

\* save_optimizer_state releases the optimizer, the with-block the parameters.
ReleaseShard == active' = {} /\ tuning' = {}

\* The shard after this one in a backward pass, or the pass that follows.
Descend(following) ==
  IF at > 1 THEN at' = at - 1 /\ phase' = phase
            ELSE at' = Last /\ phase' = following

-------------------------------------------------------------------------------
BeginStep ==
  /\ phase = "idle" /\ step < MaxSteps
  /\ step' = step + 1 /\ phase' = "forward" /\ at' = 1 /\ micro' = 1
  /\ boundaries' = [m \in Micros |-> <<>>] /\ upstream' = [m \in Micros |-> <<>>]
  /\ UNCHANGED <<config, launches, active, tuning, module, local, payloads, staged, stored>>

\* forward_trace for one shard.  Training asks for no loss, so the pass stops
\* at final_norm and the head is first run by the backward pass.
ForwardShard ==
  /\ phase = "forward" /\ Admits(at)
  /\ \E w \in Loads(at) :
       boundaries' = [boundaries EXCEPT ![micro] = Append(@, Append(InputOf(micro, at), w))]
  /\ \/ at < Last - 1 /\ at' = at + 1 /\ UNCHANGED <<micro, phase>>
     \/ at = Last - 1 /\ micro < MicroBatches /\ at' = 1 /\ micro' = micro + 1 /\ UNCHANGED phase
     \/ /\ at = Last - 1 /\ micro = MicroBatches /\ at' = Last /\ micro' = 1
        /\ phase' = IF GlobalOptimizerRuns \/ config.clip = "global" THEN "collect" ELSE "update"
  /\ UNCHANGED <<config, launches, step, upstream, active, tuning, module, local, payloads,
                 staged, stored>>

EnterShard ==
  /\ phase \in {"collect", "update"} /\ active = {} /\ Admits(at)
  /\ active' = active \cup {at} /\ module' \in Loads(at)
  /\ local' = <<>> /\ micro' = 1
  /\ UNCHANGED <<config, launches, step, phase, at, boundaries, upstream, tuning, payloads,
                 staged, stored>>

\* Replay one micro-batch through the active shard and back.
BackwardTrace ==
  /\ phase \in {"collect", "update"} /\ active = {at} /\ micro <= MicroBatches
  /\ LET through == <<module>> \o UpstreamOf(micro).through
         tokens  == UpstreamOf(micro).tokens
     IN  /\ local' = Append(local, [micro |-> micro, input |-> InputOf(micro, at),
                                    through |-> through, tokens |-> tokens])
         /\ upstream' = [upstream EXCEPT ![micro] = [through |-> through, tokens |-> tokens]]
  /\ micro' = micro + 1
  /\ UNCHANGED <<config, launches, step, phase, at, boundaries, active, tuning, module, payloads,
                 staged, stored>>

\* A collecting pass keeps the gradients only for the global clip; a periodic
\* step keeps the norms and replays the shard in the update pass.
CaptureGradients ==
  /\ phase = "collect" /\ active = {at} /\ micro > MicroBatches
  /\ payloads' = Append(payloads, [shard |-> at, measured |-> local,
                                   held |-> IF GlobalOptimizerRuns THEN <<>> ELSE local])
  /\ active' = {} /\ local' = <<>>
  /\ Descend(IF GlobalOptimizerRuns THEN "update" ELSE "apply")
  /\ UNCHANGED <<config, launches, step, micro, boundaries, upstream, tuning, module, staged, stored>>

\* _apply_deferred_gradient puts the collected gradients into the module.
EnterDeferred ==
  /\ phase = "apply" /\ active = {} /\ Admits(at)
  /\ active' = active \cup {at} /\ module' \in Loads(at)
  /\ local' = payloads[Last + 1 - at].held /\ micro' = MicroBatches + 1
  /\ UNCHANGED <<config, launches, step, phase, at, boundaries, upstream, tuning, payloads,
                 staged, stored>>

LoadOptimizer ==
  /\ phase \in {"update", "apply"} /\ active = {at} /\ micro > MicroBatches
  /\ at \notin tuning /\ Cardinality(tuning) < MaxResident
  /\ tuning' = tuning \cup {at}
  /\ UNCHANGED <<config, launches, step, phase, at, micro, boundaries, upstream, active, module,
                 local, payloads, staged, stored>>

StepAndSave ==
  /\ tuning = {at}
  /\ staged' = [s \in DOMAIN staged \cup {at} |-> IF s = at THEN Update ELSE staged[s]]
  /\ payloads' = IF phase = "apply" THEN [payloads EXCEPT ![Last + 1 - at].held = <<>>]
                                    ELSE payloads
  /\ ReleaseShard /\ local' = <<>>
  /\ Descend("commit")
  /\ UNCHANGED <<config, launches, step, micro, boundaries, upstream, module, stored>>

Commit ==
  /\ phase = "commit"
  /\ stored' = [s \in Shards |-> [version |-> staged[s].version, count |-> staged[s].count,
                                  moments |-> staged[s].moments]]
  /\ staged' = <<>> /\ payloads' = <<>> /\ boundaries' = <<>> /\ upstream' = <<>>
  /\ phase' = "idle"
  /\ UNCHANGED <<config, launches, step, at, micro, active, tuning, module, local>>

\* The run is resumed, possibly with another --optimizer: nothing in the run
\* directory records which one wrote the averages.
Relaunch ==
  /\ phase = "idle" /\ 0 < step /\ step < MaxSteps /\ launches < MaxLaunches
  /\ launches' = launches + 1
  /\ config' \in {[config EXCEPT !.optimizer = o] : o \in Optimizers}
  /\ UNCHANGED <<step, phase, at, micro, boundaries, upstream, active, tuning, module, local,
                 payloads, staged, stored>>

Advance == \/ BeginStep \/ ForwardShard \/ EnterShard \/ BackwardTrace \/ CaptureGradients
           \/ EnterDeferred \/ LoadOptimizer \/ StepAndSave \/ Commit
Next == Advance \/ Relaunch

\* The trainer is one thread: while a step can be continued, it is.
Spec == Init /\ [][Next]_vars /\ WF_vars(Advance)

-------------------------------------------------------------------------------
\* The gradient of shard s for a model that is resident as a whole at the
\* weights before the step: every micro-batch once, every token once.
ResidentGradient(s) ==
  [m \in Micros |-> [micro   |-> m,
                     input   |-> [i \in 1..(s - 1) |-> step - 1],
                     through |-> [i \in 1..(Last + 1 - s) |-> step - 1],
                     tokens  |-> [t \in 1..Tokens |-> 1]]]
ResidentNorm(S) == {<<s, ResidentGradient(s)>> : s \in S}

ResidentFactors(s) ==
  IF GlobalOptimizerRuns THEN <<<<"clip", ResidentNorm(Shards)>>, <<"rms", ResidentNorm(Shards)>>>>
  ELSE <<<<"clip", ResidentNorm(IF config.clip = "global" THEN Shards ELSE {s})>>>>

\* The update staged for a shard starts from the weights before the step, uses
\* the gradient of the whole batch at those weights in every shard above and
\* below, and is scaled once by norms of exactly such gradients: streaming,
\* replaying and deferring do not change the step (backward_update and the
\* passes under it).
MatchesResidentStep ==
  /\ \A s \in DOMAIN staged :
       /\ staged[s].base = step - 1
       /\ staged[s].gradient = ResidentGradient(s)
       /\ staged[s].factors = ResidentFactors(s)
  /\ phase = "commit" => DOMAIN staged = Shards

\* Between steps every shard's update count is the global step, which resume
\* trusts (optimizer_step_bounds), and the shards agree on how many gradients
\* each running average has seen; without a change of optimizer that is every
\* step, as AdamW's bias correction by the count takes for granted.
OptimizerInStep ==
  phase = "idle" =>
    \A s \in Shards :
      /\ stored[s].count = step
      /\ stored[s].moments = stored[1].moments
      /\ launches = 1 => \A f \in DOMAIN stored[s].moments : stored[s].moments[f] = step

\* No activation is refused at the residency limit for good: a run ends.
EventuallyTrained == <>(phase = "idle" /\ step = MaxSteps)
===============================================================================
