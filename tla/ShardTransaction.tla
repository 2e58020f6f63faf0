-------------------------- MODULE ShardTransaction --------------------------
(***************************************************************************)
(* The sharded trainer's step transaction, with the crashes it has to      *)
(* survive: perkunasv2/shard_store.py (ShardStepTransaction and the async  *)
(* save queue of ParameterShardStore) and perkunasv2/trainer.py (the train *)
(* loop, the plain and the guarded step, the repair done on resume).       *)
(*                                                                         *)
(* One process trains.  Each step stages a new parameter file and a new    *)
(* optimizer file per shard into shards/transactions/step_<N>/, through a  *)
(* queue that a writer thread drains; then it publishes the staged files   *)
(* over the live ones, file by file, and records the step in               *)
(* trainer_state.json.  The process can stop between any two of these      *)
(* effects; what is on disk is all the next process has.                   *)
(*                                                                         *)
(* A file is abstracted to how many updates it holds and to the            *)
(* transaction that wrote it; shards are numbered in shard_names() order.  *)
(* Loading a shard yields its live file: that the payload cache changes    *)
(* nothing about this is what module ShardCache shows.                     *)
(***************************************************************************)
EXTENDS Naturals, Sequences

CONSTANTS
  NumShards,   \* embeddings, the blocks, final_norm, lm_head
  MaxSteps,    \* train_config.max_steps
  MaxReplays,  \* guard_replay_max_replays
  MaxPending,  \* max_pending_shard_writes
  Modes,       \* the step modes a process may be started with
  MaxFaults,   \* bound of the model: crashes and exceptions in a behaviour
  NoFile       \* a path that does not exist

Shards == 1..NumShards

\* n: updates applied (the optimizer's `step' counters); txn: who wrote it.
Version == [n : Nat, txn : Nat]
File == Version \cup {NoFile}

\* "single": no guard; otherwise guarded_step_replay and guard_replay_on_exhaust.
AllModes == {"single", "guard_accept", "guard_skip"}

ASSUME NumShardsAssumption == NumShards \in Nat \ {0}
ASSUME BoundsAssumption ==
  /\ MaxSteps \in Nat
  /\ MaxReplays \in Nat
  /\ MaxPending \in Nat \ {0}
  /\ MaxFaults \in Nat
ASSUME ModesAssumption == Modes \subseteq AllModes /\ Modes # {}
ASSUME NoFileAssumption == NoFile \notin Version

VARIABLES
  params, optim,        \* shards/params, shards/optim: shard -> file
  txnParams, txnOptim,  \* the staging directory of the open transaction
  saved,                \* trainer_state.json
  pc,                   \* where the trainer process is
  mode,                 \* the flags this process was started with
  state,                \* the trainer's in-memory state
  shard,                \* loop index of the staging and the publishing loop
  attempt,              \* attempt_index of the guarded step
  staged_params, staged_optim,
  committed,            \* StepUpdateResult.committed_update
  pending,              \* the save queue, oldest first
  txns,                 \* transactions begun so far (identifies them)
  faults, torn, skips   \* history: faults so far, a publication was cut, steps skipped

disk == <<params, optim, txnParams, txnOptim, saved>>
history == <<faults, torn, skips>>
vars == <<params, optim, txnParams, txnOptim, saved, pc, mode, state, shard, attempt,
          staged_params, staged_optim, committed, pending, txns, faults, torn, skips>>

TrainerState == [global_step : Nat, optimizer_step : Nat]
Write == [kind : {"param", "optim"}, shard : Shards, file : Version]

PublishPcs == {"unlink_param", "unlink_optim", "replace_param", "replace_optim"}
StepPcs == {"stage_param", "stage_optim", "evaluate", "publish"}
             \cup PublishPcs \cup {"finish", "record"}
Running == {"resumed", "forward"} \cup StepPcs
Stopped == {"refused", "unloadable", "done"}

NoFiles == [s \in Shards |-> NoFile]
\* updates an optimizer file stands for: a missing one loads as a fresh state
Counter(f) == IF f = NoFile THEN 0 ELSE f.n

TypeOK ==
  /\ params \in [Shards -> File] /\ optim \in [Shards -> File]
  /\ txnParams \in [Shards -> File] /\ txnOptim \in [Shards -> File]
  /\ saved \in TrainerState /\ state \in TrainerState
  /\ pc \in {"down"} \cup Running \cup Stopped
  /\ mode \in Modes
  /\ shard \in Shards
  /\ attempt \in 0..MaxReplays
  /\ staged_params \subseteq Shards /\ staged_optim \subseteq Shards
  /\ committed \in BOOLEAN
  /\ pending \in Seq(Write)
  /\ txns \in Nat /\ faults \in 0..MaxFaults /\ skips \in Nat
  /\ torn \in BOOLEAN

-----------------------------------------------------------------------------
\* initialize_random_shards: parameters only; no optimizer file exists yet.
Init ==
  /\ params = [s \in Shards |-> [n |-> 0, txn |-> 0]]
  /\ optim = NoFiles
  /\ txnParams = NoFiles /\ txnOptim = NoFiles
  /\ saved = [global_step |-> 0, optimizer_step |-> 0]
  /\ state = [global_step |-> 0, optimizer_step |-> 0]
  /\ pc = "down"
  /\ mode \in Modes
  /\ shard = 1 /\ attempt = 0
  /\ staged_params = {} /\ staged_optim = {}
  /\ committed = FALSE
  /\ pending = <<>>
  /\ txns = 0 /\ faults = 0 /\ torn = FALSE /\ skips = 0

\* optimizer_step_bounds looks at the optimizer files that exist.
OptimizerSteps == {optim[s].n : s \in {t \in Shards : optim[t] # NoFile}}

\* _reconcile_state_with_optimizer_shards: the counters of two shards differ, ...
Disagree == \E a, b \in OptimizerSteps : a # b

\* Mutants of Reconciled: no repair; and one that counts the shards' step as open.
UnrepairedRecord == saved
OvershootingRepair ==
  IF \E m \in OptimizerSteps : m > saved.global_step
  THEN LET m == CHOOSE m \in OptimizerSteps : m > saved.global_step
       IN  [global_step |-> m + 1, optimizer_step |-> m]
  ELSE saved

\* ... or they agree, and the record is moved forward to the shards, never back.
Reconciled ==
  IF \E m \in OptimizerSteps : m > saved.global_step
  THEN LET m == CHOOSE m \in OptimizerSteps : m > saved.global_step
       IN  [global_step |-> m,
            optimizer_step |-> IF saved.optimizer_step > m THEN saved.optimizer_step ELSE m]
  ELSE saved

\* A new process: load_trainer_state, then the reconciliation, which refuses to go on
\* when the counters disagree and saves the state it repaired.
Resume ==
  /\ pc = "down"
  /\ mode' \in Modes
  /\ IF Disagree
     THEN pc' = "refused" /\ UNCHANGED <<saved, state>>
     ELSE pc' = "resumed" /\ saved' = Reconciled /\ state' = Reconciled
  /\ UNCHANGED <<params, optim, txnParams, txnOptim, shard, attempt, staged_params,
                 staged_optim, committed, pending, txns, history>>

\* discard_stale_transactions: whatever an earlier process had staged is deleted.
DiscardStale ==
  /\ pc = "resumed"
  /\ txnParams' = NoFiles /\ txnOptim' = NoFiles
  /\ pc' = "forward"
  /\ UNCHANGED <<params, optim, saved, mode, state, shard, attempt, staged_params,
                 staged_optim, committed, pending, txns, history>>

\* begin_step_transaction: flush the queue, empty the step's directory, stage from the
\* last shard back to the first.
OpenTransaction(k) ==
  /\ pending = <<>>
  /\ txnParams' = NoFiles /\ txnOptim' = NoFiles
  /\ staged_params' = {} /\ staged_optim' = {}
  /\ txns' = txns + 1
  /\ attempt' = k
  /\ shard' = NumShards
  /\ pc' = "stage_param"

\* The forward pass loads every parameter shard; the step's transaction follows.
BeginStep ==
  /\ pc = "forward"
  /\ state.global_step < MaxSteps
  /\ \A s \in Shards : params[s] # NoFile
  /\ OpenTransaction(0)
  /\ UNCHANGED <<params, optim, saved, mode, state, committed, pending, history>>

\* A parameter file is gone: load_payload_from_paths raises, now and on every restart.
ForwardFails ==
  /\ pc = "forward"
  /\ state.global_step < MaxSteps
  /\ \E s \in Shards : params[s] = NoFile
  /\ pc' = "unloadable"
  /\ UNCHANGED <<disk, mode, state, shard, attempt, staged_params, staged_optim,
                 committed, pending, txns, history>>

Finish ==
  /\ pc = "forward"
  /\ state.global_step >= MaxSteps
  /\ pending = <<>>
  /\ pc' = "done"
  /\ UNCHANGED <<disk, mode, state, shard, attempt, staged_params, staged_optim,
                 committed, pending, txns, history>>

-----------------------------------------------------------------------------
\* _optimizer_step_and_save: one update of the shard, parameters then optimizer.
NextParam(s) == [n |-> params[s].n + 1, txn |-> txns]
NextOptim(s) == [n |-> Counter(optim[s]) + 1, txn |-> txns]

\* _save_payload waits until the queue has room and this path is not in it.
Enqueue(kind, s, file) ==
  /\ Len(pending) < MaxPending
  /\ \A i \in DOMAIN pending : pending[i].kind # kind \/ pending[i].shard # s
  /\ pending' = Append(pending, [kind |-> kind, shard |-> s, file |-> file])

\* save_parameter_shard with a transaction
StageParam ==
  /\ pc = "stage_param"
  /\ params[shard] # NoFile
  /\ Enqueue("param", shard, NextParam(shard))
  /\ staged_params' = staged_params \cup {shard}
  /\ pc' = "stage_optim"
  /\ UNCHANGED <<disk, mode, state, shard, attempt, staged_optim, committed, txns, history>>

\* save_optimizer_state with a transaction; then the previous shard, or the end of
\* backward_update.
StageOptim ==
  /\ pc = "stage_optim"
  /\ Enqueue("optim", shard, NextOptim(shard))
  /\ staged_optim' = staged_optim \cup {shard}
  /\ IF shard > 1
     THEN shard' = shard - 1 /\ pc' = "stage_param"
     ELSE shard' = shard /\ pc' = IF mode = "single" THEN "publish" ELSE "evaluate"
  /\ UNCHANGED <<disk, mode, state, attempt, staged_params, committed, txns, history>>

\* Mutants of WriterStep: a failed write nobody hears of (a reap without future.result());
\* and a writer that leaves the newest job in the queue.
SilentWriterStep ==
  /\ pending # <<>>
  /\ LET job == Head(pending) IN
       \/ /\ job.kind = "param"
          /\ txnParams' = [txnParams EXCEPT ![job.shard] = job.file] /\ UNCHANGED txnOptim
       \/ /\ job.kind = "optim"
          /\ txnOptim' = [txnOptim EXCEPT ![job.shard] = job.file] /\ UNCHANGED txnParams
       \/ UNCHANGED <<txnParams, txnOptim>>
  /\ pending' = Tail(pending)
  /\ UNCHANGED <<params, optim, saved, pc, mode, state, shard, attempt, staged_params,
                 staged_optim, committed, txns, history>>
LazyWriterStep ==
  /\ Len(pending) > 1
  /\ LET job == Head(pending) IN
       IF job.kind = "param"
       THEN txnParams' = [txnParams EXCEPT ![job.shard] = job.file] /\ UNCHANGED txnOptim
       ELSE txnOptim' = [txnOptim EXCEPT ![job.shard] = job.file] /\ UNCHANGED txnParams
  /\ pending' = Tail(pending)
  /\ UNCHANGED <<params, optim, saved, pc, mode, state, shard, attempt, staged_params,
                 staged_optim, committed, txns, history>>

\* The writer thread: save_payload_atomic of the oldest job (a temporary file, then
\* os.replace: the path has its whole new content or none of it).
WriterStep ==
  /\ pending # <<>>
  /\ LET job == Head(pending) IN
       IF job.kind = "param"
       THEN txnParams' = [txnParams EXCEPT ![job.shard] = job.file] /\ UNCHANGED txnOptim
       ELSE txnOptim' = [txnOptim EXCEPT ![job.shard] = job.file] /\ UNCHANGED txnParams
  /\ pending' = Tail(pending)
  /\ UNCHANGED <<params, optim, saved, pc, mode, state, shard, attempt, staged_params,
                 staged_optim, committed, txns, history>>

\* _run_guarded_step_update after an attempt's replay loss: accepted, or the last attempt
\* under on_exhaust = "accept".  Which losses come out is the data's business.
CommitCandidate ==
  /\ pc = "evaluate"
  /\ pc' = "publish"
  /\ UNCHANGED <<disk, mode, state, shard, attempt, staged_params, staged_optim,
                 committed, pending, txns, history>>

\* Rejected: abort this attempt and begin the next one, with a transaction of its own.
RetryStep ==
  /\ pc = "evaluate"
  /\ attempt < MaxReplays
  /\ OpenTransaction(attempt + 1)
  /\ UNCHANGED <<params, optim, saved, mode, state, committed, pending, history>>

\* Rejected for the last time under on_exhaust = "skip": abort, and go on without update.
SkipStep ==
  /\ pc = "evaluate"
  /\ attempt = MaxReplays
  /\ mode = "guard_skip"
  /\ pending = <<>>
  /\ txnParams' = NoFiles /\ txnOptim' = NoFiles
  /\ committed' = FALSE
  /\ skips' = skips + 1
  /\ pc' = "record"
  /\ UNCHANGED <<params, optim, saved, mode, state, shard, attempt, staged_params,
                 staged_optim, pending, txns, faults, torn>>

-----------------------------------------------------------------------------
\* ShardStepTransaction.commit: flush the queue and refuse an incomplete set of shards
\* (the refusal raises: StepFails) ...
BeginCommit ==
  /\ pc = "publish"
  /\ pending = <<>>
  /\ staged_params = Shards /\ staged_optim = Shards
  /\ pc' = "unlink_param"
  /\ shard' = 1
  /\ UNCHANGED <<disk, mode, state, attempt, staged_params, staged_optim, committed,
                 pending, txns, history>>

\* ... then shard by shard: both staged files must exist; the live files are unlinked
\* first (_remove_alternate_payload_paths keeps nothing) and the staged ones moved in.
UnlinkParam ==
  /\ pc = "unlink_param"
  /\ txnParams[shard] # NoFile /\ txnOptim[shard] # NoFile
  /\ params' = [params EXCEPT ![shard] = NoFile]
  /\ pc' = "unlink_optim"
  /\ UNCHANGED <<optim, txnParams, txnOptim, saved, mode, state, shard, attempt,
                 staged_params, staged_optim, committed, pending, txns, history>>

UnlinkOptim ==
  /\ pc = "unlink_optim"
  /\ optim' = [optim EXCEPT ![shard] = NoFile]
  /\ pc' = "replace_param"
  /\ UNCHANGED <<params, txnParams, txnOptim, saved, mode, state, shard, attempt,
                 staged_params, staged_optim, committed, pending, txns, history>>

ReplaceParam ==
  /\ pc = "replace_param"
  /\ params' = [params EXCEPT ![shard] = txnParams[shard]]
  /\ txnParams' = [txnParams EXCEPT ![shard] = NoFile]
  /\ pc' = "replace_optim"
  /\ UNCHANGED <<optim, txnOptim, saved, mode, state, shard, attempt, staged_params,
                 staged_optim, committed, pending, txns, history>>

\* A mutant of ReplaceOptim: the publishing loop leaves out the last shard.
ShortReplaceOptim ==
  /\ pc = "replace_optim"
  /\ optim' = [optim EXCEPT ![shard] = txnOptim[shard]]
  /\ txnOptim' = [txnOptim EXCEPT ![shard] = NoFile]
  /\ IF shard + 1 < NumShards
     THEN shard' = shard + 1 /\ pc' = "unlink_param"
     ELSE shard' = shard /\ pc' = "finish"
  /\ UNCHANGED <<params, txnParams, saved, mode, state, attempt, staged_params,
                 staged_optim, committed, pending, txns, history>>

ReplaceOptim ==
  /\ pc = "replace_optim"
  /\ optim' = [optim EXCEPT ![shard] = txnOptim[shard]]
  /\ txnOptim' = [txnOptim EXCEPT ![shard] = NoFile]
  /\ IF shard < NumShards
     THEN shard' = shard + 1 /\ pc' = "unlink_param"
     ELSE shard' = shard /\ pc' = "finish"
  /\ UNCHANGED <<params, txnParams, saved, mode, state, attempt, staged_params,
                 staged_optim, committed, pending, txns, history>>

\* sync_storage_metadata, and the staging directory goes
EndCommit ==
  /\ pc = "finish"
  /\ txnParams' = NoFiles /\ txnOptim' = NoFiles
  /\ committed' = TRUE
  /\ pc' = "record"
  /\ UNCHANGED <<params, optim, saved, mode, state, shard, attempt, staged_params,
                 staged_optim, pending, txns, history>>

\* A mutant of RecordStep: the state is not saved at every step.
SparseRecordStep ==
  /\ pc = "record"
  /\ pending = <<>>
  /\ state' = [global_step |-> state.global_step + 1,
               optimizer_step |-> state.optimizer_step + IF committed THEN 1 ELSE 0]
  /\ pc' = "forward"
  /\ UNCHANGED <<disk, mode, shard, attempt, staged_params, staged_optim, committed,
                 pending, txns, history>>

\* The end of a loop iteration: save_trainer_state, one atomic file.
RecordStep ==
  /\ pc = "record"
  /\ pending = <<>>
  /\ LET next == [global_step |-> state.global_step + 1,
                  optimizer_step |-> state.optimizer_step + IF committed THEN 1 ELSE 0]
     IN  state' = next /\ saved' = next
  /\ pc' = "forward"
  /\ UNCHANGED <<params, optim, txnParams, txnOptim, mode, shard, attempt, staged_params,
                 staged_optim, committed, pending, txns, history>>

-----------------------------------------------------------------------------
\* Some live file of the step is already gone or replaced, and not all are.
MidPublish ==
  \/ pc \in PublishPcs \ {"unlink_param"}
  \/ pc = "unlink_param" /\ shard > 1

\* The process is gone, with its queue and its memory.
ProcessEnds ==
  /\ pc' = "down"
  /\ pending' = <<>>
  /\ shard' = 1 /\ attempt' = 0
  /\ staged_params' = {} /\ staged_optim' = {}
  /\ committed' = FALSE
  /\ state' = [global_step |-> 0, optimizer_step |-> 0]
  /\ faults' = faults + 1
  /\ torn' = (torn \/ MidPublish)

\* The machine or the process dies; what is on disk stays.
Crash ==
  /\ pc \in Running
  /\ faults < MaxFaults
  /\ ProcessEnds
  /\ UNCHANGED <<disk, mode, txns, skips>>

\* An exception inside the step ends the process through abort(): flush, delete the
\* staging directory.  If a queued write was what failed, abort() raises too and the
\* directory stays behind.
StepFails ==
  /\ pc \in StepPcs
  /\ faults < MaxFaults
  /\ \/ pending = <<>> /\ txnParams' = NoFiles /\ txnOptim' = NoFiles
     \/ UNCHANGED <<txnParams, txnOptim>>
  /\ ProcessEnds
  /\ UNCHANGED <<params, optim, saved, mode, txns, skips>>

TrainerStep ==
  \/ Resume \/ DiscardStale \/ BeginStep \/ ForwardFails \/ Finish
  \/ StageParam \/ StageOptim
  \/ CommitCandidate \/ RetryStep \/ SkipStep
  \/ BeginCommit \/ UnlinkParam \/ UnlinkOptim \/ ReplaceParam \/ ReplaceOptim \/ EndCommit
  \/ RecordStep

Terminated == pc \in Stopped /\ UNCHANGED vars

Next == TrainerStep \/ WriterStep \/ Crash \/ StepFails \/ Terminated

\* A live process keeps executing, its writer thread too, and a stopped one is started
\* again: Resume is a TrainerStep.  Faults are bounded and never forced.
Fairness == WF_vars(TrainerStep) /\ WF_vars(WriterStep)

Spec == Init /\ [][Next]_vars
FairSpec == Spec /\ Fairness

-----------------------------------------------------------------------------
\* Every shard holds the same update, and its optimizer state is of that update
\* (before the first update there is no optimizer file).
Uniform ==
  \A s \in Shards :
    /\ params[s] # NoFile /\ params[s] = params[1]
    /\ \/ optim[s] = params[s]
       \/ optim[s] = NoFile /\ params[s].n = 0

\* A file of the transaction being published.
Fresh(f) == f # NoFile /\ f.txn = txns

\* Whole updates only: outside the publishing loop, however many attempts were aborted,
\* processes killed or exceptions raised before it, the live files of all shards come
\* from one and the same attempt of one step (lld "Current transaction guarantee").
OnlyWholeUpdates == torn \/ MidPublish \/ Uniform

\* At every point of the publishing loop each shard's new files exist, moved or still
\* staged, and the shards before the index are moved: a recovery tool could always roll
\* the step forward (whitepaper "Add recovery tooling for incomplete commits").
RollForwardPossible ==
  MidPublish =>
    \A s \in Shards :
      /\ Fresh(params[s]) \/ Fresh(txnParams[s])
      /\ Fresh(optim[s]) \/ Fresh(txnOptim[s])
      /\ s < shard => Fresh(params[s]) /\ Fresh(optim[s])

\* The repair on resume: with no torn store and no skipped step, training goes on from
\* exactly the step the shards hold, so no batch is trained twice or left out.
ResumeIsExact ==
  (pc = "forward" /\ ~torn /\ skips = 0) =>
    /\ state.global_step = params[1].n
    /\ state.optimizer_step = params[1].n
    /\ saved = state

\* Skipped steps or not, the record never falls behind the shards by more than the step
\* being published, and training never goes on from a step number the shards passed.
RecordFollowsShards ==
  ~torn /\ ~MidPublish =>
    /\ params[1].n <= saved.global_step + 1
    /\ pc = "forward" => params[1].n <= state.global_step

\* The published model a reader would attribute to the store.  The point of no return of
\* a publication is its first unlink.
Published ==
  IF torn THEN 0
  ELSE IF MidPublish /\ Fresh(txnParams[1]) THEN txnParams[1].n
  ELSE params[1].n

\* No batch goes by untrained: a step that is recorded is in the shards or was skipped by
\* the guard, whatever was replayed, restarted or repaired in between.
NoStepLost == ~torn => saved.global_step <= Published + skips

\* ShardTransaction implements the promise of AtomicSteps.
Abstract == INSTANCE AtomicSteps WITH
  version <- Published, recorded <- saved.global_step, whole <- ~torn
ImplementsAtomicSteps == Abstract!Spec

\* Every run whose store is not torn reaches max_steps, whatever is rejected, replayed,
\* skipped or restarted on the way.
EventuallyTrained == <>(torn \/ pc = "done")

\* whitepaper "Trainer State and Resume Repair": "If optimizer shard steps disagree with
\* each other, the trainer refuses to resume".  A missing optimizer file is a shard at
\* step 0: load_optimizer_state starts it from a fresh state.
ResumeRefusesDisagreement ==
  pc = "forward" => \A s, t \in Shards : Counter(optim[s]) = Counter(optim[t])

\* Same section: "If `trainer_state.json` lags behind optimizer shards, the trainer
\* repairs": when training goes on, the record counts the updates the shards hold.
RepairFollowsShards ==
  (pc = "forward" /\ ~torn) => state.optimizer_step = Counter(optim[1])
=============================================================================
