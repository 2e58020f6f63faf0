---------------------- MODULE ShardTransaction_proofs ----------------------
(***************************************************************************)
(* Proofs about ShardTransaction, for any number of shards, steps,         *)
(* replays, queue slots and faults.                                        *)
(***************************************************************************)
EXTENDS ShardTransaction, TLAPS

-----------------------------------------------------------------------------
(* Typing *)

\* Whatever optimizer files exist, the repaired record is a record, and a file that
\* exists counts a natural number of updates.
LEMMA ReconciledType ==
  ASSUME TypeOK
  PROVE  Reconciled \in TrainerState
<1>1. OptimizerSteps \subseteq Nat
  BY DEF TypeOK, OptimizerSteps, File, Version
<1>2. CASE \E m \in OptimizerSteps : m > saved.global_step
  <2> DEFINE m == CHOOSE k \in OptimizerSteps : k > saved.global_step
  <2>1. m \in Nat
    BY <1>1, <1>2
  <2> QED
    BY <2>1, <1>2 DEF Reconciled, TypeOK, TrainerState
<1>3. CASE ~ \E m \in OptimizerSteps : m > saved.global_step
  BY <1>3 DEF Reconciled, TypeOK
<1> QED
  BY <1>2, <1>3

\* What the update of a shard writes is a version.
LEMMA NextFilesType ==
  ASSUME TypeOK, NEW s \in Shards
  PROVE  /\ params[s] # NoFile => NextParam(s) \in Version
         /\ NextOptim(s) \in Version
  BY DEF TypeOK, NextParam, NextOptim, Counter, File, Version

\* The head of a non-empty queue is a job, and what is left is a queue of the other jobs
\* in their order.
LEMMA QueueHead ==
  ASSUME pending \in Seq(Write), pending # <<>>
  PROVE  /\ Head(pending) \in Write
         /\ Head(pending) = pending[1] /\ 1 \in DOMAIN pending
         /\ Tail(pending) \in Seq(Write)
         /\ \A i \in DOMAIN Tail(pending) : i + 1 \in DOMAIN pending
                                            /\ Tail(pending)[i] = pending[i + 1]
         /\ \A i \in DOMAIN pending : i # 1 => i - 1 \in DOMAIN Tail(pending)
                                               /\ Tail(pending)[i - 1] = pending[i]
  OBVIOUS

\* A job appended to the queue comes last; the others stay where they were.
LEMMA QueueAppend ==
  ASSUME pending \in Seq(Write), NEW job \in Write
  PROVE  /\ Append(pending, job) \in Seq(Write)
         /\ \A i \in DOMAIN pending : i \in DOMAIN Append(pending, job)
                                      /\ Append(pending, job)[i] = pending[i]
         /\ \A i \in DOMAIN Append(pending, job) :
              i \in DOMAIN pending \/ Append(pending, job)[i] = job
         /\ \E i \in DOMAIN Append(pending, job) : Append(pending, job)[i] = job
<1>1. Len(pending) + 1 \in DOMAIN Append(pending, job)
      /\ Append(pending, job)[Len(pending) + 1] = job
  OBVIOUS
<1> QED
  BY <1>1

\* A fresh run directory, as initialize_random_shards leaves it, has the types.
LEMMA InitType == Init => TypeOK
<1> SUFFICES ASSUME Init
             PROVE  TypeOK
  OBVIOUS
<1>1. [n |-> 0, txn |-> 0] \in File /\ NoFile \in File
  BY DEF File, Version
<1>2. pending \in Seq(Write)
  BY DEF Init
<1>3. attempt \in 0..MaxReplays /\ faults \in 0..MaxFaults
  BY BoundsAssumption DEF Init
<1>4. shard \in Shards
  BY NumShardsAssumption DEF Init, Shards
<1> QED
  BY <1>1, <1>2, <1>3, <1>4 DEF Init, TypeOK, NoFiles, TrainerState

\* The end of a process resets its memory.
LEMMA ProcessEndsType ==
  ASSUME TypeOK, ProcessEnds, faults < MaxFaults, UNCHANGED <<params, optim, saved, mode, txns, skips>>,
         txnParams' \in [Shards -> File], txnOptim' \in [Shards -> File]
  PROVE  TypeOK'
<1>1. torn' \in BOOLEAN
  BY DEF ProcessEnds
<1>2. attempt' \in 0..MaxReplays /\ faults' \in 0..MaxFaults
  BY BoundsAssumption DEF ProcessEnds, TypeOK
<1>3. shard' \in Shards
  BY NumShardsAssumption DEF ProcessEnds, Shards
<1>4. pending' \in Seq(Write)
  BY DEF ProcessEnds
<1> QED
  BY <1>1, <1>2, <1>3, <1>4 DEF ProcessEnds, TypeOK, TrainerState

\* Every action of trainer, writer thread and environment keeps the types: one step of
\* the proof per action.
LEMMA StepType == TypeOK /\ [Next]_vars => TypeOK'
<1> SUFFICES ASSUME TypeOK, [Next]_vars
             PROVE  TypeOK'
  OBVIOUS
<1> USE DEF TypeOK
<1>0. CASE UNCHANGED vars
  BY <1>0 DEF vars
<1>1. CASE Resume
  <2>1. saved' \in TrainerState /\ state' \in TrainerState
        /\ pc' \in {"refused", "resumed"}
    BY <1>1, ReconciledType DEF Resume
  <2> QED
    BY <1>1, <2>1 DEF Resume, history, Running, Stopped
<1>2. CASE DiscardStale
  BY <1>2 DEF DiscardStale, history, Running, NoFiles, File
<1>3. CASE BeginStep
  BY <1>3, NumShardsAssumption, BoundsAssumption
     DEF BeginStep, OpenTransaction, history, Running, StepPcs, NoFiles, File, Shards
<1>4. CASE ForwardFails
  BY <1>4 DEF ForwardFails, disk, history, Stopped
<1>5. CASE Finish
  BY <1>5 DEF Finish, disk, history, Stopped
<1>6. CASE StageParam
  <2>1. [kind |-> "param", shard |-> shard, file |-> NextParam(shard)] \in Write
    BY <1>6, NextFilesType DEF StageParam, Write
  <2>2. pending' \in Seq(Write)
    BY <1>6, <2>1, QueueAppend DEF StageParam, Enqueue
  <2> QED
    BY <1>6, <2>2 DEF StageParam, disk, history, Running, StepPcs
<1>7. CASE StageOptim
  <2>1. [kind |-> "optim", shard |-> shard, file |-> NextOptim(shard)] \in Write
    BY NextFilesType DEF Write
  <2>2. pending' \in Seq(Write)
    BY <1>7, <2>1, QueueAppend DEF StageOptim, Enqueue
  <2>3. shard' \in Shards
    BY <1>7, NumShardsAssumption DEF StageOptim, Shards
  <2> QED
    BY <1>7, <2>2, <2>3 DEF StageOptim, disk, history, Running, StepPcs
<1>8. CASE WriterStep
  <2>1. Head(pending) \in Write /\ Tail(pending) \in Seq(Write)
    BY <1>8, QueueHead DEF WriterStep
  <2> QED
    BY <1>8, <2>1 DEF WriterStep, history, Write, File
<1>9. CASE CommitCandidate
  BY <1>9 DEF CommitCandidate, disk, history, Running, StepPcs
<1>10. CASE RetryStep
  <2>1. attempt' \in 0..MaxReplays
    BY <1>10, BoundsAssumption DEF RetryStep, OpenTransaction
  <2> QED
    BY <1>10, <2>1, NumShardsAssumption
       DEF RetryStep, OpenTransaction, history, Running, StepPcs, NoFiles, File, Shards
<1>11. CASE SkipStep
  <2>1. skips' \in Nat
    BY <1>11 DEF SkipStep
  <2>3. committed' \in BOOLEAN
    BY <1>11 DEF SkipStep
  <2>2. txnParams' \in [Shards -> File] /\ txnOptim' \in [Shards -> File]
    BY <1>11 DEF SkipStep, NoFiles, File
  <2> QED
    BY <1>11, <2>1, <2>2, <2>3 DEF SkipStep, Running, StepPcs
<1>12. CASE BeginCommit
  BY <1>12, NumShardsAssumption
     DEF BeginCommit, disk, history, Running, StepPcs, PublishPcs, Shards
<1>13. CASE UnlinkParam
  BY <1>13 DEF UnlinkParam, history, Running, StepPcs, PublishPcs, File
<1>14. CASE UnlinkOptim
  BY <1>14 DEF UnlinkOptim, history, Running, StepPcs, PublishPcs, File
<1>15. CASE ReplaceParam
  BY <1>15 DEF ReplaceParam, history, Running, StepPcs, PublishPcs, File
<1>16. CASE ReplaceOptim
  BY <1>16, NumShardsAssumption
     DEF ReplaceOptim, history, Running, StepPcs, PublishPcs, File, Shards
<1>17. CASE EndCommit
  BY <1>17 DEF EndCommit, history, Running, StepPcs, NoFiles, File
<1>18. CASE RecordStep
  BY <1>18 DEF RecordStep, history, Running, TrainerState
<1>19. CASE Crash
  BY <1>19, ProcessEndsType DEF Crash, disk
<1>20. CASE StepFails
  BY <1>20, ProcessEndsType DEF StepFails, NoFiles, File
<1>21. CASE Terminated
  BY <1>21 DEF Terminated, vars
<1> QED
  BY <1>0, <1>1, <1>2, <1>3, <1>4, <1>5, <1>6, <1>7, <1>8, <1>9, <1>10, <1>11, <1>12, <1>13,
     <1>14, <1>15, <1>16, <1>17, <1>18, <1>19, <1>20, <1>21 DEF Next, TrainerStep

\* Every variable keeps its type, in every instance.
THEOREM TypeCorrect == Spec => []TypeOK
  BY InitType, StepType, PTL DEF Spec

-----------------------------------------------------------------------------
(* The inductive invariant *)

\* The trainer is staging an attempt, or about to publish it.
StagingPcs == {"stage_param", "stage_optim", "evaluate", "publish"}

\* What a job of the open transaction writes.
NextFile(job) == IF job.kind = "param" THEN NextParam(job.shard) ELSE NextOptim(job.shard)

Queued(kind, s) == \E i \in DOMAIN pending : pending[i].kind = kind /\ pending[i].shard = s

\* The queue holds jobs of the open transaction only, and none outside staging; what the
\* transaction counts as staged is written or still queued.
QueueInv ==
  /\ pending # <<>> => pc \in StagingPcs
  /\ pc \in StagingPcs =>
       /\ \A i \in DOMAIN pending : pending[i].file = NextFile(pending[i])
       /\ \A s \in staged_params :
            params[s] # NoFile /\ (txnParams[s] = NextParam(s) \/ Queued("param", s))
       /\ \A s \in staged_optim : txnOptim[s] = NextOptim(s) \/ Queued("optim", s)

\* The publishing loop: which of a shard's new files is where.
PublishInv ==
  pc \in PublishPcs =>
    \A s \in Shards :
      /\ s < shard => Fresh(params[s]) /\ Fresh(optim[s])
      /\ s > shard => Fresh(txnParams[s]) /\ Fresh(txnOptim[s])
      /\ s = shard => /\ Fresh(txnOptim[s])
                     /\ IF pc = "replace_optim" THEN Fresh(params[s]) ELSE Fresh(txnParams[s])

\* The shard holds version v, or nothing was ever published and it has no optimizer file.
Holds(s, v) == params[s] = v /\ (optim[s] = v \/ (optim[s] = NoFile /\ v.n = 0))
Moved(s, v) == params[s] = v /\ optim[s] = v /\ txnParams[s] = NoFile
Waiting(s, v) == txnParams[s] = v /\ txnOptim[s] = v

\* The publishing loop turns one version, of all shards, into its successor.
Publishing(old) ==
  LET new == [n |-> old.n + 1, txn |-> txns] IN
    \A s \in Shards :
      /\ s < shard => Moved(s, new)
      /\ s > shard => Holds(s, old) /\ Waiting(s, new)
      /\ s = shard =>
           /\ pc = "unlink_param" => Holds(s, old)
           /\ txnOptim[s] = new
           /\ IF pc = "replace_optim" THEN params[s] = new /\ txnParams[s] = NoFile
              ELSE txnParams[s] = new

\* How far the record may be from version n of the shards.
RecordAt(n) ==
  /\ saved.global_step <= n + skips
  /\ n <= saved.global_step
  /\ skips = 0 => saved.optimizer_step = saved.global_step
\* The same when the step of version n is published or skipped and not yet recorded.
RecordDue(n) ==
  /\ saved.global_step < n + skips
  /\ n <= saved.global_step + 1
  /\ skips = 0 => saved.optimizer_step = saved.global_step

AtRestPcs == {"resumed", "forward", "done"} \cup StagingPcs

\* A store that was never torn, wherever the trainer is.
Untorn ==
  /\ pc \notin {"refused", "unloadable"}
  /\ pc # "down" => state = saved
  /\ pc \in PublishPcs => \E old \in Version : Publishing(old) /\ RecordAt(old.n)
  /\ pc \notin PublishPcs => Uniform
  /\ pc \in AtRestPcs => RecordAt(params[1].n)
  /\ pc = "finish" => RecordDue(params[1].n)
  /\ pc = "record" => RecordDue(params[1].n) /\ (skips = 0 => committed)
  /\ pc = "down" => RecordAt(params[1].n) \/ RecordDue(params[1].n)

WholeInv == ~torn => Untorn

IndInv == TypeOK /\ QueueInv /\ PublishInv /\ WholeInv

-----------------------------------------------------------------------------
(* The queue *)

\* Nothing in the queue speaks of the queue alone: with the same files, transaction and
\* queue, an action that stays in or leaves staging keeps the invariant.
LEMMA QueueFrame ==
  ASSUME QueueInv,
         UNCHANGED <<params, optim, txnParams, txnOptim, staged_params, staged_optim, pending, txns>>,
         pc' \in StagingPcs => pc \in StagingPcs,
         pc' \in StagingPcs \/ pending = <<>>
  PROVE  QueueInv'
  BY DEF QueueInv, Queued, NextFile, NextParam, NextOptim

\* An action that leaves the queue empty and ends outside staging keeps the invariant.
LEMMA QueueIdle ==
  ASSUME pending' = <<>>, pc' \notin StagingPcs
  PROVE  QueueInv'
  BY DEF QueueInv

\* A job of the open transaction is appended, and counted as staged.
LEMMA QueueStage ==
  ASSUME TypeOK, QueueInv, pc \in StagingPcs, pc' \in StagingPcs,
         NEW kind \in {"param", "optim"},
         UNCHANGED <<params, optim, txnParams, txnOptim, txns>>,
         kind = "param" => params[shard] # NoFile /\ staged_params' = staged_params \cup {shard}
                           /\ staged_optim' = staged_optim,
         kind = "optim" => staged_optim' = staged_optim \cup {shard} /\ staged_params' = staged_params,
         NEW file \in Version,
         file = IF kind = "param" THEN NextParam(shard) ELSE NextOptim(shard),
         pending' = Append(pending, [kind |-> kind, shard |-> shard, file |-> file])
  PROVE  QueueInv'
<1> DEFINE job == [kind |-> kind, shard |-> shard, file |-> file]
<1>1. job \in Write /\ pending \in Seq(Write)
  BY DEF Write, TypeOK
<1>2. /\ \A i \in DOMAIN pending : i \in DOMAIN pending' /\ pending'[i] = pending[i]
      /\ \A i \in DOMAIN pending' : i \in DOMAIN pending \/ pending'[i] = job
      /\ \E i \in DOMAIN pending' : pending'[i] = job
  BY <1>1, QueueAppend
<1>4. \A i \in DOMAIN pending' : (pending[i].file = NextFile(pending[i]))'
  <2> SUFFICES ASSUME NEW i \in DOMAIN pending'
               PROVE  (pending[i].file = NextFile(pending[i]))'
    OBVIOUS
  <2>1. CASE i \in DOMAIN pending
    BY <2>1, <1>2 DEF QueueInv, NextFile, NextParam, NextOptim
  <2>2. CASE pending'[i] = job
    BY <2>2 DEF NextFile, NextParam, NextOptim
  <2> QED
    BY <2>1, <2>2, <1>2
<1>5. \A k, s : Queued(k, s) => Queued(k, s)'
  BY <1>2 DEF Queued
<1>6. \A s : s = shard => Queued(kind, s)'
  BY <1>2 DEF Queued
<1>7. \A s \in staged_params' :
        params'[s] # NoFile /\ (txnParams'[s] = NextParam(s)' \/ Queued("param", s)')
  BY <1>5, <1>6 DEF QueueInv, NextParam
<1>8. \A s \in staged_optim' : txnOptim'[s] = NextOptim(s)' \/ Queued("optim", s)'
  BY <1>5, <1>6 DEF QueueInv, NextOptim
<1> QED
  BY <1>4, <1>7, <1>8 DEF QueueInv

\* The oldest job is written, and is the file the transaction counts on.
LEMMA QueueWrite == TypeOK /\ QueueInv /\ WriterStep => QueueInv'
<1> SUFFICES ASSUME TypeOK, QueueInv, WriterStep
             PROVE  QueueInv'
  OBVIOUS
<1> DEFINE job == Head(pending)
<1>1. /\ pending \in Seq(Write) /\ pending # <<>> /\ pc \in StagingPcs /\ pc' = pc
      /\ pending' = Tail(pending)
      /\ UNCHANGED <<params, optim, staged_params, staged_optim, txns>>
  BY DEF TypeOK, QueueInv, WriterStep
<1>2. /\ job \in Write /\ job = pending[1] /\ 1 \in DOMAIN pending
      /\ \A i \in DOMAIN pending' : i + 1 \in DOMAIN pending /\ pending'[i] = pending[i + 1]
      /\ \A i \in DOMAIN pending : i # 1 => i - 1 \in DOMAIN pending' /\ pending'[i - 1] = pending[i]
  BY <1>1, QueueHead
<1>3. job.file = NextFile(job) /\ job.kind \in {"param", "optim"} /\ job.shard \in Shards
  BY <1>1, <1>2 DEF QueueInv, Write
<1>4. \A i \in DOMAIN pending' : (pending[i].file = NextFile(pending[i]))'
  BY <1>1, <1>2 DEF QueueInv, NextFile, NextParam, NextOptim
<1>5. ASSUME NEW k, NEW s, Queued(k, s), ~(job.kind = k /\ job.shard = s)
      PROVE  Queued(k, s)'
  <2>1. PICK i \in DOMAIN pending : pending[i].kind = k /\ pending[i].shard = s
    BY <1>5 DEF Queued
  <2>2. i # 1
    BY <2>1, <1>5, <1>2
  <2>3. i - 1 \in DOMAIN pending' /\ pending'[i - 1] = pending[i]
    BY <2>2, <1>2
  <2> QED
    BY <2>1, <2>3 DEF Queued
<1>6. \A s \in Shards : txnParams'[s] = IF job.kind = "param" /\ job.shard = s
                                        THEN job.file ELSE txnParams[s]
  BY <1>3 DEF WriterStep, TypeOK
<1>7. \A s \in Shards : txnOptim'[s] = IF job.kind = "optim" /\ job.shard = s
                                       THEN job.file ELSE txnOptim[s]
  BY <1>3 DEF WriterStep, TypeOK
<1>8. \A s \in staged_params' :
        params'[s] # NoFile /\ (txnParams'[s] = NextParam(s)' \/ Queued("param", s)')
  BY <1>1, <1>3, <1>5, <1>6 DEF QueueInv, TypeOK, NextFile, NextParam
<1>9. \A s \in staged_optim' : txnOptim'[s] = NextOptim(s)' \/ Queued("optim", s)'
  BY <1>1, <1>3, <1>5, <1>7 DEF QueueInv, TypeOK, NextFile, NextOptim
<1> QED
  BY <1>1, <1>4, <1>8, <1>9 DEF QueueInv

\* A process that is not there has no queue.
LEMMA InitQueue == Init => QueueInv
  BY DEF Init, QueueInv, StagingPcs

\* What the transaction counts as staged is written or queued, after every action.
LEMMA StepQueue == TypeOK /\ QueueInv /\ [Next]_vars => QueueInv'
<1> SUFFICES ASSUME TypeOK, QueueInv, [Next]_vars
             PROVE  QueueInv'
  OBVIOUS
<1> USE DEF StagingPcs
<1>0. CASE UNCHANGED vars
  <2>1. UNCHANGED <<params, optim, txnParams, txnOptim, staged_params, staged_optim, pending, txns, pc>>
    BY <1>0 DEF vars
  <2> QED
    BY <2>1 DEF QueueInv, Queued, NextFile, NextParam, NextOptim
<1>1. CASE Resume
  BY <1>1, QueueIdle DEF Resume, QueueInv
<1>2. CASE DiscardStale
  BY <1>2, QueueIdle DEF DiscardStale, QueueInv
<1>3. CASE BeginStep
  BY <1>3 DEF BeginStep, OpenTransaction, QueueInv
<1>4. CASE ForwardFails
  BY <1>4, QueueIdle DEF ForwardFails, QueueInv
<1>5. CASE Finish
  BY <1>5, QueueIdle DEF Finish
<1>6. CASE StageParam
  <2>1. NextParam(shard) \in Version
    BY <1>6, NextFilesType DEF StageParam, TypeOK
  <2> QED
    BY <1>6, <2>1, QueueStage DEF StageParam, Enqueue, disk
<1>7. CASE StageOptim
  <2>1. NextOptim(shard) \in Version
    BY NextFilesType DEF TypeOK
  <2>2. pc \in StagingPcs /\ pc' \in StagingPcs
    BY <1>7 DEF StageOptim
  <2> QED
    BY <1>7, <2>1, <2>2, QueueStage DEF StageOptim, Enqueue, disk
<1>8. CASE WriterStep
  BY <1>8, QueueWrite
<1>9. CASE CommitCandidate
  BY <1>9, QueueFrame DEF CommitCandidate, disk
<1>10. CASE RetryStep
  BY <1>10 DEF RetryStep, OpenTransaction, QueueInv
<1>11. CASE SkipStep
  BY <1>11, QueueIdle DEF SkipStep
<1>12. CASE BeginCommit
  BY <1>12, QueueIdle DEF BeginCommit
<1>13. CASE UnlinkParam
  BY <1>13, QueueIdle DEF UnlinkParam, QueueInv
<1>14. CASE UnlinkOptim
  BY <1>14, QueueIdle DEF UnlinkOptim, QueueInv
<1>15. CASE ReplaceParam
  BY <1>15, QueueIdle DEF ReplaceParam, QueueInv
<1>16. CASE ReplaceOptim
  BY <1>16, QueueIdle DEF ReplaceOptim, QueueInv
<1>17. CASE EndCommit
  BY <1>17, QueueIdle DEF EndCommit, QueueInv
<1>18. CASE RecordStep
  BY <1>18, QueueIdle DEF RecordStep, QueueInv
<1>19. CASE Crash
  BY <1>19, QueueIdle DEF Crash, ProcessEnds
<1>20. CASE StepFails
  BY <1>20, QueueIdle DEF StepFails, ProcessEnds
<1>21. CASE Terminated
  BY <1>21, <1>0 DEF Terminated
<1> QED
  BY <1>0, <1>1, <1>2, <1>3, <1>4, <1>5, <1>6, <1>7, <1>8, <1>9, <1>10, <1>11, <1>12, <1>13,
     <1>14, <1>15, <1>16, <1>17, <1>18, <1>19, <1>20, <1>21 DEF Next, TrainerStep

-----------------------------------------------------------------------------
(* The publishing loop *)

\* When commit() has flushed the queue and found every shard staged, every staged file is
\* on disk and is the update of the live one.
LEMMA FlushedIsStaged ==
  ASSUME TypeOK, QueueInv, BeginCommit, NEW s \in Shards
  PROVE  /\ params[s] # NoFile
         /\ txnParams[s] = NextParam(s) /\ NextParam(s) \in Version
         /\ txnOptim[s] = NextOptim(s) /\ NextOptim(s) \in Version
<1>1. ~ Queued("param", s) /\ ~ Queued("optim", s)
  BY DEF Queued, BeginCommit
<1>2. pc \in StagingPcs /\ s \in staged_params /\ s \in staged_optim
  BY DEF BeginCommit, StagingPcs
<1> QED
  BY <1>1, <1>2, NextFilesType DEF QueueInv

\* The publishing loop never loses track of a new file: every unlink is of a live file
\* whose successor is staged, every replace moves a staged file.
LEMMA StepPublish == TypeOK /\ QueueInv /\ PublishInv /\ [Next]_vars => PublishInv'
<1> SUFFICES ASSUME TypeOK, QueueInv, PublishInv, [Next]_vars, pc' \in PublishPcs, NEW s \in Shards
             PROVE  /\ s < shard' => (Fresh(params[s]) /\ Fresh(optim[s]))'
                    /\ s > shard' => (Fresh(txnParams[s]) /\ Fresh(txnOptim[s]))'
                    /\ s = shard' => /\ Fresh(txnOptim[s])'
                                    /\ IF pc' = "replace_optim" THEN Fresh(params[s])'
                                       ELSE Fresh(txnParams[s])'
  BY DEF PublishInv
<1> USE DEF PublishPcs
<1>1. CASE UNCHANGED vars
  BY <1>1 DEF vars, PublishInv, Fresh
<1>2. CASE Terminated
  BY <1>1, <1>2 DEF Terminated
<1>3. CASE WriterStep
  BY <1>3 DEF WriterStep, QueueInv, StagingPcs
<1>4. CASE BeginCommit
  <2>1. txnParams[s] = NextParam(s) /\ NextParam(s) \in Version
        /\ txnOptim[s] = NextOptim(s) /\ NextOptim(s) \in Version
    BY <1>4, FlushedIsStaged
  <2>2. Fresh(txnParams[s])' /\ Fresh(txnOptim[s])'
    BY <1>4, <2>1, NoFileAssumption DEF BeginCommit, disk, Fresh, NextParam, NextOptim
  <2>3. shard' = 1 /\ pc' = "unlink_param"
    BY <1>4 DEF BeginCommit
  <2> QED
    BY <2>2, <2>3 DEF Shards
<1>5. CASE UnlinkParam
  BY SMTT(30), <1>5 DEF UnlinkParam, PublishInv, Fresh, TypeOK
<1>6. CASE UnlinkOptim
  <2>1. s # shard => optim'[s] = optim[s]
    BY <1>6 DEF UnlinkOptim, TypeOK
  <2>2. UNCHANGED <<params, txnParams, txnOptim, shard, txns>>
        /\ pc = "unlink_optim" /\ pc' = "replace_param" /\ shard \in Shards
    BY <1>6 DEF UnlinkOptim, TypeOK
  <2> QED
    BY <2>1, <2>2 DEF PublishInv, Fresh, Shards
<1>7. CASE ReplaceParam
  <2>1. params'[s] = (IF s = shard THEN txnParams[s] ELSE params[s])
        /\ (s # shard => txnParams'[s] = txnParams[s])
    BY <1>7 DEF ReplaceParam, TypeOK
  <2>2. UNCHANGED <<optim, txnOptim, shard, txns>>
        /\ pc = "replace_param" /\ pc' = "replace_optim" /\ shard \in Shards
    BY <1>7 DEF ReplaceParam, TypeOK
  <2> QED
    BY <2>1, <2>2 DEF PublishInv, Fresh, Shards
<1>8. CASE ReplaceOptim
  BY <1>8 DEF ReplaceOptim, PublishInv, Fresh, TypeOK, Shards
<1>9. CASE Resume \/ DiscardStale \/ BeginStep \/ ForwardFails \/ Finish
  BY <1>9 DEF Resume, DiscardStale, BeginStep, OpenTransaction, ForwardFails, Finish
<1>10. CASE StageParam \/ StageOptim \/ CommitCandidate \/ RetryStep \/ SkipStep
  BY <1>10 DEF StageParam, StageOptim, CommitCandidate, RetryStep, OpenTransaction, SkipStep
<1>11. CASE EndCommit \/ RecordStep \/ Crash \/ StepFails
  BY <1>11 DEF EndCommit, RecordStep, Crash, StepFails, ProcessEnds
<1> QED
  BY <1>1, <1>2, <1>3, <1>4, <1>5, <1>6, <1>7, <1>8, <1>9, <1>10, <1>11 DEF Next, TrainerStep

\* Where the loop's files are is more than a recovery tool needs.
LEMMA PublishIsRollForward == TypeOK /\ PublishInv => RollForwardPossible
<1> SUFFICES ASSUME TypeOK, PublishInv, MidPublish, NEW s \in Shards
             PROVE  /\ Fresh(params[s]) \/ Fresh(txnParams[s])
                    /\ Fresh(optim[s]) \/ Fresh(txnOptim[s])
                    /\ s < shard => Fresh(params[s]) /\ Fresh(optim[s])
  BY DEF RollForwardPossible
<1>1. pc \in PublishPcs
  BY DEF MidPublish, PublishPcs
<1>2. s < shard \/ s = shard \/ s > shard
  BY DEF TypeOK, Shards
<1> QED
  BY <1>1, <1>2 DEF PublishInv

\* Wherever a publication is interrupted, the new files of every shard are on disk.
THEOREM RollForward == Spec => []RollForwardPossible
<1>1. Init => TypeOK /\ QueueInv /\ PublishInv
  BY InitType, InitQueue DEF Init, PublishInv, PublishPcs
<1>2. (TypeOK /\ QueueInv /\ PublishInv) /\ [Next]_vars => (TypeOK /\ QueueInv /\ PublishInv)'
  BY StepType, StepQueue, StepPublish
<1> QED
  BY <1>1, <1>2, PublishIsRollForward, PTL DEF Spec

-----------------------------------------------------------------------------
(* The store and its record *)

\* In a uniform store the shards agree on the number of updates, and the optimizer files
\* that exist count that many.
LEMMA UniformCounts ==
  ASSUME TypeOK, Uniform
  PROVE  /\ 1 \in Shards /\ params[1] \in Version
         /\ \A s \in Shards : params[s] = params[1] /\ Counter(optim[s]) = params[1].n
         /\ \A m \in OptimizerSteps : m = params[1].n
         /\ params[1].n > 0 => params[1].n \in OptimizerSteps
<1>1. 1 \in Shards
  BY NumShardsAssumption DEF Shards
<1>2. params[1] \in Version
  BY <1>1 DEF Uniform, TypeOK, File
<1>3. \A s \in Shards : params[s] = params[1] /\ Counter(optim[s]) = params[1].n
  BY DEF Uniform, Counter
<1>4. \A m \in OptimizerSteps : m = params[1].n
  BY <1>3 DEF OptimizerSteps, Counter
<1>5. ASSUME params[1].n > 0
      PROVE  params[1].n \in OptimizerSteps
  <2>1. optim[1] = params[1] /\ optim[1] # NoFile
    BY <1>1, <1>2, <1>5 DEF Uniform, Version
  <2> QED
    BY <1>1, <2>1 DEF OptimizerSteps
<1> QED
  BY <1>1, <1>2, <1>3, <1>4, <1>5

\* The repair: a uniform store is accepted, and the record catches up with it.
LEMMA ResumeCatchesUp ==
  ASSUME TypeOK, Uniform, RecordAt(params[1].n) \/ RecordDue(params[1].n)
  PROVE  /\ ~Disagree
         /\ Reconciled \in TrainerState
         /\ Reconciled.global_step <= params[1].n + skips
         /\ params[1].n <= Reconciled.global_step
         /\ skips = 0 => Reconciled.optimizer_step = Reconciled.global_step
<1> DEFINE n == params[1].n
<1>1. n \in Nat /\ saved \in TrainerState /\ skips \in Nat
  BY UniformCounts DEF TypeOK, Version
<1>2. saved.global_step \in Nat /\ saved.optimizer_step \in Nat
  BY <1>1 DEF TrainerState
<1>3. ~Disagree
  BY UniformCounts DEF Disagree
<1>4. CASE n > saved.global_step
  <2>1. n \in OptimizerSteps /\ \A m \in OptimizerSteps : m = n
    BY <1>4, <1>1, <1>2, UniformCounts
  <2>2. (CHOOSE m \in OptimizerSteps : m > saved.global_step) = n
    BY <1>4, <2>1
  <2>3. Reconciled = [global_step |-> n,
                      optimizer_step |-> IF saved.optimizer_step > n THEN saved.optimizer_step ELSE n]
    BY <1>4, <2>1, <2>2 DEF Reconciled
  <2>4. skips = 0 => saved.optimizer_step = saved.global_step
    BY DEF RecordAt, RecordDue
  <2> QED
    BY <1>1, <1>2, <1>3, <1>4, <2>3, <2>4, ReconciledType
<1>5. CASE n <= saved.global_step
  <2>1. ~ \E m \in OptimizerSteps : m > saved.global_step
    BY <1>5, <1>1, <1>2, UniformCounts
  <2>2. Reconciled = saved
    BY <2>1 DEF Reconciled
  <2> QED
    BY <1>1, <1>2, <1>3, <1>5, <2>2 DEF RecordAt, RecordDue
<1> QED
  BY <1>1, <1>2, <1>4, <1>5

\* An action between steps, or inside staging, touches neither the store nor the record.
LEMMA AtRestStep ==
  ASSUME Untorn, pc \in AtRestPcs, pc' \in AtRestPcs,
         UNCHANGED <<params, optim, saved, state, skips>>
  PROVE  Untorn'
  BY DEF Untorn, AtRestPcs, StagingPcs, PublishPcs, Uniform, RecordAt

\* A torn store stays torn.
LEMMA TornStays ==
  ASSUME [Next]_vars, ~torn'
  PROVE  ~torn
  BY DEF Next, TrainerStep, Resume, DiscardStale, BeginStep, ForwardFails, Finish, StageParam,
     StageOptim, WriterStep, CommitCandidate, RetryStep, SkipStep, BeginCommit, UnlinkParam,
     UnlinkOptim, ReplaceParam, ReplaceOptim, EndCommit, RecordStep, Crash, StepFails,
     ProcessEnds, Terminated, vars, history

\* Random shards of one initialization are version 0 of the model.
LEMMA InitWhole == Init => Untorn
<1> SUFFICES ASSUME Init
             PROVE  Untorn
  OBVIOUS
<1>1. 1 \in Shards
  BY NumShardsAssumption DEF Shards
<1>2. Uniform
  BY <1>1, NoFileAssumption DEF Init, Uniform, NoFiles, Version
<1>3. RecordAt(params[1].n)
  BY <1>1 DEF Init, RecordAt
<1> QED
  BY <1>2, <1>3 DEF Init, Untorn, PublishPcs, AtRestPcs, StagingPcs

\* The publishing loop begins with every shard waiting, ...
LEMMA WholeBegin ==
  ASSUME TypeOK, QueueInv, Untorn, BeginCommit
  PROVE  Untorn'
<1> DEFINE old == params[1]
           new == [n |-> old.n + 1, txn |-> txns]
<1>1. Uniform /\ RecordAt(old.n) /\ state = saved
  BY DEF Untorn, BeginCommit, PublishPcs, AtRestPcs, StagingPcs
<1>2. 1 \in Shards /\ old \in Version
      /\ \A s \in Shards : params[s] = old /\ Counter(optim[s]) = old.n
  BY <1>1, UniformCounts
<1>3. \A s \in Shards : Holds(s, old) /\ Waiting(s, new)
  BY <1>1, <1>2, FlushedIsStaged DEF Holds, Waiting, Uniform, NextParam, NextOptim
<1>4. /\ UNCHANGED <<params, optim, txnParams, txnOptim, saved, state, txns, skips>>
      /\ pc' = "unlink_param" /\ shard' = 1
  BY DEF BeginCommit, disk, history
<1>5. \E v \in Version : (Publishing(v) /\ RecordAt(v.n))'
  <2>1. \A v : v = old => (Publishing(v) /\ RecordAt(v.n))'
    BY <1>3, <1>1, <1>4 DEF Publishing, Holds, Waiting, Shards, RecordAt
  <2> QED
    BY <1>2, <2>1
<1> QED
  BY <1>1, <1>4, <1>5 DEF Untorn, PublishPcs, AtRestPcs, StagingPcs

\* ... moves one file at a time, ...
PublishMove == \/ UnlinkParam
               \/ UnlinkOptim
               \/ ReplaceParam
               \/ ReplaceOptim /\ shard < NumShards

\* The loop goes on turning the same version into its successor.
LEMMA PublishingMoves ==
  ASSUME TypeOK, NEW old \in Version, Publishing(old), PublishMove
  PROVE  Publishing(old)'
<1> DEFINE new == [n |-> old.n + 1, txn |-> txns]
<1>1. txns' = txns /\ shard \in Shards
  BY DEF PublishMove, UnlinkParam, UnlinkOptim, ReplaceParam, ReplaceOptim, TypeOK
<1> SUFFICES ASSUME NEW s \in Shards
             PROVE  /\ s < shard' => Moved(s, new)'
                    /\ s > shard' => Holds(s, old)' /\ Waiting(s, new)'
                    /\ s = shard' =>
                         /\ pc' = "unlink_param" => Holds(s, old)'
                         /\ txnOptim'[s] = new
                         /\ IF pc' = "replace_optim"
                            THEN params'[s] = new /\ txnParams'[s] = NoFile
                            ELSE txnParams'[s] = new
  BY <1>1 DEF Publishing, Moved, Holds, Waiting
<1>2. CASE UnlinkParam
  <2>1. (s # shard => params'[s] = params[s]) /\ pc = "unlink_param" /\ pc' = "unlink_optim"
        /\ UNCHANGED <<optim, txnParams, txnOptim, shard>>
    BY <1>2 DEF UnlinkParam, TypeOK
  <2> QED
    BY <2>1, <1>1 DEF Publishing, Moved, Holds, Waiting, Shards
<1>3. CASE UnlinkOptim
  <2>1. (s # shard => optim'[s] = optim[s]) /\ pc = "unlink_optim" /\ pc' = "replace_param"
        /\ UNCHANGED <<params, txnParams, txnOptim, shard>>
    BY <1>3 DEF UnlinkOptim, TypeOK
  <2> QED
    BY <2>1, <1>1 DEF Publishing, Moved, Holds, Waiting, Shards
<1>4. CASE ReplaceParam
  <2>1. /\ s # shard => params'[s] = params[s] /\ txnParams'[s] = txnParams[s]
        /\ s = shard => params'[s] = txnParams[s] /\ txnParams'[s] = NoFile
        /\ pc = "replace_param" /\ pc' = "replace_optim"
        /\ UNCHANGED <<optim, txnOptim, shard>>
    BY <1>4 DEF ReplaceParam, TypeOK
  <2> QED
    BY <2>1, <1>1 DEF Publishing, Moved, Holds, Waiting, Shards
<1>5. CASE ReplaceOptim /\ shard < NumShards
  <2>1. /\ s # shard => optim'[s] = optim[s] /\ txnOptim'[s] = txnOptim[s]
        /\ s = shard => optim'[s] = txnOptim[s]
        /\ pc = "replace_optim" /\ pc' = "unlink_param" /\ shard' = shard + 1
        /\ UNCHANGED <<params, txnParams>>
    BY <1>5 DEF ReplaceOptim, TypeOK
  <2> QED
    BY <2>1, <1>1 DEF Publishing, Moved, Holds, Waiting, Shards
<1> QED
  BY <1>2, <1>3, <1>4, <1>5 DEF PublishMove

\* A move inside the loop keeps an untorn store untorn: the record waits for the end.
LEMMA WholeMove ==
  ASSUME TypeOK, Untorn, PublishMove
  PROVE  Untorn'
<1>1. pc \in PublishPcs /\ pc' \in PublishPcs
  BY DEF PublishMove, UnlinkParam, UnlinkOptim, ReplaceParam, ReplaceOptim, PublishPcs
<1>2. UNCHANGED <<saved, state, skips>>
  BY DEF PublishMove, UnlinkParam, UnlinkOptim, ReplaceParam, ReplaceOptim, history
<1>3. PICK old \in Version : Publishing(old) /\ RecordAt(old.n)
  BY <1>1 DEF Untorn
<1>4. \E v \in Version : (Publishing(v) /\ RecordAt(v.n))'
  <2>1. RecordAt(old.n)'
    BY <1>2, <1>3 DEF RecordAt
  <2> QED
    BY <1>3, <2>1, PublishingMoves
<1> QED
  BY <1>1, <1>2, <1>4 DEF Untorn, PublishPcs, AtRestPcs, StagingPcs

\* ... and ends with every shard moved: the next version, one step ahead of the record.
LEMMA WholeEnd ==
  ASSUME TypeOK, Untorn, ReplaceOptim, shard = NumShards
  PROVE  Untorn'
<1>1. PICK old \in Version : Publishing(old) /\ RecordAt(old.n)
  BY DEF Untorn, ReplaceOptim, PublishPcs
<1> DEFINE new == [n |-> old.n + 1, txn |-> txns]
<1>2. \A s \in Shards : params'[s] = new /\ optim'[s] = new
  BY <1>1 DEF ReplaceOptim, Publishing, Moved, TypeOK, Shards
<1>3. new \in Version /\ new # NoFile /\ 1 \in Shards /\ new.n = old.n + 1
  BY NoFileAssumption, NumShardsAssumption DEF TypeOK, Version, Shards
<1>4. Uniform'
  BY <1>2, <1>3 DEF Uniform
<1>5. RecordDue(params[1].n)'
  <2>1. params'[1].n = old.n + 1 /\ UNCHANGED <<saved, skips>> /\ saved.global_step \in Nat
        /\ old.n \in Nat /\ skips \in Nat
    BY <1>2, <1>3 DEF ReplaceOptim, history, TypeOK, TrainerState, Version
  <2> QED
    BY <2>1, <1>1 DEF RecordAt, RecordDue
<1>6. pc' = "finish" /\ state' = saved'
  BY NumShardsAssumption DEF ReplaceOptim, Untorn
<1> QED
  BY <1>4, <1>5, <1>6 DEF Untorn, PublishPcs, AtRestPcs, StagingPcs

\* Until its first unlink, a publication has changed nothing.
LEMMA NotStarted ==
  ASSUME TypeOK, Untorn, pc \in PublishPcs, ~MidPublish
  PROVE  /\ pc = "unlink_param" /\ shard = 1
         /\ Uniform /\ RecordAt(params[1].n)
<1>1. pc = "unlink_param" /\ shard = 1 /\ 1 \in Shards
  BY NumShardsAssumption DEF MidPublish, PublishPcs, TypeOK, Shards
<1>2. PICK old \in Version : Publishing(old) /\ RecordAt(old.n)
  BY DEF Untorn
<1>3. \A s \in Shards : Holds(s, old)
  BY <1>1, <1>2 DEF Publishing, Shards
<1> QED
  BY <1>1, <1>2, <1>3, NoFileAssumption DEF Uniform, Holds

\* The end of a process outside the publishing loop leaves a whole version and a record.
LEMMA WholeFault ==
  ASSUME TypeOK, Untorn, Crash \/ StepFails, ~torn'
  PROVE  Untorn'
<1>1. ~MidPublish /\ pc' = "down" /\ UNCHANGED <<params, optim, saved, skips>>
  BY DEF Crash, StepFails, ProcessEnds, disk
<1>2. CASE pc \in PublishPcs
  <2>1. Uniform /\ RecordAt(params[1].n)
    BY <1>1, <1>2, NotStarted
  <2> QED
    BY <1>1, <2>1 DEF Untorn, Uniform, RecordAt, PublishPcs, AtRestPcs, StagingPcs
<1>3. CASE pc \notin PublishPcs
  <2>1. Uniform /\ (RecordAt(params[1].n) \/ RecordDue(params[1].n))
    BY <1>3 DEF Crash, StepFails, Running, StepPcs, Untorn, PublishPcs, AtRestPcs, StagingPcs
  <2> QED
    BY <1>1, <2>1 DEF Untorn, Uniform, RecordAt, RecordDue, PublishPcs, AtRestPcs, StagingPcs
<1> QED
  BY <1>2, <1>3

\* Every action keeps an untorn store whole and its record at most one step behind.
LEMMA StepWhole == TypeOK /\ QueueInv /\ WholeInv /\ [Next]_vars => WholeInv'
<1> SUFFICES ASSUME TypeOK, QueueInv, Untorn, [Next]_vars, ~torn'
             PROVE  Untorn'
  BY TornStays DEF WholeInv
<1> USE DEF PublishPcs, AtRestPcs, StagingPcs
<1>0. CASE UNCHANGED vars
  BY <1>0 DEF vars, Untorn, Uniform, RecordAt, RecordDue, Publishing, Holds, Moved, Waiting
<1>1. CASE Resume
  <2>1. Uniform /\ (RecordAt(params[1].n) \/ RecordDue(params[1].n))
    BY <1>1 DEF Resume, Untorn
  <2>2. /\ pc' = "resumed" /\ saved' = Reconciled /\ state' = Reconciled
        /\ UNCHANGED <<params, optim, skips>>
    BY <1>1, <2>1, ResumeCatchesUp DEF Resume, history
  <2>3. RecordAt(params[1].n)'
    BY <2>1, <2>2, ResumeCatchesUp DEF RecordAt
  <2> QED
    BY <2>1, <2>2, <2>3 DEF Untorn, Uniform
<1>2. CASE DiscardStale
  BY <1>2, AtRestStep DEF DiscardStale, history
<1>3. CASE BeginStep
  BY <1>3, AtRestStep DEF BeginStep, OpenTransaction, history
<1>4. CASE ForwardFails
  BY <1>4 DEF ForwardFails, Untorn, Uniform
<1>5. CASE Finish
  BY <1>5, AtRestStep DEF Finish, disk, history
<1>6. CASE StageParam
  BY <1>6, AtRestStep DEF StageParam, disk, history
<1>7. CASE StageOptim
  <2>1. pc' \in StagingPcs
    BY <1>7 DEF StageOptim
  <2> QED
    BY <1>7, <2>1, AtRestStep DEF StageOptim, disk, history
<1>8. CASE WriterStep
  <2>1. pc \in StagingPcs
    BY <1>8 DEF WriterStep, QueueInv
  <2> QED
    BY <1>8, <2>1, AtRestStep DEF WriterStep, history
<1>9. CASE CommitCandidate
  BY <1>9, AtRestStep DEF CommitCandidate, disk, history
<1>10. CASE RetryStep
  BY <1>10, AtRestStep DEF RetryStep, OpenTransaction, history
<1>11. CASE SkipStep
  <2>1. Uniform /\ RecordAt(params[1].n) /\ state = saved
    BY <1>11 DEF SkipStep, Untorn
  <2>2. /\ pc' = "record" /\ skips' = skips + 1
        /\ UNCHANGED <<params, optim, saved, state>>
    BY <1>11 DEF SkipStep
  <2>3. /\ params[1].n \in Nat /\ saved.global_step \in Nat /\ skips \in Nat
    BY <2>1, UniformCounts DEF TypeOK, TrainerState, Version
  <2>4. RecordDue(params[1].n)' /\ skips' # 0
    BY <2>1, <2>2, <2>3 DEF RecordAt, RecordDue
  <2> QED
    BY <2>1, <2>2, <2>4 DEF Untorn, Uniform
<1>12. CASE BeginCommit
  BY <1>12, WholeBegin
<1>13. CASE UnlinkParam \/ UnlinkOptim \/ ReplaceParam
  BY <1>13, WholeMove DEF PublishMove
<1>14. CASE ReplaceOptim
  <2>1. shard < NumShards \/ shard = NumShards
    BY NumShardsAssumption DEF TypeOK, Shards
  <2> QED
    BY <1>14, <2>1, WholeMove, WholeEnd DEF PublishMove
<1>15. CASE EndCommit
  BY <1>15 DEF EndCommit, history, Untorn, Uniform, RecordDue
<1>16. CASE RecordStep
  <2>1. Uniform /\ RecordDue(params[1].n) /\ state = saved /\ (skips = 0 => committed)
    BY <1>16 DEF RecordStep, Untorn
  <2>2. /\ params[1].n \in Nat /\ skips \in Nat
        /\ saved.global_step \in Nat /\ saved.optimizer_step \in Nat
    BY <2>1, UniformCounts DEF TypeOK, TrainerState, Version
  <2>3. /\ pc' = "forward" /\ state' = saved'
        /\ saved'.global_step = saved.global_step + 1
        /\ committed => saved'.optimizer_step = saved.optimizer_step + 1
        /\ UNCHANGED <<params, optim, skips>>
    BY <1>16, <2>1 DEF RecordStep, history
  <2>4. RecordAt(params[1].n)'
    BY <2>1, <2>2, <2>3 DEF RecordAt, RecordDue
  <2> QED
    BY <2>1, <2>3, <2>4 DEF Untorn, Uniform
<1>17. CASE Crash \/ StepFails
  BY <1>17, WholeFault
<1>18. CASE Terminated
  BY <1>18, <1>0 DEF Terminated
<1> QED
  BY <1>0, <1>1, <1>2, <1>3, <1>4, <1>5, <1>6, <1>7, <1>8, <1>9, <1>10, <1>11, <1>12, <1>13,
     <1>14, <1>15, <1>16, <1>17, <1>18 DEF Next, TrainerStep

\* The inductive invariant holds in every behaviour.
LEMMA Inductive == Spec => []IndInv
<1>1. Init => IndInv
  BY InitType, InitQueue, InitWhole DEF IndInv, WholeInv, Init, PublishInv, PublishPcs
<1>2. IndInv /\ [Next]_vars => IndInv'
  BY StepType, StepQueue, StepPublish, StepWhole DEF IndInv
<1> QED
  BY <1>1, <1>2, PTL DEF Spec

-----------------------------------------------------------------------------
(* What the invariant gives *)

\* The invariant says the live files are of one update outside the loop.
LEMMA IndIsWhole == IndInv => OnlyWholeUpdates
  BY NotStarted DEF IndInv, WholeInv, OnlyWholeUpdates, Untorn

\* Outside the publishing loop every shard holds one and the same update.
THEOREM WholeUpdates == Spec => []OnlyWholeUpdates
  BY Inductive, IndIsWhole, PTL

\* The invariant says where training goes on when no step was skipped.
LEMMA IndIsExact == IndInv => ResumeIsExact
<1> SUFFICES ASSUME IndInv, pc = "forward", ~torn, skips = 0
             PROVE  /\ state.global_step = params[1].n
                    /\ state.optimizer_step = params[1].n
                    /\ saved = state
  BY DEF ResumeIsExact
<1>1. Uniform /\ RecordAt(params[1].n) /\ state = saved
  BY DEF IndInv, WholeInv, Untorn, PublishPcs, AtRestPcs
<1>2. params[1].n \in Nat /\ saved.global_step \in Nat
  BY <1>1, UniformCounts DEF IndInv, TypeOK, TrainerState, Version
<1> QED
  BY <1>1, <1>2 DEF RecordAt

\* A resumed run trains on from exactly the step its shards hold.
THEOREM ExactResume == Spec => []ResumeIsExact
  BY Inductive, IndIsExact, PTL

\* What a reader sees: outside the loop the live version, ...
LEMMA PublishedAtRest ==
  ASSUME TypeOK, Untorn, ~torn, ~MidPublish
  PROVE  /\ Uniform /\ Published = params[1].n
         /\ RecordAt(params[1].n) \/ RecordDue(params[1].n)
<1>1. Published = params[1].n
  BY DEF Published
<1>2. CASE pc \in PublishPcs
  BY <1>1, <1>2, NotStarted
<1>3. CASE pc \notin PublishPcs
  BY <1>1, <1>3 DEF Untorn, TypeOK, Running, StepPcs, Stopped, PublishPcs, AtRestPcs, StagingPcs
<1> QED
  BY <1>2, <1>3

\* ... and inside it the next one.
LoopShowsNext ==
  TypeOK /\ ~torn /\ MidPublish => \A old \in Version : Publishing(old) => Published = old.n + 1

\* The first shard's new file is the version being published, staged or moved.
LEMMA PublishedInLoop == LoopShowsNext
<1> SUFFICES ASSUME TypeOK, ~torn, MidPublish, NEW old \in Version, Publishing(old)
             PROVE  Published = old.n + 1
  BY DEF LoopShowsNext
<1> DEFINE new == [n |-> old.n + 1, txn |-> txns]
<1>1. new # NoFile /\ new.n = old.n + 1 /\ new.txn = txns
  BY NoFileAssumption DEF TypeOK, Version
<1>2. 1 \in Shards
  BY NumShardsAssumption DEF Shards
<1>3. CASE shard = 1 /\ pc # "replace_optim"
  <2>1. txnParams[1] = new
    BY <1>2, <1>3 DEF Publishing
  <2> QED
    BY <1>1, <2>1 DEF Published, Fresh
<1>4. CASE shard # 1 \/ pc = "replace_optim"
  <2>1. params[1] = new /\ txnParams[1] = NoFile
    BY <1>2, <1>4 DEF Publishing, Moved, TypeOK, Shards
  <2> QED
    BY <1>1, <2>1 DEF Published, Fresh
<1> QED
  BY <1>3, <1>4

\* Outside the loop the record and the shards are one step apart at most.
LEMMA IndIsFollowed ==
  ASSUME IndInv, ~torn, ~MidPublish
  PROVE  /\ params[1].n <= saved.global_step + 1
         /\ pc = "forward" => params[1].n <= state.global_step
         /\ saved.global_step <= Published + skips
<1>1. TypeOK /\ Untorn
  BY DEF IndInv, WholeInv
<1>2. saved.global_step \in Nat /\ skips \in Nat
  BY <1>1 DEF TypeOK, TrainerState
<1>3. Uniform /\ Published = params[1].n /\ (RecordAt(params[1].n) \/ RecordDue(params[1].n))
  BY <1>1, PublishedAtRest
<1>4. params[1].n \in Nat
  BY <1>1, <1>3, UniformCounts DEF Version
<1>5. pc = "forward" => RecordAt(params[1].n) /\ state = saved
  BY <1>1 DEF Untorn, AtRestPcs
<1> QED
  BY <1>2, <1>3, <1>4, <1>5 DEF RecordAt, RecordDue

\* Inside the loop the record is still that of the version before.
LEMMA IndIsKept ==
  ASSUME IndInv, ~torn, MidPublish
  PROVE  saved.global_step <= Published + skips
<1>1. TypeOK /\ Untorn /\ pc \in PublishPcs
  BY DEF IndInv, WholeInv, MidPublish, PublishPcs
<1>2. PICK old \in Version : Publishing(old) /\ RecordAt(old.n)
  BY <1>1 DEF Untorn
<1>3. Published = old.n + 1 /\ old.n \in Nat
  BY <1>1, <1>2, PublishedInLoop DEF Version, LoopShowsNext
<1>4. saved.global_step \in Nat /\ skips \in Nat
  BY <1>1 DEF TypeOK, TrainerState
<1> QED
  BY <1>2, <1>3, <1>4 DEF RecordAt

\* The record is never more than one step behind the shards, and training never goes on
\* from a step they passed.
THEOREM RecordFollows == Spec => []RecordFollowsShards
<1>1. IndInv => RecordFollowsShards
  BY IndIsFollowed DEF RecordFollowsShards
<1> QED
  BY <1>1, Inductive, PTL

\* A recorded step is in the shards, or the guard skipped it.
THEOREM StepsKept == Spec => []NoStepLost
<1>1. IndInv => NoStepLost
  BY IndIsFollowed, IndIsKept DEF NoStepLost
<1> QED
  BY <1>1, Inductive, PTL

-----------------------------------------------------------------------------
(* The refinement of AtomicSteps *)

\* A step between two states outside the publishing loop that touches neither the store
\* nor the record is invisible.
LEMMA InvisibleAtRest ==
  ASSUME ~torn, ~torn', ~MidPublish, ~MidPublish', UNCHANGED <<params, saved>>
  PROVE  UNCHANGED Abstract!absVars
<1>1. Published = params[1].n /\ Published' = params'[1].n
  BY DEF Published
<1> QED
  BY <1>1 DEF Abstract!absVars

\* Every move of a file inside the loop is invisible but the first unlink, which is the
\* point of no return: the next version is published, one ahead of the record at most.
LEMMA MoveRefines ==
  ASSUME TypeOK, TypeOK', Untorn, ~torn, ~torn', PublishMove
  PROVE  Abstract!Publish \/ UNCHANGED Abstract!absVars
<1>1. pc \in PublishPcs /\ MidPublish' /\ saved' = saved
  BY DEF PublishMove, UnlinkParam, UnlinkOptim, ReplaceParam, ReplaceOptim, PublishPcs,
         MidPublish, TypeOK, Shards
<1>2. PICK old \in Version : Publishing(old) /\ RecordAt(old.n)
  BY <1>1 DEF Untorn
<1>3. Publishing(old)'
  BY <1>2, PublishingMoves
<1>4. Published' = old.n + 1
  <2>1. (LoopShowsNext)'
    BY PublishedInLoop, PTL
  <2> QED
    BY <1>1, <1>3, <2>1 DEF LoopShowsNext
<1>5. CASE MidPublish
  <2>1. Published = old.n + 1
    BY <1>2, <1>5, PublishedInLoop DEF LoopShowsNext
  <2> QED
    BY <1>1, <1>4, <2>1 DEF Abstract!absVars
<1>6. CASE ~MidPublish
  <2>1. pc = "unlink_param" /\ shard = 1 /\ Published = params[1].n /\ 1 \in Shards
    BY <1>1, <1>6, NotStarted, PublishedAtRest DEF TypeOK
  <2>2. params[1] = old
    BY <1>2, <2>1 DEF Publishing, Holds
  <2> QED
    BY <1>1, <1>2, <1>4, <2>1, <2>2 DEF RecordAt, Abstract!Publish
<1> QED
  BY <1>5, <1>6

\* The repair on resume is a step of the abstract record, or nothing.
LEMMA ResumeRefines ==
  ASSUME TypeOK, Untorn, ~torn, ~torn', Resume
  PROVE  Abstract!Repair \/ UNCHANGED Abstract!absVars
<1>1. ~MidPublish /\ ~MidPublish' /\ UNCHANGED params
  BY DEF Resume, MidPublish, PublishPcs
<1>2. Uniform /\ Published = params[1].n /\ (RecordAt(params[1].n) \/ RecordDue(params[1].n))
  BY <1>1, PublishedAtRest
<1>3. Published' = Published
  BY <1>1, <1>2 DEF Published
<1>4. saved' = Reconciled
  BY <1>2, ResumeCatchesUp DEF Resume
<1>5. params[1].n \in Nat /\ saved.global_step \in Nat
  BY <1>2, UniformCounts DEF TypeOK, TrainerState, Version
<1>6. CASE params[1].n > saved.global_step
  <2>1. Reconciled.global_step = params[1].n
    <3>1. params[1].n \in OptimizerSteps /\ \A m \in OptimizerSteps : m = params[1].n
      BY <1>2, <1>5, <1>6, UniformCounts
    <3> QED
      BY <1>6, <3>1 DEF Reconciled
  <2> QED
    BY <1>2, <1>3, <1>4, <1>6, <2>1 DEF Abstract!Repair
<1>7. CASE params[1].n <= saved.global_step
  <2>1. Reconciled = saved
    BY <1>2, <1>5, <1>7, UniformCounts DEF Reconciled
  <2> QED
    BY <1>3, <1>4, <2>1 DEF Abstract!absVars
<1> QED
  BY <1>5, <1>6, <1>7

\* The end of a publication changes nothing a reader sees.
LEMMA EndOfLoopRefines ==
  ASSUME TypeOK, Untorn, ~torn, ~torn', ReplaceOptim, shard = NumShards
  PROVE  UNCHANGED Abstract!absVars
<1>1. MidPublish /\ ~MidPublish' /\ saved' = saved /\ pc \in PublishPcs
  BY NumShardsAssumption DEF ReplaceOptim, MidPublish, PublishPcs
<1>2. PICK old \in Version : Publishing(old)
  BY <1>1 DEF Untorn
<1>3. Published = old.n + 1
  BY <1>1, <1>2, PublishedInLoop DEF LoopShowsNext
<1>4. params'[1].n = old.n + 1
  BY <1>2, NumShardsAssumption DEF ReplaceOptim, Publishing, Moved, TypeOK, Shards
<1>5. Published' = params'[1].n
  BY <1>1 DEF Published
<1> QED
  BY <1>1, <1>3, <1>4, <1>5 DEF Abstract!absVars

\* A fresh run directory is the abstract store at version 0.
LEMMA InitRefines == Init => Abstract!Init
<1> SUFFICES ASSUME Init
             PROVE  Abstract!Init
  OBVIOUS
<1>1. 1 \in Shards
  BY NumShardsAssumption DEF Shards
<1>2. ~torn /\ ~MidPublish /\ params[1].n = 0
  BY <1>1 DEF Init, MidPublish, PublishPcs
<1>3. Published = 0
  BY <1>2 DEF Published
<1> QED
  BY <1>2, <1>3 DEF Init, Abstract!Init

\* Every step is a Publish, a Record, a Repair, a Torn, or nothing a reader sees.
LEMMA StepRefines ==
  ASSUME IndInv, IndInv', [Next]_vars
  PROVE  Abstract!Next \/ UNCHANGED Abstract!absVars
<1>1. CASE torn'
  BY <1>1 DEF Abstract!Next, Abstract!Torn
<1>2. CASE ~torn'
  <2>1. ~torn
    BY <1>2, TornStays
  <2>2. TypeOK /\ TypeOK' /\ Untorn /\ QueueInv
    BY <2>1 DEF IndInv, WholeInv
  <2>3. CASE Resume
    BY <1>2, <2>1, <2>2, <2>3, ResumeRefines DEF Abstract!Next
  <2>4. CASE UnlinkParam \/ UnlinkOptim \/ ReplaceParam
    BY <1>2, <2>1, <2>2, <2>4, MoveRefines DEF PublishMove, Abstract!Next
  <2>5. CASE ReplaceOptim
    <3>1. shard < NumShards \/ shard = NumShards
      BY <2>2, NumShardsAssumption DEF TypeOK, Shards
    <3> QED
      BY <1>2, <2>1, <2>2, <2>5, <3>1, MoveRefines, EndOfLoopRefines DEF PublishMove, Abstract!Next
  <2>6. CASE RecordStep
    <3>1. ~MidPublish /\ ~MidPublish' /\ UNCHANGED params
      BY <2>6 DEF RecordStep, MidPublish, PublishPcs
    <3>2. Published' = Published
      BY <1>2, <2>1, <3>1 DEF Published
    <3>3. state = saved
      BY <2>2, <2>6 DEF Untorn, RecordStep
    <3>4. saved'.global_step = saved.global_step + 1
      BY <2>6, <3>3 DEF RecordStep
    <3> QED
      BY <1>2, <2>1, <3>2, <3>4 DEF Abstract!Next, Abstract!Record
  <2>7. CASE DiscardStale \/ BeginStep \/ ForwardFails \/ Finish
    <3>1. ~MidPublish /\ ~MidPublish' /\ UNCHANGED <<params, saved>>
      BY <2>7 DEF DiscardStale, BeginStep, OpenTransaction, ForwardFails, Finish, disk,
                  MidPublish, PublishPcs
    <3> QED
      BY <1>2, <2>1, <3>1, InvisibleAtRest
  <2>8. CASE StageParam \/ StageOptim \/ CommitCandidate \/ RetryStep \/ SkipStep
    <3>1. ~MidPublish /\ ~MidPublish' /\ UNCHANGED <<params, saved>>
      BY <2>8 DEF StageParam, StageOptim, CommitCandidate, RetryStep, SkipStep, OpenTransaction,
                  disk, MidPublish, PublishPcs
    <3> QED
      BY <1>2, <2>1, <3>1, InvisibleAtRest
  <2>9. CASE WriterStep
    <3>1. ~MidPublish /\ ~MidPublish' /\ UNCHANGED <<params, saved>>
      BY <2>2, <2>9 DEF WriterStep, QueueInv, StagingPcs, MidPublish, PublishPcs
    <3> QED
      BY <1>2, <2>1, <3>1, InvisibleAtRest
  <2>10. CASE BeginCommit \/ EndCommit
    <3>1. ~MidPublish /\ ~MidPublish' /\ UNCHANGED <<params, saved>>
      BY <2>10 DEF BeginCommit, EndCommit, disk, MidPublish, PublishPcs
    <3> QED
      BY <1>2, <2>1, <3>1, InvisibleAtRest
  <2>11. CASE Crash \/ StepFails
    <3>1. ~MidPublish /\ ~MidPublish' /\ UNCHANGED <<params, saved>>
      BY <1>2, <2>11 DEF Crash, StepFails, ProcessEnds, disk, MidPublish, PublishPcs
    <3> QED
      BY <1>2, <2>1, <3>1, InvisibleAtRest
  <2>12. CASE Terminated \/ UNCHANGED vars
    <3>1. UNCHANGED <<params, saved, torn, pc, shard, txnParams, txns>>
      BY <2>12 DEF Terminated, vars
    <3> QED
      BY <3>1 DEF Abstract!absVars, Published, MidPublish, Fresh
  <2> QED
    BY <2>3, <2>4, <2>5, <2>6, <2>7, <2>8, <2>9, <2>10, <2>11, <2>12 DEF Next, TrainerStep
<1> QED
  BY <1>1, <1>2

\* The sharded transaction implements the promise of AtomicSteps: unless a publication is
\* cut, a reader sees whole updates published and recorded in turn.
THEOREM Refinement == Spec => ImplementsAtomicSteps
<1>1. IndInv /\ IndInv' /\ [Next]_vars => [Abstract!Next]_(Abstract!absVars)
  BY StepRefines
<1> QED
  BY <1>1, Inductive, InitRefines, PTL DEF Spec, ImplementsAtomicSteps, Abstract!Spec
=============================================================================
