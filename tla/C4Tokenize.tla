------------------------------ MODULE C4Tokenize ------------------------------
(* The job that turns C4 parquet files into packed token shards: it reads the  *)
(* row batches of the train and then of the val split, publishes shards as     *)
(* they fill, records its progress after every row batch, and may die at any   *)
(* point and be started again.                                                 *)
EXTENDS C4Corpus

CONSTANTS BlocksPerShard,  \* blocks_per_shard
          Limits,          \* values of max_docs to run with; Unlimited is None
          Unlimited,       \* a number no split has as many documents as
          MaxCrashes       \* bound on the times a program dies

ASSUME TokenizeAssumption ==
  /\ BlocksPerShard \in Nat \ {0} /\ MaxCrashes \in Nat
  /\ Limits \subseteq Nat \ {0} /\ Unlimited \in Nat

VARIABLES
  limit,      \* max_docs of the job
  job,        \* the running job: where it is, its token buffer and its blocks
  crashes,    \* times a program died so far
  progress,   \* split -> <split>_progress.json
  shards,     \* split -> the published shards, each a sequence of blocks
  temporary,  \* splits with a .tmp.npy file on disk
  manifest,   \* manifest.json: split -> the shards it lists, << >> if there is none
  resumedCut  \* a split that max_docs had ended was read on by another launch

tokenizeVars == <<limit, job, crashes, progress, shards, temporary, manifest, resumedCut>>

Least == 2      \* documents of fewer tokens are skipped
Idle  == [doing |-> "idle"]

Fresh == [file |-> 0, batch |-> 0, buffer |-> <<>>, cut |-> FALSE]

TokenizeInit ==
  /\ limit \in Limits /\ job = Idle /\ crashes = 0
  /\ progress = [s \in Splits |-> Fresh]
  /\ shards = [s \in Splits |-> <<>>]
  /\ temporary = {} /\ manifest = <<>> /\ resumedCut = FALSE

-------------------------------------------------------------------------------
\* tokenize_split reads its progress and goes on behind the last row batch done.
Opened(split) ==
  [doing |-> "rows", split |-> split, base |-> RowFrom(split, progress[split].file,
                                                       progress[split].batch),
   at |-> RowFrom(split, progress[split].file, progress[split].batch),
   docs |-> 0, buffer |-> progress[split].buffer, blocks |-> <<>>]

OpenSplit(split) ==
  /\ job' = Opened(split)
  /\ resumedCut' = (resumedCut \/ progress[split].cut)

\* Mutant: the train split's progress decides whether the job is complete.
StartUnlessTrainDone ==
  /\ job = Idle /\ manifest = <<>> /\ progress["train"].file < Files("train")
  /\ OpenSplit("train")
  /\ UNCHANGED <<limit, crashes, progress, shards, temporary, manifest>>

\* A launch returns at once when there is a manifest.
StartJob ==
  /\ job = Idle /\ manifest = <<>>
  /\ OpenSplit("train")
  /\ UNCHANGED <<limit, crashes, progress, shards, temporary, manifest>>

JobRows   == Rows[job.split]
RowBatch(i) == <<JobRows[i].file, JobRows[i].batch>>
AtLimit   == job.docs >= limit
BatchDone == /\ job.at > job.base
             /\ job.at <= Len(JobRows) => RowBatch(job.at) # RowBatch(job.at - 1)

AddDocument ==
  /\ job.doing = "rows" /\ ~PacksOne(job.buffer) /\ ~BatchDone /\ ~AtLimit
  /\ job.at <= Len(JobRows)
  /\ job' = [job EXCEPT !.at = @ + 1, !.docs = @ + 1,
                        !.buffer = @ \o Encoded(job.split, job.at, Least)]
  /\ UNCHANGED <<limit, crashes, progress, shards, temporary, manifest, resumedCut>>

PackBlock ==
  /\ job.doing = "rows" /\ PacksOne(job.buffer)
  /\ LET blocks == Append(job.blocks, Packed(job.buffer))
     IN  job' = [job EXCEPT !.buffer = AfterPack(@), !.blocks = blocks,
                            !.doing = IF Len(blocks) >= BlocksPerShard THEN "save" ELSE @]
  /\ UNCHANGED <<limit, crashes, progress, shards, temporary, manifest, resumedCut>>

\* Mutant: the progress is written when the row batch has been read, and the
\* blocks left over are flushed with those of the next one.
BatchReadUnflushed ==
  /\ job.doing = "rows" /\ ~PacksOne(job.buffer)
  /\ BatchDone \/ (AtLimit /\ job.at <= Len(JobRows))
  /\ job' = [job EXCEPT !.doing = "progress"]
  /\ UNCHANGED <<limit, crashes, progress, shards, temporary, manifest, resumedCut>>

\* The end of a row batch, or max_docs, flushes what is packed.
BatchRead ==
  /\ job.doing = "rows" /\ ~PacksOne(job.buffer)
  /\ BatchDone \/ (AtLimit /\ job.at <= Len(JobRows))
  /\ job' = [job EXCEPT !.doing = IF job.blocks = <<>> THEN "progress" ELSE "save"]
  /\ UNCHANGED <<limit, crashes, progress, shards, temporary, manifest, resumedCut>>

SaveTemporary ==
  /\ job.doing = "save"
  /\ temporary' = temporary \cup {job.split}
  /\ job' = [job EXCEPT !.doing = "replace"]
  /\ UNCHANGED <<limit, crashes, progress, shards, manifest, resumedCut>>

\* os.replace publishes the shard behind those that exist.
PublishShard ==
  /\ job.doing = "replace"
  /\ shards' = [shards EXCEPT ![job.split] = Append(@, job.blocks)]
  /\ temporary' = temporary \ {job.split}
  /\ job' = [job EXCEPT !.doing = "rows", !.blocks = <<>>]
  /\ UNCHANGED <<limit, crashes, progress, manifest, resumedCut>>

\* What write_split_progress records behind the row batch of row i.
ProgressAfter(i) ==
  [file |-> JobRows[i].file, batch |-> JobRows[i].batch + 1,
   buffer |-> Remainder(job.buffer), cut |-> FALSE]

\* A split that max_docs ends records the row batch it is in, to be read again.
ProgressAtLimit ==
  [file |-> JobRows[job.at].file, batch |-> JobRows[job.at].batch,
   buffer |-> Remainder(job.buffer), cut |-> TRUE]

WriteProgress ==
  /\ job.doing = "progress"
  /\ IF BatchDone
     THEN /\ progress' = [progress EXCEPT ![job.split] = ProgressAfter(job.at - 1)]
          /\ job' = [job EXCEPT !.doing = "rows", !.base = job.at]
     ELSE /\ progress' = [progress EXCEPT ![job.split] = ProgressAtLimit]
          /\ job' = [job EXCEPT !.doing = "returned"]
  /\ UNCHANGED <<limit, crashes, shards, temporary, manifest, resumedCut>>

\* Behind the last row batch the split is complete.
EndSplit ==
  /\ job.doing = "rows" /\ ~PacksOne(job.buffer)
  /\ job.at = job.base /\ job.at > Len(JobRows)
  /\ progress' = [progress EXCEPT ![job.split] =
                    [file |-> Files(job.split), batch |-> 0,
                     buffer |-> Remainder(job.buffer), cut |-> FALSE]]
  /\ job' = [job EXCEPT !.doing = "returned"]
  /\ UNCHANGED <<limit, crashes, shards, temporary, manifest, resumedCut>>

NextSplit ==
  /\ job.doing = "returned" /\ job.split = "train"
  /\ OpenSplit("val")
  /\ UNCHANGED <<limit, crashes, progress, shards, temporary, manifest>>

\* The manifest lists every <split>_*.npy there is, a .tmp.npy too, and calls
\* the job complete whether or not max_docs ended a split.
WriteManifest ==
  /\ job.doing = "returned" /\ job.split = "val"
  /\ manifest' = [listed |-> shards, torn |-> temporary]
  /\ job' = Idle
  /\ UNCHANGED <<limit, crashes, progress, shards, temporary, resumedCut>>

JobCrash ==
  /\ job # Idle /\ crashes < MaxCrashes
  /\ job' = Idle /\ crashes' = crashes + 1
  /\ UNCHANGED <<limit, progress, shards, temporary, manifest, resumedCut>>

TokenizeStep == \/ StartJob \/ AddDocument \/ PackBlock \/ BatchRead \/ SaveTemporary
                \/ PublishShard \/ WriteProgress \/ EndSplit \/ NextSplit \/ WriteManifest
===============================================================================
