----------------------------- MODULE TrainingData -----------------------------
(* The two ways from C4 text to the trainer: C4Tokenize packs it into shards   *)
(* that the packed loader reads in a shuffled order of shards, or C4Stream     *)
(* feeds it as it is read.  A run uses one of them.                            *)
EXTENDS C4Tokenize, C4Stream

CONSTANTS BatchSize,    \* micro_batch_size: blocks of a packed training step
          PackedSteps,  \* max_steps of packed training
          Shuffles      \* the orders that rng.shuffle gives: sequences of shard numbers

ASSUME TrainingDataAssumption == {BatchSize, PackedSteps} \subseteq Nat \ {0}

VARIABLES
  pipeline,  \* the program in use
  loader,    \* the packed trainer's loader: epoch, blocks not read in it, first step
  orders,    \* epoch -> order of the shards, drawn from seed + epoch
  trained    \* the batch of every step recorded, << >> at first

vars == <<tokenizeVars, streamVars, pipeline, loader, orders, trained>>
packedVars == <<loader, orders, trained>>

Closed == [open |-> FALSE]

Init == /\ TokenizeInit /\ StreamInit
        /\ pipeline \in {"packed", "parquet"}
        /\ loader = Closed /\ orders = <<>> /\ trained = <<>>

-------------------------------------------------------------------------------
\* Where the blocks of a sequence of shards are, and in which order they are read.
Places(files) == UNION {{<<n, k>> : k \in DOMAIN files[n]} : n \in DOMAIN files}
Earlier(p, q) == p[1] < q[1] \/ (p[1] = q[1] /\ p[2] < q[2])

TrainShards == manifest.listed["train"]
Total       == Cardinality(Places(TrainShards))

\* The shuffled paths of an epoch.
Orders == {order \in Shuffles : /\ DOMAIN order = DOMAIN TrainShards
                                /\ Range(order) = DOMAIN TrainShards}

\* Mutant: the order of an epoch is drawn anew by every launch.
OrderOfUnseeded(epoch) == Orders

\* The order of an epoch follows from the seed alone: drawn once, then the same.
OrderOf(epoch) == IF epoch \in DOMAIN orders THEN {orders[epoch]}
                  ELSE Orders

\* An epoch of LocalityPreservingPackedTokenDataset: shard after shard, the
\* blocks of each in the order they have in the file.
BlocksIn(paths, order) ==
  LET files  == [i \in DOMAIN order |-> paths[order[i]]]
      nth(n) == CHOOSE p \in Places(files) :
                  Cardinality({q \in Places(files) : Earlier(q, p)}) = n - 1
  IN  [n \in 1..Cardinality(Places(paths)) |-> files[nth(n)[1]][nth(n)[2]]]

OpenEpoch(epoch, first) ==
  \E order \in OrderOf(epoch) :
    /\ orders' = [e \in DOMAIN orders \cup {epoch} |->
                    IF e \in DOMAIN orders THEN orders[e] ELSE order]
    /\ loader' = [open |-> TRUE, epoch |-> epoch, first |-> first,
                  unread |-> BlocksIn(TrainShards, order)]

\* train() makes the loader anew, whatever step it resumes at.  The loader takes the
\* shards that are there: that the job has written its manifest before anybody
\* starts training on its output is an assumption about the operator, not a guard
\* of the code.  With less than a batch of blocks the loader would go round for
\* ever; such runs are left out.
LaunchTraining ==
  /\ manifest # <<>> /\ loader = Closed /\ Len(trained) < PackedSteps
  /\ Total >= BatchSize
  /\ OpenEpoch(0, Len(trained) + 1)
  /\ UNCHANGED trained

\* drop_last leaves out what does not fill a batch; infinite_loader goes on.
NextEpoch ==
  /\ loader.open /\ Len(loader.unread) < BatchSize
  /\ OpenEpoch(loader.epoch + 1, loader.first)
  /\ UNCHANGED trained

TrainStep ==
  /\ loader.open /\ Len(loader.unread) >= BatchSize
  /\ trained' = Append(trained, SubSeq(loader.unread, 1, BatchSize))
  /\ loader' = IF Len(trained) + 1 = PackedSteps THEN Closed
               ELSE [loader EXCEPT !.unread = SubSeq(@, BatchSize + 1, Len(@))]
  /\ UNCHANGED orders

PackedStep == LaunchTraining \/ NextEpoch \/ TrainStep

TrainingCrash ==
  /\ loader.open /\ crashes < MaxCrashes
  /\ loader' = Closed /\ crashes' = crashes + 1
  /\ UNCHANGED <<orders, trained, limit, job, progress, shards, temporary, manifest,
                 resumedCut, streamVars, pipeline>>

PackedProgram ==
  /\ pipeline = "packed"
  /\ \/ TokenizeStep /\ UNCHANGED packedVars
     \/ PackedStep /\ UNCHANGED tokenizeVars
  /\ UNCHANGED <<streamVars, pipeline>>

ParquetProgram ==
  /\ pipeline = "parquet" /\ StreamStep
  /\ UNCHANGED <<tokenizeVars, packedVars, pipeline>>

Next == \/ PackedProgram \/ ParquetProgram \/ TrainingCrash
        \/ /\ pipeline = "packed" /\ JobCrash
           /\ UNCHANGED <<streamVars, packedVars, pipeline>>
        \/ /\ pipeline = "parquet" /\ StreamCrash
           /\ UNCHANGED <<tokenizeVars, packedVars, pipeline>>

\* Someone starts a program that died again, and a running one goes on.
Spec == Init /\ [][Next]_vars /\ WF_vars(PackedProgram) /\ WF_vars(ParquetProgram)

-------------------------------------------------------------------------------
BlockAt(split, p) == shards[split][p[1]][p[2]]
Known(split)  == UNION {Range(BlockAt(split, p)) : p \in Places(shards[split])}
ReadBy(split) == TokensBefore(split, RowFrom(split, progress[split].file,
                                             progress[split].batch), Least)
Copies(split, block) == Cardinality({p \in Places(shards[split]) : BlockAt(split, p) = block})

\* Token u comes right behind t in the text: in its document, or at the beginning
\* of the next document that is kept.
Follows(split, t, u) ==
  \/ u = <<t[1], t[2] + 1>>
  \/ /\ t[1] < u[1] /\ t[2] = Rows[split][t[1]].tokens /\ u[2] = 1
     /\ \A i \in (t[1] + 1)..(u[1] - 1) : Rows[split][i].tokens < Least

Contiguous(split, block) ==
  \A k \in 1..(Len(block) - 1) : Follows(split, block[k], block[k + 1])

\* What the progress says is done is never lost, whenever the job dies: every
\* token of the row batches behind it is in a published shard or in the token
\* buffer it resumes with (tokenize_split flushes before it records).  And a block
\* is published more than once only by a restart between its shard and the
\* progress that covers it, and is a window of the text, also one packed across
\* a restart or two files; only reading on after max_docs makes a seam.  No
\* half-written .tmp.npy, which the glob of describe_output_shards would list,
\* is left when the manifest is written.
TokenizedOnce ==
  /\ \A split \in Splits :
       /\ ReadBy(split) \subseteq Known(split) \cup Range(progress[split].buffer)
       /\ \A p \in Places(shards[split]) :
            resumedCut \/ /\ Contiguous(split, BlockAt(split, p))
                          /\ Copies(split, BlockAt(split, p)) <= crashes + 1
  /\ manifest # <<>> => manifest.torn = {}

Fed == UNION {UNION {Range(updates[n][m]) : m \in 1..MicroBatches} : n \in DOMAIN updates}

\* The tokens of the stream up to a row of an epoch.
StreamBefore(epoch, i) ==
  ((0..(epoch - 1)) \X TokensBefore("train", Len(AllRows) + 1, 1))
    \cup ({epoch} \X TokensBefore("train", i, 1))

\* Resuming from trainer_state.json repeats text but never skips any: all that
\* is ahead of the recorded file was trained on or is in the recorded remainder
\* (the note in C4StreamPosition.to_state calls the resume safe).
StreamSkipsNothing ==
  StreamBefore(state.epoch, RowFrom("train", state.file, 0)) \subseteq Fed \cup Range(state.buffer)

\* The C4 program has no repair on resume: each launch may leave up to
\* trainer_state_every updates in the shards that the record does not count and
\* the next launch makes again, and never more.
RepeatedStepsBounded ==
  /\ state.step <= Len(updates)
  /\ Len(updates) <= state.step + launches * StateEvery

\* Whatever dies and is started again, the text is tokenized and trained on: no
\* state of progress, buffer or loader makes a program read without end.
EventuallyFed ==
  <>(IF pipeline = "packed" THEN Len(trained) = PackedSteps ELSE state.step = StreamSteps)

\* The batch of a step in a run that nothing stops.
Undisturbed(step) ==
  LET perEpoch == Total \div BatchSize
      first    == ((step - 1) % perEpoch) * BatchSize + 1
  IN  SubSeq(BlocksIn(TrainShards, orders[(step - 1) \div perEpoch]),
             first, first + BatchSize - 1)

\* Every launch of a packed run, the first or a resumed one, takes the same
\* batches in the same order, epoch after epoch: _loader is made anew and the
\* shards are shuffled from the seed and the epoch alone, so a resumed run repeats
\* the data of the run's first steps under later step numbers.
ResumeReplays ==
  loader.open => \A step \in loader.first..Len(trained) :
    trained[step] = Undisturbed(step - loader.first + 1)

\* A resumed packed run trains every step on the blocks that the run would have
\* used had it not stopped, which the docs call exact token-shard resume.
ExactPackedResume ==
  \A step \in DOMAIN trained :
    (step - 1) \div (Total \div BatchSize) \in DOMAIN orders => trained[step] = Undisturbed(step)
===============================================================================
