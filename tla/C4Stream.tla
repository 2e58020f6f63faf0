------------------------------- MODULE C4Stream -------------------------------
(* Training straight from C4 parquet files: the token stream that reads them   *)
(* round and round, the position it keeps in trainer_state.json, and the steps *)
(* of train_perkunasv2_c4.  A token of the stream is an epoch and a token of   *)
(* the corpus.                                                                 *)
EXTENDS C4Corpus

CONSTANTS MicroBatches,  \* micro-batches of one sequence each in a step
          StateEvery,    \* trainer_state_every
          SaveEvery,     \* save_every
          StreamSteps,   \* max_steps
          StreamCrashes  \* bound on the times the program dies

ASSUME StreamAssumption ==
  /\ {MicroBatches, StateEvery, SaveEvery, StreamSteps} \subseteq Nat \ {0}
  /\ StreamCrashes \in Nat

VARIABLES
  stream,   \* the running program's stream position, buffer and step; Down if none
  traces,   \* the sequences of the step being taken
  state,    \* trainer_state.json: the last recorded step and stream position
  launches, \* launches so far
  updates   \* what the shards were trained on: the sequences of every commit

streamVars == <<stream, traces, state, launches, updates>>

Down     == [doing |-> "down"]
AllRows  == Rows["train"]

StreamInit ==
  /\ stream = Down /\ traces = <<>> /\ launches = 0 /\ updates = <<>>
  /\ state = [step |-> 0, epoch |-> 0, file |-> 0, buffer |-> <<>>]

-------------------------------------------------------------------------------
\* The stream starts again at the beginning of the recorded file, with the
\* recorded remainder in its buffer; past the last file it starts a new epoch.
Restored ==
  LET wraps == state.file >= Files("train")
      file  == IF wraps THEN 0 ELSE state.file
  IN  [doing |-> "read", epoch |-> state.epoch + (IF wraps THEN 1 ELSE 0),
       file |-> file, at |-> RowFrom("train", file, 0),
       buffer |-> state.buffer, step |-> state.step]

LaunchStream ==
  /\ stream = Down /\ state.step < StreamSteps
  /\ stream' = Restored /\ traces' = <<>> /\ launches' = launches + 1
  /\ UNCHANGED <<state, updates>>

Wanted == stream.doing = "read" /\ Len(traces) < MicroBatches

ReadRow ==
  /\ Wanted /\ ~PacksOne(stream.buffer)
  /\ stream.at <= Len(AllRows) /\ AllRows[stream.at].file = stream.file
  /\ LET ids == Encoded("train", stream.at, 1)
     IN  stream' = [stream EXCEPT !.at = @ + 1,
                      !.buffer = @ \o [k \in DOMAIN ids |-> <<stream.epoch, ids[k]>>]]
  /\ UNCHANGED <<traces, state, launches, updates>>

\* After a file the buffer keeps its last seq_len tokens; after the last file
\* the next epoch begins.
EndFile ==
  /\ Wanted /\ ~PacksOne(stream.buffer)
  /\ stream.at <= Len(AllRows) => AllRows[stream.at].file # stream.file
  /\ stream' = IF stream.file + 1 < Files("train")
               THEN [stream EXCEPT !.file = @ + 1, !.buffer = Remainder(@)]
               ELSE [stream EXCEPT !.file = 0, !.at = 1, !.epoch = @ + 1,
                                   !.buffer = Remainder(@)]
  /\ UNCHANGED <<traces, state, launches, updates>>

\* _drain_sequences yields a sequence, and the trainer runs its forward pass.
YieldSequence ==
  /\ Wanted /\ PacksOne(stream.buffer)
  /\ traces' = Append(traces, Packed(stream.buffer))
  /\ stream' = [stream EXCEPT !.buffer = AfterPack(@)]
  /\ UNCHANGED <<state, launches, updates>>

\* Backward pass and commit of the step's transaction.
CommitStep ==
  /\ stream.doing = "read" /\ Len(traces) = MicroBatches
  /\ updates' = Append(updates, traces)
  /\ stream' = [stream EXCEPT !.doing = "record", !.step = @ + 1]
  /\ traces' = <<>>
  /\ UNCHANGED <<state, launches>>

\* Mutant: the position recorded is behind the file being read.
PositionBehind ==
  [step |-> stream.step, epoch |-> stream.epoch, file |-> stream.file + 1,
   buffer |-> Remainder(stream.buffer)]

\* What C4ParquetTokenStream.state_dict and the step put in the trainer state.
Position ==
  [step |-> stream.step, epoch |-> stream.epoch, file |-> stream.file,
   buffer |-> Remainder(stream.buffer)]

\* Mutant: the state is saved at the end of the run only.
RecordedAtEnd == stream.step = StreamSteps

Recorded ==
  \/ stream.step % StateEvery = 0
  \/ stream.step % SaveEvery = 0
  \/ stream.step = StreamSteps

RecordState ==
  /\ stream.doing = "record"
  /\ state' = IF Recorded THEN Position ELSE state
  /\ stream' = IF stream.step = StreamSteps THEN Down ELSE [stream EXCEPT !.doing = "read"]
  /\ UNCHANGED <<traces, launches, updates>>

StreamCrash ==
  /\ stream # Down /\ launches <= StreamCrashes
  /\ stream' = Down /\ traces' = <<>>
  /\ UNCHANGED <<state, launches, updates>>

StreamStep == \/ LaunchStream \/ ReadRow \/ EndFile \/ YieldSequence \/ CommitStep
              \/ RecordState
===============================================================================
