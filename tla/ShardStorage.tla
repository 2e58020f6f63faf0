----------------------------- MODULE ShardStorage -----------------------------
(* How one logical shard is laid out in files (shard_store.py): the storage    *)
(* plan, the splitting of a payload into safetensors parts, the files a reader *)
(* takes, and what it makes of them after a publication that was cut.          *)
(*                                                                             *)
(* A tensor is [rows |-> n, width |-> w]; rows = 0 is a scalar.  A payload is  *)
(* a sequence of tensors, and row r of tensor i in write v is <<v, i, r>>.     *)
EXTENDS Integers, FiniteSets, SequencesExt

Numel(tensor) == IF tensor.rows = 0 THEN 1 ELSE tensor.rows * tensor.width

\* One more chunk for the tensor with the most elements per chunk, the first of equals.
Grown(tensors, counts) ==
  LET open == {i \in DOMAIN tensors : counts[i] < tensors[i].rows}
      Heavier(i, j) == Numel(tensors[i]) * counts[j] > Numel(tensors[j]) * counts[i]
  IN  IF open = {} THEN counts
      ELSE LET best == CHOOSE i \in open : \A j \in open \ {i} :
                         Heavier(i, j) \/ (~Heavier(j, i) /\ i < j)
           IN  [counts EXCEPT ![best] = @ + 1]

SplitCounts(tensors, parts) ==
  FoldLeft(LAMBDA counts, n : Grown(tensors, counts),
           [i \in DOMAIN tensors |-> 1],
           [n \in 1..(parts - Len(tensors)) |-> n])

\* torch.tensor_split: the first rows % chunks chunks are one row longer.
ChunkStart(rows, chunks, k) ==
  k * (rows \div chunks) + (IF k < rows % chunks THEN k ELSE rows % chunks)

\* Row 0 is the whole of a scalar or of a tensor that is not split.
Chunk(tensors, i, chunks, k, write) ==
  [key |-> i, chunk |-> k, chunks |-> chunks,
   rows |-> IF tensors[i].rows = 0 THEN <<<<write, i, 1>>>>
            ELSE [r \in 1..(ChunkStart(tensors[i].rows, chunks, k + 1)
                              - ChunkStart(tensors[i].rows, chunks, k)) |->
                   <<write, i, ChunkStart(tensors[i].rows, chunks, k) + r>>]]

FlatChunks(tensors, parts, write) ==
  LET counts == SplitCounts(tensors, parts)
  IN  FlattenSeq([i \in DOMAIN tensors |->
        [k \in 1..counts[i] |-> Chunk(tensors, i, counts[i], k - 1, write)]])

\* The files of a payload: file 0 is the unsplit one, file p is part p - 1.  The
\* chunks are dealt to the parts in turn; a part may get none.
Files(tensors, parts, write) ==
  IF parts = 1
  THEN [p \in {0} |-> [step |-> write, chunks |-> FlatChunks(tensors, 1, write)]]
  ELSE LET flat == FlatChunks(tensors, parts, write)
       IN  [p \in 1..parts |->
             [step |-> write,
              chunks |-> [n \in 1..((Len(flat) + parts - p) \div parts) |->
                            flat[p + (n - 1) * parts]]]]

-------------------------------------------------------------------------------
\* _existing_payload_paths: the planned files if all exist, else whatever parts
\* there are, else the unsplit file.
ExistingFiles(disk, parts) ==
  LET preferred == IF parts = 1 THEN {0} ELSE 1..parts
      present   == DOMAIN disk
  IN  CASE preferred \subseteq present -> preferred
        [] ~(preferred \subseteq present) /\ present \ {0} # {} -> present \ {0}
        [] OTHER -> present \cap {0}

Missing == [found |-> FALSE, whole |-> TRUE, step |-> 0, tensors |-> <<>>]

\* reconstruct_tensor_chunks
Joined(read) ==
  IF read[1].chunks = 1 THEN read[1].rows
  ELSE LET sorted == SortSeq(read, LAMBDA a, b : a.chunk < b.chunk)
       IN  FlattenSeq([n \in DOMAIN sorted |-> sorted[n].rows])

\* load_payload_from_paths: whole is FALSE when it raises.  The step is that of
\* the last part in name order.
Loaded(disk, names) ==
  IF names = {} THEN Missing
  ELSE LET order  == SetToSortSeq(names, LAMBDA a, b : a < b)
           chunks == FlattenSeq([n \in DOMAIN order |-> disk[order[n]].chunks])
           keys   == {chunks[n].key : n \in DOMAIN chunks}
           Of(k)  == SelectSeq(chunks, LAMBDA c : c.key = k)
       IN  [found   |-> TRUE,
            whole   |-> \A k \in keys : Of(k)[1].chunks > 1 => Len(Of(k)) = Of(k)[1].chunks,
            step    |-> disk[order[Len(order)]].step,
            tensors |-> [k \in keys |-> Joined(Of(k))]]

\* What the payload of a write is when nothing went wrong.
Payload(tensors, write) ==
  [i \in DOMAIN tensors |->
     [r \in 1..(IF tensors[i].rows = 0 THEN 1 ELSE tensors[i].rows) |-> <<write, i, r>>]]

\* Strict load_state_dict: every tensor is there.
Accepted(read, tensors) ==
  read.found /\ read.whole /\ DOMAIN read.tensors = DOMAIN tensors

-------------------------------------------------------------------------------
\* The files in place after the first `done` of them were moved there.
Moved(new, done) == [p \in {n \in DOMAIN new : done > 0 /\ n <= done} |-> new[p]]

\* Mutant: commit does not remove the files of another layout.
OverOldFiles(old, new, done) == Moved(new, done) @@ old

\* commit removes all files of the shard and then moves the new ones into place.
Published(old, new, done) == Moved(new, done)

\* allocate_storage_shard_plan: a part each, and the rest by largest remainder
\* of the parameter counts; of equal remainders the later name (shards are numbered in
\* the order of their names) goes first.
Quota(counts, rest, i) == (rest * counts[i]) \div FoldSeq(+, 0, counts)

Plan(counts, requested) ==
  LET shards == DOMAIN counts
      total  == FoldSeq(+, 0, counts)
      rest   == requested - Len(counts)
      Left(i) == (rest * counts[i]) % total
      open   == rest - FoldSeq(+, 0, [i \in shards |-> Quota(counts, rest, i)])
      Before(i) == {j \in shards : Left(j) > Left(i) \/ (Left(j) = Left(i) /\ j > i)}
  IN  IF requested <= Len(counts) THEN [i \in shards |-> 1]
      ELSE [i \in shards |-> 1 + Quota(counts, rest, i)
                               + (IF Cardinality(Before(i)) < open THEN 1 ELSE 0)]

-------------------------------------------------------------------------------
(* SafetensorShardWriter (hf_export.py), which writes tensors of the given     *)
(* sizes, in order, to files of at most `limit` bytes.                         *)

NewExport == [pending |-> <<>>, bytes |-> 0, files |-> <<>>]

Flushed(w) ==
  IF w.pending = <<>> THEN w
  ELSE [pending |-> <<>>, bytes |-> 0, files |-> Append(w.files, w.pending)]

\* Mutant: the file is closed by the tensor that no longer fits.
AddedFirst(w, i, size, limit) ==
  LET added == [w EXCEPT !.pending = Append(@, i), !.bytes = @ + size]
  IN  IF added.bytes >= limit THEN Flushed(added) ELSE added

\* add: a tensor that does not fit with the pending ones starts a new file, and a
\* file that is full is written at once.
Added(w, i, size, limit) ==
  LET room  == IF w.bytes + size > limit THEN Flushed(w) ELSE w
      added == [room EXCEPT !.pending = Append(@, i), !.bytes = @ + size]
  IN  IF added.bytes >= limit THEN Flushed(added) ELSE added

\* finish: the last file, and the index that names the file of every tensor once
\* the number of files is known; one file alone needs none.
Exported(sizes, limit) ==
  LET files == Flushed(FoldLeft(LAMBDA w, i : Added(w, i, sizes[i], limit), NewExport,
                                [i \in DOMAIN sizes |-> i])).files
  IN  [files |-> files,
       weightMap |-> IF Len(files) = 1 THEN <<>>
                     ELSE [i \in DOMAIN sizes |->
                             CHOOSE n \in DOMAIN files : Contains(files[n], i)]]
===============================================================================
