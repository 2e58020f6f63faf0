------------------------------- MODULE C4Corpus -------------------------------
(* The text the two C4 programs read: parquet files of row batches, with each  *)
(* document reduced to the number of tokens the tokenizer makes of it (0 for   *)
(* one that the text filter rejects).  A token is named by its place, the row  *)
(* and the number it has in that row's document.                               *)
EXTENDS Integers, Sequences, FiniteSets, FiniteSetsExt

CONSTANTS Rows,    \* split -> sequence of [file, batch, tokens], in reading order
          SeqLen   \* seq_len

Splits == {"train", "val"}

\* A row of a later file, or of a later row batch of the same file.
Later(row, file, batch) == row.file > file \/ (row.file = file /\ row.batch >= batch)

ASSUME CorpusAssumption ==
  /\ SeqLen \in Nat \ {0}
  /\ \A split \in Splits :
       /\ split \in DOMAIN Rows
       /\ Rows[split] \in Seq([file : Nat, batch : Nat, tokens : Nat]) \ {<<>>}
       /\ \A i, j \in 1..Len(Rows[split]) :
            i < j => Later(Rows[split][j], Rows[split][i].file, Rows[split][i].batch)

Files(split) == Rows[split][Len(Rows[split])].file + 1

\* The row a reader goes on with that has done everything before a row batch.
RowFrom(split, file, batch) ==
  LET ahead == {i \in 1..Len(Rows[split]) : Later(Rows[split][i], file, batch)}
  IN  IF ahead = {} THEN Len(Rows[split]) + 1 ELSE Min(ahead)

\* The ids of document i: nothing when it has too few.
Encoded(split, i, least) ==
  IF Rows[split][i].tokens < least THEN <<>>
  ELSE [k \in 1..Rows[split][i].tokens |-> <<i, k>>]

\* The tokens of the rows before i.
TokensBefore(split, i, least) == UNION {Range(Encoded(split, j, least)) : j \in 1..(i - 1)}

\* A packed sequence takes seq_len + 1 tokens and leaves the last for the next.
PacksOne(buffer)  == Len(buffer) > SeqLen
Packed(buffer)    == SubSeq(buffer, 1, SeqLen + 1)
AfterPack(buffer) == SubSeq(buffer, SeqLen + 1, Len(buffer))
Remainder(buffer) == IF Len(buffer) <= SeqLen THEN buffer
                     ELSE SubSeq(buffer, Len(buffer) - SeqLen + 1, Len(buffer))
===============================================================================
