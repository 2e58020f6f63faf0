---------------------------- MODULE MCTrainingData ----------------------------
(* A train split of two files, the first of two row batches, with a document   *)
(* the filter rejects and one of a single token; a val split of one document.  *)
EXTENDS TrainingData

Row(file, batch, tokens) == [file |-> file, batch |-> batch, tokens |-> tokens]

MCRows == [train |-> <<Row(0, 0, 3), Row(0, 0, 0), Row(0, 1, 2),
                       Row(1, 0, 1), Row(1, 0, 6)>>,
           val   |-> <<Row(0, 0, 4)>>]

\* Two orders for every number of shards: sorted by name, and the reverse.
MCShuffles == UNION {{[i \in 1..n |-> i], [i \in 1..n |-> n + 1 - i]} : n \in 1..20}
===============================================================================
