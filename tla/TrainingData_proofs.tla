-------------------------- MODULE TrainingData_proofs --------------------------
(* Proofs about TrainingData: for any text, cut into any files and row batches *)
(* any sizes of sequences, shards and batches, any max_docs and any number of  *)
(* crashes, text is packed and streamed without a hole and batches are taken   *)
(* again in the same order.                                                    *)
EXTENDS TrainingData, FiniteSetTheorems, SequenceTheorems, TLAPS

Tokens == Nat \X Nat
Blocks == Seq(Tokens)

\* What a sequence of blocks and a sequence of shards hold.
Text(blocks) == UNION {Range(blocks[k]) : k \in DOMAIN blocks}
Held(files)  == UNION {Range(files[p[1]][p[2]]) : p \in Places(files)}
Copied(files, block) == {p \in Places(files) : files[p[1]][p[2]] = block}

End(split)      == Len(Rows[split]) + 1
Start(split, p) == RowFrom(split, p.file, p.batch)
SameBatch(split, i, j) ==
  Rows[split][i].file = Rows[split][j].file /\ Rows[split][i].batch = Rows[split][j].batch

-------------------------------------------------------------------------------
(* The tokenizer: j is its job, p the progress recorded for the job's split    *)

Shards   == Seq(Seq(Blocks))
Progress == [file : Nat, batch : Nat, buffer : Blocks, cut : BOOLEAN]
Jobs == [doing : {"rows", "save", "replace", "progress", "returned"}, split : Splits,
         base : Nat \ {0}, at : Nat \ {0}, docs : Nat, buffer : Blocks, blocks : Seq(Blocks)]

TokenizeTypes ==
  /\ limit \in Nat \ {0} /\ crashes \in Nat /\ resumedCut \in BOOLEAN
  /\ temporary \subseteq Splits
  /\ progress \in [Splits -> Progress] /\ shards \in [Splits -> Shards]
  /\ job = Idle \/ job \in Jobs
  /\ manifest = <<>> \/ manifest \in [listed : [Splits -> Shards], torn : SUBSET Splits]

AtBatchEnd(j) ==
  /\ j.at > j.base
  /\ j.at <= Len(Rows[j.split]) => ~SameBatch(j.split, j.at, j.at - 1)

\* Where a job is: in the row batch that its progress leads to, unless the split is done,
\* with a block packed or a token too many only behind the batch's first row.
PlacedAt(j, p, max) ==
  /\ j.base <= j.at /\ j.at <= End(j.split)
  /\ j.at - j.base <= j.docs /\ j.docs <= max
  /\ \A i \in j.base..(j.at - 1) : SameBatch(j.split, i, j.base)
  /\ j.doing # "returned" => j.base = Start(j.split, p)
  /\ j.at = j.base => ~PacksOne(j.buffer) /\ j.blocks = <<>>
  /\ j.doing \in {"save", "replace"} => j.blocks # <<>>
  /\ j.doing = "progress" =>
       ~PacksOne(j.buffer) /\ j.blocks = <<>> /\ (AtBatchEnd(j) \/ j.at <= Len(Rows[j.split]))

JobPlaced == job # Idle => PlacedAt(job, progress[job.split], limit)
ProgressFits == \A split \in Splits : ~PacksOne(progress[split].buffer)

\* Nothing that was read is lost.
SplitKept(split, p, files) ==
  TokensBefore(split, Start(split, p), Least) \subseteq Held(files) \cup Range(p.buffer)
JobKept(j, files) ==
  TokensBefore(j.split, j.at, Least) \subseteq Held(files) \cup Text(j.blocks) \cup Range(j.buffer)
ReadKept ==
  /\ \A split \in Splits : SplitKept(split, progress[split], shards[split])
  /\ job # Idle => JobKept(job, shards[job.split])

\* A buffer holds the text up to a row.
Ascending(buffer) == \A i, j \in DOMAIN buffer : i < j => Earlier(buffer[i], buffer[j])
EndsAt(split, buffer, i) ==
  buffer # <<>> =>
    LET t == buffer[Len(buffer)]
    IN  /\ t[2] = Rows[split][t[1]].tokens
        /\ \A j \in (t[1] + 1)..(i - 1) : Rows[split][j].tokens < Least
TextUpTo(split, buffer, i) ==
  /\ Contiguous(split, buffer) /\ Ascending(buffer) /\ EndsAt(split, buffer, i)
  /\ \A k \in DOMAIN buffer : buffer[k][1] < i

SplitPacked(split, p, files) ==
  /\ ~p.cut => TextUpTo(split, p.buffer, Start(split, p))
  /\ \A q \in Places(files) : Contiguous(split, files[q[1]][q[2]])
JobPacked(j) ==
  /\ TextUpTo(j.split, j.buffer, j.at)
  /\ \A k \in DOMAIN j.blocks : Contiguous(j.split, j.blocks[k])
TextPacked ==
  ~resumedCut =>
    /\ \A split \in Splits : SplitPacked(split, progress[split], shards[split])
    /\ job # Idle => JobPacked(job)

\* A block is there once more than there were crashes only if its split is done or the job
\* is past it.
Past(block, buffer) ==
  block # <<>> /\ buffer # <<>> /\ Earlier(block[1], buffer[1])
AtMost(files, n)    == \A block \in Blocks : Cardinality(Copied(files, block)) <= n
JobCopies(j, files, n) ==
  \A block \in Blocks :
    Cardinality(Copied(Append(files, j.blocks), block))
      <= n + (IF Past(block, j.buffer) THEN 1 ELSE 0)
CopiesBounded ==
  ~resumedCut =>
    /\ job = Idle =>
         \A split \in Splits :
           AtMost(shards[split], crashes + (IF manifest # <<>> THEN 1 ELSE 0))
    /\ job # Idle =>
         /\ JobCopies(job, shards[job.split], crashes)
         /\ IF job.split = "train" THEN AtMost(shards["val"], crashes)
            ELSE AtMost(shards["train"], crashes + 1)

\* How many tokens a job that packs nothing would hold at each row.
Counts(split, held, from, to) ==
  /\ held \in [from..to -> Nat]
  /\ \A i \in from..(to - 1) : held[i + 1] = held[i] + Len(Encoded(split, i, Least))

\* A row that every launch gets to before it records progress.
Reached(split, from, row, max) ==
  /\ row \in from..End(split) /\ row - from <= max
  /\ \A i \in from..(row - 1) : SameBatch(split, i, from)

FillsAt(split, p, held, row, max) ==
  /\ Reached(split, Start(split, p), row, max) /\ Counts(split, held, Start(split, p), row)
  /\ held[Start(split, p)] = Len(p.buffer) /\ held[row] > SeqLen

\* The next launch will pack a block before it records progress.
WillPack(split, p, max) ==
  \E row \in Nat : \E held \in [Start(split, p)..row -> Nat] : FillsAt(split, p, held, row, max)

\* The job has not packed anything since it recorded progress.
NothingPacked(j, p) ==
  /\ j.blocks = <<>>
  /\ \E held \in [j.base..j.at -> Nat] :
       /\ Counts(j.split, held, j.base, j.at)
       /\ held[j.base] = Len(p.buffer) /\ held[j.at] = Len(j.buffer)

\* The job will pack a block.
AboutToPack(j, p, max) ==
  /\ j.doing = "rows" /\ j.docs = j.at - j.base
  /\ \E row \in Nat : \E held \in [Start(j.split, p)..row -> Nat] :
       /\ FillsAt(j.split, p, held, row, max) /\ j.at <= row /\ held[j.at] = Len(j.buffer)

\* A .tmp.npy is left only where the block in it is going to be written again.
PacksFirst(j, p, max) == j.doing # "returned" => WillPack(j.split, p, max) \/ NothingPacked(j, p)
Rewrites(j, p, max)   == j.doing # "returned" /\ (j.blocks # <<>> \/ AboutToPack(j, p, max))
TemporaryRewritten ==
  /\ job # Idle => PacksFirst(job, progress[job.split], limit)
  /\ \A split \in temporary :
       IF job # Idle /\ job.split = split THEN Rewrites(job, progress[split], limit)
       ELSE WillPack(split, progress[split], limit)
  /\ job # Idle /\ job.split = "val" => "train" \notin temporary

ManifestLast == manifest # <<>> => job = Idle /\ temporary = {} /\ manifest.torn = {}

TokenizeInv ==
  /\ TokenizeTypes /\ JobPlaced /\ ProgressFits /\ ReadKept /\ TextPacked /\ CopiesBounded
  /\ TemporaryRewritten /\ ManifestLast

-------------------------------------------------------------------------------
(* The stream *)

StreamTokens == Nat \X Tokens

StreamTypes ==
  /\ launches \in Nat /\ updates \in Seq(Seq(Seq(StreamTokens)))
  /\ traces \in Seq(Seq(StreamTokens)) /\ Len(traces) <= MicroBatches
  /\ state \in [step : Nat, epoch : Nat, file : Nat, buffer : Seq(StreamTokens)]
  /\ stream = Down \/ stream \in [doing : {"read", "record"}, epoch : Nat, file : Nat,
                                  at : Nat \ {0}, buffer : Seq(StreamTokens), step : Nat]
  /\ stream.doing # "read" => traces = <<>>
  /\ \A n \in DOMAIN updates : Len(updates[n]) = MicroBatches

\* The rows before the stream are in its file or earlier ones, the others in its file or later.
StreamPlaced ==
  /\ state.file < Files("train") /\ Len(state.buffer) <= SeqLen
  /\ stream # Down =>
       /\ stream.file < Files("train") /\ stream.at <= Len(AllRows) + 1
       /\ \A i \in 1..(stream.at - 1) : AllRows[i].file <= stream.file
       /\ \A i \in stream.at..Len(AllRows) : AllRows[i].file >= stream.file

\* The first multiple of trainer_state_every after the recorded step: the state is recorded
\* at it, if not earlier because of save_every.
NextDue == StateEvery * ((state.step \div StateEvery) + 1)

\* Steps that are not recorded: less than trainer_state_every while the stream is read.
StepsCounted ==
  /\ state.step <= Len(updates) /\ state.step <= StreamSteps
  /\ stream = Down => Len(updates) <= state.step + launches * StateEvery
  /\ stream # Down =>
       /\ launches > 0 /\ state.step < StreamSteps
       /\ Len(updates) <= stream.step + (launches - 1) * StateEvery
       /\ state.step <= stream.step /\ stream.step <= Len(updates)
       /\ stream.step <= StreamSteps
       /\ IF stream.doing = "record" THEN stream.step <= NextDue
          ELSE stream.step < NextDue /\ stream.step < StreamSteps

Traced == Text(traces)
InFile == StreamBefore(stream.epoch, RowFrom("train", stream.file, 0))

\* What the stream is past was trained on, is in the step being taken or is in the buffer; the
\* text of earlier files is within its first seq_len tokens, and no longer in it when the step
\* has its sequences.
StreamKept ==
  /\ StreamSkipsNothing
  /\ stream # Down =>
       /\ StreamBefore(stream.epoch, stream.at) \subseteq Fed \cup Traced \cup Range(stream.buffer)
       /\ InFile \subseteq Fed \cup Traced \cup {stream.buffer[k] : k \in DOMAIN stream.buffer \cap 1..SeqLen}
       /\ stream.doing = "record" \/ Len(traces) = MicroBatches => InFile \subseteq Fed \cup Traced

StreamInv == StreamTypes /\ StreamPlaced /\ StepsCounted /\ StreamKept

-------------------------------------------------------------------------------
(* The packed loader *)

\* The batch that step n, counted from 0, of a run that nothing stops takes.
BatchAt(paths, drawn, n) ==
  LET perEpoch == Cardinality(Places(paths)) \div BatchSize
      first    == (n % perEpoch) * BatchSize + 1
  IN  SubSeq(BlocksIn(paths, drawn[n \div perEpoch]), first, first + BatchSize - 1)

LoaderTypes ==
  /\ trained \in Seq(Range(trained))
  /\ loader = Closed \/ loader \in [open : {TRUE}, epoch : Nat, first : Nat \ {0},
                                    unread : {loader.unread}]

Rest(blocks, m) == SubSeq(blocks, m + 1, Len(blocks))

\* The blocks not read are those behind the batches of the epoch that were taken, p of them.
LoaderAt(l, steps, paths, drawn) ==
  LET total    == Cardinality(Places(paths))
      perEpoch == total \div BatchSize
  IN  /\ total >= BatchSize /\ l.first <= steps + 1 /\ 0..l.epoch \subseteq DOMAIN drawn
      /\ \E p \in 0..perEpoch :
           /\ steps + 1 = l.first + l.epoch * perEpoch + p
           /\ l.unread = Rest(BlocksIn(paths, drawn[l.epoch]), p * BatchSize)

\* The batches taken are those of a run from its beginning.
Replays(l, batches, paths, drawn) ==
  \A step \in l.first..Len(batches) : batches[step] = BatchAt(paths, drawn, step - l.first)

LoaderInv ==
  /\ LoaderTypes
  /\ loader.open => /\ manifest # <<>> /\ LoaderAt(loader, Len(trained), TrainShards, orders)
                    /\ Replays(loader, trained, TrainShards, orders)

-------------------------------------------------------------------------------
(* The corpus *)

LEMMA RowsTyped ==
  ASSUME NEW split \in Splits
  PROVE  /\ Rows[split] \in Seq([file : Nat, batch : Nat, tokens : Nat])
         /\ Len(Rows[split]) \in Nat \ {0} /\ End(split) \in Nat \ {0}
         /\ \A i \in 1..Len(Rows[split]) :
              /\ Rows[split][i] \in [file : Nat, batch : Nat, tokens : Nat]
              /\ Rows[split][i].file \in Nat /\ Rows[split][i].batch \in Nat
              /\ Rows[split][i].tokens \in Nat
<1>1. Rows[split] \in Seq([file : Nat, batch : Nat, tokens : Nat]) /\ Rows[split] # <<>>
  BY CorpusAssumption
<1>2. Len(Rows[split]) \in Nat \ {0}
  BY <1>1, EmptySeq
<1>3. ASSUME NEW i \in 1..Len(Rows[split])
      PROVE  Rows[split][i] \in [file : Nat, batch : Nat, tokens : Nat]
  BY <1>1, ElementOfSeq
<1> QED
  BY <1>1, <1>2, <1>3 DEF End

LEMMA FilesTyped ==
  ASSUME NEW split \in Splits
  PROVE  Files(split) \in Nat \ {0}
<1>1. Len(Rows[split]) \in Nat \ {0}
  BY RowsTyped
<1>2. Len(Rows[split]) \in 1..Len(Rows[split])
  BY <1>1
<1>3. Rows[split][Len(Rows[split])].file \in Nat
  BY <1>2, RowsTyped
<1> DEFINE last == Rows[split][Len(Rows[split])].file
<1>4. Files(split) = last + 1
  BY DEF Files
<1> HIDE DEF last
<1> QED
  BY <1>3, <1>4 DEF last

\* The order of the rows: a row behind one that is later is later too.
LEMMA LaterUpward ==
  ASSUME NEW split \in Splits, NEW file \in Nat, NEW batch \in Nat,
         NEW i \in 1..Len(Rows[split]), NEW j \in 1..Len(Rows[split]), i <= j,
         Later(Rows[split][i], file, batch)
  PROVE  Later(Rows[split][j], file, batch)
<1>1. CASE i = j
  BY <1>1
<1>2. CASE i < j
  <2>1. Later(Rows[split][j], Rows[split][i].file, Rows[split][i].batch)
    BY <1>2, CorpusAssumption
  <2>2. /\ Rows[split][i].file \in Nat /\ Rows[split][i].batch \in Nat
        /\ Rows[split][j].file \in Nat /\ Rows[split][j].batch \in Nat
    BY RowsTyped
  <2> DEFINE fi == Rows[split][i].file
             bi == Rows[split][i].batch
             fj == Rows[split][j].file
             bj == Rows[split][j].batch
  <2>3. /\ fj > fi \/ (fj = fi /\ bj >= bi)
        /\ fi > file \/ (fi = file /\ bi >= batch)
    BY <2>1 DEF Later
  <2> HIDE DEF fi, bi, fj, bj
  <2>4. fi \in Nat /\ bi \in Nat /\ fj \in Nat /\ bj \in Nat
    BY <2>2 DEF fi, bi, fj, bj
  <2>5. fj > file \/ (fj = file /\ bj >= batch)
    BY <2>3, <2>4
  <2> QED
    BY <2>5 DEF Later, fj, bj
<1> QED
  BY <1>1, <1>2, RowsTyped

LEMMA SmallestRow ==
  ASSUME NEW S, S \subseteq Nat, S # {}
  PROVE  Min(S) \in S /\ \A n \in S : Min(S) <= n
<1>1. PICK n \in S : \A k \in S : ~(<<k, n>> \in OpToRel(<, Nat))
  BY NatLessThanWellFounded, WFMin
<1>2. \A k \in S : n <= k
  <2> TAKE k \in S
  <2>1. k \in Nat /\ n \in Nat
    OBVIOUS
  <2>2. <<k, n>> \in OpToRel(<, Nat) <=> k < n
    BY <2>1 DEF OpToRel
  <2>3. ~(k < n)
    BY <1>1, <2>2
  <2> QED
    BY <2>1, <2>3
<1> QED
  BY <1>2 DEF Min

\* RowFrom splits the rows into those before the row batch and those from it on.
LEMMA RowFromSplits ==
  ASSUME NEW split \in Splits, NEW file \in Nat, NEW batch \in Nat
  PROVE  LET r == RowFrom(split, file, batch)
         IN  /\ r \in 1..End(split)
             /\ \A i \in 1..(r - 1) : ~Later(Rows[split][i], file, batch)
             /\ \A i \in r..Len(Rows[split]) : Later(Rows[split][i], file, batch)
<1> DEFINE n == Len(Rows[split])
           ahead == {i \in 1..n : Later(Rows[split][i], file, batch)}
           r == RowFrom(split, file, batch)
<1>0. n \in Nat \ {0} /\ End(split) = n + 1
  BY RowsTyped DEF End
<1>1. r = IF ahead = {} THEN n + 1 ELSE Min(ahead)
  BY DEF RowFrom
<1>2. CASE ahead = {}
  <2>1. r = n + 1
    BY <1>1, <1>2
  <2>2. \A i \in 1..n : ~Later(Rows[split][i], file, batch)
    BY <1>2
  <2> HIDE DEF n, r, ahead
  <2>3. r \in 1..End(split) /\ r - 1 = n /\ r..n = {}
    BY <1>0, <2>1
  <2>4. \A i \in 1..(r - 1) : ~Later(Rows[split][i], file, batch)
    BY <2>2, <2>3
  <2>5. \A i \in r..n : Later(Rows[split][i], file, batch)
    BY <2>3
  <2> QED
    BY <2>3, <2>4, <2>5 DEF n, r
<1>3. CASE ahead # {}
  <2>1. r = Min(ahead)
    BY <1>1, <1>3
  <2>2. ahead \subseteq Nat
    BY <1>0
  <2>3. r \in ahead /\ \A i \in ahead : r <= i
    BY <1>3, <2>1, <2>2, SmallestRow
  <2>4. r \in 1..n /\ Later(Rows[split][r], file, batch)
    BY <2>3
  <2>5. \A i \in 1..n : Later(Rows[split][i], file, batch) => r <= i
    BY <2>3
  <2> HIDE DEF r, ahead
  <2>6. \A i \in 1..(r - 1) : ~Later(Rows[split][i], file, batch)
    BY <1>0, <2>4, <2>5
  <2>7. \A i \in r..n : Later(Rows[split][i], file, batch)
    BY <1>0, <2>4, LaterUpward
  <2>8. r \in 1..End(split)
    BY <1>0, <2>4
  <2> QED
    BY <2>6, <2>7, <2>8 DEF r
<1> QED
  BY <1>2, <1>3

LEMMA RowFromUnique ==
  ASSUME NEW split \in Splits, NEW file \in Nat, NEW batch \in Nat, NEW at \in 1..End(split),
         \A i \in 1..(at - 1) : ~Later(Rows[split][i], file, batch),
         \A i \in at..Len(Rows[split]) : Later(Rows[split][i], file, batch)
  PROVE  RowFrom(split, file, batch) = at
<1> DEFINE n == Len(Rows[split])
           r == RowFrom(split, file, batch)
<1>0. n \in Nat \ {0} /\ End(split) = n + 1
  BY RowsTyped DEF End
<1>1. /\ r \in 1..End(split)
      /\ \A i \in 1..(r - 1) : ~Later(Rows[split][i], file, batch)
      /\ \A i \in r..n : Later(Rows[split][i], file, batch)
  BY RowFromSplits
<1> HIDE DEF r
<1>2. ~(r < at)
  BY <1>0, <1>1
<1>3. ~(at < r)
  BY <1>0, <1>1
<1> QED
  BY <1>0, <1>1, <1>2, <1>3 DEF r

LEMMA EncodedIs ==
  ASSUME NEW split \in Splits, NEW i \in 1..Len(Rows[split]), NEW least \in Nat
  PROVE  LET ids == Encoded(split, i, least)
             n   == IF Rows[split][i].tokens < least THEN 0 ELSE Rows[split][i].tokens
         IN  /\ ids \in Seq(Tokens) /\ Len(ids) = n /\ n \in Nat
             /\ \A k \in 1..n : ids[k] = <<i, k>>
<1> DEFINE tokens == Rows[split][i].tokens
<1>1. tokens \in Nat /\ i \in Nat
  BY RowsTyped
<1>2. CASE tokens < least
  <2>1. Encoded(split, i, least) = <<>>
    BY <1>2 DEF Encoded
  <2> QED
    BY <1>1, <1>2, <2>1, EmptySeq
<1>3. CASE ~(tokens < least)
  <2>1. Encoded(split, i, least) = [k \in 1..tokens |-> <<i, k>>]
    BY <1>3 DEF Encoded
  <2> HIDE DEF tokens
  <2>2. [k \in 1..tokens |-> <<i, k>>] \in Seq(Tokens)
    BY <1>1 DEF Tokens
  <2>3. Len([k \in 1..tokens |-> <<i, k>>]) = tokens
    BY <1>1
  <2> QED
    BY <1>1, <1>3, <2>1, <2>2, <2>3 DEF tokens
<1> QED
  BY <1>2, <1>3

LEMMA FirstTokens ==
  ASSUME NEW split, NEW least
  PROVE  TokensBefore(split, 1, least) = {}
<1>1. 1..(1 - 1) = {}
  OBVIOUS
<1> QED
  BY <1>1 DEF TokensBefore

LEMMA TokensOfNextRow ==
  ASSUME NEW split, NEW i \in Nat \ {0}, NEW least
  PROVE  TokensBefore(split, i + 1, least)
           = TokensBefore(split, i, least) \cup Range(Encoded(split, i, least))
<1>1. 1..(i + 1 - 1) = 1..(i - 1) \cup {i}
  OBVIOUS
<1> DEFINE set(S) == UNION {Range(Encoded(split, j, least)) : j \in S}
<1>2. \A S : set(S \cup {i}) = set(S) \cup Range(Encoded(split, i, least))
  BY Zenon
<1> QED
  BY <1>1, <1>2 DEF TokensBefore

LEMMA TokensOfEarlierRows ==
  ASSUME NEW split, NEW i \in Nat, NEW j \in Nat, i <= j, NEW least
  PROVE  TokensBefore(split, i, least) \subseteq TokensBefore(split, j, least)
<1>1. 1..(i - 1) \subseteq 1..(j - 1)
  OBVIOUS
<1> QED
  BY <1>1, Zenon DEF TokensBefore

(* Buffers *)

LEMMA RangeOfConcat ==
  ASSUME NEW S, NEW s \in Seq(S), NEW t \in Seq(S)
  PROVE  s \o t \in Seq(S) /\ Range(s \o t) = Range(s) \cup Range(t)
<1>1. /\ s \o t \in Seq(S) /\ Len(s \o t) = Len(s) + Len(t)
      /\ \A i \in 1..Len(s) + Len(t) :
           (s \o t)[i] = IF i <= Len(s) THEN s[i] ELSE t[i - Len(s)]
  BY ConcatProperties
<1>2. /\ Len(s) \in Nat /\ Len(t) \in Nat
      /\ DOMAIN s = 1..Len(s) /\ DOMAIN t = 1..Len(t) /\ DOMAIN (s \o t) = 1..Len(s) + Len(t)
  BY <1>1, LenProperties
<1>3. ASSUME NEW i \in 1..Len(s)
      PROVE  s[i] \in Range(s \o t)
  <2>1. i \in 1..Len(s) + Len(t) /\ i <= Len(s)
    BY <1>2
  <2> QED
    BY <1>1, <1>2, <2>1 DEF Range
<1>4. ASSUME NEW i \in 1..Len(t)
      PROVE  t[i] \in Range(s \o t)
  <2>1. i + Len(s) \in 1..Len(s) + Len(t) /\ ~(i + Len(s) <= Len(s)) /\ i + Len(s) - Len(s) = i
    BY <1>2
  <2> QED
    BY <1>1, <1>2, <2>1 DEF Range
<1>5. ASSUME NEW i \in 1..Len(s) + Len(t)
      PROVE  (s \o t)[i] \in Range(s) \cup Range(t)
  <2>1. CASE i <= Len(s)
    BY <1>1, <1>2, <2>1 DEF Range
  <2>2. CASE ~(i <= Len(s))
    <3>1. i - Len(s) \in 1..Len(t)
      BY <1>2, <2>2
    <3> QED
      BY <1>1, <1>2, <2>2, <3>1 DEF Range
  <2> QED
    BY <2>1, <2>2
<1> QED
  BY <1>1, <1>2, <1>3, <1>4, <1>5 DEF Range

LEMMA RangeOfAppend ==
  ASSUME NEW S, NEW s \in Seq(S), NEW e \in S
  PROVE  /\ Append(s, e) \in Seq(S) /\ Len(Append(s, e)) = Len(s) + 1
         /\ DOMAIN Append(s, e) = 1..(Len(s) + 1) /\ DOMAIN s = 1..Len(s) /\ Len(s) \in Nat
         /\ \A i \in 1..Len(s) : Append(s, e)[i] = s[i]
         /\ Append(s, e)[Len(s) + 1] = e
         /\ Range(Append(s, e)) = Range(s) \cup {e}
<1>1. /\ Append(s, e) \in Seq(S) /\ Len(Append(s, e)) = Len(s) + 1
      /\ DOMAIN Append(s, e) = 1..(Len(s) + 1) /\ DOMAIN s = 1..Len(s) /\ Len(s) \in Nat
      /\ \A i \in 1..Len(s) : Append(s, e)[i] = s[i]
      /\ Append(s, e)[Len(s) + 1] = e
  OBVIOUS
<1> DEFINE longer == Append(s, e)
<1> HIDE DEF longer
<1>2. Range(longer) = {longer[i] : i \in 1..(Len(s) + 1)} /\ Range(s) = {s[i] : i \in 1..Len(s)}
  BY <1>1 DEF Range, longer
<1>3. Range(longer) \subseteq Range(s) \cup {e}
  BY <1>1, <1>2 DEF longer
<1>4. Range(s) \subseteq Range(longer) /\ e \in Range(longer)
  BY <1>1, <1>2 DEF longer
<1> QED
  BY <1>1, <1>3, <1>4 DEF longer

\* Packing takes the first seq_len + 1 tokens and leaves those behind the first seq_len.
LEMMA PackSplits ==
  ASSUME NEW S, NEW buffer \in Seq(S), PacksOne(buffer)
  PROVE  /\ Packed(buffer) \in Seq(S) /\ Len(Packed(buffer)) = SeqLen + 1
         /\ \A k \in 1..(SeqLen + 1) : Packed(buffer)[k] = buffer[k]
         /\ AfterPack(buffer) \in Seq(S) /\ Len(AfterPack(buffer)) = Len(buffer) - SeqLen
         /\ \A k \in 1..(Len(buffer) - SeqLen) : AfterPack(buffer)[k] = buffer[SeqLen + k]
         /\ Len(buffer) \in Nat /\ Len(buffer) >= SeqLen + 1 /\ DOMAIN buffer = 1..Len(buffer)
<1>1. Len(buffer) \in Nat /\ DOMAIN buffer = 1..Len(buffer)
  BY LenProperties
<1>2. SeqLen \in Nat \ {0}
  BY CorpusAssumption
<1>3. Len(buffer) >= SeqLen + 1
  BY <1>1, <1>2 DEF PacksOne
<1>4. \A k \in 1..(SeqLen + 1) : buffer[k] \in S
  BY <1>1, <1>2, <1>3, ElementOfSeq
<1>5. /\ SubSeq(buffer, 1, SeqLen + 1) \in Seq(S)
      /\ Len(SubSeq(buffer, 1, SeqLen + 1)) = SeqLen + 1
      /\ \A k \in 1..(SeqLen + 1) : SubSeq(buffer, 1, SeqLen + 1)[k] = buffer[k]
  BY <1>2, <1>4, SubSeqProperties
<1>6. \A k \in (SeqLen + 1)..Len(buffer) : buffer[k] \in S
  BY <1>1, <1>2, <1>3, ElementOfSeq
<1>7. /\ SubSeq(buffer, SeqLen + 1, Len(buffer)) \in Seq(S)
      /\ Len(SubSeq(buffer, SeqLen + 1, Len(buffer))) = Len(buffer) - SeqLen
      /\ \A k \in 1..(Len(buffer) - SeqLen) :
           SubSeq(buffer, SeqLen + 1, Len(buffer))[k] = buffer[SeqLen + k]
  BY <1>1, <1>2, <1>3, <1>6, SubSeqProperties
<1> QED
  BY <1>1, <1>3, <1>5, <1>7 DEF Packed, AfterPack

LEMMA RangeOfPacked ==
  ASSUME NEW S, NEW buffer \in Seq(S), PacksOne(buffer)
  PROVE  /\ Range(buffer) = Range(Packed(buffer)) \cup Range(AfterPack(buffer))
         /\ {buffer[k] : k \in DOMAIN buffer \cap 1..SeqLen} \subseteq Range(Packed(buffer))
<1> DEFINE packed == Packed(buffer)
           after  == AfterPack(buffer)
<1>1. /\ packed \in Seq(S) /\ Len(packed) = SeqLen + 1
      /\ \A k \in 1..(SeqLen + 1) : packed[k] = buffer[k]
      /\ after \in Seq(S) /\ Len(after) = Len(buffer) - SeqLen
      /\ \A k \in 1..(Len(buffer) - SeqLen) : after[k] = buffer[SeqLen + k]
      /\ Len(buffer) \in Nat /\ Len(buffer) >= SeqLen + 1 /\ DOMAIN buffer = 1..Len(buffer)
  BY PackSplits
<1>2. SeqLen \in Nat \ {0}
  BY CorpusAssumption
<1> HIDE DEF packed, after
<1>3. DOMAIN packed = 1..(SeqLen + 1) /\ DOMAIN after = 1..(Len(buffer) - SeqLen)
  BY <1>1, LenProperties
<1>4. ASSUME NEW k \in 1..Len(buffer)
      PROVE  buffer[k] \in Range(packed) \cup Range(after)
  <2>1. CASE k <= SeqLen
    BY <1>1, <1>2, <1>3, <2>1 DEF Range
  <2>2. CASE k > SeqLen
    <3>1. k - SeqLen \in 1..(Len(buffer) - SeqLen) /\ SeqLen + (k - SeqLen) = k
      BY <1>1, <1>2, <2>2
    <3> QED
      BY <1>1, <1>3, <3>1 DEF Range
  <2> QED
    BY <1>1, <1>2, <2>1, <2>2
<1>5. ASSUME NEW k \in 1..(SeqLen + 1)
      PROVE  packed[k] \in Range(buffer)
  BY <1>1, <1>2 DEF Range
<1>6. ASSUME NEW k \in 1..(Len(buffer) - SeqLen)
      PROVE  after[k] \in Range(buffer)
  <2>1. SeqLen + k \in 1..Len(buffer)
    BY <1>1, <1>2
  <2> QED
    BY <1>1, <2>1 DEF Range
<1>7. Range(buffer) = Range(packed) \cup Range(after)
  <2>1. Range(buffer) \subseteq Range(packed) \cup Range(after)
    BY <1>1, <1>4 DEF Range
  <2>2. Range(packed) \subseteq Range(buffer)
    BY <1>3, <1>5, Zenon DEF Range
  <2>3. Range(after) \subseteq Range(buffer)
    BY <1>3, <1>6, Zenon DEF Range
  <2> QED
    BY <2>1, <2>2, <2>3
<1>8. ASSUME NEW k \in DOMAIN buffer \cap 1..SeqLen
      PROVE  buffer[k] \in Range(packed)
  <2>1. k \in 1..(SeqLen + 1)
    BY <1>2
  <2> QED
    BY <1>1, <1>3, <2>1 DEF Range
<1> QED
  BY <1>7, <1>8 DEF packed, after

LEMMA RemainderIs ==
  ASSUME NEW S, NEW buffer \in Seq(S)
  PROVE  /\ Remainder(buffer) \in Seq(S) /\ Len(Remainder(buffer)) <= SeqLen
         /\ ~PacksOne(buffer) => Remainder(buffer) = buffer
<1>1. Len(buffer) \in Nat /\ SeqLen \in Nat \ {0}
  BY LenProperties, CorpusAssumption
<1>2. CASE ~PacksOne(buffer)
  <2>1. Remainder(buffer) = buffer /\ Len(buffer) <= SeqLen
    BY <1>1, <1>2 DEF Remainder, PacksOne
  <2> QED
    BY <2>1
<1>3. CASE PacksOne(buffer)
  <2>1. Remainder(buffer) = SubSeq(buffer, Len(buffer) - SeqLen + 1, Len(buffer))
        /\ Len(buffer) > SeqLen
    BY <1>1, <1>3 DEF Remainder, PacksOne
  <2>2. \A k \in (Len(buffer) - SeqLen + 1)..Len(buffer) : buffer[k] \in S
    BY <1>1, <2>1, ElementOfSeq
  <2>3. /\ SubSeq(buffer, Len(buffer) - SeqLen + 1, Len(buffer)) \in Seq(S)
        /\ Len(SubSeq(buffer, Len(buffer) - SeqLen + 1, Len(buffer))) = SeqLen
    BY <1>1, <2>1, <2>2, SubSeqProperties
  <2> QED
    BY <1>3, <2>1, <2>3, <1>1
<1> QED
  BY <1>2, <1>3

-------------------------------------------------------------------------------
(* The stream *)

LEMMA Division ==
  ASSUME NEW x \in Nat, NEW c \in Nat \ {0}
  PROVE  /\ x \div c \in Nat /\ x % c \in 0..(c - 1)
         /\ x = c * (x \div c) + (x % c)
BY Z3

LEMMA Multiple ==
  ASSUME NEW q \in Nat, NEW c \in Nat \ {0}
  PROVE  (c * q) % c = 0
BY Z3

LEMMA OneMore ==
  ASSUME NEW n \in Nat, NEW c \in Nat
  PROVE  /\ n * c \in Nat /\ (n + 1) * c = n * c + c /\ (n + 1 - 1) * c = n * c
         /\ n > 0 => (n - 1) * c \in Nat /\ n * c = (n - 1) * c + c
<1>1. (n + 1) * c = n * c + c /\ n * c \in Nat
  BY Z3
<1>2. CASE n > 0
  <2>1. n - 1 \in Nat
    BY <1>2
  <2>2. (n - 1) * c \in Nat /\ n * c = (n - 1) * c + c
    BY <2>1, Z3
  <2> QED
    BY <1>1, <2>2
<1> QED
  BY <1>1, <1>2

\* A multiple of c lies behind every a, not more than c away; it is the next one of a only.
LEMMA NextMultiple ==
  ASSUME NEW c \in Nat \ {0}, NEW a \in Nat
  PROVE  LET next == c * ((a \div c) + 1)
         IN  next \in Nat /\ next % c = 0 /\ a < next /\ next <= a + c
<1>1. /\ a \div c \in Nat /\ a % c \in 0..(c - 1)
      /\ a = c * (a \div c) + (a % c)
  BY Division
<1>2. /\ (a \div c) + 1 \in Nat /\ c * (a \div c) \in Nat
      /\ c * ((a \div c) + 1) = c * (a \div c) + c
  BY <1>1, Z3
<1>3. (c * ((a \div c) + 1)) % c = 0
  BY <1>2, Multiple
<1> QED
  BY <1>1, <1>2, <1>3

LEMMA StreamConstants ==
  /\ MicroBatches \in Nat \ {0} /\ StateEvery \in Nat \ {0} /\ SaveEvery \in Nat \ {0}
  /\ StreamSteps \in Nat \ {0}
  /\ SeqLen \in Nat \ {0} /\ "train" \in Splits
BY StreamAssumption, CorpusAssumption DEF Splits

Streams == [doing : {"read", "record"}, epoch : Nat, file : Nat, at : Nat \ {0},
            buffer : Seq(StreamTokens), step : Nat]

LEMMA StreamOrDown ==
  ASSUME StreamTypes
  PROVE  /\ stream # Down =>
              /\ stream \in Streams /\ stream.doing \in {"read", "record"}
              /\ stream.epoch \in Nat /\ stream.file \in Nat /\ stream.at \in Nat \ {0}
              /\ stream.buffer \in Seq(StreamTokens) /\ stream.step \in Nat
         /\ stream.doing \in {"read", "record"} => stream # Down
         /\ state.step \in Nat /\ state.epoch \in Nat /\ state.file \in Nat
         /\ state.buffer \in Seq(StreamTokens)
         /\ Len(updates) \in Nat /\ Len(traces) \in Nat
<1>1. Down.doing = "down"
  BY DEF Down
<1>2. stream # Down => stream \in Streams
  BY DEF StreamTypes, Streams
<1>3. stream \in Streams =>
        /\ stream.doing \in {"read", "record"}
        /\ stream.epoch \in Nat /\ stream.file \in Nat /\ stream.at \in Nat \ {0}
        /\ stream.buffer \in Seq(StreamTokens) /\ stream.step \in Nat
  BY DEF Streams
<1>4. /\ state.step \in Nat /\ state.epoch \in Nat /\ state.file \in Nat
      /\ state.buffer \in Seq(StreamTokens)
  BY DEF StreamTypes
<1>5. Len(updates) \in Nat /\ Len(traces) \in Nat
  BY LenProperties DEF StreamTypes
<1> QED
  BY <1>1, <1>2, <1>3, <1>4, <1>5

\* A token of the corpus in an epoch, as a stream token.
LEMMA StreamedRow ==
  ASSUME NEW i \in 1..Len(AllRows), NEW epoch \in Nat
  PROVE  LET ids  == Encoded("train", i, 1)
             read == [k \in DOMAIN ids |-> <<epoch, ids[k]>>]
         IN  read \in Seq(StreamTokens) /\ Range(read) = {epoch} \X Range(ids)
<1> DEFINE ids  == Encoded("train", i, 1)
           read == [k \in DOMAIN ids |-> <<epoch, ids[k]>>]
<1>1. ids \in Seq(Tokens)
  BY EncodedIs, StreamConstants DEF AllRows
<1> HIDE DEF ids
<1>2. DOMAIN ids = 1..Len(ids) /\ Len(ids) \in Nat /\ \A k \in 1..Len(ids) : ids[k] \in Tokens
  BY <1>1, LenProperties, ElementOfSeq
<1>3. read \in [1..Len(ids) -> StreamTokens]
  BY <1>2 DEF StreamTokens
<1>4. read \in Seq(StreamTokens)
  BY <1>2, <1>3
<1>5. DOMAIN read = DOMAIN ids /\ \A k \in DOMAIN ids : read[k] = <<epoch, ids[k]>>
  OBVIOUS
<1> HIDE DEF read
<1>6. Range(read) = {<<epoch, ids[k]>> : k \in DOMAIN ids}
  BY <1>5 DEF Range
<1>7. {<<epoch, ids[k]>> : k \in DOMAIN ids} = {epoch} \X {ids[k] : k \in DOMAIN ids}
  OBVIOUS
<1> QED
  BY <1>4, <1>6, <1>7 DEF ids, read, Range

\* What the steps of the stream do to its record.
LEMMA Reading ==
  ASSUME StreamTypes, stream.doing = "read"
  PROVE  /\ stream # Down /\ stream \in Streams
         /\ stream.epoch \in Nat /\ stream.file \in Nat /\ stream.at \in Nat \ {0}
         /\ stream.buffer \in Seq(StreamTokens) /\ stream.step \in Nat
BY StreamOrDown

LEMMA Running ==
  ASSUME NEW s \in Streams
  PROVE  s # Down
<1>1. s.doing \in {"read", "record"}
  BY DEF Streams
<1>2. Down.doing = "down"
  BY DEF Down
<1> QED
  BY <1>1, <1>2

LEMMA StreamMoved ==
  ASSUME NEW s \in Streams, NEW epoch \in Nat, NEW file \in Nat, NEW at \in Nat \ {0},
         NEW buffer \in Seq(StreamTokens)
  PROVE  [s EXCEPT !.epoch = epoch, !.file = file, !.at = at, !.buffer = buffer] \in Streams
BY DEF Streams

LEMMA LaunchEffect ==
  ASSUME StreamTypes, StreamPlaced, LaunchStream
  PROVE  /\ stream = Down /\ state.step < StreamSteps
         /\ stream' \in Streams /\ stream' # Down /\ stream'.doing = "read"
         /\ stream'.epoch = state.epoch /\ stream'.file = state.file
         /\ stream'.at = RowFrom("train", state.file, 0) /\ stream'.at \in 1..(Len(AllRows) + 1)
         /\ stream'.buffer = state.buffer /\ stream'.step = state.step
         /\ traces' = <<>> /\ launches' = launches + 1 /\ state' = state /\ updates' = updates
<1>1. /\ stream = Down /\ state.step < StreamSteps /\ stream' = Restored
      /\ traces' = <<>> /\ launches' = launches + 1 /\ state' = state /\ updates' = updates
  BY DEF LaunchStream
<1>2. /\ state.step \in Nat /\ state.epoch \in Nat /\ state.file \in Nat
      /\ state.buffer \in Seq(StreamTokens)
  BY StreamOrDown
<1>3. RowFrom("train", state.file, 0) \in 1..End("train")
  BY <1>2, RowFromSplits, StreamConstants
<1>4. RowFrom("train", state.file, 0) \in 1..(Len(AllRows) + 1)
      /\ RowFrom("train", state.file, 0) \in Nat \ {0}
  BY <1>3, RowsTyped, StreamConstants DEF End, AllRows
<1>5. ~(state.file >= Files("train"))
  <2>1. Files("train") \in Nat
    BY FilesTyped, StreamConstants
  <2> QED
    BY <1>2, <2>1 DEF StreamPlaced
<1>6. Restored = [doing |-> "read", epoch |-> state.epoch + 0, file |-> state.file,
                  at |-> RowFrom("train", state.file, 0),
                  buffer |-> state.buffer, step |-> state.step]
  BY <1>5 DEF Restored
<1>7. Restored \in Streams
  BY <1>2, <1>4, <1>6 DEF Streams
<1>8. state.epoch + 0 = state.epoch
  BY <1>2
<1> QED
  BY <1>1, <1>4, <1>6, <1>7, <1>8, Running

LEMMA ReadRowEffect ==
  ASSUME StreamTypes, ReadRow
  PROVE  LET ids == Encoded("train", stream.at, 1)
         IN  /\ stream # Down /\ stream.doing = "read" /\ Len(traces) < MicroBatches
             /\ ~PacksOne(stream.buffer)
             /\ stream.at \in 1..Len(AllRows) /\ AllRows[stream.at].file = stream.file
             /\ stream' \in Streams /\ stream' # Down /\ stream'.doing = "read"
             /\ stream'.epoch = stream.epoch /\ stream'.file = stream.file
             /\ stream'.at = stream.at + 1 /\ stream'.step = stream.step
             /\ Range(stream'.buffer) = Range(stream.buffer) \cup ({stream.epoch} \X Range(ids))
             /\ DOMAIN stream.buffer \subseteq DOMAIN stream'.buffer
             /\ \A k \in DOMAIN stream.buffer : stream'.buffer[k] = stream.buffer[k]
             /\ UNCHANGED <<traces, state, launches, updates>>
<1> DEFINE ids  == Encoded("train", stream.at, 1)
           read == [k \in DOMAIN ids |-> <<stream.epoch, ids[k]>>]
<1>1. /\ stream.doing = "read" /\ Len(traces) < MicroBatches /\ ~PacksOne(stream.buffer)
      /\ stream.at <= Len(AllRows) /\ AllRows[stream.at].file = stream.file
      /\ stream' = [stream EXCEPT !.at = @ + 1, !.buffer = @ \o read]
      /\ UNCHANGED <<traces, state, launches, updates>>
  BY DEF ReadRow, Wanted
<1>2. /\ stream # Down /\ stream \in Streams
      /\ stream.epoch \in Nat /\ stream.file \in Nat /\ stream.at \in Nat \ {0}
      /\ stream.buffer \in Seq(StreamTokens) /\ stream.step \in Nat
  BY <1>1, Reading
<1>3. Len(AllRows) \in Nat
  BY RowsTyped, StreamConstants DEF AllRows
<1>4. stream.at \in 1..Len(AllRows)
  BY <1>1, <1>2, <1>3
<1>5. read \in Seq(StreamTokens) /\ Range(read) = {stream.epoch} \X Range(ids)
  BY <1>2, <1>4, StreamedRow
<1> HIDE DEF read, ids
<1>6. /\ stream.buffer \o read \in Seq(StreamTokens)
      /\ Range(stream.buffer \o read) = Range(stream.buffer) \cup Range(read)
  BY <1>2, <1>5, RangeOfConcat
<1>7. /\ Len(stream.buffer \o read) = Len(stream.buffer) + Len(read)
      /\ \A k \in 1..Len(stream.buffer) + Len(read) :
           (stream.buffer \o read)[k] =
             IF k <= Len(stream.buffer) THEN stream.buffer[k] ELSE read[k - Len(stream.buffer)]
  BY <1>2, <1>5, ConcatProperties
<1>8. /\ DOMAIN stream.buffer = 1..Len(stream.buffer) /\ Len(stream.buffer) \in Nat
      /\ Len(read) \in Nat /\ DOMAIN (stream.buffer \o read) = 1..Len(stream.buffer \o read)
  BY <1>2, <1>5, <1>6, LenProperties
<1>9. /\ DOMAIN stream.buffer \subseteq DOMAIN (stream.buffer \o read)
      /\ \A k \in DOMAIN stream.buffer : (stream.buffer \o read)[k] = stream.buffer[k]
  BY <1>7, <1>8
<1>10. /\ stream'.doing = "read" /\ stream'.epoch = stream.epoch /\ stream'.file = stream.file
       /\ stream'.at = stream.at + 1 /\ stream'.step = stream.step
       /\ stream'.buffer = stream.buffer \o read
  BY <1>1, <1>2 DEF Streams
<1>11. stream' \in Streams
  <2>1. stream.at + 1 \in Nat \ {0}
    BY <1>2
  <2>2. stream' = [stream EXCEPT !.epoch = stream.epoch, !.file = stream.file,
                                 !.at = stream.at + 1, !.buffer = stream.buffer \o read]
    BY <1>1, <1>2 DEF Streams
  <2> QED
    BY <1>2, <1>6, <2>1, <2>2, StreamMoved
<1> QED
  BY <1>1, <1>2, <1>4, <1>5, <1>6, <1>9, <1>10, <1>11, Running DEF ids

LEMMA EndFileEffect ==
  ASSUME StreamTypes, EndFile
  PROVE  /\ stream # Down /\ stream.doing = "read" /\ Len(traces) < MicroBatches
         /\ ~PacksOne(stream.buffer)
         /\ stream.at <= Len(AllRows) => AllRows[stream.at].file # stream.file
         /\ stream' \in Streams /\ stream' # Down /\ stream'.doing = "read"
         /\ stream'.buffer = stream.buffer /\ stream'.step = stream.step
         /\ IF stream.file + 1 < Files("train")
            THEN /\ stream'.epoch = stream.epoch /\ stream'.file = stream.file + 1
                 /\ stream'.at = stream.at
            ELSE stream'.epoch = stream.epoch + 1 /\ stream'.file = 0 /\ stream'.at = 1
         /\ UNCHANGED <<traces, state, launches, updates>>
<1>1. /\ stream.doing = "read" /\ Len(traces) < MicroBatches /\ ~PacksOne(stream.buffer)
      /\ stream.at <= Len(AllRows) => AllRows[stream.at].file # stream.file
      /\ stream' = IF stream.file + 1 < Files("train")
                   THEN [stream EXCEPT !.file = @ + 1, !.buffer = Remainder(@)]
                   ELSE [stream EXCEPT !.file = 0, !.at = 1, !.epoch = @ + 1,
                                       !.buffer = Remainder(@)]
      /\ UNCHANGED <<traces, state, launches, updates>>
  BY DEF EndFile, Wanted
<1>2. /\ stream # Down /\ stream \in Streams
      /\ stream.epoch \in Nat /\ stream.file \in Nat /\ stream.at \in Nat \ {0}
      /\ stream.buffer \in Seq(StreamTokens) /\ stream.step \in Nat
  BY <1>1, Reading
<1>3. Remainder(stream.buffer) = stream.buffer
  BY <1>1, <1>2, RemainderIs
<1>4. CASE stream.file + 1 < Files("train")
  <2>1. stream' = [stream EXCEPT !.file = @ + 1, !.buffer = stream.buffer]
    BY <1>1, <1>3, <1>4
  <2>2. /\ stream'.doing = "read"
        /\ stream'.buffer = stream.buffer /\ stream'.step = stream.step
        /\ stream'.epoch = stream.epoch /\ stream'.file = stream.file + 1
        /\ stream'.at = stream.at
    BY <1>1, <1>2, <2>1 DEF Streams
  <2>3. stream' = [stream EXCEPT !.epoch = stream.epoch, !.file = stream.file + 1,
                                 !.at = stream.at, !.buffer = stream.buffer]
    BY <1>2, <2>1 DEF Streams
  <2>4. stream' \in Streams
    <3>1. stream.file + 1 \in Nat
      BY <1>2
    <3> QED
      BY <1>2, <2>3, <3>1, StreamMoved
  <2> QED
    BY <1>1, <1>2, <1>4, <2>2, <2>4, Running
<1>5. CASE ~(stream.file + 1 < Files("train"))
  <2>1. stream' = [stream EXCEPT !.file = 0, !.at = 1, !.epoch = @ + 1, !.buffer = stream.buffer]
    BY <1>1, <1>3, <1>5
  <2>2. /\ stream'.doing = "read"
        /\ stream'.buffer = stream.buffer /\ stream'.step = stream.step
        /\ stream'.epoch = stream.epoch + 1 /\ stream'.file = 0 /\ stream'.at = 1
    BY <1>1, <1>2, <2>1 DEF Streams
  <2>3. stream' = [stream EXCEPT !.epoch = stream.epoch + 1, !.file = 0,
                                 !.at = 1, !.buffer = stream.buffer]
    BY <1>2, <2>1 DEF Streams
  <2>4. stream' \in Streams
    <3>1. stream.epoch + 1 \in Nat /\ 0 \in Nat /\ 1 \in Nat \ {0}
      BY <1>2
    <3> QED
      BY <1>2, <2>3, <3>1, StreamMoved
  <2> QED
    BY <1>1, <1>2, <1>5, <2>2, <2>4, Running
<1> QED
  BY <1>4, <1>5

LEMMA YieldEffect ==
  ASSUME StreamTypes, YieldSequence
  PROVE  /\ stream # Down /\ stream.doing = "read" /\ Len(traces) < MicroBatches
         /\ PacksOne(stream.buffer) /\ stream.buffer \in Seq(StreamTokens)
         /\ traces' = Append(traces, Packed(stream.buffer))
         /\ Packed(stream.buffer) \in Seq(StreamTokens)
         /\ stream' \in Streams /\ stream' # Down /\ stream'.doing = "read"
         /\ stream'.epoch = stream.epoch /\ stream'.file = stream.file
         /\ stream'.at = stream.at /\ stream'.step = stream.step
         /\ stream'.buffer = AfterPack(stream.buffer)
         /\ UNCHANGED <<state, launches, updates>>
<1>1. /\ stream.doing = "read" /\ Len(traces) < MicroBatches /\ PacksOne(stream.buffer)
      /\ traces' = Append(traces, Packed(stream.buffer))
      /\ stream' = [stream EXCEPT !.buffer = AfterPack(@)]
      /\ UNCHANGED <<state, launches, updates>>
  BY DEF YieldSequence, Wanted
<1>2. /\ stream # Down /\ stream \in Streams
      /\ stream.buffer \in Seq(StreamTokens)
  BY <1>1, Reading
<1>3. Packed(stream.buffer) \in Seq(StreamTokens) /\ AfterPack(stream.buffer) \in Seq(StreamTokens)
  BY <1>1, <1>2, PackSplits
<1>4. /\ stream' \in Streams /\ stream'.doing = "read"
      /\ stream'.epoch = stream.epoch /\ stream'.file = stream.file
      /\ stream'.at = stream.at /\ stream'.step = stream.step
      /\ stream'.buffer = AfterPack(stream.buffer)
  BY <1>1, <1>2, <1>3 DEF Streams
<1> QED
  BY <1>1, <1>2, <1>3, <1>4, Running

LEMMA CommitEffect ==
  ASSUME StreamTypes, CommitStep
  PROVE  /\ stream # Down /\ stream.doing = "read" /\ Len(traces) = MicroBatches
         /\ updates' = Append(updates, traces) /\ traces' = <<>>
         /\ stream' \in Streams /\ stream' # Down /\ stream'.doing = "record"
         /\ stream'.epoch = stream.epoch /\ stream'.file = stream.file
         /\ stream'.at = stream.at /\ stream'.step = stream.step + 1
         /\ stream'.buffer = stream.buffer
         /\ UNCHANGED <<state, launches>>
<1>1. /\ stream.doing = "read" /\ Len(traces) = MicroBatches
      /\ updates' = Append(updates, traces) /\ traces' = <<>>
      /\ stream' = [stream EXCEPT !.doing = "record", !.step = @ + 1]
      /\ UNCHANGED <<state, launches>>
  BY DEF CommitStep
<1>2. stream # Down /\ stream \in Streams /\ stream.step + 1 \in Nat
  BY <1>1, Reading
<1>3. stream' \in Streams
  <2>1. stream' = [stream EXCEPT !.doing = "record", !.step = stream.step + 1]
    BY <1>1, <1>2 DEF Streams
  <2>2. \A step \in Nat : [stream EXCEPT !.doing = "record", !.step = step] \in Streams
    BY <1>2 DEF Streams
  <2> QED
    BY <1>2, <2>1, <2>2
<1>4. /\ stream'.doing = "record"
      /\ stream'.epoch = stream.epoch /\ stream'.file = stream.file
      /\ stream'.at = stream.at /\ stream'.step = stream.step + 1
      /\ stream'.buffer = stream.buffer
  BY <1>1, <1>2 DEF Streams
<1> QED
  BY <1>1, <1>2, <1>3, <1>4, Running

LEMMA RecordEffect ==
  ASSUME StreamTypes, RecordState
  PROVE  /\ stream # Down /\ stream.doing = "record" /\ stream \in Streams
         /\ UNCHANGED <<traces, launches, updates>>
         /\ IF Recorded
            THEN /\ state'.step = stream.step /\ state'.epoch = stream.epoch
                 /\ state'.file = stream.file /\ state'.buffer = Remainder(stream.buffer)
                 /\ state' \in [step : Nat, epoch : Nat, file : Nat, buffer : Seq(StreamTokens)]
            ELSE state' = state
         /\ IF stream.step = StreamSteps THEN stream' = Down
            ELSE /\ stream' \in Streams /\ stream' # Down /\ stream'.doing = "read"
                 /\ stream'.epoch = stream.epoch /\ stream'.file = stream.file
                 /\ stream'.at = stream.at /\ stream'.step = stream.step
                 /\ stream'.buffer = stream.buffer
<1>1. /\ stream.doing = "record" /\ UNCHANGED <<traces, launches, updates>>
      /\ state' = IF Recorded THEN Position ELSE state
      /\ stream' = IF stream.step = StreamSteps THEN Down ELSE [stream EXCEPT !.doing = "read"]
  BY DEF RecordState
<1>2. /\ stream # Down /\ stream \in Streams
      /\ stream.epoch \in Nat /\ stream.file \in Nat
      /\ stream.buffer \in Seq(StreamTokens) /\ stream.step \in Nat
  BY <1>1, StreamOrDown
<1>3. Remainder(stream.buffer) \in Seq(StreamTokens)
  BY <1>2, RemainderIs
<1>4. Position \in [step : Nat, epoch : Nat, file : Nat, buffer : Seq(StreamTokens)]
  BY <1>2, <1>3 DEF Position
<1>5. /\ Position.step = stream.step /\ Position.epoch = stream.epoch
      /\ Position.file = stream.file /\ Position.buffer = Remainder(stream.buffer)
  BY DEF Position
<1>6. CASE stream.step = StreamSteps
  BY <1>1, <1>2, <1>4, <1>5, <1>6
<1>7. CASE stream.step # StreamSteps
  <2>1. stream' = [stream EXCEPT !.doing = "read"]
    BY <1>1, <1>7
  <2>2. /\ stream' \in Streams /\ stream'.doing = "read"
        /\ stream'.epoch = stream.epoch /\ stream'.file = stream.file
        /\ stream'.at = stream.at /\ stream'.step = stream.step
        /\ stream'.buffer = stream.buffer
    BY <1>2, <2>1 DEF Streams
  <2> QED
    BY <1>1, <1>2, <1>4, <1>5, <1>7, <2>2, Running
<1> QED
  BY <1>6, <1>7

LEMMA StreamCrashEffect ==
  ASSUME StreamCrash
  PROVE  /\ stream # Down /\ stream' = Down /\ traces' = <<>>
         /\ UNCHANGED <<state, launches, updates>>
BY DEF StreamCrash

LEMMA StreamTypesKept ==
  ASSUME StreamTypes, StreamPlaced, StreamStep \/ StreamCrash
  PROVE  StreamTypes'
<1> DEFINE S    == Seq(StreamTokens)
           Recs == [step : Nat, epoch : Nat, file : Nat, buffer : S]
<1> USE StreamConstants
<1>0. /\ launches \in Nat /\ updates \in Seq(Seq(S)) /\ traces \in Seq(S)
      /\ Len(traces) \in Nat /\ Len(traces) <= MicroBatches
      /\ state \in Recs /\ (stream.doing # "read" => traces = <<>>)
      /\ \A n \in DOMAIN updates : Len(updates[n]) = MicroBatches
  BY LenProperties DEF StreamTypes
<1>a. \A s : s \in Streams <=> s \in [doing : {"read", "record"}, epoch : Nat, file : Nat,
                                      at : Nat \ {0}, buffer : S, step : Nat]
  BY DEF Streams
<1>b. <<>> \in Seq(S) /\ Len(<<>>) = 0
  BY EmptySeq
<1>c. stream = Down \/ stream \in Streams
  BY StreamOrDown
<1> HIDE DEF Recs, S
<1>1. SUFFICES /\ launches' \in Nat /\ updates' \in Seq(Seq(S)) /\ traces' \in Seq(S)
               /\ Len(traces') <= MicroBatches /\ state' \in Recs
               /\ stream' = Down \/ stream' \in Streams
               /\ stream'.doing # "read" => traces' = <<>>
               /\ \A n \in DOMAIN updates' : Len(updates'[n]) = MicroBatches
  BY <1>a DEF StreamTypes, S, Recs
<1>2. CASE LaunchStream
  BY <1>0, <1>b, <1>2, LaunchEffect
<1>3. CASE ReadRow
  BY <1>0, <1>3, ReadRowEffect
<1>4. CASE EndFile
  BY <1>0, <1>4, EndFileEffect
<1>5. CASE YieldSequence
  <2>1. Packed(stream.buffer) \in S /\ traces' = Append(traces, Packed(stream.buffer))
    BY <1>5, YieldEffect DEF S
  <2>2. traces' \in Seq(S) /\ Len(traces') = Len(traces) + 1
    BY <1>0, <2>1, RangeOfAppend
  <2> QED
    BY <1>0, <1>5, <2>2, YieldEffect
<1>6. CASE CommitStep
  <2>1. updates' = Append(updates, traces) /\ Len(traces) = MicroBatches
    BY <1>6, CommitEffect
  <2>2. /\ updates' \in Seq(Seq(S)) /\ DOMAIN updates' = 1..(Len(updates) + 1)
        /\ DOMAIN updates = 1..Len(updates) /\ Len(updates) \in Nat
        /\ \A n \in 1..Len(updates) : updates'[n] = updates[n]
        /\ updates'[Len(updates) + 1] = traces
    BY <1>0, <2>1, RangeOfAppend
  <2>3. \A n \in DOMAIN updates' : Len(updates'[n]) = MicroBatches
    BY <1>0, <2>1, <2>2
  <2> QED
    BY <1>0, <1>b, <1>6, <2>2, <2>3, CommitEffect
<1>7. CASE RecordState
  <2>1. traces' = <<>>
    BY <1>0, <1>7, RecordEffect
  <2> QED
    BY <1>0, <1>7, RecordEffect DEF S, Recs
<1>8. CASE StreamCrash
  BY <1>0, <1>b, <1>8, StreamCrashEffect
<1> QED
  BY <1>2, <1>3, <1>4, <1>5, <1>6, <1>7, <1>8 DEF StreamStep

\* Where a file begins.
LEMMA FileBegins ==
  ASSUME NEW split \in Splits, NEW file \in Nat
  PROVE  LET r == RowFrom(split, file, 0)
         IN  /\ r \in 1..End(split)
             /\ \A i \in 1..(r - 1) : Rows[split][i].file < file
             /\ \A i \in r..Len(Rows[split]) : Rows[split][i].file >= file
<1> DEFINE r == RowFrom(split, file, 0)
           n == Len(Rows[split])
<1>1. /\ r \in 1..End(split)
      /\ \A i \in 1..(r - 1) : ~Later(Rows[split][i], file, 0)
      /\ \A i \in r..n : Later(Rows[split][i], file, 0)
  BY RowFromSplits
<1>2. n \in Nat \ {0} /\ End(split) = n + 1
  BY RowsTyped DEF End
<1>3. \A i \in 1..n : Rows[split][i].file \in Nat /\ Rows[split][i].batch \in Nat
  BY RowsTyped
<1> HIDE DEF r, n
<1>4. ASSUME NEW i \in 1..n
      PROVE  Later(Rows[split][i], file, 0) <=> Rows[split][i].file >= file
  <2> DEFINE f == Rows[split][i].file
             b == Rows[split][i].batch
  <2>1. f \in Nat /\ b \in Nat
    BY <1>3
  <2>2. Later(Rows[split][i], file, 0) <=> (f > file \/ (f = file /\ b >= 0))
    BY DEF Later
  <2> HIDE DEF f, b
  <2>3. Later(Rows[split][i], file, 0) <=> f >= file
    BY <2>1, <2>2
  <2> QED
    BY <2>3 DEF f
<1>5. ASSUME NEW i \in 1..(r - 1)
      PROVE  Rows[split][i].file < file
  <2>1. i \in 1..n
    BY <1>1, <1>2
  <2> QED
    BY <1>1, <1>3, <1>4, <2>1
<1>6. ASSUME NEW i \in r..n
      PROVE  Rows[split][i].file >= file
  <2>1. i \in 1..n
    BY <1>1, <1>2
  <2> QED
    BY <1>1, <1>4, <2>1
<1> QED
  BY <1>1, <1>5, <1>6 DEF r, n

LEMMA FileBeginsAt ==
  ASSUME NEW split \in Splits, NEW file \in Nat, NEW at \in 1..End(split),
         \A i \in 1..(at - 1) : Rows[split][i].file < file,
         \A i \in at..Len(Rows[split]) : Rows[split][i].file >= file
  PROVE  RowFrom(split, file, 0) = at
<1> DEFINE r == RowFrom(split, file, 0)
           n == Len(Rows[split])
<1>1. /\ r \in 1..End(split)
      /\ \A i \in 1..(r - 1) : Rows[split][i].file < file
      /\ \A i \in r..n : Rows[split][i].file >= file
  BY FileBegins
<1>2. n \in Nat \ {0} /\ End(split) = n + 1
  BY RowsTyped DEF End
<1>3. \A i \in 1..n : Rows[split][i].file \in Nat
  BY RowsTyped
<1> HIDE DEF r
<1>4. ~(r < at)
  <2> SUFFICES ASSUME r < at PROVE FALSE
    OBVIOUS
  <2>1. r \in 1..(at - 1) /\ r \in r..n /\ r \in 1..n
    BY <1>1, <1>2
  <2> QED
    BY <1>1, <1>3, <2>1
<1>5. ~(at < r)
  <2> SUFFICES ASSUME at < r PROVE FALSE
    OBVIOUS
  <2>1. at \in 1..(r - 1) /\ at \in at..n /\ at \in 1..n
    BY <1>1, <1>2
  <2> QED
    BY <1>1, <1>3, <2>1
<1> QED
  BY <1>1, <1>2, <1>4, <1>5 DEF r

LEMMA FilesAscend ==
  ASSUME NEW split \in Splits, NEW i \in 1..Len(Rows[split]), NEW j \in 1..Len(Rows[split]), i <= j
  PROVE  Rows[split][i].file <= Rows[split][j].file /\ Rows[split][j].file < Files(split)
<1> DEFINE n == Len(Rows[split])
<1>1. n \in Nat \ {0} /\ \A k \in 1..n : Rows[split][k].file \in Nat /\ Rows[split][k].batch \in Nat
  BY RowsTyped
<1>2. ASSUME NEW k \in 1..n, NEW m \in 1..n, k <= m
      PROVE  Rows[split][k].file <= Rows[split][m].file
  <2>1. CASE k = m
    BY <1>1, <2>1
  <2>2. CASE k < m
    <3> DEFINE fk == Rows[split][k].file
               fm == Rows[split][m].file
    <3>1. Later(Rows[split][m], fk, Rows[split][k].batch)
      BY <2>2, CorpusAssumption
    <3>2. fm > fk \/ fm = fk
      BY <3>1 DEF Later
    <3>3. fm \in Nat /\ fk \in Nat
      BY <1>1
    <3> HIDE DEF fm, fk
    <3>4. fk <= fm
      BY <3>2, <3>3
    <3> QED
      BY <3>4 DEF fk, fm
  <2> QED
    BY <1>2, <2>1, <2>2
<1> HIDE DEF n
<1>3. Rows[split][i].file <= Rows[split][j].file
  BY <1>2 DEF n
<1>4. j \in 1..n /\ n \in 1..n /\ j <= n
  BY <1>1 DEF n
<1>5. Rows[split][j].file <= Rows[split][n].file
  BY <1>2, <1>4
<1>6. Files(split) = Rows[split][n].file + 1
  BY DEF Files, n
<1> QED
  BY <1>1, <1>3, <1>4, <1>5, <1>6

LEMMA StreamPlacedKept ==
  ASSUME StreamTypes, StreamPlaced, StreamStep \/ StreamCrash
  PROVE  StreamPlaced'
<1> DEFINE n == Len(AllRows)
<1>0. n \in Nat \ {0} /\ End("train") = n + 1 /\ Files("train") \in Nat \ {0}
      /\ \A i \in 1..n : AllRows[i].file \in Nat
  <2>1. /\ Len(Rows["train"]) \in Nat \ {0} /\ End("train") \in Nat \ {0}
        /\ \A i \in 1..Len(Rows["train"]) : Rows["train"][i].file \in Nat
    BY RowsTyped, StreamConstants
  <2> QED
    BY <2>1 DEF End, AllRows, Files
<1>1. /\ state.file < Files("train") /\ Len(state.buffer) <= SeqLen
      /\ stream # Down =>
           /\ stream.file < Files("train") /\ stream.at <= n + 1
           /\ \A i \in 1..(stream.at - 1) : AllRows[i].file <= stream.file
           /\ \A i \in stream.at..n : AllRows[i].file >= stream.file
  BY DEF StreamPlaced
<1>2. stream # Down => stream.file \in Nat /\ stream.at \in Nat \ {0} /\ stream.buffer \in Seq(StreamTokens)
  BY StreamOrDown
<1>d. \A i \in 1..n, j \in 1..n : i <= j => AllRows[i].file <= AllRows[j].file
                                         /\ AllRows[j].file < Files("train")
  BY FilesAscend, StreamConstants DEF AllRows
<1>e. state.file \in Nat
  BY StreamOrDown
<1> HIDE DEF n
<1>3. SUFFICES
        /\ state'.file < Files("train") /\ Len(state'.buffer) <= SeqLen
        /\ stream' # Down =>
             /\ stream'.file < Files("train") /\ stream'.at <= n + 1
             /\ \A i \in 1..(stream'.at - 1) : AllRows[i].file <= stream'.file
             /\ \A i \in stream'.at..n : AllRows[i].file >= stream'.file
  BY DEF StreamPlaced, n
<1>4. CASE LaunchStream
  <2>1. /\ stream'.file = state.file /\ stream'.at = RowFrom("train", state.file, 0)
        /\ state' = state
    BY <1>4, LaunchEffect
  <2>2. /\ stream'.at \in 1..(n + 1)
        /\ \A i \in 1..(stream'.at - 1) : AllRows[i].file < state.file
        /\ \A i \in stream'.at..n : AllRows[i].file >= state.file
    BY <1>0, <1>e, <2>1, FileBegins, StreamConstants DEF AllRows, n
  <2>3. \A i \in 1..(stream'.at - 1) : AllRows[i].file <= state.file
    <3> TAKE i \in 1..(stream'.at - 1)
    <3>1. i \in 1..n
      BY <1>0, <2>2
    <3> QED
      BY <1>0, <1>e, <2>2, <3>1
  <2> QED
    BY <1>0, <1>1, <2>1, <2>2, <2>3
<1>5. CASE ReadRow
  <2>1. /\ stream # Down /\ stream.at \in 1..n /\ AllRows[stream.at].file = stream.file
        /\ stream'.file = stream.file /\ stream'.at = stream.at + 1 /\ state' = state
    BY <1>5, ReadRowEffect DEF n
  <2>2. \A i \in 1..(stream'.at - 1) : AllRows[i].file <= stream.file
    <3> TAKE i \in 1..(stream'.at - 1)
    <3>1. i \in 1..(stream.at - 1) \/ i = stream.at
      BY <1>0, <2>1
    <3> QED
      BY <1>1, <1>2, <2>1, <3>1
  <2>3. \A i \in stream'.at..n : AllRows[i].file >= stream.file
    BY <1>0, <1>1, <2>1
  <2> QED
    BY <1>0, <1>1, <2>1, <2>2, <2>3
<1>6. CASE EndFile
  <2>1. /\ stream # Down /\ state' = state
        /\ stream.at <= n => AllRows[stream.at].file # stream.file
        /\ IF stream.file + 1 < Files("train")
           THEN stream'.file = stream.file + 1 /\ stream'.at = stream.at
           ELSE stream'.file = 0 /\ stream'.at = 1
    BY <1>6, EndFileEffect DEF n
  <2>2. CASE stream.file + 1 < Files("train")
    <3>1. stream'.file = stream.file + 1 /\ stream'.at = stream.at
      BY <2>1, <2>2
    <3>2. ASSUME NEW i \in stream.at..n
          PROVE  AllRows[i].file >= stream.file + 1
      <4>1. stream.at \in 1..n /\ i \in 1..n /\ stream.at <= i /\ stream.at \in stream.at..n
        BY <1>0, <1>2, <2>1
      <4>2. AllRows[stream.at].file >= stream.file /\ AllRows[stream.at].file # stream.file
        BY <1>1, <2>1, <4>1
      <4>3. AllRows[stream.at].file <= AllRows[i].file
        BY <1>d, <4>1
      <4> QED
        BY <1>0, <1>2, <2>1, <4>1, <4>2, <4>3
    <3>3. ASSUME NEW i \in 1..(stream.at - 1)
          PROVE  AllRows[i].file <= stream.file + 1
      <4>1. i \in 1..n /\ AllRows[i].file <= stream.file
        BY <1>0, <1>1, <1>2, <2>1
      <4> QED
        BY <1>0, <1>2, <2>1, <4>1
    <3> QED
      BY <1>1, <2>1, <2>2, <3>1, <3>2, <3>3
  <2>3. CASE ~(stream.file + 1 < Files("train"))
    <3>1. stream'.file = 0 /\ stream'.at = 1
      BY <2>1, <2>3
    <3> QED
      BY <1>0, <1>1, <2>1, <3>1
  <2> QED
    BY <2>2, <2>3
<1>7. CASE YieldSequence
  <2>1. stream # Down /\ stream'.file = stream.file /\ stream'.at = stream.at /\ state' = state
    BY <1>7, YieldEffect
  <2> QED
    BY <1>1, <2>1
<1>8. CASE CommitStep
  <2>1. stream # Down /\ stream'.file = stream.file /\ stream'.at = stream.at /\ state' = state
    BY <1>8, CommitEffect
  <2> QED
    BY <1>1, <2>1
<1>9. CASE RecordState
  <2>1. /\ stream # Down
        /\ stream' # Down => stream'.file = stream.file /\ stream'.at = stream.at
        /\ state' = state \/ (state'.file = stream.file /\ state'.buffer = Remainder(stream.buffer))
    BY <1>9, RecordEffect
  <2>2. Len(Remainder(stream.buffer)) <= SeqLen
    BY <1>2, <2>1, RemainderIs
  <2> QED
    BY <1>1, <2>1, <2>2
<1>10. CASE StreamCrash
  BY <1>1, <1>10, StreamCrashEffect
<1> QED
  BY <1>4, <1>5, <1>6, <1>7, <1>8, <1>9, <1>10 DEF StreamStep

LEMMA StepsCountedKept ==
  ASSUME StreamTypes, StreamPlaced, StepsCounted, StreamStep \/ StreamCrash
  PROVE  StepsCounted'
<1> DEFINE e == StateEvery
           L == Len(updates)
           lost(n) == n * StateEvery
           due == NextDue
<1>0. /\ e \in Nat \ {0} /\ StreamSteps \in Nat \ {0} /\ launches \in Nat
      /\ state.step \in Nat /\ L \in Nat
      /\ stream # Down => stream.step \in Nat /\ stream.doing \in {"read", "record"}
  BY StreamConstants, StreamOrDown DEF StreamTypes
<1>1. /\ state.step <= L /\ state.step <= StreamSteps
      /\ stream = Down => L <= state.step + lost(launches)
      /\ stream # Down =>
           /\ launches > 0 /\ state.step < StreamSteps
           /\ L <= stream.step + lost(launches - 1)
           /\ state.step <= stream.step /\ stream.step <= L /\ stream.step <= StreamSteps
           /\ IF stream.doing = "record" THEN stream.step <= due
              ELSE stream.step < due /\ stream.step < StreamSteps
  BY DEF StepsCounted
<1>2. /\ lost(launches) \in Nat /\ lost(launches + 1) = lost(launches) + e
      /\ lost(launches + 1 - 1) = lost(launches)
      /\ launches > 0 => lost(launches - 1) \in Nat /\ lost(launches) = lost(launches - 1) + e
  BY <1>0, OneMore
<1>3. SUFFICES
        /\ state'.step <= Len(updates') /\ state'.step <= StreamSteps
        /\ stream' = Down => Len(updates') <= state'.step + lost(launches')
        /\ stream' # Down =>
             /\ launches' > 0 /\ state'.step < StreamSteps
             /\ Len(updates') <= stream'.step + lost(launches' - 1)
             /\ state'.step <= stream'.step /\ stream'.step <= Len(updates')
             /\ stream'.step <= StreamSteps
             /\ IF stream'.doing = "record" THEN stream'.step <= due'
                ELSE stream'.step < due' /\ stream'.step < StreamSteps
  BY DEF StepsCounted
<1>d. /\ due \in Nat /\ due % e = 0 /\ state.step < due /\ due <= state.step + e
      /\ state' = state => due' = due
  BY <1>0, NextMultiple DEF NextDue
<1> HIDE DEF e, L, lost, due
<1>4. CASE LaunchStream
  <2>1. /\ stream = Down /\ state.step < StreamSteps
        /\ stream' # Down /\ stream'.doing = "read" /\ stream'.step = state.step
        /\ launches' = launches + 1 /\ state' = state /\ Len(updates') = L
    BY <1>4, LaunchEffect DEF L
  <2>2. L <= stream'.step + lost(launches' - 1)
    <3>1. launches' - 1 = launches
      BY <1>0, <2>1
    <3> QED
      BY <1>1, <2>1, <3>1
  <2>3. stream'.step < due' /\ launches' > 0
    BY <1>0, <1>d, <2>1
  <2>4. state'.step <= stream'.step /\ stream'.step <= StreamSteps /\ stream'.doing # "record"
    BY <1>0, <1>1, <2>1
  <2> QED
    BY <1>1, <2>1, <2>2, <2>3, <2>4
<1>5. CASE ReadRow \/ EndFile \/ YieldSequence
  <2>1. /\ stream # Down /\ stream' # Down /\ stream.doing = "read" /\ stream'.doing = "read"
        /\ stream'.step = stream.step /\ launches' = launches /\ state' = state /\ Len(updates') = L
    BY <1>5, ReadRowEffect, EndFileEffect, YieldEffect DEF L
  <2> QED
    BY <1>1, <1>d, <2>1
<1>6. CASE CommitStep
  <2>1. /\ stream # Down /\ stream' # Down /\ stream.doing = "read" /\ stream'.doing = "record"
        /\ stream'.step = stream.step + 1 /\ launches' = launches /\ state' = state
        /\ updates' = Append(updates, traces)
    BY <1>6, CommitEffect
  <2>2. Len(updates') = L + 1
    BY <2>1, RangeOfAppend DEF L, StreamTypes
  <2>3. lost(launches - 1) \in Nat
    BY <1>1, <1>2, <2>1
  <2> QED
    BY SMTT(30), <1>0, <1>1, <1>d, <2>1, <2>2, <2>3
<1>7. CASE RecordState
  <2>1. /\ stream # Down /\ stream.doing = "record" /\ launches' = launches /\ Len(updates') = L
        /\ IF Recorded THEN state'.step = stream.step ELSE state' = state
        /\ IF stream.step = StreamSteps THEN stream' = Down
           ELSE stream' # Down /\ stream'.doing = "read" /\ stream'.step = stream.step
    BY <1>7, RecordEffect DEF L
  <2>2. Recorded <=> \/ stream.step % e = 0 \/ stream.step % SaveEvery = 0
                     \/ stream.step = StreamSteps
    BY DEF Recorded, e
  <2>3. /\ launches > 0 /\ lost(launches - 1) \in Nat /\ lost(launches) = lost(launches - 1) + e
        /\ stream.step \in Nat /\ stream.step <= due
    BY <1>0, <1>1, <1>2, <2>1
  <2>4. CASE Recorded
    <3>1. state'.step = stream.step
      BY <2>1, <2>4
    <3>2. stream'.step < due' \/ stream' = Down
      <4>1. due' = e * ((stream.step \div e) + 1)
        BY <3>1 DEF due, e, NextDue
      <4>2. stream.step < e * ((stream.step \div e) + 1)
        BY <1>0, <2>3, NextMultiple
      <4> QED
        BY <2>1, <4>1, <4>2
    <3>3. L <= stream.step + lost(launches)
      BY <1>0, <1>1, <2>1, <2>3
    <3>4. CASE stream.step = StreamSteps
      BY <1>1, <2>1, <3>1, <3>3, <3>4
    <3>5. CASE stream.step # StreamSteps
      <4>1. stream.step < StreamSteps
        BY <1>0, <1>1, <2>1, <2>3, <3>5
      <4> QED
        BY <1>1, <2>1, <2>3, <3>1, <3>2, <3>5, <4>1
    <3> QED
      BY <3>4, <3>5
  <2>5. CASE ~Recorded
    <3>1. state' = state /\ stream.step % e # 0 /\ stream.step # StreamSteps
      BY <2>1, <2>2, <2>5
    <3>2. stream.step < due
      BY <1>0, <1>d, <2>3, <3>1
    <3>3. stream.step < StreamSteps
      BY <1>0, <1>1, <2>1, <3>1
    <3> QED
      BY <1>1, <1>d, <2>1, <3>1, <3>2, <3>3
  <2> QED
    BY <2>4, <2>5
<1>8. CASE StreamCrash
  <2>1. stream # Down /\ stream' = Down /\ launches' = launches /\ state' = state /\ Len(updates') = L
    BY <1>8, StreamCrashEffect DEF L
  <2>2. /\ launches > 0 /\ lost(launches - 1) \in Nat /\ lost(launches) = lost(launches - 1) + e
    BY <1>1, <1>2, <2>1
  <2>3. stream.step <= state.step + e
    BY <1>0, <1>1, <1>d, <2>1
  <2> QED
    BY <1>0, <1>1, <2>1, <2>2, <2>3
<1> QED
  BY <1>4, <1>5, <1>6, <1>7, <1>8 DEF StreamStep

-------------------------------------------------------------------------------
\* What is trained on, and what the step being taken has.

LEMMA FedGrows ==
  ASSUME StreamTypes, CommitStep
  PROVE  Fed' = Fed \cup Traced
<1> DEFINE S == Seq(StreamTokens)
           L == Len(updates)
           InStep(u) == UNION {Range(u[m]) : m \in 1..MicroBatches}
<1>0. traces \in Seq(S) /\ updates \in Seq(Seq(S)) /\ Len(traces) = MicroBatches
  BY CommitEffect DEF StreamTypes
<1>1. updates' = Append(updates, traces)
  BY CommitEffect
<1>2. /\ DOMAIN updates' = 1..(L + 1) /\ DOMAIN updates = 1..L /\ L \in Nat
      /\ \A n \in 1..L : updates'[n] = updates[n] /\ updates'[L + 1] = traces
  <2>1. /\ DOMAIN updates' = 1..(L + 1) /\ DOMAIN updates = 1..L /\ L \in Nat
        /\ \A n \in 1..L : updates'[n] = updates[n]
        /\ updates'[L + 1] = traces
    BY <1>0, <1>1, RangeOfAppend
  <2> QED
    BY <2>1
<1>3. updates'[L + 1] = traces
  BY <1>0, <1>1, RangeOfAppend
<1>4. Traced = InStep(traces)
  <2>1. DOMAIN traces = 1..MicroBatches
    BY <1>0, LenProperties
  <2> QED
    BY <2>1 DEF Traced, Text
<1>5. Fed = UNION {InStep(updates[n]) : n \in 1..L}
  BY <1>2 DEF Fed
<1>6. Fed' = UNION {InStep(updates'[n]) : n \in 1..(L + 1)}
  BY <1>2 DEF Fed
<1>7. 1..(L + 1) = 1..L \cup {L + 1}
  BY <1>2
<1> HIDE DEF InStep, L
<1>8. Fed' = (UNION {InStep(updates'[n]) : n \in 1..L}) \cup InStep(updates'[L + 1])
  BY <1>6, <1>7
<1>9. {InStep(updates'[n]) : n \in 1..L} = {InStep(updates[n]) : n \in 1..L}
  BY <1>2
<1> QED
  BY <1>3, <1>4, <1>5, <1>8, <1>9

LEMMA TracedGrows ==
  ASSUME NEW S, NEW blocks \in Seq(Seq(S)), NEW block \in Seq(S)
  PROVE  Text(Append(blocks, block)) = Text(blocks) \cup Range(block)
<1> DEFINE more == Append(blocks, block)
           n    == Len(blocks)
<1>1. /\ DOMAIN more = 1..(n + 1) /\ DOMAIN blocks = 1..n /\ n \in Nat
      /\ \A i \in 1..n : more[i] = blocks[i]
      /\ more[n + 1] = block
  BY RangeOfAppend
<1>2. 1..(n + 1) = 1..n \cup {n + 1}
  BY <1>1
<1> HIDE DEF more, n
<1>3. Text(more) = (UNION {Range(more[i]) : i \in 1..n}) \cup Range(more[n + 1])
  BY <1>1, <1>2 DEF Text
<1>4. {Range(more[i]) : i \in 1..n} = {Range(blocks[i]) : i \in 1..n}
  BY <1>1
<1> QED
  BY <1>1, <1>3, <1>4 DEF Text, more

LEMMA NoTraces == Text(<<>>) = {}
<1>1. DOMAIN <<>> = {}
  OBVIOUS
<1> QED
  BY <1>1 DEF Text

LEMMA StreamBeforeNext ==
  ASSUME NEW epoch \in Nat, NEW i \in Nat \ {0}
  PROVE  /\ StreamBefore(epoch, i + 1)
              = StreamBefore(epoch, i) \cup ({epoch} \X Range(Encoded("train", i, 1)))
         /\ StreamBefore(epoch + 1, 1) = StreamBefore(epoch, Len(AllRows) + 1)
<1>1. TokensBefore("train", i + 1, 1)
        = TokensBefore("train", i, 1) \cup Range(Encoded("train", i, 1))
  BY TokensOfNextRow
<1>2. TokensBefore("train", 1, 1) = {}
  BY FirstTokens
<1>3. 0..(epoch + 1 - 1) = 0..(epoch - 1) \cup {epoch}
  OBVIOUS
<1> DEFINE all == TokensBefore("train", Len(AllRows) + 1, 1)
<1>4. (0..(epoch + 1 - 1)) \X all = ((0..(epoch - 1)) \X all) \cup ({epoch} \X all)
  BY <1>3, Zenon
<1>5. {epoch + 1} \X {} = {}
  OBVIOUS
<1>6. {epoch} \X TokensBefore("train", i + 1, 1)
        = ({epoch} \X TokensBefore("train", i, 1)) \cup ({epoch} \X Range(Encoded("train", i, 1)))
  BY <1>1, Zenon
<1> QED
  BY <1>2, <1>4, <1>5, <1>6 DEF StreamBefore

LEMMA StreamKeptKept ==
  ASSUME StreamTypes, StreamPlaced, StreamKept, StreamStep \/ StreamCrash
  PROVE  StreamKept'
<1> DEFINE n     == Len(AllRows)
           Begin == RowFrom("train", stream.file, 0)
           First == {stream.buffer[k] : k \in DOMAIN stream.buffer \cap 1..SeqLen}
<1>0. /\ n \in Nat \ {0} /\ End("train") = n + 1 /\ Files("train") \in Nat \ {0}
      /\ SeqLen \in Nat \ {0} /\ MicroBatches \in Nat \ {0}
  <2>1. /\ Len(Rows["train"]) \in Nat \ {0} /\ End("train") \in Nat \ {0}
        /\ \A i \in 1..Len(Rows["train"]) : Rows["train"][i].file \in Nat
    BY RowsTyped, StreamConstants
  <2> QED
    BY <2>1, StreamConstants DEF End, AllRows, Files
<1>1. StreamBefore(state.epoch, RowFrom("train", state.file, 0)) \subseteq Fed \cup Range(state.buffer)
  BY DEF StreamKept, StreamSkipsNothing
<1>2. stream # Down =>
        /\ StreamBefore(stream.epoch, stream.at) \subseteq Fed \cup Traced \cup Range(stream.buffer)
        /\ InFile \subseteq Fed \cup Traced \cup First
        /\ stream.doing = "record" \/ Len(traces) = MicroBatches => InFile \subseteq Fed \cup Traced
  BY DEF StreamKept
<1>3. /\ stream # Down => /\ stream.epoch \in Nat /\ stream.file \in Nat /\ stream.at \in Nat \ {0}
                          /\ stream.buffer \in Seq(StreamTokens)
      /\ state.file \in Nat /\ state.epoch \in Nat /\ state.buffer \in Seq(StreamTokens)
  BY StreamOrDown
<1>4. traces \in Seq(Seq(StreamTokens)) /\ updates \in Seq(Seq(Seq(StreamTokens)))
  BY DEF StreamTypes
<1>5. SUFFICES
        /\ StreamBefore(state'.epoch, RowFrom("train", state'.file, 0))
             \subseteq Fed' \cup Range(state'.buffer)
        /\ stream' # Down =>
             /\ StreamBefore(stream'.epoch, stream'.at)
                  \subseteq Fed' \cup Traced' \cup Range(stream'.buffer)
             /\ InFile' \subseteq Fed' \cup Traced'
                          \cup {stream'.buffer[k] : k \in DOMAIN stream'.buffer \cap 1..SeqLen}
             /\ stream'.doing = "record" \/ Len(traces') = MicroBatches
                  => InFile' \subseteq Fed' \cup Traced'
  BY DEF StreamKept, StreamSkipsNothing
<1>6. /\ InFile = StreamBefore(stream.epoch, Begin)
      /\ InFile' = StreamBefore(stream'.epoch, RowFrom("train", stream'.file, 0))
  BY DEF InFile
<1>7. updates' = updates => Fed' = Fed
  BY DEF Fed
<1>8. traces' = traces => Traced' = Traced
  BY DEF Traced
<1>9. traces' = <<>> => Traced' = {} /\ Len(traces') = 0
  BY NoTraces DEF Traced
<1> HIDE DEF n, Begin
<1>10. CASE LaunchStream
  <2>1. /\ stream'.epoch = state.epoch /\ stream'.file = state.file
        /\ stream'.at = RowFrom("train", state.file, 0)
        /\ stream'.buffer = state.buffer /\ stream'.doing = "read"
        /\ traces' = <<>> /\ state' = state /\ updates' = updates
    BY <1>10, LaunchEffect
  <2>2. Range(state.buffer) = {state.buffer[k] : k \in DOMAIN state.buffer \cap 1..SeqLen}
    <3>1. Len(state.buffer) <= SeqLen
      BY DEF StreamPlaced
    <3>2. DOMAIN state.buffer = 1..Len(state.buffer) /\ Len(state.buffer) \in Nat
      BY <1>3, LenProperties
    <3>3. DOMAIN state.buffer \cap 1..SeqLen = DOMAIN state.buffer
      BY <1>0, <3>1, <3>2
    <3> QED
      BY <3>3 DEF Range
  <2>3. Fed' = Fed /\ Traced' = {} /\ Len(traces') # MicroBatches
    BY <1>0, <1>7, <1>9, <2>1
  <2>4. InFile' = StreamBefore(state.epoch, RowFrom("train", state.file, 0))
    BY <1>6, <2>1
  <2>5. StreamBefore(stream'.epoch, stream'.at)
          = StreamBefore(state.epoch, RowFrom("train", state.file, 0))
    BY <2>1
  <2> HIDE DEF First
  <2> QED
    BY <1>1, <2>1, <2>2, <2>3, <2>4, <2>5
<1>11. CASE ReadRow
  <2> DEFINE ids == Encoded("train", stream.at, 1)
  <2>1. /\ stream # Down /\ Len(traces) < MicroBatches
        /\ stream'.doing = "read" /\ stream'.epoch = stream.epoch /\ stream'.file = stream.file
        /\ stream'.at = stream.at + 1
        /\ Range(stream'.buffer) = Range(stream.buffer) \cup ({stream.epoch} \X Range(ids))
        /\ DOMAIN stream.buffer \subseteq DOMAIN stream'.buffer
        /\ \A k \in DOMAIN stream.buffer : stream'.buffer[k] = stream.buffer[k]
        /\ UNCHANGED <<traces, state, launches, updates>>
    BY <1>11, ReadRowEffect
  <2>2. StreamBefore(stream'.epoch, stream'.at)
          = StreamBefore(stream.epoch, stream.at) \cup ({stream.epoch} \X Range(ids))
    <3>1. stream.epoch \in Nat /\ stream.at \in Nat \ {0}
      BY <1>3, <2>1
    <3>2. StreamBefore(stream.epoch, stream.at + 1)
            = StreamBefore(stream.epoch, stream.at) \cup ({stream.epoch} \X Range(ids))
      BY <3>1, StreamBeforeNext
    <3> QED
      BY <2>1, <3>2
  <2>3. First \subseteq {stream'.buffer[k] : k \in DOMAIN stream'.buffer \cap 1..SeqLen}
    BY <2>1
  <2>4. Fed' = Fed /\ Traced' = Traced /\ Len(traces') # MicroBatches
    <3>1. Len(traces) \in Nat
      BY <1>4, LenProperties
    <3> QED
      BY <1>0, <1>7, <1>8, <2>1, <3>1
  <2>5. InFile' = InFile
    BY <1>6, <2>1 DEF Begin
  <2> HIDE DEF ids, First
  <2>6. StreamBefore(stream'.epoch, stream'.at) \subseteq Fed' \cup Traced' \cup Range(stream'.buffer)
    BY <1>2, <2>1, <2>2, <2>4
  <2>7. InFile' \subseteq Fed' \cup Traced'
                  \cup {stream'.buffer[k] : k \in DOMAIN stream'.buffer \cap 1..SeqLen}
    BY <1>2, <2>1, <2>3, <2>4, <2>5
  <2> QED
    BY <1>1, <2>1, <2>4, <2>6, <2>7
<1>12. CASE EndFile
  <2>1. /\ stream # Down /\ stream.doing = "read" /\ Len(traces) < MicroBatches
        /\ ~PacksOne(stream.buffer)
        /\ stream.at <= n => AllRows[stream.at].file # stream.file
        /\ stream'.doing = "read" /\ stream'.buffer = stream.buffer
        /\ IF stream.file + 1 < Files("train")
           THEN /\ stream'.epoch = stream.epoch /\ stream'.file = stream.file + 1
                /\ stream'.at = stream.at
           ELSE stream'.epoch = stream.epoch + 1 /\ stream'.file = 0 /\ stream'.at = 1
        /\ UNCHANGED <<traces, state, launches, updates>>
    BY <1>12, EndFileEffect DEF n
  <2>2. Range(stream.buffer) = {stream.buffer[k] : k \in DOMAIN stream.buffer \cap 1..SeqLen}
    <3>1. DOMAIN stream.buffer = 1..Len(stream.buffer) /\ Len(stream.buffer) \in Nat
      BY <1>3, <2>1, LenProperties
    <3>2. DOMAIN stream.buffer \cap 1..SeqLen = DOMAIN stream.buffer
      BY <1>0, <2>1, <3>1 DEF PacksOne
    <3> QED
      BY <3>2 DEF Range
  <2>3. Fed' = Fed /\ Traced' = Traced /\ Len(traces') # MicroBatches
    <3>1. Len(traces) \in Nat
      BY <1>4, LenProperties
    <3> QED
      BY <1>0, <1>7, <1>8, <2>1, <3>1
  <2>4. /\ stream.file < Files("train") /\ stream.at <= n + 1
        /\ \A i \in 1..(stream.at - 1) : AllRows[i].file <= stream.file
        /\ \A i \in stream.at..n : AllRows[i].file >= stream.file
    BY <2>1 DEF StreamPlaced, n
  <2>5. \A i \in 1..n : /\ AllRows[i].file \in Nat /\ AllRows[i].file < Files("train")
                        /\ \A j \in 1..n : i <= j => AllRows[i].file <= AllRows[j].file
    <3>1. \A i \in 1..n : AllRows[i].file \in Nat
      BY RowsTyped, StreamConstants DEF AllRows, n
    <3>2. \A i \in 1..n, j \in 1..n : i <= j => AllRows[i].file <= AllRows[j].file
                                               /\ AllRows[j].file < Files("train")
      BY FilesAscend, StreamConstants DEF AllRows, n
    <3>3. \A i \in 1..n : i <= i
      BY <1>0
    <3> QED
      BY <3>1, <3>2, <3>3
  <2>6. \A i \in stream.at..n : AllRows[i].file >= stream.file + 1
    <3> TAKE i \in stream.at..n
    <3>1. stream.at \in 1..n /\ i \in 1..n /\ stream.at <= i /\ stream.at \in stream.at..n
      BY SMTT(30), <1>0, <1>3, <2>1
    <3>2. AllRows[stream.at].file >= stream.file /\ AllRows[stream.at].file # stream.file
      BY <2>1, <2>4, <3>1
    <3>3. AllRows[stream.at].file <= AllRows[i].file
      BY <2>5, <3>1
    <3> QED
      BY SMTT(30), <1>3, <2>1, <2>5, <3>1, <3>2, <3>3
  <2>7. InFile' = StreamBefore(stream.epoch, stream.at)
        /\ StreamBefore(stream'.epoch, stream'.at) = StreamBefore(stream.epoch, stream.at)
    <3>1. CASE stream.file + 1 < Files("train")
      <4>1. /\ stream'.epoch = stream.epoch /\ stream'.file = stream.file + 1
            /\ stream'.at = stream.at
        BY <2>1, <3>1
      <4>2. \A i \in 1..(stream.at - 1) : AllRows[i].file < stream.file + 1
        <5> TAKE i \in 1..(stream.at - 1)
        <5>1. i \in 1..n
          BY <1>0, <1>3, <2>1, <2>4
        <5> QED
          BY <1>3, <2>1, <2>4, <2>5, <5>1
      <4>3. stream.at \in 1..End("train") /\ stream.file + 1 \in Nat
        BY <1>0, <1>3, <2>1, <2>4
      <4>4. RowFrom("train", stream.file + 1, 0) = stream.at
        BY <2>6, <4>2, <4>3, FileBeginsAt, StreamConstants DEF AllRows, n
      <4> QED
        BY <1>6, <4>1, <4>4
    <3>2. CASE ~(stream.file + 1 < Files("train"))
      <4>1. stream'.epoch = stream.epoch + 1 /\ stream'.file = 0 /\ stream'.at = 1
        BY <2>1, <3>2
      <4>2. stream.at = n + 1
        <5> SUFFICES ASSUME stream.at # n + 1 PROVE FALSE
          OBVIOUS
        <5>1. stream.at \in stream.at..n /\ stream.at \in 1..n
          BY SMTT(30), <1>0, <1>3, <2>1, <2>4
        <5>2. AllRows[stream.at].file >= stream.file + 1 /\ AllRows[stream.at].file < Files("train")
              /\ AllRows[stream.at].file \in Nat
          BY <2>5, <2>6, <5>1
        <5> QED
          BY <1>0, <1>3, <2>1, <2>4, <3>2, <5>2
      <4>3. \A i \in 1..n : AllRows[i].file >= 0
        BY <2>5
      <4>4. 1..(1 - 1) = {} /\ 1 \in 1..End("train")
        BY <1>0
      <4>5. RowFrom("train", 0, 0) = 1
        BY <4>3, <4>4, FileBeginsAt, StreamConstants DEF AllRows, n
      <4>6. StreamBefore(stream.epoch + 1, 1) = StreamBefore(stream.epoch, n + 1)
        BY <1>3, <2>1, <4>4, StreamBeforeNext DEF n
      <4> QED
        BY <1>6, <4>1, <4>2, <4>5, <4>6
    <3> QED
      BY <3>1, <3>2
  <2> QED
    BY <1>1, <1>2, <2>1, <2>2, <2>3, <2>7
<1>13. CASE YieldSequence
  <2> DEFINE b == stream.buffer
  <2>1. /\ stream # Down /\ PacksOne(b) /\ b \in Seq(StreamTokens)
        /\ traces' = Append(traces, Packed(b)) /\ Packed(b) \in Seq(StreamTokens)
        /\ stream'.epoch = stream.epoch /\ stream'.file = stream.file
        /\ stream'.at = stream.at /\ stream'.buffer = AfterPack(b)
        /\ UNCHANGED <<state, launches, updates>>
    BY <1>13, YieldEffect
  <2>2. Range(b) = Range(Packed(b)) \cup Range(AfterPack(b)) /\ First \subseteq Range(Packed(b))
    BY <2>1, RangeOfPacked
  <2>3. Traced' = Traced \cup Range(Packed(b)) /\ Fed' = Fed
    BY <1>4, <1>7, <2>1, TracedGrows DEF Traced
  <2>4. InFile' = InFile
    BY <1>6, <2>1 DEF Begin
  <2> HIDE DEF b, First
  <2>5. InFile' \subseteq Fed' \cup Traced'
    BY <1>2, <2>1, <2>2, <2>3, <2>4
  <2>6. StreamBefore(stream'.epoch, stream'.at) \subseteq Fed' \cup Traced' \cup Range(stream'.buffer)
    BY <1>2, <2>1, <2>2, <2>3 DEF b
  <2> QED
    BY <1>1, <2>1, <2>3, <2>5, <2>6
<1>14. CASE CommitStep
  <2>1. /\ stream # Down /\ Len(traces) = MicroBatches /\ traces' = <<>>
        /\ stream'.epoch = stream.epoch /\ stream'.file = stream.file
        /\ stream'.at = stream.at /\ stream'.buffer = stream.buffer
        /\ UNCHANGED <<state, launches>>
    BY <1>14, CommitEffect
  <2>2. Fed' = Fed \cup Traced /\ Traced' = {}
    BY <1>9, <1>14, <2>1, FedGrows
  <2>3. InFile' = InFile
    BY <1>6, <2>1 DEF Begin
  <2> HIDE DEF First
  <2> QED
    BY <1>1, <1>2, <2>1, <2>2, <2>3
<1>15. CASE RecordState
  <2>1. /\ stream # Down /\ stream.doing = "record" /\ UNCHANGED <<traces, launches, updates>>
        /\ state' # state => state'.epoch = stream.epoch /\ state'.file = stream.file
        /\ stream' # Down =>
             /\ stream'.doing = "read" /\ stream'.epoch = stream.epoch
             /\ stream'.file = stream.file /\ stream'.at = stream.at
             /\ stream'.buffer = stream.buffer
    BY <1>15, RecordEffect
  <2>2. traces = <<>>
    BY <2>1 DEF StreamTypes
  <2>3. Fed' = Fed /\ Traced' = {} /\ Traced = {} /\ Len(traces') # MicroBatches
    BY <1>0, <1>7, <1>8, <1>9, <2>1, <2>2
  <2>4. InFile \subseteq Fed
    BY <1>2, <2>1, <2>3
  <2>5. StreamBefore(state'.epoch, RowFrom("train", state'.file, 0))
          \subseteq Fed' \cup Range(state'.buffer)
    <3>1. CASE state' = state
      BY <1>1, <2>3, <3>1
    <3>2. CASE state' # state
      <4>1. StreamBefore(state'.epoch, RowFrom("train", state'.file, 0)) = InFile
        BY <1>6, <2>1, <3>2 DEF Begin
      <4> QED
        BY <2>3, <2>4, <4>1
    <3> QED
      BY <3>1, <3>2
  <2>6. stream' # Down => InFile' = InFile
    BY <1>6, <2>1 DEF Begin
  <2> HIDE DEF First
  <2>7. stream' # Down => StreamBefore(stream'.epoch, stream'.at)
                            \subseteq Fed' \cup Traced' \cup Range(stream'.buffer)
    BY <1>2, <2>1, <2>3
  <2> QED
    BY <2>1, <2>3, <2>4, <2>5, <2>6, <2>7
<1>16. CASE StreamCrash
  <2>1. stream' = Down /\ UNCHANGED <<state, launches, updates>>
    BY <1>16, StreamCrashEffect
  <2> QED
    BY <1>1, <1>7, <2>1
<1> QED
  BY <1>10, <1>11, <1>12, <1>13, <1>14, <1>15, <1>16 DEF StreamStep

LEMMA StreamStarts ==
  ASSUME StreamInit
  PROVE  StreamInv
<1>1. /\ stream = Down /\ traces = <<>> /\ launches = 0 /\ updates = <<>>
      /\ state = [step |-> 0, epoch |-> 0, file |-> 0, buffer |-> <<>>]
  BY DEF StreamInit
<1>2. stream.doing = "down" /\ Len(<<>>) = 0 /\ DOMAIN <<>> = {}
  BY <1>1 DEF Down
<1>3. \A S : <<>> \in Seq(S)
  BY EmptySeq
<1>4. StreamTypes
  <2>1. state \in [step : Nat, epoch : Nat, file : Nat, buffer : Seq(StreamTokens)]
    BY <1>1, <1>3
  <2>2. traces \in Seq(Seq(StreamTokens)) /\ updates \in Seq(Seq(Seq(StreamTokens)))
    BY <1>1, <1>3
  <2>3. Len(traces) <= MicroBatches /\ DOMAIN updates = {} /\ launches \in Nat
    BY <1>1, <1>2, StreamConstants
  <2> QED
    BY <1>1, <2>1, <2>2, <2>3 DEF StreamTypes
<1>5. Files("train") \in Nat \ {0}
  BY FilesTyped, StreamConstants
<1>6. StreamPlaced
  BY <1>1, <1>2, <1>5, StreamConstants DEF StreamPlaced
<1>7. StepsCounted
  <2>1. 0 * StateEvery = 0
    BY StreamConstants
  <2>2. state.step = 0 /\ Len(updates) = 0
    BY <1>1, <1>2
  <2> QED
    BY <1>1, <2>1, <2>2, StreamConstants DEF StepsCounted
<1>8. StreamKept
  <2>1. \A i \in 1..Len(Rows["train"]) : Rows["train"][i].file >= 0
    BY SMTT(30), RowsTyped, StreamConstants
  <2>2. 1..(1 - 1) = {} /\ 0..(0 - 1) = {}
    OBVIOUS
  <2>3. 1 \in 1..End("train") /\ 0 \in Nat
    BY RowsTyped, StreamConstants
  <2>4. RowFrom("train", 0, 0) = 1
    BY <2>1, <2>2, <2>3, FileBeginsAt, StreamConstants
  <2>5. TokensBefore("train", 1, 1) = {}
    BY FirstTokens
  <2>6. StreamBefore(0, 1) = {}
    <3>1. {} \X TokensBefore("train", Len(AllRows) + 1, 1) = {} /\ {0} \X {} = {}
      OBVIOUS
    <3> QED
      BY <2>2, <2>5, <3>1 DEF StreamBefore
  <2>7. StreamSkipsNothing
    BY <1>1, <2>4, <2>6 DEF StreamSkipsNothing
  <2> QED
    BY <1>1, <2>7 DEF StreamKept
<1> QED
  BY <1>4, <1>6, <1>7, <1>8 DEF StreamInv

LEMMA StreamSame ==
  ASSUME StreamInv, UNCHANGED streamVars
  PROVE  StreamInv'
<1>1. UNCHANGED <<stream, traces, state, launches, updates>>
  BY DEF streamVars
<1>2. StreamTypes'
  BY <1>1 DEF StreamInv, StreamTypes
<1>3. StreamPlaced'
  BY <1>1 DEF StreamInv, StreamPlaced
<1>4. StepsCounted'
  BY <1>1 DEF StreamInv, StepsCounted, NextDue
<1>5. Fed' = Fed /\ Traced' = Traced /\ InFile' = InFile
  BY <1>1 DEF Fed, Traced, InFile
<1>6. StreamKept'
  BY <1>1, <1>5 DEF StreamInv, StreamKept, StreamSkipsNothing
<1> QED
  BY <1>2, <1>3, <1>4, <1>6 DEF StreamInv

\* The steps of the other programs leave the stream alone.
LEMMA StreamAlone ==
  ASSUME [Next]_vars
  PROVE  StreamStep \/ StreamCrash \/ UNCHANGED streamVars
<1>1. CASE Next
  BY <1>1 DEF Next, PackedProgram, ParquetProgram, TrainingCrash
<1>2. CASE UNCHANGED vars
  BY <1>2 DEF vars
<1> QED
  BY <1>1, <1>2

THEOREM StreamInvariant == Spec => []StreamInv
<1>1. Init => StreamInv
  BY StreamStarts DEF Init
<1>2. StreamInv /\ [Next]_vars => StreamInv'
  <2> SUFFICES ASSUME StreamInv, [Next]_vars
               PROVE  StreamInv'
    OBVIOUS
  <2>1. CASE StreamStep \/ StreamCrash
    BY <2>1, StreamTypesKept, StreamPlacedKept, StepsCountedKept, StreamKeptKept DEF StreamInv
  <2>2. CASE UNCHANGED streamVars
    BY <2>2, StreamSame
  <2> QED
    BY <2>1, <2>2, StreamAlone
<1> QED
  BY <1>1, <1>2, PTL DEF Spec

\* The C4 stream never skips text: whenever it is stopped and resumed, what is ahead of the
\* recorded file was trained on or is in the recorded remainder.
THEOREM StreamSkipsNothingAlways == Spec => []StreamSkipsNothing
<1>1. StreamInv => StreamSkipsNothing
  BY DEF StreamInv, StreamKept
<1> QED
  BY <1>1, StreamInvariant, PTL

\* A launch leaves at most trainer_state_every updates that the record does not count.
THEOREM RepeatedStepsAlwaysBounded == Spec => []RepeatedStepsBounded
<1>1. ASSUME StreamInv
      PROVE  RepeatedStepsBounded
  <2>1. StepsCounted /\ StreamTypes
    BY <1>1 DEF StreamInv
  <2>2. state.step <= Len(updates)
    BY <2>1 DEF StepsCounted
  <2>3. CASE stream = Down
    BY <2>1, <2>2, <2>3 DEF StepsCounted, RepeatedStepsBounded
  <2>4. CASE stream # Down
    <3> DEFINE before == (launches - 1) * StateEvery
               lost   == launches * StateEvery
    <3>1. /\ launches > 0 /\ Len(updates) <= stream.step + before
          /\ IF stream.doing = "record" THEN stream.step <= NextDue ELSE stream.step < NextDue
      BY <2>1, <2>4 DEF StepsCounted
    <3>2. /\ launches \in Nat /\ stream.step \in Nat /\ state.step \in Nat /\ Len(updates) \in Nat
          /\ StateEvery \in Nat
      BY <2>1, <2>4, StreamOrDown, StreamConstants DEF StreamTypes
    <3>3. before \in Nat /\ lost = before + StateEvery
      BY <3>1, <3>2, OneMore
    <3>d. NextDue \in Nat /\ NextDue <= state.step + StateEvery
      BY <3>2, NextMultiple, StreamConstants DEF NextDue
    <3> HIDE DEF before, lost
    <3>4. Len(updates) <= state.step + lost
      BY <3>d, <3>1, <3>2, <3>3
    <3> QED
      BY <2>2, <3>4 DEF RepeatedStepsBounded, lost
  <2> QED
    BY <2>3, <2>4
<1> QED
  BY <1>1, StreamInvariant, PTL

-------------------------------------------------------------------------------
(* The tokenizer *)

\* The fields of a job and of recorded progress.
LEMMA JobFields ==
  ASSUME NEW j \in Jobs
  PROVE  /\ j # Idle
         /\ j.doing \in {"rows", "save", "replace", "progress", "returned"} /\ j.split \in Splits
         /\ j.base \in Nat \ {0} /\ j.at \in Nat \ {0} /\ j.docs \in Nat
         /\ j.buffer \in Blocks /\ j.blocks \in Seq(Blocks)
<1>1. /\ j.doing \in {"rows", "save", "replace", "progress", "returned"} /\ j.split \in Splits
      /\ j.base \in Nat \ {0} /\ j.at \in Nat \ {0} /\ j.docs \in Nat
      /\ j.buffer \in Blocks /\ j.blocks \in Seq(Blocks)
  BY DEF Jobs
<1>2. Idle.doing = "idle"
  BY DEF Idle
<1> QED
  BY <1>1, <1>2

LEMMA Working ==
  ASSUME TokenizeTypes, job # Idle
  PROVE  job \in Jobs
BY DEF TokenizeTypes

LEMMA WorkingNotIdle ==
  ASSUME TokenizeTypes, job.doing # "idle"
  PROVE  job # Idle
BY DEF Idle

LEMMA ProgressTyped ==
  ASSUME TokenizeTypes, NEW split \in Splits
  PROVE  /\ progress[split] \in Progress /\ shards[split] \in Shards
         /\ progress[split].file \in Nat /\ progress[split].batch \in Nat
         /\ progress[split].buffer \in Blocks /\ progress[split].cut \in BOOLEAN
         /\ Start(split, progress[split]) \in 1..End(split)
         /\ Start(split, progress[split]) \in Nat \ {0}
<1>1. progress[split] \in Progress /\ shards[split] \in Shards
  BY DEF TokenizeTypes
<1>2. /\ progress[split].file \in Nat /\ progress[split].batch \in Nat
      /\ progress[split].buffer \in Blocks /\ progress[split].cut \in BOOLEAN
  BY <1>1 DEF Progress
<1>3. Start(split, progress[split]) \in 1..End(split)
  BY <1>2, RowFromSplits DEF Start
<1>4. End(split) \in Nat
  BY RowsTyped
<1> QED
  BY <1>1, <1>2, <1>3, <1>4

-------------------------------------------------------------------------------
\* What the steps of the job do.

LEMMA OpenEffect ==
  ASSUME TokenizeTypes, NEW split \in Splits, OpenSplit(split)
  PROVE  /\ job' \in Jobs /\ job'.doing = "rows" /\ job'.split = split
         /\ job'.base = Start(split, progress[split]) /\ job'.at = Start(split, progress[split])
         /\ job'.docs = 0 /\ job'.buffer = progress[split].buffer /\ job'.blocks = <<>>
         /\ resumedCut' = (resumedCut \/ progress[split].cut)
<1>1. job' = [doing |-> "rows", split |-> split, base |-> Start(split, progress[split]),
              at |-> Start(split, progress[split]), docs |-> 0,
              buffer |-> progress[split].buffer, blocks |-> <<>>]
  BY DEF OpenSplit, Opened, Start
<1>2. Start(split, progress[split]) \in Nat \ {0} /\ progress[split].buffer \in Blocks
  BY ProgressTyped
<1>3. <<>> \in Seq(Blocks)
  OBVIOUS
<1>4. job' \in Jobs
  BY <1>1, <1>2, <1>3 DEF Jobs
<1>5. resumedCut' = (resumedCut \/ progress[split].cut)
  BY DEF OpenSplit
<1> QED
  BY <1>1, <1>4, <1>5

LEMMA BatchEnds ==
  ASSUME TokenizeTypes, job # Idle
  PROVE  BatchDone <=> AtBatchEnd(job)
<1>1. job.at \in Nat \ {0}
  BY Working, JobFields
<1>2. RowBatch(job.at) = RowBatch(job.at - 1) <=> SameBatch(job.split, job.at, job.at - 1)
  BY DEF RowBatch, SameBatch, JobRows
<1> QED
  BY <1>2 DEF BatchDone, AtBatchEnd, JobRows

LEMMA AddEffect ==
  ASSUME TokenizeTypes, AddDocument
  PROVE  LET ids == Encoded(job.split, job.at, Least)
         IN  /\ job \in Jobs /\ job.doing = "rows" /\ ~PacksOne(job.buffer) /\ ~AtBatchEnd(job)
             /\ job.docs < limit /\ job.at \in 1..Len(Rows[job.split]) /\ ids \in Blocks
             /\ job' \in Jobs /\ job'.doing = "rows" /\ job'.split = job.split
             /\ job'.base = job.base /\ job'.at = job.at + 1 /\ job'.docs = job.docs + 1
             /\ job'.buffer = job.buffer \o ids /\ job'.blocks = job.blocks
             /\ limit' = limit /\ crashes' = crashes /\ progress' = progress /\ shards' = shards
             /\ temporary' = temporary /\ manifest' = manifest /\ resumedCut' = resumedCut
<1> DEFINE ids == Encoded(job.split, job.at, Least)
<1>1. /\ job.doing = "rows" /\ ~PacksOne(job.buffer) /\ ~BatchDone /\ ~AtLimit
      /\ job.at <= Len(JobRows)
      /\ job' = [job EXCEPT !.at = job.at + 1, !.docs = job.docs + 1, !.buffer = job.buffer \o ids]
      /\ limit' = limit /\ crashes' = crashes /\ progress' = progress /\ shards' = shards
      /\ temporary' = temporary /\ manifest' = manifest /\ resumedCut' = resumedCut
  BY DEF AddDocument
<1>2. job # Idle /\ job \in Jobs
  BY <1>1, WorkingNotIdle, Working
<1>3. /\ job.split \in Splits /\ job.base \in Nat \ {0} /\ job.at \in Nat \ {0}
      /\ job.docs \in Nat /\ job.buffer \in Blocks /\ job.blocks \in Seq(Blocks)
  BY <1>2, JobFields
<1>4. job.at \in 1..Len(Rows[job.split]) /\ Least \in Nat
  BY <1>1, <1>3, RowsTyped DEF JobRows, Least
<1>5. ids \in Blocks
  BY <1>3, <1>4, EncodedIs DEF Blocks
<1>6. limit \in Nat
  BY DEF TokenizeTypes
<1>7. job.docs < limit /\ ~AtBatchEnd(job)
  BY <1>1, <1>2, <1>3, <1>6, BatchEnds DEF AtLimit
<1> HIDE DEF ids
<1>8. job.buffer \o ids \in Blocks
  BY <1>3, <1>5, RangeOfConcat DEF Blocks
<1>9. job.at + 1 \in Nat \ {0} /\ job.docs + 1 \in Nat
  BY <1>3
<1>10. /\ job' \in Jobs /\ job'.doing = job.doing /\ job'.split = job.split
       /\ job'.base = job.base /\ job'.at = job.at + 1 /\ job'.docs = job.docs + 1
       /\ job'.buffer = job.buffer \o ids /\ job'.blocks = job.blocks
  BY <1>1, <1>2, <1>8, <1>9 DEF Jobs
<1> QED
  BY <1>1, <1>2, <1>4, <1>5, <1>7, <1>10 DEF ids

LEMMA PackEffect ==
  ASSUME TokenizeTypes, PackBlock
  PROVE  /\ job \in Jobs /\ job.doing = "rows" /\ PacksOne(job.buffer)
         /\ Packed(job.buffer) \in Blocks /\ AfterPack(job.buffer) \in Blocks
         /\ job' \in Jobs /\ job'.doing \in {"rows", "save"} /\ job'.split = job.split
         /\ job'.base = job.base /\ job'.at = job.at /\ job'.docs = job.docs
         /\ job'.buffer = AfterPack(job.buffer)
         /\ job'.blocks = Append(job.blocks, Packed(job.buffer)) /\ job'.blocks # <<>>
         /\ limit' = limit /\ crashes' = crashes /\ progress' = progress /\ shards' = shards
         /\ temporary' = temporary /\ manifest' = manifest /\ resumedCut' = resumedCut
<1> DEFINE blocks == Append(job.blocks, Packed(job.buffer))
           doing  == IF Len(blocks) >= BlocksPerShard THEN "save" ELSE job.doing
<1>1. /\ job.doing = "rows" /\ PacksOne(job.buffer)
      /\ job' = [job EXCEPT !.buffer = AfterPack(job.buffer), !.blocks = blocks, !.doing = doing]
      /\ limit' = limit /\ crashes' = crashes /\ progress' = progress /\ shards' = shards
      /\ temporary' = temporary /\ manifest' = manifest /\ resumedCut' = resumedCut
  BY DEF PackBlock
<1>2. job # Idle /\ job \in Jobs
  BY <1>1, WorkingNotIdle, Working
<1>3. job.buffer \in Blocks /\ job.blocks \in Seq(Blocks)
  BY <1>2, JobFields
<1>4. Packed(job.buffer) \in Blocks /\ AfterPack(job.buffer) \in Blocks
  BY <1>1, <1>3, PackSplits DEF Blocks
<1>5. blocks \in Seq(Blocks) /\ Len(blocks) = Len(job.blocks) + 1 /\ Len(job.blocks) \in Nat
  BY <1>3, <1>4, RangeOfAppend
<1>6. doing \in {"rows", "save"}
  BY <1>1
<1> HIDE DEF blocks, doing
<1>7. blocks # <<>>
  BY <1>5, EmptySeq
<1>8. /\ job' \in Jobs /\ job'.doing = doing /\ job'.split = job.split
      /\ job'.base = job.base /\ job'.at = job.at /\ job'.docs = job.docs
      /\ job'.buffer = AfterPack(job.buffer) /\ job'.blocks = blocks
  BY <1>1, <1>2, <1>4, <1>5, <1>6 DEF Jobs
<1> QED
  BY <1>1, <1>2, <1>4, <1>6, <1>7, <1>8 DEF blocks

LEMMA BatchReadEffect ==
  ASSUME TokenizeTypes, BatchRead
  PROVE  /\ job \in Jobs /\ job.doing = "rows" /\ ~PacksOne(job.buffer)
         /\ AtBatchEnd(job) \/ (job.docs >= limit /\ job.at <= Len(Rows[job.split]))
         /\ job' \in Jobs /\ job'.split = job.split
         /\ job'.doing = IF job.blocks = <<>> THEN "progress" ELSE "save"
         /\ job'.base = job.base /\ job'.at = job.at /\ job'.docs = job.docs
         /\ job'.buffer = job.buffer /\ job'.blocks = job.blocks
         /\ limit' = limit /\ crashes' = crashes /\ progress' = progress /\ shards' = shards
         /\ temporary' = temporary /\ manifest' = manifest /\ resumedCut' = resumedCut
<1> DEFINE doing == IF job.blocks = <<>> THEN "progress" ELSE "save"
<1>1. /\ job.doing = "rows" /\ ~PacksOne(job.buffer)
      /\ BatchDone \/ (AtLimit /\ job.at <= Len(JobRows))
      /\ job' = [job EXCEPT !.doing = doing]
      /\ limit' = limit /\ crashes' = crashes /\ progress' = progress /\ shards' = shards
      /\ temporary' = temporary /\ manifest' = manifest /\ resumedCut' = resumedCut
  BY DEF BatchRead
<1>2. job # Idle /\ job \in Jobs
  BY <1>1, WorkingNotIdle, Working
<1>3. AtBatchEnd(job) \/ (job.docs >= limit /\ job.at <= Len(Rows[job.split]))
  BY <1>1, <1>2, BatchEnds DEF AtLimit, JobRows
<1>4. doing \in {"progress", "save"}
  OBVIOUS
<1> HIDE DEF doing
<1>5. /\ job' \in Jobs /\ job'.split = job.split /\ job'.doing = doing
      /\ job'.base = job.base /\ job'.at = job.at /\ job'.docs = job.docs
      /\ job'.buffer = job.buffer /\ job'.blocks = job.blocks
  BY <1>1, <1>2, <1>4 DEF Jobs
<1> QED
  BY <1>1, <1>2, <1>3, <1>5 DEF doing

LEMMA SaveEffect ==
  ASSUME TokenizeTypes, SaveTemporary
  PROVE  /\ job \in Jobs /\ job.doing = "save" /\ temporary' = temporary \cup {job.split}
         /\ job' \in Jobs /\ job'.doing = "replace" /\ job'.split = job.split
         /\ job'.base = job.base /\ job'.at = job.at /\ job'.docs = job.docs
         /\ job'.buffer = job.buffer /\ job'.blocks = job.blocks
         /\ limit' = limit /\ crashes' = crashes /\ progress' = progress /\ shards' = shards
         /\ manifest' = manifest /\ resumedCut' = resumedCut
<1>1. /\ job.doing = "save" /\ temporary' = temporary \cup {job.split}
      /\ job' = [job EXCEPT !.doing = "replace"]
      /\ limit' = limit /\ crashes' = crashes /\ progress' = progress /\ shards' = shards
      /\ manifest' = manifest /\ resumedCut' = resumedCut
  BY DEF SaveTemporary
<1>2. job # Idle /\ job \in Jobs
  BY <1>1, WorkingNotIdle, Working
<1>3. /\ job' \in Jobs /\ job'.doing = "replace" /\ job'.split = job.split
      /\ job'.base = job.base /\ job'.at = job.at /\ job'.docs = job.docs
      /\ job'.buffer = job.buffer /\ job'.blocks = job.blocks
  BY <1>1, <1>2 DEF Jobs
<1> QED
  BY <1>1, <1>2, <1>3

LEMMA PublishEffect ==
  ASSUME TokenizeTypes, PublishShard
  PROVE  /\ job \in Jobs /\ job.doing = "replace" /\ temporary' = temporary \ {job.split}
         /\ shards' = [shards EXCEPT ![job.split] = Append(shards[job.split], job.blocks)]
         /\ shards'[job.split] = Append(shards[job.split], job.blocks)
         /\ shards'[job.split] \in Shards /\ shards' \in [Splits -> Shards]
         /\ \A split \in Splits \ {job.split} : shards'[split] = shards[split]
         /\ job' \in Jobs /\ job'.doing = "rows" /\ job'.split = job.split
         /\ job'.base = job.base /\ job'.at = job.at /\ job'.docs = job.docs
         /\ job'.buffer = job.buffer /\ job'.blocks = <<>>
         /\ limit' = limit /\ crashes' = crashes /\ progress' = progress
         /\ manifest' = manifest /\ resumedCut' = resumedCut
<1>1. /\ job.doing = "replace" /\ temporary' = temporary \ {job.split}
      /\ shards' = [shards EXCEPT ![job.split] = Append(shards[job.split], job.blocks)]
      /\ job' = [job EXCEPT !.doing = "rows", !.blocks = <<>>]
      /\ limit' = limit /\ crashes' = crashes /\ progress' = progress
      /\ manifest' = manifest /\ resumedCut' = resumedCut
  BY DEF PublishShard
<1>2. job # Idle /\ job \in Jobs
  BY <1>1, WorkingNotIdle, Working
<1>3. job.split \in Splits /\ job.blocks \in Seq(Blocks)
  BY <1>2, JobFields
<1>4. shards \in [Splits -> Shards] /\ shards[job.split] \in Shards
  BY <1>3 DEF TokenizeTypes
<1>5. Append(shards[job.split], job.blocks) \in Shards
  BY <1>3, <1>4, RangeOfAppend DEF Shards
<1>6. /\ shards'[job.split] = Append(shards[job.split], job.blocks)
      /\ shards' \in [Splits -> Shards]
      /\ \A split \in Splits \ {job.split} : shards'[split] = shards[split]
  BY <1>1, <1>3, <1>4, <1>5
<1>7. /\ job' \in Jobs /\ job'.doing = "rows" /\ job'.split = job.split
      /\ job'.base = job.base /\ job'.at = job.at /\ job'.docs = job.docs
      /\ job'.buffer = job.buffer /\ job'.blocks = <<>>
  <2>1. <<>> \in Seq(Blocks)
    OBVIOUS
  <2> QED
    BY <1>1, <1>2, <2>1 DEF Jobs
<1> QED
  BY <1>1, <1>2, <1>5, <1>6, <1>7

LEMMA WriteEffect ==
  ASSUME TokenizeTypes, JobPlaced, WriteProgress
  PROVE  LET done == AtBatchEnd(job)
             row  == Rows[job.split][IF done THEN job.at - 1 ELSE job.at]
         IN  /\ job \in Jobs /\ job.doing = "progress"
             /\ ~done => job.at <= Len(Rows[job.split])
             /\ progress' \in [Splits -> Progress]
             /\ progress'[job.split] =
                  [file |-> row.file, batch |-> IF done THEN row.batch + 1 ELSE row.batch,
                   buffer |-> job.buffer, cut |-> ~done]
             /\ \A split \in Splits \ {job.split} : progress'[split] = progress[split]
             /\ job' \in Jobs /\ job'.doing = (IF done THEN "rows" ELSE "returned")
             /\ job'.split = job.split /\ job'.base = (IF done THEN job.at ELSE job.base)
             /\ job'.at = job.at /\ job'.docs = job.docs
             /\ job'.buffer = job.buffer /\ job'.blocks = job.blocks
             /\ limit' = limit /\ crashes' = crashes /\ shards' = shards
             /\ temporary' = temporary /\ manifest' = manifest /\ resumedCut' = resumedCut
<1> DEFINE done == AtBatchEnd(job)
           i    == IF done THEN job.at - 1 ELSE job.at
           row  == Rows[job.split][i]
           new  == [file |-> row.file, batch |-> IF done THEN row.batch + 1 ELSE row.batch,
                    buffer |-> job.buffer, cut |-> ~done]
<1>1. /\ job.doing = "progress"
      /\ limit' = limit /\ crashes' = crashes /\ shards' = shards
      /\ temporary' = temporary /\ manifest' = manifest /\ resumedCut' = resumedCut
  BY DEF WriteProgress
<1>2. job # Idle /\ job \in Jobs
  BY <1>1, WorkingNotIdle, Working
<1>3. /\ job.split \in Splits /\ job.base \in Nat \ {0} /\ job.at \in Nat \ {0}
      /\ job.buffer \in Blocks
  BY <1>2, JobFields
<1>4. /\ job.at <= End(job.split) /\ ~PacksOne(job.buffer)
      /\ ~done => job.at <= Len(Rows[job.split])
  BY <1>1, <1>2 DEF JobPlaced, PlacedAt
<1>5. i \in 1..Len(Rows[job.split])
  <2>1. Len(Rows[job.split]) \in Nat /\ End(job.split) = Len(Rows[job.split]) + 1
    BY <1>3, RowsTyped DEF End
  <2>2. done => job.at > job.base
    BY DEF AtBatchEnd
  <2> QED
    BY <1>3, <1>4, <2>1, <2>2
<1>6. row.file \in Nat /\ row.batch \in Nat
  BY <1>3, <1>5, RowsTyped
<1>7. Remainder(job.buffer) = job.buffer
  BY <1>3, <1>4, RemainderIs DEF Blocks
<1>8. /\ progress' = [progress EXCEPT ![job.split] = new]
      /\ job' = [job EXCEPT !.doing = IF done THEN "rows" ELSE "returned",
                            !.base = IF done THEN job.at ELSE job.base]
  <2>1. CASE BatchDone
    <3>1. done
      BY <1>2, <2>1, BatchEnds
    <3>2. /\ progress' = [progress EXCEPT ![job.split] = ProgressAfter(job.at - 1)]
          /\ job' = [job EXCEPT !.doing = "rows", !.base = job.at]
      BY <2>1 DEF WriteProgress
    <3>3. ProgressAfter(job.at - 1) = new
      BY <1>7, <3>1 DEF ProgressAfter, JobRows
    <3> QED
      BY <3>1, <3>2, <3>3
  <2>2. CASE ~BatchDone
    <3>1. ~done
      BY <1>2, <2>2, BatchEnds
    <3>2. /\ progress' = [progress EXCEPT ![job.split] = ProgressAtLimit]
          /\ job' = [job EXCEPT !.doing = "returned"]
      BY <2>2 DEF WriteProgress
    <3>3. ProgressAtLimit = new
      BY <1>7, <3>1 DEF ProgressAtLimit, JobRows
    <3>4. [job EXCEPT !.doing = "returned"] = [job EXCEPT !.doing = "returned", !.base = job.base]
      BY <1>2 DEF Jobs
    <3> QED
      BY <3>1, <3>2, <3>3, <3>4
  <2> QED
    BY <2>1, <2>2
<1>9. new \in Progress
  <2>1. /\ row.file \in Nat /\ (IF done THEN row.batch + 1 ELSE row.batch) \in Nat
        /\ job.buffer \in Blocks /\ (~done) \in BOOLEAN
    BY <1>3, <1>6
  <2> QED
    BY <2>1 DEF Progress
<1> HIDE DEF done, new
<1>10. /\ progress' \in [Splits -> Progress] /\ progress'[job.split] = new
       /\ \A split \in Splits \ {job.split} : progress'[split] = progress[split]
  <2>1. progress \in [Splits -> Progress]
    BY DEF TokenizeTypes
  <2> QED
    BY <1>3, <1>8, <1>9, <2>1
<1>11. /\ job' \in Jobs /\ job'.doing = (IF done THEN "rows" ELSE "returned")
       /\ job'.split = job.split /\ job'.base = (IF done THEN job.at ELSE job.base)
       /\ job'.at = job.at /\ job'.docs = job.docs
       /\ job'.buffer = job.buffer /\ job'.blocks = job.blocks
  <2>1. (IF done THEN "rows" ELSE "returned") \in {"rows", "returned"}
        /\ (IF done THEN job.at ELSE job.base) \in Nat \ {0}
    BY <1>3
  <2> QED
    BY <1>2, <1>8, <2>1 DEF Jobs
<1> QED
  BY <1>1, <1>2, <1>4, <1>10, <1>11 DEF done, new

LEMMA EndEffect ==
  ASSUME TokenizeTypes, EndSplit
  PROVE  /\ job \in Jobs /\ job.doing = "rows" /\ ~PacksOne(job.buffer)
         /\ job.at = job.base /\ job.at > Len(Rows[job.split])
         /\ progress' \in [Splits -> Progress]
         /\ progress'[job.split] = [file |-> Files(job.split), batch |-> 0,
                                    buffer |-> job.buffer, cut |-> FALSE]
         /\ \A split \in Splits \ {job.split} : progress'[split] = progress[split]
         /\ job' \in Jobs /\ job'.doing = "returned" /\ job'.split = job.split
         /\ job'.base = job.base /\ job'.at = job.at /\ job'.docs = job.docs
         /\ job'.buffer = job.buffer /\ job'.blocks = job.blocks
         /\ limit' = limit /\ crashes' = crashes /\ shards' = shards
         /\ temporary' = temporary /\ manifest' = manifest /\ resumedCut' = resumedCut
<1> DEFINE new == [file |-> Files(job.split), batch |-> 0, buffer |-> job.buffer, cut |-> FALSE]
<1>1. /\ job.doing = "rows" /\ ~PacksOne(job.buffer) /\ job.at = job.base
      /\ job.at > Len(Rows[job.split])
      /\ progress' = [progress EXCEPT ![job.split] =
                        [file |-> Files(job.split), batch |-> 0,
                         buffer |-> Remainder(job.buffer), cut |-> FALSE]]
      /\ job' = [job EXCEPT !.doing = "returned"]
      /\ limit' = limit /\ crashes' = crashes /\ shards' = shards
      /\ temporary' = temporary /\ manifest' = manifest /\ resumedCut' = resumedCut
  BY DEF EndSplit, JobRows
<1>2. job # Idle /\ job \in Jobs
  BY <1>1, WorkingNotIdle, Working
<1>3. job.split \in Splits /\ job.buffer \in Blocks
  BY <1>2, JobFields
<1>4. Remainder(job.buffer) = job.buffer
  BY <1>1, <1>3, RemainderIs DEF Blocks
<1>5. new \in Progress
  <2>1. Files(job.split) \in Nat
    BY <1>3, FilesTyped
  <2> QED
    BY <1>3, <2>1 DEF Progress
<1>6. progress' = [progress EXCEPT ![job.split] = new]
  BY <1>1, <1>4
<1> HIDE DEF new
<1>7. /\ progress' \in [Splits -> Progress] /\ progress'[job.split] = new
      /\ \A split \in Splits \ {job.split} : progress'[split] = progress[split]
  <2>1. progress \in [Splits -> Progress]
    BY DEF TokenizeTypes
  <2> QED
    BY <1>3, <1>5, <1>6, <2>1
<1>8. /\ job' \in Jobs /\ job'.doing = "returned" /\ job'.split = job.split
      /\ job'.base = job.base /\ job'.at = job.at /\ job'.docs = job.docs
      /\ job'.buffer = job.buffer /\ job'.blocks = job.blocks
  BY <1>1, <1>2 DEF Jobs
<1> QED
  BY <1>1, <1>2, <1>7, <1>8 DEF new

LEMMA Opening ==
  ASSUME TokenizeTypes, StartJob \/ NextSplit
  PROVE  LET split == IF job = Idle THEN "train" ELSE "val"
         IN  /\ job = Idle => manifest = <<>>
             /\ job # Idle => job \in Jobs /\ job.doing = "returned" /\ job.split = "train"
             /\ split \in Splits /\ OpenSplit(split)
             /\ limit' = limit /\ crashes' = crashes /\ progress' = progress /\ shards' = shards
             /\ temporary' = temporary /\ manifest' = manifest
<1>0. "train" \in Splits /\ "val" \in Splits
  BY DEF Splits
<1>1. CASE StartJob
  <2>1. /\ job = Idle /\ manifest = <<>> /\ OpenSplit("train")
        /\ limit' = limit /\ crashes' = crashes /\ progress' = progress /\ shards' = shards
        /\ temporary' = temporary /\ manifest' = manifest
    BY <1>1 DEF StartJob
  <2> QED
    BY <1>0, <2>1
<1>2. CASE NextSplit
  <2>1. /\ job.doing = "returned" /\ job.split = "train" /\ OpenSplit("val")
        /\ limit' = limit /\ crashes' = crashes /\ progress' = progress /\ shards' = shards
        /\ temporary' = temporary /\ manifest' = manifest
    BY <1>2 DEF NextSplit
  <2>2. job # Idle /\ job \in Jobs
    BY <2>1, WorkingNotIdle, Working
  <2> QED
    BY <1>0, <2>1, <2>2
<1> QED
  BY <1>1, <1>2

LEMMA ManifestEffect ==
  ASSUME TokenizeTypes, WriteManifest
  PROVE  /\ job \in Jobs /\ job.doing = "returned" /\ job.split = "val" /\ job' = Idle
         /\ manifest' = [listed |-> shards, torn |-> temporary]
         /\ limit' = limit /\ crashes' = crashes /\ progress' = progress /\ shards' = shards
         /\ temporary' = temporary /\ resumedCut' = resumedCut
<1>1. job.doing = "returned"
  BY DEF WriteManifest
<1>2. job \in Jobs
  BY <1>1, WorkingNotIdle, Working
<1> QED
  BY <1>1, <1>2 DEF WriteManifest

LEMMA JobCrashEffect ==
  ASSUME TokenizeTypes, JobCrash
  PROVE  /\ job # Idle /\ job \in Jobs /\ job' = Idle /\ crashes' = crashes + 1
         /\ limit' = limit /\ progress' = progress /\ shards' = shards
         /\ temporary' = temporary /\ manifest' = manifest /\ resumedCut' = resumedCut
BY Working DEF JobCrash

LEMMA TokenizeTypesKept ==
  ASSUME TokenizeTypes, JobPlaced, TokenizeStep \/ JobCrash
  PROVE  TokenizeTypes'
<1>1. /\ limit \in Nat \ {0} /\ crashes \in Nat /\ resumedCut \in BOOLEAN
      /\ temporary \subseteq Splits
      /\ progress \in [Splits -> Progress] /\ shards \in [Splits -> Shards]
      /\ manifest = <<>> \/ manifest \in [listed : [Splits -> Shards], torn : SUBSET Splits]
  BY DEF TokenizeTypes
<1> DEFINE types(l, c, r, t, p, f, j, m) ==
             /\ l \in Nat \ {0} /\ c \in Nat /\ r \in BOOLEAN
             /\ t \subseteq Splits
             /\ p \in [Splits -> Progress] /\ f \in [Splits -> Shards]
             /\ j = Idle \/ j \in Jobs
             /\ m = <<>> \/ m \in [listed : [Splits -> Shards], torn : SUBSET Splits]
<1>2. types(limit', crashes', resumedCut', temporary', progress', shards', job', manifest')
      => TokenizeTypes'
  BY DEF TokenizeTypes
<1>3. CASE StartJob \/ NextSplit
  <2> DEFINE split == IF job = Idle THEN "train" ELSE "val"
  <2>1. /\ split \in Splits /\ OpenSplit(split)
        /\ limit' = limit /\ crashes' = crashes /\ progress' = progress /\ shards' = shards
        /\ temporary' = temporary /\ manifest' = manifest
    BY <1>3, Opening
  <2> HIDE DEF split
  <2>2. job' \in Jobs /\ resumedCut' = (resumedCut \/ progress[split].cut)
    BY <2>1, OpenEffect
  <2>3. resumedCut' \in BOOLEAN
    BY <2>2
  <2> QED
    BY <1>1, <1>2, <2>1, <2>2, <2>3
<1>4. CASE AddDocument
  BY <1>1, <1>2, <1>4, AddEffect
<1>5. CASE PackBlock
  BY <1>1, <1>2, <1>5, PackEffect
<1>6. CASE BatchRead
  BY <1>1, <1>2, <1>6, BatchReadEffect
<1>7. CASE SaveTemporary
  <2>1. job \in Jobs /\ temporary' = temporary \cup {job.split}
    BY <1>7, SaveEffect
  <2>2. temporary' \subseteq Splits
    BY <1>1, <2>1, JobFields
  <2> QED
    BY <1>1, <1>2, <1>7, <2>2, SaveEffect
<1>8. CASE PublishShard
  <2>1. temporary' \subseteq Splits
    BY <1>1, <1>8, PublishEffect
  <2> QED
    BY <1>1, <1>2, <1>8, <2>1, PublishEffect
<1>9. CASE WriteProgress
  BY <1>1, <1>2, <1>9, WriteEffect
<1>10. CASE EndSplit
  BY <1>1, <1>2, <1>10, EndEffect
<1>11. CASE WriteManifest
  <2>1. manifest' = [listed |-> shards, torn |-> temporary]
    BY <1>11, ManifestEffect
  <2>2. manifest' \in [listed : [Splits -> Shards], torn : SUBSET Splits]
    BY <1>1, <2>1
  <2> QED
    BY <1>1, <1>2, <1>11, <2>2, ManifestEffect
<1>12. CASE JobCrash
  <2>1. crashes + 1 \in Nat
    BY <1>1
  <2> QED
    BY <1>1, <1>2, <1>12, <2>1, JobCrashEffect
<1> QED
  BY <1>3, <1>4, <1>5, <1>6, <1>7, <1>8, <1>9, <1>10, <1>11, <1>12 DEF TokenizeStep

\* Behind a row batch, the progress leads to the next one.
LEMMA StartBehindBatch ==
  ASSUME NEW split \in Splits, NEW at \in 2..End(split),
         at <= Len(Rows[split]) => ~SameBatch(split, at, at - 1)
  PROVE  RowFrom(split, Rows[split][at - 1].file, Rows[split][at - 1].batch + 1) = at
<1> DEFINE n == Len(Rows[split])
           f == Rows[split][at - 1].file
           b == Rows[split][at - 1].batch
<1>1. n \in Nat \ {0} /\ End(split) = n + 1 /\ at \in Nat /\ at - 1 \in 1..n
  BY RowsTyped DEF End
<1>2. f \in Nat /\ b \in Nat /\ b + 1 \in Nat
  <2>1. \A i \in 1..n : Rows[split][i].file \in Nat /\ Rows[split][i].batch \in Nat
    BY RowsTyped
  <2>2. f \in Nat /\ b \in Nat
    BY <1>1, <2>1
  <2> QED
    BY <2>2
<1> HIDE DEF f, b, n
<1>3. ASSUME NEW i \in 1..(at - 1)
      PROVE  ~Later(Rows[split][i], f, b + 1)
  <2> DEFINE fi == Rows[split][i].file
             bi == Rows[split][i].batch
  <2>1. i \in 1..n
    BY <1>1
  <2>2. fi \in Nat /\ bi \in Nat
    BY <2>1, RowsTyped DEF n
  <2>3. f > fi \/ (f = fi /\ b >= bi)
    <3>1. CASE i = at - 1
      BY <1>2, <3>1 DEF f, b
    <3>2. CASE i < at - 1
      <4>1. Later(Rows[split][at - 1], fi, bi)
        BY <1>1, <2>1, <3>2, CorpusAssumption DEF n
      <4> QED
        BY <4>1 DEF Later, f, b
    <3> QED
      BY <1>1, <3>1, <3>2
  <2> HIDE DEF fi, bi
  <2>4. ~(fi > f \/ (fi = f /\ bi >= b + 1))
    BY <1>2, <2>2, <2>3
  <2> QED
    BY <2>4 DEF Later, fi, bi
<1>4. ASSUME NEW i \in at..n
      PROVE  Later(Rows[split][i], f, b + 1)
  <2> DEFINE fa == Rows[split][at].file
             ba == Rows[split][at].batch
  <2>1. at \in 1..n /\ i \in 1..n /\ at <= i /\ at - 1 < at
    BY <1>1
  <2>2. fa \in Nat /\ ba \in Nat
    BY <2>1, RowsTyped DEF n
  <2>3. fa > f \/ (fa = f /\ ba >= b)
    <3>1. Later(Rows[split][at], Rows[split][at - 1].file, Rows[split][at - 1].batch)
      BY <1>1, <2>1, CorpusAssumption DEF n
    <3> QED
      BY <3>1 DEF Later, f, b
  <2>4. ~(fa = f /\ ba = b)
    BY <2>1 DEF SameBatch, n, f, b
  <2> HIDE DEF fa, ba
  <2>5. fa > f \/ (fa = f /\ ba >= b + 1)
    BY <1>2, <2>2, <2>3, <2>4
  <2>6. Later(Rows[split][at], f, b + 1)
    BY <2>5 DEF Later, fa, ba
  <2> QED
    BY <1>2, <2>1, <2>6, LaterUpward DEF n
<1>5. at \in 1..End(split)
  BY <1>1
<1> QED
  BY <1>2, <1>3, <1>4, <1>5, RowFromUnique DEF n, f, b

\* At max_docs, the progress leads back to the beginning of the row batch or before it.
LEMMA StartOfBatch ==
  ASSUME NEW split \in Splits, NEW at \in 1..Len(Rows[split])
  PROVE  /\ RowFrom(split, Rows[split][at].file, Rows[split][at].batch) \in 1..at
         /\ \A i \in RowFrom(split, Rows[split][at].file, Rows[split][at].batch)..at :
              SameBatch(split, i, at)
<1> DEFINE n == Len(Rows[split])
           f == Rows[split][at].file
           b == Rows[split][at].batch
           r == RowFrom(split, f, b)
<1>1. n \in Nat \ {0} /\ End(split) = n + 1 /\ at \in Nat /\ at \in 1..n
  BY RowsTyped DEF End
<1>2. f \in Nat /\ b \in Nat
  BY <1>1, RowsTyped
<1>3. /\ r \in 1..End(split)
      /\ \A i \in 1..(r - 1) : ~Later(Rows[split][i], f, b)
      /\ \A i \in r..n : Later(Rows[split][i], f, b)
  BY <1>2, RowFromSplits
<1> HIDE DEF r, n
<1>4. Later(Rows[split][at], f, b)
  BY <1>2 DEF Later
<1> HIDE DEF f, b
<1>5. r <= at
  BY <1>1, <1>3, <1>4
<1>6. ASSUME NEW i \in r..at
      PROVE  SameBatch(split, i, at)
  <2> DEFINE fi == Rows[split][i].file
             bi == Rows[split][i].batch
  <2>1. i \in 1..n /\ i \in r..n
    BY <1>1, <1>3
  <2>2. fi \in Nat /\ bi \in Nat
    BY <2>1, RowsTyped DEF n
  <2>3. fi > f \/ (fi = f /\ bi >= b)
    BY <1>3, <2>1 DEF Later
  <2>4. f > fi \/ (f = fi /\ b >= bi)
    <3>1. CASE i = at
      BY <1>2, <3>1 DEF f, b
    <3>2. CASE i < at
      <4>1. Later(Rows[split][at], fi, bi)
        BY <1>1, <2>1, <3>2, CorpusAssumption DEF n
      <4> QED
        BY <4>1 DEF Later, f, b
    <3> QED
      BY <1>1, <1>3, <3>1, <3>2
  <2> HIDE DEF fi, bi
  <2>5. fi = f /\ bi = b
    BY <1>2, <2>2, <2>3, <2>4
  <2> QED
    BY <2>5 DEF SameBatch, fi, bi, f, b
<1> QED
  BY <1>1, <1>3, <1>5, <1>6 DEF r, f, b

LEMMA StartAtEnd ==
  ASSUME NEW split \in Splits
  PROVE  RowFrom(split, Files(split), 0) = End(split)
<1> DEFINE n == Len(Rows[split])
           f == Files(split)
<1>1. n \in Nat \ {0} /\ End(split) = n + 1 /\ n \in 1..n
  BY RowsTyped DEF End
<1>2. f = Rows[split][n].file + 1 /\ f \in Nat /\ Rows[split][n].file \in Nat
  BY <1>1, RowsTyped, FilesTyped DEF Files
<1> HIDE DEF n, f
<1>3. ASSUME NEW i \in 1..n
      PROVE  ~Later(Rows[split][i], f, 0)
  <2> DEFINE fi == Rows[split][i].file
             fn == Rows[split][n].file
  <2>1. fi \in Nat /\ fn \in Nat
    BY <1>1, RowsTyped DEF n
  <2>2. fn >= fi
    <3>1. CASE i = n
      BY <2>1, <3>1
    <3>2. CASE i < n
      <4>1. Later(Rows[split][n], Rows[split][i].file, Rows[split][i].batch)
        BY <1>1, <3>2, CorpusAssumption DEF n
      <4> QED
        BY <2>1, <4>1 DEF Later
    <3> QED
      BY <1>1, <3>1, <3>2
  <2>3. f = fn + 1
    BY <1>2
  <2> HIDE DEF fi, fn
  <2>4. ~(fi > f \/ fi = f)
    BY <2>1, <2>2, <2>3
  <2> QED
    BY <2>4 DEF Later, fi
<1>4. \A i \in 1..(End(split) - 1) : ~Later(Rows[split][i], f, 0)
  BY <1>1, <1>3
<1>5. End(split)..n = {} /\ End(split) \in 1..End(split)
  BY <1>1
<1> QED
  BY <1>2, <1>4, <1>5, RowFromUnique DEF n, f

LEMMA WrittenStart ==
  ASSUME TokenizeTypes, JobPlaced, WriteProgress \/ EndSplit
  PROVE  LET split == job.split
             s     == Start(split, progress'[split])
         IN  /\ s \in 1..job.at /\ s \in Nat \ {0}
             /\ ~progress'[split].cut => s = job.at
             /\ progress'[split].cut =>
                  /\ job.at <= Len(Rows[split])
                  /\ \A i \in s..job.at : SameBatch(split, i, job.at)
<1> DEFINE split == job.split
           s     == Start(split, progress'[split])
<1>1. job \in Jobs
  BY WriteEffect, EndEffect
<1>2. /\ split \in Splits /\ job.at \in Nat \ {0} /\ job.base \in Nat \ {0}
      /\ Len(Rows[split]) \in Nat \ {0} /\ End(split) = Len(Rows[split]) + 1
      /\ job.base <= job.at /\ job.at <= End(split)
  BY <1>1, JobFields, RowsTyped DEF End, JobPlaced, PlacedAt
<1>3. CASE WriteProgress /\ AtBatchEnd(job)
  <2>1. job.at > job.base /\ (job.at <= Len(Rows[split]) => ~SameBatch(split, job.at, job.at - 1))
    BY <1>3 DEF AtBatchEnd
  <2>2. job.at \in 2..End(split)
    BY <1>2, <2>1
  <2>3. progress'[split] = [file |-> Rows[split][job.at - 1].file,
                            batch |-> Rows[split][job.at - 1].batch + 1,
                            buffer |-> job.buffer, cut |-> FALSE]
    BY <1>3, WriteEffect
  <2>4. s = job.at
    BY <1>2, <2>1, <2>2, <2>3, StartBehindBatch DEF Start
  <2> QED
    BY <1>2, <2>3, <2>4
<1>4. CASE WriteProgress /\ ~AtBatchEnd(job)
  <2>1. job.at <= Len(Rows[split])
    BY <1>4, WriteEffect
  <2>2. progress'[split] = [file |-> Rows[split][job.at].file, batch |-> Rows[split][job.at].batch,
                            buffer |-> job.buffer, cut |-> TRUE]
    BY <1>4, WriteEffect
  <2>3. job.at \in 1..Len(Rows[split])
    BY <1>2, <2>1
  <2>4. s = RowFrom(split, Rows[split][job.at].file, Rows[split][job.at].batch)
    BY <2>2 DEF Start
  <2>5. s \in 1..job.at /\ \A i \in s..job.at : SameBatch(split, i, job.at)
    BY <1>2, <2>3, <2>4, StartOfBatch
  <2>6. progress'[split].cut
    BY <2>2
  <2> HIDE DEF s
  <2>7. s \in Nat \ {0}
    BY <1>2, <2>5
  <2> QED
    BY <2>1, <2>5, <2>6, <2>7 DEF s
<1>5. CASE EndSplit
  <2>1. progress'[split] = [file |-> Files(split), batch |-> 0,
                            buffer |-> job.buffer, cut |-> FALSE]
    BY <1>5, EndEffect
  <2>2. s = End(split)
    BY <1>2, <2>1, StartAtEnd DEF Start
  <2>3. job.at > Len(Rows[split])
    BY <1>5, EndEffect
  <2>4. s = job.at
    BY <1>2, <2>2, <2>3
  <2> QED
    BY <1>2, <2>1, <2>4
<1> QED
  BY <1>3, <1>4, <1>5

LEMMA ProgressFitsKept ==
  ASSUME TokenizeTypes, JobPlaced, ProgressFits, TokenizeStep \/ JobCrash
  PROVE  ProgressFits'
<1> SUFFICES ASSUME NEW split \in Splits
             PROVE  ~PacksOne(progress'[split].buffer)
  BY DEF ProgressFits
<1>1. ~PacksOne(progress[split].buffer)
  BY DEF ProgressFits
<1>2. CASE WriteProgress
  <2>1. job.doing = "progress" /\ job \in Jobs
    BY <1>2, WriteEffect
  <2>2. ~PacksOne(job.buffer)
    BY <2>1, JobFields DEF JobPlaced, PlacedAt
  <2>3. progress'[job.split].buffer = job.buffer
    BY <1>2, WriteEffect
  <2>4. split # job.split => progress'[split] = progress[split]
    BY <1>2, WriteEffect
  <2> QED
    BY <1>1, <2>2, <2>3, <2>4
<1>3. CASE EndSplit
  <2>1. ~PacksOne(job.buffer) /\ progress'[job.split].buffer = job.buffer
    BY <1>3, EndEffect
  <2>2. split # job.split => progress'[split] = progress[split]
    BY <1>3, EndEffect
  <2> QED
    BY <1>1, <2>1, <2>2
<1>4. CASE ~WriteProgress /\ ~EndSplit
  <2>1. progress' = progress
    BY <1>4 DEF TokenizeStep, StartJob, AddDocument, PackBlock, BatchRead, SaveTemporary,
                PublishShard, NextSplit, WriteManifest, JobCrash
  <2> QED
    BY <1>1, <2>1
<1> QED
  BY <1>2, <1>3, <1>4

LEMMA JobPlacedKept ==
  ASSUME TokenizeTypes, JobPlaced, ProgressFits, TokenizeStep \/ JobCrash
  PROVE  JobPlaced'
<1> SUFFICES ASSUME job' # Idle
             PROVE  PlacedAt(job', progress'[job'.split], limit')
  BY DEF JobPlaced
<1>0. limit \in Nat \ {0}
  BY DEF TokenizeTypes
<1>1. job \in Jobs => /\ PlacedAt(job, progress[job.split], limit) /\ job.split \in Splits
                      /\ job.base \in Nat \ {0} /\ job.at \in Nat \ {0} /\ job.docs \in Nat
                      /\ Len(Rows[job.split]) \in Nat \ {0}
                      /\ End(job.split) = Len(Rows[job.split]) + 1
  BY JobFields, RowsTyped DEF JobPlaced, End
<1>2. CASE StartJob \/ NextSplit
  <2> DEFINE split == IF job = Idle THEN "train" ELSE "val"
             s     == Start(split, progress[split])
  <2>1. /\ split \in Splits /\ OpenSplit(split) /\ limit' = limit /\ progress' = progress
    BY <1>2, Opening
  <2> HIDE DEF split
  <2>2. /\ job'.doing = "rows" /\ job'.split = split /\ job'.base = s /\ job'.at = s
        /\ job'.docs = 0 /\ job'.buffer = progress[split].buffer /\ job'.blocks = <<>>
    BY <2>1, OpenEffect
  <2>3. s \in 1..End(split) /\ s \in Nat \ {0} /\ End(split) \in Nat
    BY <2>1, ProgressTyped, RowsTyped
  <2>4. ~PacksOne(progress[split].buffer)
    BY <2>1 DEF ProgressFits
  <2>5. progress'[job'.split] = progress[split]
    BY <2>1, <2>2
  <2>6. s - s = 0 /\ s..(s - 1) = {} /\ 0 <= limit /\ s <= End(split)
    BY <1>0, <2>3
  <2> HIDE DEF s
  <2>7. /\ job'.base <= job'.at /\ job'.at <= End(job'.split)
        /\ job'.at - job'.base <= job'.docs /\ job'.docs <= limit'
        /\ \A i \in job'.base..(job'.at - 1) : SameBatch(job'.split, i, job'.base)
    BY <2>1, <2>2, <2>3, <2>6
  <2> QED
    BY <2>2, <2>4, <2>5, <2>7 DEF PlacedAt, s
<1>3. CASE AddDocument
  <2> DEFINE split == job.split
  <2>1. /\ job \in Jobs /\ job.doing = "rows" /\ ~AtBatchEnd(job)
        /\ job.docs < limit /\ job.at \in 1..Len(Rows[split])
        /\ job'.doing = "rows" /\ job'.split = split
        /\ job'.base = job.base /\ job'.at = job.at + 1 /\ job'.docs = job.docs + 1
        /\ job'.blocks = job.blocks /\ progress' = progress /\ limit' = limit
    BY <1>3, AddEffect
  <2>2. /\ job.base <= job.at /\ job.at - job.base <= job.docs
        /\ \A i \in job.base..(job.at - 1) : SameBatch(split, i, job.base)
        /\ job.base = Start(split, progress[split])
    BY <1>1, <2>1 DEF PlacedAt
  <2>3. SameBatch(split, job.at, job.base)
    <3>1. CASE job.at = job.base
      BY <3>1 DEF SameBatch
    <3>2. CASE job.at > job.base
      <4>1. SameBatch(split, job.at, job.at - 1)
        BY <2>1, <3>2 DEF AtBatchEnd
      <4>2. SameBatch(split, job.at - 1, job.base)
        BY <1>1, <2>1, <2>2, <3>2
      <4> QED
        BY <4>1, <4>2 DEF SameBatch
    <3> QED
      BY <1>1, <2>1, <2>2, <3>1, <3>2
  <2>4. \A i \in job.base..(job.at + 1 - 1) : SameBatch(split, i, job.base)
    BY <1>1, <2>1, <2>2, <2>3
  <2>5. /\ job.base <= job.at + 1 /\ job.at + 1 <= End(split)
        /\ job.at + 1 - job.base <= job.docs + 1 /\ job.docs + 1 <= limit
        /\ job.at + 1 # job.base
    BY SMTT(30), <1>0, <1>1, <2>1, <2>2
  <2>6. /\ job'.base <= job'.at /\ job'.at <= End(job'.split)
        /\ job'.at - job'.base <= job'.docs /\ job'.docs <= limit' /\ job'.at # job'.base
    BY <1>0, <1>1, <2>1, <2>5
  <2>7. \A i \in job'.base..(job'.at - 1) : SameBatch(job'.split, i, job'.base)
    BY <2>1, <2>4
  <2>8. job'.base = Start(job'.split, progress'[job'.split])
    BY <2>1, <2>2
  <2> QED
    BY <2>1, <2>6, <2>7, <2>8 DEF PlacedAt
<1>4. CASE PackBlock
  <2>1. /\ job \in Jobs /\ job.doing = "rows" /\ PacksOne(job.buffer)
        /\ job'.doing \in {"rows", "save"} /\ job'.split = job.split
        /\ job'.base = job.base /\ job'.at = job.at /\ job'.docs = job.docs
        /\ job'.blocks # <<>> /\ progress' = progress /\ limit' = limit
    BY <1>4, PackEffect
  <2>2. job.at # job.base
    BY <1>1, <2>1 DEF PlacedAt
  <2> QED
    BY <1>1, <2>1, <2>2 DEF PlacedAt
<1>5. CASE BatchRead
  <2>1. /\ job \in Jobs /\ job.doing = "rows" /\ ~PacksOne(job.buffer)
        /\ AtBatchEnd(job) \/ job.at <= Len(Rows[job.split])
        /\ job'.doing = (IF job.blocks = <<>> THEN "progress" ELSE "save")
        /\ job'.split = job.split
        /\ job'.base = job.base /\ job'.at = job.at /\ job'.docs = job.docs
        /\ job'.buffer = job.buffer /\ job'.blocks = job.blocks
        /\ progress' = progress /\ limit' = limit
    BY <1>5, BatchReadEffect
  <2>2. AtBatchEnd(job') <=> AtBatchEnd(job)
    BY <2>1 DEF AtBatchEnd
  <2> QED
    BY <1>1, <2>1, <2>2 DEF PlacedAt
<1>6. CASE SaveTemporary
  <2>1. /\ job \in Jobs /\ job.doing = "save" /\ job'.doing = "replace" /\ job'.split = job.split
        /\ job'.base = job.base /\ job'.at = job.at /\ job'.docs = job.docs
        /\ job'.buffer = job.buffer /\ job'.blocks = job.blocks
        /\ progress' = progress /\ limit' = limit
    BY <1>6, SaveEffect
  <2> QED
    BY <1>1, <2>1 DEF PlacedAt
<1>7. CASE PublishShard
  <2>1. /\ job \in Jobs /\ job.doing = "replace" /\ job'.doing = "rows" /\ job'.split = job.split
        /\ job'.base = job.base /\ job'.at = job.at /\ job'.docs = job.docs
        /\ job'.buffer = job.buffer /\ job'.blocks = <<>>
        /\ progress' = progress /\ limit' = limit
    BY <1>7, PublishEffect
  <2> QED
    BY <1>1, <2>1 DEF PlacedAt
<1>8. CASE WriteProgress
  <2> DEFINE done == AtBatchEnd(job)
             split == job.split
  <2>1. /\ job \in Jobs /\ job.doing = "progress"
        /\ job'.doing = (IF done THEN "rows" ELSE "returned")
        /\ job'.split = split /\ job'.base = (IF done THEN job.at ELSE job.base)
        /\ job'.at = job.at /\ job'.docs = job.docs
        /\ job'.buffer = job.buffer /\ job'.blocks = job.blocks /\ limit' = limit
    BY <1>8, WriteEffect
  <2>2. /\ ~PacksOne(job.buffer) /\ job.blocks = <<>> /\ job.at <= End(split)
        /\ job.base <= job.at /\ job.docs <= limit
    BY <1>1, <2>1 DEF PlacedAt
  <2>3. CASE done
    <3>4. Start(split, progress'[split]) = job.at
      <4>1. progress'[split] = [file |-> Rows[split][job.at - 1].file,
                                batch |-> Rows[split][job.at - 1].batch + 1,
                                buffer |-> job.buffer, cut |-> FALSE]
        BY <1>8, <2>3, WriteEffect
      <4>2. ~progress'[split].cut
        BY <4>1
      <4> QED
        BY <1>8, <4>2, WrittenStart
    <3>5. job.at - job.at = 0 /\ job.at..(job.at - 1) = {} /\ 0 <= job.docs /\ job.at <= job.at
      BY <1>1, <2>1
    <3>6. \A i \in job.at..(job.at - 1) : SameBatch(split, i, job.at)
      BY <3>5
    <3> QED
      BY <2>1, <2>2, <2>3, <3>4, <3>5, <3>6 DEF PlacedAt
  <2>4. CASE ~done
    BY <1>1, <2>1, <2>2, <2>4 DEF PlacedAt
  <2> QED
    BY <2>3, <2>4
<1>9. CASE EndSplit
  <2>1. /\ job \in Jobs /\ job.doing = "rows"
        /\ job'.doing = "returned" /\ job'.split = job.split
        /\ job'.base = job.base /\ job'.at = job.at /\ job'.docs = job.docs
        /\ job'.buffer = job.buffer /\ job'.blocks = job.blocks /\ limit' = limit
    BY <1>9, EndEffect
  <2> QED
    BY <1>1, <2>1 DEF PlacedAt
<1>10. CASE WriteManifest \/ JobCrash
  BY <1>10, ManifestEffect, JobCrashEffect
<1> QED
  BY <1>2, <1>3, <1>4, <1>5, <1>6, <1>7, <1>8, <1>9, <1>10 DEF TokenizeStep

-------------------------------------------------------------------------------
(* Places of blocks *)

LEMMA PlaceIs ==
  ASSUME NEW files \in Shards
  PROVE  /\ \A p \in Places(files) :
              /\ p[1] \in 1..Len(files) /\ p[2] \in 1..Len(files[p[1]]) /\ p = <<p[1], p[2]>>
              /\ files[p[1]][p[2]] \in Blocks
         /\ \A n \in 1..Len(files) : \A k \in 1..Len(files[n]) : <<n, k>> \in Places(files)
<1>1. DOMAIN files = 1..Len(files)
  BY LenProperties DEF Shards
<1>2. ASSUME NEW n \in 1..Len(files)
      PROVE  files[n] \in Seq(Blocks) /\ DOMAIN files[n] = 1..Len(files[n])
  <2>1. files[n] \in Seq(Blocks)
    BY ElementOfSeq DEF Shards
  <2> QED
    BY <2>1, LenProperties
<1>3. ASSUME NEW n \in 1..Len(files), NEW k \in 1..Len(files[n])
      PROVE  files[n][k] \in Blocks
  BY <1>2, ElementOfSeq
<1>4. ASSUME NEW p \in Places(files)
      PROVE  /\ p[1] \in 1..Len(files) /\ p[2] \in 1..Len(files[p[1]]) /\ p = <<p[1], p[2]>>
             /\ files[p[1]][p[2]] \in Blocks
  <2>1. PICK n \in DOMAIN files : p \in {<<n, k>> : k \in DOMAIN files[n]}
    BY DEF Places
  <2>2. PICK k \in DOMAIN files[n] : p = <<n, k>>
    BY <2>1
  <2>3. p[1] = n /\ p[2] = k
    BY <2>2
  <2> QED
    BY <1>1, <1>2, <1>3, <2>2, <2>3
<1>5. ASSUME NEW n \in 1..Len(files), NEW k \in 1..Len(files[n])
      PROVE  <<n, k>> \in Places(files)
  BY <1>1, <1>2 DEF Places
<1> QED
  BY <1>4, <1>5

LEMMA PlacesOfAppend ==
  ASSUME NEW files \in Shards, NEW blocks \in Seq(Blocks)
  PROVE  LET more == Append(files, blocks)
             new  == {<<Len(files) + 1, k>> : k \in 1..Len(blocks)}
         IN  /\ more \in Shards /\ Places(more) = Places(files) \cup new
             /\ \A p \in Places(files) : more[p[1]][p[2]] = files[p[1]][p[2]]
             /\ \A k \in 1..Len(blocks) : more[Len(files) + 1][k] = blocks[k]
<1> DEFINE more == Append(files, blocks)
           n    == Len(files)
           new  == {<<n + 1, k>> : k \in 1..Len(blocks)}
<1>1. /\ more \in Shards /\ Len(more) = n + 1 /\ n \in Nat
      /\ \A i \in 1..n : more[i] = files[i]
      /\ more[n + 1] = blocks
  BY RangeOfAppend DEF Shards
<1> HIDE DEF more, n
<1>2. ASSUME NEW p \in Places(files)
      PROVE  p \in Places(more) /\ more[p[1]][p[2]] = files[p[1]][p[2]]
  <2>1. p[1] \in 1..n /\ p[2] \in 1..Len(files[p[1]]) /\ p = <<p[1], p[2]>>
    BY PlaceIs DEF n
  <2>2. p[1] \in 1..(n + 1) /\ more[p[1]] = files[p[1]]
    BY <1>1, <2>1
  <2>3. <<p[1], p[2]>> \in Places(more)
    BY <1>1, <2>1, <2>2, PlaceIs
  <2> QED
    BY <2>1, <2>2, <2>3
<1>3. ASSUME NEW k \in 1..Len(blocks)
      PROVE  <<n + 1, k>> \in Places(more) /\ more[n + 1][k] = blocks[k]
  <2>1. n + 1 \in 1..(n + 1)
    BY <1>1
  <2> QED
    BY <1>1, <2>1, PlaceIs
<1>4. ASSUME NEW p \in Places(more)
      PROVE  p \in Places(files) \cup new
  <2>1. p[1] \in 1..(n + 1) /\ p[2] \in 1..Len(more[p[1]]) /\ p = <<p[1], p[2]>>
    BY <1>1, PlaceIs
  <2>2. CASE p[1] \in 1..n
    <3>1. p[2] \in 1..Len(files[p[1]])
      BY <1>1, <2>1, <2>2
    <3>2. <<p[1], p[2]>> \in Places(files)
      BY <2>2, <3>1, PlaceIs DEF n
    <3> QED
      BY <2>1, <3>2
  <2>3. CASE p[1] = n + 1
    <3>1. p[2] \in 1..Len(blocks)
      BY <1>1, <2>1, <2>3
    <3> QED
      BY <2>1, <2>3, <3>1
  <2> QED
    BY <1>1, <2>1, <2>2, <2>3
<1>5. Places(more) = Places(files) \cup new
  BY <1>2, <1>3, <1>4
<1> QED
  BY <1>1, <1>2, <1>3, <1>5 DEF more, n

LEMMA HeldIs ==
  ASSUME NEW files \in Shards
  PROVE  \A t : t \in Held(files) <=> \E p \in Places(files) : t \in Range(files[p[1]][p[2]])
BY Zenon DEF Held

LEMMA TextIs ==
  ASSUME NEW blocks \in Seq(Blocks)
  PROVE  \A t : t \in Text(blocks) <=> \E k \in 1..Len(blocks) : t \in Range(blocks[k])
<1>1. DOMAIN blocks = 1..Len(blocks)
  BY LenProperties
<1> QED
  BY <1>1, Zenon DEF Text

LEMMA HeldGrows ==
  ASSUME NEW files \in Shards, NEW blocks \in Seq(Blocks)
  PROVE  Held(Append(files, blocks)) = Held(files) \cup Text(blocks)
<1> DEFINE more == Append(files, blocks)
           n    == Len(files)
           new  == {<<n + 1, k>> : k \in 1..Len(blocks)}
<1>1. /\ more \in Shards /\ Places(more) = Places(files) \cup new
      /\ \A p \in Places(files) : more[p[1]][p[2]] = files[p[1]][p[2]]
      /\ \A k \in 1..Len(blocks) : more[n + 1][k] = blocks[k]
  BY PlacesOfAppend
<1> HIDE DEF more, n
<1>2. \A t : t \in Held(more) <=> \E p \in Places(more) : t \in Range(more[p[1]][p[2]])
  BY <1>1, HeldIs
<1>3. \A t : t \in Held(files) <=> \E p \in Places(files) : t \in Range(files[p[1]][p[2]])
  BY HeldIs
<1>4. \A t : t \in Text(blocks) <=> \E k \in 1..Len(blocks) : t \in Range(blocks[k])
  BY TextIs
<1>5. ASSUME NEW t \in Held(more)
      PROVE  t \in Held(files) \cup Text(blocks)
  <2>1. PICK p \in Places(more) : t \in Range(more[p[1]][p[2]])
    BY <1>2
  <2>2. CASE p \in Places(files)
    BY <1>1, <1>3, <2>1, <2>2
  <2>3. CASE p \in new
    <3>1. PICK k \in 1..Len(blocks) : p = <<n + 1, k>>
      BY <2>3
    <3>2. p[1] = n + 1 /\ p[2] = k
      BY <3>1
    <3>3. t \in Range(blocks[k])
      BY <1>1, <2>1, <3>2
    <3> QED
      BY <1>4, <3>3
  <2> QED
    BY <1>1, <2>2, <2>3
<1>6. ASSUME NEW t \in Held(files)
      PROVE  t \in Held(more)
  BY <1>1, <1>2, <1>3
<1>7. ASSUME NEW t \in Text(blocks)
      PROVE  t \in Held(more)
  <2>1. PICK k \in 1..Len(blocks) : t \in Range(blocks[k])
    BY <1>4
  <2> DEFINE p == <<n + 1, k>>
  <2>2. p \in Places(more) /\ p[1] = n + 1 /\ p[2] = k
    BY <1>1
  <2>3. t \in Range(more[p[1]][p[2]])
    BY <1>1, <2>1, <2>2
  <2> QED
    BY <1>2, <2>2, <2>3
<1> QED
  BY <1>5, <1>6, <1>7 DEF more

LEMMA NoText == Text(<<>>) = {}
BY NoTraces

LEMMA ReadKeptKept ==
  ASSUME TokenizeTypes, JobPlaced, ReadKept, TokenizeStep \/ JobCrash
  PROVE  ReadKept'
<1>0. Least \in Nat
  BY DEF Least
<1>1. \A split \in Splits : SplitKept(split, progress[split], shards[split])
  BY DEF ReadKept
<1>2. job \in Jobs => /\ JobKept(job, shards[job.split]) /\ job.split \in Splits
                      /\ shards[job.split] \in Shards
                      /\ job.buffer \in Blocks /\ job.blocks \in Seq(Blocks)
                      /\ job.at \in Nat \ {0} /\ job.base \in Nat \ {0}
                      /\ Len(Rows[job.split]) \in Nat \ {0}
                      /\ End(job.split) = Len(Rows[job.split]) + 1
  BY JobFields, ProgressTyped, RowsTyped DEF ReadKept, End
<1>3. ASSUME \A split \in Splits : SplitKept(split, progress'[split], shards'[split]),
             job' # Idle => JobKept(job', shards'[job'.split])
      PROVE  ReadKept'
  BY <1>3 DEF ReadKept
<1>4. CASE StartJob \/ NextSplit
  <2> DEFINE split == IF job = Idle THEN "train" ELSE "val"
  <2>1. /\ split \in Splits /\ OpenSplit(split) /\ progress' = progress /\ shards' = shards
    BY <1>4, Opening
  <2> HIDE DEF split
  <2>2. /\ job'.split = split /\ job'.at = Start(split, progress[split])
        /\ job'.buffer = progress[split].buffer /\ job'.blocks = <<>>
    BY <2>1, OpenEffect
  <2>3. SplitKept(split, progress[split], shards[split])
    BY <1>1, <2>1
  <2>4. JobKept(job', shards'[job'.split])
    BY <2>1, <2>2, <2>3 DEF JobKept, SplitKept
  <2> QED
    BY <1>1, <1>3, <2>1, <2>4
<1>5. CASE AddDocument
  <2> DEFINE ids == Encoded(job.split, job.at, Least)
  <2>1. /\ job \in Jobs /\ ids \in Blocks
        /\ job'.split = job.split /\ job'.at = job.at + 1
        /\ job'.buffer = job.buffer \o ids /\ job'.blocks = job.blocks
        /\ progress' = progress /\ shards' = shards
    BY <1>5, AddEffect
  <2>2. TokensBefore(job.split, job.at + 1, Least)
          = TokensBefore(job.split, job.at, Least) \cup Range(ids)
    BY <1>2, <2>1, TokensOfNextRow
  <2> HIDE DEF ids
  <2>3. Range(job.buffer \o ids) = Range(job.buffer) \cup Range(ids)
    BY <1>2, <2>1, RangeOfConcat DEF Blocks
  <2>4. JobKept(job', shards'[job'.split])
    BY <1>2, <2>1, <2>2, <2>3 DEF JobKept
  <2> QED
    BY <1>1, <1>3, <2>1, <2>4
<1>6. CASE PackBlock
  <2>1. /\ job \in Jobs /\ PacksOne(job.buffer) /\ Packed(job.buffer) \in Blocks
        /\ job'.split = job.split /\ job'.at = job.at
        /\ job'.buffer = AfterPack(job.buffer)
        /\ job'.blocks = Append(job.blocks, Packed(job.buffer))
        /\ progress' = progress /\ shards' = shards
    BY <1>6, PackEffect
  <2>2. Range(job.buffer) = Range(Packed(job.buffer)) \cup Range(AfterPack(job.buffer))
    BY <1>2, <2>1, RangeOfPacked DEF Blocks
  <2>3. Text(Append(job.blocks, Packed(job.buffer))) = Text(job.blocks) \cup Range(Packed(job.buffer))
    BY <1>2, <2>1, TracedGrows DEF Blocks
  <2>4. JobKept(job', shards'[job'.split])
    BY <1>2, <2>1, <2>2, <2>3 DEF JobKept
  <2> QED
    BY <1>1, <1>3, <2>1, <2>4
<1>7. CASE BatchRead \/ SaveTemporary
  <2>1. /\ job \in Jobs /\ job'.split = job.split /\ job'.at = job.at
        /\ job'.buffer = job.buffer /\ job'.blocks = job.blocks
        /\ progress' = progress /\ shards' = shards
    BY <1>7, BatchReadEffect, SaveEffect
  <2>2. JobKept(job', shards'[job'.split])
    BY <1>2, <2>1 DEF JobKept
  <2> QED
    BY <1>1, <1>3, <2>1, <2>2
<1>8. CASE PublishShard
  <2>1. /\ job \in Jobs /\ job'.split = job.split /\ job'.at = job.at
        /\ job'.buffer = job.buffer /\ job'.blocks = <<>>
        /\ progress' = progress /\ shards'[job.split] = Append(shards[job.split], job.blocks)
        /\ \A split \in Splits \ {job.split} : shards'[split] = shards[split]
    BY <1>8, PublishEffect
  <2>2. Held(shards'[job.split]) = Held(shards[job.split]) \cup Text(job.blocks)
    BY <1>2, <2>1, HeldGrows
  <2>3. JobKept(job', shards'[job'.split])
    BY <1>2, <2>1, <2>2, NoText DEF JobKept
  <2>4. ASSUME NEW split \in Splits
        PROVE  SplitKept(split, progress'[split], shards'[split])
    <3>1. CASE split = job.split
      BY <1>1, <2>1, <2>2, <3>1 DEF SplitKept
    <3>2. CASE split # job.split
      BY <1>1, <2>1, <3>2
    <3> QED
      BY <3>1, <3>2
  <2> QED
    BY <1>3, <2>3, <2>4
<1>9. CASE WriteProgress
  <2> DEFINE split == job.split
             s     == Start(split, progress'[split])
  <2>1. /\ job \in Jobs /\ job.doing = "progress" /\ job'.split = job.split /\ job'.at = job.at
        /\ job'.buffer = job.buffer /\ job'.blocks = job.blocks /\ shards' = shards
        /\ progress'[split].buffer = job.buffer
        /\ \A other \in Splits \ {split} : progress'[other] = progress[other]
    BY <1>9, WriteEffect
  <2>2. job.blocks = <<>> /\ job.at <= End(split) /\ job # Idle
    BY <2>1, JobFields DEF JobPlaced, PlacedAt
  <2>3. s \in Nat /\ s <= job.at
    <3>1. s \in 1..job.at
      BY <1>9, WrittenStart
    <3> QED
      BY <1>2, <2>1, <3>1
  <2> HIDE DEF s
  <2>4. TokensBefore(split, s, Least) \subseteq TokensBefore(split, job.at, Least)
    BY <1>2, <2>1, <2>3, TokensOfEarlierRows
  <2>5. TokensBefore(split, job.at, Least) \subseteq Held(shards[split]) \cup Range(job.buffer)
    BY <1>2, <2>1, <2>2, NoText DEF JobKept
  <2>6. SplitKept(split, progress'[split], shards'[split])
    BY <2>1, <2>4, <2>5 DEF SplitKept, s
  <2>7. JobKept(job', shards'[job'.split])
    BY <1>2, <2>1 DEF JobKept
  <2> QED
    BY <1>1, <1>3, <2>1, <2>6, <2>7
<1>10. CASE EndSplit
  <2> DEFINE split == job.split
  <2>1. /\ job \in Jobs /\ job.doing = "rows" /\ job.at = job.base /\ job.at > Len(Rows[split])
        /\ job'.split = job.split /\ job'.at = job.at
        /\ job'.buffer = job.buffer /\ job'.blocks = job.blocks /\ shards' = shards
        /\ progress'[split].buffer = job.buffer /\ progress'[split].file = Files(split)
        /\ progress'[split].batch = 0
        /\ \A other \in Splits \ {split} : progress'[other] = progress[other]
    BY <1>10, EndEffect
  <2>2. job.blocks = <<>> /\ job.at <= End(split)
    BY <2>1, JobFields DEF JobPlaced, PlacedAt
  <2>3. Start(split, progress'[split]) = job.at
    <3>1. ~progress'[split].cut
      BY <1>10, EndEffect
    <3> QED
      BY <1>10, <3>1, WrittenStart
  <2>4. TokensBefore(split, job.at, Least) \subseteq Held(shards[split]) \cup Range(job.buffer)
    BY <1>2, <2>1, <2>2, NoText DEF JobKept
  <2>5. SplitKept(split, progress'[split], shards'[split])
    BY <2>1, <2>3, <2>4 DEF SplitKept
  <2>6. JobKept(job', shards'[job'.split])
    BY <1>2, <2>1 DEF JobKept
  <2> QED
    BY <1>1, <1>3, <2>1, <2>5, <2>6
<1>11. CASE WriteManifest \/ JobCrash
  <2>1. job' = Idle /\ progress' = progress /\ shards' = shards
    BY <1>11, ManifestEffect, JobCrashEffect
  <2> QED
    BY <1>1, <1>3, <2>1
<1> QED
  BY <1>4, <1>5, <1>6, <1>7, <1>8, <1>9, <1>10, <1>11 DEF TokenizeStep

-------------------------------------------------------------------------------
(* Buffers of text *)

LEMMA TextExtended ==
  ASSUME NEW split \in Splits, NEW at \in 1..Len(Rows[split]), NEW buffer \in Blocks,
         TextUpTo(split, buffer, at)
  PROVE  TextUpTo(split, buffer \o Encoded(split, at, Least), at + 1)
<1> DEFINE ids == Encoded(split, at, Least)
           m   == Len(buffer)
           n   == Len(ids)
           c   == buffer \o ids
           tokens == Rows[split][at].tokens
<1>1. /\ ids \in Blocks /\ n = (IF tokens < Least THEN 0 ELSE tokens) /\ n \in Nat
      /\ \A k \in 1..n : ids[k] = <<at, k>>
  <2>1. Least \in Nat
    BY DEF Least
  <2> QED
    BY <2>1, EncodedIs DEF Blocks
<1>2. m \in Nat /\ DOMAIN buffer = 1..m /\ \A k \in 1..m : buffer[k] \in Tokens
  BY LenProperties, ElementOfSeq DEF Blocks
<1>3. \A k \in 1..m : buffer[k][1] \in Nat /\ buffer[k][2] \in Nat
  BY <1>2 DEF Tokens
<1>4. at \in Nat /\ tokens \in Nat /\ Len(Rows[split]) \in Nat
  BY SMTT(30), RowsTyped
<1> HIDE DEF ids, m, n
<1>5. c \in Blocks /\ Len(c) = m + n /\ DOMAIN c = 1..(m + n)
  <2>1. c \in Blocks
    BY <1>1, RangeOfConcat DEF Blocks
  <2>2. Len(c) = m + n
    BY <1>1, ConcatProperties DEF Blocks, m, n
  <2> QED
    BY <2>1, <2>2, LenProperties DEF Blocks
<1>6. \A k \in 1..(m + n) : c[k] = IF k <= m THEN buffer[k] ELSE ids[k - m]
  BY <1>1, ConcatProperties DEF Blocks, m, n
<1>7. \A k \in 1..m : c[k] = buffer[k]
  BY <1>1, <1>2, <1>6
<1>8. \A k \in (m + 1)..(m + n) : c[k] = <<at, k - m>>
  <2> TAKE k \in (m + 1)..(m + n)
  <2>1. k - m \in 1..n /\ k \in 1..(m + n) /\ ~(k <= m)
    BY <1>1, <1>2
  <2> QED
    BY <1>1, <1>6, <2>1
<1> HIDE DEF c, tokens
<1>9. ASSUME NEW k \in (m + 1)..(m + n)
      PROVE  c[k][1] = at /\ c[k][2] = k - m
  <2>1. c[k] = <<at, k - m>>
    BY <1>8
  <2> QED
    BY <2>1
<1>a. m \in Nat /\ n \in Nat
  BY <1>1, <1>2
<1>10. \A k \in 1..m : buffer[k][1] < at
  BY <1>2 DEF TextUpTo
<1>11. Contiguous(split, c)
  <2> SUFFICES ASSUME NEW k \in 1..(m + n - 1)
               PROVE  Follows(split, c[k], c[k + 1])
    <3>1. 1..(Len(c) - 1) = 1..(m + n - 1)
      BY <1>5, <1>a
    <3> QED
      BY <3>1 DEF Contiguous
  <2>1. CASE k < m
    <3>1. k \in 1..(m - 1) /\ k \in 1..m /\ k + 1 \in 1..m
      BY <1>2, <2>1
    <3>2. Follows(split, buffer[k], buffer[k + 1])
      BY <3>1 DEF TextUpTo, Contiguous, m
    <3> QED
      BY <1>7, <3>1, <3>2
  <2>2. CASE k = m
    <3>1. m \in 1..m /\ k + 1 \in (m + 1)..(m + n) /\ k + 1 - m = 1 /\ n > 0
      BY <1>1, <1>2, <2>2
    <3>2. c[k] = buffer[m] /\ c[k + 1][1] = at /\ c[k + 1][2] = 1
      BY <1>7, <1>9, <2>2, <3>1
    <3>3. buffer # <<>>
      BY <3>1, EmptySeq DEF m
    <3>4. /\ buffer[m][2] = Rows[split][buffer[m][1]].tokens
          /\ \A i \in (buffer[m][1] + 1)..(at - 1) : Rows[split][i].tokens < Least
      BY <3>3 DEF TextUpTo, EndsAt, m
    <3>5. buffer[m][1] < at
      BY <1>10, <3>1
    <3> QED
      BY <3>2, <3>4, <3>5 DEF Follows
  <2>3. CASE k > m
    <3>1. k \in (m + 1)..(m + n) /\ k + 1 \in (m + 1)..(m + n) /\ k + 1 - m = k - m + 1
      BY <1>a, <2>3
    <3>2. c[k][1] = at /\ c[k][2] = k - m
      BY <1>9, <3>1
    <3>3. c[k + 1] = <<at, k - m + 1>>
      BY <1>8, <1>a, <3>1
    <3> QED
      BY <3>2, <3>3 DEF Follows
  <2> QED
    BY <1>1, <1>2, <2>1, <2>2, <2>3
<1>12. Ascending(c)
  <2> SUFFICES ASSUME NEW i \in 1..(m + n), NEW j \in 1..(m + n), i < j
               PROVE  Earlier(c[i], c[j])
    BY <1>5 DEF Ascending
  <2>1. CASE j <= m
    <3>1. i \in 1..m /\ j \in 1..m
      BY <1>1, <1>2, <2>1
    <3>2. Earlier(buffer[i], buffer[j])
      BY <1>2, <3>1 DEF TextUpTo, Ascending
    <3> QED
      BY <1>7, <3>1, <3>2
  <2>2. CASE i <= m /\ j > m
    <3>1. i \in 1..m /\ j \in (m + 1)..(m + n)
      BY <1>1, <1>2, <2>2
    <3>2. c[i][1] < c[j][1]
      BY <1>7, <1>9, <1>10, <3>1
    <3> QED
      BY <3>2 DEF Earlier
  <2>3. CASE i > m
    <3>1. i \in (m + 1)..(m + n) /\ j \in (m + 1)..(m + n) /\ i - m < j - m
      BY <1>1, <1>2, <2>3
    <3>2. c[i][1] = c[j][1] /\ c[i][2] < c[j][2]
      BY <1>9, <3>1
    <3> QED
      BY <3>2 DEF Earlier
  <2> QED
    BY <1>1, <1>2, <2>1, <2>2, <2>3
<1>13. \A k \in DOMAIN c : c[k][1] < at + 1
  <2> SUFFICES ASSUME NEW k \in 1..(m + n)
               PROVE  c[k][1] < at + 1
    BY <1>5
  <2>1. CASE k <= m
    <3>1. k \in 1..m
      BY <1>1, <1>2, <2>1
    <3>2. buffer[k][1] < at /\ buffer[k][1] \in Nat /\ c[k] = buffer[k]
      BY <1>3, <1>7, <1>10, <3>1
    <3> QED
      BY <1>4, <3>2
  <2>2. CASE k > m
    <3>1. k \in (m + 1)..(m + n)
      BY <1>1, <1>2, <2>2
    <3>2. c[k][1] = at
      BY <1>9, <3>1
    <3> QED
      BY <1>4, <3>2
  <2> QED
    BY <1>1, <1>2, <2>1, <2>2
<1>14. EndsAt(split, c, at + 1)
  <2> SUFFICES ASSUME c # <<>>
               PROVE  /\ c[m + n][2] = Rows[split][c[m + n][1]].tokens
                      /\ \A i \in (c[m + n][1] + 1)..(at + 1 - 1) : Rows[split][i].tokens < Least
    BY <1>5 DEF EndsAt
  <2>1. CASE n = 0
    <3>1. m + n = m /\ m > 0 /\ m \in 1..m
      <4>1. m + n # 0
        BY <1>5, EmptySeq DEF Blocks
      <4> QED
        BY <1>2, <2>1, <4>1
    <3>2. buffer # <<>> /\ c[m + n] = buffer[m] /\ buffer[m][1] \in Nat
      BY <1>3, <1>7, <3>1, EmptySeq DEF m
    <3>3. /\ buffer[m][2] = Rows[split][buffer[m][1]].tokens
          /\ \A i \in (buffer[m][1] + 1)..(at - 1) : Rows[split][i].tokens < Least
      BY <3>2 DEF TextUpTo, EndsAt, m
    <3>4. tokens < Least
      BY <1>1, <1>4, <2>1 DEF Least
    <3>5. \A i \in (buffer[m][1] + 1)..(at + 1 - 1) : i \in (buffer[m][1] + 1)..(at - 1) \/ i = at
      BY <1>4, <3>2
    <3>6. \A i \in (buffer[m][1] + 1)..(at + 1 - 1) : Rows[split][i].tokens < Least
      BY <3>3, <3>4, <3>5 DEF tokens
    <3> QED
      BY <3>2, <3>3, <3>6
  <2>2. CASE n # 0
    <3>1. m + n \in (m + 1)..(m + n) /\ m + n - m = n
      BY <1>1, <1>2, <2>2
    <3>2. c[m + n][1] = at /\ c[m + n][2] = n
      BY <1>9, <1>a, <3>1
    <3>4. n = tokens
      BY <1>1, <2>2
    <3>3. (at + 1)..(at + 1 - 1) = {}
      BY <1>4
    <3> QED
      BY <3>2, <3>3, <3>4 DEF tokens
  <2> QED
    BY <2>1, <2>2
<1> QED
  BY <1>11, <1>12, <1>13, <1>14 DEF TextUpTo, c, ids

LEMMA TextPackedOff ==
  ASSUME NEW split \in Splits, NEW at \in Nat, NEW buffer \in Blocks, PacksOne(buffer),
         TextUpTo(split, buffer, at)
  PROVE  Contiguous(split, Packed(buffer)) /\ TextUpTo(split, AfterPack(buffer), at)
<1> DEFINE packed == Packed(buffer)
           after  == AfterPack(buffer)
           m      == Len(buffer)
<1>1. /\ packed \in Blocks /\ Len(packed) = SeqLen + 1
      /\ \A k \in 1..(SeqLen + 1) : packed[k] = buffer[k]
      /\ after \in Blocks /\ Len(after) = m - SeqLen
      /\ \A k \in 1..(m - SeqLen) : after[k] = buffer[SeqLen + k]
      /\ m \in Nat /\ m >= SeqLen + 1 /\ DOMAIN buffer = 1..m
  BY PackSplits DEF Blocks
<1>2. SeqLen \in Nat \ {0}
  BY CorpusAssumption
<1>3. DOMAIN after = 1..(m - SeqLen)
  BY <1>1, LenProperties DEF Blocks
<1>4. /\ \A k \in 1..(m - 1) : Follows(split, buffer[k], buffer[k + 1])
      /\ \A i, j \in 1..m : i < j => Earlier(buffer[i], buffer[j])
      /\ EndsAt(split, buffer, at) /\ \A k \in 1..m : buffer[k][1] < at
  BY <1>1 DEF TextUpTo, Contiguous, Ascending
<1> HIDE DEF packed, after, m
<1>5. Contiguous(split, packed)
  <2> SUFFICES ASSUME NEW k \in 1..SeqLen
               PROVE  Follows(split, packed[k], packed[k + 1])
    <3>1. 1..(Len(packed) - 1) = 1..SeqLen
      BY <1>1, <1>2
    <3> QED
      BY <3>1 DEF Contiguous
  <2>1. k \in 1..(SeqLen + 1) /\ k + 1 \in 1..(SeqLen + 1) /\ k \in 1..(m - 1)
    BY <1>1, <1>2
  <2> QED
    BY <1>1, <1>4, <2>1
<1>6. Contiguous(split, after)
  <2> SUFFICES ASSUME NEW k \in 1..(m - SeqLen - 1)
               PROVE  Follows(split, after[k], after[k + 1])
    BY <1>1 DEF Contiguous
  <2>1. /\ k \in 1..(m - SeqLen) /\ k + 1 \in 1..(m - SeqLen) /\ SeqLen + k \in 1..(m - 1)
        /\ SeqLen + (k + 1) = SeqLen + k + 1
    BY <1>1, <1>2
  <2> QED
    BY <1>1, <1>4, <2>1
<1>7. Ascending(after)
  <2> SUFFICES ASSUME NEW i \in 1..(m - SeqLen), NEW j \in 1..(m - SeqLen), i < j
               PROVE  Earlier(after[i], after[j])
    BY <1>3 DEF Ascending
  <2>1. SeqLen + i \in 1..m /\ SeqLen + j \in 1..m /\ SeqLen + i < SeqLen + j
    BY <1>1, <1>2
  <2> QED
    BY <1>1, <1>4, <2>1
<1>8. \A k \in DOMAIN after : after[k][1] < at
  <2> SUFFICES ASSUME NEW k \in 1..(m - SeqLen)
               PROVE  after[k][1] < at
    BY <1>3
  <2>1. SeqLen + k \in 1..m
    BY <1>1, <1>2
  <2> QED
    BY <1>1, <1>4, <2>1
<1>9. EndsAt(split, after, at)
  <2>1. m - SeqLen \in 1..(m - SeqLen) /\ SeqLen + (m - SeqLen) = m /\ m # 0
    BY <1>1, <1>2
  <2>2. after[Len(after)] = buffer[m] /\ buffer # <<>>
    BY <1>1, <2>1, EmptySeq DEF m
  <2> QED
    BY <1>4, <2>2 DEF EndsAt, m
<1> QED
  BY <1>5, <1>6, <1>7, <1>8, <1>9 DEF TextUpTo, packed, after

LEMMA TextPackedKept ==
  ASSUME TokenizeTypes, JobPlaced, TextPacked, TokenizeStep \/ JobCrash
  PROVE  TextPacked'
<1> SUFFICES ASSUME ~resumedCut'
             PROVE  /\ \A split \in Splits : SplitPacked(split, progress'[split], shards'[split])
                    /\ job' # Idle => JobPacked(job')
  BY DEF TextPacked
<1>0. ~resumedCut
  <2>1. CASE StartJob \/ NextSplit
    <3> DEFINE split == IF job = Idle THEN "train" ELSE "val"
    <3>1. split \in Splits /\ OpenSplit(split)
      BY <2>1, Opening
    <3> QED
      BY <3>1, OpenEffect
  <2>2. CASE ~(StartJob \/ NextSplit)
    <3>1. resumedCut' = resumedCut
      BY <2>2 DEF TokenizeStep, AddDocument, PackBlock, BatchRead, SaveTemporary,
                  PublishShard, WriteProgress, EndSplit, WriteManifest, JobCrash
    <3> QED
      BY <3>1
  <2> QED
    BY <2>1, <2>2
<1>1. \A split \in Splits : SplitPacked(split, progress[split], shards[split])
  BY <1>0 DEF TextPacked
<1>2. job \in Jobs => /\ JobPacked(job) /\ job.split \in Splits
                      /\ shards[job.split] \in Shards
                      /\ job.buffer \in Blocks /\ job.blocks \in Seq(Blocks)
                      /\ job.at \in Nat \ {0}
  BY <1>0, JobFields, ProgressTyped DEF TextPacked
<1>3. CASE StartJob \/ NextSplit
  <2> DEFINE split == IF job = Idle THEN "train" ELSE "val"
  <2>1. /\ split \in Splits /\ OpenSplit(split) /\ progress' = progress /\ shards' = shards
    BY <1>3, Opening
  <2> HIDE DEF split
  <2>2. /\ job'.split = split /\ job'.at = Start(split, progress[split])
        /\ job'.buffer = progress[split].buffer /\ job'.blocks = <<>>
        /\ resumedCut' = (resumedCut \/ progress[split].cut)
    BY <2>1, OpenEffect
  <2>3. TextUpTo(split, progress[split].buffer, Start(split, progress[split]))
    BY <1>1, <2>1, <2>2 DEF SplitPacked
  <2>4. DOMAIN job'.blocks = {}
    BY <2>2
  <2>5. JobPacked(job')
    BY <2>2, <2>3, <2>4 DEF JobPacked
  <2> QED
    BY <1>1, <2>1, <2>5
<1>4. CASE AddDocument
  <2> DEFINE ids == Encoded(job.split, job.at, Least)
  <2>1. /\ job \in Jobs /\ job.at \in 1..Len(Rows[job.split])
        /\ job'.split = job.split /\ job'.at = job.at + 1
        /\ job'.buffer = job.buffer \o ids /\ job'.blocks = job.blocks
        /\ progress' = progress /\ shards' = shards
    BY <1>4, AddEffect
  <2>2. TextUpTo(job.split, job.buffer, job.at)
    BY <1>2, <2>1 DEF JobPacked
  <2>3. TextUpTo(job.split, job.buffer \o ids, job.at + 1)
    BY <1>2, <2>1, <2>2, TextExtended
  <2> HIDE DEF ids
  <2>4. JobPacked(job')
    BY <1>2, <2>1, <2>3 DEF JobPacked
  <2> QED
    BY <1>1, <2>1, <2>4
<1>5. CASE PackBlock
  <2> DEFINE more == Append(job.blocks, Packed(job.buffer))
             n    == Len(job.blocks)
  <2>1. /\ job \in Jobs /\ PacksOne(job.buffer) /\ Packed(job.buffer) \in Blocks
        /\ job'.split = job.split /\ job'.at = job.at
        /\ job'.buffer = AfterPack(job.buffer) /\ job'.blocks = more
        /\ progress' = progress /\ shards' = shards
    BY <1>5, PackEffect
  <2>2. TextUpTo(job.split, job.buffer, job.at)
    BY <1>2, <2>1 DEF JobPacked
  <2>3. /\ Contiguous(job.split, Packed(job.buffer))
        /\ TextUpTo(job.split, AfterPack(job.buffer), job.at)
    BY <1>2, <2>1, <2>2, TextPackedOff
  <2>4. /\ DOMAIN more = 1..(n + 1) /\ DOMAIN job.blocks = 1..n /\ n \in Nat
        /\ \A k \in 1..n : more[k] = job.blocks[k]
        /\ more[n + 1] = Packed(job.buffer)
    BY <1>2, <2>1, RangeOfAppend
  <2> HIDE DEF more, n
  <2>5. \A k \in 1..n : Contiguous(job.split, job.blocks[k])
    BY <1>2, <2>1, <2>4 DEF JobPacked
  <2>6. ASSUME NEW k \in 1..(n + 1)
        PROVE  Contiguous(job.split, more[k])
    <3>1. CASE k \in 1..n
      BY <2>4, <2>5, <3>1
    <3>2. CASE k = n + 1
      BY <2>3, <2>4, <3>2
    <3> QED
      BY <2>4, <3>1, <3>2
  <2>7. JobPacked(job')
    BY <2>1, <2>3, <2>4, <2>6 DEF JobPacked
  <2> QED
    BY <1>1, <2>1, <2>7
<1>6. CASE BatchRead \/ SaveTemporary
  <2>1. /\ job \in Jobs /\ job'.split = job.split /\ job'.at = job.at
        /\ job'.buffer = job.buffer /\ job'.blocks = job.blocks
        /\ progress' = progress /\ shards' = shards
    BY <1>6, BatchReadEffect, SaveEffect
  <2>2. JobPacked(job')
    BY <1>2, <2>1 DEF JobPacked
  <2> QED
    BY <1>1, <2>1, <2>2
<1>7. CASE PublishShard
  <2> DEFINE files == shards[job.split]
             more  == Append(files, job.blocks)
             n     == Len(job.blocks)
  <2>1. /\ job \in Jobs /\ job'.split = job.split /\ job'.at = job.at
        /\ job'.buffer = job.buffer /\ job'.blocks = <<>>
        /\ progress' = progress /\ shards'[job.split] = more
        /\ \A split \in Splits \ {job.split} : shards'[split] = shards[split]
    BY <1>7, PublishEffect
  <2>2. /\ Places(more) = Places(files) \cup {<<Len(files) + 1, k>> : k \in 1..n}
        /\ \A q \in Places(files) : more[q[1]][q[2]] = files[q[1]][q[2]]
        /\ \A k \in 1..n : more[Len(files) + 1][k] = job.blocks[k]
    BY <1>2, <2>1, PlacesOfAppend
  <2>3. \A k \in 1..n : Contiguous(job.split, job.blocks[k])
    <3>1. DOMAIN job.blocks = 1..n
      BY <1>2, <2>1, LenProperties
    <3> QED
      BY <1>2, <2>1, <3>1 DEF JobPacked
  <2>4. DOMAIN job'.blocks = {}
    BY <2>1
  <2>5. JobPacked(job')
    BY <1>2, <2>1, <2>4 DEF JobPacked
  <2> HIDE DEF more, files
  <2>6. ASSUME NEW q \in Places(more)
        PROVE  Contiguous(job.split, more[q[1]][q[2]])
    <3>1. CASE q \in Places(files)
      <4>1. Contiguous(job.split, files[q[1]][q[2]])
        BY <1>1, <1>2, <2>1, <3>1 DEF SplitPacked, files
      <4> QED
        BY <2>2, <3>1, <4>1
    <3>2. CASE q \in {<<Len(files) + 1, k>> : k \in 1..n}
      <4>1. PICK k \in 1..n : q = <<Len(files) + 1, k>>
        BY <3>2
      <4>2. q[1] = Len(files) + 1 /\ q[2] = k
        BY <4>1
      <4> QED
        BY <2>2, <2>3, <4>2
    <3> QED
      BY <2>2, <3>1, <3>2
  <2>7. ASSUME NEW split \in Splits
        PROVE  SplitPacked(split, progress'[split], shards'[split])
    <3>1. CASE split = job.split
      BY <1>1, <2>1, <2>6, <3>1 DEF SplitPacked
    <3>2. CASE split # job.split
      BY <1>1, <2>1, <3>2
    <3> QED
      BY <3>1, <3>2
  <2> QED
    BY <2>5, <2>7
<1>8. CASE WriteProgress \/ EndSplit
  <2> DEFINE split == job.split
             p     == progress'[split]
  <2>1. /\ job \in Jobs /\ job'.split = split /\ job'.at = job.at
        /\ job'.buffer = job.buffer /\ job'.blocks = job.blocks /\ shards' = shards
        /\ p.buffer = job.buffer
        /\ \A other \in Splits \ {split} : progress'[other] = progress[other]
    BY <1>8, WriteEffect, EndEffect
  <2>2. ~p.cut => Start(split, p) = job.at
    BY <1>8, WrittenStart
  <2> HIDE DEF p
  <2>3. SplitPacked(split, p, shards'[split])
    BY <1>1, <1>2, <2>1, <2>2 DEF SplitPacked, JobPacked
  <2>4. JobPacked(job')
    BY <1>2, <2>1 DEF JobPacked
  <2> QED
    BY <1>1, <2>1, <2>3, <2>4 DEF p
<1>9. CASE WriteManifest \/ JobCrash
  <2>1. job' = Idle /\ progress' = progress /\ shards' = shards
    BY <1>9, ManifestEffect, JobCrashEffect
  <2> QED
    BY <1>1, <2>1
<1> QED
  BY <1>3, <1>4, <1>5, <1>6, <1>7, <1>8, <1>9 DEF TokenizeStep

-------------------------------------------------------------------------------
(* Copies of blocks *)

LEMMA PlacesFinite ==
  ASSUME NEW files \in Shards
  PROVE  IsFiniteSet(Places(files))
<1> DEFINE row(n) == {<<n, k>> : k \in DOMAIN files[n]}
           rows   == {row(n) : n \in DOMAIN files}
           f      == [n \in DOMAIN files |-> row(n)]
<1>1. DOMAIN files = 1..Len(files) /\ Len(files) \in Nat
  BY LenProperties DEF Shards
<1>2. IsFiniteSet(DOMAIN files)
  BY <1>1, FS_Interval
<1>3. f \in Surjection(DOMAIN files, rows)
  BY DEF Surjection
<1>4. IsFiniteSet(rows)
  BY <1>2, <1>3, FS_Surjection
<1>5. ASSUME NEW n \in DOMAIN files
      PROVE  IsFiniteSet(row(n))
  <2>1. files[n] \in Seq(Blocks)
    BY <1>1, ElementOfSeq DEF Shards
  <2>2. DOMAIN files[n] = 1..Len(files[n]) /\ Len(files[n]) \in Nat
    BY <2>1, LenProperties
  <2>3. IsFiniteSet(DOMAIN files[n]) /\ IsFiniteSet({n})
    <3>1. IsFiniteSet(1..Len(files[n]))
      BY <2>2, FS_Interval
    <3> QED
      BY <2>2, <3>1, FS_Singleton
  <2>4. IsFiniteSet({n} \X DOMAIN files[n])
    BY <2>3, FS_Product
  <2>5. row(n) = {n} \X DOMAIN files[n]
    OBVIOUS
  <2> QED
    BY <2>4, <2>5
<1>6. IsFiniteSet(UNION rows)
  BY <1>4, <1>5, FS_UNION
<1>7. Places(files) = UNION rows
  BY DEF Places
<1> QED
  BY <1>6, <1>7

LEMMA CopiedFinite ==
  ASSUME NEW files \in Shards, NEW block
  PROVE  IsFiniteSet(Copied(files, block)) /\ Cardinality(Copied(files, block)) \in Nat
<1>1. Copied(files, block) \in SUBSET Places(files)
  BY DEF Copied
<1>2. IsFiniteSet(Copied(files, block))
  BY <1>1, PlacesFinite, FS_Subset
<1> QED
  BY <1>2, FS_CardinalityType

\* An empty shard adds no copy, and a published one adds those that the job had packed.
LEMMA CopiesOfAppend ==
  ASSUME NEW files \in Shards, NEW blocks \in Seq(Blocks), NEW block
  PROVE  /\ Copied(Append(files, <<>>), block) = Copied(files, block)
         /\ Cardinality(Copied(files, block)) <= Cardinality(Copied(Append(files, blocks), block))
<1>1. <<>> \in Seq(Blocks) /\ 1..Len(<<>>) = {}
  OBVIOUS
<1>2. ASSUME NEW new \in Seq(Blocks)
      PROVE  /\ Append(files, new) \in Shards
             /\ Places(Append(files, new))
                  = Places(files) \cup {<<Len(files) + 1, k>> : k \in 1..Len(new)}
             /\ \A p \in Places(files) : Append(files, new)[p[1]][p[2]] = files[p[1]][p[2]]
  BY PlacesOfAppend
<1>3. Copied(Append(files, <<>>), block) = Copied(files, block)
  <2> DEFINE more == Append(files, <<>>)
  <2>1. \A p \in Places(files) : more[p[1]][p[2]] = files[p[1]][p[2]]
    BY <1>1, <1>2
  <2>2. Places(more) = Places(files) \cup {<<Len(files) + 1, k>> : k \in 1..Len(<<>>)}
    BY <1>1, <1>2
  <2>3. Places(more) = Places(files)
    BY <1>1, <2>2
  <2> HIDE DEF more
  <2> QED
    BY <2>1, <2>3 DEF Copied, more
<1>4. Cardinality(Copied(files, block)) <= Cardinality(Copied(Append(files, blocks), block))
  <2> DEFINE more == Append(files, blocks)
  <2>1. /\ more \in Shards /\ Places(files) \subseteq Places(more)
        /\ \A p \in Places(files) : more[p[1]][p[2]] = files[p[1]][p[2]]
    BY <1>2
  <2> HIDE DEF more
  <2>2. Copied(files, block) \in SUBSET Copied(more, block)
    BY <2>1 DEF Copied
  <2>3. IsFiniteSet(Copied(more, block))
    BY <2>1, CopiedFinite
  <2> QED
    BY <2>2, <2>3, FS_Subset DEF more
<1> QED
  BY <1>3, <1>4

\* Packing a block adds a copy of it alone.
LEMMA CopiesOfPacked ==
  ASSUME NEW files \in Shards, NEW blocks \in Seq(Blocks), NEW packed \in Blocks, NEW block
  PROVE  LET before == Copied(Append(files, blocks), block)
             after  == Copied(Append(files, Append(blocks, packed)), block)
         IN  /\ block # packed => after = before
             /\ Cardinality(after) <= Cardinality(before) + 1
<1> DEFINE longer == Append(blocks, packed)
           old    == Append(files, blocks)
           new    == Append(files, longer)
           n      == Len(blocks)
           l      == Len(files) + 1
           before == Copied(old, block)
           after  == Copied(new, block)
           place  == <<l, n + 1>>
<1>1. /\ longer \in Seq(Blocks) /\ Len(longer) = n + 1 /\ n \in Nat
      /\ \A i \in 1..n : longer[i] = blocks[i]
      /\ longer[n + 1] = packed
  BY RangeOfAppend
<1> HIDE DEF longer
<1>2. /\ old \in Shards /\ Places(old) = Places(files) \cup {<<l, k>> : k \in 1..n}
      /\ \A p \in Places(files) : old[p[1]][p[2]] = files[p[1]][p[2]]
      /\ \A k \in 1..n : old[l][k] = blocks[k]
  BY PlacesOfAppend
<1>3. /\ new \in Shards /\ Places(new) = Places(files) \cup {<<l, k>> : k \in 1..(n + 1)}
      /\ \A p \in Places(files) : new[p[1]][p[2]] = files[p[1]][p[2]]
      /\ \A k \in 1..(n + 1) : new[l][k] = longer[k]
  <2>1. /\ new \in Shards /\ Places(new) = Places(files) \cup {<<l, k>> : k \in 1..Len(longer)}
        /\ \A p \in Places(files) : new[p[1]][p[2]] = files[p[1]][p[2]]
        /\ \A k \in 1..Len(longer) : new[l][k] = longer[k]
    BY <1>1, PlacesOfAppend
  <2>2. 1..Len(longer) = 1..(n + 1)
    BY <1>1
  <2> HIDE DEF n, l, new
  <2> QED
    BY <2>1, <2>2
<1> HIDE DEF n, l, old, new
<1>4. 1..(n + 1) = 1..n \cup {n + 1}
  BY <1>1
<1>5. Places(new) = Places(old) \cup {place}
  BY <1>2, <1>3, <1>4
<1>6. ASSUME NEW p \in Places(old)
      PROVE  new[p[1]][p[2]] = old[p[1]][p[2]]
  <2>1. CASE p \in Places(files)
    BY <1>2, <1>3, <2>1
  <2>2. CASE p \in {<<l, k>> : k \in 1..n}
    <3>1. PICK k \in 1..n : p = <<l, k>>
      BY <2>2
    <3>2. p[1] = l /\ p[2] = k /\ k \in 1..(n + 1)
      BY <1>4, <3>1
    <3> QED
      BY <1>1, <1>2, <1>3, <3>2
  <2> QED
    BY <1>2, <2>1, <2>2
<1>7. new[place[1]][place[2]] = packed
  BY <1>1, <1>3, <1>4
<1> HIDE DEF place
<1>8. before \subseteq after /\ after \subseteq before \cup {place}
  BY <1>5, <1>6 DEF Copied
<1>9. block # packed => after = before
  BY <1>5, <1>6, <1>7 DEF Copied
<1>10. IsFiniteSet(before) /\ Cardinality(before) \in Nat
  BY <1>2, CopiedFinite
<1>11. IsFiniteSet(before \cup {place}) /\ Cardinality(before \cup {place}) <= Cardinality(before) + 1
  <2>1. IsFiniteSet(before \cup {place})
        /\ Cardinality(before \cup {place})
             = IF place \in before THEN Cardinality(before) ELSE Cardinality(before) + 1
    BY <1>10, FS_AddElement
  <2> QED
    BY <1>10, <2>1
<1>12. Cardinality(after) <= Cardinality(before \cup {place})
  BY <1>8, <1>11, FS_Subset
<1>13. Cardinality(after) \in Nat /\ Cardinality(before \cup {place}) \in Nat
  BY <1>3, <1>11, CopiedFinite, FS_CardinalityType
<1>14. Cardinality(after) <= Cardinality(before) + 1
  BY <1>10, <1>11, <1>12, <1>13
<1> QED
  BY <1>9, <1>14 DEF old, new, longer

LEMMA FirstTypes ==
  ASSUME NEW block \in Blocks, block # <<>>
  PROVE  block[1] \in Tokens /\ block[1][1] \in Nat /\ block[1][2] \in Nat
<1>1. Len(block) \in Nat /\ Len(block) # 0
  BY LenProperties, EmptySeq DEF Blocks
<1>2. 1 \in 1..Len(block)
  BY <1>1
<1>3. block[1] \in Tokens
  BY <1>2, ElementOfSeq DEF Blocks
<1> QED
  BY <1>3 DEF Tokens

LEMMA CopiesOfPackedOff ==
  ASSUME NEW files \in Shards, NEW blocks \in Seq(Blocks), NEW buffer \in Blocks, NEW n \in Nat,
         PacksOne(buffer), Ascending(buffer),
         \A block \in Blocks :
           Cardinality(Copied(Append(files, blocks), block))
             <= n + (IF Past(block, buffer) THEN 1 ELSE 0),
         NEW block \in Blocks
  PROVE  Cardinality(Copied(Append(files, Append(blocks, Packed(buffer))), block))
           <= n + (IF Past(block, AfterPack(buffer)) THEN 1 ELSE 0)
<1> DEFINE packed == Packed(buffer)
           after  == AfterPack(buffer)
           old    == Cardinality(Copied(Append(files, blocks), block))
           new    == Cardinality(Copied(Append(files, Append(blocks, packed)), block))
<1>1. /\ packed \in Blocks /\ Len(packed) = SeqLen + 1 /\ packed[1] = buffer[1]
      /\ after \in Blocks /\ Len(after) = Len(buffer) - SeqLen /\ after[1] = buffer[SeqLen + 1]
      /\ Len(buffer) \in Nat /\ Len(buffer) >= SeqLen + 1 /\ DOMAIN buffer = 1..Len(buffer)
  <2>1. SeqLen \in Nat \ {0}
    BY CorpusAssumption
  <2>2. Len(buffer) \in Nat /\ Len(buffer) >= SeqLen + 1
    BY PackSplits DEF Blocks
  <2>3. 1 \in 1..(SeqLen + 1) /\ 1 \in 1..(Len(buffer) - SeqLen)
    BY <2>1, <2>2
  <2> QED
    BY <2>3, PackSplits DEF Blocks
<1>2. SeqLen \in Nat \ {0}
  BY CorpusAssumption
<1>3. packed # <<>> /\ after # <<>> /\ buffer # <<>>
  BY <1>1, <1>2, EmptySeq
<1>4. /\ after[1][1] \in Nat /\ after[1][2] \in Nat
      /\ buffer[1][1] \in Nat /\ buffer[1][2] \in Nat
  BY <1>1, <1>3, FirstTypes
<1>5. Earlier(buffer[1], after[1])
  <2>1. 1 \in 1..Len(buffer) /\ SeqLen + 1 \in 1..Len(buffer) /\ 1 < SeqLen + 1
    BY <1>1, <1>2
  <2> QED
    BY <1>1, <2>1 DEF Ascending
<1>6. /\ block # packed => new = old
      /\ new <= old + 1 /\ old \in Nat /\ new \in Nat
  <2>1. Append(files, blocks) \in Shards
    BY RangeOfAppend DEF Shards
  <2>2. Append(blocks, packed) \in Seq(Blocks)
    BY <1>1, RangeOfAppend
  <2>3. Append(files, Append(blocks, packed)) \in Shards
    BY <2>2, RangeOfAppend DEF Shards
  <2>4. old \in Nat /\ new \in Nat
    BY <2>1, <2>3, CopiedFinite
  <2> HIDE DEF packed
  <2> QED
    BY <1>1, <2>4, CopiesOfPacked
<1>7. old <= n + (IF Past(block, buffer) THEN 1 ELSE 0)
  OBVIOUS
<1> HIDE DEF packed, after, old, new
<1>8. CASE block = packed
  <2>1. ~Past(block, buffer)
    BY <1>1, <1>4, <1>8 DEF Past, Earlier
  <2>2. Past(block, after)
    BY <1>1, <1>3, <1>5, <1>8 DEF Past
  <2>3. old <= n
    BY <1>7, <2>1
  <2> QED
    BY <1>6, <2>2, <2>3 DEF new, packed, after
<1>9. CASE block # packed
  <2>1. Past(block, buffer) => Past(block, after)
    <3> SUFFICES ASSUME Past(block, buffer)
                 PROVE  Past(block, after)
      OBVIOUS
    <3>1. block # <<>> /\ Earlier(block[1], buffer[1])
      BY DEF Past
    <3>2. block[1][1] \in Nat /\ block[1][2] \in Nat
      BY <3>1, FirstTypes
    <3>3. Earlier(block[1], after[1])
      BY <1>4, <1>5, <3>1, <3>2 DEF Earlier
    <3> QED
      BY <1>3, <3>1, <3>3 DEF Past
  <2>2. new <= n + (IF Past(block, buffer) THEN 1 ELSE 0)
    BY <1>6, <1>7, <1>9
  <2>3. new <= n + (IF Past(block, after) THEN 1 ELSE 0)
    BY <1>6, <2>1, <2>2
  <2> QED
    BY <2>3 DEF new, packed, after
<1> QED
  BY <1>8, <1>9

LEMMA PastStays ==
  ASSUME NEW block, NEW buffer \in Blocks, NEW ids \in Blocks, Past(block, buffer)
  PROVE  Past(block, buffer \o ids)
<1>1. buffer # <<>> /\ Len(buffer) \in Nat /\ Len(buffer) # 0 /\ Len(ids) \in Nat
  BY LenProperties, EmptySeq DEF Past, Blocks
<1>2. /\ buffer \o ids \in Blocks /\ Len(buffer \o ids) = Len(buffer) + Len(ids)
      /\ \A i \in 1..Len(buffer) + Len(ids) :
           (buffer \o ids)[i] = IF i <= Len(buffer) THEN buffer[i] ELSE ids[i - Len(buffer)]
  BY ConcatProperties, RangeOfConcat DEF Blocks
<1>3. 1 \in 1..Len(buffer) + Len(ids) /\ 1 <= Len(buffer)
  BY <1>1
<1>4. (buffer \o ids)[1] = buffer[1]
  BY <1>2, <1>3
<1>5. buffer \o ids # <<>>
  BY <1>1, <1>2, EmptySeq
<1> QED
  BY <1>4, <1>5 DEF Past

LEMMA CopiesBoundedKept ==
  ASSUME TokenizeTypes, JobPlaced, TextPacked, CopiesBounded, TokenizeStep \/ JobCrash
  PROVE  CopiesBounded'
<1> SUFFICES ASSUME ~resumedCut'
             PROVE  /\ job' = Idle =>
                         \A split \in Splits :
                           AtMost(shards'[split], crashes' + (IF manifest' # <<>> THEN 1 ELSE 0))
                    /\ job' # Idle =>
                         /\ JobCopies(job', shards'[job'.split], crashes')
                         /\ IF job'.split = "train" THEN AtMost(shards'["val"], crashes')
                            ELSE AtMost(shards'["train"], crashes' + 1)
  BY DEF CopiesBounded
<1>0. ~resumedCut
  <2>1. CASE StartJob \/ NextSplit
    <3> DEFINE split == IF job = Idle THEN "train" ELSE "val"
    <3>1. split \in Splits /\ OpenSplit(split)
      BY <2>1, Opening
    <3> QED
      BY <3>1, OpenEffect
  <2>2. CASE ~(StartJob \/ NextSplit)
    <3>1. resumedCut' = resumedCut
      BY <2>2 DEF TokenizeStep, AddDocument, PackBlock, BatchRead, SaveTemporary,
                  PublishShard, WriteProgress, EndSplit, WriteManifest, JobCrash
    <3> QED
      BY <3>1
  <2> QED
    BY <2>1, <2>2
<1>1. /\ "train" \in Splits /\ "val" \in Splits /\ crashes \in Nat /\ crashes + 1 \in Nat
      /\ \A split \in Splits : split = "train" \/ split = "val"
      /\ \A split \in Splits : shards[split] \in Shards
  BY ProgressTyped DEF Splits, TokenizeTypes
<1>2. job = Idle =>
        \A split \in Splits : AtMost(shards[split], crashes + (IF manifest # <<>> THEN 1 ELSE 0))
  BY <1>0 DEF CopiesBounded
<1>3. job # Idle => /\ job \in Jobs /\ job.split \in Splits
                    /\ job.buffer \in Blocks /\ job.blocks \in Seq(Blocks)
                    /\ JobCopies(job, shards[job.split], crashes)
                    /\ job.split = "train" => AtMost(shards["val"], crashes)
                    /\ job.split = "val" => AtMost(shards["train"], crashes + 1)
  BY <1>0, Working, JobFields DEF CopiesBounded
\* What the shards of the job's split have without the blocks that are packed.
<1>4. ASSUME job # Idle
      PROVE  AtMost(shards[job.split], crashes + 1)
  <2> DEFINE files == shards[job.split]
  <2> SUFFICES ASSUME NEW block \in Blocks
               PROVE  Cardinality(Copied(files, block)) <= crashes + 1
    BY DEF AtMost
  <2> DEFINE now   == Cardinality(Copied(files, block))
             later == Cardinality(Copied(Append(files, job.blocks), block))
  <2>1. files \in Shards /\ job.blocks \in Seq(Blocks)
    BY <1>1, <1>3, <1>4
  <2>2. later <= crashes + (IF Past(block, job.buffer) THEN 1 ELSE 0)
    BY <1>3, <1>4 DEF JobCopies
  <2> HIDE DEF files
  <2>3. now <= later
    BY <2>1, CopiesOfAppend
  <2>4. now \in Nat /\ later \in Nat
    <3>1. Append(files, job.blocks) \in Shards
      BY <2>1, RangeOfAppend DEF Shards
    <3> QED
      BY <2>1, <3>1, CopiedFinite
  <2> HIDE DEF now, later
  <2>5. now <= crashes + 1
    BY <1>1, <2>2, <2>3, <2>4
  <2> QED
    BY <2>5 DEF now
\* A smaller bound implies a larger one.
<1>5. ASSUME NEW split \in Splits, NEW m \in Nat, NEW n \in Nat, m <= n, AtMost(shards[split], m)
      PROVE  AtMost(shards[split], n)
  <2> SUFFICES ASSUME NEW block \in Blocks
               PROVE  Cardinality(Copied(shards[split], block)) <= n
    BY DEF AtMost
  <2>1. Cardinality(Copied(shards[split], block)) <= m
    BY <1>5 DEF AtMost
  <2>2. Cardinality(Copied(shards[split], block)) \in Nat
    BY <1>1, CopiedFinite
  <2> HIDE DEF Copied
  <2> QED
    BY <1>5, <2>1, <2>2
\* A job that begins has packed nothing.
<1>6. ASSUME NEW split \in Splits, job' # Idle, job'.blocks = <<>>, job'.buffer \in Blocks,
             shards'[split] = shards[split], AtMost(shards[split], crashes)
      PROVE  JobCopies(job', shards'[split], crashes)
  <2> SUFFICES ASSUME NEW block \in Blocks
               PROVE  Cardinality(Copied(Append(shards[split], <<>>), block))
                        <= crashes + (IF Past(block, job'.buffer) THEN 1 ELSE 0)
    BY <1>6 DEF JobCopies
  <2>1. Copied(Append(shards[split], <<>>), block) = Copied(shards[split], block)
    BY <1>1, CopiesOfAppend, EmptySeq
  <2>2. Cardinality(Copied(shards[split], block)) <= crashes
    BY <1>6 DEF AtMost
  <2>3. Cardinality(Copied(shards[split], block)) \in Nat
    BY <1>1, CopiedFinite
  <2> QED
    BY <1>1, <2>1, <2>2, <2>3
\* The job goes on with its split.
<1>7. ASSUME job # Idle, job' # Idle, job'.split = job.split, crashes' = crashes,
             \A split \in Splits \ {job.split} : shards'[split] = shards[split],
             \A block \in Blocks :
               Cardinality(Copied(Append(shards'[job.split], job'.blocks), block))
                 <= crashes + (IF Past(block, job'.buffer) THEN 1 ELSE 0)
      PROVE  /\ job' = Idle =>
                  \A split \in Splits :
                    AtMost(shards'[split], crashes' + (IF manifest' # <<>> THEN 1 ELSE 0))
             /\ job' # Idle =>
                  /\ JobCopies(job', shards'[job'.split], crashes')
                  /\ IF job'.split = "train" THEN AtMost(shards'["val"], crashes')
                     ELSE AtMost(shards'["train"], crashes' + 1)
  <2>1. JobCopies(job', shards'[job'.split], crashes')
    BY <1>7 DEF JobCopies
  <2>2. job.split = "train" => shards'["val"] = shards["val"]
    BY <1>1, <1>7
  <2>3. job.split = "val" => shards'["train"] = shards["train"]
    BY <1>1, <1>7
  <2> QED
    BY <1>1, <1>3, <1>7, <2>1, <2>2, <2>3
<1>8. CASE StartJob \/ NextSplit
  <2> DEFINE split == IF job = Idle THEN "train" ELSE "val"
  <2>1. /\ split \in Splits /\ OpenSplit(split) /\ shards' = shards /\ crashes' = crashes
        /\ job = Idle => manifest = <<>>
        /\ job # Idle => job.split = "train"
    BY <1>8, Opening
  <2>2. /\ job' \in Jobs /\ job'.split = split /\ job'.blocks = <<>>
    BY <2>1, OpenEffect
  <2>3. job' # Idle /\ job'.buffer \in Blocks
    BY <2>2, JobFields
  <2>4. CASE job = Idle
    <3>1. AtMost(shards["train"], crashes) /\ AtMost(shards["val"], crashes)
      BY <1>1, <1>2, <2>1, <2>4
    <3>2. JobCopies(job', shards'["train"], crashes)
      BY <1>1, <1>6, <2>1, <2>2, <2>3, <3>1
    <3> QED
      BY <2>1, <2>2, <2>3, <2>4, <3>1, <3>2
  <2>5. CASE job # Idle
    <3>1. AtMost(shards["val"], crashes)
      BY <1>3, <2>1, <2>5
    <3>2. JobCopies(job', shards'["val"], crashes)
      BY <1>1, <1>6, <2>1, <2>2, <2>3, <3>1
    <3>3. AtMost(shards["train"], crashes + 1)
      BY <1>4, <2>1, <2>5
    <3> QED
      BY <2>1, <2>2, <2>3, <2>5, <3>2, <3>3
  <2> QED
    BY <2>4, <2>5
<1>9. CASE AddDocument
  <2> DEFINE ids == Encoded(job.split, job.at, Least)
  <2>1. /\ job \in Jobs /\ ids \in Blocks /\ job' \in Jobs /\ job'.split = job.split
        /\ job'.buffer = job.buffer \o ids /\ job'.blocks = job.blocks
        /\ shards' = shards /\ crashes' = crashes
    BY <1>9, AddEffect
  <2> HIDE DEF ids
  <2>2. job # Idle /\ job' # Idle
    BY <2>1, JobFields
  <2>3. ASSUME NEW block \in Blocks
        PROVE  Cardinality(Copied(Append(shards'[job.split], job'.blocks), block))
                 <= crashes + (IF Past(block, job'.buffer) THEN 1 ELSE 0)
    <3> DEFINE now == Cardinality(Copied(Append(shards[job.split], job.blocks), block))
    <3>1. now <= crashes + (IF Past(block, job.buffer) THEN 1 ELSE 0)
      BY <1>3, <2>2 DEF JobCopies
    <3>2. Past(block, job.buffer) => Past(block, job.buffer \o ids)
      BY <1>3, <2>1, <2>2, PastStays
    <3>3. now \in Nat
      <4>1. Append(shards[job.split], job.blocks) \in Shards
        BY <1>1, <1>3, <2>2, RangeOfAppend DEF Shards
      <4> QED
        BY <4>1, CopiedFinite
    <3> HIDE DEF now
    <3>4. now <= crashes + (IF Past(block, job.buffer \o ids) THEN 1 ELSE 0)
      BY <1>1, <3>1, <3>2, <3>3
    <3> QED
      BY <2>1, <3>4 DEF now
  <2> QED
    BY <1>7, <2>1, <2>2, <2>3
<1>10. CASE PackBlock
  <2>1. /\ job \in Jobs /\ PacksOne(job.buffer) /\ job' \in Jobs /\ job'.split = job.split
        /\ job'.buffer = AfterPack(job.buffer)
        /\ job'.blocks = Append(job.blocks, Packed(job.buffer))
        /\ shards' = shards /\ crashes' = crashes
    BY <1>10, PackEffect
  <2>2. job # Idle /\ job' # Idle
    BY <2>1, JobFields
  <2>3. Ascending(job.buffer)
    BY <1>0, <2>2 DEF TextPacked, JobPacked, TextUpTo
  <2>4. \A block \in Blocks :
          Cardinality(Copied(Append(shards[job.split], job.blocks), block))
            <= crashes + (IF Past(block, job.buffer) THEN 1 ELSE 0)
    BY <1>3, <2>2 DEF JobCopies
  <2>5. /\ shards[job.split] \in Shards /\ job.blocks \in Seq(Blocks) /\ job.buffer \in Blocks
    BY <1>1, <1>3, <2>2
  <2>6. ASSUME NEW block \in Blocks
        PROVE  Cardinality(Copied(Append(shards[job.split],
                                         Append(job.blocks, Packed(job.buffer))), block))
                 <= crashes + (IF Past(block, AfterPack(job.buffer)) THEN 1 ELSE 0)
    BY <1>1, <2>1, <2>3, <2>4, <2>5, CopiesOfPackedOff
  <2> QED
    BY <1>7, <2>1, <2>2, <2>6
<1>11. CASE BatchRead \/ SaveTemporary \/ WriteProgress \/ EndSplit
  <2>1. /\ job \in Jobs /\ job' \in Jobs /\ job'.split = job.split
        /\ job'.buffer = job.buffer /\ job'.blocks = job.blocks
        /\ shards' = shards /\ crashes' = crashes
    BY <1>11, BatchReadEffect, SaveEffect, WriteEffect, EndEffect
  <2>2. job # Idle /\ job' # Idle
    BY <2>1, JobFields
  <2>3. \A block \in Blocks :
          Cardinality(Copied(Append(shards'[job.split], job'.blocks), block))
            <= crashes + (IF Past(block, job'.buffer) THEN 1 ELSE 0)
    BY <1>3, <2>1, <2>2 DEF JobCopies
  <2> QED
    BY <1>7, <2>1, <2>2, <2>3
<1>12. CASE PublishShard
  <2> DEFINE more == Append(shards[job.split], job.blocks)
  <2>1. /\ job \in Jobs /\ job' \in Jobs /\ job'.split = job.split
        /\ job'.buffer = job.buffer /\ job'.blocks = <<>>
        /\ shards'[job.split] = more /\ crashes' = crashes
        /\ \A split \in Splits \ {job.split} : shards'[split] = shards[split]
    BY <1>12, PublishEffect
  <2>2. job # Idle /\ job' # Idle
    BY <2>1, JobFields
  <2>3. more \in Shards
    BY <1>1, <1>3, <2>2, RangeOfAppend DEF Shards
  <2>4. \A block \in Blocks :
          Cardinality(Copied(more, block)) <= crashes + (IF Past(block, job.buffer) THEN 1 ELSE 0)
    BY <1>3, <2>2 DEF JobCopies
  <2> HIDE DEF more
  <2>5. \A block : Copied(Append(more, <<>>), block) = Copied(more, block)
    BY <2>3, CopiesOfAppend, EmptySeq
  <2>6. \A block \in Blocks :
          Cardinality(Copied(Append(shards'[job.split], job'.blocks), block))
            <= crashes + (IF Past(block, job'.buffer) THEN 1 ELSE 0)
    BY <2>1, <2>4, <2>5
  <2> QED
    BY <1>7, <2>1, <2>2, <2>6
<1>13. CASE WriteManifest
  <2>1. /\ job \in Jobs /\ job.split = "val" /\ job' = Idle /\ shards' = shards
        /\ crashes' = crashes /\ manifest' = [listed |-> shards, torn |-> temporary]
    BY <1>13, ManifestEffect
  <2>2. job # Idle
    BY <2>1, JobFields
  <2>3. manifest' # <<>>
    <3>1. "listed" \in DOMAIN manifest' /\ DOMAIN <<>> = {}
      BY <2>1
    <3> QED
      BY <3>1
  <2>4. AtMost(shards["train"], crashes + 1) /\ AtMost(shards["val"], crashes + 1)
    BY <1>3, <1>4, <2>1, <2>2
  <2> QED
    BY <1>1, <2>1, <2>3, <2>4
<1>14. CASE JobCrash
  <2> DEFINE n == crashes + 1 + (IF manifest # <<>> THEN 1 ELSE 0)
  <2>1. /\ job # Idle /\ job \in Jobs /\ job' = Idle /\ crashes' = crashes + 1
        /\ shards' = shards /\ manifest' = manifest
    BY <1>14, JobCrashEffect
  <2>2. n \in Nat /\ crashes <= n /\ crashes + 1 <= n
    BY <1>1
  <2> HIDE DEF n
  <2>3. ASSUME NEW split \in Splits
        PROVE  AtMost(shards[split], n)
    <3>1. CASE split = job.split
      BY <1>1, <1>4, <1>5, <2>1, <2>2, <3>1
    <3>2. CASE split # job.split /\ job.split = "train"
      <4>1. split = "val" /\ AtMost(shards["val"], crashes)
        BY <1>1, <1>3, <2>1, <3>2
      <4> QED
        BY <1>1, <1>5, <2>2, <4>1
    <3>3. CASE split # job.split /\ job.split = "val"
      <4>1. split = "train" /\ AtMost(shards["train"], crashes + 1)
        BY <1>1, <1>3, <2>1, <3>3
      <4> QED
        BY <1>1, <1>5, <2>2, <4>1
    <3> QED
      BY <1>1, <1>3, <2>1, <3>1, <3>2, <3>3
  <2> QED
    BY <2>1, <2>3 DEF n
<1> QED
  BY <1>8, <1>9, <1>10, <1>11, <1>12, <1>13, <1>14 DEF TokenizeStep

-------------------------------------------------------------------------------
(* What a .tmp.npy is left for *)

\* A job that is about to pack has more of the row batch to read.
LEMMA FillsAhead ==
  ASSUME TokenizeTypes, JobPlaced, job \in Jobs, job.doing = "rows", ~PacksOne(job.buffer),
         NEW row \in Nat, NEW held \in [Start(job.split, progress[job.split])..row -> Nat],
         FillsAt(job.split, progress[job.split], held, row, limit),
         job.at <= row, held[job.at] = Len(job.buffer)
  PROVE  /\ job.at + 1 <= row /\ job.at <= Len(Rows[job.split]) /\ job.at - job.base < limit
         /\ held[job.at + 1] = Len(job.buffer) + Len(Encoded(job.split, job.at, Least))
         /\ job.at > job.base => SameBatch(job.split, job.at, job.at - 1)
<1> DEFINE split == job.split
           at    == job.at
           s     == job.base
           size  == Len(job.buffer)
<1>0. job # Idle /\ split \in Splits /\ at \in Nat \ {0} /\ s \in Nat \ {0} /\ job.buffer \in Blocks
  BY JobFields
<1>1. s = Start(split, progress[split]) /\ s <= at
  BY <1>0 DEF JobPlaced, PlacedAt
<1>2. /\ SeqLen \in Nat \ {0} /\ limit \in Nat \ {0} /\ size \in Nat
      /\ End(split) = Len(Rows[split]) + 1 /\ Len(Rows[split]) \in Nat
  BY <1>0, RowsTyped, CorpusAssumption, LenProperties DEF TokenizeTypes, End, Blocks
<1>3. ~(size > SeqLen)
  BY DEF PacksOne
<1>4. /\ row \in s..End(split) /\ row - s <= limit
      /\ \A i \in s..(row - 1) : SameBatch(split, i, s)
      /\ \A i \in s..(row - 1) : held[i + 1] = held[i] + Len(Encoded(split, i, Least))
      /\ held[row] > SeqLen /\ held[at] = size
  BY <1>1 DEF FillsAt, Reached, Counts
<1> HIDE DEF s, at, split, size
<1>5. at # row /\ at <= row
  BY <1>3, <1>4 DEF at
<1>6. at + 1 <= row /\ at \in s..(row - 1) /\ at <= Len(Rows[split]) /\ at - s < limit
  BY <1>0, <1>1, <1>2, <1>4, <1>5
<1>7. held[at + 1] = size + Len(Encoded(split, at, Least))
  BY <1>4, <1>6
<1>8. ASSUME at > s
      PROVE  SameBatch(split, at, at - 1)
  <2>1. at - 1 \in s..(row - 1)
    BY <1>0, <1>6, <1>8
  <2>2. SameBatch(split, at, s) /\ SameBatch(split, at - 1, s)
    BY <1>4, <1>6, <2>1
  <2> QED
    BY <2>2 DEF SameBatch
<1> QED
  BY <1>6, <1>7, <1>8 DEF s, at, split, size

\* Nothing is packed when nothing is read.
LEMMA NothingReadYet ==
  ASSUME NEW j \in Jobs, NEW p, j.at = j.base, j.blocks = <<>>, j.buffer = p.buffer
  PROVE  NothingPacked(j, p)
<1> DEFINE b    == j.base
           held == [i \in b..b |-> Len(p.buffer)]
<1>1. b \in Nat \ {0} /\ j.buffer \in Blocks
  BY JobFields
<1>2. Len(p.buffer) \in Nat
  BY <1>1, LenProperties DEF Blocks
<1> HIDE DEF b
<1>3. held \in [b..b -> Nat] /\ held[b] = Len(p.buffer) /\ b..(b - 1) = {}
  BY <1>1, <1>2
<1> HIDE DEF held
<1>4. Counts(j.split, held, b, b)
  BY <1>3 DEF Counts
<1>5. \E h \in [j.base..j.at -> Nat] :
        /\ Counts(j.split, h, j.base, j.at)
        /\ h[j.base] = Len(p.buffer) /\ h[j.at] = Len(j.buffer)
  BY <1>3, <1>4 DEF b
<1> QED
  BY <1>5 DEF NothingPacked

LEMMA NothingPackedStill ==
  ASSUME NEW j \in Jobs, NEW k \in Jobs, NEW p, NothingPacked(j, p),
         j.at \in 1..Len(Rows[j.split]), j.base <= j.at,
         k.split = j.split, k.base = j.base, k.at = j.at + 1, k.blocks = j.blocks,
         k.buffer = j.buffer \o Encoded(j.split, j.at, Least)
  PROVE  NothingPacked(k, p)
<1> DEFINE s   == j.split
           b   == j.base
           at  == j.at
           ids == Encoded(s, at, Least)
           size == Len(j.buffer)
<1>1. s \in Splits /\ b \in Nat \ {0} /\ at \in Nat \ {0} /\ j.buffer \in Blocks /\ b <= at
  BY JobFields
<1>2. j.blocks = <<>>
  BY DEF NothingPacked
<1>3. PICK held \in [b..at -> Nat] :
        Counts(s, held, b, at) /\ held[b] = Len(p.buffer) /\ held[at] = size
  BY DEF NothingPacked
<1>4. ids \in Blocks /\ Len(ids) \in Nat
  <2>1. ids \in Blocks
    BY <1>1, EncodedIs DEF Blocks, Least
  <2> HIDE DEF ids
  <2> QED
    BY <2>1, LenProperties DEF Blocks
<1>5. size \in Nat
  BY <1>1, LenProperties DEF Blocks
<1> HIDE DEF ids
<1>6. Len(j.buffer \o ids) = size + Len(ids)
  BY <1>1, <1>4, ConcatProperties DEF Blocks
<1> DEFINE more == [i \in b..(at + 1) |-> IF i <= at THEN held[i] ELSE size + Len(ids)]
<1> HIDE DEF s, b, at, size
<1>7. more \in [b..(at + 1) -> Nat]
  <2> SUFFICES ASSUME NEW i \in b..(at + 1)
               PROVE  (IF i <= at THEN held[i] ELSE size + Len(ids)) \in Nat
    OBVIOUS
  <2>1. CASE i <= at
    <3>1. i \in b..at
      BY <1>1, <2>1
    <3> QED
      BY <1>3, <2>1, <3>1
  <2>2. CASE ~(i <= at)
    BY <1>4, <1>5, <2>2
  <2> QED
    BY <2>1, <2>2
<1>8. /\ \A i \in b..at : more[i] = held[i]
      /\ more[at + 1] = size + Len(ids)
  <2>1. at + 1 \in b..(at + 1) /\ ~(at + 1 <= at)
    BY <1>1
  <2>2. more[at + 1] = size + Len(ids)
    BY <2>1
  <2>3. ASSUME NEW i \in b..at
        PROVE  more[i] = held[i]
    <3>1. i \in b..(at + 1) /\ i <= at
      BY <1>1
    <3> QED
      BY <3>1
  <2> QED
    BY <2>2, <2>3
<1> HIDE DEF more
<1>9. Counts(s, more, b, at + 1)
  <2>1. ASSUME NEW i \in b..(at + 1 - 1)
        PROVE  more[i + 1] = more[i] + Len(Encoded(s, i, Least))
    <3>1. CASE i = at
      <4>1. at \in b..at /\ more[at] = size
        BY <1>1, <1>3, <1>8
      <4> QED
        BY <1>8, <3>1, <4>1 DEF ids
    <3>2. CASE i # at
      <4>1. i \in b..(at - 1) /\ i \in b..at /\ i + 1 \in b..at
        BY <1>1, <3>2
      <4>2. held[i + 1] = held[i] + Len(Encoded(s, i, Least))
        BY <1>3, <4>1 DEF Counts
      <4> QED
        BY <1>8, <4>1, <4>2
    <3> QED
      BY <3>1, <3>2
  <2> QED
    BY <1>1, <1>7, <2>1 DEF Counts
<1>10. more[b] = Len(p.buffer) /\ more[at + 1] = Len(k.buffer)
  <2>1. b \in b..at
    BY <1>1
  <2> QED
    BY <1>3, <1>6, <1>8, <2>1 DEF s, at, ids
<1>11. \E h \in [k.base..k.at -> Nat] :
         /\ Counts(k.split, h, k.base, k.at)
         /\ h[k.base] = Len(p.buffer) /\ h[k.at] = Len(k.buffer)
  BY <1>7, <1>9, <1>10 DEF s, b, at
<1> QED
  BY <1>2, <1>11 DEF NothingPacked

\* A job that packs for the first time does so wherever the next launch begins too.
LEMMA PacksAgain ==
  ASSUME NEW j \in Jobs, NEW p, NEW max \in Nat, PlacedAt(j, p, max), j.doing = "rows",
         NothingPacked(j, p), PacksOne(j.buffer)
  PROVE  WillPack(j.split, p, max)
<1> DEFINE s == j.split
           b == j.base
           at == j.at
<1>1. /\ s \in Splits /\ b \in Nat \ {0} /\ at \in Nat \ {0} /\ j.docs \in Nat
      /\ j.buffer \in Blocks /\ Len(j.buffer) \in Nat /\ End(s) \in Nat
  BY JobFields, RowsTyped, LenProperties DEF Blocks
<1>2. /\ b <= at /\ at <= End(s) /\ at - b <= j.docs /\ j.docs <= max
      /\ \A i \in b..(at - 1) : SameBatch(s, i, b)
      /\ b = Start(s, p)
  BY DEF PlacedAt
<1>3. PICK held \in [b..at -> Nat] :
        Counts(s, held, b, at) /\ held[b] = Len(p.buffer) /\ held[at] = Len(j.buffer)
  BY DEF NothingPacked
<1>4. held[at] > SeqLen
  BY <1>3 DEF PacksOne
<1> HIDE DEF s, b, at
<1>5. Reached(s, b, at, max)
  BY <1>1, <1>2 DEF Reached
<1>6. FillsAt(s, p, held, at, max)
  BY <1>2, <1>3, <1>4, <1>5 DEF FillsAt
<1> QED
  BY <1>1, <1>2, <1>3, <1>6 DEF WillPack, s

LEMMA TemporaryKept ==
  ASSUME TokenizeTypes, JobPlaced, TemporaryRewritten, TokenizeStep \/ JobCrash
  PROVE  TemporaryRewritten'
<1>0. limit \in Nat \ {0} /\ \A split \in Splits : split = "train" \/ split = "val"
  BY DEF TokenizeTypes, Splits
<1>1. /\ \A split \in temporary :
           IF job # Idle /\ job.split = split THEN Rewrites(job, progress[split], limit)
           ELSE WillPack(split, progress[split], limit)
      /\ temporary \subseteq Splits
  BY DEF TemporaryRewritten, TokenizeTypes
<1>2. job \in Jobs => /\ job # Idle /\ PacksFirst(job, progress[job.split], limit)
                      /\ PlacedAt(job, progress[job.split], limit)
                      /\ job.split = "val" => "train" \notin temporary
                      /\ job.split \in Splits /\ job.at \in Nat \ {0} /\ job.base \in Nat \ {0}
                      /\ job.docs \in Nat /\ job.buffer \in Blocks /\ Len(job.buffer) \in Nat
                      /\ Len(Rows[job.split]) \in Nat
                      /\ End(job.split) = Len(Rows[job.split]) + 1
  BY JobFields, RowsTyped, LenProperties DEF TemporaryRewritten, JobPlaced, Blocks, End
\* The job goes on with its split and leaves no other temporary file.
<1>3. ASSUME job \in Jobs, job' \in Jobs, job'.split = job.split, limit' = limit,
             \A split \in Splits \ {job.split} : progress'[split] = progress[split],
             temporary' \ {job.split} \subseteq temporary, temporary' \subseteq Splits,
             PacksFirst(job', progress'[job.split], limit),
             job.split \in temporary' => Rewrites(job', progress'[job.split], limit)
      PROVE  TemporaryRewritten'
  <2>1. job' # Idle /\ job # Idle
    BY <1>3, JobFields
  <2>2. ASSUME NEW split \in temporary'
        PROVE  IF job' # Idle /\ job'.split = split THEN Rewrites(job', progress'[split], limit')
               ELSE WillPack(split, progress'[split], limit')
    <3>1. CASE split = job.split
      BY <1>3, <2>1, <3>1
    <3>2. CASE split # job.split
      <4>1. split \in temporary /\ split \in Splits \ {job.split}
        BY <1>3, <3>2
      <4>2. WillPack(split, progress[split], limit)
        BY <1>1, <3>2, <4>1
      <4> QED
        BY <1>3, <2>1, <3>2, <4>1, <4>2
    <3> QED
      BY <3>1, <3>2
  <2>3. job'.split = "val" => "train" \notin temporary'
    BY <1>2, <1>3
  <2> QED
    BY <1>3, <2>2, <2>3 DEF TemporaryRewritten
<1>4. CASE StartJob \/ NextSplit
  <2> DEFINE split == IF job = Idle THEN "train" ELSE "val"
             p     == progress[split]
  <2>1. /\ split \in Splits /\ OpenSplit(split) /\ progress' = progress /\ limit' = limit
        /\ temporary' = temporary
        /\ job # Idle => job \in Jobs /\ job.doing = "returned" /\ job.split = "train"
    BY <1>4, Opening
  <2>2. /\ job' \in Jobs /\ job'.doing = "rows" /\ job'.split = split
        /\ job'.base = Start(split, p) /\ job'.at = Start(split, p)
        /\ job'.docs = 0 /\ job'.buffer = p.buffer /\ job'.blocks = <<>>
    BY <2>1, OpenEffect
  <2>3. job' # Idle
    BY <2>2, JobFields
  <2>4. job # Idle => "train" \notin temporary
    BY <1>1, <2>1 DEF Rewrites
  <2>5. \A other \in temporary : WillPack(other, progress[other], limit)
    BY <1>0, <1>1, <2>1, <2>4
  <2>6. PacksFirst(job', p, limit)
    BY <2>2, NothingReadYet DEF PacksFirst
  <2>7. WillPack(split, p, limit) => Rewrites(job', p, limit)
    <3> SUFFICES ASSUME NEW row \in Nat, NEW held \in [Start(split, p)..row -> Nat],
                        FillsAt(split, p, held, row, limit)
                 PROVE  Rewrites(job', p, limit)
      BY DEF WillPack
    <3>1. Start(split, p) \in Nat \ {0}
      BY <2>1, ProgressTyped
    <3>2. Start(split, p) - Start(split, p) = 0
      BY <3>1
    <3>3. row \in Start(split, p)..End(split) /\ held[Start(split, p)] = Len(p.buffer)
      BY DEF FillsAt, Reached
    <3>4. End(split) \in Nat
      BY <2>1, RowsTyped
    <3>5. Start(split, p) <= row
      BY <3>1, <3>3, <3>4
    <3>6. AboutToPack(job', p, limit)
      BY <2>2, <3>2, <3>3, <3>5 DEF AboutToPack
    <3> QED
      BY <2>2, <3>6 DEF Rewrites
  <2>8. job'.split = "val" => "train" \notin temporary'
    BY <2>1, <2>2, <2>4
  <2>9. ASSUME NEW other \in temporary'
        PROVE  IF job' # Idle /\ job'.split = other THEN Rewrites(job', progress'[other], limit')
               ELSE WillPack(other, progress'[other], limit')
    BY <2>1, <2>2, <2>3, <2>5, <2>7, <2>9
  <2>10. job' # Idle => PacksFirst(job', progress'[job'.split], limit')
    BY <2>1, <2>2, <2>6
  <2> QED
    BY <2>8, <2>9, <2>10 DEF TemporaryRewritten
<1>5. CASE AddDocument
  <2> DEFINE ids == Encoded(job.split, job.at, Least)
             p   == progress[job.split]
  <2>1. /\ job \in Jobs /\ job.doing = "rows" /\ ~PacksOne(job.buffer)
        /\ job.docs < limit /\ job.at \in 1..Len(Rows[job.split]) /\ ids \in Blocks
        /\ job' \in Jobs /\ job'.doing = "rows" /\ job'.split = job.split
        /\ job'.base = job.base /\ job'.at = job.at + 1 /\ job'.docs = job.docs + 1
        /\ job'.buffer = job.buffer \o ids /\ job'.blocks = job.blocks
        /\ limit' = limit /\ progress' = progress /\ temporary' = temporary
    BY <1>5, AddEffect
  <2>2. job.base = Start(job.split, p) /\ job.base <= job.at
    BY <1>2, <2>1 DEF PlacedAt
  <2>3. PacksFirst(job', p, limit)
    <3>1. WillPack(job.split, p, limit) \/ NothingPacked(job, p)
      BY <1>2, <2>1 DEF PacksFirst
    <3>2. CASE NothingPacked(job, p)
      BY <2>1, <2>2, <3>2, NothingPackedStill DEF PacksFirst
    <3> QED
      BY <2>1, <3>1, <3>2 DEF PacksFirst
  <2>4. ASSUME job.split \in temporary'
        PROVE  Rewrites(job', p, limit)
    <3>1. Rewrites(job, p, limit)
      BY <1>1, <1>2, <2>1, <2>4
    <3>2. CASE job.blocks # <<>>
      BY <2>1, <3>2 DEF Rewrites
    <3>3. CASE AboutToPack(job, p, limit)
      <4>1. job.docs = job.at - job.base
        BY <3>3 DEF AboutToPack
      <4>2. PICK row \in Nat : \E held \in [Start(job.split, p)..row -> Nat] :
              /\ FillsAt(job.split, p, held, row, limit) /\ job.at <= row
              /\ held[job.at] = Len(job.buffer)
        BY <3>3 DEF AboutToPack
      <4>3. PICK held \in [Start(job.split, p)..row -> Nat] :
              /\ FillsAt(job.split, p, held, row, limit) /\ job.at <= row
              /\ held[job.at] = Len(job.buffer)
        BY <4>2
      <4>5. job.at + 1 <= row /\ held[job.at + 1] = Len(job.buffer) + Len(ids)
        BY <2>1, <4>3, FillsAhead
      <4>6. Len(job.buffer \o ids) = Len(job.buffer) + Len(ids)
        BY <1>2, <2>1, ConcatProperties DEF Blocks
      <4>7. job'.docs = job'.at - job'.base
        BY <1>2, <2>1, <4>1
      <4> HIDE DEF ids, p
      <4>8. job'.at <= row /\ held[job'.at] = Len(job'.buffer)
        BY <2>1, <4>5, <4>6
      <4>9. AboutToPack(job', p, limit)
        BY <2>1, <4>3, <4>7, <4>8 DEF AboutToPack
      <4> QED
        BY <2>1, <4>9 DEF Rewrites
    <3> QED
      BY <3>1, <3>2, <3>3 DEF Rewrites
  <2> QED
    BY <1>1, <1>3, <2>1, <2>3, <2>4
<1>6. CASE PackBlock
  <2> DEFINE p == progress[job.split]
  <2>1. /\ job \in Jobs /\ job.doing = "rows" /\ PacksOne(job.buffer)
        /\ job' \in Jobs /\ job'.doing \in {"rows", "save"} /\ job'.split = job.split
        /\ job'.blocks # <<>>
        /\ limit' = limit /\ progress' = progress /\ temporary' = temporary
    BY <1>6, PackEffect
  <2>2. WillPack(job.split, p, limit) \/ NothingPacked(job, p)
    BY <1>2, <2>1 DEF PacksFirst
  <2>3. WillPack(job.split, p, limit)
    <3>1. limit \in Nat /\ PlacedAt(job, p, limit)
      BY <1>0, <1>2, <2>1
    <3> QED
      BY <2>1, <2>2, <3>1, PacksAgain
  <2>4. PacksFirst(job', p, limit)
    BY <2>1, <2>3 DEF PacksFirst
  <2>5. Rewrites(job', p, limit)
    BY <2>1 DEF Rewrites
  <2> QED
    BY <1>1, <1>3, <2>1, <2>4, <2>5
<1>7. CASE BatchRead
  <2> DEFINE p == progress[job.split]
  <2>1. /\ job \in Jobs /\ job.doing = "rows" /\ ~PacksOne(job.buffer)
        /\ AtBatchEnd(job) \/ (job.docs >= limit /\ job.at <= Len(Rows[job.split]))
        /\ job' \in Jobs /\ job'.split = job.split
        /\ job'.doing = (IF job.blocks = <<>> THEN "progress" ELSE "save")
        /\ job'.base = job.base /\ job'.at = job.at /\ job'.docs = job.docs
        /\ job'.buffer = job.buffer /\ job'.blocks = job.blocks
        /\ limit' = limit /\ progress' = progress /\ temporary' = temporary
    BY <1>7, BatchReadEffect
  <2>2. job.base = Start(job.split, p) /\ job.base <= job.at
    BY <1>2, <2>1 DEF PlacedAt
  <2>3. PacksFirst(job', p, limit)
    BY <1>2, <2>1 DEF PacksFirst, NothingPacked
  <2>4. ASSUME job.split \in temporary'
        PROVE  Rewrites(job', p, limit)
    <3>1. Rewrites(job, p, limit)
      BY <1>1, <1>2, <2>1, <2>4
    <3>2. CASE job.blocks # <<>>
      BY <2>1, <3>2 DEF Rewrites
    <3>3. CASE AboutToPack(job, p, limit)
      <4>1. job.docs = job.at - job.base
        BY <3>3 DEF AboutToPack
      <4>2. PICK row \in Nat : \E held \in [Start(job.split, p)..row -> Nat] :
              /\ FillsAt(job.split, p, held, row, limit) /\ job.at <= row
              /\ held[job.at] = Len(job.buffer)
        BY <3>3 DEF AboutToPack
      <4>3. PICK held \in [Start(job.split, p)..row -> Nat] :
              /\ FillsAt(job.split, p, held, row, limit) /\ job.at <= row
              /\ held[job.at] = Len(job.buffer)
        BY <4>2
      <4>5. /\ job.at <= Len(Rows[job.split]) /\ job.at - job.base < limit
            /\ job.at > job.base => SameBatch(job.split, job.at, job.at - 1)
        BY <2>1, <4>3, FillsAhead
      <4>6. ~AtBatchEnd(job)
        BY <4>5 DEF AtBatchEnd
      <4>7. ~(job.docs >= limit)
        BY <1>0, <1>2, <2>1, <4>1, <4>5
      <4> QED
        BY <2>1, <4>6, <4>7
    <3> QED
      BY <3>1, <3>2, <3>3 DEF Rewrites
  <2> QED
    BY <1>1, <1>3, <2>1, <2>3, <2>4
<1>8. CASE SaveTemporary
  <2> DEFINE p == progress[job.split]
  <2>1. /\ job \in Jobs /\ job.doing = "save" /\ temporary' = temporary \cup {job.split}
        /\ job' \in Jobs /\ job'.doing = "replace" /\ job'.split = job.split
        /\ job'.base = job.base /\ job'.at = job.at
        /\ job'.buffer = job.buffer /\ job'.blocks = job.blocks
        /\ limit' = limit /\ progress' = progress
    BY <1>8, SaveEffect
  <2>2. PacksFirst(job', p, limit)
    BY <1>2, <2>1 DEF PacksFirst, NothingPacked
  <2>3. job.blocks # <<>>
    BY <1>2, <2>1 DEF PlacedAt
  <2>4. Rewrites(job', p, limit)
    BY <2>1, <2>3 DEF Rewrites
  <2>5. temporary' \ {job.split} \subseteq temporary /\ temporary' \subseteq Splits
    BY <1>1, <1>2, <2>1
  <2> QED
    BY <1>3, <2>1, <2>2, <2>4, <2>5
<1>9. CASE PublishShard
  <2> DEFINE p == progress[job.split]
  <2>1. /\ job \in Jobs /\ job.doing = "replace" /\ temporary' = temporary \ {job.split}
        /\ job' \in Jobs /\ job'.doing = "rows" /\ job'.split = job.split
        /\ limit' = limit /\ progress' = progress
    BY <1>9, PublishEffect
  <2>2. job.blocks # <<>>
    BY <1>2, <2>1 DEF PlacedAt
  <2>3. WillPack(job.split, p, limit)
    BY <1>2, <2>1, <2>2 DEF PacksFirst, NothingPacked
  <2>4. PacksFirst(job', p, limit)
    BY <2>1, <2>3 DEF PacksFirst
  <2>5. /\ temporary' \ {job.split} \subseteq temporary /\ temporary' \subseteq Splits
        /\ job.split \notin temporary'
    BY <1>1, <2>1
  <2> QED
    BY <1>3, <2>1, <2>4, <2>5
<1>10. CASE WriteProgress
  <2> DEFINE p == progress'[job.split]
  <2>1. /\ job \in Jobs /\ job.doing = "progress" /\ job' \in Jobs /\ job'.split = job.split
        /\ job'.doing = (IF AtBatchEnd(job) THEN "rows" ELSE "returned")
        /\ job'.base = (IF AtBatchEnd(job) THEN job.at ELSE job.base)
        /\ job'.at = job.at /\ job'.buffer = job.buffer /\ job'.blocks = job.blocks
        /\ p.buffer = job.buffer
        /\ \A split \in Splits \ {job.split} : progress'[split] = progress[split]
        /\ limit' = limit /\ temporary' = temporary
    BY <1>10, WriteEffect
  <2>2. job.blocks = <<>>
    BY <1>2, <2>1 DEF PlacedAt
  <2>3. job.split \notin temporary
    BY <1>1, <1>2, <2>1, <2>2 DEF Rewrites, AboutToPack
  <2> HIDE DEF p
  <2>4. PacksFirst(job', p, limit)
    <3>1. CASE AtBatchEnd(job)
      BY <2>1, <2>2, <3>1, NothingReadYet DEF PacksFirst
    <3>2. CASE ~AtBatchEnd(job)
      BY <2>1, <3>2 DEF PacksFirst
    <3> QED
      BY <3>1, <3>2
  <2> QED
    BY <1>1, <1>3, <2>1, <2>3, <2>4 DEF p
<1>11. CASE EndSplit
  <2> DEFINE p == progress[job.split]
  <2>1. /\ job \in Jobs /\ job.doing = "rows" /\ ~PacksOne(job.buffer)
        /\ job.at = job.base /\ job.at > Len(Rows[job.split])
        /\ job' \in Jobs /\ job'.doing = "returned" /\ job'.split = job.split
        /\ \A split \in Splits \ {job.split} : progress'[split] = progress[split]
        /\ limit' = limit /\ temporary' = temporary
    BY <1>11, EndEffect
  <2>2. job.base = Start(job.split, p) /\ job.blocks = <<>>
    BY <1>2, <2>1 DEF PlacedAt
  <2>3. ~AboutToPack(job, p, limit)
    <3> SUFFICES ASSUME AboutToPack(job, p, limit)
                 PROVE  FALSE
      OBVIOUS
    <3>1. PICK row \in Nat : \E held \in [Start(job.split, p)..row -> Nat] :
            /\ FillsAt(job.split, p, held, row, limit) /\ job.at <= row
            /\ held[job.at] = Len(job.buffer)
      BY DEF AboutToPack
    <3>2. PICK held \in [Start(job.split, p)..row -> Nat] :
            /\ FillsAt(job.split, p, held, row, limit) /\ job.at <= row
            /\ held[job.at] = Len(job.buffer)
      BY <3>1
    <3>5. job.at <= Len(Rows[job.split])
      BY <2>1, <3>2, FillsAhead
    <3> QED
      BY <1>2, <2>1, <3>5
  <2>4. job.split \notin temporary
    BY <1>1, <1>2, <2>1, <2>2, <2>3 DEF Rewrites
  <2>5. PacksFirst(job', progress'[job.split], limit)
    BY <2>1 DEF PacksFirst
  <2> QED
    BY <1>1, <1>3, <2>1, <2>4, <2>5
<1>12. CASE WriteManifest
  <2>1. /\ job \in Jobs /\ job.doing = "returned" /\ job.split = "val" /\ job' = Idle
        /\ temporary' = temporary
    BY <1>12, ManifestEffect
  <2>2. temporary = {}
    BY <1>0, <1>1, <1>2, <2>1 DEF Rewrites
  <2> QED
    BY <2>1, <2>2 DEF TemporaryRewritten
<1>13. CASE JobCrash
  <2>1. /\ job \in Jobs /\ job' = Idle /\ progress' = progress /\ limit' = limit
        /\ temporary' = temporary
    BY <1>13, JobCrashEffect
  <2>2. ASSUME NEW split \in temporary
        PROVE  WillPack(split, progress[split], limit)
    <3>1. CASE split = job.split
      <4>1. Rewrites(job, progress[split], limit)
        BY <1>1, <1>2, <2>1, <3>1
      <4>2. WillPack(split, progress[split], limit) \/ NothingPacked(job, progress[split])
        BY <1>2, <2>1, <3>1, <4>1 DEF Rewrites, PacksFirst
      <4>3. AboutToPack(job, progress[split], limit) => WillPack(split, progress[split], limit)
        BY <3>1 DEF AboutToPack, WillPack
      <4> QED
        BY <4>1, <4>2, <4>3 DEF Rewrites, NothingPacked
    <3>2. CASE split # job.split
      BY <1>1, <3>2
    <3> QED
      BY <3>1, <3>2
  <2> QED
    BY <2>1, <2>2 DEF TemporaryRewritten
<1> QED
  BY <1>4, <1>5, <1>6, <1>7, <1>8, <1>9, <1>10, <1>11, <1>12, <1>13 DEF TokenizeStep

LEMMA ManifestLastKept ==
  ASSUME TokenizeTypes, TemporaryRewritten, ManifestLast, TokenizeStep \/ JobCrash
  PROVE  ManifestLast'
<1>1. CASE WriteManifest
  <2>1. /\ job \in Jobs /\ job.doing = "returned" /\ job.split = "val" /\ job' = Idle
        /\ manifest' = [listed |-> shards, torn |-> temporary] /\ temporary' = temporary
    BY <1>1, ManifestEffect
  <2>2. job # Idle /\ \A split \in Splits : split = "train" \/ split = "val"
    BY <2>1, JobFields DEF Splits
  <2>3. /\ "train" \notin temporary /\ temporary \subseteq Splits
        /\ "val" \in temporary => Rewrites(job, progress["val"], limit)
    BY <2>1, <2>2 DEF TemporaryRewritten, TokenizeTypes
  <2>4. temporary = {}
    BY <2>1, <2>2, <2>3 DEF Rewrites
  <2> QED
    BY <2>1, <2>4 DEF ManifestLast
<1>2. CASE ~WriteManifest
  <2>1. manifest' = manifest /\ (job # Idle \/ manifest = <<>>)
    <3>1. CASE StartJob
      BY <3>1 DEF StartJob
    <3>2. CASE ~StartJob
      <4>1. manifest' = manifest
        BY <1>2, <3>2 DEF TokenizeStep, AddDocument, PackBlock, BatchRead, SaveTemporary,
                    PublishShard, WriteProgress, EndSplit, NextSplit, JobCrash
      <4>2. Idle.doing = "idle"
        BY DEF Idle
      <4>3. job # Idle
        BY <1>2, <3>2, <4>2 DEF TokenizeStep, AddDocument, PackBlock, BatchRead, SaveTemporary,
                    PublishShard, WriteProgress, EndSplit, NextSplit, JobCrash
      <4> QED
        BY <4>1, <4>3
    <3> QED
      BY <3>1, <3>2
  <2>2. manifest = <<>>
    BY <2>1 DEF ManifestLast
  <2> QED
    BY <2>1, <2>2 DEF ManifestLast
<1> QED
  BY <1>1, <1>2

-------------------------------------------------------------------------------
(* The job from its beginning *)

LEMMA StartFresh ==
  ASSUME NEW split \in Splits
  PROVE  Start(split, Fresh) = 1
<1>1. /\ Len(Rows[split]) \in Nat \ {0} /\ End(split) = Len(Rows[split]) + 1
  BY RowsTyped DEF End
<1>2. 1 \in 1..End(split) /\ 1..(1 - 1) = {}
  BY <1>1
<1>3. ASSUME NEW i \in 1..Len(Rows[split])
      PROVE  Later(Rows[split][i], 0, 0)
  <2>1. Rows[split][i].file \in Nat /\ Rows[split][i].batch \in Nat
    BY RowsTyped
  <2> QED
    BY <2>1 DEF Later
<1>4. RowFrom(split, 0, 0) = 1
  BY <1>2, <1>3, RowFromUnique
<1> QED
  BY <1>4 DEF Start, Fresh

LEMMA TokenizeStarts ==
  ASSUME TokenizeInit
  PROVE  TokenizeInv
<1>1. /\ limit \in Limits /\ job = Idle /\ crashes = 0
      /\ progress = [s \in Splits |-> Fresh] /\ shards = [s \in Splits |-> <<>>]
      /\ temporary = {} /\ manifest = <<>> /\ resumedCut = FALSE
  BY DEF TokenizeInit
<1>2. /\ \A split \in Splits : progress[split] = Fresh /\ shards[split] = <<>>
      /\ Fresh.buffer = <<>> /\ <<>> \in Blocks /\ <<>> \in Shards /\ Fresh \in Progress
  <2>1. <<>> \in Blocks /\ <<>> \in Shards
    BY DEF Blocks, Shards
  <2>2. Fresh = [file |-> 0, batch |-> 0, buffer |-> <<>>, cut |-> FALSE]
    BY DEF Fresh
  <2>3. Fresh \in Progress
    BY <2>1, <2>2 DEF Progress
  <2> QED
    BY <1>1, <2>1, <2>2, <2>3
<1>3. DOMAIN <<>> = {} /\ Len(<<>>) = 0
  OBVIOUS
<1>4. Places(<<>>) = {}
  BY <1>3 DEF Places
<1>5. TokenizeTypes
  <2>1. limit \in Nat \ {0}
    BY <1>1, TokenizeAssumption
  <2>2. progress \in [Splits -> Progress] /\ shards \in [Splits -> Shards]
    BY <1>1, <1>2
  <2> QED
    BY <1>1, <2>1, <2>2 DEF TokenizeTypes
<1>6. JobPlaced /\ ManifestLast
  BY <1>1 DEF JobPlaced, ManifestLast
<1>7. ProgressFits
  <2>1. ~PacksOne(<<>>)
    BY <1>3, CorpusAssumption DEF PacksOne
  <2> QED
    BY <1>2, <2>1 DEF ProgressFits
<1>8. ReadKept
  <2>1. ASSUME NEW split \in Splits
        PROVE  SplitKept(split, progress[split], shards[split])
    <3>1. TokensBefore(split, Start(split, progress[split]), Least) = {}
      BY <1>2, StartFresh, FirstTokens
    <3> QED
      BY <3>1 DEF SplitKept
  <2> QED
    BY <1>1, <2>1 DEF ReadKept
<1>9. TextPacked
  <2>1. ASSUME NEW split \in Splits
        PROVE  SplitPacked(split, progress[split], shards[split])
    <3>1. 1..(Len(<<>>) - 1) = {}
      BY <1>3
    <3>2. \A i : TextUpTo(split, <<>>, i)
      BY <1>3, <3>1 DEF TextUpTo, Contiguous, Ascending, EndsAt
    <3> QED
      BY <1>2, <1>4, <3>2 DEF SplitPacked
  <2> QED
    BY <1>1, <2>1 DEF TextPacked
<1>10. CopiesBounded
  <2>1. ASSUME NEW split \in Splits
        PROVE  AtMost(shards[split], 0)
    <3>1. \A block : Copied(<<>>, block) = {}
      BY <1>4 DEF Copied
    <3>2. Cardinality({}) = 0
      BY FS_EmptySet
    <3>3. ASSUME NEW block \in Blocks
          PROVE  Cardinality(Copied(shards[split], block)) <= 0
      <4>1. Copied(shards[split], block) = {}
        BY <1>2, <3>1
      <4> QED
        BY <3>2, <4>1
    <3> QED
      BY <3>3 DEF AtMost
  <2> QED
    BY <1>1, <2>1 DEF CopiesBounded
<1>11. TemporaryRewritten
  BY <1>1 DEF TemporaryRewritten
<1> QED
  BY <1>5, <1>6, <1>7, <1>8, <1>9, <1>10, <1>11 DEF TokenizeInv

\* More crashes allow more copies.
LEMMA MoreCopiesAllowed ==
  ASSUME TokenizeTypes, CopiesBounded, ~resumedCut, NEW more \in Nat, crashes <= more
  PROVE  /\ job = Idle =>
              \A split \in Splits :
                AtMost(shards[split], more + (IF manifest # <<>> THEN 1 ELSE 0))
         /\ job # Idle =>
              /\ JobCopies(job, shards[job.split], more)
              /\ IF job.split = "train" THEN AtMost(shards["val"], more)
                 ELSE AtMost(shards["train"], more + 1)
<1>0. crashes \in Nat /\ more \in Nat /\ crashes <= more
  BY DEF TokenizeTypes
<1>1. /\ \A split \in Splits : shards[split] \in Shards
      /\ "train" \in Splits /\ "val" \in Splits
  BY ProgressTyped DEF Splits
<1>2. ASSUME NEW split \in Splits, NEW m \in Nat, NEW n \in Nat, m <= n, AtMost(shards[split], m)
      PROVE  AtMost(shards[split], n)
  <2> SUFFICES ASSUME NEW block \in Blocks
               PROVE  Cardinality(Copied(shards[split], block)) <= n
    BY DEF AtMost
  <2>1. Cardinality(Copied(shards[split], block)) <= m
    BY <1>2 DEF AtMost
  <2>2. Cardinality(Copied(shards[split], block)) \in Nat
    BY <1>1, CopiedFinite
  <2> QED
    BY <1>2, <2>1, <2>2
<1>3. CASE job = Idle
  <2> DEFINE m == crashes + (IF manifest # <<>> THEN 1 ELSE 0)
             n == more + (IF manifest # <<>> THEN 1 ELSE 0)
  <2>1. m \in Nat /\ n \in Nat /\ m <= n
    BY <1>0
  <2>2. \A split \in Splits : AtMost(shards[split], m)
    BY <1>3 DEF CopiesBounded
  <2> HIDE DEF m, n
  <2>3. \A split \in Splits : AtMost(shards[split], n)
    BY <1>2, <2>1, <2>2
  <2> QED
    BY <1>3, <2>3 DEF n
<1>4. CASE job # Idle
  <2>1. /\ JobCopies(job, shards[job.split], crashes)
        /\ IF job.split = "train" THEN AtMost(shards["val"], crashes)
           ELSE AtMost(shards["train"], crashes + 1)
    BY <1>4 DEF CopiesBounded
  <2>2. /\ crashes + 1 \in Nat /\ more + 1 \in Nat /\ crashes + 1 <= more + 1
    BY <1>0
  <2>3. job.split \in Splits /\ job.blocks \in Seq(Blocks)
    BY <1>4, Working, JobFields
  <2>4. JobCopies(job, shards[job.split], more)
    <3> SUFFICES ASSUME NEW block \in Blocks
                 PROVE  Cardinality(Copied(Append(shards[job.split], job.blocks), block))
                          <= more + (IF Past(block, job.buffer) THEN 1 ELSE 0)
      BY DEF JobCopies
    <3> DEFINE now == Cardinality(Copied(Append(shards[job.split], job.blocks), block))
    <3>1. now <= crashes + (IF Past(block, job.buffer) THEN 1 ELSE 0)
      BY <2>1 DEF JobCopies
    <3>2. now \in Nat
      <4>1. Append(shards[job.split], job.blocks) \in Shards
        BY <1>1, <2>3, RangeOfAppend DEF Shards
      <4> QED
        BY <4>1, CopiedFinite
    <3> HIDE DEF now
    <3>3. now <= more + (IF Past(block, job.buffer) THEN 1 ELSE 0)
      BY <1>0, <3>1, <3>2
    <3> QED
      BY <3>3 DEF now
  <2>5. job.split = "train" => AtMost(shards["val"], more)
    BY <1>0, <1>1, <1>2, <2>1
  <2>6. job.split # "train" => AtMost(shards["train"], more + 1)
    BY <1>1, <1>2, <2>1, <2>2
  <2> QED
    BY <1>4, <2>4, <2>5, <2>6
<1> QED
  BY <1>3, <1>4

\* When nothing of the job happens, at most a crash of the trainer is counted.
LEMMA TokenizeAlone ==
  ASSUME TokenizeInv, crashes' = crashes \/ crashes' = crashes + 1,
         UNCHANGED <<limit, job, progress, shards, temporary, manifest, resumedCut>>
  PROVE  TokenizeInv'
<1>1. /\ limit' = limit /\ job' = job /\ progress' = progress /\ shards' = shards
      /\ temporary' = temporary /\ manifest' = manifest /\ resumedCut' = resumedCut
  OBVIOUS
<1>2. /\ TokenizeTypes /\ JobPlaced /\ ProgressFits /\ ReadKept /\ TextPacked /\ CopiesBounded
      /\ TemporaryRewritten /\ ManifestLast
  BY DEF TokenizeInv
<1>3. crashes \in Nat /\ crashes' \in Nat /\ crashes <= crashes'
  BY <1>2 DEF TokenizeTypes
<1>4. TokenizeTypes'
  BY <1>1, <1>2, <1>3 DEF TokenizeTypes
<1>5. JobPlaced' /\ ProgressFits' /\ ReadKept' /\ ManifestLast'
  BY <1>1, <1>2 DEF JobPlaced, ProgressFits, ReadKept, ManifestLast
<1>6. TextPacked'
  BY <1>1, <1>2 DEF TextPacked
<1>7. TemporaryRewritten'
  BY <1>1, <1>2 DEF TemporaryRewritten
<1>8. CopiesBounded'
  <2> SUFFICES ASSUME ~resumedCut
               PROVE  /\ job = Idle =>
                           \A split \in Splits :
                             AtMost(shards[split], crashes' + (IF manifest # <<>> THEN 1 ELSE 0))
                      /\ job # Idle =>
                           /\ JobCopies(job, shards[job.split], crashes')
                           /\ IF job.split = "train" THEN AtMost(shards["val"], crashes')
                              ELSE AtMost(shards["train"], crashes' + 1)
    BY <1>1 DEF CopiesBounded
  <2> QED
    BY <1>2, <1>3, MoreCopiesAllowed
<1> QED
  BY <1>4, <1>5, <1>6, <1>7, <1>8 DEF TokenizeInv

LEMMA TokenizeInvKept ==
  ASSUME TokenizeInv, [Next]_vars
  PROVE  TokenizeInv'
<1>1. /\ TokenizeTypes /\ JobPlaced /\ ProgressFits /\ ReadKept /\ TextPacked /\ CopiesBounded
      /\ TemporaryRewritten /\ ManifestLast
  BY DEF TokenizeInv
<1>2. CASE TokenizeStep \/ JobCrash
  <2>1. TokenizeTypes' /\ JobPlaced' /\ ProgressFits'
    BY <1>1, <1>2, TokenizeTypesKept, JobPlacedKept, ProgressFitsKept
  <2>2. ReadKept' /\ TextPacked' /\ CopiesBounded'
    BY <1>1, <1>2, ReadKeptKept, TextPackedKept, CopiesBoundedKept
  <2>3. TemporaryRewritten' /\ ManifestLast'
    BY <1>1, <1>2, TemporaryKept, ManifestLastKept
  <2> QED
    BY <2>1, <2>2, <2>3 DEF TokenizeInv
<1>3. CASE UNCHANGED tokenizeVars
  BY <1>3, TokenizeAlone DEF tokenizeVars
<1>4. CASE TrainingCrash
  <2>1. /\ crashes' = crashes + 1
        /\ UNCHANGED <<limit, job, progress, shards, temporary, manifest, resumedCut>>
    BY <1>4 DEF TrainingCrash
  <2> QED
    BY <2>1, TokenizeAlone
<1>5. CASE PackedProgram
  BY <1>2, <1>3, <1>5 DEF PackedProgram
<1>6. CASE ParquetProgram
  BY <1>3, <1>6 DEF ParquetProgram
<1>7. CASE UNCHANGED vars
  BY <1>3, <1>7 DEF vars
<1> QED
  BY <1>2, <1>3, <1>4, <1>5, <1>6, <1>7 DEF Next

\* At any moment a block is published at most once more than there were crashes.
LEMMA CopiesAtMost ==
  ASSUME TokenizeTypes, CopiesBounded, ~resumedCut, NEW split \in Splits, NEW block \in Blocks
  PROVE  Cardinality(Copied(shards[split], block)) <= crashes + 1
<1> DEFINE now == Cardinality(Copied(shards[split], block))
<1>1. shards[split] \in Shards /\ now \in Nat /\ crashes \in Nat
  BY ProgressTyped, CopiedFinite DEF TokenizeTypes
<1>2. CASE job = Idle
  <2>1. now <= crashes + (IF manifest # <<>> THEN 1 ELSE 0)
    BY <1>2 DEF CopiesBounded, AtMost
  <2> HIDE DEF now
  <2>2. now <= crashes + 1
    BY <1>1, <2>1
  <2> QED
    BY <2>2 DEF now
<1>3. CASE job # Idle /\ split = job.split
  <2> DEFINE later == Cardinality(Copied(Append(shards[split], job.blocks), block))
  <2>1. job.blocks \in Seq(Blocks)
    BY <1>3, Working, JobFields
  <2>2. later <= crashes + (IF Past(block, job.buffer) THEN 1 ELSE 0)
    BY <1>3 DEF CopiesBounded, JobCopies
  <2>3. now <= later
    BY <1>1, <2>1, CopiesOfAppend
  <2>4. later \in Nat
    <3>1. Append(shards[split], job.blocks) \in Shards
      BY <1>1, <2>1, RangeOfAppend DEF Shards
    <3> QED
      BY <3>1, CopiedFinite
  <2> HIDE DEF now, later
  <2>5. now <= crashes + 1
    BY <1>1, <2>2, <2>3, <2>4
  <2> QED
    BY <2>5 DEF now
<1>4. CASE job # Idle /\ split # job.split
  <2>1. split = (IF job.split = "train" THEN "val" ELSE "train")
    BY <1>4, Working, JobFields DEF Splits
  <2>2. now <= (IF job.split = "train" THEN crashes ELSE crashes + 1)
    BY <1>4, <2>1 DEF CopiesBounded, AtMost
  <2> HIDE DEF now
  <2>3. now <= crashes + 1
    BY <1>1, <2>2
  <2> QED
    BY <2>3 DEF now
<1> QED
  BY <1>2, <1>3, <1>4

LEMMA TokenizedOnceHolds ==
  ASSUME TokenizeInv
  PROVE  TokenizedOnce
<1>1. TokenizeTypes /\ ReadKept /\ TextPacked /\ CopiesBounded /\ ManifestLast
  BY DEF TokenizeInv
<1>2. ASSUME NEW split \in Splits
      PROVE  /\ ReadBy(split) \subseteq Known(split) \cup Range(progress[split].buffer)
             /\ \A p \in Places(shards[split]) :
                  resumedCut \/ /\ Contiguous(split, BlockAt(split, p))
                                /\ Copies(split, BlockAt(split, p)) <= crashes + 1
  <2>1. ReadBy(split) \subseteq Known(split) \cup Range(progress[split].buffer)
    <3>1. SplitKept(split, progress[split], shards[split])
      BY <1>1 DEF ReadKept
    <3>2. ReadBy(split) = TokensBefore(split, Start(split, progress[split]), Least)
      BY DEF ReadBy, Start
    <3>3. Known(split) = Held(shards[split])
      BY DEF Known, Held, BlockAt
    <3> QED
      BY <3>1, <3>2, <3>3 DEF SplitKept
  <2>2. ASSUME NEW p \in Places(shards[split]), ~resumedCut
        PROVE  /\ Contiguous(split, BlockAt(split, p))
               /\ Copies(split, BlockAt(split, p)) <= crashes + 1
    <3> DEFINE block == BlockAt(split, p)
    <3>1. SplitPacked(split, progress[split], shards[split])
      BY <1>1, <2>2 DEF TextPacked
    <3>2. Contiguous(split, block)
      BY <3>1 DEF SplitPacked, BlockAt
    <3>3. block \in Blocks
      BY <1>1, ProgressTyped, PlaceIs DEF BlockAt
    <3>4. Copies(split, block) = Cardinality(Copied(shards[split], block))
      BY DEF Copies, Copied, BlockAt
    <3> QED
      BY <1>1, <2>2, <3>2, <3>3, <3>4, CopiesAtMost
  <2> QED
    BY <2>1, <2>2
<1>3. manifest # <<>> => manifest.torn = {}
  BY <1>1 DEF ManifestLast
<1> QED
  BY <1>2, <1>3 DEF TokenizedOnce

\* The state of the tokenizing job, of its progress and of its shards: what keeps
\* TokenizedOnce true from step to step.
THEOREM TokenizeInvariant == Spec => []TokenizeInv
<1>1. Init => TokenizeInv
  BY TokenizeStarts DEF Init
<1>2. TokenizeInv /\ [Next]_vars => TokenizeInv'
  BY TokenizeInvKept
<1> QED
  BY <1>1, <1>2, PTL DEF Spec

\* Whenever the job dies and however often, no token that its progress counts as
\* done is lost, every block published is a window of the text and is published at
\* most once more than there were crashes, and no half-written file is listed.
THEOREM TokenizedOnceAlways == Spec => []TokenizedOnce
<1>1. TokenizeInv => TokenizedOnce
  BY TokenizedOnceHolds
<1> QED
  BY <1>1, TokenizeInvariant, PTL

-------------------------------------------------------------------------------
(* The packed loader *)

LEMMA BlocksInLength ==
  ASSUME NEW paths \in Shards, NEW order
  PROVE  LET blocks == BlocksIn(paths, order)
         IN  /\ Cardinality(Places(paths)) \in Nat
             /\ blocks \in Seq(Range(blocks)) /\ Len(blocks) = Cardinality(Places(paths))
<1> DEFINE n      == Cardinality(Places(paths))
           blocks == BlocksIn(paths, order)
<1>1. n \in Nat
  BY PlacesFinite, FS_CardinalityType
<1>2. \E f : blocks = [i \in 1..n |-> f[i]]
  <2> DEFINE files  == [i \in DOMAIN order |-> paths[order[i]]]
             nth(i) == CHOOSE p \in Places(files) :
                         Cardinality({q \in Places(files) : Earlier(q, p)}) = i - 1
             f      == [i \in 1..n |-> files[nth(i)[1]][nth(i)[2]]]
  <2>1. blocks = f
    BY DEF BlocksIn
  <2>2. f = [i \in 1..n |-> f[i]]
    OBVIOUS
  <2> QED
    BY <2>1, <2>2
<1> HIDE DEF n, blocks
<1>3. blocks = [i \in DOMAIN blocks |-> blocks[i]] /\ DOMAIN blocks = 1..n
  BY <1>2
<1>4. blocks \in [1..n -> Range(blocks)]
  BY <1>3 DEF Range
<1>5. blocks \in Seq(Range(blocks)) /\ Len(blocks) = n
  BY <1>1, <1>4
<1> QED
  BY <1>1, <1>5 DEF n, blocks

\* Taking a batch of what is left of an epoch.
LEMMA BatchOfEpoch ==
  ASSUME NEW S, NEW blocks \in Seq(S), NEW m \in Nat, m + BatchSize <= Len(blocks)
  PROVE  LET rest == Rest(blocks, m)
         IN  /\ Len(rest) = Len(blocks) - m /\ Len(rest) >= BatchSize
             /\ SubSeq(rest, 1, BatchSize) = SubSeq(blocks, m + 1, m + 1 + BatchSize - 1)
             /\ SubSeq(rest, BatchSize + 1, Len(rest)) = Rest(blocks, m + BatchSize)
<1> DEFINE b     == BatchSize
           total == Len(blocks)
           rest  == SubSeq(blocks, m + 1, total)
           head  == SubSeq(rest, 1, b)
           tail  == SubSeq(rest, b + 1, Len(rest))
<1>1. b \in Nat \ {0} /\ m \in Nat /\ total \in Nat
  BY TrainingDataAssumption, LenProperties
<1> HIDE DEF b, total
<1>2. m + b <= total
  BY <1>1 DEF b, total
<1>3. \A i \in 1..total : blocks[i] \in S
  BY ElementOfSeq DEF total
<1>4. /\ rest \in Seq(S) /\ Len(rest) = total - m
      /\ \A i \in 1..(total - m) : rest[i] = blocks[m + i]
  <2>1. m + 1 \in Int /\ total \in Int /\ \A i \in (m + 1)..total : blocks[i] \in S
    BY <1>1, <1>3
  <2>2. /\ rest \in Seq(S) /\ Len(rest) = (IF m + 1 <= total THEN total - (m + 1) + 1 ELSE 0)
        /\ \A i \in 1..(total - (m + 1) + 1) : rest[i] = blocks[(m + 1) + i - 1]
    BY <2>1, SubSeqProperties
  <2> HIDE DEF rest
  <2>3. m + 1 <= total /\ total - (m + 1) + 1 = total - m
    BY <1>1, <1>2
  <2>4. \A i \in 1..(total - m) : (m + 1) + i - 1 = m + i
    BY <1>1
  <2> QED
    BY <2>2, <2>3, <2>4
<1> HIDE DEF rest
<1>5. \A i \in 1..(total - m) : rest[i] \in S
  BY <1>4, ElementOfSeq
<1>6. head = SubSeq(blocks, m + 1, m + 1 + b - 1)
  <2> DEFINE other == SubSeq(blocks, m + 1, m + 1 + b - 1)
  <2>1. /\ 1 \in Int /\ b \in Int /\ m + 1 \in Int /\ m + 1 + b - 1 \in Int
        /\ \A i \in 1..b : rest[i] \in S
        /\ \A i \in (m + 1)..(m + 1 + b - 1) : blocks[i] \in S
    BY <1>1, <1>2, <1>3, <1>5
  <2>2. /\ head \in Seq(S) /\ Len(head) = (IF 1 <= b THEN b - 1 + 1 ELSE 0)
        /\ \A i \in 1..(b - 1 + 1) : head[i] = rest[1 + i - 1]
    BY <2>1, SubSeqProperties
  <2>3. /\ other \in Seq(S)
        /\ Len(other) = (IF m + 1 <= m + 1 + b - 1 THEN (m + 1 + b - 1) - (m + 1) + 1 ELSE 0)
        /\ \A i \in 1..((m + 1 + b - 1) - (m + 1) + 1) : other[i] = blocks[(m + 1) + i - 1]
    BY <2>1, SubSeqProperties
  <2> HIDE DEF head, other
  <2>4. Len(head) = b /\ Len(other) = b
    BY <1>1, <2>2, <2>3
  <2>5. ASSUME NEW i \in 1..b
        PROVE  head[i] = other[i]
    <3>1. i \in 1..(b - 1 + 1) /\ i \in 1..((m + 1 + b - 1) - (m + 1) + 1) /\ i \in 1..(total - m)
      BY <1>1, <1>2
    <3>2. 1 + i - 1 = i /\ (m + 1) + i - 1 = m + i
      BY <1>1
    <3> QED
      BY <1>4, <2>2, <2>3, <3>1, <3>2
  <2>6. head = other
    BY <2>2, <2>3, <2>4, <2>5, SeqEqual
  <2> QED
    BY <2>6 DEF other
<1>7. tail = SubSeq(blocks, m + b + 1, total)
  <2> DEFINE other == SubSeq(blocks, m + b + 1, total)
  <2>1. /\ b + 1 \in Int /\ Len(rest) \in Int /\ m + b + 1 \in Int /\ total \in Int
        /\ \A i \in (b + 1)..Len(rest) : rest[i] \in S
        /\ \A i \in (m + b + 1)..total : blocks[i] \in S
    BY <1>1, <1>2, <1>3, <1>4, <1>5
  <2>2. /\ tail \in Seq(S)
        /\ Len(tail) = (IF b + 1 <= Len(rest) THEN Len(rest) - (b + 1) + 1 ELSE 0)
        /\ \A i \in 1..(Len(rest) - (b + 1) + 1) : tail[i] = rest[(b + 1) + i - 1]
    BY <2>1, SubSeqProperties
  <2>3. /\ other \in Seq(S)
        /\ Len(other) = (IF m + b + 1 <= total THEN total - (m + b + 1) + 1 ELSE 0)
        /\ \A i \in 1..(total - (m + b + 1) + 1) : other[i] = blocks[(m + b + 1) + i - 1]
    BY <2>1, SubSeqProperties
  <2> HIDE DEF tail, other
  <2>4. Len(tail) = total - m - b /\ Len(other) = total - m - b
    BY <1>1, <1>2, <1>4, <2>2, <2>3
  <2>5. ASSUME NEW i \in 1..(total - m - b)
        PROVE  tail[i] = other[i]
    <3>1. /\ i \in 1..(Len(rest) - (b + 1) + 1) /\ i \in 1..(total - (m + b + 1) + 1)
          /\ (b + 1) + i - 1 \in 1..(total - m)
      BY <1>1, <1>2, <1>4
    <3>2. (m + b + 1) + i - 1 = m + ((b + 1) + i - 1)
      BY <1>1
    <3> QED
      BY <1>4, <2>2, <2>3, <3>1, <3>2
  <2>6. tail = other
    BY <2>2, <2>3, <2>4, <2>5, SeqEqual
  <2> QED
    BY <2>6 DEF other
<1>8. Len(rest) >= b
  BY <1>1, <1>2, <1>4
<1> QED
  BY <1>1, <1>4, <1>6, <1>7, <1>8 DEF b, total, rest, head, tail, Rest

\* A step of a run from its beginning is a batch of an epoch.
LEMMA Quotient ==
  ASSUME NEW e \in Nat, NEW p \in Nat, NEW c \in Nat \ {0}, p < c
  PROVE  (e * c + p) \div c = e /\ (e * c + p) % c = p
BY Z3

LEMMA QuotientBelow ==
  ASSUME NEW n \in Nat, NEW e \in Nat, NEW c \in Nat \ {0}, n < (e + 1) * c
  PROVE  n \div c \in 0..e
<1> DEFINE q == n \div c
           r == n % c
<1>1. q \in Nat /\ r \in Nat /\ n = c * q + r
  BY Division
<1> HIDE DEF q, r
<1>2. ~(q >= e + 1)
  <2> SUFFICES ASSUME q >= e + 1
               PROVE  FALSE
    OBVIOUS
  <2>1. c * q >= c * (e + 1) /\ c * (e + 1) = (e + 1) * c
    BY <1>1, Z3
  <2> QED
    BY <1>1, <2>1
<1>3. q \in 0..e
  BY <1>1, <1>2
<1> QED
  BY <1>3 DEF q

LEMMA BatchesFit ==
  ASSUME NEW total \in Nat, NEW b \in Nat \ {0}, total >= b
  PROVE  /\ total \div b \in Nat \ {0}
         /\ (total \div b) * b <= total /\ total - (total \div b) * b < b
         /\ \A p \in 0..(total \div b) :
              p < total \div b => (p + 1) * b <= total
<1> DEFINE per == total \div b
           r   == total % b
<1>1. per \in Nat /\ r \in 0..(b - 1) /\ total = b * per + r
  BY Division
<1> HIDE DEF per, r
<1>2. per # 0
  <2> SUFFICES ASSUME per = 0
               PROVE  FALSE
    OBVIOUS
  <2>1. b * per = 0
    BY Z3
  <2> QED
    BY <1>1, <2>1
<1>3. b * per = per * b /\ b * per \in Nat
  BY <1>1, Z3
<1>4. ASSUME NEW p \in 0..per, p < per
      PROVE  (p + 1) * b <= total
  <2>1. p \in Nat /\ p + 1 <= per
    BY <1>1, <1>4
  <2>2. (p + 1) * b <= per * b
    BY <1>1, <2>1, Z3
  <2>3. (p + 1) * b \in Nat
    BY <2>1, Z3
  <2> QED
    BY <1>1, <1>3, <2>2, <2>3
<1> QED
  BY <1>1, <1>2, <1>3, <1>4 DEF per

\* How much of an epoch is left.
LEMMA RestLength ==
  ASSUME NEW S, NEW blocks \in Seq(S), NEW m \in Nat, m <= Len(blocks)
  PROVE  Len(Rest(blocks, m)) = Len(blocks) - m
<1> DEFINE total == Len(blocks)
<1>1. total \in Nat
  BY LenProperties
<1>2. m + 1 \in Int /\ total \in Int /\ \A i \in (m + 1)..total : blocks[i] \in S
  BY <1>1, ElementOfSeq
<1>3. Len(SubSeq(blocks, m + 1, total)) = IF m + 1 <= total THEN total - (m + 1) + 1 ELSE 0
  BY <1>2, SubSeqProperties
<1> QED
  BY <1>1, <1>3 DEF Rest

\* All of an epoch is left at its beginning.
LEMMA WholeEpoch ==
  ASSUME NEW S, NEW blocks \in Seq(S)
  PROVE  blocks = Rest(blocks, 0 * BatchSize)
<1> DEFINE total == Len(blocks)
           other == SubSeq(blocks, 1, total)
<1>0. total \in Nat
  BY LenProperties
<1>1. \A i \in 1..total : blocks[i] \in S
  BY ElementOfSeq
<1>2. /\ other \in Seq(S) /\ Len(other) = (IF 1 <= total THEN total - 1 + 1 ELSE 0)
      /\ \A i \in 1..(total - 1 + 1) : other[i] = blocks[1 + i - 1]
  BY <1>0, <1>1, SubSeqProperties
<1> HIDE DEF other
<1>3. Len(other) = total /\ \A i \in 1..total : other[i] = blocks[i]
  BY <1>0, <1>2
<1>4. blocks = other
  BY <1>2, <1>3, SeqEqual
<1>5. 0 * BatchSize = 0
  BY TrainingDataAssumption
<1>6. other = Rest(blocks, 0)
  BY DEF other, Rest
<1> QED
  BY <1>4, <1>5, <1>6

\* A loader that has just gone to an epoch.
LEMMA LoaderAtBeginning ==
  ASSUME NEW paths \in Shards, NEW drawn, NEW l, NEW steps \in Nat,
         l.epoch \in Nat, l.first \in Nat \ {0}, Cardinality(Places(paths)) >= BatchSize,
         0..l.epoch \subseteq DOMAIN drawn, l.unread = BlocksIn(paths, drawn[l.epoch]),
         steps + 1 = l.first + l.epoch * (Cardinality(Places(paths)) \div BatchSize)
  PROVE  LoaderAt(l, steps, paths, drawn)
<1> DEFINE total    == Cardinality(Places(paths))
           perEpoch == total \div BatchSize
           blocks   == BlocksIn(paths, drawn[l.epoch])
<1>1. total \in Nat /\ blocks \in Seq(Range(blocks)) /\ Len(blocks) = total
  BY BlocksInLength
<1>2. BatchSize \in Nat \ {0}
  BY TrainingDataAssumption
<1> HIDE DEF total, blocks
<1>3. total >= BatchSize
  BY DEF total
<1>4. perEpoch \in Nat \ {0}
  BY <1>1, <1>2, <1>3, BatchesFit
<1>5. l.epoch * perEpoch \in Nat
  BY <1>4, OneMore
<1>6. steps + 1 = l.first + l.epoch * perEpoch
  BY DEF total
<1> HIDE DEF perEpoch
<1>7. blocks = Rest(blocks, 0 * BatchSize)
  BY <1>1, WholeEpoch
<1>8. l.first <= steps + 1 /\ steps + 1 = l.first + l.epoch * perEpoch + 0 /\ 0 \in 0..perEpoch
  BY <1>4, <1>5, <1>6
<1> QED
  BY <1>3, <1>7, <1>8 DEF LoaderAt, total, perEpoch, blocks

\* What a loader gives, and where it is then.
LEMMA LoaderTakes ==
  ASSUME NEW paths \in Shards, NEW drawn, NEW l, NEW steps \in Nat,
         l.epoch \in Nat, l.first \in Nat \ {0}, LoaderAt(l, steps, paths, drawn)
  PROVE  LET perEpoch == Cardinality(Places(paths)) \div BatchSize
         IN  /\ Len(l.unread) < BatchSize => steps + 1 = l.first + (l.epoch + 1) * perEpoch
             /\ Len(l.unread) >= BatchSize =>
                  /\ SubSeq(l.unread, 1, BatchSize) = BatchAt(paths, drawn, steps + 1 - l.first)
                  /\ \A m : m.epoch = l.epoch /\ m.first = l.first
                            /\ m.unread = SubSeq(l.unread, BatchSize + 1, Len(l.unread))
                            => LoaderAt(m, steps + 1, paths, drawn)
<1> DEFINE total    == Cardinality(Places(paths))
           perEpoch == total \div BatchSize
           blocks   == BlocksIn(paths, drawn[l.epoch])
<1>1. total \in Nat /\ blocks \in Seq(Range(blocks)) /\ Len(blocks) = total
  BY BlocksInLength
<1>2. BatchSize \in Nat \ {0}
  BY TrainingDataAssumption
<1>3. PICK p \in 0..perEpoch :
        /\ steps + 1 = l.first + l.epoch * perEpoch + p
        /\ l.unread = Rest(blocks, p * BatchSize)
  BY DEF LoaderAt
<1>4. total >= BatchSize /\ 0..l.epoch \subseteq DOMAIN drawn /\ l.first <= steps + 1
  BY DEF LoaderAt
<1> HIDE DEF total, blocks
<1>5. /\ perEpoch \in Nat \ {0} /\ perEpoch * BatchSize <= total
      /\ total - perEpoch * BatchSize < BatchSize
      /\ p < perEpoch => (p + 1) * BatchSize <= total
  BY <1>1, <1>2, <1>3, <1>4, BatchesFit
<1> HIDE DEF perEpoch
<1>6. p \in Nat /\ p <= perEpoch
  BY <1>3, <1>5
<1>7. CASE p = perEpoch
  <2>1. perEpoch * BatchSize \in Nat
    BY <1>2, <1>5, OneMore
  <2>2. Len(l.unread) = total - perEpoch * BatchSize
    BY <1>1, <1>3, <1>5, <1>7, <2>1, RestLength
  <2>3. Len(l.unread) < BatchSize /\ ~(Len(l.unread) >= BatchSize)
    BY <1>1, <1>2, <1>5, <2>1, <2>2
  <2>4. (l.epoch + 1) * perEpoch = l.epoch * perEpoch + perEpoch /\ l.epoch * perEpoch \in Nat
    BY <1>5, OneMore
  <2>5. steps + 1 = l.first + (l.epoch + 1) * perEpoch
    BY <1>3, <1>5, <1>7, <2>4
  <2> QED
    BY <2>3, <2>5 DEF perEpoch, total
<1>8. CASE p < perEpoch
  <2> DEFINE b == p * BatchSize
             n == steps + 1 - l.first
  <2>1. b \in Nat /\ (p + 1) * BatchSize = b + BatchSize /\ b + BatchSize <= total
    BY <1>2, <1>5, <1>6, <1>8, OneMore
  <2> HIDE DEF b
  <2>3. l.epoch * perEpoch \in Nat /\ l.unread = Rest(blocks, b)
    BY <1>3, <1>5, OneMore DEF b
  <2>2. /\ Len(l.unread) = total - b /\ Len(l.unread) >= BatchSize
        /\ SubSeq(l.unread, 1, BatchSize) = SubSeq(blocks, b + 1, b + 1 + BatchSize - 1)
        /\ SubSeq(l.unread, BatchSize + 1, Len(l.unread)) = Rest(blocks, b + BatchSize)
    BY <1>1, <2>1, <2>3, BatchOfEpoch
  <2>4. ~(Len(l.unread) < BatchSize)
    BY <1>1, <1>2, <2>1, <2>2, <2>3
  <2>5. n = l.epoch * perEpoch + p /\ steps + 1 + 1 = l.first + l.epoch * perEpoch + (p + 1)
    <3> DEFINE q == l.epoch * perEpoch
    <3>1. q \in Nat /\ steps + 1 = l.first + q + p
      BY <1>3, <2>3
    <3> HIDE DEF q
    <3>2. steps + 1 - l.first = q + p /\ steps + 1 + 1 = l.first + q + (p + 1)
      BY <1>6, <3>1
    <3> QED
      BY <3>2 DEF q
  <2>6. n \div perEpoch = l.epoch /\ n % perEpoch = p
    BY SMTT(30), <1>5, <1>6, <1>8, <2>5, Quotient
  <2>7. BatchAt(paths, drawn, n) = SubSeq(blocks, b + 1, b + 1 + BatchSize - 1)
    <3> HIDE DEF n
    <3> QED
      BY <2>6 DEF BatchAt, blocks, perEpoch, total, b
  <2>8. ASSUME NEW m, m.epoch = l.epoch, m.first = l.first,
               m.unread = SubSeq(l.unread, BatchSize + 1, Len(l.unread))
        PROVE  LoaderAt(m, steps + 1, paths, drawn)
    <3>1. p + 1 \in 0..perEpoch /\ m.first <= steps + 1 + 1
      BY <1>4, <1>5, <1>6, <1>8, <2>8
    <3>2. m.unread = Rest(blocks, (p + 1) * BatchSize)
      BY <2>1, <2>2, <2>3, <2>8
    <3>3. steps + 1 + 1 = m.first + m.epoch * perEpoch + (p + 1)
      BY <2>5, <2>8
    <3> QED
      BY <1>4, <2>8, <3>1, <3>2, <3>3 DEF LoaderAt, blocks, perEpoch, total
  <2>9. SubSeq(l.unread, 1, BatchSize) = BatchAt(paths, drawn, steps + 1 - l.first)
    BY <2>2, <2>3, <2>7
  <2> QED
    BY <2>4, <2>8, <2>9
<1> QED
  BY <1>5, <1>6, <1>7, <1>8

\* The order of an epoch is drawn once.
LEMMA EpochOpened ==
  ASSUME NEW epoch \in Nat, NEW first \in Nat, OpenEpoch(epoch, first)
  PROVE  /\ loader' = [open |-> TRUE, epoch |-> epoch, first |-> first,
                       unread |-> BlocksIn(TrainShards, orders'[epoch])]
         /\ epoch \in DOMAIN orders'
         /\ \A e \in DOMAIN orders : e \in DOMAIN orders' /\ orders'[e] = orders[e]
<1>1. PICK order \in OrderOf(epoch) :
        /\ orders' = [e \in DOMAIN orders \cup {epoch} |->
                        IF e \in DOMAIN orders THEN orders[e] ELSE order]
        /\ loader' = [open |-> TRUE, epoch |-> epoch, first |-> first,
                      unread |-> BlocksIn(TrainShards, order)]
  BY DEF OpenEpoch
<1>2. epoch \in DOMAIN orders' /\ orders'[epoch] = order
  <2>1. epoch \in DOMAIN orders => order = orders[epoch]
    BY <1>1 DEF OrderOf
  <2> QED
    BY <1>1, <2>1
<1>3. ASSUME NEW e \in DOMAIN orders
      PROVE  e \in DOMAIN orders' /\ orders'[e] = orders[e]
  BY <1>1
<1> QED
  BY <1>1, <1>2, <1>3

\* The shards the loader reads.
LEMMA ListedShards ==
  ASSUME TokenizeTypes, manifest # <<>>
  PROVE  TrainShards \in Shards
BY DEF TokenizeTypes, TrainShards, Splits

LEMMA ManifestWrittenOnce ==
  ASSUME ManifestLast, manifest # <<>>
  PROVE  ~TokenizeStep /\ ~JobCrash
<1>1. job = Idle /\ Idle.doing = "idle"
  BY DEF ManifestLast, Idle
<1> QED
  BY <1>1 DEF TokenizeStep, StartJob, AddDocument, PackBlock, BatchRead, SaveTemporary,
            PublishShard, WriteProgress, EndSplit, NextSplit, WriteManifest, JobCrash

LEMMA LoaderFields ==
  ASSUME LoaderTypes
  PROVE  /\ Len(trained) \in Nat /\ Closed.open = FALSE
         /\ loader.open =>
              loader # Closed /\ loader.epoch \in Nat /\ loader.first \in Nat \ {0}
<1>1. Len(trained) \in Nat
  BY LenProperties DEF LoaderTypes
<1>2. Closed.open = FALSE
  BY DEF Closed
<1>3. ASSUME loader.open
      PROVE  loader # Closed /\ loader.epoch \in Nat /\ loader.first \in Nat \ {0}
  <2>1. loader # Closed
    BY <1>2, <1>3
  <2>2. loader \in [open : {TRUE}, epoch : Nat, first : Nat \ {0}, unread : {loader.unread}]
    BY <2>1 DEF LoaderTypes
  <2> QED
    BY <2>1, <2>2
<1> QED
  BY <1>1, <1>2, <1>3

\* With the orders of its epochs kept, a run has the same batches.
LEMMA BatchesKept ==
  ASSUME NEW paths \in Shards, NEW drawn, NEW more, NEW n \in Nat, NEW epoch \in Nat,
         Cardinality(Places(paths)) >= BatchSize,
         n < (epoch + 1) * (Cardinality(Places(paths)) \div BatchSize),
         0..epoch \subseteq DOMAIN drawn, \A e \in DOMAIN drawn : more[e] = drawn[e]
  PROVE  BatchAt(paths, more, n) = BatchAt(paths, drawn, n)
<1> DEFINE total    == Cardinality(Places(paths))
           perEpoch == total \div BatchSize
<1>1. total \in Nat /\ BatchSize \in Nat \ {0}
  BY BlocksInLength, TrainingDataAssumption
<1>2. perEpoch \in Nat \ {0}
  BY <1>1, BatchesFit
<1>3. n < (epoch + 1) * perEpoch
  OBVIOUS
<1> HIDE DEF perEpoch
<1>4. n \div perEpoch \in 0..epoch
  BY <1>2, <1>3, QuotientBelow
<1>5. more[n \div perEpoch] = drawn[n \div perEpoch]
  BY <1>4
<1> QED
  BY <1>5 DEF BatchAt, perEpoch

\* How many batches have been taken.
LEMMA TakenBelow ==
  ASSUME NEW paths \in Shards, NEW drawn, NEW l, NEW steps \in Nat,
         l.epoch \in Nat, l.first \in Nat \ {0}, LoaderAt(l, steps, paths, drawn)
  PROVE  LET perEpoch == Cardinality(Places(paths)) \div BatchSize
         IN  /\ steps + 1 - l.first \in Nat
             /\ steps - l.first < (l.epoch + 1) * perEpoch
<1> DEFINE total    == Cardinality(Places(paths))
           perEpoch == total \div BatchSize
           done     == l.epoch * perEpoch
<1>1. total \in Nat /\ BatchSize \in Nat \ {0}
  BY BlocksInLength, TrainingDataAssumption
<1>2. total >= BatchSize /\ l.first <= steps + 1
  BY DEF LoaderAt
<1>3. PICK p \in 0..perEpoch : steps + 1 = l.first + done + p
  BY DEF LoaderAt
<1>4. perEpoch \in Nat \ {0}
  BY <1>1, <1>2, BatchesFit
<1> HIDE DEF total, perEpoch
<1>5. (l.epoch + 1) * perEpoch = done + perEpoch /\ done \in Nat
  BY <1>4, OneMore
<1> HIDE DEF done
<1>6. steps + 1 - l.first \in Nat /\ steps - l.first < done + perEpoch
  BY <1>2, <1>3, <1>4, <1>5
<1> QED
  BY <1>5, <1>6 DEF perEpoch, total

LEMMA OfItsRange ==
  ASSUME NEW S, NEW s \in Seq(S)
  PROVE  s \in Seq(Range(s))
<1> DEFINE n == Len(s)
<1>1. n \in Nat /\ DOMAIN s = 1..n /\ s = [i \in 1..n |-> s[i]]
  BY LenProperties
<1> HIDE DEF n
<1>2. s \in [1..n -> Range(s)]
  BY <1>1 DEF Range
<1> QED
  BY <1>1, <1>2

LEMMA LaunchKeepsLoader ==
  ASSUME TokenizeTypes, LoaderTypes, LaunchTraining, manifest' = manifest
  PROVE  LoaderInv'
<1> DEFINE paths == TrainShards
           steps == Len(trained)
<1>1. manifest # <<>> /\ Cardinality(Places(paths)) >= BatchSize /\ trained' = trained
  BY DEF LaunchTraining, Total
<1>2. paths \in Shards /\ steps \in Nat
  BY <1>1, ListedShards, LoaderFields
<1>3. /\ loader' = [open |-> TRUE, epoch |-> 0, first |-> steps + 1,
                    unread |-> BlocksIn(paths, orders'[0])]
      /\ 0 \in DOMAIN orders'
  BY <1>2, EpochOpened DEF LaunchTraining
<1>4. TrainShards' = paths /\ manifest' # <<>>
  BY <1>1 DEF TrainShards
<1> HIDE DEF paths
<1>5. /\ loader'.open = TRUE /\ loader'.epoch = 0 /\ loader'.first = steps + 1
      /\ loader'.unread = BlocksIn(paths, orders'[0])
  BY <1>3
<1>6. LoaderTypes'
  <2>1. trained' \in Seq(Range(trained'))
    BY <1>1 DEF LoaderTypes
  <2>2. loader' \in [open : {TRUE}, epoch : Nat, first : Nat \ {0}, unread : {loader'.unread}]
    BY <1>2, <1>3, <1>5
  <2> QED
    BY <2>1, <2>2 DEF LoaderTypes
<1>7. LoaderAt(loader', steps, paths, orders')
  <2> DEFINE perEpoch == Cardinality(Places(paths)) \div BatchSize
             l        == loader'
             drawn    == orders'
  <2>1. perEpoch \in Nat
    BY <1>1, <1>2, BlocksInLength, TrainingDataAssumption, Division
  <2>2. 0 * perEpoch = 0
    BY <2>1, Z3
  <2>3. /\ l.epoch \in Nat /\ l.first \in Nat \ {0} /\ 0..l.epoch \subseteq DOMAIN drawn
        /\ l.unread = BlocksIn(paths, drawn[l.epoch])
    BY <1>2, <1>3, <1>5
  <2>4. steps + 1 = l.first + l.epoch * perEpoch
    <3> HIDE DEF perEpoch
    <3>1. l.epoch * perEpoch = 0
      BY <1>5, <2>2
    <3> QED
      BY <1>2, <1>5, <3>1
  <2> HIDE DEF l, drawn
  <2>5. LoaderAt(l, steps, paths, drawn)
    BY <1>1, <1>2, <2>3, <2>4, LoaderAtBeginning
  <2> QED
    BY <2>5 DEF l, drawn
<1>8. Replays(loader', trained', paths, orders')
  BY <1>1, <1>2, <1>5 DEF Replays
<1> QED
  BY <1>1, <1>4, <1>6, <1>7, <1>8 DEF LoaderInv

LEMMA NextEpochKeepsLoader ==
  ASSUME TokenizeTypes, LoaderInv, NextEpoch, manifest' = manifest
  PROVE  LoaderInv'
<1> DEFINE paths    == TrainShards
           steps    == Len(trained)
           perEpoch == Cardinality(Places(paths)) \div BatchSize
           epoch    == loader.epoch
           first    == loader.first
<1>1. /\ loader.open /\ Len(loader.unread) < BatchSize /\ trained' = trained
      /\ OpenEpoch(epoch + 1, first)
  BY DEF NextEpoch
<1>2. /\ manifest # <<>> /\ LoaderTypes /\ LoaderAt(loader, steps, paths, orders)
      /\ Replays(loader, trained, paths, orders)
  BY <1>1 DEF LoaderInv
<1>3. paths \in Shards /\ steps \in Nat /\ epoch \in Nat /\ first \in Nat \ {0}
  BY <1>1, <1>2, ListedShards, LoaderFields
<1>4. /\ loader' = [open |-> TRUE, epoch |-> epoch + 1, first |-> first,
                    unread |-> BlocksIn(paths, orders'[epoch + 1])]
      /\ epoch + 1 \in DOMAIN orders'
      /\ \A e \in DOMAIN orders : e \in DOMAIN orders' /\ orders'[e] = orders[e]
  BY <1>1, <1>3, EpochOpened
<1>5. TrainShards' = paths /\ manifest' # <<>>
  BY <1>2 DEF TrainShards
<1>6. Cardinality(Places(paths)) >= BatchSize /\ 0..epoch \subseteq DOMAIN orders
  BY <1>2 DEF LoaderAt
<1>7. /\ steps + 1 = first + (epoch + 1) * perEpoch
      /\ steps + 1 - first \in Nat /\ steps - first < (epoch + 1) * perEpoch
  BY <1>1, <1>2, <1>3, LoaderTakes, TakenBelow
<1> HIDE DEF paths
<1>8. /\ loader'.open = TRUE /\ loader'.epoch = epoch + 1 /\ loader'.first = first
      /\ loader'.unread = BlocksIn(paths, orders'[epoch + 1])
  BY <1>4
<1>9. LoaderTypes'
  <2>1. trained' \in Seq(Range(trained'))
    BY <1>1, <1>2 DEF LoaderTypes
  <2>2. loader' \in [open : {TRUE}, epoch : Nat, first : Nat \ {0}, unread : {loader'.unread}]
    BY <1>3, <1>4, <1>8
  <2> QED
    BY <2>1, <2>2 DEF LoaderTypes
<1>10. LoaderAt(loader', steps, paths, orders')
  <2> DEFINE l     == loader'
             drawn == orders'
  <2>1. l.epoch \in Nat /\ l.first \in Nat \ {0} /\ l.unread = BlocksIn(paths, drawn[l.epoch])
    BY <1>3, <1>8
  <2>2. 0..l.epoch \subseteq DOMAIN drawn
    <3>1. \A e \in 0..l.epoch : e \in 0..epoch \/ e = epoch + 1
      BY <1>3, <1>8
    <3> QED
      BY <1>4, <1>6, <3>1
  <2>3. steps + 1 = l.first + l.epoch * perEpoch
    BY <1>7, <1>8
  <2> HIDE DEF l, drawn
  <2>4. LoaderAt(l, steps, paths, drawn)
    BY <1>3, <1>6, <2>1, <2>2, <2>3, LoaderAtBeginning
  <2> QED
    BY <2>4 DEF l, drawn
<1>11. Replays(loader', trained', paths, orders')
  <2> DEFINE drawn == orders'
  <2> HIDE DEF drawn
  <2>1. \A e \in DOMAIN orders : drawn[e] = orders[e]
    BY <1>4 DEF drawn
  <2>2. ASSUME NEW step \in first..steps
        PROVE  trained[step] = BatchAt(paths, drawn, step - first)
    <3>1. step - first \in Nat /\ step - first <= steps - first
      BY <1>3, <2>2
    <3>2. (epoch + 1) * perEpoch \in Int
      <4>1. perEpoch \in Nat /\ epoch + 1 \in Nat
        <5>1. Cardinality(Places(paths)) \in Nat /\ BatchSize \in Nat \ {0}
          BY <1>3, BlocksInLength, TrainingDataAssumption
        <5>2. perEpoch \in Nat
          BY <5>1, Division
        <5> QED
          BY <1>3, <5>2
      <4> HIDE DEF perEpoch
      <4> QED
        BY <4>1, OneMore
    <3>3. step - first < (epoch + 1) * perEpoch
      <4> DEFINE all == (epoch + 1) * perEpoch
      <4>1. all \in Int /\ steps - first < all
        BY <1>7, <3>2
      <4> HIDE DEF all
      <4>2. step - first < all
        BY <1>3, <2>2, <3>1, <4>1
      <4> QED
        BY <4>2 DEF all
    <3>4. BatchAt(paths, drawn, step - first) = BatchAt(paths, orders, step - first)
      <4> DEFINE n == step - first
      <4> HIDE DEF n
      <4>1. n \in Nat /\ n < (epoch + 1) * perEpoch
        BY <3>1, <3>3 DEF n
      <4> HIDE DEF epoch
      <4>2. BatchAt(paths, drawn, n) = BatchAt(paths, orders, n)
        BY <1>3, <1>6, <2>1, <4>1, BatchesKept
      <4> QED
        BY <4>2 DEF n
    <3> QED
      BY <1>2, <2>2, <3>4 DEF Replays
  <2>3. Replays(loader', trained', paths, drawn)
    BY <1>1, <1>8, <2>2 DEF Replays
  <2> QED
    BY <2>3 DEF drawn
<1> QED
  BY <1>1, <1>5, <1>9, <1>10, <1>11 DEF LoaderInv

LEMMA LoaderLeft ==
  ASSUME NEW unread, NEW left,
         NEW l \in [open : {TRUE}, epoch : Nat, first : Nat \ {0}, unread : {unread}]
  PROVE  LET m == [l EXCEPT !.unread = left]
         IN  /\ m \in [open : {TRUE}, epoch : Nat, first : Nat \ {0}, unread : {left}]
             /\ m.open = TRUE /\ m.epoch = l.epoch /\ m.first = l.first /\ m.unread = left
OBVIOUS

LEMMA TrainStepKeepsLoader ==
  ASSUME TokenizeTypes, LoaderInv, TrainStep, manifest' = manifest
  PROVE  LoaderInv'
<1> DEFINE paths == TrainShards
           steps == Len(trained)
           epoch == loader.epoch
           first == loader.first
           batch == SubSeq(loader.unread, 1, BatchSize)
           left  == SubSeq(loader.unread, BatchSize + 1, Len(loader.unread))
<1>1. /\ loader.open /\ Len(loader.unread) >= BatchSize /\ orders' = orders
      /\ trained' = Append(trained, batch)
      /\ loader' = IF steps + 1 = PackedSteps THEN Closed ELSE [loader EXCEPT !.unread = left]
  BY DEF TrainStep
<1>2. /\ manifest # <<>> /\ LoaderTypes /\ LoaderAt(loader, steps, paths, orders)
      /\ Replays(loader, trained, paths, orders)
  BY <1>1 DEF LoaderInv
<1>3. paths \in Shards /\ steps \in Nat /\ epoch \in Nat /\ first \in Nat \ {0}
  BY <1>1, <1>2, ListedShards, LoaderFields
<1>4. /\ batch = BatchAt(paths, orders, steps + 1 - first)
      /\ \A m : m.epoch = epoch /\ m.first = first /\ m.unread = left
                => LoaderAt(m, steps + 1, paths, orders)
  BY <1>1, <1>2, <1>3, LoaderTakes
<1>5. TrainShards' = paths /\ manifest' # <<>>
  BY <1>2 DEF TrainShards
<1> HIDE DEF paths, batch, left
<1>6. /\ trained' \in Seq(Range(trained')) /\ Len(trained') = steps + 1
      /\ \A i \in 1..steps : trained'[i] = trained[i]
      /\ trained'[steps + 1] = batch
  <2> DEFINE S    == Range(trained) \cup {batch}
             next == trained'
  <2>1. trained \in Seq(S)
    <3>1. trained \in Seq(Range(trained))
      BY <1>2 DEF LoaderTypes
    <3>2. Range(trained) \subseteq S
      OBVIOUS
    <3> HIDE DEF S
    <3>3. \A i \in 1..steps : trained[i] \in S
      BY <3>1, <3>2, ElementOfSeq
    <3>4. trained = [i \in 1..steps |-> trained[i]]
      BY <3>1, LenProperties
    <3> QED
      BY <1>3, <3>3, <3>4
  <2>2. batch \in S
    OBVIOUS
  <2> HIDE DEF S
  <2>3. /\ next \in Seq(S) /\ Len(next) = steps + 1
        /\ \A i \in 1..steps : next[i] = trained[i]
        /\ next[steps + 1] = batch
    BY <1>1, <2>1, <2>2, AppendProperties
  <2> HIDE DEF next
  <2>4. next \in Seq(Range(next))
    BY <2>3, OfItsRange
  <2> QED
    BY <2>3, <2>4 DEF next
<1>7. CASE steps + 1 = PackedSteps
  <2>1. loader' = Closed
    BY <1>1, <1>7
  <2>2. ~loader'.open
    BY <2>1 DEF Closed
  <2>3. LoaderTypes'
    BY <1>6, <2>1 DEF LoaderTypes
  <2> QED
    BY <2>2, <2>3 DEF LoaderInv
<1>8. CASE steps + 1 # PackedSteps
  <2>1. loader' = [loader EXCEPT !.unread = left]
    BY <1>1, <1>8
  <2>2. /\ loader' \in [open : {TRUE}, epoch : Nat, first : Nat \ {0}, unread : {left}]
        /\ loader'.open = TRUE /\ loader'.epoch = epoch /\ loader'.first = first
        /\ loader'.unread = left
    <3>1. loader \in [open : {TRUE}, epoch : Nat, first : Nat \ {0}, unread : {loader.unread}]
      BY <1>1, <1>2, LoaderFields DEF LoaderTypes
    <3> QED
      BY <2>1, <3>1, LoaderLeft
  <2>3. LoaderTypes'
    BY <1>6, <2>2 DEF LoaderTypes
  <2>4. LoaderAt(loader', steps + 1, paths, orders)
    <3> DEFINE m == loader'
    <3>1. m.epoch = epoch /\ m.first = first /\ m.unread = left
      BY <2>2
    <3> HIDE DEF m
    <3>2. LoaderAt(m, steps + 1, paths, orders)
      BY <1>4, <3>1
    <3> QED
      BY <3>2 DEF m
  <2>5. Replays(loader', trained', paths, orders)
    <3> DEFINE next == trained'
    <3> HIDE DEF next
    <3>1. /\ Len(next) = steps + 1 /\ next[steps + 1] = batch
          /\ \A i \in 1..steps : next[i] = trained[i]
      BY <1>6 DEF next
    <3>2. ASSUME NEW step \in first..Len(next)
          PROVE  next[step] = BatchAt(paths, orders, step - first)
      <4>1. CASE step = steps + 1
        <5>1. step - first = steps + 1 - first
          BY <1>3, <4>1
        <5> QED
          BY <1>4, <3>1, <4>1, <5>1
      <4>2. CASE step # steps + 1
        <5>1. step \in first..steps /\ step \in 1..steps
          BY <1>3, <3>1, <3>2, <4>2
        <5>2. trained[step] = BatchAt(paths, orders, step - first)
          BY <1>2, <5>1 DEF Replays
        <5> QED
          BY <3>1, <5>1, <5>2
      <4> QED
        BY <4>1, <4>2
    <3>3. Replays(loader', next, paths, orders)
      BY <2>2, <3>2 DEF Replays
    <3> QED
      BY <3>3 DEF next
  <2>6. LoaderAt(loader', Len(trained'), paths, orders)
    BY <1>6, <2>4
  <2> QED
    BY <1>1, <1>5, <2>3, <2>5, <2>6 DEF LoaderInv
<1> QED
  BY <1>7, <1>8

LEMMA LoaderInvKept ==
  ASSUME TokenizeInv, LoaderInv, [Next]_vars
  PROVE  LoaderInv'
<1>1. TokenizeTypes /\ ManifestLast /\ LoaderTypes
  BY DEF TokenizeInv, LoaderInv
<1>2. CASE LaunchTraining /\ UNCHANGED tokenizeVars
  <2>1. manifest' = manifest
    BY <1>2 DEF tokenizeVars
  <2> QED
    BY <1>1, <1>2, <2>1, LaunchKeepsLoader
<1>3. CASE NextEpoch /\ UNCHANGED tokenizeVars
  <2>1. manifest' = manifest
    BY <1>3 DEF tokenizeVars
  <2> QED
    BY <1>1, <1>3, <2>1, NextEpochKeepsLoader
<1>4. CASE TrainStep /\ UNCHANGED tokenizeVars
  <2>1. manifest' = manifest
    BY <1>4 DEF tokenizeVars
  <2> QED
    BY <1>1, <1>4, <2>1, TrainStepKeepsLoader
<1>5. CASE TrainingCrash
  <2>1. loader' = Closed /\ trained' = trained
    BY <1>5 DEF TrainingCrash
  <2>2. ~loader'.open
    BY <2>1 DEF Closed
  <2>3. LoaderTypes'
    BY <1>1, <2>1 DEF LoaderTypes
  <2> QED
    BY <2>2, <2>3 DEF LoaderInv
<1>6. CASE UNCHANGED packedVars /\ (TokenizeStep \/ JobCrash \/ manifest' = manifest)
  <2>1. loader' = loader /\ trained' = trained /\ orders' = orders
    BY <1>6 DEF packedVars
  <2>2. LoaderTypes'
    BY <1>1, <2>1 DEF LoaderTypes
  <2>3. CASE loader.open
    <3>1. manifest # <<>>
      BY <2>3 DEF LoaderInv
    <3>2. manifest' = manifest
      BY <1>1, <1>6, <3>1, ManifestWrittenOnce
    <3>3. TrainShards' = TrainShards
      BY <3>2 DEF TrainShards
    <3> QED
      BY <2>1, <2>2, <2>3, <3>1, <3>2, <3>3 DEF LoaderInv
  <2>4. CASE ~loader.open
    BY <2>1, <2>2, <2>4 DEF LoaderInv
  <2> QED
    BY <2>3, <2>4
<1>7. CASE PackedProgram
  <2>1. (TokenizeStep /\ UNCHANGED packedVars) \/ (PackedStep /\ UNCHANGED tokenizeVars)
    BY <1>7 DEF PackedProgram
  <2> QED
    BY <1>2, <1>3, <1>4, <1>6, <2>1 DEF PackedStep
<1>8. CASE ParquetProgram
  <2>1. UNCHANGED packedVars /\ manifest' = manifest
    BY <1>8 DEF ParquetProgram, tokenizeVars
  <2> QED
    BY <1>6, <2>1
<1>9. CASE JobCrash /\ UNCHANGED packedVars
  BY <1>6, <1>9
<1>10. CASE StreamCrash /\ UNCHANGED <<tokenizeVars, packedVars>>
  <2>1. UNCHANGED packedVars /\ manifest' = manifest
    BY <1>10 DEF tokenizeVars
  <2> QED
    BY <1>6, <2>1
<1>11. CASE UNCHANGED vars
  <2>1. UNCHANGED packedVars /\ manifest' = manifest
    BY <1>11 DEF vars, tokenizeVars, packedVars
  <2> QED
    BY <1>6, <2>1
<1> QED
  BY <1>5, <1>7, <1>8, <1>9, <1>10, <1>11 DEF Next

LEMMA LoaderInvGivesReplays ==
  ASSUME LoaderInv
  PROVE  ResumeReplays
<1> SUFFICES ASSUME loader.open, NEW step \in loader.first..Len(trained)
             PROVE  trained[step] = Undisturbed(step - loader.first + 1)
  BY DEF ResumeReplays
<1>1. loader.first \in Nat /\ Len(trained) \in Nat
  BY LoaderFields DEF LoaderInv
<1>2. step - loader.first \in Int /\ (step - loader.first + 1) - 1 = step - loader.first
  BY <1>1
<1>3. trained[step] = BatchAt(TrainShards, orders, step - loader.first)
  BY DEF LoaderInv, Replays
<1>4. Undisturbed(step - loader.first + 1) = BatchAt(TrainShards, orders, step - loader.first)
  <2> DEFINE k == step - loader.first + 1
  <2>1. k - 1 = step - loader.first
    BY <1>2
  <2> HIDE DEF k
  <2>2. Undisturbed(k) = BatchAt(TrainShards, orders, k - 1)
    BY DEF Undisturbed, BatchAt, Total
  <2>3. Undisturbed(k) = BatchAt(TrainShards, orders, step - loader.first)
    BY <2>1, <2>2
  <2> QED
    BY <2>3 DEF k
<1> QED
  BY <1>3, <1>4

\* The inductive invariant of the packed loader, on top of the tokenizer's.
THEOREM LoaderInvariant == Spec => []LoaderInv
<1>1. Init => LoaderInv
  BY DEF Init, LoaderInv, LoaderTypes, Closed, Range
<1>2. TokenizeInv /\ LoaderInv /\ [Next]_vars => LoaderInv'
  BY LoaderInvKept
<1> QED
  BY <1>1, <1>2, TokenizeInvariant, PTL DEF Spec

\* However often training is stopped and started, every launch takes the batches
\* of a run from its beginning, for any shards, batch size and shuffle.
THEOREM ResumeReplaysAlways == Spec => []ResumeReplays
<1>1. LoaderInv => ResumeReplays
  BY LoaderInvGivesReplays
<1> QED
  BY <1>1, LoaderInvariant, PTL
===============================================================================
