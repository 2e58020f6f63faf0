-------------------------------- MODULE KVCodec --------------------------------
(* What becomes of a request's KV between the model and a page: kv/pruning.py, *)
(* the codecs and the selective compressor of kv/compression.py, and the merge *)
(* of key and value in kv/control_plane.py.  Numbers are integers in a unit    *)
(* that makes every threshold of the code exact.                               *)
EXTENDS Integers, FiniteSets, SequencesExt

CONSTANTS HalfSteps,  \* distances between neighbouring float16 numbers, by binade
          ScaleFloor  \* the least scale, 1e-8

\* float16 has 11 significant bits: 2^-24 .. 2^5, or 390625 * 2^k for k in 0..29
\* in units of 2^-24/390625, in which 1e-8 is 65536.
ASSUME CodecAssumption ==
  /\ HalfSteps \in Seq(Nat \ {0}) /\ HalfSteps # <<>>
  /\ \A k \in 2..Len(HalfSteps) : HalfSteps[k] = 2 * HalfSteps[k - 1]
  /\ ScaleFloor \in Nat \ {0}

Smaller(a, b) == IF a < b THEN a ELSE b
Larger(a, b)  == IF a > b THEN a ELSE b
CeilDiv(a, b) == (a + b - 1) \div b

\* n / d rounded to the nearest integer, halves to the even one (numpy round).
RoundDiv(n, d) ==
  LET q == n \div d   r == n % d
  IN  IF 2 * r < d THEN q ELSE IF 2 * r > d THEN q + 1 ELSE q + (q % 2)

-------------------------------------------------------------------------------
(* Low-bit packing *)

Bit(n, k) == (n \div 2^k) % 2
Qmax(width) == 2^(width - 1) - 1

\* pack_signed_nbit: the codes, shifted to be positive, as a row of bits with the
\* lowest first, cut into bytes.
PackedBit(values, width, b) ==
  LET i == b \div width
  IN  IF i < Len(values) THEN Bit(values[i + 1] + Qmax(width), b % width) ELSE 0

Pack(values, width) ==
  LET Byte(n) == LET bit(k) == PackedBit(values, width, 8 * (n - 1) + k)
                 IN  bit(0) + 2 * bit(1) + 4 * bit(2) + 8 * bit(3)
                       + 16 * bit(4) + 32 * bit(5) + 64 * bit(6) + 128 * bit(7)
  IN  [n \in 1..CeilDiv(Len(values) * width, 8) |-> Byte(n)]

\* unpack_signed_nbit: a code is masked out of the byte it begins in and, if it
\* crosses its end, of the next.
Unpack(bytes, count, width) ==
  [i \in 1..count |->
     LET at     == (i - 1) * width
         byte   == at \div 8 + 1
         offset == at % 8
         raw    == bytes[byte] \div 2^offset
                   + (IF offset + width > 8 /\ byte < Len(bytes)
                      THEN bytes[byte + 1] * 2^(8 - offset) ELSE 0)
     IN  (raw % 2^width) - Qmax(width)]

\* TurboQuant of one row: groups of the padded row, each scaled by its largest
\* magnitude over Qmax.  The rotation around it is external, and the float32
\* arithmetic between the roundings to codes and to float16 is taken as exact.
Padded(row, group) ==
  [i \in 1..(group * CeilDiv(Len(row), group)) |-> IF i <= Len(row) THEN row[i] ELSE 0]
Magnitude(v) == IF v < 0 THEN -v ELSE v
\* Mutant: one scale for the whole row, taken from its first group.
FirstScale(padded, group, width, i) ==
  Larger(Max({Magnitude(padded[k]) : k \in 1..group}), ScaleFloor * Qmax(width))
\* The scale of i's group, times Qmax.
GroupScale(padded, group, width, i) ==
  LET first == ((i - 1) \div group) * group
  IN  Larger(Max({Magnitude(padded[first + k]) : k \in 1..group}), ScaleFloor * Qmax(width))
Clipped(v, limit) == Larger(-limit, Smaller(limit, v))
Quantized(row, group, width) ==
  LET padded == Padded(row, group)
      Q(i)   == LET scale == GroupScale(padded, group, width, i)
                    sign  == IF padded[i] < 0 THEN -1 ELSE 1
                IN  Clipped(sign * RoundDiv(Magnitude(padded[i]) * Qmax(width), scale),
                            Qmax(width))
  IN  [i \in DOMAIN padded |-> Q(i)]

\* astype(float16) of n / d: so many of the steps around it, or inf.
LargestStep == HalfSteps[Len(HalfSteps)]
HalfStep(n, d) ==
  HalfSteps[CHOOSE k \in DOMAIN HalfSteps :
              /\ k = 1 \/ n >= 2048 * (HalfSteps[k - 1] * d)
              /\ k = Len(HalfSteps) \/ n < 2048 * (HalfSteps[k] * d)]
Half(n, d)     == HalfStep(n, d) * RoundDiv(n, HalfStep(n, d) * d)
IsFinite(half) == half < 2048 * LargestStep

\* compress and decompress: the codes times the scale as it was stored.  With
\* inf for a scale every number of the group is inf or nan.
Restored(row, group, width) ==
  LET padded == Padded(row, group)
      codes  == Unpack(Pack(Quantized(row, group, width), width), Len(padded), width)
      stored(i) == Half(GroupScale(padded, group, width, i), Qmax(width))
  IN  [i \in DOMAIN row |-> IF IsFinite(stored(i))
                           THEN [finite |-> TRUE, value |-> codes[i] * stored(i)]
                           ELSE [finite |-> FALSE, value |-> 0]]

-------------------------------------------------------------------------------
(* FP8 E4M3; magnitudes in units of 2^-10, half of the smallest step. *)

NormalMin == 16
MaxFinite == 480 * 1024
Exponents == 1..15
Exponent(x) == CHOOSE e \in Exponents :
  x >= NormalMin * 2^(e - 1) /\ (e = 15 \/ x < NormalMin * 2^e)

Encode(x) ==
  LET v == Smaller(x, MaxFinite)
      e == Exponent(v)
      m == RoundDiv(8 * (v - NormalMin * 2^(e - 1)), NormalMin * 2^(e - 1))
  IN  IF v < NormalMin THEN [exp |-> 0, mantissa |-> Smaller(7, RoundDiv(v, 2))]
      ELSE IF m = 8 THEN [exp |-> Smaller(15, e + 1), mantissa |-> 0]
      ELSE [exp |-> e, mantissa |-> m]

Decode(code) ==
  IF code.exp = 0 THEN 2 * code.mantissa
  ELSE (8 + code.mantissa) * 2 * 2^(code.exp - 1)

-------------------------------------------------------------------------------
(* Tokens 0..n-1, of which the last `recent` are protected *)

Old(n, recent) == 0..(n - recent - 1)

\* argpartition: any of the sets of k elements of S with the highest (lowest) scores.
Highest(S, scores, k) ==
  {T \in SUBSET S : Cardinality(T) = k /\ \A t \in T, u \in S \ T : scores[t] >= scores[u]}
Lowest(S, scores, k) ==
  {T \in SUBSET S : Cardinality(T) = k /\ \A t \in T, u \in S \ T : scores[t] <= scores[u]}

PruneCount(n, recent, percent) ==
  IF n <= recent THEN 0 ELSE Smaller((n * Smaller(percent, 80)) \div 100, n - recent)

\* prune_kv_tokens: the tokens removed; they are drawn from the old ones.
Pruned(n, scores, recent, percent) ==
  Lowest(Old(n, recent), scores, PruneCount(n, recent, percent))

\* SelectiveKVCompressor.compress: the tiers of n tokens, cold first as the
\* segments are.  Without scores later tokens count as more important.
Compressed(n, scores, recent, percent) ==
  LET kept == Smaller(recent, n)
      hot  == Smaller(n - kept, CeilDiv(n * percent, 100))
  IN  {[cold |-> Old(n, kept) \ H, hot |-> H, recent |-> (n - kept)..(n - 1)] :
         H \in Highest(Old(n, kept), scores, hot)}

\* The i-th of the retained tokens is token i of what is compressed.
Kept(retained, i) == CHOOSE t \in retained : Cardinality({u \in retained : u < t}) = i

\* Mutant: the attention scores are not moved along with the tokens.
ScoresUnmoved(scores, given, retained) ==
  [i \in 0..(Cardinality(retained) - 1) |-> IF given THEN scores[i] ELSE i]
\* The scores the compressor is called with; without any it takes later for hotter.
ScoresOf(scores, given, retained) ==
  [i \in 0..(Cardinality(retained) - 1) |-> IF given THEN scores[Kept(retained, i)] ELSE i]

\* store_kv: what may become of the n tokens of a request whose attention scores
\* are given, or not, when the pruning goes by the energy of the keys and values.
Stored(n, scores, given, recent, prune, hot) ==
  UNION {LET retained == (0..(n - 1)) \ gone
         IN  {[pruned |-> gone,
               tiers  |-> [tier \in DOMAIN t |-> {Kept(retained, i) : i \in t[tier]}]] :
                t \in Compressed(n - Cardinality(gone), ScoresOf(scores, given, retained), recent, hot)} :
         gone \in Pruned(n, scores, recent, prune)}
===============================================================================
