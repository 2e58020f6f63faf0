------------------------------- MODULE Algorithms -------------------------------
(* Runs the pure algorithms of ShardStorage, KVCodec and ServingPlan over      *)
(* bounded inputs: a behaviour takes one input and computes one answer, where  *)
(* the code leaves a choice any of the answers.  The properties compare an     *)
(* answer with a reference definition.                                         *)
EXTENDS ShardStorage, KVCodec, ServingPlan

CONSTANTS Shapes,      \* parameter tensors of a shard: sequences of [rows, width]
          MaxParts,    \* bound on the parts of a shard
          CountLists,  \* parameter counts of the shards of a model
          MaxSize,     \* bound on the size of an exported tensor
          MaxCodes,    \* bound on the codes packed together
          Rows,        \* rows of numbers to quantize
          MaxTokens    \* bound on the tokens of a request

ASSUME AlgorithmsAssumption ==
  {MaxParts, MaxSize, MaxCodes, MaxTokens} \subseteq Nat /\ Rows \subseteq Seq(Int)

VARIABLES subject, input, answer

algorithmVars == <<subject, input, answer>>

-------------------------------------------------------------------------------
(* Inputs *)

\* The optimizer payload of a shard: one or two averages per parameter.
Averages(shape, each) == FlattenSeq([i \in DOMAIN shape |-> [k \in 1..each |-> shape[i]]])

\* A shard stored in `old` parts is published again in `new` parts; the writer is
\* cut after `params` and `optims` of them, and a launch that plans `plan` reads it.
Publications ==
  {p \in [shape : Shapes, each : {1, 2}, old : 1..MaxParts, new : 1..MaxParts,
          params : 0..MaxParts, optims : 0..MaxParts, plan : 1..MaxParts] :
     /\ p.params <= p.new /\ p.optims <= p.new
     /\ p.optims > 0 => p.params = p.new}

Codes == (UNION {[values : UNION {[1..n -> -Qmax(w)..Qmax(w)] : n \in 1..MaxCodes}, width : {w}] :
                 w \in {2, 3}})
         \cup [values : {[i \in 1..5 |-> IF i % 2 = k THEN v ELSE -v] : k \in {0, 1}, v \in 0..7},
               width : {4}]

Exports == (UNION {[1..n -> 1..MaxSize] : n \in 1..4}) \X (1..(2 * MaxSize))

Magnitudes == 0..600 \cup {(16 + m) * 2^e + d : m \in 0..15, e \in 5..14, d \in {-1, 0, 1}}
              \cup {MaxFinite, MaxFinite + 1}

TokenRequests == [n : 1..MaxTokens, scores : [0..(MaxTokens - 1) -> {1, 2}], given : BOOLEAN,
                  recent : {0, 1, 3}, prune : {0, 20, 50, 90}, hot : {0, 20, 50}]

Inputs(s) ==
  CASE s = "publication" -> Publications
    [] s = "plan"        -> CountLists \X (0..12)
    [] s = "export"      -> Exports
    [] s = "codes"       -> Codes
    [] s = "row"         -> Rows \X (1..4) \X {2, 3, 4}
    [] s = "fp8"         -> Magnitudes
    [] s = "tokens"      -> TokenRequests
    [] s = "policy"      -> PolicyModes \X (60..100) \X BOOLEAN \X BOOLEAN
    [] s = "weights"     -> (WeightModes \cup {"auto"}) \X PolicyModes \X AllHardware
                              \X {0, 16} \X BOOLEAN
Subjects == {"publication", "plan", "export", "codes", "row", "fp8", "tokens", "policy", "weights"}

(* Answers *)

\* What the launch reads, first the parameters and then the optimizer state.
ReadBack(p) ==
  LET averages == Averages(p.shape, p.each)
      params   == Published(Files(p.shape, p.old, 1), Files(p.shape, p.new, 2),
                            p.params)
      optims   == Published(Files(averages, p.old, 1), Files(averages, p.new, 2), p.optims)
  IN  [params |-> Loaded(params, ExistingFiles(params, p.plan)),
       optims |-> Loaded(optims, ExistingFiles(optims, p.plan))]

Answers(s, x) ==
  CASE s = "publication" -> {ReadBack(x)}
    [] s = "plan"        -> {Plan(x[1], x[2])}
    [] s = "export"      -> {Exported(x[1], x[2])}
    [] s = "codes"       -> {Unpack(Pack(x.values, x.width), Len(x.values), x.width)}
    [] s = "row"         -> {Restored(x[1], x[2], x[3])}
    [] s = "fp8"         -> {Encode(x)}
    [] s = "tokens"      -> Stored(x.n, x.scores, x.given, x.recent, x.prune, x.hot)
    [] s = "policy"      -> {Decide(x[1], x[2], x[3], x[4])}
    [] s = "weights"     -> {Built(Selected(x[1], x[2], x[3], x[4]), x[5])}

AlgorithmsInit == /\ subject \in Subjects /\ input \in Inputs(subject) /\ answer = {}
Compute == /\ answer = {}
           /\ \E a \in Answers(subject, input) : answer' = {a}
           /\ UNCHANGED <<subject, input>>
AlgorithmsSpec == AlgorithmsInit /\ [][Compute]_algorithmVars

Answer(s) == IF subject = s THEN answer ELSE {}

-------------------------------------------------------------------------------
\* A launch that the parameters of a shard let in has them as one write left
\* them, and its optimizer state too, or it raises or starts that state anew:
\* whatever the split into parts before and after, the parts the launch itself
\* plans, and the point at which the publication was cut.  The exception is a cut
\* between the parts of the optimizer state: the averages in the parts that are
\* missing are taken for new ones at the step of those that are there.
UsedPayloadsWhole ==
  \A a \in Answer("publication") :
    LET averages == Averages(input.shape, input.each)
    IN  /\ (input.optims = input.new /\ input.plan = input.new) =>
             /\ Accepted(a.params, input.shape) /\ Accepted(a.optims, averages)
        /\ Accepted(a.params, input.shape) =>
             /\ a.params.tensors = Payload(input.shape, 2) /\ a.params.step = 2
             /\ (input.optims \in {0, input.new}) =>
                  \/ ~a.optims.found \/ ~a.optims.whole
                  \/ a.optims.tensors = Payload(averages, 2)

\* The parts planned for the shards add up to what was asked for, each shard has
\* one, and a larger shard never gets fewer than a smaller one.  An export has
\* every tensor once, in order, where its index says; a file is over the limit
\* only with a single tensor, and no two files in a row could have been one.
PartsAddUp ==
  /\ \A plan \in Answer("plan") :
       /\ FoldSeq(+, 0, plan) = Larger(input[2], Len(input[1]))
       /\ \A i, j \in DOMAIN plan :
            plan[i] >= 1 /\ (input[1][i] > input[1][j] => plan[i] >= plan[j])
  /\ \A e \in Answer("export") :
       LET Bytes(n) == FoldSeq(LAMBDA i, sum : sum + input[1][i], 0, e.files[n])
       IN  /\ FlattenSeq(e.files) = [i \in DOMAIN input[1] |-> i]
           /\ \A n \in DOMAIN e.files : Bytes(n) <= input[2] \/ Len(e.files[n]) = 1
           /\ \A n \in 1..(Len(e.files) - 1) : Bytes(n) + Bytes(n + 1) > input[2]
           /\ \A i \in DOMAIN e.weightMap : Contains(e.files[e.weightMap[i]], i)

\* What the codecs store decodes to what was put in: low-bit codes exactly, in
\* every alignment to bytes.  A group-quantized number comes back within half a
\* step of its own group's scale and, for each of at most Qmax steps, half the
\* distance of two float16 numbers at that scale: the least one, or a 1024th of
\* the scale if that is more.  It is lost, to inf or nan, exactly if the scale
\* rounds to more than the largest float16.  An FP8 number is within half a step,
\* exactly if it has a code.
StoredValuesDecode ==
  /\ \A values \in Answer("codes") : values = input.values
  /\ \A restored \in Answer("row") :
       \A i \in DOMAIN restored :
         LET qmax  == Qmax(input[3])
             scale == GroupScale(Padded(input[1], input[2]), input[2], input[3], i)
         IN  /\ restored[i].finite <=> 2 * scale < 4095 * (LargestStep * qmax)
             /\ restored[i].finite =>
                  2 * (qmax * Magnitude(restored[i].value - input[1][i]))
                    <= scale + qmax * Larger(HalfSteps[1] * qmax, scale \div 1024)
  /\ \A code \in Answer("fp8") :
       LET v == Smaller(input, MaxFinite)
           step == IF v < NormalMin THEN 2 ELSE 2 * 2^(Exponent(v) - 1)
       IN  2 * Magnitude(Decode(code) - v) <= step

\* The tokens of a request are pruned or in exactly one tier; none of the recent
\* window is pruned or compressed; and with attention scores none of a colder
\* fate was scored above one of a warmer.
TokensByImportance ==
  \A a \in Answer("tokens") :
    LET recent == {t \in 0..(input.n - 1) : t >= input.n - input.recent}
        fates  == <<a.pruned, a.tiers.cold, a.tiers.hot, a.tiers.recent>>
    IN  /\ a.tiers.recent = recent
        /\ UNION Range(fates) = 0..(input.n - 1)
        /\ \A i, j \in 1..4 : i # j => fates[i] \cap fates[j] = {}
        /\ input.given =>
             \A i, j \in 1..3 : i < j =>
               \A t \in fates[i], u \in fates[j] : input.scores[t] <= input.scores[u]
        /\ 100 * Cardinality(a.pruned) <= 80 * input.n

\* More GPU pressure never loosens a policy, and from 90 percent on every mode
\* does what memory_first does.  Weights, and the KV cache with them, are planned
\* in a format that the hardware has, whether it was requested or chosen; only a
\* requested fp16 is not checked.
PlansHold ==
  /\ \A d \in Answer("policy") :
       /\ \A p \in 60..input[2] : AtLeastAsTight(d, Decide(input[1], p, input[3], input[4]))
       /\ input[2] >= 90 => d = Decide("memory_first", input[2], input[3], input[4])
  /\ \A plan \in Answer("weights") :
       LET hw == input[3]
       IN  /\ plan.selected = "bf16" => hw.bf16
           /\ plan.selected = "fp8" \/ plan.kv_cache = "fp8" => hw.fp8
           /\ plan.selected = "int4" => hw.int4
           /\ plan.selected = "fp16" => hw.kind # "cpu" \/ input[1] = "fp16"
           /\ plan.online => ~input[5] /\ plan.format \in {"safetensors", "bitsandbytes"}
===============================================================================
