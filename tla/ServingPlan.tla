------------------------------ MODULE ServingPlan ------------------------------
(* The two decision tables of the server: how KV is kept under a pressure      *)
(* (kv/policy.py) and in which number format weights are loaded on the         *)
(* hardware at hand (quantization/planner.py).  Fractions are in tenths of a   *)
(* percent, pressures in percent, memory in quarters of a GB.                  *)
EXTENDS Integers, FiniteSets

PolicyModes == {"quality_first", "balanced", "memory_first", "throughput_first"}

Decision(bits, residual, recent, hot, prune, cpu, nvme, prefetch) ==
  [bit_width |-> bits, residual_ratio |-> residual, recent_window |-> recent,
   high_attention_fraction |-> hot, prune_fraction |-> prune, page_to_cpu |-> cpu,
   page_to_nvme |-> nvme, prefetch_tokens |-> prefetch]

\* KVPolicyEngine.decide; the first row that applies.
QualityRow(mode, pressure, busy)  == mode = "quality_first" /\ pressure < 72 /\ ~busy
PressureRow(mode, pressure)       == mode = "memory_first" \/ pressure >= 90
ThroughputRow(mode, busy)         == mode = "throughput_first" \/ busy

Decide(mode, pressure, busy, long) ==
  IF QualityRow(mode, pressure, busy) THEN Decision(4, 4, 1024, 200, 0, FALSE, FALSE, 2048)
  ELSE IF PressureRow(mode, pressure) THEN
    Decision(IF pressure >= 98 THEN 2 ELSE 3, 1, 256, 80,
             IF pressure >= 98 THEN 200 ELSE 100, TRUE, pressure >= 98, 512)
  ELSE IF ThroughputRow(mode, busy) THEN
    Decision(3, 1, 384, 100, IF long THEN 50 ELSE 0, pressure >= 80, FALSE, 768)
  ELSE
    Decision(IF pressure < 75 THEN 4 ELSE 3, 2, IF long THEN 512 ELSE 768, 120,
             IF pressure >= 82 THEN 50 ELSE 0, pressure >= 86, FALSE, 1024)

\* Decision e keeps at most as much in GPU memory, field by field, as d.
AtLeastAsTight(e, d) ==
  /\ e.bit_width <= d.bit_width /\ e.residual_ratio <= d.residual_ratio
  /\ e.recent_window <= d.recent_window
  /\ e.high_attention_fraction <= d.high_attention_fraction
  /\ e.prune_fraction >= d.prune_fraction
  /\ d.page_to_cpu => e.page_to_cpu
  /\ d.page_to_nvme => e.page_to_nvme
  /\ e.prefetch_tokens <= d.prefetch_tokens

-------------------------------------------------------------------------------
WeightModes == {"bf16", "fp16", "fp8", "int8", "int4"}
AllHardware ==
  {[kind |-> "cuda", memory |-> m, bf16 |-> b, fp8 |-> FALSE, int4 |-> TRUE] :
     m \in {3, 16, 20, 32}, b \in BOOLEAN}
  \cup {[kind |-> "cuda", memory |-> m, bf16 |-> TRUE, fp8 |-> TRUE, int4 |-> TRUE] :
           m \in {3, 16, 20, 32}}
  \cup {[kind |-> "rocm", memory |-> 0, bf16 |-> TRUE, fp8 |-> FALSE, int4 |-> TRUE],
        [kind |-> "cpu", memory |-> 0, bf16 |-> FALSE, fp8 |-> FALSE, int4 |-> FALSE]}

\* Mutant: the fallback of a mode is not looked at again.
ValidatedOnce(requested, hw) ==
  CASE requested = "fp8" /\ ~hw.fp8   -> IF hw.kind = "cpu" THEN "int8" ELSE "fp16"
    [] requested = "bf16" /\ ~hw.bf16 -> "fp16"
    [] OTHER -> requested
\* _validate_requested
Validated(requested, hw) ==
  CASE requested = "fp8" /\ ~hw.fp8   -> IF hw.kind = "cpu" THEN "int8" ELSE "fp16"
    [] requested = "int4" /\ ~hw.int4 -> "int8"
    [] requested = "bf16" /\ ~hw.bf16 -> IF hw.kind = "cuda" THEN "fp16" ELSE "int8"
    [] OTHER -> requested

WidestFloat(hw) == IF hw.bf16 THEN "bf16" ELSE IF hw.kind = "cuda" THEN "fp16" ELSE "int8"

\* plan for a model that needs `min` and leaves the choice to the policy.
AutoMode(policy, hw, min) ==
  CASE policy = "quality_first" -> WidestFloat(hw)
    [] policy = "memory_first"  -> IF hw.int4 THEN "int4" ELSE "int8"
    [] policy = "throughput_first" -> IF hw.fp8 THEN "fp8" ELSE IF hw.int4 THEN "int4" ELSE "int8"
    [] OTHER -> IF hw.fp8 /\ hw.memory >= min THEN "fp8"
                ELSE IF hw.int4 /\ (hw.memory < 4 \/ 4 * hw.memory < 5 * min) THEN "int4"
                ELSE WidestFloat(hw)

Selected(requested, policy, hw, min) ==
  IF requested = "auto" THEN AutoMode(policy, hw, min) ELSE Validated(requested, hw)

\* _build_plan: how the weights are read and whether they are quantized on the way.
Built(selected, prequantized) ==
  [selected |-> selected,
   kv_cache |-> IF selected = "fp8" THEN "fp8" ELSE "auto",
   online   |-> selected \in {"fp8", "int4", "int8"} /\ ~prequantized,
   format   |-> CASE selected \in {"bf16", "fp16"} -> "safetensors"
                  [] selected = "fp8"  -> IF prequantized THEN "fp8" ELSE "safetensors"
                  [] selected = "int4" -> IF prequantized THEN "awq" ELSE "safetensors"
                  [] selected = "int8" -> IF prequantized THEN "int8" ELSE "bitsandbytes"]
===============================================================================
