--------------------------- MODULE StepUpdate_proofs ---------------------------
(* Proofs about StepUpdate: for any number of shards, micro-batches, tokens,   *)
(* steps and launches and any choice of chunks, periods, clipping modes and    *)
(* optimizers, a streamed step is the step of a resident model.                *)
EXTENDS StepUpdate, FiniteSetTheorems, SequenceTheorems, TLAPS

\* The last version that is published as a whole.
Base == IF phase = "idle" THEN step ELSE step - 1

\* With all weights at version v: what an activation went through after n shards, what the
\* forward pass keeps of a micro-batch, and what the backward pass hands down.
Through(n, v) == [i \in 1..n |-> v]
Passed(n, v) == [s \in 1..n |-> Through(s, v)]
Above(n, v) == [through |-> Through(n, v), tokens |-> [t \in 1..Tokens |-> 1]]

\* The gradient of shard s, and what a collecting pass makes of it.
Gradient(s, v) ==
  [m \in Micros |-> [micro   |-> m,
                     input   |-> Through(s - 1, v),
                     through |-> Through(Last + 1 - s, v),
                     tokens  |-> [t \in 1..Tokens |-> 1]]]
Payload(s, v, held) == [shard |-> s, measured |-> Gradient(s, v), held |-> held]

Collects == GlobalOptimizerRuns \/ config.clip = "global"
Averages == [f \in Moments(config.optimizer) |-> LoadedMoments(1)[f] + 1]
ResidentUpdate(s) ==
  [version |-> step, base |-> step - 1, gradient |-> Gradient(s, step - 1),
   factors |-> ResidentFactors(s), count |-> step, moments |-> Averages]

Backward == {"collect", "update"}

\* Where the trainer can be.
Placed ==
  /\ config \in [clip : {"shard", "global"}, every : Periods, chunk : Chunks,
                 optimizer : Optimizers]
  /\ launches \in Nat \ {0} /\ step \in Nat
  /\ phase \in {"idle", "forward", "collect", "update", "apply", "commit"}
  /\ phase # "idle" => step > 0
  /\ at \in Shards /\ micro \in 1..(MicroBatches + 1)
  /\ phase = "forward" => at < Last /\ micro \in Micros
  /\ phase = "collect" => Collects
  /\ phase = "update" => GlobalOptimizerRuns \/ config.clip = "shard"
  /\ phase = "apply" => config.clip = "global" /\ ~GlobalOptimizerRuns

\* One shard is in use at a time, at the version before the step.
InUse ==
  /\ active = {} \/ (active = {at} /\ module = step - 1 /\ phase \in Backward \cup {"apply"})
  /\ tuning = {}
     \/ (tuning = {at} /\ active = {at} /\ micro > MicroBatches /\ phase \in {"update", "apply"})

\* The published shards are of one version, and their averages alike.
Published ==
  /\ \A s \in Shards :
       /\ stored[s].version = Base /\ stored[s].count = Base
       /\ stored[s].moments = stored[1].moments
  /\ launches = 1 =>
       \/ stored[1].moments = [f \in Moments(config.optimizer) |-> Base]
       \/ Base = 0 /\ stored[1].moments = [f \in {} |-> 0]

\* The activations are those of the weights before the step.
Activations ==
  /\ phase = "forward" =>
       boundaries = [m \in Micros |-> Passed(IF m < micro THEN Last - 1
                                             ELSE IF m = micro THEN at - 1 ELSE 0, step - 1)]
  /\ phase \in Backward => boundaries = [m \in Micros |-> Passed(Last - 1, step - 1)]

\* So are the gradients handed down, and those accumulated in the shard in use.
Gradients ==
  /\ phase \in Backward \cup {"forward"} =>
       upstream \in [Micros -> {<<>>} \cup {Above(n, step - 1) : n \in Shards}]
  /\ phase \in Backward =>
       \A m \in Micros :
         IF active = {at} /\ m < micro THEN upstream[m] = Above(Last + 1 - at, step - 1)
         ELSE at < Last => upstream[m] = Above(Last - at, step - 1)
  /\ (phase \in Backward /\ active = {at}) =>
       local = [m \in 1..(micro - 1) |-> Gradient(at, step - 1)[m]]
  /\ (phase = "apply" /\ active = {at}) => local = Gradient(at, step - 1)

\* What a collecting pass has put by, and what is left of it to apply.
PutBy ==
  /\ (phase \in {"idle", "forward"} \/ (phase = "update" /\ ~GlobalOptimizerRuns)) =>
       payloads = <<>>
  /\ phase = "collect" =>
       payloads = [i \in 1..(Last - at) |->
                     Payload(Last + 1 - i, step - 1,
                             IF GlobalOptimizerRuns THEN <<>> ELSE Gradient(Last + 1 - i, step - 1))]
  /\ (phase = "update" /\ GlobalOptimizerRuns) =>
       payloads = [i \in 1..Last |-> Payload(Last + 1 - i, step - 1, <<>>)]
  /\ phase = "apply" =>
       payloads = [i \in 1..Last |->
                     Payload(Last + 1 - i, step - 1,
                             IF Last + 1 - i <= at THEN Gradient(Last + 1 - i, step - 1) ELSE <<>>)]

\* The shards above the one at hand are staged, each with the update of a resident model.
Staged ==
  staged = [s \in (CASE phase \in {"update", "apply"} -> (at + 1)..Last
                     [] phase = "commit" -> Shards
                     [] OTHER -> {}) |-> ResidentUpdate(s)]

IndInv ==
  Placed /\ InUse /\ Published /\ Activations /\ Gradients /\ PutBy /\ Staged

-------------------------------------------------------------------------------
(* Chunks: every token is counted once *)

LEMMA Division ==
  ASSUME NEW x \in Nat, NEW c \in Nat \ {0}
  PROVE  /\ x \div c \in Nat /\ x % c \in 0..(c - 1)
         /\ x = c * (x \div c) + (x % c)
BY Z3

LEMMA Multiple ==
  ASSUME NEW q \in Nat, NEW c \in Nat \ {0}
  PROVE  (c * q) % c = 0
BY Z3

\* Two multiples of c are the same or at least c apart.
LEMMA Apart ==
  ASSUME NEW c \in Nat \ {0}, NEW j \in Nat, NEW k \in Nat, j < k
  PROVE  c * j + c <= c * k
<1>1. PICK d \in Nat : k = j + 1 + d
  <2>1. k - (j + 1) \in Nat
    OBVIOUS
  <2> QED
    BY <2>1
<1>2. c * k = c * j + c + c * d /\ c * d \in Nat /\ c * j \in Nat
  BY <1>1
<1> QED
  BY <1>2

\* The chunks of the head's loss cover every token and do not overlap.
LEMMA CountedOnce ==
  ASSUME NEW t \in 1..Tokens, config.chunk \in Nat
  PROVE  TimesCounted(t) = 1
<1> DEFINE c == config.chunk
           Covers(start) == start % c = 0 /\ start < t /\ t <= start + c
           Starts == {start \in 0..(Tokens - 1) : start % c = 0 /\ start < t /\ t <= start + c}
<1>1. Tokens \in Nat \ {0} /\ t \in Nat \ {0} /\ t <= Tokens
  BY StepUpdateAssumption
<1>2. CASE c = 0 \/ Tokens <= c
  BY <1>2 DEF TimesCounted
<1>3. CASE ~(c = 0 \/ Tokens <= c)
  <2>1. c \in Nat \ {0}
    BY <1>3
  <2> DEFINE q == (t - 1) \div c
             first == c * q
  <2>2. first \in Starts
    <3>1. t - 1 \in Nat
      BY <1>1
    <3>2. q \in Nat /\ (t - 1) % c \in 0..(c - 1) /\ t - 1 = first + ((t - 1) % c)
      BY <2>1, <3>1, Division
    <3>3. first % c = 0
      BY <2>1, <3>2, Multiple
    <3>4. first \in Nat
      BY SMTT(30), <2>1, <3>2
    <3> HIDE DEF q, first, c
    <3>5. first <= t - 1 /\ t <= first + c
      BY <1>1, <2>1, <3>2, <3>4
    <3> QED
      BY <1>1, <3>3, <3>4, <3>5
  <2>3. ASSUME NEW start \in Starts
        PROVE  start = first
    <3>1. start \in Nat /\ start % c = 0 /\ start < t /\ t <= start + c
      OBVIOUS
    <3>2. first \in Nat /\ first < t /\ t <= first + c
      BY <2>2
    <3>3. start \div c \in Nat /\ start = c * (start \div c)
      <4>1. start \div c \in Nat /\ start = c * (start \div c) + (start % c)
        BY <2>1, <3>1, Division
      <4>2. c * (start \div c) \in Nat
        BY <2>1, <4>1
      <4> QED
        BY <3>1, <4>1, <4>2
    <3>4. q \in Nat
      <4>1. t - 1 \in Nat
        BY <1>1
      <4> QED
        BY <2>1, <4>1, Division
    <3> DEFINE k == start \div c
    <3> HIDE DEF q, c, k
    <3>5. ~(k < q)
      <4> SUFFICES ASSUME k < q
                   PROVE  FALSE
        OBVIOUS
      <4>1. c * k + c <= c * q
        BY <2>1, <3>3, <3>4, Apart DEF k
      <4> QED
        BY <1>1, <2>1, <3>1, <3>2, <3>3, <4>1 DEF k
    <3>6. ~(q < k)
      <4> SUFFICES ASSUME q < k
                   PROVE  FALSE
        OBVIOUS
      <4>1. c * q + c <= c * k
        BY <2>1, <3>3, <3>4, Apart DEF k
      <4> QED
        BY <1>1, <2>1, <3>1, <3>2, <3>3, <4>1 DEF k
    <3>7. k = q
      BY <3>3, <3>4, <3>5, <3>6 DEF k
    <3> QED
      BY <3>3, <3>7 DEF k
  <2>4. Starts = {first}
    BY <2>2, <2>3
  <2>5. Cardinality(Starts) = 1
    BY <2>4, FS_Singleton
  <2> QED
    BY <1>3, <2>5 DEF TimesCounted
<1> QED
  BY <1>2, <1>3

-------------------------------------------------------------------------------
(* Sequences *)

\* An activation that goes through one more shard, or a gradient that comes back through one.
LEMMA OneMoreShard ==
  ASSUME NEW v \in Nat, NEW n \in Nat
  PROVE  /\ Append(Through(n, v), v) = Through(n + 1, v)
         /\ <<v>> \o Through(n, v) = Through(n + 1, v)
<1>1. Through(n, v) \in Seq(Nat) /\ Through(n + 1, v) \in Seq(Nat)
  BY SeqDef DEF Through
<1>2. Len(Through(n, v)) = n /\ Len(Through(n + 1, v)) = n + 1
  BY DEF Through
<1>3. \A i \in 1..(n + 1) : Through(n + 1, v)[i] = v
  BY DEF Through
<1>4. \A i \in 1..n : Through(n, v)[i] = v
  BY DEF Through
<1>5. Append(Through(n, v), v) = Through(n + 1, v)
  <2>1. /\ Append(Through(n, v), v) \in Seq(Nat) /\ Len(Append(Through(n, v), v)) = n + 1
        /\ \A i \in 1..(n + 1) : Append(Through(n, v), v)[i] = v
    BY <1>1, <1>2, <1>4
  <2> QED
    BY <1>1, <1>2, <1>3, <2>1, SeqEqual
<1>6. <<v>> \o Through(n, v) = Through(n + 1, v)
  <2>1. <<v>> \in Seq(Nat) /\ Len(<<v>>) = 1
    OBVIOUS
  <2>2. /\ <<v>> \o Through(n, v) \in Seq(Nat) /\ Len(<<v>> \o Through(n, v)) = n + 1
        /\ \A i \in 1..(n + 1) : (<<v>> \o Through(n, v))[i] = v
    BY <1>1, <1>2, <1>4, <2>1, ConcatProperties
  <2> QED
    BY <1>1, <1>2, <1>3, <2>2, SeqEqual
<1> QED
  BY <1>5, <1>6

\* A sequence given by its elements grows by the next one.
LEMMA AppendNext ==
  ASSUME NEW S, NEW n \in Nat, NEW f, NEW g, f \in [1..n -> S], g \in [1..(n + 1) -> S],
         \A i \in 1..n : g[i] = f[i]
  PROVE  Append(f, g[n + 1]) = g
<1>1. f \in Seq(S) /\ g \in Seq(S)
  BY SeqDef
<1>2. Len(f) = n /\ Len(g) = n + 1 /\ g[n + 1] \in S
  OBVIOUS
<1> DEFINE longer == Append(f, g[n + 1])
<1>3. /\ longer \in Seq(S) /\ Len(longer) = n + 1
      /\ \A i \in 1..n : longer[i] = f[i]
      /\ longer[n + 1] = g[n + 1]
  BY <1>1, <1>2, AppendProperties
<1> HIDE DEF longer
<1>4. ASSUME NEW i \in 1..(n + 1)
      PROVE  longer[i] = g[i]
  <2>1. i \in 1..n \/ i = n + 1
    OBVIOUS
  <2> QED
    BY <1>3, <2>1
<1>5. longer = g
  BY <1>1, <1>2, <1>3, <1>4, SeqEqual
<1> QED
  BY <1>5 DEF longer

LEMMA PassedOneMore ==
  ASSUME NEW v \in Nat, NEW n \in Nat
  PROVE  Append(Passed(n, v), Through(n + 1, v)) = Passed(n + 1, v)
<1> DEFINE S == {Through(i, v) : i \in Nat}
<1>1. Passed(n, v) \in [1..n -> S] /\ Passed(n + 1, v) \in [1..(n + 1) -> S]
  BY DEF Passed
<1>2. /\ \A i \in 1..n : Passed(n + 1, v)[i] = Passed(n, v)[i]
      /\ Passed(n + 1, v)[n + 1] = Through(n + 1, v)
  BY DEF Passed
<1> HIDE DEF S
<1> QED
  BY <1>1, <1>2, AppendNext

-------------------------------------------------------------------------------
(* What a resident model computes changes with the step only *)

LEMMA ResidentIs == \A s \in Shards : ResidentGradient(s) = Gradient(s, step - 1)
BY DEF ResidentGradient, Gradient, Through

LEMMA SameStep ==
  ASSUME UNCHANGED <<config, step>>
  PROVE  /\ GlobalOptimizerRuns' = GlobalOptimizerRuns /\ Collects' = Collects
         /\ \A s : ResidentFactors(s)' = ResidentFactors(s)
<1>1. GlobalOptimizerRuns' = GlobalOptimizerRuns /\ Collects' = Collects
  BY DEF GlobalOptimizerRuns, Collects
<1>2. \A s : ResidentGradient(s)' = ResidentGradient(s)
  BY DEF ResidentGradient
<1>3. \A S : ResidentNorm(S)' = ResidentNorm(S)
  BY <1>2 DEF ResidentNorm
<1> QED
  BY <1>1, <1>3 DEF ResidentFactors

LEMMA SameUpdate ==
  ASSUME UNCHANGED <<config, step, stored>>
  PROVE  Averages' = Averages /\ \A s : ResidentUpdate(s)' = ResidentUpdate(s)
<1>1. Averages' = Averages
  BY DEF Averages, LoadedMoments
<1> QED
  BY <1>1, SameStep DEF ResidentUpdate

\* A shard not yet staged is read as it is published.
LEMMA LoadsPublished ==
  ASSUME Published, phase # "idle", NEW s \in Shards, s \notin DOMAIN staged
  PROVE  Loads(s) = {step - 1}
BY DEF Published, Base, Loads

LEMMA StagedDomain ==
  ASSUME Staged
  PROVE  /\ phase \in {"update", "apply"} => DOMAIN staged = (at + 1)..Last
         /\ phase = "commit" => DOMAIN staged = Shards
         /\ phase \notin {"update", "apply", "commit"} => DOMAIN staged = {}
BY DEF Staged

LEMMA Bounds ==
  /\ Blocks \in Nat \ {0} /\ MicroBatches \in Nat \ {0} /\ Tokens \in Nat \ {0}
  /\ MaxResident \in Nat \ {0}
  /\ Chunks \subseteq Nat /\ Periods \subseteq Nat /\ MaxSteps \in Nat
  /\ Last = Blocks + 3 /\ Last \in Nat /\ Shards = 1..Last /\ Micros = 1..MicroBatches
BY StepUpdateAssumption DEF Last, Shards, Micros

\* What is staged stays as it should be while the step, the configuration and the published
\* shards do, and the set of shards staged.
LEMMA StagedKept ==
  ASSUME Staged, UNCHANGED <<config, step, stored, staged>>,
         \/ phase' = phase /\ at' = at
         \/ {phase, phase'} \cap {"update", "apply", "commit"} = {}
         \/ /\ phase \notin {"update", "apply", "commit"}
            /\ phase' \in {"update", "apply"} /\ at' = Last
  PROVE  Staged'
<1> DEFINE S == CASE phase \in {"update", "apply"} -> (at + 1)..Last
                  [] phase = "commit" -> Shards
                  [] OTHER -> {}
<1>1. S' = S
  <2>1. CASE phase' = phase /\ at' = at
    BY <2>1 DEF Shards, Last
  <2>2. CASE {phase, phase'} \cap {"update", "apply", "commit"} = {}
    BY <2>2
  <2>3. CASE /\ phase \notin {"update", "apply", "commit"}
             /\ phase' \in {"update", "apply"} /\ at' = Last
    <3>1. (Last + 1)..Last = {}
      BY Bounds
    <3> QED
      BY <2>3, <3>1 DEF Last
  <2> QED
    BY <2>1, <2>2, <2>3
<1>2. \A s : ResidentUpdate(s)' = ResidentUpdate(s)
  BY SameUpdate
<1> HIDE DEF S
<1>3. staged = [s \in S |-> ResidentUpdate(s)]
  BY DEF Staged, S
<1>4. staged' = [s \in S' |-> ResidentUpdate(s)']
  BY <1>1, <1>2, <1>3
<1> QED
  BY <1>4 DEF Staged, S

-------------------------------------------------------------------------------
(* The steps *)

LEMMA InitInvariant == Init => IndInv
<1> SUFFICES ASSUME Init
             PROVE  IndInv
  OBVIOUS
<1>1. Placed
  BY Bounds DEF Init, Placed
<1>2. InUse /\ Activations /\ Gradients
  BY DEF Init, InUse, Activations, Gradients, Backward
<1>3. PutBy
  BY DEF Init, PutBy
<1>4. Published
  <2>1. 1 \in Shards
    BY Bounds
  <2> QED
    BY <2>1 DEF Init, Published, Base
<1>5. Staged
  <2>1. staged = [s \in {} |-> ResidentUpdate(s)]
    BY DEF Init
  <2> QED
    BY <2>1 DEF Init, Staged
<1> QED
  BY <1>1, <1>2, <1>3, <1>4, <1>5 DEF IndInv

LEMMA BeginStepInvariant == IndInv /\ BeginStep => IndInv'
<1> SUFFICES ASSUME IndInv, BeginStep
             PROVE  IndInv'
  OBVIOUS
<1> USE DEF IndInv
<1>1. /\ phase = "idle" /\ phase' = "forward" /\ step' = step + 1 /\ at' = 1 /\ micro' = 1
      /\ boundaries' = [m \in Micros |-> <<>>] /\ upstream' = [m \in Micros |-> <<>>]
      /\ UNCHANGED <<config, launches, active, tuning, module, local, payloads, staged, stored>>
  BY DEF BeginStep
<1>2. step \in Nat
  BY DEF Placed
<1>3. Placed'
  BY <1>1, <1>2, Bounds DEF Placed
<1>4. InUse'
  BY <1>1 DEF InUse, Backward
<1>5. Published'
  <2>1. Base' = Base
    BY <1>1, <1>2 DEF Base
  <2> QED
    BY <1>1, <2>1 DEF Published
<1>6. Activations'
  <2>1. Passed(0, step' - 1) = <<>>
    BY DEF Passed
  <2>2. \A m \in Micros : (IF m < micro' THEN Last - 1 ELSE IF m = micro' THEN at' - 1 ELSE 0) = 0
    BY <1>1, Bounds
  <2> QED
    BY <1>1, <2>1, <2>2 DEF Activations, Backward
<1>7. Gradients'
  BY <1>1 DEF Gradients, Backward
<1>8. PutBy'
  BY <1>1 DEF PutBy
<1>9. Staged'
  BY <1>1 DEF Staged
<1> QED
  BY <1>3, <1>4, <1>5, <1>6, <1>7, <1>8, <1>9

LEMMA InputIs ==
  ASSUME Placed, phase \in Backward \cup {"forward"}, Activations, NEW m \in Micros,
         phase = "forward" => m = micro
  PROVE  InputOf(m, at) = Through(at - 1, step - 1)
<1> DEFINE v == step - 1
<1>1. at \in Nat \ {0} /\ at <= Last /\ Last \in Nat /\ Shards = 1..Last /\ v \in Nat
  BY Bounds DEF Placed, Backward
<1>2. CASE at = 1
  BY <1>2 DEF InputOf, Through
<1>3. CASE at # 1
  <2>1. boundaries[m] = Passed(at - 1, v) \/ boundaries[m] = Passed(Last - 1, v)
    BY Bounds DEF Placed, Activations, Backward
  <2>2. at - 1 \in 1..(at - 1) /\ at - 1 \in 1..(Last - 1)
    BY <1>1, <1>3
  <2>3. boundaries[m][at - 1] = Through(at - 1, v)
    BY <2>1, <2>2 DEF Passed
  <2> QED
    BY <1>3, <2>3 DEF InputOf
<1> QED
  BY <1>2, <1>3

LEMMA ForwardShardInvariant == IndInv /\ ForwardShard => IndInv'
<1> SUFFICES ASSUME IndInv, ForwardShard
             PROVE  IndInv'
  OBVIOUS
<1> USE DEF IndInv
<1> DEFINE v == step - 1
<1>1. PICK w \in Loads(at) :
        boundaries' = [boundaries EXCEPT ![micro] = Append(@, Append(InputOf(micro, at), w))]
  BY DEF ForwardShard
<1>2. /\ phase = "forward"
      /\ UNCHANGED <<config, launches, step, upstream, active, tuning, module, local, payloads,
                     staged, stored>>
      /\ \/ at < Last - 1 /\ at' = at + 1 /\ micro' = micro /\ phase' = phase
         \/ /\ at = Last - 1 /\ micro < MicroBatches /\ at' = 1 /\ micro' = micro + 1
            /\ phase' = phase
         \/ /\ at = Last - 1 /\ micro = MicroBatches /\ at' = Last /\ micro' = 1
            /\ phase' = IF Collects THEN "collect" ELSE "update"
  BY DEF ForwardShard, Collects
<1>3. /\ at \in Nat \ {0} /\ at < Last /\ Last \in Nat /\ Shards = 1..Last /\ at \in Shards
      /\ micro \in Micros /\ MicroBatches \in Nat \ {0} /\ Micros = 1..MicroBatches
      /\ step \in Nat \ {0} /\ v \in Nat /\ Last > 3
  BY <1>2, Bounds DEF Placed
<1>4. GlobalOptimizerRuns' = GlobalOptimizerRuns /\ Collects' = Collects
  BY <1>2, SameStep
<1>5. Append(boundaries[micro], Append(InputOf(micro, at), w)) = Passed(at, v)
  <2>1. w = v
    BY <1>1, <1>2, <1>3, LoadsPublished, StagedDomain
  <2>2. InputOf(micro, at) = Through(at - 1, v)
    BY <1>2, <1>3, InputIs
  <2>3. boundaries[micro] = Passed(at - 1, v)
    BY <1>2, <1>3 DEF Activations
  <2>4. at - 1 \in Nat /\ (at - 1) + 1 = at
    BY <1>3
  <2>5. Append(Through(at - 1, v), v) = Through(at, v)
    BY <1>3, <2>4, OneMoreShard
  <2>6. Append(Passed(at - 1, v), Through(at, v)) = Passed(at, v)
    BY <1>3, <2>4, PassedOneMore
  <2> QED
    BY <2>1, <2>2, <2>3, <2>5, <2>6
<1>6. /\ boundaries = [m \in Micros |-> Passed(IF m < micro THEN Last - 1
                                               ELSE IF m = micro THEN at - 1 ELSE 0, v)]
      /\ boundaries' = [boundaries EXCEPT ![micro] = Passed(at, v)]
  BY <1>1, <1>2, <1>5 DEF Activations
<1>7. boundaries' = [m \in Micros |-> Passed(IF m < micro THEN Last - 1
                                             ELSE IF m = micro THEN at ELSE 0, v)]
  BY <1>3, <1>6
<1>8. Placed'
  BY <1>2, <1>3, <1>4 DEF Placed, Collects
<1>9. active = {} /\ tuning = {} /\ InUse'
  BY <1>2 DEF InUse, Backward
<1>10. Published'
  <2>1. Base' = Base
    BY <1>2 DEF Base
  <2> QED
    BY <1>2, <2>1 DEF Published
<1>11. Activations'
  <2>1. CASE at < Last - 1 /\ at' = at + 1 /\ micro' = micro /\ phase' = phase
    <3>1. at' - 1 = at
      BY <1>3, <2>1
    <3> QED
      BY <1>2, <1>7, <2>1, <3>1 DEF Activations, Backward
  <2>2. CASE /\ at = Last - 1 /\ micro < MicroBatches /\ at' = 1 /\ micro' = micro + 1
             /\ phase' = phase
    <3>1. \A m \in Micros :
            (IF m < micro' THEN Last - 1 ELSE IF m = micro' THEN at' - 1 ELSE 0)
              = (IF m < micro THEN Last - 1 ELSE IF m = micro THEN at ELSE 0)
      BY <1>3, <2>2
    <3> QED
      BY <1>2, <1>7, <2>2, <3>1 DEF Activations, Backward
  <2>3. CASE at = Last - 1 /\ micro = MicroBatches /\ phase' \in Backward
    <3>1. \A m \in Micros :
            (IF m < micro THEN Last - 1 ELSE IF m = micro THEN at ELSE 0) = Last - 1
      BY <1>3, <2>3
    <3> QED
      BY <1>2, <1>7, <2>3, <3>1 DEF Activations, Backward
  <2> QED
    BY <1>2, <2>1, <2>2, <2>3 DEF Backward
<1>12. Gradients'
  BY <1>2, <1>3, <1>9 DEF Gradients, Backward
<1>13. PutBy'
  <2>1. payloads' = <<>>
    BY <1>2 DEF PutBy
  <2>2. CASE phase' = "forward"
    BY <2>1, <2>2 DEF PutBy
  <2>3. CASE phase' = "collect" /\ at' = Last
    <3>1. 1..(Last - at') = {}
      BY <1>3, <2>3
    <3> QED
      BY <2>1, <2>3, <3>1 DEF PutBy
  <2>4. CASE phase' = "update" /\ ~GlobalOptimizerRuns'
    BY <2>1, <2>4 DEF PutBy
  <2> QED
    BY <1>2, <1>4, <2>2, <2>3, <2>4 DEF Collects
<1>14. Staged'
  BY <1>2, StagedKept
<1> QED
  BY <1>8, <1>9, <1>10, <1>11, <1>12, <1>13, <1>14

LEMMA EnterShardInvariant == IndInv /\ EnterShard => IndInv'
<1> SUFFICES ASSUME IndInv, EnterShard
             PROVE  IndInv'
  OBVIOUS
<1> USE DEF IndInv
<1>1. /\ phase \in Backward /\ active = {} /\ active' = active \cup {at} /\ module' \in Loads(at)
      /\ local' = <<>> /\ micro' = 1
      /\ UNCHANGED <<config, launches, step, phase, at, boundaries, upstream, tuning, payloads,
                     staged, stored>>
  BY DEF EnterShard, Backward
<1>2. GlobalOptimizerRuns' = GlobalOptimizerRuns /\ Collects' = Collects
  BY <1>1, SameStep
<1>3. at \in Shards /\ at \in Nat /\ Last \in Nat /\ active' = {at} /\ tuning = {}
  BY <1>1, Bounds DEF Placed, InUse
<1>4. Placed'
  BY <1>1, <1>2, Bounds DEF Placed, Backward
<1>5. module' = step - 1
  <2>1. at \notin DOMAIN staged
    BY <1>1, <1>3, StagedDomain DEF Backward
  <2> QED
    BY <1>1, <1>3, <2>1, LoadsPublished DEF Backward
<1>6. InUse'
  BY <1>1, <1>3, <1>5 DEF InUse, Backward
<1>7. Published'
  <2>1. Base' = Base
    BY <1>1 DEF Base
  <2> QED
    BY <1>1, <2>1 DEF Published
<1>8. Activations'
  BY <1>1 DEF Activations, Backward
<1>9. Gradients'
  <2>1. local' = [m \in 1..(micro' - 1) |-> Gradient(at', step' - 1)[m]]
    <3>1. 1..(micro' - 1) = {}
      BY <1>1
    <3> QED
      BY <1>1, <3>1
  <2>2. \A m \in Micros : ~(m < micro') /\ ~(active = {at} /\ m < micro)
    BY <1>1, Bounds
  <2>3. upstream' \in [Micros -> {<<>>} \cup {Above(n, step' - 1) : n \in Shards}]
    BY <1>1 DEF Gradients
  <2>4. \A m \in Micros : at < Last => upstream[m] = Above(Last - at, step - 1)
    BY <1>1, <2>2 DEF Gradients
  <2> QED
    BY <1>1, <2>1, <2>2, <2>3, <2>4 DEF Gradients, Backward
<1>10. PutBy'
  BY <1>1, <1>2 DEF PutBy, Backward
<1>11. Staged'
  BY <1>1, StagedKept
<1> QED
  BY <1>4, <1>6, <1>7, <1>8, <1>9, <1>10, <1>11

LEMMA BackwardTraceInvariant == IndInv /\ BackwardTrace => IndInv'
<1> SUFFICES ASSUME IndInv, BackwardTrace
             PROVE  IndInv'
  OBVIOUS
<1> USE DEF IndInv
<1> DEFINE v == step - 1
           passed == Above(Last + 1 - at, v)
<1>1. /\ phase \in Backward /\ active = {at} /\ micro <= MicroBatches /\ micro' = micro + 1
      /\ local' = Append(local, [micro |-> micro, input |-> InputOf(micro, at),
                                 through |-> <<module>> \o UpstreamOf(micro).through,
                                 tokens |-> UpstreamOf(micro).tokens])
      /\ upstream' = [upstream EXCEPT ![micro] =
                        [through |-> <<module>> \o UpstreamOf(micro).through,
                         tokens |-> UpstreamOf(micro).tokens]]
      /\ UNCHANGED <<config, launches, step, phase, at, boundaries, active, tuning, module,
                     payloads, staged, stored>>
  BY DEF BackwardTrace, Backward
<1>2. GlobalOptimizerRuns' = GlobalOptimizerRuns /\ Collects' = Collects
  BY <1>1, SameStep
<1>3. /\ at \in Shards /\ at \in Nat \ {0} /\ at <= Last /\ Last \in Nat /\ Shards = 1..Last
      /\ micro \in Micros /\ micro \in Nat \ {0} /\ MicroBatches \in Nat \ {0}
      /\ Micros = 1..MicroBatches /\ step \in Nat \ {0} /\ v \in Nat
  BY <1>1, Bounds DEF Placed, Backward
<1>4. module = v /\ tuning = {}
  BY <1>1, <1>3 DEF InUse
<1>5. /\ UpstreamOf(micro).through = Through(Last - at, v)
      /\ UpstreamOf(micro).tokens = [t \in 1..Tokens |-> 1]
  <2>1. CASE at = Last
    <3>1. Through(Last - at, v) = <<>>
      BY <1>3, <2>1 DEF Through
    <3>2. config.chunk \in Nat
      BY Bounds DEF Placed
    <3>3. [t \in 1..Tokens |-> TimesCounted(t)] = [t \in 1..Tokens |-> 1]
      BY <3>2, CountedOnce
    <3> QED
      BY <2>1, <3>1, <3>3 DEF UpstreamOf
  <2>2. CASE at # Last
    <3>1. upstream[micro] = Above(Last - at, v)
      BY <1>1, <1>3, <2>2 DEF Gradients
    <3> QED
      BY <2>2, <3>1 DEF UpstreamOf, Above
  <2> QED
    BY <2>1, <2>2
<1>6. <<module>> \o UpstreamOf(micro).through = Through(Last + 1 - at, v)
  <2>1. Last - at \in Nat /\ (Last - at) + 1 = Last + 1 - at
    BY <1>3
  <2> QED
    BY <1>3, <1>4, <1>5, <2>1, OneMoreShard
<1>7. upstream' = [upstream EXCEPT ![micro] = passed]
  BY <1>1, <1>5, <1>6 DEF Above
<1>8. local' = [m \in 1..micro |-> Gradient(at, v)[m]]
  <2> DEFINE before == [m \in 1..(micro - 1) |-> Gradient(at, v)[m]]
             after == [m \in 1..micro |-> Gradient(at, v)[m]]
             S == {Gradient(at, v)[m] : m \in Micros}
  <2>1. local = before
    BY <1>1 DEF Gradients
  <2>2. InputOf(micro, at) = Through(at - 1, v)
    BY <1>1, <1>3, InputIs DEF Backward
  <2>3. Gradient(at, v)[micro] = [micro |-> micro, input |-> InputOf(micro, at),
                                  through |-> <<module>> \o UpstreamOf(micro).through,
                                  tokens |-> UpstreamOf(micro).tokens]
    BY <1>3, <1>5, <1>6, <2>2 DEF Gradient
  <2>4. micro - 1 \in Nat /\ (micro - 1) + 1 = micro
    BY <1>3
  <2>5. before \in [1..(micro - 1) -> S] /\ after \in [1..micro -> S]
    BY <1>3
  <2>6. \A m \in 1..(micro - 1) : after[m] = before[m]
    BY <1>3
  <2>7. after[micro] = Gradient(at, v)[micro]
    BY <1>3
  <2> HIDE DEF before, after, S
  <2>8. Append(before, after[micro]) = after
    BY <2>4, <2>5, <2>6, AppendNext
  <2>9. local' = after
    BY <1>1, <2>1, <2>3, <2>7, <2>8
  <2> QED
    BY <2>9 DEF after
<1>9. Placed'
  BY <1>1, <1>2, <1>3 DEF Placed, Backward
<1>10. InUse'
  BY <1>1, <1>4 DEF InUse, Backward
<1>11. Published'
  <2>1. Base' = Base
    BY <1>1 DEF Base
  <2> QED
    BY <1>1, <2>1 DEF Published
<1>12. Activations'
  BY <1>1 DEF Activations, Backward
<1>13. Gradients'
  <2>1. upstream \in [Micros -> {<<>>} \cup {Above(n, v) : n \in Shards}]
    BY <1>1 DEF Gradients
  <2>2. passed \in {Above(n, v) : n \in Shards}
    <3>1. Last + 1 - at \in Shards
      BY <1>3
    <3> QED
      BY <3>1
  <2> HIDE DEF passed
  <2>3. upstream' \in [Micros -> {<<>>} \cup {Above(n, v) : n \in Shards}]
    BY <1>7, <2>1, <2>2
  <2>4. \A m \in Micros : upstream'[m] = IF m = micro THEN passed ELSE upstream[m]
    BY <1>7, <2>1
  <2>5. \A m \in Micros : IF m < micro' THEN upstream'[m] = Above(Last + 1 - at, v)
                          ELSE at < Last => upstream'[m] = Above(Last - at, v)
    <3> SUFFICES ASSUME NEW m \in Micros
                 PROVE  IF m < micro' THEN upstream'[m] = Above(Last + 1 - at, v)
                        ELSE at < Last => upstream'[m] = Above(Last - at, v)
      OBVIOUS
    <3>1. CASE m < micro
      BY <1>1, <1>3, <2>4, <3>1 DEF Gradients
    <3>2. CASE m = micro
      <4>1. m < micro'
        BY <1>1, <1>3, <3>2
      <4>2. upstream'[m] = Above(Last + 1 - at, v)
        BY <2>4, <3>2 DEF passed
      <4> QED
        BY <4>1, <4>2
    <3>3. CASE m > micro
      BY <1>1, <1>3, <2>4, <3>3 DEF Gradients
    <3> QED
      BY <1>3, <3>1, <3>2, <3>3
  <2>6. local' = [m \in 1..(micro' - 1) |-> Gradient(at', step' - 1)[m]]
    <3>1. micro' - 1 = micro
      BY <1>1, <1>3
    <3> QED
      BY <1>1, <1>8, <3>1
  <2>7. at' = at /\ active' = {at'} /\ phase' \in Backward /\ phase' # "apply" /\ step' - 1 = v
    BY <1>1 DEF Backward
  <2>8. \A m \in Micros : IF active' = {at'} /\ m < micro' THEN upstream'[m] = Above(Last + 1 - at', v)
                          ELSE at' < Last => upstream'[m] = Above(Last - at', v)
    BY <2>5, <2>7
  <2> HIDE DEF v
  <2> QED
    BY <2>3, <2>6, <2>7, <2>8 DEF Gradients
<1>14. PutBy'
  BY <1>1, <1>2 DEF PutBy, Backward
<1>15. Staged'
  BY <1>1, StagedKept
<1> QED
  BY <1>9, <1>10, <1>11, <1>12, <1>13, <1>14, <1>15

LEMMA CaptureGradientsInvariant == IndInv /\ CaptureGradients => IndInv'
<1> SUFFICES ASSUME IndInv, CaptureGradients
             PROVE  IndInv'
  OBVIOUS
<1> USE DEF IndInv
<1> DEFINE v == step - 1
           held(s) == IF GlobalOptimizerRuns THEN <<>> ELSE Gradient(s, v)
           Put(n) == [i \in 1..n |-> Payload(Last + 1 - i, v, held(Last + 1 - i))]
<1>1. /\ phase = "collect" /\ active = {at} /\ micro > MicroBatches /\ active' = {}
      /\ payloads' = Append(payloads, [shard |-> at, measured |-> local,
                                       held |-> IF GlobalOptimizerRuns THEN <<>> ELSE local])
      /\ \/ at > 1 /\ at' = at - 1 /\ phase' = "collect"
         \/ /\ at = 1 /\ at' = Last
            /\ phase' = IF GlobalOptimizerRuns THEN "update" ELSE "apply"
      /\ UNCHANGED <<config, launches, step, micro, boundaries, upstream, tuning, module, staged,
                     stored>>
  BY Bounds DEF CaptureGradients, Descend, Placed
<1>2. GlobalOptimizerRuns' = GlobalOptimizerRuns /\ Collects' = Collects
  BY <1>1, SameStep
<1>3. /\ at \in Shards /\ at \in Nat \ {0} /\ at <= Last /\ Last \in Nat /\ Shards = 1..Last
      /\ MicroBatches \in Nat \ {0} /\ Micros = 1..MicroBatches /\ micro = MicroBatches + 1
      /\ step \in Nat \ {0} /\ v \in Nat /\ Last > 3
  BY <1>1, Bounds DEF Placed
<1>4. tuning = {}
  BY <1>1 DEF InUse
<1>5. local = Gradient(at, v)
  <2>1. local = [m \in 1..(micro - 1) |-> Gradient(at, v)[m]]
    BY <1>1 DEF Gradients, Backward
  <2>2. 1..(micro - 1) = Micros
    BY <1>3
  <2> QED
    BY <2>1, <2>2 DEF Gradient
<1>6. payloads' = Put(Last + 1 - at)
  <2> DEFINE n == Last - at
             S == {Payload(s, v, held(s)) : s \in Shards}
  <2>1. payloads = Put(n)
    BY <1>1 DEF PutBy
  <2>2. n \in Nat /\ n + 1 = Last + 1 - at /\ n + 1 <= Last
    BY <1>3
  <2>3. Put(n) \in [1..n -> S] /\ Put(n + 1) \in [1..(n + 1) -> S]
    <3>1. \A i \in 1..(n + 1) : Last + 1 - i \in Shards
      BY <1>3, <2>2
    <3>2. \A i \in 1..n : i \in 1..(n + 1)
      BY <2>2
    <3> HIDE DEF held
    <3> QED
      BY <3>1, <3>2
  <2>4. \A i \in 1..n : Put(n + 1)[i] = Put(n)[i]
    BY <2>2
  <2>5. Put(n + 1)[n + 1] = Payload(at, v, held(at))
    <3>1. n + 1 \in 1..(n + 1) /\ Last + 1 - (n + 1) = at
      BY <1>3, <2>2
    <3> QED
      BY <3>1
  <2>6. Payload(at, v, held(at)) = [shard |-> at, measured |-> local,
                                    held |-> IF GlobalOptimizerRuns THEN <<>> ELSE local]
    BY <1>5 DEF Payload
  <2> HIDE DEF Put, S, held, n
  <2>7. Append(Put(n), Put(n + 1)[n + 1]) = Put(n + 1)
    BY <2>2, <2>3, <2>4, AppendNext
  <2> QED
    BY <1>1, <2>1, <2>2, <2>5, <2>6, <2>7
<1>7. Placed'
  BY <1>1, <1>2, <1>3 DEF Placed, Collects
<1>8. InUse'
  BY <1>1, <1>4 DEF InUse
<1>9. Published'
  <2>1. Base' = Base
    BY <1>1 DEF Base
  <2> QED
    BY <1>1, <2>1 DEF Published
<1>10. Activations'
  BY <1>1 DEF Activations, Backward
<1>11. Gradients'
  <2>1. active' # {at'}
    BY <1>1
  <2>2. upstream' \in [Micros -> {<<>>} \cup {Above(n, step' - 1) : n \in Shards}]
    BY <1>1 DEF Gradients, Backward
  <2>3. \A m \in Micros : at' < Last => upstream'[m] = Above(Last - at', step' - 1)
    <3> SUFFICES ASSUME NEW m \in Micros, at' < Last
                 PROVE  upstream'[m] = Above(Last - at', step' - 1)
      OBVIOUS
    <3>1. at' = at - 1 /\ Last - at' = Last + 1 - at
      BY <1>1, <1>3
    <3>2. m < micro
      BY <1>3
    <3> QED
      BY <1>1, <3>1, <3>2 DEF Gradients, Backward
  <2> QED
    BY <2>1, <2>2, <2>3 DEF Gradients
<1>12. PutBy'
  <2>1. CASE at > 1
    <3>1. Last - at' = Last + 1 - at /\ phase' = "collect"
      BY <1>1, <1>3, <2>1
    <3> QED
      BY <1>1, <1>2, <1>6, <3>1 DEF PutBy
  <2>2. CASE at = 1
    <3>1. Last + 1 - at = Last /\ at' = Last
      BY <1>1, <1>3, <2>2
    <3>2. CASE GlobalOptimizerRuns
      BY <1>1, <1>2, <1>3, <1>6, <2>2, <3>1, <3>2 DEF PutBy
    <3>3. CASE ~GlobalOptimizerRuns
      <4>1. \A i \in 1..Last : Last + 1 - i <= at'
        BY <1>3, <3>1
      <4>2. phase' = "apply" /\ step' - 1 = v
        BY <1>1, <1>3, <2>2, <3>3
      <4>3. payloads' = [i \in 1..Last |->
                          Payload(Last + 1 - i, v,
                                  IF Last + 1 - i <= at' THEN Gradient(Last + 1 - i, v) ELSE <<>>)]
        BY <1>6, <3>1, <3>3, <4>1
      <4> HIDE DEF v
      <4> QED
        BY <4>2, <4>3 DEF PutBy
    <3> QED
      BY <3>2, <3>3
  <2> QED
    BY <1>3, <2>1, <2>2
<1>13. Staged'
  BY <1>1, StagedKept
<1> QED
  BY <1>7, <1>8, <1>9, <1>10, <1>11, <1>12, <1>13

LEMMA EnterDeferredInvariant == IndInv /\ EnterDeferred => IndInv'
<1> SUFFICES ASSUME IndInv, EnterDeferred
             PROVE  IndInv'
  OBVIOUS
<1> USE DEF IndInv
<1> DEFINE v == step - 1
<1>1. /\ phase = "apply" /\ active = {} /\ active' = active \cup {at} /\ module' \in Loads(at)
      /\ local' = payloads[Last + 1 - at].held /\ micro' = MicroBatches + 1
      /\ UNCHANGED <<config, launches, step, phase, at, boundaries, upstream, tuning, payloads,
                     staged, stored>>
  BY DEF EnterDeferred
<1>2. GlobalOptimizerRuns' = GlobalOptimizerRuns /\ Collects' = Collects
  BY <1>1, SameStep
<1>3. at \in Shards /\ at \in 1..Last /\ Last \in Nat /\ active' = {at} /\ tuning = {}
  BY <1>1, Bounds DEF Placed, InUse
<1>4. Placed'
  BY <1>1, <1>2, Bounds DEF Placed
<1>5. module' = v
  <2>1. at \notin DOMAIN staged
    BY <1>1, <1>3, StagedDomain
  <2> QED
    BY <1>1, <1>3, <2>1, LoadsPublished
<1>6. InUse'
  BY <1>1, <1>3, <1>5 DEF InUse
<1>7. Published'
  <2>1. Base' = Base
    BY <1>1 DEF Base
  <2> QED
    BY <1>1, <2>1 DEF Published
<1>8. Activations'
  BY <1>1 DEF Activations, Backward
<1>9. local' = Gradient(at, v)
  <2>1. Last + 1 - at \in 1..Last /\ Last + 1 - (Last + 1 - at) = at
    BY <1>3
  <2> QED
    BY <1>1, <1>3, <2>1 DEF PutBy, Payload
<1>10. Gradients'
  BY <1>1, <1>9 DEF Gradients, Backward
<1>11. PutBy'
  BY <1>1, <1>2 DEF PutBy
<1>12. Staged'
  BY <1>1, StagedKept
<1> QED
  BY <1>4, <1>6, <1>7, <1>8, <1>10, <1>11, <1>12

LEMMA LoadOptimizerInvariant == IndInv /\ LoadOptimizer => IndInv'
<1> SUFFICES ASSUME IndInv, LoadOptimizer
             PROVE  IndInv'
  OBVIOUS
<1> USE DEF IndInv
<1>1. /\ phase \in {"update", "apply"} /\ active = {at} /\ micro > MicroBatches
      /\ at \notin tuning /\ tuning' = tuning \cup {at}
      /\ UNCHANGED <<config, launches, step, phase, at, micro, boundaries, upstream, active, module,
                     local, payloads, staged, stored>>
  BY DEF LoadOptimizer
<1>2. GlobalOptimizerRuns' = GlobalOptimizerRuns /\ Collects' = Collects
  BY <1>1, SameStep
<1>3. Placed' /\ Activations' /\ Gradients' /\ PutBy'
  BY <1>1, <1>2 DEF Placed, Activations, Gradients, PutBy
<1>4. InUse'
  BY <1>1 DEF InUse
<1>5. Published'
  <2>1. Base' = Base
    BY <1>1 DEF Base
  <2> QED
    BY <1>1, <2>1 DEF Published
<1>6. Staged'
  BY <1>1, StagedKept
<1> QED
  BY <1>3, <1>4, <1>5, <1>6

\* The norms a clip or a global scale is computed from are those of the whole batch.
LEMMA CollectedNorm ==
  ASSUME NEW v, v = step - 1, DOMAIN payloads = 1..Last,
         \A i \in 1..Last : payloads[i].shard = Last + 1 - i
                            /\ payloads[i].measured = Gradient(Last + 1 - i, v)
  PROVE  NormOf(CollectedPayloads) = ResidentNorm(Shards)
<1>1. CollectedPayloads = {payloads[i] : i \in 1..Last}
  BY DEF CollectedPayloads
<1>2. NormOf(CollectedPayloads) = {<<payloads[i].shard, payloads[i].measured>> : i \in 1..Last}
  BY <1>1 DEF NormOf
<1>3. {<<payloads[i].shard, payloads[i].measured>> : i \in 1..Last}
        = {<<Last + 1 - i, Gradient(Last + 1 - i, v)>> : i \in 1..Last}
  OBVIOUS
<1>4. {<<Last + 1 - i, Gradient(Last + 1 - i, v)>> : i \in 1..Last}
        = {<<s, Gradient(s, v)>> : s \in Shards}
  <2>1. \A i \in 1..Last : Last + 1 - i \in Shards /\ Last + 1 - (Last + 1 - i) = i
    BY Bounds
  <2>2. \A s \in Shards : Last + 1 - s \in 1..Last /\ Last + 1 - (Last + 1 - s) = s
    BY Bounds
  <2> QED
    BY <2>1, <2>2
<1>5. {<<s, Gradient(s, v)>> : s \in Shards} = {<<s, ResidentGradient(s)>> : s \in Shards}
  BY ResidentIs
<1> QED
  BY <1>2, <1>3, <1>4, <1>5 DEF ResidentNorm

\* What is staged for a shard is what a resident model would give it.
LEMMA UpdateIsResident ==
  ASSUME IndInv, tuning = {at}
  PROVE  Update = ResidentUpdate(at)
<1> USE DEF IndInv
<1> DEFINE v == step - 1
<1>1. /\ active = {at} /\ module = v /\ micro > MicroBatches /\ phase \in {"update", "apply"}
  BY DEF InUse
<1>2. /\ at \in Shards /\ at \in 1..Last /\ 1 \in Shards /\ Last \in Nat /\ Micros = 1..MicroBatches
      /\ MicroBatches \in Nat /\ micro = MicroBatches + 1 /\ step \in Nat \ {0}
  BY <1>1, Bounds DEF Placed
<1>3. local = Gradient(at, v)
  <2>1. CASE phase = "update"
    <3>1. local = [m \in 1..(micro - 1) |-> Gradient(at, v)[m]]
      BY <1>1, <2>1 DEF Gradients, Backward
    <3>2. 1..(micro - 1) = Micros
      BY <1>2
    <3> QED
      BY <3>1, <3>2 DEF Gradient
  <2>2. CASE phase = "apply"
    BY <1>1, <2>2 DEF Gradients
  <2> QED
    BY <1>1, <2>1, <2>2
<1>4. Factors = ResidentFactors(at)
  <2>1. CASE phase = "apply"
    <3>1. payloads = [i \in 1..Last |->
                        Payload(Last + 1 - i, v,
                                IF Last + 1 - i <= at THEN Gradient(Last + 1 - i, v) ELSE <<>>)]
      BY <2>1 DEF PutBy
    <3>2. NormOf(CollectedPayloads) = ResidentNorm(Shards)
      BY <3>1, CollectedNorm DEF Payload
    <3>3. ~GlobalOptimizerRuns /\ config.clip = "global"
      BY <2>1 DEF Placed
    <3> QED
      BY <2>1, <3>2, <3>3 DEF Factors, ResidentFactors
  <2>2. CASE phase = "update" /\ GlobalOptimizerRuns
    <3>1. payloads = [i \in 1..Last |-> Payload(Last + 1 - i, v, <<>>)]
      BY <2>2 DEF PutBy
    <3>2. NormOf(CollectedPayloads) = ResidentNorm(Shards)
      BY <3>1, CollectedNorm DEF Payload
    <3> QED
      BY <2>2, <3>2 DEF Factors, ResidentFactors
  <2>3. CASE phase = "update" /\ ~GlobalOptimizerRuns
    <3>1. config.clip # "global"
      BY <2>3 DEF Placed
    <3>2. NormOf({[shard |-> at, measured |-> local]}) = {<<at, local>>}
      BY DEF NormOf
    <3>3. ResidentNorm({at}) = {<<at, local>>}
      BY <1>2, <1>3, ResidentIs DEF ResidentNorm
    <3> QED
      BY <2>3, <3>1, <3>2, <3>3 DEF Factors, ResidentFactors
  <2> QED
    BY <1>1, <2>1, <2>2, <2>3
<1>5. stored[at].count + 1 = step /\ stored[at].moments = stored[1].moments
  BY <1>1, <1>2 DEF Published, Base
<1>6. [f \in Moments(config.optimizer) |-> LoadedMoments(at)[f] + 1] = Averages
  BY <1>5 DEF LoadedMoments, Averages
<1> QED
  BY <1>1, <1>3, <1>4, <1>5, <1>6 DEF Update, ResidentUpdate

LEMMA StepAndSaveInvariant == IndInv /\ StepAndSave => IndInv'
<1> SUFFICES ASSUME IndInv, StepAndSave
             PROVE  IndInv'
  OBVIOUS
<1> USE DEF IndInv
<1> DEFINE v == step - 1
<1>1. /\ tuning = {at} /\ active' = {} /\ tuning' = {} /\ local' = <<>>
      /\ staged' = [s \in DOMAIN staged \cup {at} |-> IF s = at THEN Update ELSE staged[s]]
      /\ payloads' = IF phase = "apply" THEN [payloads EXCEPT ![Last + 1 - at].held = <<>>]
                                        ELSE payloads
      /\ \/ at > 1 /\ at' = at - 1 /\ phase' = phase
         \/ at = 1 /\ at' = Last /\ phase' = "commit"
      /\ UNCHANGED <<config, launches, step, micro, boundaries, upstream, module, stored>>
  BY SMTT(30), Bounds DEF StepAndSave, ReleaseShard, Descend, Placed
<1>2. GlobalOptimizerRuns' = GlobalOptimizerRuns /\ Collects' = Collects
  BY <1>1, SameStep
<1>3. active = {at} /\ micro > MicroBatches /\ phase \in {"update", "apply"}
  BY <1>1 DEF InUse
<1>4. /\ at \in Shards /\ at \in Nat \ {0} /\ at <= Last /\ Last \in Nat /\ Shards = 1..Last
      /\ MicroBatches \in Nat \ {0} /\ Micros = 1..MicroBatches /\ micro = MicroBatches + 1
      /\ step \in Nat \ {0} /\ Last > 3
  BY <1>3, Bounds DEF Placed
<1>5. Placed'
  BY <1>1, <1>2, <1>3, <1>4 DEF Placed
<1>6. InUse'
  BY <1>1 DEF InUse
<1>7. Published'
  <2>1. Base' = Base
    BY <1>1, <1>3 DEF Base
  <2> QED
    BY <1>1, <2>1 DEF Published
<1>8. Activations'
  BY <1>1, <1>3 DEF Activations, Backward
<1>9. Gradients'
  <2>1. active' # {at'}
    BY <1>1
  <2>2. phase' \in Backward => phase = "update" /\ at > 1 /\ at' = at - 1
    BY <1>1, <1>3 DEF Backward
  <2>3. phase' # "forward"
    BY <1>1, <1>3
  <2>4. phase' \in Backward => upstream' \in [Micros -> {<<>>} \cup {Above(n, step' - 1) : n \in Shards}]
    BY <1>1, <2>2 DEF Gradients, Backward
  <2>5. ASSUME NEW m \in Micros, phase' \in Backward
        PROVE  upstream'[m] = Above(Last - at', step' - 1)
    <3>1. Last - at' = Last + 1 - at /\ m < micro
      BY <1>4, <2>2, <2>5
    <3> QED
      BY <1>1, <1>3, <2>2, <2>5, <3>1 DEF Gradients, Backward
  <2> QED
    BY <2>1, <2>3, <2>4, <2>5 DEF Gradients
<1>10. PutBy'
  <2>1. CASE phase = "update"
    BY <1>1, <1>2, <2>1 DEF PutBy
  <2>2. CASE phase = "apply" /\ at = 1
    BY <1>1, <2>2 DEF PutBy
  <2>3. CASE phase = "apply" /\ at > 1
    <3>1. at' = at - 1 /\ phase' = "apply" /\ step' - 1 = v
      BY <1>1, <1>4, <2>3
    <3>2. payloads = [i \in 1..Last |->
                        Payload(Last + 1 - i, v,
                                IF Last + 1 - i <= at THEN Gradient(Last + 1 - i, v) ELSE <<>>)]
      BY <2>3 DEF PutBy
    <3>3. payloads' = [payloads EXCEPT ![Last + 1 - at].held = <<>>]
      BY <1>1, <2>3
    <3>4. payloads' = [i \in 1..Last |->
                         Payload(Last + 1 - i, v,
                                 IF Last + 1 - i <= at' THEN Gradient(Last + 1 - i, v) ELSE <<>>)]
      <4>1. \A i \in 1..Last : i = Last + 1 - at <=> Last + 1 - i = at
        BY <1>4
      <4>2. \A i \in 1..Last : i # Last + 1 - at => (Last + 1 - i <= at <=> Last + 1 - i <= at')
        BY <1>4, <3>1
      <4>3. \A i \in 1..Last : i = Last + 1 - at => ~(Last + 1 - i <= at')
        BY <1>4, <3>1
      <4>4. [Payload(at, v, Gradient(at, v)) EXCEPT !.held = <<>>] = Payload(at, v, <<>>)
        BY DEF Payload
      <4>5. payloads[Last + 1 - at] = Payload(at, v, Gradient(at, v))
        <5>1. Last + 1 - at \in 1..Last /\ Last + 1 - (Last + 1 - at) = at
          BY <1>4
        <5> QED
          BY <1>4, <3>2, <5>1
      <4>6. payloads' = [payloads EXCEPT ![Last + 1 - at] = Payload(at, v, <<>>)]
        BY <3>3, <4>4, <4>5
      <4> HIDE DEF v
      <4> QED
        BY <3>2, <4>1, <4>2, <4>3, <4>6
    <3> HIDE DEF v
    <3> QED
      BY <3>1, <3>4 DEF PutBy
  <2> QED
    BY <1>3, <1>4, <2>1, <2>2, <2>3
<1>11. Staged'
  <2> DEFINE D == IF at > 1 THEN (at' + 1)..Last ELSE Shards
  <2>1. staged = [s \in (at + 1)..Last |-> ResidentUpdate(s)]
    BY <1>3 DEF Staged
  <2>2. DOMAIN staged \cup {at} = D
    BY <1>1, <1>4, <2>1
  <2>3. Update = ResidentUpdate(at)
    BY <1>1, UpdateIsResident
  <2>4. \A s : ResidentUpdate(s)' = ResidentUpdate(s)
    BY <1>1, SameUpdate
  <2>5. staged' = [s \in D |-> ResidentUpdate(s)']
    <3>1. \A s \in D : s # at => s \in (at + 1)..Last
      BY <2>1, <2>2
    <3> HIDE DEF D
    <3> QED
      BY <1>1, <2>1, <2>2, <2>3, <2>4, <3>1
  <2>6. D = CASE phase' \in {"update", "apply"} -> (at' + 1)..Last
              [] phase' = "commit" -> Shards
              [] OTHER -> {}
    BY <1>1, <1>3, <1>4
  <2> HIDE DEF D
  <2> QED
    BY <2>5, <2>6 DEF Staged
<1> QED
  BY <1>5, <1>6, <1>7, <1>8, <1>9, <1>10, <1>11

\* With one launch, the averages of every shard have seen every step.
LEMMA AveragesOfOneRun ==
  ASSUME Placed, Published, phase # "idle", launches = 1
  PROVE  Averages = [f \in Moments(config.optimizer) |-> step]
<1>1. Base = step - 1 /\ step \in Nat \ {0} /\ (step - 1) + 1 = step
  BY DEF Placed, Base
<1>2. \A f \in Moments(config.optimizer) : LoadedMoments(1)[f] = step - 1
  BY <1>1 DEF Published, LoadedMoments
<1> QED
  BY <1>1, <1>2 DEF Averages

LEMMA CommitInvariant == IndInv /\ Commit => IndInv'
<1> SUFFICES ASSUME IndInv, Commit
             PROVE  IndInv'
  OBVIOUS
<1> USE DEF IndInv
<1>1. /\ phase = "commit" /\ phase' = "idle"
      /\ stored' = [s \in Shards |-> [version |-> staged[s].version, count |-> staged[s].count,
                                      moments |-> staged[s].moments]]
      /\ staged' = <<>> /\ payloads' = <<>> /\ boundaries' = <<>> /\ upstream' = <<>>
      /\ UNCHANGED <<config, launches, step, at, micro, active, tuning, module, local>>
  BY DEF Commit
<1>2. active = {} /\ tuning = {} /\ 1 \in Shards
  BY <1>1, Bounds DEF InUse, Backward
<1>3. Placed' /\ InUse' /\ Activations' /\ Gradients' /\ PutBy'
  BY <1>1, <1>2 DEF Placed, InUse, Activations, Gradients, PutBy, Backward
<1>4. Published'
  <2>1. \A s \in Shards : staged[s] = ResidentUpdate(s)
    BY <1>1 DEF Staged
  <2>2. \A s \in Shards : /\ staged[s].version = step /\ staged[s].count = step
                          /\ staged[s].moments = Averages
    <3>1. \A s : /\ ResidentUpdate(s).version = step /\ ResidentUpdate(s).count = step
                 /\ ResidentUpdate(s).moments = Averages
      BY DEF ResidentUpdate
    <3> QED
      BY <2>1, <3>1
  <2>3. Base' = step
    BY <1>1 DEF Base
  <2>4. launches = 1 => Averages = [f \in Moments(config.optimizer) |-> step]
    BY <1>1, AveragesOfOneRun
  <2>5. \A s \in Shards : /\ stored'[s].version = step /\ stored'[s].count = step
                          /\ stored'[s].moments = Averages
    BY <1>1, <2>2
  <2> QED
    BY <1>1, <1>2, <2>3, <2>4, <2>5 DEF Published
<1>5. Staged'
  <2>1. staged' = [s \in {} |-> ResidentUpdate(s)']
    BY <1>1
  <2> QED
    BY <1>1, <2>1 DEF Staged
<1> QED
  BY <1>3, <1>4, <1>5

LEMMA RelaunchInvariant == IndInv /\ Relaunch => IndInv'
<1> SUFFICES ASSUME IndInv, Relaunch
             PROVE  IndInv'
  OBVIOUS
<1> USE DEF IndInv
<1>1. PICK o \in Optimizers : config' = [config EXCEPT !.optimizer = o]
  BY DEF Relaunch
<1>2. /\ phase = "idle" /\ launches' = launches + 1
      /\ UNCHANGED <<step, phase, at, micro, boundaries, upstream, active, tuning, module, local,
                     payloads, staged, stored>>
  BY DEF Relaunch
<1>3. launches \in Nat \ {0} /\ launches' # 1
  BY <1>2 DEF Placed
<1>4. Placed'
  BY <1>1, <1>2, <1>3 DEF Placed
<1>5. InUse' /\ Activations' /\ Gradients' /\ PutBy'
  BY <1>2 DEF InUse, Activations, Gradients, PutBy, Backward
<1>6. Published'
  <2>1. Base' = Base
    BY <1>2 DEF Base
  <2> QED
    BY <1>2, <1>3, <2>1 DEF Published
<1>7. Staged'
  <2>1. staged = [s \in {} |-> ResidentUpdate(s)]
    BY <1>2 DEF Staged
  <2>2. staged' = [s \in {} |-> ResidentUpdate(s)']
    BY <1>2, <2>1
  <2> QED
    BY <1>2, <2>2 DEF Staged
<1> QED
  BY <1>4, <1>5, <1>6, <1>7

LEMMA NextInvariant == IndInv /\ [Next]_vars => IndInv'
<1> SUFFICES ASSUME IndInv, [Next]_vars
             PROVE  IndInv'
  OBVIOUS
<1>1. CASE UNCHANGED vars
  <2>1. UNCHANGED <<config, launches, step, phase, at, micro, boundaries, upstream, active,
                    tuning, module, local, payloads, staged, stored>>
    BY <1>1 DEF vars
  <2>2. GlobalOptimizerRuns' = GlobalOptimizerRuns /\ Base' = Base /\ Collects' = Collects
    BY <2>1, SameStep DEF Base
  <2>3. Staged'
    BY <2>1, StagedKept DEF IndInv
  <2> QED
    BY <2>1, <2>2, <2>3
       DEF IndInv, Placed, InUse, Published, Activations, Gradients, PutBy
<1> QED
  BY <1>1, BeginStepInvariant, ForwardShardInvariant, EnterShardInvariant,
     BackwardTraceInvariant, CaptureGradientsInvariant, EnterDeferredInvariant,
     LoadOptimizerInvariant, StepAndSaveInvariant, CommitInvariant, RelaunchInvariant
     DEF Next, Advance

-------------------------------------------------------------------------------
(* What holds of every run *)

\* The invariant of a training step, wherever it is.
THEOREM StepInStep == Spec => []IndInv
BY InitInvariant, NextInvariant, PTL DEF Spec

\* Streaming shard by shard, replaying, chunking the head's loss and deferring updates give
\* every shard the update of a resident model.
THEOREM StreamedIsResident == Spec => []MatchesResidentStep
<1>1. IndInv => MatchesResidentStep
  <2> SUFFICES ASSUME IndInv
               PROVE  MatchesResidentStep
    OBVIOUS
  <2>1. DOMAIN staged \subseteq Shards
    <3>1. at \in Nat /\ Shards = 1..Last
      BY Bounds DEF IndInv, Placed
    <3>2. (at + 1)..Last \subseteq Shards
      BY <3>1, Bounds
    <3> QED
      BY <3>2 DEF IndInv, Staged
  <2>2. \A s \in DOMAIN staged : staged[s] = ResidentUpdate(s)
    BY DEF IndInv, Staged
  <2>3. phase = "commit" => DOMAIN staged = Shards
    BY StagedDomain DEF IndInv
  <2> QED
    BY <2>1, <2>2, <2>3, ResidentIs DEF MatchesResidentStep, ResidentUpdate
<1> QED
  BY <1>1, StepInStep, PTL

\* Between steps the count of updates of every shard is the step, and the shards' running
\* averages have seen equally many gradients.
THEOREM CountsAreSteps == Spec => []OptimizerInStep
<1>1. IndInv => OptimizerInStep
  BY DEF IndInv, Placed, Published, Base, OptimizerInStep
<1> QED
  BY <1>1, StepInStep, PTL
================================================================================
