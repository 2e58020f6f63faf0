-------------------------- MODULE Checkpoints_proofs --------------------------
(* Proofs about the two ways in which a run is copied to be resumed, for any   *)
(* number of steps, any interval between the copies and any number of crashes: *)
(* the durable directory that ActiveStore flushes the working copy to, for any *)
(* number of shards, and the checkpoints of the dense trainer, DenseCheckpoint.*)
EXTENDS ActiveStore, DenseCheckpoint, TLAPS

-------------------------------------------------------------------------------
(* ActiveStore: the inductive invariant *)

Copying == {"seed", "flush"}
A == active[Record]
D == durable[Record]

\* No shard in the store is of a step after its record's.
RecordLeads(store) ==
  \A f \in Params \cup Optims : store[f] # NoFile => store[Record] # NoFile /\ store[f] <= store[Record]

\* The durable directory always has all but optimizer files; the active one has a record
\* and metadata wherever the trainer reads them, and everything while it is copied.
FilesThere ==
  /\ Files \ Optims \subseteq Existing(durable)
  /\ pc \in {"resume", "train", "flush", "done"} => {Record, Metadata} \subseteq Existing(active)
  /\ pc = "flush" => Existing(active) = Files

\* The record knows of every shard, the active one of every step of the durable one, and
\* the manifest of none that is not there.
RecordsLead ==
  /\ RecordLeads(durable) /\ RecordLeads(active)
  /\ A # NoFile => D <= A /\ A <= MaxSteps
  /\ published <= D /\ D <= MaxSteps
  /\ pc \in {"train", "flush", "done"} => A = step

\* A directory's record is copied first, and what has been visited is copied.
CopyUnderWay ==
  /\ pc \notin Copying => todo = {}
  /\ pc = "seed" => /\ ~(Record \in Existing(active) /\ Metadata \in Existing(active)) \/ Record \notin todo
                   /\ todo \subseteq Existing(durable)
                   /\ \A f \in Existing(durable) \ todo : active[f] = durable[f]
  /\ pc = "flush" => /\ Record \in todo => todo = Files
                    /\ \A f \in Files \ todo : durable[f] = active[f]

\* As long as the active directory does not pass for a copy, what is in it is the durable
\* directory's.
SeedOnly ==
  pc = "seed" \/ (pc = "down" /\ ~({Record, Metadata} \subseteq Existing(active))) =>
    \A f \in Files : active[f] \in {NoFile, durable[f]}

\* A directory that no copy has cut holds one step.
WholeStores ==
  /\ ~durableTorn /\ (pc = "flush" => Record \in todo) => HoldsStep(durable, D)
  /\ ~activeTorn /\ pc # "seed" /\ {Record, Metadata} \subseteq Existing(active) => HoldsStep(active, A)

\* Why the trainer has stopped.
Reasons ==
  /\ pc = "refused" => \E n, m \in OptimizerSteps : n # m
  /\ pc = "unloadable" => ~(Params \subseteq Existing(active))
  /\ pc = "done" => step >= MaxSteps

\* What is flushed is a multiple of the interval, or the last step.
FlushPoint(n) == n = MaxSteps \/ \E k \in Nat : n = FlushEvery * k

\* How far the active directory may be ahead: every fault can cost it one flush, and one
\* at the last step costs the flush that ends the run.
AheadBy ==
  /\ FlushPoint(D) /\ (pc = "flush" => FlushPoint(step))
  /\ ~activeTorn /\ ~durableTorn /\ A # NoFile =>
       /\ pc # "flush" => A < D + FlushEvery * (faults + 1)
       /\ pc # "flush" /\ A = MaxSteps => A <= D + FlushEvery * faults
       /\ pc = "flush" => A <= D + FlushEvery * (faults + 1)

IndInv == /\ TypeOK /\ FilesThere /\ RecordsLead /\ CopyUnderWay /\ SeedOnly
          /\ WholeStores /\ Reasons /\ AheadBy

-------------------------------------------------------------------------------
(* Files and copies *)

\* The record, the metadata and the two kinds of shard files are different files.
LEMMA FileKinds ==
  /\ Record \in Files /\ Metadata \in Files /\ Params \subseteq Files /\ Optims \subseteq Files
  /\ Record # Metadata
  /\ Record \notin Params \cup Optims /\ Metadata \notin Params \cup Optims
  /\ Params \cap Optims = {}
  /\ \A f \in Files : f \in {Record, Metadata} \/ f \in Params \cup Optims
  BY DEF Files, Record, Metadata, Params, Optims

\* As long as the record has not been visited it is the file to visit.
LEMMA RecordFirst ==
  ASSUME todo \subseteq Files, Record \in todo, NEW f, NEW source, Walkable(f, source)
  PROVE  f = Record
<1>1. Depth(Record) = 1 /\ (f # Record => Depth(f) \in {2, 3})
  BY FileKinds DEF Depth
<1>2. f \in todo /\ Depth(f) <= Depth(Record)
  BY DEF Walkable
<1> QED
  BY <1>1, <1>2

\* A copy holds the step that its original holds.
LEMMA CopyHolds ==
  ASSUME NEW s, NEW t, NEW n, \A f \in Files : t[f] = s[f], HoldsStep(s, n)
  PROVE  HoldsStep(t, n)
  BY FileKinds DEF HoldsStep

\* Multiples of the flush interval: what a fault adds to the bound, and that the bound lies
\* at a point at which the trainer flushes.
LEMMA Intervals ==
  /\ FlushEvery \in Nat \ {0} /\ MaxSteps \in Nat /\ MaxFaults \in Nat
  /\ \A n \in Nat : FlushEvery * n \in Nat /\ FlushEvery * (n + 1) = FlushEvery * n + FlushEvery
  /\ \A j, k \in Nat : FlushEvery * j + FlushEvery * k = FlushEvery * (j + k)
  BY StoreAssumption, FlushAssumption

\* ShouldFlush is FlushPoint, but for the step before the first.
LEMMA FlushPoints == \A n \in Nat : ShouldFlush(n) <=> FlushPoint(n)
<1> SUFFICES ASSUME NEW n \in Nat
             PROVE  n % FlushEvery = 0 <=> \E k \in Nat : n = FlushEvery * k
  BY DEF ShouldFlush, FlushPoint
<1>1. ASSUME n % FlushEvery = 0
      PROVE  \E k \in Nat : n = FlushEvery * k
  <2>1. n \div FlushEvery \in Nat /\ n = (FlushEvery * (n \div FlushEvery)) + (n % FlushEvery)
    BY Intervals
  <2> QED
    BY <1>1, <2>1, Intervals
<1>2. ASSUME NEW k \in Nat, n = FlushEvery * k
      PROVE  n % FlushEvery = 0
  BY <1>2, Intervals
<1> QED
  BY <1>1, <1>2

-------------------------------------------------------------------------------
(* The steps *)

\* A fresh run directory satisfies the invariant.
LEMMA InitInvariant == Init => IndInv
<1> SUFFICES ASSUME Init
             PROVE  IndInv
  OBVIOUS
<1>1. /\ \A f \in Files : durable[f] = IF f \in Optims THEN NoFile ELSE 0
      /\ \A f \in Files : active[f] = NoFile
      /\ D = 0 /\ A = NoFile
  BY FileKinds DEF Init, Nothing, A, D
<1>2. TypeOK
  <2>1. durable \in [Files -> Nat \cup {NoFile}] /\ active \in [Files -> Nat \cup {NoFile}]
    BY DEF Init, Nothing
  <2>2. durableTorn \in BOOLEAN /\ activeTorn \in BOOLEAN
    BY DEF Init
  <2>3. 0 \in 0..MaxSteps /\ 0 \in 0..MaxFaults
    BY Intervals
  <2> QED
    BY <2>1, <2>2, <2>3 DEF Init, TypeOK
<1>3. FilesThere /\ CopyUnderWay /\ SeedOnly /\ Reasons
  BY <1>1, FileKinds, NoFileAssumption
     DEF Init, FilesThere, CopyUnderWay, SeedOnly, Reasons, Existing, Copying
<1>4. RecordsLead
  BY <1>1, FileKinds, Intervals DEF Init, RecordsLead, RecordLeads
<1>5. WholeStores
  BY <1>1, FileKinds, NoFileAssumption DEF Init, WholeStores, HoldsStep, Existing
<1>6. AheadBy
  <2>1. FlushEvery * 0 = 0
    BY Intervals
  <2> QED
    BY <1>1, <2>1 DEF Init, AheadBy, FlushPoint
<1> QED
  BY <1>2, <1>3, <1>4, <1>5, <1>6 DEF IndInv

\* The values that the invariant is about.
LEMMA Values ==
  ASSUME TypeOK, FilesThere
  PROVE  /\ D \in Nat /\ durable[Metadata] # NoFile
         /\ \A f \in Files : active[f] \in Nat \cup {NoFile} /\ durable[f] \in Nat \cup {NoFile}
         /\ step \in Nat /\ faults \in Nat /\ published \in Nat
         /\ A # NoFile => A \in Nat
         /\ pc \in {"resume", "train", "flush", "done"} => A \in Nat /\ active[Metadata] \in Nat
  BY FileKinds, NoFileAssumption, Intervals DEF TypeOK, FilesThere, Existing, A, D

\* A directory that has record and metadata is gone on from as it is; any other is seeded.
LEMMA PrepareInvariant == IndInv /\ Prepare => IndInv'
<1> SUFFICES ASSUME IndInv, Prepare
             PROVE  IndInv'
  OBVIOUS
<1> USE DEF IndInv
<1>1. /\ pc = "down"
      /\ UNCHANGED <<durable, active, published, step, faults, durableTorn, activeTorn>>
      /\ IF {Record, Metadata} \subseteq Existing(active)
         THEN pc' = "resume" /\ todo' = {}
         ELSE pc' = "seed" /\ todo' = Existing(durable)
  BY FileKinds DEF Prepare, Existing
<1>2. TypeOK'
  BY <1>1 DEF TypeOK, Running, Existing
<1>3. FilesThere'
  BY <1>1 DEF FilesThere, Existing
<1>4. RecordsLead'
  BY <1>1 DEF RecordsLead, RecordLeads, A, D
<1>5. CopyUnderWay' /\ SeedOnly'
  BY <1>1, FileKinds DEF CopyUnderWay, SeedOnly, Copying, Existing
<1>6. WholeStores'
  BY <1>1 DEF WholeStores, HoldsStep, A, D, Existing
<1>7. Reasons'
  BY <1>1 DEF Reasons
<1>8. AheadBy'
  BY <1>1 DEF AheadBy, A, D
<1> QED
  BY <1>2, <1>3, <1>4, <1>5, <1>6, <1>7, <1>8

\* A file is seeded: the active directory stays part of the durable one.
LEMMA SeedInvariant == ASSUME IndInv, NEW f \in Files, SeedFile(f) PROVE IndInv'
<1> USE DEF IndInv
<1>1. /\ pc = "seed" /\ f \in todo /\ Walkable(f, durable)
      /\ active' = [active EXCEPT ![f] = durable[f]] /\ todo' = todo \ {f}
      /\ UNCHANGED <<durable, published, pc, step, faults, durableTorn, activeTorn>>
  BY DEF SeedFile, Walkable
<1>2. /\ active'[f] = durable[f] /\ durable[f] # NoFile
      /\ \A g \in Files \ {f} : active'[g] = active[g]
  BY <1>1 DEF TypeOK, CopyUnderWay, Existing
<1>3. \A g \in Files : active[g] \in {NoFile, durable[g]}
  BY <1>1 DEF SeedOnly
<1>4. \A g \in Files : active'[g] \in {NoFile, durable[g]}
  BY <1>2, <1>3
<1>5. f # Record => Record \notin todo /\ A = D
  <2> SUFFICES ASSUME f # Record
               PROVE  Record \notin todo /\ A = D
    OBVIOUS
  <2>1. Record \notin todo
    BY <1>1, RecordFirst DEF TypeOK
  <2>2. Record \in Existing(durable)
    BY FileKinds DEF FilesThere
  <2> QED
    BY <1>1, <2>1, <2>2 DEF CopyUnderWay, A, D
<1>6. A' = D /\ D' = D /\ Record \notin todo'
  BY <1>1, <1>2, <1>5, FileKinds DEF A, D
<1>7. TypeOK'
  BY <1>1 DEF TypeOK
<1>8. FilesThere'
  BY <1>1 DEF FilesThere, Existing
<1>9. RecordsLead'
  <2>1. RecordLeads(active)'
    BY <1>4, <1>6, FileKinds, Values DEF RecordsLead, RecordLeads, A, D
  <2> QED
    BY <1>1, <1>6, <2>1, Values DEF RecordsLead, RecordLeads, D
<1>10. CopyUnderWay'
  BY <1>1, <1>2, <1>6 DEF CopyUnderWay, Copying, Existing
<1>11. SeedOnly'
  BY <1>1, <1>4 DEF SeedOnly
<1>12. WholeStores'
  BY <1>1 DEF WholeStores, HoldsStep, D
<1>13. Reasons'
  BY <1>1 DEF Reasons
<1>14. AheadBy'
  <2>1. FlushEvery * (faults + 1) \in Nat \ {0} /\ FlushEvery * faults \in Nat
    BY Values, Intervals
  <2> QED
    BY <1>1, <1>6, <2>1, Values DEF AheadBy, D
<1> QED
  BY <1>7, <1>8, <1>9, <1>10, <1>11, <1>12, <1>13, <1>14

\* The seeded directory is the durable one, file for file.
LEMMA Seeded ==
  ASSUME IndInv, pc = "seed", todo = {}
  PROVE  A = D /\ \A f \in Files : active[f] = durable[f]
  BY FileKinds, Values DEF IndInv, CopyUnderWay, SeedOnly, Existing, A, D

\* Training can begin on a seeded directory.
LEMMA EndSeedInvariant == IndInv /\ EndSeed => IndInv'
<1> SUFFICES ASSUME IndInv, EndSeed
             PROVE  IndInv'
  OBVIOUS
<1> USE DEF IndInv
<1>1. /\ pc = "seed" /\ todo = {} /\ pc' = "resume" /\ activeTorn' = durableTorn
      /\ UNCHANGED <<durable, active, published, step, todo, faults, durableTorn>>
  BY DEF EndSeed
<1>2. A = D /\ \A f \in Files : active[f] = durable[f]
  BY <1>1, Seeded
<1>3. TypeOK'
  BY <1>1 DEF TypeOK, Running
<1>4. FilesThere'
  BY <1>1, <1>2, FileKinds DEF FilesThere, Existing
<1>5. RecordsLead'
  BY <1>1 DEF RecordsLead, RecordLeads, A, D
<1>6. CopyUnderWay' /\ SeedOnly' /\ Reasons'
  BY <1>1 DEF CopyUnderWay, SeedOnly, Reasons, Copying
<1>7. WholeStores'
  <2>1. ~durableTorn => HoldsStep(durable, D)
    BY <1>1 DEF WholeStores
  <2>2. ~durableTorn => HoldsStep(active, A)
    BY <1>2, <2>1, CopyHolds
  <2> QED
    BY <1>1, <2>1, <2>2 DEF WholeStores, HoldsStep, A, D
<1>8. AheadBy'
  <2>1. FlushEvery * (faults + 1) \in Nat \ {0} /\ FlushEvery * faults \in Nat
    BY Values, Intervals
  <2> QED
    BY <1>1, <1>2, <2>1, Values DEF AheadBy, A, D
<1> QED
  BY <1>3, <1>4, <1>5, <1>6, <1>7, <1>8

\* Training goes on from the record: no optimizer file is ahead of it.
LEMMA ResumeInvariant == IndInv /\ Resume => IndInv'
<1> SUFFICES ASSUME IndInv, Resume
             PROVE  IndInv'
  OBVIOUS
<1> USE DEF IndInv
<1>1. /\ pc = "resume" /\ todo = {} /\ A \in Nat /\ A <= MaxSteps
      /\ UNCHANGED <<durable, published, todo, faults, durableTorn, activeTorn>>
  BY Values, NoFileAssumption DEF Resume, CopyUnderWay, Copying, RecordsLead
<1>2. \A n \in OptimizerSteps : ~(n > A)
  BY <1>1, Values, FileKinds DEF OptimizerSteps, RecordsLead, RecordLeads, A
<1>3. \/ pc' = "refused" /\ UNCHANGED <<active, step>> /\ \E n, m \in OptimizerSteps : n # m
      \/ pc' = "train" /\ step' = A /\ active' = [active EXCEPT ![Record] = A]
  BY <1>2 DEF Resume, A
<1>4. UNCHANGED active /\ OptimizerSteps' = OptimizerSteps
  BY <1>3, FileKinds DEF A, TypeOK, OptimizerSteps
<1>5. TypeOK'
  BY <1>1, <1>3, <1>4, Intervals DEF TypeOK, Running, Stopped
<1>6. FilesThere'
  BY <1>1, <1>3, <1>4 DEF FilesThere, Existing
<1>7. RecordsLead'
  BY <1>1, <1>3, <1>4 DEF RecordsLead, RecordLeads, A, D
<1>8. CopyUnderWay' /\ SeedOnly' /\ Reasons'
  BY <1>1, <1>3, <1>4 DEF CopyUnderWay, SeedOnly, Reasons, Copying
<1>9. WholeStores'
  BY <1>1, <1>3, <1>4 DEF WholeStores, HoldsStep, A, D, Existing
<1>10. AheadBy'
  BY <1>1, <1>3, <1>4 DEF AheadBy, A, D
<1> QED
  BY <1>5, <1>6, <1>7, <1>8, <1>9, <1>10

\* A step counts in every file; it goes on to a flush exactly at a flush point, and away
\* from one what has not been flushed stays below the bound.
LEMMA TrainInvariant == IndInv /\ TrainStep => IndInv'
<1> SUFFICES ASSUME IndInv, TrainStep
             PROVE  IndInv'
  OBVIOUS
<1> USE DEF IndInv
<1>1. /\ pc = "train" /\ step < MaxSteps /\ step' = step + 1 /\ A = step
      /\ Params \subseteq Existing(active) /\ todo = {}
      /\ active' = [f \in Files |-> Updated(f)]
      /\ IF FlushPoint(step + 1) THEN pc' = "flush" /\ todo' = Files ELSE UNCHANGED <<pc, todo>>
      /\ UNCHANGED <<durable, published, faults, durableTorn, activeTorn>>
  BY FlushPoints, Values DEF TrainStep, CopyUnderWay, Copying, RecordsLead
<1>2. /\ A' = step + 1 /\ active'[Metadata] = active[Metadata]
      /\ \A f \in Params \cup Optims : active'[f] = IF active[f] = NoFile THEN 1 ELSE active[f] + 1
  BY <1>1, FileKinds DEF Updated, A
<1>3. \A f \in Files : active'[f] \in Nat /\ active'[f] # NoFile
  BY <1>1, <1>2, FileKinds, Values, NoFileAssumption DEF A
<1>4. TypeOK'
  <2>1. active' \in [Files -> Nat \cup {NoFile}]
    BY <1>1, <1>3
  <2> QED
    BY <1>1, <2>1, Intervals, FileKinds DEF TypeOK, Running
<1>5. FilesThere'
  BY <1>1, <1>3, FileKinds DEF FilesThere, Existing
<1>6. RecordsLead'
  <2>1. RecordLeads(active)'
    BY <1>1, <1>2, <1>3, FileKinds, Values DEF RecordsLead, RecordLeads, A
  <2>2. RecordLeads(durable)' /\ D' = D /\ published' = published
    BY <1>1 DEF RecordsLead, RecordLeads, D
  <2>3. A # NoFile /\ D <= A /\ D \in Nat /\ step \in Nat
    BY <1>1, Values, NoFileAssumption DEF RecordsLead
  <2> QED
    BY <1>1, <1>2, <2>1, <2>2, <2>3, Intervals DEF RecordsLead
<1>7. CopyUnderWay' /\ SeedOnly' /\ Reasons'
  BY <1>1 DEF CopyUnderWay, SeedOnly, Reasons, Copying
<1>8. WholeStores'
  <2>1. ~durableTorn => HoldsStep(durable, D)
    BY <1>1 DEF WholeStores
  <2>2. ~activeTorn => HoldsStep(active, step)
    BY <1>1, FileKinds, Values, NoFileAssumption DEF WholeStores, FilesThere
  <2>3. ~activeTorn => HoldsStep(active', step + 1)
    BY <1>1, <1>2, <1>3, <2>2, FileKinds, Values, NoFileAssumption DEF HoldsStep, Existing, A
  <2>4. HoldsStep(active', step + 1) => HoldsStep(active, A)'
    BY <1>2 DEF HoldsStep
  <2> QED
    BY <1>1, FileKinds, <2>1, <2>3, <2>4 DEF WholeStores, HoldsStep, D
<1>9. AheadBy'
  <2> DEFINE bound == D + FlushEvery * (faults + 1)
  <2>1. FlushEvery * faults \in Nat /\ bound \in Nat /\ D \in Nat /\ step \in Nat /\ A \in Nat /\ D <= A
    BY <1>1, Values, Intervals, NoFileAssumption DEF RecordsLead
  <2>2. ~activeTorn /\ ~durableTorn => A + 1 <= bound
    BY <1>1, <2>1, NoFileAssumption DEF AheadBy
  <2>3. ASSUME ~FlushPoint(step + 1)
        PROVE  step + 1 # bound /\ step + 1 # MaxSteps
    <3>1. PICK k \in Nat : D = FlushEvery * k
      BY <1>1, <2>1 DEF AheadBy, FlushPoint
    <3>2. bound = FlushEvery * (k + (faults + 1)) /\ k + (faults + 1) \in Nat
      BY <3>1, Values, Intervals
    <3> QED
      BY <2>3, <3>2 DEF FlushPoint
  <2>4. FlushPoint(D)' /\ (pc' = "flush" => FlushPoint(step)')
    BY <1>1 DEF AheadBy, FlushPoint, D
  <2> QED
    BY <1>1, <1>2, <2>1, <2>2, <2>3, <2>4 DEF AheadBy, D
<1> QED
  BY <1>4, <1>5, <1>6, <1>7, <1>8, <1>9

\* A file is flushed, the record first: from then on the durable record is the active one.
LEMMA FlushInvariant == ASSUME IndInv, NEW f \in Files, FlushFile(f) PROVE IndInv'
<1> USE DEF IndInv
<1>1. /\ pc = "flush" /\ f \in todo /\ Walkable(f, active)
      /\ durable' = [durable EXCEPT ![f] = active[f]] /\ todo' = todo \ {f}
      /\ UNCHANGED <<active, published, pc, step, faults, durableTorn, activeTorn>>
  BY DEF FlushFile, Walkable
<1>2. /\ durable'[f] = active[f] /\ active[f] \in Nat
      /\ \A g \in Files \ {f} : durable'[g] = durable[g]
  BY <1>1, Values DEF TypeOK, FilesThere, Existing
<1>3. A \in Nat /\ D \in Nat /\ D <= A /\ A = step /\ A <= MaxSteps
  BY <1>1, Values, NoFileAssumption DEF RecordsLead
<1>4. D' = A /\ Record \notin todo'
  <2>1. CASE f = Record
    BY <1>1, <1>2, <2>1 DEF A, D
  <2>2. CASE f # Record
    <3>1. Record \notin todo
      BY <1>1, <2>2, RecordFirst DEF TypeOK
    <3> QED
      BY <1>1, <1>2, <2>2, <3>1, FileKinds DEF CopyUnderWay, A, D
  <2> QED
    BY <2>1, <2>2
<1>5. TypeOK'
  BY <1>1 DEF TypeOK
<1>6. FilesThere'
  BY <1>1, <1>2, NoFileAssumption DEF FilesThere, Existing
<1>7. RecordsLead'
  <2>1. ASSUME NEW g \in Params \cup Optims, durable'[g] # NoFile
        PROVE  durable'[Record] # NoFile /\ durable'[g] <= durable'[Record]
    <3>1. CASE g = f
      BY <1>2, <1>3, <1>4, <2>1, <3>1, NoFileAssumption DEF RecordsLead, RecordLeads, A, D
    <3>2. CASE g # f
      <4>1. durable'[g] = durable[g] /\ durable[g] \in Nat
        BY <1>2, <2>1, <3>2, FileKinds, Values
      <4>2. durable[g] <= D
        BY <2>1, <4>1 DEF RecordsLead, RecordLeads, D
      <4> QED
        BY <1>3, <1>4, <4>1, <4>2, NoFileAssumption DEF D
    <3> QED
      BY <3>1, <3>2
  <2>2. RecordLeads(durable)'
    BY <2>1 DEF RecordLeads
  <2>3. RecordLeads(active)'
    BY <1>1 DEF RecordsLead, RecordLeads
  <2>4. published <= D' /\ D' <= A' /\ D' <= MaxSteps /\ A' = A
    BY SMTT(30), <1>1, <1>3, <1>4, Values, Intervals DEF RecordsLead, A
  <2> QED
    BY <1>1, <1>3, <2>2, <2>3, <2>4 DEF RecordsLead
<1>8. CopyUnderWay'
  BY <1>1, <1>2, <1>4 DEF CopyUnderWay, Copying
<1>9. SeedOnly' /\ Reasons'
  BY <1>1 DEF SeedOnly, Reasons
<1>10. WholeStores'
  BY <1>1, <1>4 DEF WholeStores, HoldsStep, A, Existing
<1>11. AheadBy'
  <2>1. FlushEvery * (faults + 1) \in Nat
    BY Values, Intervals
  <2> QED
    BY <1>1, <1>3, <1>4, <2>1 DEF AheadBy, FlushPoint, A
<1> QED
  BY <1>5, <1>6, <1>7, <1>8, <1>9, <1>10, <1>11

\* The flushed directory is the active one, file for file.
LEMMA FlushedWhole ==
  ASSUME IndInv, Flushed
  PROVE  D = A /\ A = step /\ \A f \in Files : durable[f] = active[f]
  BY FileKinds DEF IndInv, Flushed, CopyUnderWay, RecordsLead, A, D

\* The manifest follows the files.
LEMMA EndFlushInvariant == IndInv /\ EndFlush => IndInv'
<1> SUFFICES ASSUME IndInv, EndFlush
             PROVE  IndInv'
  OBVIOUS
<1> USE DEF IndInv
<1>1. /\ pc = "flush" /\ todo = {} /\ pc' = "train" /\ published' = step /\ durableTorn' = activeTorn
      /\ UNCHANGED <<durable, active, step, todo, faults, activeTorn>>
  BY DEF EndFlush
<1>2. /\ D = A /\ A = step /\ \A f \in Files : durable[f] = active[f]
      /\ A \in Nat /\ D \in Nat
  BY <1>1, FlushedWhole, Values DEF Flushed
<1>3. TypeOK'
  BY <1>1 DEF TypeOK, Running
<1>4. FilesThere'
  BY <1>1 DEF FilesThere, Existing
<1>5. RecordsLead'
  BY <1>1, <1>2, Intervals DEF RecordsLead, RecordLeads, A, D
<1>6. CopyUnderWay' /\ SeedOnly' /\ Reasons'
  BY <1>1 DEF CopyUnderWay, SeedOnly, Reasons, Copying
<1>7. WholeStores'
  <2>1. ~activeTorn => HoldsStep(active, A)
    BY <1>1 DEF WholeStores, FilesThere
  <2>2. ~activeTorn => HoldsStep(durable, D)
    BY <1>2, <2>1, CopyHolds
  <2> QED
    BY <1>1, <2>1, <2>2 DEF WholeStores, HoldsStep, A, D
<1>8. AheadBy'
  <2>1. FlushEvery * (faults + 1) \in Nat \ {0} /\ FlushEvery * faults \in Nat
    BY Values, Intervals
  <2> QED
    BY <1>1, <1>2, <2>1 DEF AheadBy, A, D
<1> QED
  BY <1>3, <1>4, <1>5, <1>6, <1>7, <1>8

\* The end of a run, for whichever reason, leaves both directories alone.
LEMMA EndInvariant == IndInv /\ (ForwardFails \/ Finish) => IndInv'
<1> SUFFICES ASSUME IndInv, ForwardFails \/ Finish
             PROVE  IndInv'
  OBVIOUS
<1> USE DEF IndInv
<1>1. /\ pc = "train"
      /\ UNCHANGED <<durable, active, published, step, todo, faults, durableTorn, activeTorn>>
      /\ \/ pc' = "unloadable" /\ ~(Params \subseteq Existing(active))
         \/ pc' = "done" /\ step >= MaxSteps
  BY DEF ForwardFails, Finish
<1>2. TypeOK' /\ FilesThere'
  BY <1>1 DEF TypeOK, FilesThere, Existing, Stopped
<1>3. RecordsLead'
  BY <1>1 DEF RecordsLead, RecordLeads, A, D
<1>4. CopyUnderWay' /\ SeedOnly'
  BY <1>1 DEF CopyUnderWay, SeedOnly, Copying
<1>5. Reasons'
  BY <1>1 DEF Reasons, Existing
<1>6. WholeStores'
  BY <1>1 DEF WholeStores, HoldsStep, A, D, Existing
<1>7. AheadBy'
  BY <1>1 DEF AheadBy, A, D
<1> QED
  BY <1>2, <1>3, <1>4, <1>5, <1>6, <1>7

\* Where a process stops, the durable directory that passes for uncut holds a step: the
\* old one, or, after the last file of a flush, the new one.
LEMMA StoppedArchive ==
  ASSUME IndInv, Stops
  PROVE  ~durableTorn' => HoldsStep(durable, D)
<1> USE DEF IndInv
<1>1. CASE Flushed
  <2>1. ~activeTorn => HoldsStep(active, A)
    BY <1>1 DEF Flushed, WholeStores, FilesThere
  <2>2. ~activeTorn => HoldsStep(durable, A)
    BY <1>1, <2>1, FlushedWhole, CopyHolds
  <2> QED
    BY <1>1, <2>2, FlushedWhole DEF Stops
<1>2. CASE ~Flushed
  <2>1. ~durableTorn' => ~durableTorn /\ ~CutsFlush
    BY <1>2, Zenon DEF Stops
  <2>2. ~durableTorn' => (pc = "flush" => todo = Files)
    BY <1>2, <2>1 DEF Flushed, CutsFlush
  <2>3. ~durableTorn' => ~durableTorn /\ (pc = "flush" => Record \in todo)
    BY <2>1, <2>2, FileKinds
  <2> QED
    BY <2>3 DEF WholeStores
<1> QED
  BY <1>1, <1>2

\* A stop in a flush costs the flush, which one more fault pays for.
LEMMA StoppedAhead ==
  ASSUME IndInv, Stops, pc # "seed", ~activeTorn, ~durableTorn', A # NoFile
  PROVE  A < D + FlushEvery * (faults' + 1) /\ A <= D + FlushEvery * faults'
<1> USE DEF IndInv
<1>1. /\ FlushEvery * faults \in Nat /\ faults' = faults + 1
      /\ FlushEvery * (faults + 1) = FlushEvery * faults + FlushEvery
      /\ FlushEvery * (faults' + 1) = FlushEvery * faults' + FlushEvery
      /\ FlushEvery \in Nat \ {0} /\ D \in Nat /\ A \in Nat
  BY Values, Intervals DEF Stops
<1>2. CASE Flushed
  BY <1>1, <1>2, FlushedWhole
<1>3. CASE ~Flushed
  <2>1. ~durableTorn
    BY <1>3, Zenon DEF Stops
  <2>2. /\ pc # "flush" => A < D + FlushEvery * (faults + 1)
        /\ pc = "flush" => A <= D + FlushEvery * (faults + 1)
    BY <2>1 DEF AheadBy
  <2> QED
    BY <1>1, <2>2
<1> QED
  BY <1>2, <1>3

\* A crash leaves both directories, cut or not.
LEMMA CrashInvariant == IndInv /\ Crash => IndInv'
<1> SUFFICES ASSUME IndInv, Crash
             PROVE  IndInv'
  OBVIOUS
<1> USE DEF IndInv
<1>1. /\ Stops /\ UNCHANGED <<durable, active, published>>
      /\ pc' = "down" /\ step' = 0 /\ todo' = {} /\ faults' = faults + 1 /\ faults < MaxFaults
      /\ activeTorn' <=> activeTorn \/ CutsSeed \/ (pc = "seed" /\ todo = {} /\ durableTorn)
      /\ durableTorn' <=> IF Flushed THEN activeTorn ELSE durableTorn \/ CutsFlush
  BY DEF Crash, Stops
<1>2. TypeOK'
  <2>1. activeTorn' \in BOOLEAN /\ durableTorn' \in BOOLEAN
    BY Zenon DEF Crash, Stops, TypeOK
  <2>2. 0 \in 0..MaxSteps /\ faults' \in 0..MaxFaults
    BY <1>1, Intervals DEF TypeOK
  <2> QED
    BY <1>1, <2>1, <2>2 DEF TypeOK
<1>3. FilesThere'
  BY <1>1 DEF FilesThere, Existing
<1>4. RecordsLead'
  BY <1>1 DEF RecordsLead, RecordLeads, A, D
<1>5. CopyUnderWay' /\ Reasons'
  BY <1>1 DEF CopyUnderWay, Reasons, Copying
<1>6. pc # "seed" => pc \in {"down", "resume", "train", "flush"}
  BY DEF Crash, Stops, Running
<1>7. SeedOnly'
  BY <1>1, <1>6 DEF SeedOnly, Existing, FilesThere
<1>8. HoldsStep(durable, D)' <=> HoldsStep(durable, D)
  BY <1>1 DEF HoldsStep, D
<1>9. WholeStores'
  <2>1. ASSUME ~activeTorn', {Record, Metadata} \subseteq Existing(active)
        PROVE  HoldsStep(active, A)
    <3>1. CASE pc # "seed"
      BY <1>1, <2>1, <3>1 DEF WholeStores
    <3>2. CASE pc = "seed"
      <4>1. todo = {} /\ ~durableTorn
        BY <1>1, <2>1, <3>2 DEF CutsSeed, Existing
      <4>2. HoldsStep(durable, D)
        BY <3>2, <4>1 DEF WholeStores
      <4> QED
        BY <3>2, <4>1, <4>2, Seeded, CopyHolds
    <3> QED
      BY <3>1, <3>2
  <2>2. ~durableTorn' => HoldsStep(durable, D)'
    BY <1>1, <1>8, StoppedArchive
  <2> QED
    BY <1>1, <2>1, <2>2 DEF WholeStores, HoldsStep, A, Existing
<1>10. AheadBy'
  <2>1. CASE pc # "seed"
    BY <1>1, <2>1, StoppedAhead DEF AheadBy, A, D
  <2>2. CASE pc = "seed"
    <3>1. A # NoFile => A = D
      BY <2>2, FileKinds DEF SeedOnly, A, D
    <3>2. FlushEvery * (faults' + 1) \in Nat \ {0} /\ FlushEvery * faults' \in Nat /\ D \in Nat
      BY <1>1, Values, Intervals
    <3> QED
      BY <1>1, <3>1, <3>2 DEF AheadBy, A, D
  <2> QED
    BY <2>1, <2>2
<1> QED
  BY <1>2, <1>3, <1>4, <1>5, <1>7, <1>9, <1>10

\* A power loss leaves the durable directory.
LEMMA PowerLossInvariant == IndInv /\ PowerLoss => IndInv'
<1> SUFFICES ASSUME IndInv, PowerLoss
             PROVE  IndInv'
  OBVIOUS
<1> USE DEF IndInv
<1>1. /\ Stops /\ UNCHANGED <<durable, published>> /\ active' = Nothing /\ activeTorn' = FALSE
      /\ pc' = "down" /\ step' = 0 /\ todo' = {} /\ faults' = faults + 1 /\ faults < MaxFaults
  BY DEF PowerLoss, Stops
<1>2. \A f \in Files : active'[f] = NoFile
  BY <1>1 DEF Nothing
<1>3. A' = NoFile
  BY <1>2, FileKinds DEF A
<1>4. TypeOK'
  <2>1. durableTorn' \in BOOLEAN
    BY Zenon DEF PowerLoss, Stops, TypeOK
  <2>2. 0 \in 0..MaxSteps /\ faults' \in 0..MaxFaults
    BY <1>1, Intervals DEF TypeOK
  <2>3. active' \in [Files -> Nat \cup {NoFile}] /\ activeTorn' \in BOOLEAN
    BY <1>1 DEF Nothing
  <2> QED
    BY <1>1, <2>1, <2>2, <2>3 DEF TypeOK
<1>5. FilesThere' /\ CopyUnderWay' /\ Reasons'
  BY <1>1 DEF FilesThere, CopyUnderWay, Reasons, Copying, Existing
<1>6. RecordsLead'
  BY <1>1, <1>2, <1>3, FileKinds DEF RecordsLead, RecordLeads, D
<1>7. SeedOnly'
  BY <1>2 DEF SeedOnly
<1>8. WholeStores'
  <2>1. ~durableTorn' => HoldsStep(durable, D)
    BY <1>1, StoppedArchive
  <2> QED
    BY <1>1, <1>2, <2>1, FileKinds DEF WholeStores, HoldsStep, D, Existing
<1>9. AheadBy'
  BY <1>1, <1>3 DEF AheadBy, D
<1> QED
  BY <1>4, <1>5, <1>6, <1>7, <1>8, <1>9

-------------------------------------------------------------------------------
(* The theorems *)

\* Every step keeps the invariant.
LEMMA NextInvariant == IndInv /\ [Next]_vars => IndInv'
<1> SUFFICES ASSUME IndInv, [Next]_vars
             PROVE  IndInv'
  OBVIOUS
<1>1. CASE TrainerStep
  BY <1>1, PrepareInvariant, SeedInvariant, EndSeedInvariant, ResumeInvariant, TrainInvariant,
     EndInvariant, FlushInvariant, EndFlushInvariant DEF TrainerStep
<1>2. CASE Crash \/ PowerLoss
  BY <1>2, CrashInvariant, PowerLossInvariant
<1>3. CASE UNCHANGED vars
  BY <1>3 DEF vars, IndInv, TypeOK, FilesThere, RecordsLead, RecordLeads, CopyUnderWay, SeedOnly,
              WholeStores, HoldsStep, Reasons, AheadBy, OptimizerSteps, Existing, A, D
<1> QED
  BY <1>1, <1>2, <1>3 DEF Next, Terminated

\* In every run the two directories and the trainer are in step.
THEOREM StoresInStep == Spec => []IndInv
<1>1. Init => IndInv
  BY InitInvariant
<1>2. IndInv /\ [Next]_vars => IndInv'
  BY NextInvariant
<1> QED
  BY <1>1, <1>2, PTL DEF Spec

\* The durable directory is a run that can be gone on from, for any number of shards, steps
\* and faults and any flush interval; where a copy has cut it, its record knows of all its
\* shards; and what stops a run shows in its audit.
THEOREM DurableRun == Spec => []ArchiveKept
<1>1. IndInv => ArchiveIsAStep
  <2> SUFFICES ASSUME IndInv, pc # "flush", ~durableTorn
               PROVE  \E n \in published..MaxSteps : HoldsStep(durable, n)
    BY DEF ArchiveIsAStep
  <2>1. HoldsStep(durable, D)
    BY DEF IndInv, WholeStores
  <2>2. D \in published..MaxSteps
    BY Values, Intervals DEF IndInv, RecordsLead
  <2> QED
    BY <2>1, <2>2
<1>2. IndInv => RecordLeadsArchive
  BY DEF IndInv, RecordsLead, RecordLeads, RecordLeadsArchive
<1>3. IndInv => AuditForesees
  <2> SUFFICES ASSUME IndInv, AuditClean(active)
               PROVE  pc \notin {"refused", "unloadable"}
    BY DEF AuditForesees
  <2>1. OptimizerSteps = AuditedSteps(active)
    BY FileKinds DEF OptimizerSteps, AuditedSteps, Existing
  <2> QED
    BY <2>1 DEF AuditClean, IndInv, Reasons
<1>4. IndInv => ArchiveKept
  BY <1>1, <1>2, <1>3 DEF ArchiveKept, IndInv
<1> QED
  BY <1>4, StoresInStep, PTL

\* Training is on one whole model, whichever way the active directory came about.
THEOREM WholeTraining == Spec => []TrainsOnAWholeStore
<1>1. IndInv => TrainsOnAWholeStore
  BY DEF IndInv, WholeStores, FilesThere, RecordsLead, TrainsOnAWholeStore
<1> QED
  BY <1>1, StoresInStep, PTL

\* A power loss takes back less than one flush interval, and one more for every fault.
THEOREM LossBounded == Spec => []BoundedLoss
<1>1. IndInv => BoundedLoss
  <2> SUFFICES ASSUME IndInv, ~activeTorn, ~durableTorn, pc \in {"train", "done"}
               PROVE  /\ pc = "train" => step < D + FlushEvery * (faults + 1)
                      /\ pc = "done" => step <= D + FlushEvery * faults
    BY DEF BoundedLoss, D
  <2>1. A = step /\ A \in Nat /\ A # NoFile /\ A <= MaxSteps
    BY Values, NoFileAssumption DEF IndInv, RecordsLead
  <2>2. pc = "done" => A = MaxSteps
    BY <2>1, Intervals DEF IndInv, Reasons
  <2> QED
    BY <2>1, <2>2 DEF IndInv, AheadBy
<1> QED
  BY <1>1, StoresInStep, PTL

-------------------------------------------------------------------------------
(* DenseCheckpoint: the inductive invariant *)

Saved  == [launch : Nat, step : 0..LastStep]
Memories == [model : Saved, optimizer : Saved, state : Saved]

\* The files there are: every directory is there, empty or not.
Filed == /\ DOMAIN disk = Dirs
         /\ \A d \in Dirs : /\ Names(d) \subseteq FileNames
                           /\ \A n \in Names(d) : disk[d][n] \in Saved

Dir    == StepDir(StepIn(mem))
Saving == {"save", "clear", "copy", "replace"}

DenseTypeOK ==
  /\ save_interval \in Nat \ {0}
  /\ Filed
  /\ doing \in {"down", "train"} \cup Saving
  /\ mem \in Memories
  /\ next \in 1..5
  /\ launches \in Nat /\ crashes \in Nat /\ cut \subseteq Kept
  /\ doing # "down" => launches # 0
  /\ doing \in Saving => StepIn(mem) # 0
  /\ doing = "copy" => Names(Tmp) \subseteq Names(Dir)

\* What is in memory is of one launch and one step.
MemoryUniform ==
  doing # "down" => /\ mem.optimizer = mem.model /\ mem.state = mem.model
                    /\ mem.model # Partial

\* The directory that is being written or removed.
Rewritten(d) == (doing = "save" /\ d = Dir) \/ (doing = "replace" /\ d = Latest)

Closed(d) == "_SUCCESS" \in Names(d)

\* Elsewhere _SUCCESS closes a whole checkpoint, unless a crash has cut it.
Settled == \A d \in Kept \ cut : ~Rewritten(d) /\ Closed(d) => Whole(d)

\* The files behind the save are those of what is in memory; a save that does not go
\* over a finished checkpoint comes to _SUCCESS last.
SaveInOrder ==
  doing = "save" =>
    /\ \A i \in 1..4 : i < next => /\ SaveOrder[i] \in Names(Dir)
                                   /\ disk[Dir][SaveOrder[i]] = mem.model
    /\ ~over /\ Closed(Dir) => next >= 4

\* The saved checkpoint is whole, and latest.tmp is, as far as it goes, a copy of it.
CopyInOrder ==
  /\ doing \in {"clear", "copy", "replace"} => Whole(Dir)
  /\ doing = "copy" =>
       \A n \in Names(Tmp) : disk[Tmp][n] \in {Partial, disk[Dir][n]}
  /\ doing = "replace" => Whole(Tmp)

\* Without a crash nothing is cut, and latest is whole outside its replacement as soon
\* as there is a finished checkpoint.
LatestKept ==
  crashes = 0 =>
    /\ cut = {}
    /\ doing \in {"down", "train"} /\ (\E d \in Kept : Closed(d)) => Whole(Latest)
    /\ doing = "save" /\ (over \/ \E d \in Kept \ {Dir} : Closed(d)) => Whole(Latest)

\* With one crash there is a whole checkpoint whenever none is being saved.
OneKept ==
  crashes <= 1 /\ doing \in {"down", "train"} /\ (\E d \in Kept : Closed(d)) =>
    \E d \in Kept : Whole(d)

Consistent == /\ MemoryUniform /\ Settled /\ SaveInOrder /\ CopyInOrder
              /\ LatestKept /\ OneKept

DenseInv == DenseTypeOK /\ (~misled => Consistent)

-------------------------------------------------------------------------------
(* Directories and files *)

\* latest, its copy and the directories of the steps are different directories.
LEMMA Directories ==
  /\ Latest \in Kept /\ Tmp \notin Kept /\ Dirs = Kept \cup {Tmp}
  /\ \A n \in 1..LastStep : StepDir(n) \in Kept
  /\ \A n : StepDir(n) # Latest /\ StepDir(n) # Tmp
  BY DEF Latest, Tmp, Kept, Dirs, StepDir

\* Writing a file changes that file only.
LEMMA PutEffect ==
  ASSUME Filed, NEW d0 \in Dirs, NEW name \in FileNames, NEW content \in Saved,
         Put(d0, name, content)
  PROVE  /\ Filed'
         /\ Names(d0)' = Names(d0) \cup {name}
         /\ disk'[d0][name] = content
         /\ \A n \in Names(d0) \ {name} : disk'[d0][n] = disk[d0][n]
         /\ \A d \in Dirs \ {d0} : disk'[d] = disk[d]
<1>1. disk'[d0] = [n \in Names(d0) \cup {name} |-> IF n = name THEN content ELSE disk[d0][n]]
  BY DEF Filed, Put
<1>2. /\ Names(d0)' = Names(d0) \cup {name}
      /\ disk'[d0][name] = content
      /\ \A n \in Names(d0) \ {name} : disk'[d0][n] = disk[d0][n]
  BY <1>1 DEF Names
<1>3. DOMAIN disk' = Dirs /\ \A d \in Dirs \ {d0} : disk'[d] = disk[d]
  BY DEF Filed, Put
<1>4. ASSUME NEW d \in Dirs
      PROVE  Names(d)' \subseteq FileNames /\ \A n \in Names(d)' : disk'[d][n] \in Saved
  <2>1. CASE d = d0
    BY <1>2, <2>1 DEF Filed
  <2>2. CASE d # d0
    BY <1>3, <2>2 DEF Filed, Names
  <2> QED
    BY <2>1, <2>2
<1> QED
  BY <1>2, <1>3, <1>4 DEF Filed

\* Removing a file changes nothing else.
LEMMA UnlinkEffect ==
  ASSUME Filed, NEW d0 \in Dirs, Unlink(d0)
  PROVE  Filed' /\ \A d \in Dirs \ {d0} : disk'[d] = disk[d]
<1>1. PICK name \in Names(d0) : disk' = [disk EXCEPT ![d0] = Restrict(disk[d0], Names(d0) \ {name})]
  BY DEF Unlink
<1>2. disk'[d0] = [n \in Names(d0) \ {name} |-> disk[d0][n]]
  BY <1>1 DEF Filed, Restrict
<1>3. DOMAIN disk' = Dirs /\ \A d \in Dirs \ {d0} : disk'[d] = disk[d]
  BY <1>1 DEF Filed
<1>4. ASSUME NEW d \in Dirs
      PROVE  Names(d)' \subseteq FileNames /\ \A n \in Names(d)' : disk'[d][n] \in Saved
  <2>1. CASE d = d0
    BY <1>2, <2>1 DEF Filed, Names
  <2>2. CASE d # d0
    BY <1>3, <2>2 DEF Filed, Names
  <2> QED
    BY <2>1, <2>2
<1> QED
  BY <1>3, <1>4 DEF Filed

\* A directory whose files stay is as closed and as whole as it was.
LEMMA Untouched ==
  ASSUME NEW d, disk'[d] = disk[d]
  PROVE  /\ Names(d)' = Names(d)
         /\ Closed(d)' <=> Closed(d)
         /\ Whole(d)' <=> Whole(d)
  BY DEF Names, Closed, Whole

-------------------------------------------------------------------------------
(* Typing *)

\* A file that was cut off holds no step; no file holds a step after the last.
LEMMA Contents ==
  /\ LastStep \in Nat \ {0} /\ SaveIntervals \subseteq Nat \ {0}
  /\ Partial \in Saved
  /\ \A m \in Memories : m.model \in Saved /\ m.optimizer \in Saved /\ m.state \in Saved
                        /\ StepIn(m) \in 0..LastStep
  /\ \A i \in 1..4 : SaveOrder[i] \in FileNames
  /\ DOMAIN SaveOrder = 1..4
  BY DenseAssumption DEF Partial, Saved, Memories, StepIn, SaveOrder, FileNames

\* A fresh output directory has the types.
LEMMA InitTyped == DenseInit => DenseTypeOK
<1> SUFFICES ASSUME DenseInit
             PROVE  DenseTypeOK
  OBVIOUS
<1>1. Filed
  BY DEF DenseInit, Filed, NoFiles, Names
<1>2. mem \in Memories
  BY Contents DEF DenseInit, Memories, Memory
<1> QED
  BY <1>1, <1>2, Contents DEF DenseInit, DenseTypeOK, Saving

\* What a launch has in memory has the types.
LEMMA LaunchTyped ==
  ASSUME DenseTypeOK, NEW m \in Memories, Launched(m)
  PROVE  DenseTypeOK'
<1>1. Filed'
  BY DEF DenseTypeOK, Launched, Filed, Names
<1> QED
  BY <1>1 DEF DenseTypeOK, Launched, Saving

\* What a step or the end of the training has in memory is saved in a step's directory.
LEMMA TrainTyped == DenseTypeOK /\ (DenseStep \/ SaveAtEnd) => DenseTypeOK'
<1> SUFFICES ASSUME DenseTypeOK, DenseStep \/ SaveAtEnd
             PROVE  DenseTypeOK'
  OBVIOUS
<1>1. StepIn(mem) \in 0..LastStep
  BY Contents DEF DenseTypeOK
<1>2. Filed'
  BY DEF DenseTypeOK, DenseStep, SaveAtEnd, StartSave, Filed, Names
<1>3. CASE DenseStep
  <2> DEFINE trained == [launch |-> launches, step |-> StepIn(mem) + 1]
  <2>1. trained \in Saved
    BY <1>1, <1>3, Contents DEF DenseStep, DenseTypeOK, Saved
  <2>2. mem' = Memory(trained, trained, trained)
    BY <1>3 DEF DenseStep
  <2>3. mem' \in Memories /\ StepIn(mem') = StepIn(mem) + 1
    BY <2>1, <2>2 DEF Memories, Memory, StepIn
  <2>4. /\ doing' \in {"train", "save"} /\ next' \in 1..5
        /\ UNCHANGED <<save_interval, launches, crashes, cut, misled>>
        /\ doing = "train"
    BY <1>3 DEF DenseStep, StartSave, DenseTypeOK
  <2> QED
    BY <1>1, <1>2, <2>3, <2>4 DEF DenseTypeOK, Saving
<1>4. CASE SaveAtEnd
  BY <1>1, <1>2, <1>4, Contents DEF SaveAtEnd, StartSave, DenseTypeOK, Saving
<1> QED
  BY <1>3, <1>4

\* The save and the copy write files of the types into the directories there are.
LEMMA SaveTyped == DenseTypeOK /\ (SaveFile \/ EndSave) => DenseTypeOK'
<1> SUFFICES ASSUME DenseTypeOK, SaveFile \/ EndSave
             PROVE  DenseTypeOK'
  OBVIOUS
<1>1. CASE EndSave
  <2>1. Filed'
    BY <1>1 DEF DenseTypeOK, EndSave, Filed, Names
  <2> QED
    BY <1>1, <2>1 DEF EndSave, DenseTypeOK, Saving
<1>2. CASE SaveFile
  <2> DEFINE name == SaveOrder[next]
  <2>1. StepIn(mem) \in 1..LastStep /\ Dir \in Dirs
    BY <1>2, Contents, Directories DEF SaveFile, DenseTypeOK, Saving, Dir
  <2>2. next \in 1..4 /\ name \in FileNames
    BY <1>2, Contents DEF SaveFile
  <2>3. Content(name) \in Saved
    <3>1. name = "_SUCCESS" => Content(name) = mem.state
      BY DEF Content
    <3>2. name # "_SUCCESS" => Content(name) = mem[name] /\ name \in {"model", "optimizer", "state"}
      BY <2>2 DEF Content, FileNames
    <3> QED
      BY <3>1, <3>2, Contents DEF DenseTypeOK
  <2>4. \/ Put(Dir, name, Content(name)) /\ next' = next + 1
        \/ Put(Dir, name, Partial) /\ UNCHANGED next
    BY <1>2 DEF SaveFile, Dir
  <2>5. Filed'
    BY <2>1, <2>2, <2>3, <2>4, PutEffect, Contents DEF DenseTypeOK
  <2>6. next' \in 1..5
    BY <2>2, <2>4
  <2> QED
    BY <1>2, <2>5, <2>6 DEF SaveFile, DenseTypeOK, Saving
<1> QED
  BY <1>1, <1>2

\* So do the steps of update_latest, and a crash leaves the files alone.
LEMMA UpdateTyped == DenseTypeOK /\ (ClearTmp \/ CopyFile \/ ReplaceLatest \/ DenseCrash) => DenseTypeOK'
<1> SUFFICES ASSUME DenseTypeOK, ClearTmp \/ CopyFile \/ ReplaceLatest \/ DenseCrash
             PROVE  DenseTypeOK'
  OBVIOUS
<1>1. Tmp \in Dirs /\ Latest \in Dirs /\ Dir # Tmp /\ Dir # Latest /\ Tmp # Latest
  BY Directories DEF Dir
<1>2. doing # "down" /\ doing \in Saving => Dir \in Kept /\ Dir \in Dirs
  BY Contents, Directories DEF DenseTypeOK, Dir
<1>3. CASE ClearTmp
  <2>1. Filed'
    BY <1>1, <1>3, UnlinkEffect DEF ClearTmp, DenseTypeOK, Filed, Names
  <2>2. doing' = "copy" => Names(Tmp)' \subseteq Names(Dir)'
    BY <1>3 DEF ClearTmp, Becomes, process, Names
  <2> QED
    BY <1>3, <2>1, <2>2 DEF ClearTmp, Becomes, Rest, process, DenseTypeOK, Saving
<1>4. CASE CopyFile
  <2>1. Dir \in Dirs /\ Names(Tmp) \subseteq Names(Dir)
    BY <1>2, <1>4 DEF CopyFile, DenseTypeOK, Saving
  <2>2. CASE \E name \in Names(Dir) :
               /\ Put(Tmp, name, disk[Dir][name]) \/ Put(Tmp, name, Partial)
               /\ UNCHANGED process
    <3>1. PICK name \in Names(Dir) :
                 /\ Put(Tmp, name, disk[Dir][name]) \/ Put(Tmp, name, Partial)
                 /\ UNCHANGED process
      BY <2>2
    <3>2. name \in FileNames /\ disk[Dir][name] \in Saved
      BY <2>1 DEF DenseTypeOK, Filed
    <3>3. Filed' /\ Names(Tmp)' = Names(Tmp) \cup {name} /\ disk'[Dir] = disk[Dir]
      BY <1>1, <2>1, <3>1, <3>2, PutEffect, Contents DEF DenseTypeOK
    <3>4. Dir' = Dir /\ Names(Dir)' = Names(Dir)
      BY <3>1, <3>3 DEF process, Dir, Names, StepIn
    <3> QED
      BY <1>4, <2>1, <3>1, <3>3, <3>4 DEF CopyFile, Rest, process, DenseTypeOK, Saving
  <2>3. CASE Becomes("replace") /\ UNCHANGED disk
    <3>1. Filed'
      BY <2>3 DEF DenseTypeOK, Filed, Names
    <3> QED
      BY <1>4, <2>3, <3>1 DEF CopyFile, Becomes, Rest, DenseTypeOK, Saving
  <2> QED
    BY <1>4, <2>1, <2>2, <2>3 DEF CopyFile, Dir, Names
<1>5. CASE ReplaceLatest
  <2>1. CASE Unlink(Latest) /\ UNCHANGED <<process, cut>>
    <3>1. Filed'
      BY <1>1, <2>1, UnlinkEffect DEF DenseTypeOK
    <3> QED
      BY <1>5, <2>1, <3>1 DEF ReplaceLatest, Rest, process, DenseTypeOK, Saving
  <2>2. CASE /\ disk' = [disk EXCEPT ![Latest] = disk[Tmp], ![Tmp] = NoFiles]
             /\ cut' = cut \ {Latest}
             /\ Becomes(IF final THEN "down" ELSE "train")
    <3>1. /\ DOMAIN disk' = Dirs /\ disk'[Latest] = disk[Tmp] /\ disk'[Tmp] = NoFiles
          /\ \A d \in Dirs \ {Latest, Tmp} : disk'[d] = disk[d]
      BY <1>1, <2>2 DEF DenseTypeOK, Filed
    <3>2. Filed'
      BY <1>1, <3>1 DEF DenseTypeOK, Filed, Names, NoFiles
    <3>3. doing' \in {"down", "train"} /\ UNCHANGED <<mem, final, next, over>>
      BY <2>2 DEF Becomes
    <3> QED
      BY <1>5, <2>2, <3>2, <3>3 DEF ReplaceLatest, Rest, DenseTypeOK, Saving
  <2> QED
    BY <1>5, <2>1, <2>2 DEF ReplaceLatest
<1>6. CASE DenseCrash
  <2>1. Filed'
    BY <1>6 DEF DenseCrash, DenseTypeOK, Filed, Names
  <2>2. cut' \subseteq Kept
    BY <1>2, <1>6, Directories DEF DenseCrash, DenseTypeOK, Saving, Dir
  <2> QED
    BY <1>6, <2>1, <2>2 DEF DenseCrash, DenseTypeOK, Saving
<1> QED
  BY <1>3, <1>4, <1>5, <1>6

-------------------------------------------------------------------------------
(* Consistency: one lemma for the actions that leave the files alone, one for  *)
(* each that writes or removes some                                            *)

\* A fresh output directory is consistent: nothing is closed.
LEMMA InitConsistent == DenseInit => Consistent
<1> SUFFICES ASSUME DenseInit
             PROVE  Consistent
  OBVIOUS
<1>1. \A d \in Kept : ~Closed(d)
  BY Directories DEF DenseInit, Closed, Names, NoFiles
<1> QED
  BY <1>1 DEF DenseInit, Consistent, MemoryUniform, Settled, SaveInOrder, CopyInOrder,
              LatestKept, OneKept

\* A launch, fresh or from a whole checkpoint, has one state in memory and leaves the
\* files alone.
LEMMA LaunchConsistent ==
  ASSUME DenseTypeOK, Consistent, NEW m, Launched(m),
         m.optimizer = m.model, m.state = m.model, m.model # Partial
  PROVE  Consistent'
<1>1. \A d : Closed(d)' <=> Closed(d)
  BY Untouched DEF Launched
<1>2. \A d : Whole(d)' <=> Whole(d)
  BY Untouched DEF Launched
<1>3. MemoryUniform'
  BY DEF Launched, MemoryUniform
<1>4. Settled'
  BY <1>1, <1>2 DEF Launched, Consistent, Settled, Rewritten
<1>5. LatestKept' /\ OneKept'
  BY <1>1, <1>2 DEF Launched, Consistent, LatestKept, OneKept
<1> QED
  BY <1>3, <1>4, <1>5 DEF Launched, Consistent, SaveInOrder, CopyInOrder

\* The state in memory after a launch on a fresh directory, and after one from a whole
\* checkpoint.
LEMMA LaunchUniform ==
  /\ Launch /\ DenseTypeOK /\ Consistent => Consistent'
  /\ \A d \in Kept : ResumeFrom(d) /\ Whole(d) /\ DenseTypeOK /\ Consistent => Consistent'
<1>1. ASSUME Launch, DenseTypeOK, Consistent
      PROVE  Consistent'
  <2> DEFINE m == Memory(Fresh, Fresh, Fresh)
  <2>1. m.model = Fresh /\ m.optimizer = Fresh /\ m.state = Fresh
    BY DEF Memory
  <2>2. Fresh # Partial
    BY <1>1 DEF Fresh, Partial, DenseTypeOK
  <2> QED
    BY <1>1, <2>1, <2>2, LaunchConsistent DEF Launch
<1>2. ASSUME NEW d \in Kept, ResumeFrom(d), Whole(d), DenseTypeOK, Consistent
      PROVE  Consistent'
  <2> DEFINE m == Memory(disk[d]["model"],
                         IF "optimizer" \in Names(d) THEN disk[d]["optimizer"] ELSE Fresh,
                         disk[d]["state"])
  <2>1. m.model = disk[d]["model"] /\ m.optimizer = disk[d]["optimizer"]
        /\ m.state = disk[d]["state"]
    BY <1>2 DEF Memory, Whole, FileNames
  <2>2. /\ disk[d]["model"] # Partial /\ disk[d]["optimizer"] = disk[d]["model"]
        /\ disk[d]["state"] = disk[d]["model"]
    BY <1>2 DEF Whole
  <2> QED
    BY <1>2, <2>1, <2>2, LaunchConsistent DEF ResumeFrom
<1> QED
  BY <1>1, <1>2

\* A step puts one state in memory; the save that it or the end starts is of that step,
\* and is over if its directory is closed.
LEMMA TrainConsistent == DenseTypeOK /\ Consistent /\ (DenseStep \/ SaveAtEnd) => Consistent'
<1> SUFFICES ASSUME DenseTypeOK, Consistent, DenseStep \/ SaveAtEnd
             PROVE  Consistent'
  OBVIOUS
<1>1. /\ doing = "train" /\ doing' \in {"train", "save"} /\ UNCHANGED <<disk, crashes, cut>>
      /\ doing' = "save" => next' = 1 /\ (over' <=> Closed(Dir'))
      /\ Dir' \in Kept
  <2>1. CASE DenseStep
    <3>1. StepIn(mem) + 1 \in 1..LastStep
      BY <2>1, Contents DEF DenseStep, DenseTypeOK
    <3>2. Dir' = StepDir(StepIn(mem) + 1)
      BY <2>1 DEF DenseStep, Dir, StepIn, Memory
    <3> QED
      BY <2>1, <3>1, <3>2, Directories DEF DenseStep, StartSave, Closed
  <2>2. CASE SaveAtEnd
    <3>1. Dir' = StepDir(LastStep) /\ LastStep \in 1..LastStep
      BY <2>2, Contents DEF SaveAtEnd, Dir
    <3> QED
      BY <2>2, <3>1, Directories DEF SaveAtEnd, StartSave, Closed
  <2> QED
    BY <2>1, <2>2
<1>2. /\ mem'.optimizer = mem'.model /\ mem'.state = mem'.model
      /\ mem'.model # Partial
  <2>1. CASE DenseStep
    BY <2>1 DEF DenseStep, Memory, Partial, DenseTypeOK
  <2>2. CASE SaveAtEnd
    BY <2>2 DEF SaveAtEnd, Consistent, MemoryUniform
  <2> QED
    BY <2>1, <2>2
<1>3. \A d : Closed(d)' <=> Closed(d)
  BY <1>1, Untouched
<1>4. \A d : Whole(d)' <=> Whole(d)
  BY <1>1, Untouched
<1>5. MemoryUniform'
  BY <1>2 DEF MemoryUniform
<1>6. Settled'
  BY <1>1, <1>3, <1>4 DEF Consistent, Settled, Rewritten
<1>7. SaveInOrder'
  BY <1>1, <1>3 DEF SaveInOrder
<1>8. LatestKept'
  BY <1>1, <1>3, <1>4 DEF Consistent, LatestKept
<1>9. OneKept' /\ CopyInOrder'
  BY <1>1, <1>3, <1>4 DEF Consistent, OneKept, CopyInOrder
<1> QED
  BY <1>5, <1>6, <1>7, <1>8, <1>9 DEF Consistent

\* The save touches its directory only: what it has behind it is of the state in memory,
\* and _SUCCESS, where none was, comes last.
LEMMA SaveConsistent == DenseTypeOK /\ Consistent /\ SaveFile => Consistent'
<1> SUFFICES ASSUME DenseTypeOK, Consistent, SaveFile
             PROVE  Consistent'
  OBVIOUS
<1> DEFINE name == SaveOrder[next]
<1>1. /\ doing = "save" /\ next \in 1..4 /\ name \in FileNames
      /\ UNCHANGED <<doing, mem, over, crashes, cut>>
  BY Contents DEF SaveFile
<1>2. Dir \in Kept /\ Dir \in Dirs /\ Dir # Latest /\ Dir' = Dir
  BY <1>1, Contents, Directories DEF DenseTypeOK, Saving, Dir
<1>3. mem.optimizer = mem.model /\ mem.state = mem.model /\ mem.model # Partial
      /\ mem.model \in Saved
  BY <1>1, Contents DEF Consistent, MemoryUniform, DenseTypeOK
<1>4. Content(name) = mem.model
  BY <1>1, <1>3 DEF Content, SaveOrder
<1>5. \/ Put(Dir, name, mem.model) /\ next' = next + 1 /\ name \in Names(Dir)
      \/ /\ Put(Dir, name, Partial) /\ UNCHANGED next
         /\ ~(name \in Names(Dir) /\ disk[Dir][name] = Partial)
  BY <1>4 DEF SaveFile, Dir
<1>6. /\ Names(Dir)' = Names(Dir) \cup {name}
      /\ \A n \in Names(Dir) \ {name} : disk'[Dir][n] = disk[Dir][n]
      /\ \A d \in Dirs \ {Dir} : disk'[d] = disk[d]
      /\ next' = next + 1 => disk'[Dir][name] = mem.model
  BY <1>1, <1>2, <1>3, <1>5, PutEffect, Contents DEF DenseTypeOK
<1>7. \A d \in Kept \ {Dir} : (Closed(d)' <=> Closed(d)) /\ (Whole(d)' <=> Whole(d))
  BY <1>6, Untouched, Directories
<1>8. MemoryUniform'
  BY <1>1, <1>3 DEF MemoryUniform
<1>9. Settled'
  BY <1>1, <1>2, <1>7 DEF Consistent, Settled, Rewritten
<1>10. SaveInOrder'
  <2>1. ASSUME NEW i \in 1..4, i < next'
        PROVE  SaveOrder[i] \in Names(Dir)' /\ disk'[Dir][SaveOrder[i]] = mem.model
    <3>1. CASE i < next
      <4>1. SaveOrder[i] \in Names(Dir) /\ disk[Dir][SaveOrder[i]] = mem.model
        BY <1>1, <3>1 DEF Consistent, SaveInOrder
      <4>2. SaveOrder[i] # name
        BY <1>1, <3>1 DEF SaveOrder
      <4> QED
        BY <1>6, <4>1, <4>2
    <3>2. CASE ~(i < next)
      <4>1. i = next /\ next' = next + 1
        BY <1>1, <1>5, <2>1, <3>2
      <4> QED
        BY <1>6, <4>1
    <3> QED
      BY <3>1, <3>2
  <2>2. ASSUME ~over, "_SUCCESS" \in Names(Dir)'
        PROVE  next' >= 4
    <3>1. CASE name = "_SUCCESS"
      BY <1>1, <1>5, <3>1 DEF SaveOrder
    <3>2. CASE name # "_SUCCESS"
      <4>1. Closed(Dir)
        BY <1>6, <2>2, <3>2 DEF Closed
      <4>2. next >= 4
        BY <1>1, <2>2, <4>1 DEF Consistent, SaveInOrder
      <4> QED
        BY <1>1, <1>5, <4>2
    <3> QED
      BY <3>1, <3>2
  <2> QED
    BY <1>1, <1>2, <2>1, <2>2 DEF SaveInOrder, Closed, Names
<1>11. LatestKept'
  BY <1>1, <1>2, <1>7, Directories DEF Consistent, LatestKept
<1> QED
  BY <1>1, <1>8, <1>9, <1>10, <1>11 DEF Consistent, CopyInOrder, OneKept

\* A save that has come to its end has written a whole checkpoint, over whatever was there.
LEMMA EndConsistent == DenseTypeOK /\ Consistent /\ EndSave => Consistent'
<1> SUFFICES ASSUME DenseTypeOK, Consistent, EndSave
             PROVE  Consistent'
  OBVIOUS
<1>1. /\ doing = "save" /\ doing' = "clear" /\ next = 5
      /\ UNCHANGED <<disk, mem, crashes>> /\ cut' = cut \ {Dir}
  BY Contents DEF EndSave, Dir, DenseTypeOK
<1>2. Dir \in Kept /\ Dir \in Dirs /\ Dir' = Dir
  BY <1>1, Contents, Directories DEF DenseTypeOK, Saving, Dir
<1>3. \A i \in 1..4 : SaveOrder[i] \in Names(Dir) /\ disk[Dir][SaveOrder[i]] = mem.model
  BY <1>1 DEF Consistent, SaveInOrder
<1>4. \A n \in FileNames : n \in Names(Dir) /\ disk[Dir][n] = mem.model
  BY <1>3 DEF SaveOrder, FileNames
<1>5. Names(Dir) = FileNames
  BY <1>2, <1>4 DEF DenseTypeOK, Filed
<1>6. Whole(Dir)
  BY <1>1, <1>4, <1>5 DEF Whole, FileNames, Consistent, MemoryUniform
<1>7. \A d : (Closed(d)' <=> Closed(d)) /\ (Whole(d)' <=> Whole(d))
  BY <1>1, Untouched
<1>8. Settled'
  BY <1>1, <1>6, <1>7 DEF Consistent, Settled, Rewritten
<1>9. CopyInOrder'
  BY <1>1, <1>2, <1>6, <1>7 DEF CopyInOrder
<1>10. LatestKept'
  BY <1>1 DEF Consistent, LatestKept
<1> QED
  BY <1>1, <1>8, <1>9, <1>10 DEF Consistent, MemoryUniform, SaveInOrder, OneKept

\* latest.tmp is emptied before the copy: the other directories stay.
LEMMA ClearConsistent == DenseTypeOK /\ Consistent /\ ClearTmp => Consistent'
<1> SUFFICES ASSUME DenseTypeOK, Consistent, ClearTmp
             PROVE  Consistent'
  OBVIOUS
<1>1. /\ doing = "clear" /\ UNCHANGED <<mem, crashes, cut>>
      /\ doing' = "clear" \/ (doing' = "copy" /\ Names(Tmp) = {} /\ UNCHANGED disk)
  BY DEF ClearTmp, Becomes, Rest, process
<1>2. Dir \in Kept /\ Dir' = Dir
  BY <1>1, Contents, Directories DEF DenseTypeOK, Saving, Dir
<1>3. \A d \in Kept : disk'[d] = disk[d]
  BY UnlinkEffect, Directories DEF ClearTmp, DenseTypeOK
<1>4. \A d \in Kept : (Closed(d)' <=> Closed(d)) /\ (Whole(d)' <=> Whole(d))
  BY <1>3, Untouched
<1>5. Settled'
  BY <1>1, <1>4 DEF Consistent, Settled, Rewritten
<1>6. Whole(Dir)'
  BY <1>1, <1>2, <1>4 DEF Consistent, CopyInOrder
<1>7. CopyInOrder'
  BY <1>1, <1>2, <1>6 DEF CopyInOrder, Names
<1> QED
  BY <1>1, <1>5, <1>7 DEF Consistent, MemoryUniform, SaveInOrder, LatestKept, OneKept

\* latest.tmp becomes a copy of the whole checkpoint: the other directories stay.
LEMMA CopyConsistent == DenseTypeOK /\ Consistent /\ CopyFile => Consistent'
<1> SUFFICES ASSUME DenseTypeOK, Consistent, CopyFile
             PROVE  Consistent'
  OBVIOUS
<1>1. doing = "copy" /\ UNCHANGED <<mem, crashes, cut>>
  BY DEF CopyFile, Becomes, Rest, process
<1>2. Dir \in Kept /\ Dir \in Dirs /\ Tmp \in Dirs /\ Dir # Tmp /\ Dir' = Dir
  BY <1>1, Contents, Directories DEF DenseTypeOK, Saving, Dir
<1>3. Whole(Dir) /\ \A n \in Names(Tmp) : n \in Names(Dir) /\ disk[Tmp][n] \in {Partial, disk[Dir][n]}
  BY <1>1 DEF Consistent, CopyInOrder, DenseTypeOK
<1>4. CASE \E name \in Names(Dir) :
             /\ Put(Tmp, name, disk[Dir][name]) \/ Put(Tmp, name, Partial)
             /\ UNCHANGED process
  <2>1. PICK name \in Names(Dir) :
               /\ Put(Tmp, name, disk[Dir][name]) \/ Put(Tmp, name, Partial)
               /\ UNCHANGED process
    BY <1>4
  <2>2. name \in FileNames /\ disk[Dir][name] \in Saved
    BY <1>2 DEF DenseTypeOK, Filed
  <2>3. /\ Names(Tmp)' = Names(Tmp) \cup {name}
        /\ disk'[Tmp][name] \in {Partial, disk[Dir][name]}
        /\ \A n \in Names(Tmp) \ {name} : disk'[Tmp][n] = disk[Tmp][n]
        /\ \A d \in Dirs \ {Tmp} : disk'[d] = disk[d]
    BY <1>2, <2>1, <2>2, PutEffect, Contents DEF DenseTypeOK
  <2>4. \A d \in Kept : (Closed(d)' <=> Closed(d)) /\ (Whole(d)' <=> Whole(d))
    BY <2>3, Untouched, Directories
  <2>5. \A n \in Names(Tmp)' : disk'[Tmp][n] \in {Partial, disk'[Dir][n]}
    BY <1>2, <1>3, <2>3
  <2>6. doing' = "copy"
    BY <1>1, <2>1 DEF process
  <2>7. CopyInOrder'
    BY <1>2, <1>3, <2>4, <2>5, <2>6 DEF CopyInOrder
  <2>8. Settled'
    BY <1>1, <2>4, <2>6 DEF Consistent, Settled, Rewritten
  <2> QED
    BY <1>1, <2>6, <2>7, <2>8 DEF Consistent, MemoryUniform, SaveInOrder, LatestKept, OneKept
<1>5. CASE /\ {name \in Names(Tmp) : disk[Tmp][name] = Partial} = {}
           /\ Names(Dir) = Names(Tmp)
           /\ Becomes("replace") /\ UNCHANGED disk
  <2>1. \A n \in Names(Tmp) : disk[Tmp][n] = disk[Dir][n]
    BY <1>3, <1>5
  <2>2. Whole(Tmp)
    BY <1>3, <1>5, <2>1 DEF Whole, FileNames
  <2>3. \A d : (Closed(d)' <=> Closed(d)) /\ (Whole(d)' <=> Whole(d))
    BY <1>5, Untouched
  <2>4. doing' = "replace"
    BY <1>5 DEF Becomes
  <2>5. CopyInOrder'
    BY <1>2, <1>3, <2>2, <2>3, <2>4 DEF CopyInOrder
  <2>6. Settled'
    BY <1>1, <2>3, <2>4 DEF Consistent, Settled, Rewritten
  <2> QED
    BY <1>1, <2>4, <2>5, <2>6 DEF Consistent, MemoryUniform, SaveInOrder, LatestKept, OneKept
<1> QED
  BY <1>3, <1>4, <1>5 DEF CopyFile, Dir, Names

\* latest is removed while the checkpoint and its copy are whole, and is whole again
\* after the copy was renamed.
LEMMA ReplaceConsistent == DenseTypeOK /\ Consistent /\ ReplaceLatest => Consistent'
<1> SUFFICES ASSUME DenseTypeOK, Consistent, ReplaceLatest
             PROVE  Consistent'
  OBVIOUS
<1>1. doing = "replace" /\ UNCHANGED <<mem, crashes>>
  BY DEF ReplaceLatest, Becomes, Rest, process
<1>2. /\ Dir \in Kept /\ Dir' = Dir /\ Dir # Latest /\ Dir # Tmp /\ Latest # Tmp
      /\ Latest \in Kept /\ Dirs = Kept \cup {Tmp}
  BY <1>1, Contents, Directories DEF DenseTypeOK, Saving, Dir
<1>3. Whole(Dir) /\ Whole(Tmp)
  BY <1>1 DEF Consistent, CopyInOrder
<1>4. CASE Unlink(Latest) /\ UNCHANGED <<process, cut>>
  <2>1. \A d \in Dirs \ {Latest} : disk'[d] = disk[d]
    BY <1>2, <1>4, UnlinkEffect DEF DenseTypeOK
  <2>2. \A d \in Dirs \ {Latest} : (Closed(d)' <=> Closed(d)) /\ (Whole(d)' <=> Whole(d))
    BY <2>1, Untouched
  <2>3. doing' = "replace"
    BY <1>1, <1>4 DEF process
  <2>4. Settled'
    BY <1>1, <1>2, <1>4, <2>2, <2>3 DEF Consistent, Settled, Rewritten
  <2>5. CopyInOrder'
    BY <1>2, <1>3, <2>2, <2>3 DEF CopyInOrder
  <2>6. LatestKept'
    BY <1>1, <1>4, <2>3 DEF Consistent, LatestKept
  <2> QED
    BY <1>1, <2>3, <2>4, <2>5, <2>6 DEF Consistent, MemoryUniform, SaveInOrder, OneKept
<1>5. CASE /\ disk' = [disk EXCEPT ![Latest] = disk[Tmp], ![Tmp] = NoFiles]
           /\ cut' = cut \ {Latest}
           /\ Becomes(IF final THEN "down" ELSE "train")
  <2>1. /\ disk'[Latest] = disk[Tmp]
        /\ \A d \in Kept \ {Latest} : disk'[d] = disk[d]
    BY <1>2, <1>5, Directories DEF DenseTypeOK, Filed
  <2>2. Whole(Latest)'
    BY <1>3, <2>1 DEF Whole, Names
  <2>3. \A d \in Kept \ {Latest} : (Closed(d)' <=> Closed(d)) /\ (Whole(d)' <=> Whole(d))
    BY <2>1, Untouched
  <2>4. doing' \in {"down", "train"}
    BY <1>5 DEF Becomes
  <2>5. Settled'
    BY <1>1, <1>5, <2>2, <2>3, <2>4 DEF Consistent, Settled, Rewritten
  <2>6. LatestKept'
    BY <1>1, <1>5, <2>2, <2>4 DEF Consistent, LatestKept
  <2>7. OneKept'
    BY <1>2, <2>2 DEF OneKept
  <2> QED
    BY <1>1, <2>4, <2>5, <2>6, <2>7 DEF Consistent, MemoryUniform, SaveInOrder, CopyInOrder
<1> QED
  BY <1>4, <1>5 DEF ReplaceLatest

\* A crash leaves the files alone.  One that finds a finished checkpoint half written or
\* half removed cuts it; any other finds each closed checkpoint whole.
LEMMA CrashConsistent == DenseTypeOK /\ Consistent /\ DenseCrash => Consistent'
<1> SUFFICES ASSUME DenseTypeOK, Consistent, DenseCrash
             PROVE  Consistent'
  OBVIOUS
<1>1. /\ doing # "down" /\ doing' = "down" /\ crashes' = crashes + 1 /\ crashes \in Nat
      /\ UNCHANGED <<disk, mem, over>>
      /\ cut' = cut \cup (IF doing = "save" /\ over THEN {Dir} ELSE {})
                    \cup (IF doing = "replace" THEN {Latest} ELSE {})
  BY DEF DenseCrash, Dir, DenseTypeOK
<1>2. \A d : (Closed(d)' <=> Closed(d)) /\ (Whole(d)' <=> Whole(d))
  BY <1>1, Untouched
<1>3. doing \in Saving => Dir \in Kept
  BY Contents, Directories DEF DenseTypeOK, Saving, Dir
<1>4. doing = "save" /\ ~over /\ Closed(Dir) => Whole(Dir)
  <2> SUFFICES ASSUME doing = "save", ~over, Closed(Dir)
               PROVE  Whole(Dir)
    OBVIOUS
  <2>1. next >= 4 /\ next \in 1..5 /\ Dir \in Dirs
    BY <1>3, Directories DEF Consistent, SaveInOrder, DenseTypeOK, Saving
  <2>2. \A i \in 1..3 : SaveOrder[i] \in Names(Dir) /\ disk[Dir][SaveOrder[i]] = mem.model
    BY <2>1 DEF Consistent, SaveInOrder
  <2>3. \A n \in {"model", "optimizer", "state"} : n \in Names(Dir) /\ disk[Dir][n] = mem.model
    <3>1. SaveOrder[1] = "model" /\ SaveOrder[2] = "optimizer" /\ SaveOrder[3] = "state"
      BY DEF SaveOrder
    <3> QED
      BY <2>2, <3>1
  <2>4. Names(Dir) = FileNames
    BY <2>1, <2>3 DEF DenseTypeOK, Filed, FileNames, Closed
  <2> QED
    BY <1>1, <2>3, <2>4 DEF Whole, Consistent, MemoryUniform
<1>5. Settled'
  <2> SUFFICES ASSUME NEW d \in Kept, d \notin cut', Closed(d)
               PROVE  Whole(d)
    BY <1>1, <1>2 DEF Settled, Rewritten
  <2>1. CASE Rewritten(d)
    BY <1>1, <1>4, <2>1 DEF Rewritten
  <2>2. CASE ~Rewritten(d)
    BY <1>1, <2>2 DEF Consistent, Settled
  <2> QED
    BY <2>1, <2>2
<1>6. LatestKept'
  BY <1>1 DEF LatestKept
<1>7. OneKept'
  <2> SUFFICES ASSUME crashes = 0, NEW c \in Kept, Closed(c)
               PROVE  \E d \in Kept : Whole(d)
    BY <1>1, <1>2 DEF OneKept
  <2>1. CASE doing = "train"
    BY <2>1, Directories DEF Consistent, LatestKept
  <2>2. CASE doing = "save"
    <3>1. CASE over \/ c # Dir
      BY <2>2, <3>1, Directories DEF Consistent, LatestKept
    <3>2. CASE ~over /\ c = Dir
      BY <1>4, <2>2, <3>2
    <3> QED
      BY <3>1, <3>2
  <2>3. CASE doing \in {"clear", "copy", "replace"}
    BY <1>3, <2>3 DEF Saving, Consistent, CopyInOrder
  <2> QED
    BY <1>1, <2>1, <2>2, <2>3 DEF DenseTypeOK, Saving
<1> QED
  BY <1>1, <1>5, <1>6, <1>7 DEF Consistent, MemoryUniform, SaveInOrder, CopyInOrder

-------------------------------------------------------------------------------
(* The theorems *)

\* The inductive invariant holds at first.
LEMMA DenseInitInvariant == DenseInit => DenseInv
  BY InitTyped, InitConsistent DEF DenseInv

\* Every step keeps it.
LEMMA DenseNextInvariant == DenseInv /\ [DenseNext]_denseVars => DenseInv'
<1> SUFFICES ASSUME DenseInv, [DenseNext]_denseVars
             PROVE  DenseTypeOK' /\ (~misled' => Consistent')
  BY DEF DenseInv
<1>1. DenseTypeOK
  BY DEF DenseInv
<1>2. CASE Launch
  <2>1. Memory(Fresh, Fresh, Fresh) \in Memories
    BY <1>1, Contents DEF Memory, Memories, Fresh, Saved, DenseTypeOK
  <2> QED
    BY <1>1, <1>2, <2>1, LaunchTyped, LaunchUniform DEF Launch, DenseInv
<1>3. ASSUME NEW d \in Kept, ResumeFrom(d)
      PROVE  DenseTypeOK' /\ (~misled' => Consistent')
  <2> DEFINE m == Memory(disk[d]["model"],
                         IF "optimizer" \in Names(d) THEN disk[d]["optimizer"] ELSE Fresh,
                         disk[d]["state"])
  <2>1. /\ disk[d]["model"] \in Saved /\ disk[d]["state"] \in Saved
        /\ "optimizer" \in Names(d) => disk[d]["optimizer"] \in Saved
        /\ Fresh \in Saved
    BY <1>1, <1>3, Directories, Contents
       DEF ResumeFrom, Loads, Readable, DenseTypeOK, Filed, Fresh, Saved
  <2>2. m \in Memories
    BY <2>1 DEF Memory, Memories
  <2>3. ~misled' => ~misled /\ Whole(d)
    BY <1>3 DEF ResumeFrom
  <2> QED
    BY <1>1, <1>3, <2>2, <2>3, LaunchTyped, LaunchUniform DEF ResumeFrom, DenseInv
<1>4. CASE DenseStep \/ SaveAtEnd
  BY <1>1, <1>4, TrainTyped, TrainConsistent DEF DenseInv, DenseStep, SaveAtEnd
<1>5. CASE SaveFile \/ EndSave
  BY <1>1, <1>5, SaveTyped, SaveConsistent, EndConsistent DEF DenseInv, SaveFile, EndSave
<1>6. CASE ClearTmp \/ CopyFile \/ ReplaceLatest
  BY <1>1, <1>6, UpdateTyped, ClearConsistent, CopyConsistent, ReplaceConsistent
     DEF DenseInv, ClearTmp, CopyFile, ReplaceLatest, Rest
<1>7. CASE DenseCrash
  BY <1>1, <1>7, UpdateTyped, CrashConsistent DEF DenseInv, DenseCrash
<1>8. CASE UNCHANGED denseVars
  <2>1. \A d : (Closed(d)' <=> Closed(d)) /\ (Whole(d)' <=> Whole(d))
    BY <1>8, Untouched DEF denseVars
  <2>2. DenseTypeOK'
    BY <1>1, <1>8 DEF denseVars, DenseTypeOK, Filed, Names, Dir
  <2>3. Consistent <=> Consistent'
    BY <1>8 DEF denseVars, Consistent, MemoryUniform, Settled, Rewritten, SaveInOrder,
                CopyInOrder, LatestKept, OneKept, Closed, Whole, Names, Dir
  <2> QED
    BY <1>8, <2>2, <2>3 DEF DenseInv, denseVars
<1> QED
  BY <1>2, <1>3, <1>4, <1>5, <1>6, <1>7, <1>8 DEF DenseNext

\* In every run the files and the memory are consistent, until one is misled.
THEOREM Consistency == DenseSpec => []DenseInv
<1>1. DenseInit => DenseInv
  BY DenseInitInvariant
<1>2. DenseInv /\ [DenseNext]_denseVars => DenseInv'
  BY DenseNextInvariant
<1> QED
  BY <1>1, <1>2, PTL DEF DenseSpec

\* What load_checkpoint takes for complete and can read is one save, for any number of
\* steps, intervals, launches and crashes: but for what a crash has cut.
THEOREM LoadedWhole == DenseSpec => []LoadedIsWhole
<1>1. DenseInv => LoadedIsWhole
  BY DEF DenseInv, Consistent, Settled, Rewritten, LoadedIsWhole, Loads, Closed
<1> QED
  BY <1>1, Consistency, PTL

\* A single crash, wherever it comes, leaves a whole checkpoint if there was one.
THEOREM CheckpointKept == DenseSpec => []CrashKeepsCheckpoint
<1>1. DenseInv => CrashKeepsCheckpoint
  BY DEF DenseInv, Consistent, OneKept, CrashKeepsCheckpoint, Closed
<1> QED
  BY <1>1, Consistency, PTL
===============================================================================
