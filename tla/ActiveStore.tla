---------------------------- MODULE ActiveStore ----------------------------
(***************************************************************************)
(* Training on a copy: perkunasv2/shard_store.py with --active-run-dir.    *)
(* The working copy of a run directory is on fast, usually volatile        *)
(* storage; it is seeded from the durable run directory when there is none *)
(* and copied back to it every few steps.  Both copies go file by file,    *)
(* each file by an atomic replacement, in the order os.walk finds the      *)
(* files.                                                                  *)
(*                                                                         *)
(* A file is abstracted to the number of updates (or, for                  *)
(* trainer_state.json, of steps) it stands for.  A training step is one    *)
(* action: module ShardTransaction takes it apart.  All processes of a     *)
(* behaviour use the same pair of directories.                             *)
(***************************************************************************)
EXTENDS Naturals

CONSTANTS
  NumShards,
  MaxSteps,
  FlushEvery,  \* durable_flush_every, or save_every when that is 0
  MaxFaults,   \* bound of the model: crashes and power losses in a behaviour
  NoFile

ASSUME StoreAssumption == NumShards \in Nat \ {0} /\ MaxSteps \in Nat
ASSUME FlushAssumption == FlushEvery \in Nat \ {0} /\ MaxFaults \in Nat
ASSUME NoFileAssumption == NoFile \notin Nat

\* trainer_state.json stands for all files of the run directory itself (config.json is
\* one of them), shards/metadata.json is alone in its directory, and shards/params and
\* shards/optim have a file per shard.
Record == [dir |-> "run", no |-> 1]
Metadata == [dir |-> "shards", no |-> 1]
Params == [dir : {"params"}, no : 1..NumShards]
Optims == [dir : {"optim"}, no : 1..NumShards]
Files == {Record, Metadata} \cup Params \cup Optims

VARIABLES
  durable, active,  \* the two run directories: path -> file
  published,        \* published_step of durable_flush_manifest.json
  pc, step,         \* the trainer process and its global_step
  todo,             \* files the copy under way has still to visit
  faults,
  durableTorn, activeTorn  \* history: the directory holds part of a copy

vars == <<durable, active, published, pc, step, todo, faults, durableTorn, activeTorn>>

Running == {"seed", "resume", "train", "flush"}
Stopped == {"refused", "unloadable", "done"}

TypeOK ==
  /\ durable \in [Files -> Nat \cup {NoFile}]
  /\ active \in [Files -> Nat \cup {NoFile}]
  /\ published \in 0..MaxSteps /\ step \in 0..MaxSteps
  /\ pc \in {"down"} \cup Running \cup Stopped
  /\ todo \subseteq Files
  /\ faults \in 0..MaxFaults
  /\ durableTorn \in BOOLEAN /\ activeTorn \in BOOLEAN

Nothing == [f \in Files |-> NoFile]
Existing(store) == {f \in Files : store[f] # NoFile}

\* initialize_run has made the durable directory; there is no active one yet.
Init ==
  /\ durable = [f \in Files |-> IF f \in Optims THEN NoFile ELSE 0]
  /\ active = Nothing
  /\ published = 0 /\ pc = "down" /\ step = 0 /\ todo = {} /\ faults = 0
  /\ durableTorn = FALSE /\ activeTorn = FALSE

-----------------------------------------------------------------------------
\* copy_run_tree_atomic walks top down: a directory's files before its subdirectories,
\* the files of one directory in any order, and params and optim one after the other.
Depth(f) == CASE f = Record -> 1 [] f = Metadata -> 2 [] OTHER -> 3
Walkable(f, source) ==
  /\ f \in todo
  /\ \A g \in todo : Depth(f) <= Depth(g)
  /\ \A g \in Existing(source) \ todo :
       Depth(g) = 3 /\ g.dir # f.dir => \A h \in todo : h.dir = f.dir

\* Mutant of Prepare: config.json alone tells that the active directory is a copy.
PrepareByConfig ==
  /\ pc = "down"
  /\ IF active[Record] # NoFile
     THEN pc' = "resume" /\ todo' = {}
     ELSE pc' = "seed" /\ todo' = Existing(durable)
  /\ UNCHANGED <<durable, active, published, step, faults, durableTorn, activeTorn>>
\* _prepare_active_store_from_durable: an active directory that has config.json and
\* metadata.json is used as it is; otherwise the durable one is copied over it.
Prepare ==
  /\ pc = "down"
  /\ IF active[Record] # NoFile /\ active[Metadata] # NoFile
     THEN pc' = "resume" /\ todo' = {}
     ELSE pc' = "seed" /\ todo' = Existing(durable)
  /\ UNCHANGED <<durable, active, published, step, faults, durableTorn, activeTorn>>

SeedFile(f) ==
  /\ pc = "seed"
  /\ Walkable(f, durable)
  /\ active' = [active EXCEPT ![f] = durable[f]]
  /\ todo' = todo \ {f}
  /\ UNCHANGED <<durable, published, pc, step, faults, durableTorn, activeTorn>>

\* Mutant of EndSeed: training begins while the copy is still under way.
EndSeedEarly ==
  /\ pc = "seed"
  /\ todo # Existing(durable)
  /\ pc' = "resume"
  /\ todo' = {}
  /\ activeTorn' = durableTorn
  /\ UNCHANGED <<durable, active, published, step, faults, durableTorn>>
\* the active store's manifest is written
EndSeed ==
  /\ pc = "seed"
  /\ todo = {}
  /\ pc' = "resume"
  /\ activeTorn' = durableTorn
  /\ UNCHANGED <<durable, active, published, step, todo, faults, durableTorn>>

\* load_trainer_state and the audit of the optimizer files that exist: they disagree, or
\* they are ahead and the record catches up, or training goes on from the record.
OptimizerSteps == {active[f] : f \in Optims} \ {NoFile}
Resume ==
  /\ pc = "resume"
  /\ IF \E a, b \in OptimizerSteps : a # b
     THEN pc' = "refused" /\ UNCHANGED <<active, step>>
     ELSE LET ahead == {n \in OptimizerSteps : n > active[Record]}
              next == IF ahead = {} THEN active[Record] ELSE CHOOSE n \in ahead : TRUE
          IN  pc' = "train" /\ step' = next /\ active' = [active EXCEPT ![Record] = next]
  /\ UNCHANGED <<durable, published, todo, faults, durableTorn, activeTorn>>

\* Mutant of ShouldFlush: no flush at the final step.
OnlyPeriodicFlush(n) == n % FlushEvery = 0
\* _maybe_flush_active_store
ShouldFlush(n) == n % FlushEvery = 0 \/ n = MaxSteps

Updated(f) ==
  CASE f = Record -> step + 1
    [] f = Metadata -> active[f]
    [] OTHER -> IF active[f] = NoFile THEN 1 ELSE active[f] + 1

\* One iteration of train: publish the update in the active store, record it, and go on
\* to a durable flush where one is due.
TrainStep ==
  /\ pc = "train"
  /\ step < MaxSteps
  /\ Params \subseteq Existing(active)
  /\ step' = step + 1
  /\ active' = [f \in Files |-> Updated(f)]
  /\ IF ShouldFlush(step + 1) THEN pc' = "flush" /\ todo' = Files ELSE UNCHANGED <<pc, todo>>
  /\ UNCHANGED <<durable, published, faults, durableTorn, activeTorn>>

\* A parameter file is missing: the forward pass raises, now and on every restart.
ForwardFails ==
  /\ pc = "train"
  /\ step < MaxSteps
  /\ ~(Params \subseteq Existing(active))
  /\ pc' = "unloadable"
  /\ UNCHANGED <<durable, active, published, step, todo, faults, durableTorn, activeTorn>>

\* flush_active_to_durable
FlushFile(f) ==
  /\ pc = "flush"
  /\ Walkable(f, active)
  /\ durable' = [durable EXCEPT ![f] = active[f]]
  /\ todo' = todo \ {f}
  /\ UNCHANGED <<active, published, pc, step, faults, durableTorn, activeTorn>>

\* Mutant of EndFlush: the manifest is written before the shards are.
EndFlushEarly ==
  /\ pc = "flush"
  /\ todo # Files
  /\ published' = step
  /\ durableTorn' = activeTorn
  /\ pc' = "train"
  /\ todo' = {}
  /\ UNCHANGED <<durable, active, step, faults, activeTorn>>
\* ... and its manifest
EndFlush ==
  /\ pc = "flush"
  /\ todo = {}
  /\ published' = step
  /\ durableTorn' = activeTorn
  /\ pc' = "train"
  /\ UNCHANGED <<durable, active, step, todo, faults, activeTorn>>

Finish ==
  /\ pc = "train"
  /\ step >= MaxSteps
  /\ pc' = "done"
  /\ UNCHANGED <<durable, active, published, step, todo, faults, durableTorn, activeTorn>>

-----------------------------------------------------------------------------
\* audit_optimizer_state: the steps that the optimizer files of a directory count.
AuditedSteps(store) == {store[f] : f \in Optims \cap Existing(store)}

\* audit_run of a directory, as far as it looks at more than one tensor: it misses no
\* parameter and no optimizer file, and the optimizer files it finds are of one step.
AuditClean(store) ==
  /\ Params \cup Optims \subseteq Existing(store)
  /\ \A n, m \in AuditedSteps(store) : n = m

\* Part of a copy has been made: for the active store, a part that passes for the whole.
CutsFlush == pc = "flush" /\ todo # {} /\ todo # Files
CutsSeed == pc = "seed" /\ todo # {} /\ active[Record] # NoFile /\ active[Metadata] # NoFile

\* A whole copy has been made: its manifest alone is missing.
Flushed == pc = "flush" /\ todo = {}

Stops ==
  /\ pc \in Running \cup {"down"}
  /\ faults < MaxFaults
  /\ faults' = faults + 1
  /\ pc' = "down" /\ step' = 0 /\ todo' = {}
  /\ durableTorn' = IF Flushed THEN activeTorn ELSE durableTorn \/ CutsFlush
  /\ UNCHANGED <<durable, published>>

\* The process dies, or an error in a copy ends it: both directories stay.
Crash ==
  /\ pc # "down"
  /\ Stops
  /\ activeTorn' = (activeTorn \/ CutsSeed \/ (pc = "seed" /\ todo = {} /\ durableTorn))
  /\ UNCHANGED active

\* The machine goes down, and a RAM disk with it.
PowerLoss ==
  /\ Stops
  /\ active' = Nothing
  /\ activeTorn' = FALSE

TrainerStep ==
  \/ Prepare \/ EndSeed \/ Resume \/ TrainStep \/ ForwardFails \/ EndFlush \/ Finish
  \/ \E f \in Files : SeedFile(f) \/ FlushFile(f)

Terminated == pc \in Stopped /\ UNCHANGED vars

Next == TrainerStep \/ Crash \/ PowerLoss \/ Terminated

\* A stopped process is started again; faults are never forced.
Spec == Init /\ [][Next]_vars
FairSpec == Spec /\ WF_vars(TrainerStep)

-----------------------------------------------------------------------------
\* The directory is a run that stopped after step n.
HoldsStep(store, n) ==
  /\ store[Record] = n /\ store[Metadata] # NoFile
  /\ \A f \in Params : store[f] = n
  /\ \A f \in Optims : store[f] = n \/ (n = 0 /\ store[f] = NoFile)

\* The archive promise (lld "durable flush publishes the active store"): outside a flush,
\* the durable directory is a resumable run of some step, not older than its manifest
\* says, unless a copy was cut short; a later flush of a whole store mends it.
ArchiveIsAStep ==
  pc # "flush" /\ ~durableTorn => \E n \in published..MaxSteps : HoldsStep(durable, n)

\* While a copy is cut at most the record is ahead of the shards: no archive, however
\* torn, and from whatever store, has shards of a step its own record does not know of.
RecordLeadsArchive ==
  \A f \in Params \cup Optims : durable[f] # NoFile => durable[f] <= durable[Record]

\* A run directory that the trainer refuses or cannot load is one that the audit, which
\* the refusal asks for, finds fault with; a clean audit means that it goes on.
AuditForesees == pc \in {"refused", "unloadable"} => ~AuditClean(active)

\* The durable directory is a run that can be gone on from; where a copy has cut it, its
\* record at least knows of all its shards; and what stops a run shows in its audit.
ArchiveKept == TypeOK /\ ArchiveIsAStep /\ RecordLeadsArchive /\ AuditForesees

\* Training is on one whole model, and on from its step, whichever way the active store
\* came about: seeded, kept over a crash, or seeded anew after a power loss.
TrainsOnAWholeStore == pc \in {"train", "flush"} /\ ~activeTorn => HoldsStep(active, step)

\* What a power loss can take back (lld, --durable-flush-every: "too rare risks losing
\* recent work on power loss"): in training less than one flush interval, at the end of a
\* run nothing; and an interval more for every fault, because a restarted run does not
\* make up for a flush that the old process died before.
BoundedLoss ==
  ~activeTorn /\ ~durableTorn =>
    /\ pc = "train" => step < durable[Record] + FlushEvery * (faults + 1)
    /\ pc = "done" => step <= durable[Record] + FlushEvery * faults

\* Every run none of whose copies was cut short reaches max_steps.
EventuallyDone == <>(pc = "done" \/ durableTorn \/ activeTorn)

\* whitepaper "Active Store and Durable Flush": "If power is lost before a durable flush,
\* only the previous durable publication is guaranteed": the durable directory is always
\* some publication.
PreviousPublicationKept == pc = "down" => \E n \in 0..MaxSteps : HoldsStep(durable, n)
=============================================================================
