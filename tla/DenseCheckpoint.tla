--------------------------- MODULE DenseCheckpoint ---------------------------
(* The checkpoints of the dense trainer (train/train_perkunas.py and           *)
(* train/checkpoint.py): a directory per saved step, written file by file in   *)
(* place and closed by _SUCCESS, and `latest', a copy of the last one.  A      *)
(* process can die anywhere, and is resumed from whichever of them its         *)
(* operator names.  Rank 0 alone writes; the other ranks are not modelled.     *)
(*                                                                             *)
(* A file is the launch and the step whose state it holds.  optimizer.pt       *)
(* stands for scaler.pt too: both are skipped where they are missing.          *)
EXTENDS Naturals, Functions

CONSTANTS LastStep,       \* max_steps
          SaveIntervals,  \* values of save_interval
          MaxLaunches, MaxCrashes

ASSUME DenseAssumption ==
  {LastStep} \cup SaveIntervals \subseteq Nat \ {0} /\ {MaxLaunches, MaxCrashes} \subseteq Nat

VARIABLES
  save_interval,
  disk,      \* directory -> the files in it
  doing,     \* what the process is doing, "down" without one
  mem,       \* the model, optimizer state and step in memory
  final,     \* the save after the last step is under way
  next,      \* the file that the save is at
  over,      \* the save goes over a finished checkpoint
  launches, crashes,
  cut,       \* finished checkpoints that a crash found half overwritten or removed
  misled     \* a run was resumed from what a crash had left of one of those

denseVars ==
  <<save_interval, disk, doing, mem, final, next, over, launches, crashes, cut, misled>>
process == <<doing, mem, final, next, over>>

Latest   == <<"latest", 0>>
Tmp      == <<"latest.tmp", 0>>
StepDir(n) == <<"step", n>>
Kept     == {Latest} \cup {StepDir(n) : n \in 1..LastStep}
Dirs     == Kept \cup {Tmp}
Partial  == [launch |-> 0, step |-> 0]   \* a file that has not been written to its end
NoFiles  == [name \in {} |-> Partial]

Memory(model, optimizer, state) == [model |-> model, optimizer |-> optimizer, state |-> state]
StepIn(m) == m.state.step

DenseInit ==
  /\ save_interval \in SaveIntervals
  /\ disk = [d \in Dirs |-> NoFiles]
  /\ doing = "down" /\ mem = Memory(Partial, Partial, Partial)
  /\ final = FALSE /\ next = 1 /\ over = FALSE
  /\ launches = 0 /\ crashes = 0 /\ cut = {} /\ misled = FALSE

-------------------------------------------------------------------------------
Names(d)     == DOMAIN disk[d]
Put(d, name, content) ==
  disk' = [disk EXCEPT ![d] = [n \in Names(d) \cup {name} |->
                                 IF n = name THEN content ELSE disk[d][n]]]
Readable(d, name) == name \in Names(d) /\ disk[d][name] # Partial

FileNames == {"model", "optimizer", "state", "_SUCCESS"}

\* All of one save.
Whole(d) == /\ Names(d) = FileNames
            /\ disk[d]["model"] # Partial
            /\ \A name \in {"optimizer", "state"} : disk[d][name] = disk[d]["model"]

\* load_checkpoint takes a directory for a checkpoint and reads it to the end.
Loads(d) ==
  /\ "_SUCCESS" \in Names(d) /\ Readable(d, "model") /\ Readable(d, "state")
  /\ "optimizer" \in Names(d) => Readable(d, "optimizer")

Fresh == [launch |-> launches + 1, step |-> 0]

Launched(m) ==
  /\ doing = "down" /\ launches < MaxLaunches
  /\ launches' = launches + 1
  /\ doing' = "train" /\ mem' = m /\ final' = FALSE
  /\ UNCHANGED <<save_interval, disk, next, over, crashes, cut>>

Launch == Launched(Memory(Fresh, Fresh, Fresh)) /\ UNCHANGED misled

\* Without optimizer.pt the optimizer stays as it was made.
ResumeFrom(d) ==
  /\ Loads(d)
  /\ Launched(Memory(disk[d]["model"],
                     IF "optimizer" \in Names(d) THEN disk[d]["optimizer"] ELSE Fresh,
                     disk[d]["state"]))
  /\ misled' = (misled \/ ~Whole(d))

\* Mutant: `latest' is removed before the new checkpoint is written.
StartSaveWithoutLatest(n) ==
  /\ doing' = "save" /\ next' = 1 /\ over' = ("_SUCCESS" \in Names(StepDir(n)))
  /\ disk' = [disk EXCEPT ![Latest] = NoFiles]

StartSave(n) ==
  /\ doing' = "save" /\ next' = 1 /\ over' = ("_SUCCESS" \in Names(StepDir(n)))
  /\ UNCHANGED disk

DenseStep ==
  /\ doing = "train" /\ StepIn(mem) < LastStep
  /\ LET n == StepIn(mem) + 1
         trained == [launch |-> launches, step |-> n]
     IN  /\ mem' = Memory(trained, trained, trained)
         /\ IF n % save_interval = 0 THEN StartSave(n) ELSE UNCHANGED <<doing, next, over, disk>>
  /\ UNCHANGED <<save_interval, final, launches, crashes, cut, misled>>

\* The last step is saved after the loop too, also when it has just been saved.
SaveAtEnd ==
  /\ doing = "train" /\ StepIn(mem) = LastStep
  /\ final' = TRUE /\ StartSave(LastStep)
  /\ UNCHANGED <<save_interval, mem, launches, crashes, cut, misled>>

\* Mutant: _SUCCESS is written before the optimizer state.
SuccessBeforeOptimizer == <<"model", "state", "_SUCCESS", "optimizer">>

\* The order in which save_checkpoint writes.
SaveOrder == <<"model", "optimizer", "state", "_SUCCESS">>

Content(name) == IF name = "_SUCCESS" THEN mem.state ELSE mem[name]

\* A file is opened, which empties it, and then written.
SaveFile ==
  /\ doing = "save" /\ next \in DOMAIN SaveOrder
  /\ LET d == StepDir(StepIn(mem))
         name == SaveOrder[next]
     IN  IF name \in Names(d) /\ disk[d][name] = Partial
         THEN Put(d, name, Content(name)) /\ next' = next + 1
         ELSE Put(d, name, Partial) /\ UNCHANGED next
  /\ UNCHANGED <<save_interval, doing, mem, final, over, launches, crashes, cut, misled>>

EndSave ==
  /\ doing = "save" /\ next \notin DOMAIN SaveOrder
  /\ doing' = "clear" /\ cut' = cut \ {StepDir(StepIn(mem))}
  /\ UNCHANGED <<save_interval, disk, mem, final, next, over, launches, crashes, misled>>

-------------------------------------------------------------------------------
(* update_latest *)

\* rmtree: one file after the other, in any order.
Unlink(d) == \E name \in Names(d) :
               disk' = [disk EXCEPT ![d] = Restrict(disk[d], Names(d) \ {name})]

Becomes(what) == doing' = what /\ UNCHANGED <<mem, final, next, over>>
Rest == UNCHANGED <<save_interval, launches, crashes, misled>>

ClearTmp ==
  /\ doing = "clear"
  /\ IF Names(Tmp) # {} THEN Unlink(Tmp) /\ UNCHANGED process
                        ELSE Becomes("copy") /\ UNCHANGED disk
  /\ UNCHANGED cut /\ Rest

\* copytree, file after file.
CopyFile ==
  /\ doing = "copy"
  /\ LET source == disk[StepDir(StepIn(mem))]
         begun  == {name \in Names(Tmp) : disk[Tmp][name] = Partial}
     IN  \/ \E name \in begun : Put(Tmp, name, source[name]) /\ UNCHANGED process
         \/ /\ begun = {}
            /\ \E name \in DOMAIN source \ Names(Tmp) : Put(Tmp, name, Partial)
            /\ UNCHANGED process
         \/ /\ begun = {} /\ DOMAIN source = Names(Tmp)
            /\ Becomes("replace") /\ UNCHANGED disk
  /\ UNCHANGED cut /\ Rest

\* `latest' is removed and the copy renamed to it.
ReplaceLatest ==
  /\ doing = "replace"
  /\ IF Names(Latest) # {} THEN Unlink(Latest) /\ UNCHANGED <<process, cut>>
     ELSE /\ disk' = [disk EXCEPT ![Latest] = disk[Tmp], ![Tmp] = NoFiles]
          /\ cut' = cut \ {Latest}
          /\ Becomes(IF final THEN "down" ELSE "train")
  /\ Rest

\* The process dies, or a write raises and ends it.
DenseCrash ==
  /\ doing # "down" /\ crashes < MaxCrashes
  /\ crashes' = crashes + 1 /\ doing' = "down"
  /\ cut' = cut \cup (IF doing = "save" /\ over THEN {StepDir(StepIn(mem))} ELSE {})
                \cup (IF doing = "replace" THEN {Latest} ELSE {})
  /\ UNCHANGED <<save_interval, disk, mem, final, next, over, launches, misled>>

DenseNext == \/ Launch \/ (\E d \in Kept : ResumeFrom(d))
             \/ DenseStep \/ SaveAtEnd \/ SaveFile \/ EndSave
             \/ ClearTmp \/ CopyFile \/ ReplaceLatest \/ DenseCrash

DenseSpec == DenseInit /\ [][DenseNext]_denseVars

-------------------------------------------------------------------------------
\* What load_checkpoint takes for complete (_SUCCESS is there) and can read is model,
\* optimizer and step of one save, whatever crashed before: unless the crash came while
\* a finished checkpoint was written over, as the save at the end always does when
\* max_steps is a multiple of save_interval, or while latest was removed.  A run that
\* is resumed from the remains of one of those reads them as a checkpoint.
LoadedIsWhole ==
  doing = "down" /\ ~misled => \A d \in Kept \ cut : Loads(d) => Whole(d)

\* Once a checkpoint was saved a single crash, wherever it comes, leaves one that
\* loads as a whole: while a step's directory is written latest is left alone, and
\* while latest is replaced the step's directory is.
CrashKeepsCheckpoint ==
  /\ doing = "down" /\ ~misled /\ crashes <= 1
  /\ \E d \in Kept : "_SUCCESS" \in Names(d)
  => \E d \in Kept : Whole(d)
===============================================================================
