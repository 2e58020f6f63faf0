---------------------------- MODULE AtomicSteps ----------------------------
(***************************************************************************)
(* What the sharded trainer promises about a run directory, with no files, *)
(* no shards and no processes in sight.                                    *)
(*                                                                         *)
(* The store holds one model, `version' updates old, and one record of the *)
(* last training step, `recorded' (global_step of trainer_state.json).     *)
(* A step publishes one whole update or none; its record follows, and a    *)
(* run that stopped between the two catches up when it resumes.  A fault   *)
(* inside the publication of a step may tear the store: from then on       *)
(* nothing is promised (docs/perkunasv2_training_lld.md, "Current known    *)
(* gap").                                                                  *)
(***************************************************************************)
EXTENDS Naturals

VARIABLES
  version,   \* updates in the published model
  recorded,  \* global_step of trainer_state.json
  whole      \* no publication was ever interrupted

absVars == <<version, recorded, whole>>

Init ==
  /\ version = 0
  /\ recorded = 0
  /\ whole = TRUE

\* A whole update becomes the live model.  Never two of them without a record
\* in between, so a resumed run knows how far the model is.
Publish ==
  /\ whole
  /\ version <= recorded
  /\ version' = version + 1
  /\ UNCHANGED <<recorded, whole>>

\* The record of a finished step: published, or skipped.
Record ==
  /\ whole
  /\ recorded' = recorded + 1
  /\ UNCHANGED <<version, whole>>

\* A resumed run whose record lags behind the model.
Repair ==
  /\ whole
  /\ recorded < version
  /\ recorded' = version
  /\ UNCHANGED <<version, whole>>

\* A fault inside a publication, and everything after it.
Torn == whole' = FALSE

Next == Publish \/ Record \/ Repair \/ Torn

Spec == Init /\ [][Next]_absVars
=============================================================================
