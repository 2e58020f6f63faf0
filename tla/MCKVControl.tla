---------------------------- MODULE MCKVControl ----------------------------
\* Small sets for TLC: see KVControl.cfg.
EXTENDS KVControl, TLC

CONSTANTS r1, r2, r3, alice, bob

AllNear == Prompts \X Prompts
Symmetry == Permutations(Requests) \cup Permutations(Tenants)
=============================================================================
