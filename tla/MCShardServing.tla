---------------------------- MODULE MCShardServing ----------------------------
(* ShardServing for TLC. *)
EXTENDS ShardServing, TLC

\* Every setting but the largest: where backup and primary are two runs with a
\* module cache each, a cache holds one module.
MCSettings ==
  {c \in [limit : {1, 2}, caching : BOOLEAN, sameBackup : BOOLEAN] :
     c.sameBackup \/ ~c.caching \/ c.limit = 1}

\* Requests differ in nothing but their names.
Symmetry == Permutations(Requests)
===============================================================================
