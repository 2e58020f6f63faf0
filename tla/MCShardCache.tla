---------------------------- MODULE MCShardCache ----------------------------
(* Instances of ShardCache for TLC.                                        *)
EXTENDS ShardCache

\* Every relation of the two limits to the number of shards, and every switch.
MCConfigs ==
  {c \in [window : 0..NumShards, resident : {1, 2, NumShards}, modules : BOOLEAN,
          guarded : BOOLEAN, master : BOOLEAN] : c.window <= c.resident}

\* The guard on, and nothing cached: prefetch off, no module cache (the defaults).
MCGuardNoCache ==
  {[window |-> 0, resident |-> 2, modules |-> FALSE, guarded |-> TRUE, master |-> TRUE]}

\* The guard with a module cache smaller than the model.
MCGuardModules ==
  {[window |-> 0, resident |-> 2, modules |-> TRUE, guarded |-> TRUE, master |-> TRUE]}
=============================================================================
