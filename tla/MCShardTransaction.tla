------------------------- MODULE MCShardTransaction -------------------------
(* Instances of ShardTransaction for TLC.                                  *)
EXTENDS ShardTransaction

\* A process may be started in any mode, also one other than its predecessor's.
MCAnyMode == AllModes
MCSingle == {"single"}
MCSkip == {"guard_skip"}
=============================================================================
