--------------------------- MODULE CheckpointFlowMC ---------------------------
(* Small instances of CheckpointFlow for TLC.                              *)
EXTENDS CheckpointFlow
=============================================================================
