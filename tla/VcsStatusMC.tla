---------------------------- MODULE VcsStatusMC ----------------------------
(* Small instances of VcsStatus for TLC. *)
EXTENDS VcsStatus, TLC

CONSTANTS w1, w2, j1, f1, f2, s1, s2   \* model values
=============================================================================
