-------------------------- MODULE DrainableWorkerMC --------------------------
(* Small instances of DrainableWorker for TLC.                             *)
EXTENDS DrainableWorker

CONSTANTS x1, x2, d1, d2
=============================================================================
