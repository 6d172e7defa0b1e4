----------------------- MODULE KeyedCoalescingWorkerMC -----------------------
(* Small instances of KeyedCoalescingWorker for TLC.                       *)
EXTENDS KeyedCoalescingWorker

CONSTANTS k1, k2
=============================================================================
