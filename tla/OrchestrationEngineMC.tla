------------------------ MODULE OrchestrationEngineMC ------------------------
(* Small instances of OrchestrationEngine for TLC.                         *)
EXTENDS OrchestrationEngine, TLC

CONSTANTS p1, t1, t2, c1, c2, c3

IdSymmetry == Permutations(CommandIds)

(* Creation, a deletion that expands to several events, and commands whose *)
(* acceptance depends on what went before.                                 *)
LifecycleCommands ==
    { [type |-> "project.create", project |-> p1],
      [type |-> "project.delete", project |-> p1, force |-> TRUE],
      [type |-> "thread.create", thread |-> t1, project |-> p1],
      [type |-> "thread.archive", thread |-> t1] }

AllFaults == FaultPlaces
RecordedRefusals == FaultPlaces \ {"reconcile", "receipt"}
=============================================================================
