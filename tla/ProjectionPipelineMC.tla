------------------------ MODULE ProjectionPipelineMC ------------------------
(* Small instances of ProjectionPipeline for TLC.                          *)
EXTENDS ProjectionPipeline
=============================================================================
