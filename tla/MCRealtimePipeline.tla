-------------------------- MODULE MCRealtimePipeline --------------------------
(* Instances of RealtimePipeline for TLC.  Turns and sessions are only       *)
(* compared, so they are symmetric in the runs without liveness properties.  *)
EXTENDS RealtimePipeline, TLC

Symmetry == Permutations(Turn) \cup Permutations(Session)
=============================================================================
