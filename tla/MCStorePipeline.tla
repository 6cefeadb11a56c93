-------------------------- MODULE MCStorePipeline --------------------------
(***************************************************************************)
(* Instances of StorePipeline for TLC.  Operations, replicas and workers    *)
(* are interchangeable model values, so safety runs may use symmetry.       *)
(***************************************************************************)
EXTENDS StorePipeline, TLC

Symmetry == Permutations(Edits) \cup Permutations(Instances) \cup Permutations(Workers)
============================================================================
