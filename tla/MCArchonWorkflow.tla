-------------------------- MODULE MCArchonWorkflow --------------------------
(***************************************************************************)
(* The workflow with four ARC files in one folder, two shards, one         *)
(* priority and caches of three entries.                                   *)
(***************************************************************************)
EXTENDS ArchonWorkflow

MCShards == {1, 2}
OnePriority == {5}

(* ARC files are interchangeable: nothing compares their names.            *)
ArcSymmetry == Permutations(Arcs)
=============================================================================
