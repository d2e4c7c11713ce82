-------------------------- MODULE MCArchonRequests --------------------------
(***************************************************************************)
(* Interleaved nextARC requests of two builders on one folder.             *)
(***************************************************************************)
EXTENDS ArchonRequests

MCShards == {1, 2}
OnePriority == {5}

(* No guard and no invariant looks at the last answer. A file that is      *)
(* orphaned matters while its row says so: if it is leased to that shard   *)
(* again, Commit decides anew.                                             *)
StillOrphaned(s) ==
    {a \in orphaned[s] : a \in DOMAIN db /\ db[a].state = "RUNNING" /\ db[a].shard = s}

WithoutReply ==
    <<db, cache, paused, held, req, keys, awaited,
      [s \in Shards |-> StillOrphaned(s)], raced>>

ArcSymmetry == Permutations(Arcs)
=============================================================================
