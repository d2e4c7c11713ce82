------------------------------ MODULE ArcLeases ------------------------------
(***************************************************************************)
(* What Archon promises the index builders, with no table and no caches:   *)
(* every registered ARC file is free, leased to one shard, or done in one  *)
(* shard. A lease is only ever given on a free file, to a shard the file   *)
(* is free for, and "nothing left" is only said when nothing is.           *)
(* (ArchonConnector, the interface both sides are written against.)        *)
(***************************************************************************)
CONSTANTS Arcs, Shards, NoShard, NoArc

VARIABLES
    lease,    \* the status of every ARC file and the shard it belongs to, if any
    answer    \* what the last request for work was told: a file, or NoArc

leaseVars == <<lease, answer>>

Status == {"absent", "free", "leased", "done"}
Lease(status, s) == [status |-> status, shard |-> s]
Unanswered == [shard |-> NoShard, arc |-> NoArc]

FreeFor(s) ==
    {a \in Arcs : lease[a].status = "free" /\ lease[a].shard \in {s, NoShard}}

Init ==
    /\ lease = [a \in Arcs |-> Lease("absent", NoShard)]
    /\ answer = Unanswered

Register(a) ==
    /\ lease[a].status = "absent"
    /\ lease' = [lease EXCEPT ![a] = Lease("free", NoShard)]
    /\ answer' = Unanswered

Grant(s) ==
    \E a \in FreeFor(s) :
        /\ lease' = [lease EXCEPT ![a] = Lease("leased", s)]
        /\ answer' = [shard |-> s, arc |-> a]

Refuse(s) ==
    /\ FreeFor(s) = {}
    /\ answer' = [shard |-> s, arc |-> NoArc]
    /\ UNCHANGED lease

Finish(a) ==
    /\ lease[a].status = "leased"
    /\ lease' = [lease EXCEPT ![a].status = "done"]
    /\ answer' = Unanswered

(* All the leases of a shard are void: its files are free for anyone.      *)
Reclaim(s) ==
    /\ lease' = [a \in Arcs |-> IF lease[a] = Lease("leased", s)
                                THEN Lease("free", NoShard)
                                ELSE lease[a]]
    /\ answer' = Unanswered

(* A file is given back to everyone, or all those of a shard to the shard. *)
Reopen(a) ==
    /\ lease[a].status # "absent"
    /\ lease' = [lease EXCEPT ![a] = Lease("free", NoShard)]
    /\ answer' = Unanswered

ReopenShard(s) ==
    /\ lease' = [a \in Arcs |-> IF lease[a].shard = s /\ lease[a].status # "absent"
                                THEN Lease("free", s)
                                ELSE lease[a]]
    /\ answer' = Unanswered

(* The shard a done file belongs to is corrected; it stays done.           *)
Amend(a, s) ==
    /\ lease[a].status = "done"
    /\ lease' = [lease EXCEPT ![a].shard = s]
    /\ answer' = Unanswered

Forget(a) ==
    /\ lease[a].status = "done"
    /\ lease' = [lease EXCEPT ![a] = Lease("absent", NoShard)]
    /\ answer' = Unanswered

(* Requests that lease nothing and free nothing.                           *)
Other ==
    /\ answer' = Unanswered
    /\ UNCHANGED lease

Next ==
    \/ \E a \in Arcs : Register(a) \/ Finish(a) \/ Reopen(a) \/ Forget(a)
    \/ \E s \in Shards : Grant(s) \/ Refuse(s) \/ Reclaim(s) \/ ReopenShard(s)
    \/ \E a \in Arcs, s \in Shards : Amend(a, s)
    \/ Other

Spec == Init /\ [][Next]_leaseVars
=============================================================================
