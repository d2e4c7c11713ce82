------------------------------- MODULE Archon -------------------------------
(***************************************************************************)
(* The Archon service: the table of ARC files, the per-shard caches that   *)
(* nextARC hands files out from, and the administrator's pause switch.     *)
(* One action is one complete REST request (ArchonResource, through        *)
(* ArchonFacade, to ArchonStorage and its commit or rollback), as if the   *)
(* servlet container served requests one at a time; the interleaving of    *)
(* requests inside the servlet container is ArchonRequests.                *)
(*                                                                         *)
(* A row keeps the columns that decide anything: the two time columns only *)
(* order reports and are left out.                                         *)
(***************************************************************************)
EXTENDS Integers, FiniteSets, SequencesExt

CONSTANTS
    Arcs,             \* ARC file names, the primary key ARC_FILE_ID
    Folders,          \* folders an ARC file may be registered under
    Shards,           \* shard IDs, positive integers
    Priorities,       \* values of the PRIORITY column
    DefaultPriority,  \* 5 in the code
    CacheLimit,       \* 1000 in the code
    NullsLast,        \* does ORDER BY ... ASC put NULL last (Postgres) or first (H2)?
    NoArc             \* the answer of a request that names no ARC file

NoShard == 0          \* SHARD_ID is NULL

ASSUME ArcsAssumption == IsFiniteSet(Arcs) /\ NoArc \notin Arcs
ASSUME ShardsAssumption == IsFiniteSet(Shards) /\ Shards \subseteq Nat \ {NoShard}
ASSUME PriorityAssumption == Priorities \subseteq Int /\ DefaultPriority \in Priorities
ASSUME CacheAssumption == CacheLimit \in Nat \ {0} /\ NullsLast \in BOOLEAN

VARIABLES
    db,       \* the ARCHON table: a function from the registered ARC files to rows
    cache,    \* nextArcIdsCached: for every shard the list nextARC hands out from
    paused,   \* ArchonFacade.isPaused
    reply     \* the answer to the last request

archonVars == <<db, cache, paused, reply>>

States == {"NEW", "RUNNING", "COMPLETED", "REJECTED"}
Row == [folder : Folders, shard : Shards \cup {NoShard}, state : States, priority : Priorities]
ArcVO == [id : Arcs, folder : Folders, priority : Priorities]
Reply == [kind : {"none", "ok", "error", "failure", "paused", "empty", "arc", "id"},
          shard : Shards \cup {NoShard},
          arc : Arcs \cup {NoArc}]

(* "error" is HTTP 400, "failure" HTTP 500 and "paused" HTTP 503.          *)
Answer(kind, s, a) == [kind |-> kind, shard |-> s, arc |-> a]
Ok == Answer("ok", NoShard, NoArc)
Error == Answer("error", NoShard, NoArc)

Init ==
    /\ db = [a \in {} |-> <<>>]
    /\ cache = [s \in Shards |-> <<>>]
    /\ paused = FALSE
    /\ reply = Answer("none", NoShard, NoArc)

-----------------------------------------------------------------------------
(* The query that fills a cache.                                           *)

Eligible(s) ==
    {a \in DOMAIN db : db[a].state = "NEW" /\ db[a].shard \in {s, NoShard}}

ShardRank(a) == IF (db[a].shard = NoShard) = NullsLast THEN 1 ELSE 0

(* A faulty variant of Before: the shard is not part of the order.         *)
BeforeByPriority(a, b) == db[a].priority > db[b].priority

(* a comes strictly before b in ORDER BY SHARD_ID ASC, PRIORITY DESC.      *)
Before(a, b) ==
    \/ ShardRank(a) < ShardRank(b)
    \/ ShardRank(a) = ShardRank(b) /\ db[a].priority > db[b].priority

LoadSize(s) ==
    LET n == Cardinality(Eligible(s)) IN IF n < CacheLimit THEN n ELSE CacheLimit

(* A faulty variant of LoadOrders: the query may return a row twice.       *)
LoadOrdersRepeating(s) == [1..LoadSize(s) -> Eligible(s)]

(* Rows that tie are returned in any order, and LIMIT cuts anywhere among  *)
(* the rows that tie.                                                      *)
LoadOrders(s) ==
    {q \in [1..LoadSize(s) -> Eligible(s)] :
        /\ \A i, j \in 1..LoadSize(s) : i < j => q[i] # q[j] /\ ~Before(q[j], q[i])
        /\ \A a \in Eligible(s), i \in 1..LoadSize(s) :
              Before(a, q[i]) => \E j \in 1..LoadSize(s) : q[j] = a}

ToVO(a) == [id |-> a, folder |-> db[a].folder, priority |-> db[a].priority]

(* The lists getNextArcIdsToCache may return.                              *)
NextArcIdsToCache(s) ==
    {[i \in 1..LoadSize(s) |-> ToVO(q[i])] : q \in LoadOrders(s)}

(* ArcVO.equals compares the path, folder followed by name.                *)
SameFile(v, w) == v.id = w.id /\ v.folder = w.folder

(* A faulty variant of WithoutFile: only the head is looked at.            *)
WithoutHead(list, vo) ==
    IF list # <<>> /\ SameFile(Head(list), vo) THEN Tail(list) ELSE list

(* ArrayList.remove(Object): drops the first equal element, if any.        *)
WithoutFile(list, vo) ==
    IF \E i \in 1..Len(list) : SameFile(list[i], vo)
    THEN RemoveAt(list, CHOOSE i \in 1..Len(list) :
                            /\ SameFile(list[i], vo)
                            /\ \A j \in 1..(i - 1) : ~SameFile(list[j], vo))
    ELSE list

-----------------------------------------------------------------------------
(* Requests that write one row; an unknown ARC file is answered with an    *)
(* error (HTTP 400) and rolled back.                                       *)

UpdateRow(a, row) ==
    /\ IF a \in DOMAIN db
       THEN db' = [db EXCEPT ![a] = row] /\ reply' = Ok
       ELSE db' = db /\ reply' = Error
    /\ UNCHANGED <<cache, paused>>

NewRow(f) == [folder |-> f, shard |-> NoShard, state |-> "NEW", priority |-> DefaultPriority]

InsertRow(a, f) ==
    db' = [x \in DOMAIN db \cup {a} |-> IF x = a THEN NewRow(f) ELSE db[x]]

AddARC(a, f) ==
    /\ IF a \in DOMAIN db
       THEN db' = db /\ reply' = Error
       ELSE InsertRow(a, f) /\ reply' = Ok
    /\ UNCHANGED <<cache, paused>>

AddOrUpdateARC(a, f) ==
    /\ IF a \in DOMAIN db
       THEN db' = [db EXCEPT ![a].folder = f]
       ELSE InsertRow(a, f)
    /\ reply' = Ok
    /\ UNCHANGED <<cache, paused>>

SetARCState(a, st) == UpdateRow(a, [db[a] EXCEPT !.state = st])

SetARCProperties(a, s, st, p) ==
    UpdateRow(a, [db[a] EXCEPT !.shard = s, !.state = st, !.priority = p])

SetARCPriority(a, p) == UpdateRow(a, [db[a] EXCEPT !.priority = p])

ResetArcWithPriority(a, p) ==
    UpdateRow(a, [db[a] EXCEPT !.shard = NoShard, !.state = "NEW", !.priority = p])

RemoveARC(a) ==
    /\ IF a \in DOMAIN db
       THEN db' = [x \in DOMAIN db \ {a} |-> db[x]] /\ reply' = Ok
       ELSE db' = db /\ reply' = Error
    /\ UNCHANGED <<cache, paused>>

-----------------------------------------------------------------------------
(* Requests that write all the rows of a shard.                            *)

UpdateShard(s, row(_)) ==
    /\ db' = [a \in DOMAIN db |-> IF db[a].shard = s THEN row(db[a]) ELSE db[a]]
    /\ reply' = Ok
    /\ UNCHANGED <<cache, paused>>

(* A faulty variant of ClearIndexing: the shard is not compared.           *)
ClearAllIndexing(s) ==
    /\ db' = [a \in DOMAIN db |-> IF db[a].state = "RUNNING" THEN NewRow(db[a].folder) ELSE db[a]]
    /\ reply' = Ok
    /\ UNCHANGED <<cache, paused>>

ClearIndexing(s) ==
    UpdateShard(s, LAMBDA r : IF r.state = "RUNNING"
                              THEN [r EXCEPT !.state = "NEW", !.shard = NoShard]
                              ELSE r)

(* A faulty variant of ResetShardID: the shard is not compared.            *)
ResetEveryShard(s) ==
    /\ db' = [a \in DOMAIN db |-> [db[a] EXCEPT !.state = "NEW"]]
    /\ reply' = Ok
    /\ UNCHANGED <<cache, paused>>

ResetShardID(s) == UpdateShard(s, LAMBDA r : [r EXCEPT !.state = "NEW"])

SetShardState(s, st, p) ==
    UpdateShard(s, LAMBDA r : [r EXCEPT !.state = st, !.priority = p])

-----------------------------------------------------------------------------
(* nextARC: refill the shard's cache when it is empty, take its head, drop *)
(* that file from every cache, and mark the row RUNNING for the shard with *)
(* the priority the cache remembers. The caches are plain memory: an error *)
(* on an unknown row rolls the table back, never them.                     *)

(* A faulty variant of NothingToHandOut: an empty cache is not refilled.   *)
EmptyCacheHandedOut(s) ==
    /\ cache[s] = <<>>
    /\ reply' = Answer("empty", s, NoArc)
    /\ UNCHANGED <<db, cache, paused>>

NothingToHandOut(s) ==
    /\ cache[s] = <<>>
    /\ <<>> \in NextArcIdsToCache(s)
    /\ reply' = Answer("empty", s, NoArc)
    /\ UNCHANGED <<db, cache, paused>>

(* Faulty variants of HandOut: the other caches keep the file; the row is  *)
(* marked RUNNING without its shard.                                       *)
HandOutFromOwnCache(s, list) ==
    LET vo == Head(list) IN
    /\ list # <<>> /\ vo.id \in DOMAIN db
    /\ cache' = [cache EXCEPT ![s] = Tail(list)]
    /\ db' = [db EXCEPT ![vo.id].shard = s, ![vo.id].state = "RUNNING"]
    /\ reply' = Answer("arc", s, vo.id)
    /\ UNCHANGED paused

HandOutWithoutShard(s, list) ==
    LET vo == Head(list) IN
    /\ list # <<>> /\ vo.id \in DOMAIN db
    /\ cache' = [t \in Shards |-> WithoutFile(IF t = s THEN Tail(list) ELSE cache[t], vo)]
    /\ db' = [db EXCEPT ![vo.id].state = "RUNNING"]
    /\ reply' = Answer("arc", s, vo.id)
    /\ UNCHANGED paused

HandOut(s, list) ==
    LET vo == Head(list) IN
    /\ list # <<>>
    /\ cache' = [t \in Shards |->
                    WithoutFile(IF t = s THEN Tail(list) ELSE cache[t], vo)]
    /\ IF vo.id \in DOMAIN db
       THEN /\ db' = [db EXCEPT ![vo.id].shard = s, ![vo.id].state = "RUNNING",
                                ![vo.id].priority = vo.priority]
            /\ reply' = Answer("arc", s, vo.id)
       ELSE db' = db /\ reply' = Error
    /\ UNCHANGED paused

NextARC(s) ==
    \/ /\ paused
       /\ reply' = Answer("paused", s, NoArc)
       /\ UNCHANGED <<db, cache, paused>>
    \/ ~paused /\ NothingToHandOut(s)
    \/ ~paused /\ cache[s] # <<>> /\ HandOut(s, cache[s])
    \/ ~paused /\ cache[s] = <<>> /\ \E list \in NextArcIdsToCache(s) : HandOut(s, list)

(* One more than the largest shard ID in the table. Nothing reserves it.   *)
UnusedShardID ==
    IF \A a \in DOMAIN db : db[a].shard = NoShard
    THEN 1
    ELSE 1 + Max({db[a].shard : a \in DOMAIN db})

NextShardID ==
    /\ UnusedShardID \in Shards       \* bound: no more shards than the instance has
    /\ reply' = Answer("id", UnusedShardID, NoArc)
    /\ UNCHANGED <<db, cache, paused>>

SetPaused(b) ==
    /\ paused' = b
    /\ reply' = Ok
    /\ UNCHANGED <<db, cache>>

(* The servlet container restarts: the static fields are initialised anew. *)
RestartServer ==
    /\ cache' = [s \in Shards |-> <<>>]
    /\ paused' = FALSE
    /\ reply' = Answer("none", NoShard, NoArc)
    /\ UNCHANGED db

-----------------------------------------------------------------------------

Next ==
    \/ \E a \in Arcs, f \in Folders : AddARC(a, f) \/ AddOrUpdateARC(a, f)
    \/ \E s \in Shards : NextARC(s) \/ ClearIndexing(s) \/ ResetShardID(s)
    \/ \E a \in Arcs, st \in States : SetARCState(a, st)
    \/ \E a \in Arcs, s \in Shards, st \in States, p \in Priorities : SetARCProperties(a, s, st, p)
    \/ \E a \in Arcs, p \in Priorities : SetARCPriority(a, p) \/ ResetArcWithPriority(a, p)
    \/ \E a \in Arcs : RemoveARC(a)
    \/ \E s \in Shards, st \in States, p \in Priorities : SetShardState(s, st, p)
    \/ NextShardID
    \/ \E b \in BOOLEAN : SetPaused(b)
    \/ RestartServer

Spec == Init /\ [][Next]_archonVars

-----------------------------------------------------------------------------
(* Properties that hold whatever the administrator asks for.               *)

(* The table has typed rows, every cache is a list of at most CacheLimit   *)
(* entries, and no cache lists a file twice, so that removing the first    *)
(* match in nextARC removes the file (ArchonStorage.nextARC).              *)
CacheList(list) ==
    /\ list \in Seq(ArcVO)
    /\ Len(list) <= CacheLimit
    /\ \A i, j \in 1..Len(list) : list[i].id = list[j].id => i = j

TableOK == DOMAIN db \subseteq Arcs /\ db \in [DOMAIN db -> Row]

CachesOK == cache \in [Shards -> Seq(ArcVO)] /\ \A s \in Shards : CacheList(cache[s])

TypeOK ==
    /\ TableOK
    /\ CachesOK
    /\ paused \in BOOLEAN
    /\ reply \in Reply

(* nextARC answers "no more ARC files" only when the table holds no file   *)
(* for that shard, however stale its cache was (the reload in nextARC).    *)
EmptyMeansNoneLeft ==
    [][\A s \in Shards :
          reply'.kind = "empty" /\ reply'.shard = s => Eligible(s) = {}]_archonVars

(* A file without a shard is only handed out when no file is waiting for   *)
(* this very shard, at least when the cache was just filled ("Null will    *)
(* come last" in selectNextArcQuery; ArchonConnector.nextARC). This needs  *)
(* a database that agrees: NullsLast.                                      *)
OwnShardFirst ==
    [][\A s \in Shards :
          /\ reply'.kind = "arc" /\ reply'.shard = s
          /\ cache[s] = <<>> /\ db[reply'.arc].shard = NoShard
          => \A a \in Eligible(s) : db[a].shard = NoShard]_archonVars
=============================================================================
