--------------------------- MODULE ArchonRequests ---------------------------
(***************************************************************************)
(* nextARC as the servlet container runs it: the requests of different     *)
(* builders on different threads, with the steps of ArchonStorage.nextARC  *)
(* interleaved. nextArcIdsCached is a static HashMap of ArrayLists that no *)
(* lock protects, and a row is RUNNING for the others only once the        *)
(* facade commits.                                                         *)
(*                                                                         *)
(* Every builder has one request in flight at a time (IndexBuilder asks    *)
(* from its main thread only). Single calls of the collections are atomic  *)
(* here: what two unsynchronised calls do to a HashMap's internals is not  *)
(* modelled. The other requests are one SQL statement and its commit, and  *)
(* stay the atomic actions of ArchonWorkflow. Archon is not paused: a      *)
(* request that is refused takes none of these steps.                      *)
(***************************************************************************)
EXTENDS ArchonWorkflow

VARIABLES
    req,       \* for every shard, where its nextARC request is and what it read
    keys,      \* the keys of nextArcIdsCached
    awaited,   \* the shards whose builder still waits for its answer
    orphaned,  \* history: for every shard, the leases of which no builder was told
    raced      \* history: did two requests ever work on the caches at the same time?

requestVars == <<db, cache, paused, reply, held, req, keys, awaited, orphaned, raced>>

NoVO == Answer("none", NoShard, NoArc)

Idle == [at |-> "idle", list |-> <<>>, vo |-> NoVO, seen |-> {}, todo |-> {}]

InitRequests ==
    /\ InitWorkflow
    /\ req = [s \in Shards |-> Idle]
    /\ keys = {}
    /\ awaited = {}
    /\ orphaned = [s \in Shards |-> {}]
    /\ raced = FALSE

At(s, step) == req[s].at = step

Goto(s, step) == req' = [req EXCEPT ![s].at = step]

(* The request of s works on the caches.                                   *)
Busy(s) == req[s].at \in {"put", "size", "remove", "purge"}

(* The file that is committed for s, and on its way to the builder.        *)
InTransit(s) == IF At(s, "answer") THEN {req[s].vo.id} ELSE {}

(* The request of s ends, and its builder no longer waits for it.          *)
Finish(s, kind, a) ==
    /\ reply' = Answer(kind, s, a)
    /\ req' = [req EXCEPT ![s] = Idle]
    /\ awaited' = awaited \ {s}

FinishWithout(s, kind) == Finish(s, kind, NoArc) /\ UNCHANGED <<held, orphaned>>

-----------------------------------------------------------------------------

Begin(s) ==
    /\ At(s, "idle")
    /\ Goto(s, "check")
    /\ awaited' = awaited \cup {s}
    /\ UNCHANGED <<db, cache, paused, reply, held, keys, orphaned, raced>>

(* A faulty variant of Check: the list is filled anew by every request.    *)
CheckReloading(s) ==
    /\ At(s, "check")
    /\ \E list \in NextArcIdsToCache(s) :
          req' = [req EXCEPT ![s].at = "put", ![s].list = list]
    /\ raced' = (raced \/ \E t \in Shards \ {s} : Busy(t))
    /\ UNCHANGED <<db, cache, paused, reply, held, keys, awaited, orphaned>>

(* If the shard's list is missing or empty, query what is committed. The   *)
(* test and the query are one step: an empty list stays so until this very *)
(* request fills it.                                                       *)
Check(s) ==
    /\ At(s, "check")
    /\ \/ cache[s] # <<>> /\ Goto(s, "size")
       \/ /\ cache[s] = <<>>
          /\ \E list \in NextArcIdsToCache(s) :
                req' = [req EXCEPT ![s].at = "put", ![s].list = list]
    /\ raced' = (raced \/ \E t \in Shards \ {s} : Busy(t))
    /\ UNCHANGED <<db, cache, paused, reply, held, keys, awaited, orphaned>>

Put(s) ==
    /\ At(s, "put")
    /\ cache' = [cache EXCEPT ![s] = req[s].list]
    /\ keys' = keys \cup {s}
    /\ req' = [req EXCEPT ![s].at = "size", ![s].list = <<>>]
    /\ UNCHANGED <<db, paused, reply, held, awaited, orphaned, raced>>

(* Is the list still, or again, empty?                                     *)
Size(s) ==
    /\ At(s, "size")
    /\ \/ cache[s] = <<>> /\ FinishWithout(s, "empty")
       \/ cache[s] # <<>> /\ Goto(s, "remove") /\ UNCHANGED <<reply, held, awaited, orphaned>>
    /\ UNCHANGED <<db, cache, paused, keys, raced>>

(* A faulty variant of TakeFirst: the row is marked before the lists are   *)
(* purged, and committed on its own.                                       *)
TakeFirstMarking(s) ==
    /\ At(s, "remove") /\ cache[s] # <<>>
    /\ cache' = [cache EXCEPT ![s] = Tail(@)]
    /\ db' = [db EXCEPT ![Head(cache[s]).id].shard = s, ![Head(cache[s]).id].state = "RUNNING"]
    /\ req' = [req EXCEPT ![s].at = "purge", ![s].vo = Head(cache[s]),
                          ![s].seen = keys, ![s].todo = keys]
    /\ UNCHANGED <<paused, reply, held, keys, awaited, orphaned, raced>>

(* remove(0); on a list emptied in the meantime it throws                  *)
(* IndexOutOfBoundsException, answered with HTTP 500.                      *)
TakeFirst(s) ==
    /\ At(s, "remove")
    /\ \/ /\ cache[s] = <<>>
          /\ FinishWithout(s, "failure")
          /\ UNCHANGED cache
       \/ /\ cache[s] # <<>>
          /\ cache' = [cache EXCEPT ![s] = Tail(@)]
          /\ req' = [req EXCEPT ![s].at = "purge", ![s].vo = Head(cache[s]),
                                ![s].seen = keys, ![s].todo = keys]
          /\ UNCHANGED <<reply, held, awaited, orphaned>>
    /\ UNCHANGED <<db, paused, keys, raced>>

(* A faulty variant of Purge: the file is removed from the own list only.  *)
PurgeOwnList(s) ==
    /\ At(s, "purge")
    /\ req[s].todo # {}
    /\ cache' = [cache EXCEPT ![s] = WithoutFile(@, req[s].vo)]
    /\ req' = [req EXCEPT ![s].todo = {}]
    /\ UNCHANGED <<db, paused, reply, held, keys, awaited, orphaned, raced>>

(* One round of the loop that removes the file from every list, in the     *)
(* order of the HashMap. A key added since the loop began makes the        *)
(* iterator throw ConcurrentModificationException, answered with HTTP 500. *)
Purge(s) ==
    /\ At(s, "purge")
    /\ req[s].todo # {}
    /\ \/ /\ keys # req[s].seen
          /\ FinishWithout(s, "failure")
          /\ UNCHANGED cache
       \/ /\ keys = req[s].seen
          /\ \E t \in req[s].todo :
                /\ cache' = [cache EXCEPT ![t] = WithoutFile(@, req[s].vo)]
                /\ req' = [req EXCEPT ![s].todo = @ \ {t}]
          /\ UNCHANGED <<reply, held, awaited, orphaned>>
    /\ UNCHANGED <<db, paused, keys, raced>>

(* setARCProperties and the facade's commit, after which the answer is on  *)
(* its way, unless the builder has stopped waiting for it.                 *)
Commit(s) ==
    LET vo == req[s].vo IN
    /\ At(s, "purge")
    /\ req[s].todo = {}
    /\ \/ /\ vo.id \in DOMAIN db
          /\ db' = [db EXCEPT ![vo.id].shard = s, ![vo.id].state = "RUNNING",
                              ![vo.id].priority = vo.priority]
          /\ \/ /\ s \in awaited
                /\ req' = [req EXCEPT ![s] = [Idle EXCEPT !.at = "answer", !.vo = vo]]
                /\ orphaned' = [orphaned EXCEPT ![s] = @ \ {vo.id}]
             \/ /\ s \notin awaited
                /\ req' = [req EXCEPT ![s] = Idle]
                /\ orphaned' = [orphaned EXCEPT ![s] = @ \cup {vo.id}]
          /\ UNCHANGED <<reply, held, awaited>>
       \/ /\ vo.id \notin DOMAIN db
          /\ FinishWithout(s, "error")
          /\ UNCHANGED db
    /\ UNCHANGED <<cache, paused, keys, raced>>

(* The builder receives the file.                                          *)
Deliver(s) ==
    /\ At(s, "answer")
    /\ held' = [held EXCEPT ![s] = @ \cup InTransit(s)]
    /\ Finish(s, "arc", req[s].vo.id)
    /\ UNCHANGED <<db, cache, paused, keys, orphaned, raced>>

(* The connection breaks, or times out: the builder lives, and is not told *)
(* what was leased to it. If it gave up earlier it comes to the same.      *)
LoseAnswer(s) ==
    /\ At(s, "answer")
    /\ orphaned' = [orphaned EXCEPT ![s] = @ \cup InTransit(s)]
    /\ req' = [req EXCEPT ![s] = Idle]
    /\ awaited' = awaited \ {s}
    /\ UNCHANGED <<db, cache, paused, reply, held, keys, raced>>

Handle(s) ==
    \/ Begin(s) \/ Check(s) \/ Put(s) \/ Size(s) \/ TakeFirst(s) \/ Purge(s) \/ Commit(s)
    \/ Deliver(s)

-----------------------------------------------------------------------------
(* The atomic requests of the workflow, beside the running nextARCs.       *)

Beside(A) == A /\ UNCHANGED <<req, keys, awaited, orphaned, raced>>

(* The workers of a builder report also while it asks for more. Bound:     *)
(* COMPLETED only, for Archon treats REJECTED the same.                    *)
ReportMeanwhile(s, a) == Beside(Report(s, a, "COMPLETED"))

ResetIdle(a, p) == (\A s \in Shards : a \notin InTransit(s)) /\ Beside(Reset(a, p))

(* What the workflow's operator and scripts may ask for in the meantime.   *)
(* The operator gives back neither what a builder holds nor what is on its *)
(* way to one. Left out: pausing, which only keeps requests from beginning *)
(* (Begin may wait as long), NextShardID, which writes nothing, Correct,   *)
(* which moves done files, that no shard's load reads, and Requeue, which  *)
(* is ResetShard with a priority.                                          *)
Operate ==
    \/ \E a \in Arcs, f \in Folders : Beside(Register(a, f)) \/ Beside(RegisterAgain(a, f))
    \/ \E a \in Arcs, p \in Priorities : ResetIdle(a, p) \/ Beside(Prioritise(a, p))
    \/ \E s \in Shards : InTransit(s) = {} /\ Beside(ResetShard(s))
    \/ \E a \in Arcs : Beside(Discard(a))

(* A builder is killed and started again: the request it had sent runs on, *)
(* beside the clearIndexing of its successor.                              *)
CrashBuilder(s) ==
    /\ RestartBuilder(s)
    /\ awaited' = awaited \ {s}
    /\ orphaned' = [orphaned EXCEPT ![s] = {}]
    /\ req' = IF At(s, "answer") THEN [req EXCEPT ![s] = Idle] ELSE req
    /\ UNCHANGED <<keys, raced>>

(* The container goes down and comes up: the requests under way end with   *)
(* no answer, those that were not committed without effect, and the caches *)
(* are empty.                                                              *)
RestartContainer ==
    /\ RestartArchon
    /\ req' = [s \in Shards |-> Idle]
    /\ keys' = {} /\ awaited' = {}
    /\ orphaned' = [s \in Shards |-> orphaned[s] \cup InTransit(s)]
    /\ UNCHANGED raced

NextRequests ==
    \/ \E s \in Shards : Handle(s) \/ LoseAnswer(s) \/ CrashBuilder(s)
    \/ \E s \in Shards, a \in Arcs : ReportMeanwhile(s, a)
    \/ Operate
    \/ RestartContainer

RequestsSpec == InitRequests /\ [][NextRequests]_requestVars

(* The container runs every request to its end, and the builders keep      *)
(* asking: the loops of IndexBuilder.buildIndex ask until they are told    *)
(* that nothing is left, and a builder that stopped or crashed is started  *)
(* again. Any number of restarts and resets may happen in between; bound:  *)
(* the builder that restarts has no request under way.                     *)
NextServing ==
    \/ \E s \in Shards : Handle(s) \/ LoseAnswer(s) \/ (At(s, "idle") /\ CrashBuilder(s))
    \/ \E s \in Shards, a \in Arcs : ReportMeanwhile(s, a)
    \/ \E a \in Arcs, f \in Folders : Beside(Register(a, f))
    \/ \E a \in Arcs, p \in Priorities : ResetIdle(a, p)

ServingSpec ==
    /\ InitRequests
    /\ [][NextServing]_requestVars
    /\ \A s \in Shards : WF_requestVars(Handle(s))

-----------------------------------------------------------------------------

(* The last answer is not part of it: the runs leave it out of the states. *)
RequestTypeOK ==
    /\ TableOK /\ CachesOK
    /\ held \in [Shards -> SUBSET Arcs]
    /\ keys \subseteq Shards /\ awaited \subseteq Shards
    /\ orphaned \in [Shards -> SUBSET Arcs] /\ raced \in BOOLEAN
    /\ \A s \in Shards :
          /\ req[s].at \in {"idle", "check", "put", "size", "remove", "purge", "answer"}
          /\ CacheList(req[s].list)
          /\ req[s].vo \in ArcVO \cup {NoVO}
          /\ req[s].todo \subseteq req[s].seen /\ req[s].seen \subseteq keys

(* No file is lost in a race: a row that says RUNNING for a shard is in    *)
(* the hands of that shard's builder or on its way there, also when        *)
(* another builder was handed the same file before, after or at the same   *)
(* time, and whichever request failed. What nobody was told of was         *)
(* committed when its builder had died or did not wait any more, or its    *)
(* answer was lost with the connection or the container; and nothing of    *)
(* that is left after the clearIndexing of the next start, but for a       *)
(* request that was still under way then.                                  *)
RunningIsHeld ==
    \A a \in DOMAIN db, s \in Shards :
        db[a].state = "RUNNING" /\ db[a].shard = s
            => a \in held[s] \cup InTransit(s) \cup orphaned[s]

(* Only a race shares a lease: as long as no request looked at its list    *)
(* while another request had looked at its own and not ended, no file is   *)
(* in two hands and what a builder works on is RUNNING for its shard,      *)
(* whatever crashes, restarts of the container and resets come in the      *)
(* middle of a request, and however old the caches are.                    *)
OnlyRacesShareLeases == ~raced => LeasesExclusive /\ HeldIsRunning

(* A file that waits is handed out, although requests race and fail, the   *)
(* builders crash for ever on the same other files and the operator gives  *)
(* files back for ever: a cache is drained before it is filled again, so   *)
(* it is a queue between two loads. This needs a cache that takes all the  *)
(* waiting files.                                                          *)
EveryFileHandedOut ==
    \A a \in Arcs :
        (a \in DOMAIN db /\ db[a].state = "NEW")
            ~> ~(a \in DOMAIN db /\ db[a].state = "NEW")
=============================================================================
