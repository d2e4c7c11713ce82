--------------------------- MODULE ArchonWorkflow ---------------------------
(***************************************************************************)
(* Archon as it is operated: one builder process per shard that fetches    *)
(* ARC files, reports them and is restarted after a crash (IndexBuilder);  *)
(* the registration script that adds files (register_add_arc_files.sh);    *)
(* and an operator who gives back only what no builder is working on.      *)
(* Under this discipline the caches are never stale, no file is leased     *)
(* twice, and Archon implements ArcLeases.                                 *)
(*                                                                         *)
(* A registered file that moves to another folder (addOrUpdateARC) is not  *)
(* part of the discipline: a cache keeps the old path, which no longer     *)
(* equals the path that another shard's cache was filled with.             *)
(***************************************************************************)
EXTENDS Archon

VARIABLE held    \* for every shard, the files its builder was given and has not reported

workflowVars == <<db, cache, paused, reply, held>>

Held == UNION {held[s] : s \in Shards}

InitWorkflow == Init /\ held = [s \in Shards |-> {}]

(* The builder of s asks for work and receives the answer.                 *)
Fetch(s) ==
    /\ NextARC(s)
    /\ held' = IF reply'.kind = "arc" THEN [held EXCEPT ![s] = @ \cup {reply'.arc}] ELSE held

(* The builder of s asks for work and dies, or times out, before the       *)
(* answer arrives: Archon has committed a lease that nobody holds.         *)
FetchLost(s) == NextARC(s) /\ UNCHANGED held

(* IndexBuilder.taskFinished.                                              *)
Report(s, a, st) ==
    /\ a \in held[s]
    /\ SetARCState(a, st)
    /\ held' = [held EXCEPT ![s] = @ \ {a}]

(* IndexBuilder.buildIndex starts with clearIndexing.                      *)
RestartBuilder(s) ==
    /\ ClearIndexing(s)
    /\ held' = [held EXCEPT ![s] = {}]

Register(a, f) == AddARC(a, f) /\ UNCHANGED held

RegisterAgain(a, f) ==
    /\ a \in DOMAIN db => f = db[a].folder
    /\ AddOrUpdateARC(a, f)
    /\ UNCHANGED held

(* The operator gives back a file nobody holds, or all the files of a      *)
(* shard whose builder holds none.                                         *)
Reset(a, p) == a \notin Held /\ ResetArcWithPriority(a, p) /\ UNCHANGED held

ResetShard(s) == held[s] = {} /\ ResetShardID(s) /\ UNCHANGED held

Requeue(s, p) == held[s] = {} /\ SetShardState(s, "NEW", p) /\ UNCHANGED held

(* A new priority, or a corrected   row of a file that is done with.      *)
Prioritise(a, p) == SetARCPriority(a, p) /\ UNCHANGED held

Finished == {"COMPLETED", "REJECTED"}

Correct(a, s, st, p) ==
    /\ a \in DOMAIN db => db[a].state \in Finished
    /\ SetARCProperties(a, s, st, p)
    /\ UNCHANGED held

Discard(a) ==
    /\ a \in DOMAIN db => db[a].state \in Finished
    /\ RemoveARC(a)
    /\ UNCHANGED held

AskShardID == NextShardID /\ UNCHANGED held

Pause(b) == SetPaused(b) /\ UNCHANGED held

RestartArchon == RestartServer /\ UNCHANGED held

NextWorkflow ==
    \/ \E s \in Shards : Fetch(s) \/ FetchLost(s) \/ RestartBuilder(s) \/ ResetShard(s)
    \/ \E s \in Shards, a \in Arcs, st \in Finished : Report(s, a, st)
    \/ \E a \in Arcs, f \in Folders : Register(a, f) \/ RegisterAgain(a, f)
    \/ \E a \in Arcs, p \in Priorities : Reset(a, p) \/ Prioritise(a, p)
    \/ \E s \in Shards, p \in Priorities : Requeue(s, p)
    \/ \E a \in Arcs, s \in Shards, st \in Finished, p \in Priorities : Correct(a, s, st, p)
    \/ \E a \in Arcs : Discard(a)
    \/ AskShardID
    \/ \E b \in BOOLEAN : Pause(b)
    \/ RestartArchon

WorkflowSpec == InitWorkflow /\ [][NextWorkflow]_workflowVars

-----------------------------------------------------------------------------

(* Every cached entry is still up for grabs by the shard it is cached for, *)
(* under the path it has in the table: what nextARC hands out without      *)
(* looking at the table again is never stale.                              *)
CacheFresh ==
    \A s \in Shards : \A i \in 1..Len(cache[s]) :
        /\ cache[s][i].id \in Eligible(s)
        /\ cache[s][i].folder = db[cache[s][i].id].folder

(* What a builder works on is RUNNING in the table, for that shard: no two *)
(* builders work on one file, and clearIndexing of one shard never gives   *)
(* away what the builder of another shard is working on.                   *)
HeldIsRunning ==
    \A s \in Shards : \A a \in held[s] :
        a \in DOMAIN db /\ db[a].state = "RUNNING" /\ db[a].shard = s

(* The documents of one file never end up in two shards because of Archon. *)
LeasesExclusive ==
    \A s, t \in Shards : s # t => held[s] \cap held[t] = {}

(* A file that was started or finished has a shard.                        *)
StartedHasShard ==
    \A a \in DOMAIN db : db[a].state # "NEW" => db[a].shard # NoShard

(* Only a file in state NEW, with this shard or with none, is handed out,  *)
(* as ArchonConnector.nextARC promises although the cached entry is not    *)
(* compared with the table again. It takes the whole discipline: of Archon *)
(* alone, with an administrator who changes rows at will, this is false.   *)
OnlyEligibleReturned ==
    [][\A s \in Shards :
          reply'.kind = "arc" /\ reply'.shard = s => reply'.arc \in Eligible(s)]_workflowVars

-----------------------------------------------------------------------------
(* Archon implements ArcLeases: RUNNING is a lease, COMPLETED and REJECTED *)
(* are both done.                                                          *)

LeaseStatus(st) ==
    CASE st = "NEW" -> "free"
      [] st = "RUNNING" -> "leased"
      [] OTHER -> "done"

LeaseOf ==
    [a \in Arcs |->
        IF a \in DOMAIN db
        THEN [status |-> LeaseStatus(db[a].state), shard |-> db[a].shard]
        ELSE [status |-> "absent", shard |-> NoShard]]

AnswerOf ==
    IF reply.kind \in {"arc", "empty"}
    THEN [shard |-> reply.shard, arc |-> reply.arc]
    ELSE [shard |-> NoShard, arc |-> NoArc]

Leases == INSTANCE ArcLeases WITH lease <- LeaseOf, answer <- AnswerOf

(* The workflow, seen through LeaseOf, is a behaviour of ArcLeases.        *)
ImplementsLeases == Leases!Spec

-----------------------------------------------------------------------------
(* What every builder sees: it behaves as BuilderLeases says, which is     *)
(* what IndexBuilder implements, and nobody touches what it works on.      *)

StatusFor(s) ==
    [a \in Arcs |->
        IF a \in DOMAIN db /\ db[a].state \in Finished THEN "done"
        ELSE IF a \in DOMAIN db /\ db[a].state = "RUNNING" /\ db[a].shard = s THEN "leased"
        ELSE "free"]

Builder(s) == INSTANCE BuilderLeases WITH status <- StatusFor(s), working <- held[s]

(* Between the lease of a file and its report, a restart or a crash of its *)
(* builder, no request of anyone else changes the state of that file.      *)
NobodyInterferes ==
    /\ \A s \in Shards : Builder(s)!Init
    /\ [][\A s \in Shards : Builder(s)!OpenNext]_workflowVars
=============================================================================
