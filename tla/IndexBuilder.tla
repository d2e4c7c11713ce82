---------------------------- MODULE IndexBuilder ----------------------------
(***************************************************************************)
(* Arctika's index builder of one shard: the main thread that fetches ARC  *)
(* files from Archon, starts workers, watches the size of the Solr index   *)
(* and optimizes it; the workers on the threads of a pool, each of which   *)
(* also runs taskFinished, that reports to Archon or submits the worker    *)
(* again; and what can go wrong around them.                               *)
(*                                                                         *)
(* Archon is seen through the states of the rows this shard can get. The   *)
(* thread pool (JobController) and Solr are external: a job counts as      *)
(* active while a thread runs it or its taskFinished, not while it is      *)
(* queued; its future can be polled as soon as the worker has returned.    *)
(***************************************************************************)
EXTENDS Integers, FiniteSets, FiniteSetsExt

CONSTANTS
    Arcs,                    \* the ARC files of this shard
    MaxConcurrentWorkers,    \* arctika.max_concurrent_workers
    BatchSize,               \* arctika.batch_size
    MaxWorkerTries,          \* arctika.worker.tries
    MaxSize,                 \* arctika.index_max_size, in units of one ARC file
    OptimizeLimit,           \* arctika.optimize_limit of it
    TargetLimit              \* arctika.index_target_limit of it

ASSUME BuilderAssumption ==
    /\ IsFiniteSet(Arcs)
    /\ {MaxConcurrentWorkers, BatchSize} \subseteq Nat \ {0}
    /\ {MaxWorkerTries, MaxSize, OptimizeLimit, TargetLimit} \subseteq Nat
    /\ OptimizeLimit <= MaxSize /\ TargetLimit <= MaxSize

VARIABLES
    arcState,        \* Archon: the state of every file
    pc,              \* where the main thread is
    builderState,    \* IndexBuilder.builderState, written by the main thread only
    batch,           \* arcs in startNewIndexWorker
    emptyRun,        \* emptyRun in isIndexingFinished
    jobs,            \* the workers that were submitted and have not left the pool
    unpolled,        \* how many futures are finished and not polled
    size,            \* Solr: the size of the index
    optimized,       \* Solr: has the index at most one segment?
    lost             \* history: leased files that were dropped without a report

mainVars == <<pc, builderState, batch, emptyRun>>
solrVars == <<size, optimized>>
builderVars == <<arcState, mainVars, jobs, unpolled, solrVars, lost>>

ArcStates == {"NEW", "RUNNING", "COMPLETED", "REJECTED"}
Places == {"down", "check", "drain", "pending", "optimize", "wait", "decide",
           "limit", "fill", "fetch", "poll", "final", "stopped", "failed"}

(* A worker is queued, running, or ended and going through its files:      *)
(* those in todo remain, those in retry are set aside for another try.     *)
Job == [at : {"queued", "running", "ended"}, errors : Nat, files : SUBSET Arcs,
        todo : SUBSET Arcs, completed : SUBSET Arcs, retry : SUBSET Arcs]

Queued(files, errors) ==
    [at |-> "queued", errors |-> errors, files |-> files,
     todo |-> files, completed |-> {}, retry |-> {}]

Init ==
    /\ arcState = [a \in Arcs |-> "NEW"]
    /\ pc = "down" /\ builderState = "starting"
    /\ batch = {} /\ emptyRun = 0
    /\ jobs = {} /\ unpolled = 0
    /\ size = 0 /\ optimized = TRUE
    /\ lost = {}

(* The files that a worker, or the builder, still has to report.           *)
FilesOf(j) == j.todo \cup j.retry

InHand == batch \cup UNION {FilesOf(j) : j \in jobs}

Active == {j \in jobs : j.at # "queued"}

AllReturned == \A j \in jobs : j.at = "ended"    \* every future is finished

Goto(from, to) == pc = from /\ pc' = to

(* A faulty variant of ClearIndexing: every file is given back.            *)
ClearEverything ==
    /\ arcState' = [a \in Arcs |-> "NEW"]
    /\ lost' = {}

ClearIndexing ==
    /\ arcState' = [a \in Arcs |-> IF arcState[a] = "RUNNING" THEN "NEW" ELSE arcState[a]]
    /\ lost' = {}

(* A builder is started: clearIndexing, then isIndexingFinished.           *)
BuildIndex ==
    /\ Goto("down", "check")
    /\ builderState' = "indexing"
    /\ ClearIndexing
    /\ UNCHANGED <<batch, emptyRun, jobs, unpolled, solrVars>>

-----------------------------------------------------------------------------
(* isIndexingFinished: wait for the workers, optimize, decide.             *)

StartCheck ==
    /\ Goto("check", "drain")
    /\ builderState' = "checking" /\ emptyRun' = 0
    /\ UNCHANGED <<arcState, batch, jobs, unpolled, solrVars, lost>>

(* A faulty variant of Drain: one popAll too many.                         *)
DrainOnceMore(returned) ==
    /\ pc = "drain" /\ Active # {} /\ emptyRun <= MaxWorkerTries
    /\ returned = AllReturned
    /\ emptyRun' = emptyRun + 1 /\ unpolled' = 0
    /\ UNCHANGED <<arcState, pc, builderState, batch, jobs, solrVars, lost>>

(* One popAll. It returns when every future is finished, or after its      *)
(* timeout.                                                                *)
Drain(returned) ==
    /\ pc = "drain" /\ Active # {} /\ emptyRun < MaxWorkerTries
    /\ returned = AllReturned
    /\ emptyRun' = emptyRun + 1 /\ unpolled' = 0
    /\ UNCHANGED <<arcState, pc, builderState, batch, jobs, solrVars, lost>>

Drained ==
    /\ Goto("drain", "pending")
    /\ Active = {} \/ emptyRun = MaxWorkerTries
    /\ UNCHANGED <<arcState, builderState, batch, emptyRun, jobs, unpolled, solrVars, lost>>

Pending ==
    /\ \/ Active # {} /\ Goto("pending", "final") /\ builderState' = "finishing"
       \/ Active = {} /\ Goto("pending", "optimize") /\ builderState' = "optimizing"
    /\ UNCHANGED <<arcState, batch, emptyRun, jobs, unpolled, solrVars, lost>>

PerformOptimize ==
    /\ \/ ~optimized /\ size > OptimizeLimit /\ Goto("optimize", "wait")
       \/ (optimized \/ size <= OptimizeLimit) /\ Goto("optimize", "decide")
    /\ UNCHANGED <<arcState, builderState, batch, emptyRun, jobs, unpolled, solrVars, lost>>

WaitOptimized ==
    /\ Goto("wait", "decide")
    /\ optimized
    /\ UNCHANGED <<arcState, builderState, batch, emptyRun, jobs, unpolled, solrVars, lost>>

(* A faulty variant of Full: the target is the maximum.                    *)
FullOverMaximum == optimized /\ size > MaxSize

Full == optimized /\ size > TargetLimit

(* Too large: the exception leaves buildIndex, and the main thread ends.   *)
Decide ==
    /\ \/ size > MaxSize /\ Goto("decide", "failed") /\ builderState' = "finishing"
       \/ size <= MaxSize /\ Full /\ Goto("decide", "final") /\ builderState' = "finishing"
       \/ size <= MaxSize /\ ~Full /\ Goto("decide", "limit") /\ builderState' = "indexing"
    /\ UNCHANGED <<arcState, batch, emptyRun, jobs, unpolled, solrVars, lost>>

-----------------------------------------------------------------------------
(* The loop of buildIndex, with startNewIndexWorker. The main thread finds *)
(* canStartJobs true there: it set the state itself.                       *)

IsOptimizeLimitReached ==
    /\ Goto("limit", IF size > OptimizeLimit THEN "check" ELSE "fill")
    /\ UNCHANGED <<arcState, builderState, batch, emptyRun, jobs, unpolled, solrVars, lost>>

Fill ==
    /\ Goto("fill", IF Cardinality(Active) < MaxConcurrentWorkers THEN "fetch" ELSE "poll")
    /\ UNCHANGED <<arcState, builderState, batch, emptyRun, jobs, unpolled, solrVars, lost>>

(* nextARC leases a file, and the file is there.                           *)
FetchArc(a) ==
    /\ pc = "fetch" /\ Cardinality(batch) < BatchSize
    /\ arcState[a] = "NEW"
    /\ arcState' = [arcState EXCEPT ![a] = "RUNNING"]
    /\ batch' = batch \cup {a}
    /\ UNCHANGED <<pc, builderState, emptyRun, jobs, unpolled, solrVars, lost>>

(* The batch is dropped, and the loop left. The empty answer of nextARC is *)
(* not null: it is taken for the path of a file that does not exist.       *)
LeaveLoop(from, dropped) ==
    /\ Goto(from, "final")
    /\ builderState' = "finishing"
    /\ batch' = {}
    /\ lost' = lost \cup dropped
    /\ UNCHANGED <<emptyRun, jobs, unpolled, solrVars>>

FetchNone ==
    /\ pc = "fetch" /\ Cardinality(batch) < BatchSize
    /\ \A a \in Arcs : arcState[a] # "NEW"
    /\ LeaveLoop("fetch", batch)
    /\ UNCHANGED arcState

FetchMissing(a) ==
    /\ pc = "fetch" /\ Cardinality(batch) < BatchSize
    /\ arcState[a] = "NEW"
    /\ arcState' = [arcState EXCEPT ![a] = "RUNNING"]
    /\ LeaveLoop("fetch", batch \cup {a})

(* A faulty variant of Submit: the batch is not started anew.              *)
SubmitKeepingBatch ==
    /\ Cardinality(batch) = BatchSize
    /\ Goto("fetch", "fill")
    /\ jobs' = jobs \cup {Queued(batch, 0)}
    /\ UNCHANGED <<arcState, builderState, batch, emptyRun, unpolled, solrVars, lost>>

Submit ==
    /\ Cardinality(batch) = BatchSize
    /\ Goto("fetch", "fill")
    /\ jobs' = jobs \cup {Queued(batch, 0)}
    /\ batch' = {}
    /\ UNCHANGED <<arcState, builderState, emptyRun, unpolled, solrVars, lost>>

Poll ==
    /\ Goto("poll", "limit")
    /\ unpolled > 0
    /\ unpolled' = unpolled - 1
    /\ UNCHANGED <<arcState, builderState, batch, emptyRun, jobs, solrVars, lost>>

PollTimesOut ==
    /\ unpolled = 0
    /\ LeaveLoop("poll", {})
    /\ UNCHANGED arcState

(* The last popAll, after which buildIndex returns.                        *)
Final(returned) ==
    /\ Goto("final", "stopped")
    /\ returned = AllReturned
    /\ unpolled' = 0
    /\ UNCHANGED <<arcState, builderState, batch, emptyRun, jobs, solrVars, lost>>

-----------------------------------------------------------------------------
(* A worker and its taskFinished, on a thread of the pool.                 *)

Becomes(j, k) == jobs' = (jobs \ {j}) \cup {k}

Leaves(j) == jobs' = jobs \ {j}

Start(j) ==
    /\ j.at = "queued"
    /\ Cardinality(Active) < MaxConcurrentWorkers
    /\ Becomes(j, [j EXCEPT !.at = "running"])
    /\ UNCHANGED <<arcState, mainVars, unpolled, solrVars, lost>>

(* The index grew by n ARC files. Nothing tells sizes over the maximum     *)
(* apart, so they are one size.                                            *)
Grow(n) ==
    /\ size' = IF size + n <= MaxSize THEN size + n ELSE MaxSize + 1
    /\ optimized' = (optimized /\ n = 0)

(* IndexWorker.call returns: what the shell call reports file by file, or, *)
(* for a JVM or an exception, all of the files alike. A file that was      *)
(* rejected may have been indexed in part or in full.                      *)
Return(j) ==
    /\ j.at = "running"
    /\ \E completed \in SUBSET j.files :
          /\ Becomes(j, [j EXCEPT !.at = "ended", !.completed = completed])
          /\ \E n \in Cardinality(completed)..Cardinality(j.files) : Grow(n)
    /\ unpolled' = unpolled + 1
    /\ UNCHANGED <<arcState, mainVars, lost>>

SetARCState(a, st) == arcState' = [arcState EXCEPT ![a] = st]

ReportCompleted(j, a) ==
    /\ j.at = "ended" /\ a \in j.todo \cap j.completed
    /\ SetARCState(a, "COMPLETED")
    /\ Becomes(j, [j EXCEPT !.todo = @ \ {a}])
    /\ UNCHANGED <<mainVars, unpolled, solrVars, lost>>

(* A faulty variant of CanRetry: the errors are not counted.               *)
CanAlwaysRetry(j) == builderState = "indexing"

CanRetry(j) == j.errors < MaxWorkerTries /\ builderState = "indexing"

ReportRejected(j, a) ==
    /\ j.at = "ended" /\ a \in j.todo \ j.completed
    /\ ~CanRetry(j)
    /\ SetARCState(a, "REJECTED")
    /\ Becomes(j, [j EXCEPT !.todo = @ \ {a}])
    /\ UNCHANGED <<mainVars, unpolled, solrVars, lost>>

(* A faulty variant of SetAside: the file is reported as well.             *)
SetAsideAndReport(j, a) ==
    /\ j.at = "ended" /\ a \in j.todo \ j.completed
    /\ CanRetry(j)
    /\ SetARCState(a, "REJECTED")
    /\ Becomes(j, [j EXCEPT !.todo = @ \ {a}, !.retry = @ \cup {a}])
    /\ UNCHANGED <<mainVars, unpolled, solrVars, lost>>

SetAside(j, a) ==
    /\ j.at = "ended" /\ a \in j.todo \ j.completed
    /\ CanRetry(j)
    /\ Becomes(j, [j EXCEPT !.todo = @ \ {a}, !.retry = @ \cup {a}])
    /\ UNCHANGED <<arcState, mainVars, unpolled, solrVars, lost>>

(* Faulty variants of TaskFinished: the worker is submitted again with all *)
(* of its files; it is not submitted again.                                *)
TaskFinishedAllAgain(j) ==
    /\ j.at = "ended" /\ j.todo = {}
    /\ IF j.retry = {} THEN Leaves(j) ELSE Becomes(j, Queued(j.files, j.errors + 1))
    /\ UNCHANGED <<arcState, mainVars, unpolled, solrVars, lost>>

TaskFinishedForGood(j) ==
    /\ j.at = "ended" /\ j.todo = {}
    /\ Leaves(j)
    /\ UNCHANGED <<arcState, mainVars, unpolled, solrVars, lost>>

TaskFinished(j) ==
    /\ j.at = "ended" /\ j.todo = {}
    /\ IF j.retry = {} THEN Leaves(j) ELSE Becomes(j, Queued(j.retry, j.errors + 1))
    /\ UNCHANGED <<arcState, mainVars, unpolled, solrVars, lost>>

JobStep(j) ==
    \/ Start(j) \/ Return(j) \/ TaskFinished(j)
    \/ \E a \in Arcs : ReportCompleted(j, a) \/ ReportRejected(j, a) \/ SetAside(j, a)

-----------------------------------------------------------------------------
(* Solr merges its segments, on request or by itself. Documents that were  *)
(* replaced are dropped; bound: one ARC file's worth at a time.            *)
Merge ==
    /\ ~optimized
    /\ optimized' = TRUE
    /\ size' \in {size, size - 1} \cap Nat
    /\ UNCHANGED <<arcState, mainVars, jobs, unpolled, lost>>

(* What goes wrong.                                                        *)

(* Solr or Archon does not answer a builder that is started: clearIndexing *)
(* was not sent, has failed, or was done and its answer got lost.          *)
StartFails ==
    /\ Goto("down", "failed")
    /\ \/ UNCHANGED <<builderState, arcState, lost>>
       \/ builderState' = "indexing" /\ (ClearIndexing \/ UNCHANGED <<arcState, lost>>)
    /\ UNCHANGED <<batch, emptyRun, jobs, unpolled, solrVars>>

(* setARCState throws for a file, and ends taskFinished: nothing else is   *)
(* reported or submitted any more for this worker. Archon may have made    *)
(* the change and its answer got lost.                                     *)
ReportFails(j, a) ==
    /\ j.at = "ended" /\ a \in j.todo
    /\ a \in j.completed \/ ~CanRetry(j)
    /\ Leaves(j)
    /\ \/ lost' = lost \cup FilesOf(j) /\ UNCHANGED arcState
       \/ /\ lost' = lost \cup (FilesOf(j) \ {a})
          /\ SetARCState(a, IF a \in j.completed THEN "COMPLETED" ELSE "REJECTED")
    /\ UNCHANGED <<mainVars, unpolled, solrVars>>

(* The worker dies of an Error, which call does not catch.                 *)
WorkerDies(j) ==
    /\ j.at = "running"
    /\ Leaves(j)
    /\ lost' = lost \cup FilesOf(j)
    /\ unpolled' = unpolled + 1
    /\ UNCHANGED <<arcState, mainVars, solrVars>>

(* Archon or Solr does not answer the main thread: the exception leaves    *)
(* buildIndex.                                                             *)
RequestFails ==
    /\ pc \in {"optimize", "wait", "decide", "limit", "fetch"}
    /\ pc' = "failed"
    /\ batch' = {}
    /\ lost' = lost \cup batch
    /\ UNCHANGED <<arcState, builderState, emptyRun, jobs, unpolled, solrVars>>

(* nextARC leases a file, and the answer does not arrive.                  *)
FetchLost(a) ==
    /\ pc = "fetch" /\ Cardinality(batch) < BatchSize
    /\ arcState[a] = "NEW"
    /\ arcState' = [arcState EXCEPT ![a] = "RUNNING"]
    /\ pc' = "failed"
    /\ batch' = {}
    /\ lost' = lost \cup batch \cup {a}
    /\ UNCHANGED <<builderState, emptyRun, jobs, unpolled, solrVars>>

(* The process ends, when the main thread has ended or at any time.        *)
Exit ==
    /\ pc # "down"
    /\ pc' = "down" /\ builderState' = "starting"
    /\ batch' = {} /\ emptyRun' = 0 /\ jobs' = {} /\ unpolled' = 0
    /\ lost' = lost \cup InHand
    /\ UNCHANGED <<arcState, solrVars>>

Main ==
    \/ StartCheck \/ Drain(TRUE) \/ Drained \/ Pending
    \/ PerformOptimize \/ WaitOptimized \/ Decide
    \/ IsOptimizeLimitReached \/ Fill
    \/ \E a \in Arcs : FetchArc(a)
    \/ FetchNone \/ Submit \/ Poll \/ Final(TRUE)

Work == \E j \in jobs : JobStep(j)

NextHealthy == BuildIndex \/ Main \/ Work \/ Merge

Trouble ==
    \/ Drain(FALSE) \/ PollTimesOut \/ Final(FALSE) \/ StartFails \/ RequestFails
    \/ \E a \in Arcs : FetchMissing(a) \/ FetchLost(a)
    \/ \E j \in jobs : WorkerDies(j) \/ \E a \in Arcs : ReportFails(j, a)

(* A builder for which nothing goes wrong; one for which everything goes   *)
(* wrong but its process survives; builders that are started again         *)
(* whenever their process has ended.                                       *)
HealthySpec == Init /\ [][NextHealthy]_builderVars

(* The main thread is scheduled, and its poll times out; a worker's        *)
(* process is stopped after four hours, so every worker ends; Solr ends    *)
(* its merges; Archon does not stay paused for ever, for a builder that is *)
(* told to wait asks again after ten minutes, which is no step here. The   *)
(* timeout is needed: the main thread may poll for a worker whose future   *)
(* it has polled already, while its taskFinished runs.                     *)
Fairness ==
    /\ WF_builderVars(Main \/ PollTimesOut)
    /\ WF_builderVars(Work)
    /\ WF_builderVars(Merge)

Spec == Init /\ [][NextHealthy \/ Trouble]_builderVars /\ Fairness

RestartingSpec == Init /\ [][NextHealthy \/ Trouble \/ Exit]_builderVars

-----------------------------------------------------------------------------

Finished == {"COMPLETED", "REJECTED"}

BuilderTypeOK ==
    /\ arcState \in [Arcs -> ArcStates]
    /\ pc \in Places
    /\ builderState \in {"starting", "indexing", "checking", "optimizing", "finishing"}
    /\ batch \subseteq Arcs /\ Cardinality(batch) <= BatchSize
    /\ emptyRun \in 0..MaxWorkerTries
    /\ jobs \subseteq Job /\ Cardinality(Active) <= MaxConcurrentWorkers
    /\ unpolled \in Nat
    /\ size \in 0..(MaxSize + 1) /\ optimized \in BOOLEAN
    /\ lost \subseteq Arcs

(* What the builder works on is leased to it: a file set aside for another *)
(* try has not been reported, and a reported file is not tried again.      *)
InHandIsRunning == \A a \in InHand : arcState[a] = "RUNNING"

(* No file is with two workers, or with a worker and in the next batch:    *)
(* its documents are not written to Solr by two at a time.                 *)
OneWorkerPerFile ==
    /\ \A j, k \in jobs : j # k => FilesOf(j) \cap FilesOf(k) = {}
    /\ \A j \in jobs : FilesOf(j) \cap batch = {}

(* A file is tried at most once more than arctika.worker.tries says: the   *)
(* property file calls it the number of retries.                           *)
TriesBounded == \A j \in jobs : j.errors <= MaxWorkerTries

(* What is reported to Archon stays reported: neither a late report of     *)
(* another thread nor the clearIndexing of a restart takes it back.        *)
FinishedIsFinal ==
    [][\A a \in Arcs : arcState[a] \in Finished => arcState'[a] = arcState[a]]_builderVars

(* Nothing gets lost between the threads: a leased file is with the main   *)
(* thread or with a worker until it is reported. The files that are        *)
(* dropped are those of a batch that is cut short, of a report that fails, *)
(* of a worker that dies and of a process that ends, and no others.        *)
RunningIsAccountedFor ==
    \A a \in Arcs : arcState[a] = "RUNNING" => a \in InHand \cup lost

(* A builder that was started stops: main loop, optimization and retries   *)
(* come to an end, given TargetLimit <= OptimizeLimit.                     *)
BuilderStops == pc # "down" ~> pc \in {"stopped", "failed"}

-----------------------------------------------------------------------------
(* The builder implements BuilderLeases, with what is in hand as its work. *)

StatusOf ==
    [a \in Arcs |-> CASE arcState[a] = "NEW" -> "free"
                      [] arcState[a] = "RUNNING" -> "leased"
                      [] OTHER -> "done"]

Leases == INSTANCE BuilderLeases WITH status <- StatusOf, working <- InHand

(* Threads, batches, retries, lost answers, crashes: seen from Archon the  *)
(* builder takes files, drops some, and finishes only what it works on; no *)
(* file enters its hands but by a lease.                                   *)
ImplementsLeases == Leases!Spec

-----------------------------------------------------------------------------
(* What the comments promise, and the code does not keep.                  *)

(* IndexBuilder.buildIndex warns of files that stay marked as being        *)
(* indexed when workers are left, and otherwise leaves none.               *)
QuietShutdownLeavesNone ==
    [][Final(TRUE) /\ Active = {} => \A a \in Arcs : arcState[a] # "RUNNING"]_builderVars
=============================================================================
