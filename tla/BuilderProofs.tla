---------------------------- MODULE BuilderProofs ----------------------------
(***************************************************************************)
(* Proofs about the index builder of one shard that is started again       *)
(* whenever its process has ended, for any number of ARC files, threads,   *)
(* tries and any limits.                                                   *)
(*                                                                         *)
(* Every step is put into one of four effects on what Archon and the       *)
(* builder have in common: the files that are leased, in hand and lost.    *)
(* The safety properties and the refinement are then read off the effect.  *)
(***************************************************************************)
EXTENDS IndexBuilder, FiniteSetTheorems, TLAPS

(* A worker sets files aside only while it has tries left.                 *)
JobOK(j) ==
    /\ j \in Job
    /\ j.todo \cap j.retry = {}
    /\ j.errors <= MaxWorkerTries
    /\ j.retry # {} => j.errors < MaxWorkerTries

JobsOK ==
    /\ IsFiniteSet(jobs)
    /\ \A j \in jobs : JobOK(j)
    /\ Cardinality(Active) <= MaxConcurrentWorkers
    /\ OneWorkerPerFile

BatchOK == batch \subseteq Arcs /\ Cardinality(batch) <= BatchSize

(* There is a batch only while it is filled, and no worker outlives the    *)
(* process.                                                                *)
PlaceOK ==
    /\ pc # "fetch" => batch = {}
    /\ pc = "down" => jobs = {}

MainOK ==
    /\ pc \in Places
    /\ builderState \in {"starting", "indexing", "checking", "optimizing", "finishing"}
    /\ emptyRun \in 0..MaxWorkerTries
    /\ unpolled \in Nat
    /\ size \in 0..(MaxSize + 1) /\ optimized \in BOOLEAN

(* What the builder has: its threads and what they work on.                *)
ShapeOK == MainOK /\ BatchOK /\ JobsOK /\ PlaceOK

(* What Archon and the builder agree on.                                   *)
SharedOK ==
    /\ arcState \in [Arcs -> ArcStates]
    /\ lost \subseteq Arcs
    /\ InHandIsRunning
    /\ RunningIsAccountedFor

BuilderInv == ShapeOK /\ SharedOK

-----------------------------------------------------------------------------
(* The effects. In each of them no file vanishes from the books: what was  *)
(* in hand or lost still is, unless it was reported or given back.         *)

Kept == InHand \cup lost \subseteq InHand' \cup lost'

NothingShared ==
    /\ arcState' = arcState
    /\ InHand' \subseteq InHand
    /\ Kept

Leased(a) ==
    /\ arcState[a] = "NEW"
    /\ arcState' = [arcState EXCEPT ![a] = "RUNNING"]
    /\ InHand' \subseteq InHand \cup {a}
    /\ Kept /\ a \in InHand' \cup lost'

Reported(a, st) ==
    /\ a \in InHand
    /\ arcState' = [arcState EXCEPT ![a] = st]
    /\ InHand' \subseteq InHand \ {a}
    /\ (InHand \cup lost) \ {a} \subseteq InHand' \cup lost'

GivenBack ==
    /\ InHand' = {}
    /\ arcState' = [a \in Arcs |-> IF arcState[a] = "RUNNING" THEN "NEW" ELSE arcState[a]]

Effect ==
    /\ lost' \subseteq Arcs
    /\ \/ NothingShared
       \/ GivenBack
       \/ \E a \in Arcs : Leased(a) \/ \E st \in Finished : Reported(a, st)

LEMMA EffectKeepsShared ==
    ASSUME SharedOK, Effect
    PROVE  SharedOK'
<1> USE DEF SharedOK, InHandIsRunning, RunningIsAccountedFor
<1>1. CASE NothingShared
  BY <1>1 DEF NothingShared, Kept, Effect
<1>2. CASE GivenBack
  BY <1>2 DEF GivenBack, Effect, ArcStates
<1>3. ASSUME NEW a \in Arcs, Leased(a)
      PROVE  SharedOK'
  BY <1>3 DEF Leased, Kept, Effect, ArcStates
<1>4. ASSUME NEW a \in Arcs, NEW st \in Finished, Reported(a, st)
      PROVE  SharedOK'
  BY <1>4 DEF Reported, Effect, ArcStates, Finished
<1> QED
  BY <1>1, <1>2, <1>3, <1>4 DEF Effect

LEMMA EffectKeepsFinished ==
    ASSUME SharedOK, Effect, NEW a \in Arcs, arcState[a] \in Finished
    PROVE  arcState'[a] = arcState[a]
<1> USE DEF SharedOK, InHandIsRunning, Finished
<1>1. CASE NothingShared \/ GivenBack
  BY <1>1 DEF NothingShared, GivenBack
<1>2. ASSUME NEW b \in Arcs, Leased(b)
      PROVE  arcState'[a] = arcState[a]
  BY <1>2 DEF Leased
<1>3. ASSUME NEW b \in Arcs, NEW st \in Finished, Reported(b, st)
      PROVE  arcState'[a] = arcState[a]
  BY <1>3 DEF Reported
<1> QED
  BY <1>1, <1>2, <1>3 DEF Effect

(* Each effect is a step of BuilderLeases.                                 *)
LEMMA EffectIsAbstract ==
    ASSUME SharedOK, Effect
    PROVE  Leases!Next
<1>0. arcState \in [Arcs -> ArcStates] /\ \A a \in InHand : arcState[a] = "RUNNING"
  BY DEF SharedOK, InHandIsRunning
<1>1. CASE NothingShared
  BY <1>1 DEF NothingShared, Leases!Next, Leases!Drop, StatusOf
<1>2. CASE GivenBack
  <2>1. \A a \in Arcs : StatusOf'[a] = IF StatusOf[a] = "leased" THEN "free" ELSE StatusOf[a]
    BY <1>0, <1>2 DEF GivenBack, StatusOf, ArcStates
  <2>2. Leases!Restart
    BY <1>2, <2>1 DEF GivenBack, Leases!Restart, StatusOf
  <2> QED
    BY <2>2 DEF Leases!Next
<1>3. ASSUME NEW a \in Arcs, Leased(a)
      PROVE  Leases!Next
  <2>1. \A b \in Arcs : StatusOf'[b] = IF b = a THEN "leased" ELSE StatusOf[b]
    BY <1>0, <1>3 DEF Leased, StatusOf
  <2>2. StatusOf[a] = "free" /\ StatusOf' = [StatusOf EXCEPT ![a] = "leased"]
    BY <1>3, <2>1 DEF Leased, StatusOf
  <2>3. Leases!Take(a)
    BY <1>3, <2>2 DEF Leased, Leases!Take
  <2> QED
    BY <2>3 DEF Leases!Next
<1>4. ASSUME NEW a \in Arcs, NEW st \in Finished, Reported(a, st)
      PROVE  Leases!Next
  <2>1. \A b \in Arcs : StatusOf'[b] = IF b = a THEN "done" ELSE StatusOf[b]
    BY <1>0, <1>4 DEF Reported, StatusOf, Finished
  <2>2. StatusOf[a] = "leased" /\ StatusOf' = [StatusOf EXCEPT ![a] = "done"]
    BY <1>0, <1>4, <2>1 DEF Reported, StatusOf
  <2>3. Leases!Finish(a)
    BY <1>4, <2>2 DEF Reported, Leases!Finish
  <2> QED
    BY <2>3 DEF Leases!Next
<1> QED
  BY <1>1, <1>2, <1>3, <1>4 DEF Effect

-----------------------------------------------------------------------------
(* The threads. A step of one worker replaces it, or removes it.           *)

LEMMA ArcsFinite ==
    ASSUME NEW S \in SUBSET Arcs
    PROVE  IsFiniteSet(S) /\ Cardinality(S) \in Nat
  BY FS_Subset, FS_CardinalityType, BuilderAssumption

LEMMA ActiveFinite ==
    ASSUME JobsOK
    PROVE  IsFiniteSet(Active) /\ Cardinality(Active) \in Nat
<1>1. Active \in SUBSET jobs
  BY DEF Active
<1> QED
  BY <1>1, FS_Subset, FS_CardinalityType DEF JobsOK

LEMMA FewerActive ==
    ASSUME JobsOK, Active' \subseteq Active
    PROVE  Cardinality(Active') <= MaxConcurrentWorkers
<1>1. IsFiniteSet(Active) /\ Cardinality(Active) \in Nat
  BY ActiveFinite
<1>2. Active' \in SUBSET Active
  OBVIOUS
<1>3. Cardinality(Active') <= Cardinality(Active) /\ Cardinality(Active') \in Nat
  BY <1>1, <1>2, FS_Subset, FS_CardinalityType
<1> QED
  BY <1>1, <1>3, BuilderAssumption DEF JobsOK

LEMMA JobLeaves ==
    ASSUME ShapeOK, NEW j \in jobs, Leaves(j), UNCHANGED batch
    PROVE  /\ JobsOK'
           /\ InHand' \subseteq InHand \ FilesOf(j)
           /\ InHand \subseteq InHand' \cup FilesOf(j)
<1>1. IsFiniteSet(jobs')
  BY FS_RemoveElement DEF ShapeOK, JobsOK, Leaves
<1>2. Cardinality(Active') <= MaxConcurrentWorkers
  BY FewerActive DEF ShapeOK, Leaves, Active
<1>3. OneWorkerPerFile'
  BY DEF ShapeOK, JobsOK, Leaves, OneWorkerPerFile
<1>4. JobsOK'
  BY <1>1, <1>2, <1>3 DEF ShapeOK, JobsOK, Leaves
<1>5. InHand' \subseteq InHand \ FilesOf(j)
  BY DEF ShapeOK, JobsOK, OneWorkerPerFile, Leaves, InHand
<1>6. InHand \subseteq InHand' \cup FilesOf(j)
  BY DEF Leaves, InHand
<1> QED
  BY <1>4, <1>5, <1>6

(* A worker becomes another that has no other files, and is active only if *)
(* it was, or if a thread is free.                                         *)
LEMMA JobBecomes ==
    ASSUME ShapeOK, NEW j \in jobs, NEW k, Becomes(j, k), UNCHANGED batch,
           JobOK(k), FilesOf(k) \subseteq FilesOf(j),
           j \in Active \/ k.at = "queued" \/ Cardinality(Active) < MaxConcurrentWorkers
    PROVE  /\ JobsOK'
           /\ InHand' \subseteq (InHand \ FilesOf(j)) \cup FilesOf(k)
           /\ InHand \subseteq InHand' \cup (FilesOf(j) \ FilesOf(k))
<1>1. IsFiniteSet(jobs')
  BY FS_RemoveElement, FS_AddElement DEF ShapeOK, JobsOK, Becomes
<1>2. Cardinality(Active') <= MaxConcurrentWorkers
  <2>1. IsFiniteSet(Active) /\ Cardinality(Active) \in Nat
        /\ Cardinality(Active) <= MaxConcurrentWorkers
    BY ActiveFinite DEF ShapeOK, JobsOK
  <2>2. CASE k.at = "queued"
    <3>1. Active' \subseteq Active
      BY <2>2 DEF Active, Becomes
    <3> QED
      BY <3>1, FewerActive DEF ShapeOK
  <2>3. CASE k.at # "queued"
    <3>1. Active' = (Active \ {j}) \cup {k}
      BY <2>3 DEF Active, Becomes
    <3>2. /\ IsFiniteSet(Active \ {j}) /\ Cardinality(Active \ {j}) \in Nat
          /\ Cardinality(Active \ {j}) =
                IF j \in Active THEN Cardinality(Active) - 1 ELSE Cardinality(Active)
      BY <2>1, FS_RemoveElement, FS_CardinalityType
    <3>3. Cardinality(Active') <= Cardinality(Active \ {j}) + 1
      BY <3>1, <3>2, FS_AddElement
    <3>4. Cardinality(Active') \in Nat
      BY <3>1, <3>2, FS_AddElement, FS_CardinalityType
    <3> QED
      BY <2>1, <2>3, <3>2, <3>3, <3>4, BuilderAssumption
  <2> QED
    BY <2>2, <2>3
<1>3. OneWorkerPerFile'
  BY DEF ShapeOK, JobsOK, Becomes, OneWorkerPerFile
<1>4. JobsOK'
  BY <1>1, <1>2, <1>3 DEF ShapeOK, JobsOK, Becomes
<1>5. InHand' \subseteq (InHand \ FilesOf(j)) \cup FilesOf(k)
  BY DEF ShapeOK, JobsOK, OneWorkerPerFile, Becomes, InHand
<1>6. InHand \subseteq InHand' \cup (FilesOf(j) \ FilesOf(k))
  BY DEF Becomes, InHand
<1> QED
  BY <1>4, <1>5, <1>6

(* A step of the pool leaves the rest of the shape alone.                  *)
LEMMA PoolStep ==
    ASSUME ShapeOK, NEW j \in jobs, JobsOK', UNCHANGED mainVars, MainOK'
    PROVE  ShapeOK'
  BY DEF ShapeOK, BatchOK, PlaceOK, mainVars

(* The fields of the workers that JobStep makes.                           *)
LEMMA QueuedOK ==
    ASSUME NEW files \in SUBSET Arcs, NEW errors \in Nat, errors <= MaxWorkerTries
    PROVE  JobOK(Queued(files, errors)) /\ FilesOf(Queued(files, errors)) = files
  BY DEF JobOK, Queued, Job, FilesOf

-----------------------------------------------------------------------------
(* What a worker does: to its own files, and to nobody else's.             *)

StepOK == ShapeOK' /\ Effect

LEMMA WorkerSteps ==
    ASSUME BuilderInv, NEW j \in jobs, Start(j) \/ Return(j) \/ TaskFinished(j)
    PROVE  StepOK
<1>0. /\ JobOK(j) /\ MainOK /\ lost \subseteq Arcs /\ FilesOf(j) \subseteq Arcs
      /\ arcState' = arcState /\ lost' = lost /\ batch' = batch /\ UNCHANGED mainVars
  BY DEF BuilderInv, ShapeOK, SharedOK, JobsOK, JobOK, Job, FilesOf,
         Start, Return, TaskFinished, mainVars
<1>same. ASSUME NEW k, Becomes(j, k), JobOK(k), FilesOf(k) = FilesOf(j), MainOK',
                j \in Active \/ k.at = "queued" \/ Cardinality(Active) < MaxConcurrentWorkers
         PROVE  StepOK
  <2>1. /\ JobsOK' /\ InHand' \subseteq InHand /\ InHand \subseteq InHand'
    <3>1. FilesOf(j) \subseteq InHand
      BY DEF InHand
    <3> QED
      BY <1>0, <1>same, <3>1, JobBecomes DEF BuilderInv
  <2> QED
    BY <1>0, <1>same, <2>1, PoolStep DEF StepOK, BuilderInv, Effect, NothingShared, Kept
<1>1. CASE Start(j)
  <2> DEFINE k == [j EXCEPT !.at = "running"]
  <2>1. JobOK(k) /\ FilesOf(k) = FilesOf(j)
    BY <1>0 DEF JobOK, Job, FilesOf
  <2>2. Becomes(j, k) /\ MainOK' /\ Cardinality(Active) < MaxConcurrentWorkers
    BY <1>0, <1>1 DEF Start, MainOK, mainVars, solrVars
  <2> HIDE DEF k
  <2> QED
    BY <1>same, <2>1, <2>2
<1>2. CASE Return(j)
  <2>1. PICK completed \in SUBSET j.files :
           /\ Becomes(j, [j EXCEPT !.at = "ended", !.completed = completed])
           /\ \E n \in Cardinality(completed)..Cardinality(j.files) : Grow(n)
    BY <1>2 DEF Return
  <2> DEFINE k == [j EXCEPT !.at = "ended", !.completed = completed]
  <2>2. completed \in SUBSET Arcs
    BY <1>0 DEF JobOK, Job
  <2>3. JobOK(k) /\ FilesOf(k) = FilesOf(j)
    BY <1>0, <2>2 DEF JobOK, Job, FilesOf
  <2>4. j \in Active
    BY <1>2 DEF Return, Active
  <2>5. size' \in 0..(MaxSize + 1) /\ optimized' \in BOOLEAN
    <3>1. Cardinality(completed) \in Nat /\ Cardinality(j.files) \in Nat
      BY <1>0, <2>2, ArcsFinite DEF JobOK, Job
    <3>2. PICK n \in Cardinality(completed)..Cardinality(j.files) : Grow(n)
      BY <2>1
    <3>3. n \in Nat
      BY <3>1, <3>2
    <3> QED
      BY <1>0, <3>2, <3>3, BuilderAssumption DEF Grow, MainOK
  <2>6. MainOK'
    <3>1. unpolled' = unpolled + 1
      BY <1>2 DEF Return
    <3> QED
      BY <1>0, <2>5, <3>1 DEF MainOK, mainVars
  <2>7. Becomes(j, k)
    BY <2>1
  <2> HIDE DEF k
  <2> QED
    BY <1>same, <2>3, <2>4, <2>6, <2>7
<1>3. CASE TaskFinished(j)
  <2>1. MainOK' /\ j \in Active /\ FilesOf(j) = j.retry
    BY <1>0, <1>3 DEF TaskFinished, MainOK, mainVars, solrVars, Active, FilesOf
  <2>2. CASE j.retry = {}
    <3>1. JobsOK' /\ InHand' \subseteq InHand /\ InHand \subseteq InHand'
      BY <1>0, <1>3, <2>1, <2>2, JobLeaves DEF BuilderInv, TaskFinished
    <3> QED
      BY <1>0, <2>1, <3>1, PoolStep DEF StepOK, BuilderInv, Effect, NothingShared, Kept
  <2>3. CASE j.retry # {}
    <3>1. j.retry \in SUBSET Arcs /\ j.errors + 1 \in Nat /\ j.errors + 1 <= MaxWorkerTries
      BY <1>0, <2>3, BuilderAssumption DEF JobOK, Job
    <3>2. Becomes(j, Queued(j.retry, j.errors + 1))
      BY <1>3, <2>3 DEF TaskFinished
    <3>3. JobOK(Queued(j.retry, j.errors + 1))
          /\ FilesOf(Queued(j.retry, j.errors + 1)) = j.retry
      BY <3>1, QueuedOK
    <3> QED
      BY <1>same, <2>1, <3>2, <3>3
  <2> QED
    BY <2>2, <2>3
<1> QED
  BY <1>1, <1>2, <1>3

LEMMA ReportSteps ==
    ASSUME BuilderInv, NEW j \in jobs, NEW a \in Arcs,
           ReportCompleted(j, a) \/ ReportRejected(j, a) \/ SetAside(j, a)
    PROVE  StepOK
<1>0. /\ JobOK(j) /\ MainOK /\ lost \subseteq Arcs /\ FilesOf(j) \subseteq Arcs
      /\ lost' = lost /\ batch' = batch /\ UNCHANGED mainVars /\ MainOK'
      /\ j \in Active /\ a \in j.todo /\ FilesOf(j) \subseteq InHand
  BY DEF BuilderInv, ShapeOK, SharedOK, JobsOK, JobOK, Job, FilesOf, Active, InHand,
         ReportCompleted, ReportRejected, SetAside, mainVars, solrVars, MainOK
<1>1. CASE SetAside(j, a)
  <2> DEFINE k == [j EXCEPT !.todo = @ \ {a}, !.retry = @ \cup {a}]
  <2>1. j.errors < MaxWorkerTries
    BY <1>1 DEF SetAside, CanRetry
  <2>2. JobOK(k) /\ FilesOf(k) = FilesOf(j)
    BY <1>0, <2>1 DEF JobOK, Job, FilesOf
  <2>3. Becomes(j, k) /\ arcState' = arcState
    BY <1>1 DEF SetAside
  <2> HIDE DEF k
  <2>4. JobsOK' /\ InHand' \subseteq InHand /\ InHand \subseteq InHand'
    BY <1>0, <2>2, <2>3, JobBecomes DEF BuilderInv
  <2> QED
    BY <1>0, <2>3, <2>4, PoolStep DEF StepOK, BuilderInv, Effect, NothingShared, Kept
<1>2. CASE ReportCompleted(j, a) \/ ReportRejected(j, a)
  <2> DEFINE k == [j EXCEPT !.todo = @ \ {a}]
  <2>1. JobOK(k) /\ FilesOf(k) = FilesOf(j) \ {a}
    BY <1>0 DEF JobOK, Job, FilesOf
  <2>2. Becomes(j, k) /\ \E st \in Finished : arcState' = [arcState EXCEPT ![a] = st]
    BY <1>2 DEF ReportCompleted, ReportRejected, SetARCState, Finished
  <2> HIDE DEF k
  <2>3. a \in FilesOf(j)
    BY <1>0 DEF FilesOf
  <2>4. JobsOK' /\ InHand' \subseteq InHand \ {a} /\ InHand \ {a} \subseteq InHand'
    BY <1>0, <2>1, <2>2, <2>3, JobBecomes DEF BuilderInv
  <2>5. \E st \in Finished : Reported(a, st)
    BY <1>0, <2>2, <2>3, <2>4 DEF Reported
  <2> QED
    BY <1>0, <2>4, <2>5, PoolStep DEF StepOK, BuilderInv, Effect
<1> QED
  BY <1>1, <1>2

(* A worker that dies, or whose report fails, drops all of its files, one  *)
(* of which may have been reported.                                        *)
LEMMA JobTroubles ==
    ASSUME BuilderInv, NEW j \in jobs, WorkerDies(j) \/ \E a \in Arcs : ReportFails(j, a)
    PROVE  StepOK
<1>0. /\ JobOK(j) /\ MainOK /\ lost \subseteq Arcs /\ FilesOf(j) \subseteq Arcs
      /\ FilesOf(j) \subseteq InHand
  BY DEF BuilderInv, ShapeOK, SharedOK, JobsOK, JobOK, Job, FilesOf, InHand
<1>1. batch' = batch /\ UNCHANGED mainVars /\ MainOK' /\ Leaves(j)
  BY <1>0 DEF WorkerDies, ReportFails, mainVars, solrVars, MainOK
<1>2. /\ JobsOK' /\ InHand' \subseteq InHand \ FilesOf(j)
      /\ InHand \subseteq InHand' \cup FilesOf(j)
  BY <1>1, JobLeaves DEF BuilderInv
<1>3. ShapeOK'
  BY <1>1, <1>2, PoolStep DEF BuilderInv
<1>4. CASE arcState' = arcState /\ lost' = lost \cup FilesOf(j)
  BY <1>0, <1>2, <1>3, <1>4 DEF StepOK, Effect, NothingShared, Kept
<1>5. ASSUME NEW a \in Arcs, a \in FilesOf(j), lost' = lost \cup (FilesOf(j) \ {a}),
             \E st \in Finished : arcState' = [arcState EXCEPT ![a] = st]
      PROVE  StepOK
  <2>1. \E st \in Finished : Reported(a, st)
    BY <1>0, <1>2, <1>5 DEF Reported
  <2> QED
    BY <1>0, <1>3, <1>5, <2>1 DEF StepOK, Effect
<1> QED
  BY <1>4, <1>5 DEF WorkerDies, ReportFails, SetARCState, Finished, FilesOf

-----------------------------------------------------------------------------
(* What the main thread does beside fetching and submitting.               *)

LEMMA InHandOnly ==
    ASSUME UNCHANGED <<batch, jobs>>
    PROVE  InHand' = InHand /\ (JobsOK => JobsOK') /\ (BatchOK => BatchOK')
  BY DEF InHand, JobsOK, BatchOK, Active, OneWorkerPerFile

MainOnly ==
    /\ UNCHANGED <<arcState, batch, jobs, lost>>
    /\ pc # "fetch" /\ pc' # "down"
    /\ MainOK'

LEMMA MainOnlySteps ==
    ASSUME BuilderInv, MainOnly
    PROVE  StepOK
<1>1. InHand' = InHand /\ JobsOK' /\ BatchOK'
  BY InHandOnly DEF MainOnly, BuilderInv, ShapeOK
<1> QED
  BY <1>1 DEF StepOK, MainOnly, ShapeOK, PlaceOK, Effect, NothingShared, Kept, BuilderInv,
              SharedOK

LEMMA WaitingSteps ==
    ASSUME BuilderInv,
           \/ StartCheck \/ Drained \/ Pending
           \/ PerformOptimize \/ WaitOptimized \/ Decide
           \/ IsOptimizeLimitReached \/ Fill \/ Poll
           \/ \E returned \in BOOLEAN : Drain(returned) \/ Final(returned)
    PROVE  StepOK
<1> USE DEF MainOnly, MainOK, Goto, Places, solrVars
<1>0. MainOK
  BY DEF BuilderInv, ShapeOK
<1>1. CASE StartCheck
  <2>1. MainOnly
    BY <1>0, <1>1, BuilderAssumption DEF StartCheck
  <2> QED
    BY <2>1, MainOnlySteps
<1>2. CASE Drained \/ Pending \/ PerformOptimize \/ WaitOptimized
  <2>1. MainOnly
    BY <1>0, <1>2 DEF Drained, Pending, PerformOptimize, WaitOptimized
  <2> QED
    BY <2>1, MainOnlySteps
<1>3. CASE Decide
  <2>1. MainOnly
    BY <1>0, <1>3 DEF Decide
  <2> QED
    BY <2>1, MainOnlySteps
<1>4. CASE IsOptimizeLimitReached \/ Fill
  <2>1. MainOnly
    BY <1>0, <1>4 DEF IsOptimizeLimitReached, Fill
  <2> QED
    BY <2>1, MainOnlySteps
<1>5. CASE Poll
  <2>1. MainOnly
    BY <1>0, <1>5 DEF Poll
  <2> QED
    BY <2>1, MainOnlySteps
<1>6. ASSUME NEW returned \in BOOLEAN, Drain(returned) \/ Final(returned)
      PROVE  StepOK
  <2>1. MainOnly
    BY <1>0, <1>6, BuilderAssumption DEF Drain, Final
  <2> QED
    BY <2>1, MainOnlySteps
<1> QED
  BY <1>1, <1>2, <1>3, <1>4, <1>5, <1>6

(* The batch and the jobs of startNewIndexWorker.                          *)
LEMMA FetchSteps ==
    ASSUME BuilderInv, NEW a \in Arcs, FetchArc(a) \/ FetchMissing(a) \/ FetchLost(a)
    PROVE  StepOK
<1>0. /\ ShapeOK /\ MainOK /\ BatchOK /\ JobsOK /\ lost \subseteq Arcs
      /\ pc = "fetch" /\ Cardinality(batch) < BatchSize /\ jobs' = jobs
      /\ arcState[a] = "NEW" /\ arcState' = [arcState EXCEPT ![a] = "RUNNING"]
  BY DEF BuilderInv, ShapeOK, SharedOK, FetchArc, FetchMissing, FetchLost, LeaveLoop
<1>1. JobsOK /\ a \notin InHand
  BY <1>0 DEF BuilderInv, SharedOK, InHandIsRunning
<1>2. /\ IsFiniteSet(batch) /\ Cardinality(batch) \in Nat
      /\ Cardinality({}) = 0 /\ BatchSize \in Nat
  BY <1>0, ArcsFinite, FS_EmptySet, BuilderAssumption DEF BatchOK
<1>3. CASE FetchArc(a)
  <2>1. batch' = batch \cup {a} /\ lost' = lost
    BY <1>3 DEF FetchArc
  <2>2. BatchOK'
    <3>1. Cardinality(batch \cup {a}) =
             IF a \in batch THEN Cardinality(batch) ELSE Cardinality(batch) + 1
      BY <1>2, FS_AddElement, Zenon
    <3>2. Cardinality(batch') <= BatchSize
      BY <1>0, <1>2, <2>1, <3>1
    <3> QED
      BY <1>0, <2>1, <3>2 DEF BatchOK
  <2>3. JobsOK'
    BY <1>0, <1>1, <2>1 DEF JobsOK, Active, OneWorkerPerFile, InHand
  <2>4. MainOK' /\ PlaceOK'
    BY <1>0, <1>3 DEF FetchArc, MainOK, solrVars, PlaceOK
  <2>5. InHand' = InHand \cup {a}
    BY <1>0, <2>1 DEF InHand
  <2> QED
    BY <1>0, <2>1, <2>2, <2>3, <2>4, <2>5 DEF StepOK, ShapeOK, Effect, Leased, Kept
<1>4. CASE FetchMissing(a) \/ FetchLost(a)
  <2>1. batch' = {} /\ lost' = lost \cup batch \cup {a}
    BY <1>4 DEF FetchMissing, FetchLost, LeaveLoop
  <2>2. BatchOK'
    BY <1>2, <2>1 DEF BatchOK
  <2>3. JobsOK'
    BY <1>0, <2>1 DEF JobsOK, Active, OneWorkerPerFile
  <2>4. MainOK' /\ PlaceOK'
    BY <1>0, <1>4 DEF FetchMissing, FetchLost, LeaveLoop, Goto, MainOK, solrVars, PlaceOK,
                      Places
  <2>5. InHand' \subseteq InHand /\ InHand \subseteq InHand' \cup batch
    BY <1>0, <2>1 DEF InHand
  <2>6. lost' \subseteq Arcs
    BY <1>0, <2>1 DEF BatchOK
  <2>7. Leased(a)
    BY <1>0, <2>1, <2>5 DEF Leased, Kept
  <2> QED
    BY <2>2, <2>3, <2>4, <2>6, <2>7 DEF StepOK, ShapeOK, Effect
<1> QED
  BY <1>3, <1>4

LEMMA DropBatchSteps ==
    ASSUME BuilderInv, FetchNone \/ PollTimesOut \/ RequestFails
    PROVE  StepOK
<1>0. /\ ShapeOK /\ MainOK /\ BatchOK /\ JobsOK /\ lost \subseteq Arcs
      /\ jobs' = jobs /\ arcState' = arcState /\ batch' = {}
  BY DEF BuilderInv, ShapeOK, SharedOK, FetchNone, PollTimesOut, RequestFails, LeaveLoop
<1>1. MainOK' /\ PlaceOK'
  BY <1>0 DEF FetchNone, PollTimesOut, RequestFails, LeaveLoop, Goto, MainOK, solrVars,
              PlaceOK, Places
<1>2. BatchOK'
  BY <1>0, FS_EmptySet, BuilderAssumption DEF BatchOK
<1>3. JobsOK'
  BY <1>0 DEF JobsOK, Active, OneWorkerPerFile
<1>4. InHand' \subseteq InHand /\ InHand \subseteq InHand' \cup batch
  BY <1>0 DEF InHand
<1>5. batch \subseteq lost' /\ lost \subseteq lost' /\ lost' \subseteq Arcs
  BY <1>0 DEF ShapeOK, PlaceOK, BatchOK, FetchNone, PollTimesOut, RequestFails, LeaveLoop, Goto
<1> QED
  BY <1>0, <1>1, <1>2, <1>3, <1>4, <1>5 DEF StepOK, ShapeOK, Effect, NothingShared, Kept

LEMMA SubmitStep ==
    ASSUME BuilderInv, Submit
    PROVE  StepOK
<1> DEFINE k == Queued(batch, 0)
<1>0. /\ MainOK /\ BatchOK /\ JobsOK /\ lost \subseteq Arcs
      /\ pc = "fetch" /\ pc' = "fill" /\ batch' = {} /\ jobs' = jobs \cup {k}
      /\ arcState' = arcState /\ lost' = lost
  BY DEF BuilderInv, ShapeOK, SharedOK, Submit, Goto
<1>1. JobOK(k) /\ FilesOf(k) = batch /\ k.at = "queued"
  BY <1>0, QueuedOK, BuilderAssumption DEF BatchOK, Queued
<1> HIDE DEF k
<1>2. JobsOK'
  <2>1. IsFiniteSet(jobs')
    BY <1>0, FS_AddElement DEF JobsOK
  <2>2. Cardinality(Active') <= MaxConcurrentWorkers
    <3>1. Active' \subseteq Active
      BY <1>0, <1>1 DEF Active
    <3> QED
      BY <1>0, <3>1, FewerActive
  <2>3. OneWorkerPerFile'
    BY <1>0, <1>1 DEF JobsOK, OneWorkerPerFile
  <2> QED
    BY <1>0, <1>1, <2>1, <2>2, <2>3 DEF JobsOK
<1>3. BatchOK'
  BY <1>0, FS_EmptySet, BuilderAssumption DEF BatchOK
<1>4. MainOK' /\ PlaceOK'
  BY <1>0 DEF Submit, MainOK, solrVars, PlaceOK, Places
<1>5. InHand' = InHand
  BY <1>0, <1>1 DEF InHand
<1> QED
  BY <1>0, <1>2, <1>3, <1>4, <1>5 DEF StepOK, ShapeOK, Effect, NothingShared, Kept

-----------------------------------------------------------------------------
(* The process starts and ends, and Solr merges.                           *)

LEMMA StartSteps ==
    ASSUME BuilderInv, BuildIndex \/ StartFails
    PROVE  StepOK
<1>0. /\ MainOK /\ BatchOK /\ JobsOK /\ lost \subseteq Arcs /\ batch = {} /\ jobs = {}
      /\ pc' \in {"check", "failed"} /\ UNCHANGED <<batch, jobs>>
  BY DEF BuilderInv, ShapeOK, SharedOK, PlaceOK, BuildIndex, StartFails, Goto
<1>1. MainOK' /\ PlaceOK'
  BY <1>0 DEF BuildIndex, StartFails, MainOK, solrVars, PlaceOK, Places
<1>2. InHand' = {} /\ InHand = {} /\ JobsOK' /\ BatchOK'
  <2>1. InHand = {}
    BY <1>0 DEF InHand
  <2> QED
    BY <1>0, <2>1, InHandOnly
<1>3. CASE ClearIndexing
  BY <1>1, <1>2, <1>3 DEF ClearIndexing, StepOK, ShapeOK, Effect, GivenBack
<1>4. CASE UNCHANGED <<arcState, lost>>
  BY <1>0, <1>1, <1>2, <1>4 DEF StepOK, ShapeOK, Effect, NothingShared, Kept
<1> QED
  BY <1>3, <1>4 DEF BuildIndex, StartFails

LEMMA ExitStep ==
    ASSUME BuilderInv, Exit
    PROVE  StepOK
<1>0. /\ MainOK /\ lost \subseteq Arcs /\ InHand \subseteq Arcs
      /\ batch' = {} /\ jobs' = {} /\ arcState' = arcState /\ lost' = lost \cup InHand
  BY DEF BuilderInv, ShapeOK, SharedOK, Exit, InHand, BatchOK, JobsOK, JobOK, Job, FilesOf
<1>1. MainOK' /\ PlaceOK'
  BY <1>0, BuilderAssumption DEF Exit, MainOK, solrVars, PlaceOK, Places
<1>2. BatchOK'
  BY <1>0, FS_EmptySet, BuilderAssumption DEF BatchOK
<1>3. JobsOK'
  <2>1. Active' = {}
    BY <1>0 DEF Active
  <2> QED
    BY <1>0, <2>1, FS_EmptySet, BuilderAssumption DEF JobsOK, OneWorkerPerFile
<1>4. InHand' = {}
  BY <1>0 DEF InHand
<1> QED
  BY <1>0, <1>1, <1>2, <1>3, <1>4 DEF StepOK, ShapeOK, Effect, NothingShared, Kept

(* The index is not part of what Archon and the builder share.             *)
LEMMA SolrSteps ==
    ASSUME BuilderInv, Merge \/ UNCHANGED builderVars
    PROVE  StepOK
<1>0. UNCHANGED <<arcState, mainVars, jobs, lost>>
  BY DEF Merge, builderVars
<1>1. InHand' = InHand /\ JobsOK' /\ BatchOK' /\ PlaceOK'
  BY <1>0, InHandOnly DEF mainVars, BuilderInv, ShapeOK, PlaceOK
<1>2. MainOK'
  <2>1. MainOK /\ MaxSize \in Nat
    BY BuilderAssumption DEF BuilderInv, ShapeOK
  <2>2. CASE Merge
    <3>1. size' \in {size, size - 1} /\ size' \in Nat /\ unpolled' = unpolled
      BY <2>2 DEF Merge
    <3>2. optimized' \in BOOLEAN
      BY <2>2, Zenon DEF Merge
    <3>3. size' \in 0..(MaxSize + 1)
      BY <2>1, <3>1 DEF MainOK
    <3> QED
      BY <1>0, <2>1, <3>1, <3>2, <3>3 DEF MainOK, mainVars
  <2>3. CASE UNCHANGED builderVars
    BY <1>0, <2>1, <2>3 DEF MainOK, mainVars, solrVars, builderVars
  <2> QED
    BY <2>2, <2>3
<1> QED
  BY <1>0, <1>1, <1>2
     DEF StepOK, ShapeOK, Effect, NothingShared, Kept, BuilderInv, SharedOK

-----------------------------------------------------------------------------

LEMMA BuilderStep ==
    ASSUME BuilderInv, [NextHealthy \/ Trouble \/ Exit]_builderVars
    PROVE  StepOK
<1> HIDE DEF StepOK
<1>1. CASE Main
  BY <1>1, WaitingSteps, FetchSteps, DropBatchSteps, SubmitStep DEF Main
<1>2. CASE Work
  BY <1>2, WorkerSteps, ReportSteps DEF Work, JobStep
<1>3. CASE Trouble
  BY <1>3, WaitingSteps, FetchSteps, DropBatchSteps, StartSteps, JobTroubles DEF Trouble
<1>4. CASE BuildIndex \/ Merge \/ Exit \/ UNCHANGED builderVars
  BY <1>4, StartSteps, SolrSteps, ExitStep
<1> QED
  BY <1>1, <1>2, <1>3, <1>4 DEF NextHealthy

LEMMA BuilderInit == Init => BuilderInv /\ Leases!Init
<1> SUFFICES ASSUME Init PROVE BuilderInv /\ Leases!Init
  OBVIOUS
<1>1. Active = {} /\ InHand = {}
  BY DEF Init, Active, InHand
<1>2. MainOK /\ PlaceOK
  BY BuilderAssumption DEF Init, MainOK, PlaceOK, Places
<1>3. BatchOK /\ JobsOK
  BY <1>1, FS_EmptySet, BuilderAssumption DEF Init, BatchOK, JobsOK, OneWorkerPerFile
<1>4. SharedOK
  BY <1>1 DEF Init, SharedOK, InHandIsRunning, RunningIsAccountedFor, ArcStates
<1>5. Leases!Init
  BY <1>1 DEF Init, Leases!Init, StatusOf
<1> QED
  BY <1>2, <1>3, <1>4, <1>5 DEF BuilderInv, ShapeOK

LEMMA BuilderInvariant == RestartingSpec => []BuilderInv
<1>1. BuilderInv /\ [NextHealthy \/ Trouble \/ Exit]_builderVars => BuilderInv'
  BY BuilderStep, EffectKeepsShared DEF StepOK, BuilderInv
<1> QED
  BY <1>1, BuilderInit, PTL DEF RestartingSpec

(* The threads, the batch and the limits of the builder stay within their  *)
(* bounds: never more workers than arctika.max_concurrent_workers run.     *)
THEOREM BuilderTypeCorrect == RestartingSpec => []BuilderTypeOK
<1>1. BuilderInv => BuilderTypeOK
  BY DEF BuilderInv, ShapeOK, SharedOK, MainOK, BatchOK, JobsOK, JobOK, BuilderTypeOK
<1> QED
  BY <1>1, BuilderInvariant, PTL

(* What the builder works on is leased to it, through retries, lost        *)
(* answers and restarts (IndexBuilder.taskFinished, clearIndexing).        *)
THEOREM FilesInHandAreRunning == RestartingSpec => []InHandIsRunning
  BY BuilderInvariant, PTL DEF BuilderInv, SharedOK

(* No file is indexed by two workers of one builder (startNewIndexWorker   *)
(* and the retry in taskFinished).                                         *)
THEOREM WorkersShareNoFile == RestartingSpec => []OneWorkerPerFile
  BY BuilderInvariant, PTL DEF BuilderInv, ShapeOK, JobsOK

(* IndexWorker.increaseErrorCount never passes arctika.worker.tries.       *)
THEOREM TriesStayBounded == RestartingSpec => []TriesBounded
<1>1. BuilderInv => TriesBounded
  BY DEF BuilderInv, ShapeOK, JobsOK, JobOK, TriesBounded
<1> QED
  BY <1>1, BuilderInvariant, PTL

(* A leased file is with the builder until it is reported, or was dropped  *)
(* by one of the troubles the model names, and by nothing else.            *)
THEOREM RunningFilesAccountedFor == RestartingSpec => []RunningIsAccountedFor
  BY BuilderInvariant, PTL DEF BuilderInv, SharedOK

(* No late report and no clearIndexing takes back what was reported.       *)
THEOREM FinishedStaysFinished == RestartingSpec => FinishedIsFinal
<1> DEFINE Step == \A a \in Arcs : arcState[a] \in Finished => arcState'[a] = arcState[a]
<1>1. BuilderInv /\ [NextHealthy \/ Trouble \/ Exit]_builderVars => [Step]_builderVars
  BY BuilderStep, EffectKeepsFinished DEF StepOK, BuilderInv
<1> QED
  BY <1>1, BuilderInvariant, PTL DEF RestartingSpec, FinishedIsFinal

(* The builder, seen from Archon, is a behaviour of BuilderLeases.         *)
THEOREM BuilderImplementsLeases == RestartingSpec => ImplementsLeases
<1>1. BuilderInv /\ [NextHealthy \/ Trouble \/ Exit]_builderVars
         => [Leases!Next]_(Leases!builderLeasesVars)
  BY BuilderStep, EffectIsAbstract DEF StepOK, BuilderInv
<1> QED
  BY <1>1, BuilderInit, BuilderInvariant, PTL DEF RestartingSpec, ImplementsLeases, Leases!Spec
=============================================================================
