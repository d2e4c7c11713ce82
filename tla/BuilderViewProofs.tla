-------------------------- MODULE BuilderViewProofs --------------------------
(***************************************************************************)
(* What one builder may rely on when it talks to an Archon that serves     *)
(* others too: it is only given files that are up for grabs, and nobody    *)
(* changes the state of a file while it works on it. Both follow from the  *)
(* inductive invariant of ArchonProofs, WorkflowInv.                       *)
(***************************************************************************)
EXTENDS ArchonProofs

(* Only nextARC names a file in its answer.                                *)
LEMMA OnlyFetchesAnswerArc ==
    ASSUME NextWorkflow, reply'.kind = "arc"
    PROVE  \E s \in Shards : Fetch(s) \/ FetchLost(s)
<1>1. \A kind, t, a : Answer(kind, t, a).kind = kind
  BY DEF Answer
<1>2. reply' # Ok /\ reply' # Error /\ reply' # Answer("none", NoShard, NoArc)
  BY <1>1 DEF Ok, Error
<1>3. \A a, row : ~UpdateRow(a, row)
  BY <1>2 DEF UpdateRow
<1>4. \A s : ~RestartBuilder(s) /\ ~ResetShard(s)
  BY <1>2 DEF RestartBuilder, ResetShard, ClearIndexing, ResetShardID, UpdateShard
<1>5. \A s, a, st : ~Report(s, a, st)
  BY <1>3 DEF Report, SetARCState
<1>6. \A a, f : ~Register(a, f) /\ ~RegisterAgain(a, f)
  BY <1>2 DEF Register, RegisterAgain, AddARC, AddOrUpdateARC
<1>7. \A a, p : ~Reset(a, p) /\ ~Prioritise(a, p)
  BY <1>3 DEF Reset, Prioritise, ResetArcWithPriority, SetARCPriority
<1>10. \A a, s, st, p : ~Requeue(s, p) /\ ~Correct(a, s, st, p)
  BY <1>2, <1>3 DEF Requeue, SetShardState, UpdateShard, Correct, SetARCProperties
<1>8. \A a : ~Discard(a) /\ ~Pause(a)
  BY <1>2 DEF Discard, RemoveARC, Pause, SetPaused
<1>9. ~RestartArchon /\ ~AskShardID
  BY <1>1, <1>2 DEF RestartArchon, RestartServer, AskShardID, NextShardID
<1> QED
  BY <1>4, <1>5, <1>6, <1>7, <1>8, <1>9, <1>10 DEF NextWorkflow

(* nextARC hands out what its cache says without looking at the table, and *)
(* still never a file that is not NEW, or not for the shard that asks      *)
(* (ArchonConnector.nextARC).                                              *)
THEOREM OnlyEligibleFilesReturned == WorkflowSpec => OnlyEligibleReturned
<1> DEFINE Step == \A s \in Shards :
                      reply'.kind = "arc" /\ reply'.shard = s => reply'.arc \in Eligible(s)
<1>1. WorkflowInv /\ [NextWorkflow]_workflowVars => [Step]_workflowVars
  <2> SUFFICES ASSUME WorkflowInv, NextWorkflow,
                      NEW s \in Shards, reply'.kind = "arc", reply'.shard = s
               PROVE  reply'.arc \in Eligible(s)
    OBVIOUS
  <2>1. PICK t \in Shards : NextARC(t)
    BY OnlyFetchesAnswerArc DEF Fetch, FetchLost
  <2>2. \A kind, a : /\ Answer(kind, t, a).kind = kind
                     /\ Answer(kind, t, a).shard = t
                     /\ Answer(kind, t, a).arc = a
    BY DEF Answer
  <2>3. \E a \in Eligible(t) : reply' = Answer("arc", t, a)
    BY <2>1, <2>2, NextARCOutcome
  <2> QED
    BY <2>2, <2>3
<1> QED
  BY <1>1, WorkflowInvariant, PTL DEF WorkflowSpec, OnlyEligibleReturned

-----------------------------------------------------------------------------

(* A step that leaves a builder with the files it has, and keeps them      *)
(* RUNNING for it, is the environment's.                                   *)
LEMMA NotMyBusiness ==
    ASSUME WorkflowInv, HeldIsRunning', NEW t \in Shards, held'[t] = held[t]
    PROVE  Builder(t)!OpenNext
<1>1. ASSUME NEW a \in held[t]
      PROVE  StatusFor(t)[a] = "leased" /\ StatusFor(t)'[a] = "leased"
  <2>1. a \in Arcs
    BY DEF WorkflowInv
  <2>2. a \in DOMAIN db /\ db[a].state = "RUNNING" /\ db[a].shard = t
    BY DEF WorkflowInv, HeldIsRunning
  <2>3. a \in DOMAIN db' /\ db'[a].state = "RUNNING" /\ db'[a].shard = t
    BY DEF HeldIsRunning
  <2> QED
    BY <2>1, <2>2, <2>3 DEF StatusFor, Finished
<1> QED
  BY <1>1 DEF Builder!OpenNext, Builder!Environment

LEMMA FetchIsTake ==
    ASSUME WorkflowInv, HeldIsRunning', NEW s \in Shards, Fetch(s)
    PROVE  Builder(s)!OpenNext
<1>1. CASE reply'.kind # "arc"
  BY <1>1, NotMyBusiness DEF Fetch
<1>2. CASE reply'.kind = "arc"
  <2>1. \A kind, a : Answer(kind, s, a).kind = kind /\ Answer(kind, s, a).arc = a
    BY DEF Answer
  <2>2. PICK a \in Eligible(s), p \in Priorities :
           /\ db' = [db EXCEPT ![a].shard = s, ![a].state = "RUNNING", ![a].priority = p]
           /\ reply' = Answer("arc", s, a)
    BY <1>2, <2>1, NextARCOutcome DEF Fetch
  <2>3. a \in DOMAIN db /\ a \in Arcs /\ db[a] \in Row /\ db[a].state = "NEW"
    BY DEF Eligible, WorkflowInv, TypeOK, TableOK
  <2>4. /\ DOMAIN db' = DOMAIN db
        /\ db'[a].state = "RUNNING" /\ db'[a].shard = s
        /\ \A b \in DOMAIN db : b # a => db'[b] = db[b]
    BY <2>2, <2>3 DEF WorkflowInv, TypeOK, TableOK, Row
  <2>5. StatusFor(s)[a] = "free" /\ StatusFor(s)'[a] = "leased"
    BY <2>3, <2>4 DEF StatusFor, Finished
  <2>6. \A b \in Arcs : b # a => StatusFor(s)'[b] = StatusFor(s)[b]
    BY <2>4 DEF StatusFor
  <2>7. StatusFor(s)' = [StatusFor(s) EXCEPT ![a] = "leased"]
    BY <2>3, <2>5, <2>6 DEF StatusFor
  <2>8. held'[s] = held[s] \cup {a}
    BY <1>2, <2>1, <2>2 DEF Fetch, WorkflowInv
  <2>9. Builder(s)!Take(a)
    BY <2>5, <2>7, <2>8 DEF Builder!Take
  <2> QED
    BY <2>3, <2>9 DEF Builder!OpenNext, Builder!Next
<1> QED
  BY <1>1, <1>2

LEMMA ReportIsFinish ==
    ASSUME WorkflowInv, NEW s \in Shards, NEW a \in Arcs, NEW st \in Finished, Report(s, a, st)
    PROVE  Builder(s)!OpenNext
<1>1. a \in held[s] /\ held'[s] = held[s] \ {a}
  BY DEF Report, WorkflowInv
<1>2. a \in DOMAIN db /\ db[a] \in Row /\ db[a].state = "RUNNING" /\ db[a].shard = s
  BY <1>1 DEF WorkflowInv, HeldIsRunning, TypeOK, TableOK
<1>3. /\ DOMAIN db' = DOMAIN db /\ db'[a].state = st
      /\ \A b \in DOMAIN db : b # a => db'[b] = db[b]
  BY <1>2 DEF Report, SetARCState, UpdateRow, WorkflowInv, TypeOK, TableOK, Row
<1>4. StatusFor(s)[a] = "leased" /\ StatusFor(s)'[a] = "done"
  BY <1>2, <1>3 DEF StatusFor, Finished
<1>5. \A b \in Arcs : b # a => StatusFor(s)'[b] = StatusFor(s)[b]
  BY <1>3 DEF StatusFor
<1>6. StatusFor(s)' = [StatusFor(s) EXCEPT ![a] = "done"]
  BY <1>4, <1>5 DEF StatusFor
<1>7. Builder(s)!Finish(a)
  BY <1>1, <1>4, <1>6 DEF Builder!Finish
<1> QED
  BY <1>7 DEF Builder!OpenNext, Builder!Next

LEMMA RestartIsRestart ==
    ASSUME WorkflowInv, NEW s \in Shards, RestartBuilder(s)
    PROVE  Builder(s)!OpenNext
<1>1. held'[s] = {}
  BY DEF RestartBuilder, WorkflowInv
<1>2. /\ DOMAIN db' = DOMAIN db
      /\ \A a \in DOMAIN db : db'[a] =
            IF db[a].shard = s /\ db[a].state = "RUNNING"
            THEN [db[a] EXCEPT !.state = "NEW", !.shard = NoShard]
            ELSE db[a]
  BY DEF RestartBuilder, ClearIndexing, UpdateShard
<1>3. \A a \in DOMAIN db : db[a] \in Row
  BY DEF WorkflowInv, TypeOK, TableOK
<1>4. ASSUME NEW a \in Arcs
      PROVE  StatusFor(s)'[a] =
                IF StatusFor(s)[a] = "leased" THEN "free" ELSE StatusFor(s)[a]
  <2>1. CASE a \in DOMAIN db /\ db[a].shard = s /\ db[a].state = "RUNNING"
    <3>1. db'[a].state = "NEW"
      BY <1>2, <1>3, <2>1 DEF Row
    <3> QED
      BY <1>2, <2>1, <3>1 DEF StatusFor, Finished
  <2>2. CASE ~(a \in DOMAIN db /\ db[a].shard = s /\ db[a].state = "RUNNING")
    <3>1. a \in DOMAIN db => db'[a] = db[a]
      BY <1>2, <2>2
    <3> QED
      BY <1>2, <2>2, <3>1 DEF StatusFor, Finished
  <2> QED
    BY <2>1, <2>2
<1>5. Builder(s)!Restart
  BY <1>1, <1>4 DEF Builder!Restart, StatusFor
<1> QED
  BY <1>5 DEF Builder!OpenNext, Builder!Next

LEMMA EveryBuilderStep ==
    WorkflowInv /\ [NextWorkflow]_workflowVars
       => [\A s \in Shards : Builder(s)!OpenNext]_workflowVars
<1> SUFFICES ASSUME WorkflowInv, NextWorkflow, NEW t \in Shards
             PROVE  Builder(t)!OpenNext
  OBVIOUS
<1>1. HeldIsRunning'
  BY WorkflowStep DEF WorkflowInv
<1>2. ASSUME held' = held
      PROVE  Builder(t)!OpenNext
  BY <1>1, <1>2, NotMyBusiness
<1>3. ASSUME NEW s \in Shards, Fetch(s)
      PROVE  Builder(t)!OpenNext
  <2>1. s # t => held'[t] = held[t]
    BY <1>3 DEF Fetch, WorkflowInv
  <2> QED
    BY <1>1, <1>3, <2>1, FetchIsTake, NotMyBusiness
<1>4. ASSUME NEW s \in Shards, NEW a \in Arcs, NEW st \in Finished, Report(s, a, st)
      PROVE  Builder(t)!OpenNext
  <2>1. s # t => held'[t] = held[t]
    BY <1>4 DEF Report, WorkflowInv
  <2> QED
    BY <1>1, <1>4, <2>1, ReportIsFinish, NotMyBusiness
<1>5. ASSUME NEW s \in Shards, RestartBuilder(s)
      PROVE  Builder(t)!OpenNext
  <2>1. s # t => held'[t] = held[t]
    BY <1>5 DEF RestartBuilder, WorkflowInv
  <2> QED
    BY <1>1, <1>5, <2>1, RestartIsRestart, NotMyBusiness
<1>6. CASE \/ \E s \in Shards : FetchLost(s) \/ ResetShard(s)
           \/ \E a \in Arcs, f \in Folders : Register(a, f) \/ RegisterAgain(a, f)
           \/ \E a \in Arcs, p \in Priorities : Reset(a, p) \/ Prioritise(a, p)
           \/ \E s \in Shards, p \in Priorities : Requeue(s, p)
           \/ \E a \in Arcs, s \in Shards, st \in Finished, p \in Priorities :
                 Correct(a, s, st, p)
           \/ \E a \in Arcs : Discard(a)
           \/ AskShardID
           \/ \E b \in BOOLEAN : Pause(b)
           \/ RestartArchon
  <2>1. held' = held
    BY <1>6 DEF FetchLost, ResetShard, Register, RegisterAgain, Reset, Prioritise, Requeue,
                Correct, Discard, AskShardID, Pause, RestartArchon
  <2> QED
    BY <1>2, <2>1
<1> QED
  BY <1>3, <1>4, <1>5, <1>6 DEF NextWorkflow

LEMMA EveryBuilderInit == InitWorkflow => \A s \in Shards : Builder(s)!Init
  BY DEF InitWorkflow, Init, Builder!Init, StatusFor

(* Between the lease of a file and its report, its builder's restart or    *)
(* death, no request of another builder, of the registration script or of  *)
(* the operator changes the state of that file: each builder sees exactly  *)
(* the Archon that IndexBuilder is checked against.                        *)
THEOREM NobodyEverInterferes == WorkflowSpec => NobodyInterferes
<1> DEFINE Start == \A s \in Shards : Builder(s)!Init
           Step == \A s \in Shards : Builder(s)!OpenNext
<1>1. NobodyInterferes <=> Start /\ [][Step]_workflowVars
  BY DEF NobodyInterferes
<1>2. InitWorkflow => Start
  BY EveryBuilderInit
<1>3. WorkflowInv /\ [NextWorkflow]_workflowVars => [Step]_workflowVars
  BY EveryBuilderStep
<1> HIDE DEF Start, Step
<1> QED
  BY <1>1, <1>2, <1>3, WorkflowInvariant, PTL DEF WorkflowSpec
=============================================================================
