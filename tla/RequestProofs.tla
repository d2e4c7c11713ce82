--------------------------- MODULE RequestProofs ----------------------------
(***************************************************************************)
(* What holds of Archon when the requests interleave, for any number of    *)
(* builders, ARC files and folders, and any size of the caches.            *)
(*                                                                         *)
(* First the types; then what no race breaks: a row that says RUNNING is   *)
(* in someone's hands; then what only a race breaks: as long as no two     *)
(* requests worked on the caches at once, a request in the middle of its   *)
(* work knows nothing stale, whatever the workflow does in the meantime.   *)
(***************************************************************************)
EXTENDS ArchonRequests, ArchonProofs

RequestSteps == {"idle", "check", "put", "size", "remove", "purge", "answer"}

Request ==
    [at : RequestSteps, list : Seq(ArcVO), vo : ArcVO \cup {NoVO},
     seen : SUBSET Shards, todo : SUBSET Shards]

(* What a request knows is well-formed; once it took a file, it has one.   *)
RequestOK(r) ==
    /\ CacheList(r.list)
    /\ r.at \in {"purge", "answer"} => r.vo \in ArcVO
    /\ r.todo \subseteq r.seen /\ r.seen \subseteq keys

RequestTyped ==
    /\ TypeOK
    /\ held \in [Shards -> SUBSET Arcs]
    /\ keys \subseteq Shards /\ awaited \subseteq Shards
    /\ orphaned \in [Shards -> SUBSET Arcs] /\ raced \in BOOLEAN
    /\ req \in [Shards -> Request]
    /\ \A s \in Shards : RequestOK(req[s])

-----------------------------------------------------------------------------
(* What the steps of a request are made of.                                *)

LEMMA EmptyCacheList == CacheList(<<>>) /\ <<>> \in Seq(ArcVO) /\ Len(<<>>) = 0
<1>1. <<>> \in Seq(ArcVO) /\ Len(<<>>) = 0
  BY EmptySeq
<1> QED
  BY <1>1, CacheAssumption DEF CacheList

LEMMA TailElements ==
    ASSUME NEW list, CacheList(list), list # <<>>
    PROVE  /\ CacheList(Tail(list))
           /\ Head(list) \in ArcVO /\ Head(list) = list[1] /\ 1 \in 1..Len(list)
           /\ \A i \in 1..Len(Tail(list)) : \E j \in 1..Len(list) :
                 j # 1 /\ Tail(list)[i] = list[j]
<1>1. list \in Seq(ArcVO) /\ Len(list) \in Nat /\ Len(list) > 0
  BY LenProperties, EmptySeq DEF CacheList
<1>2. /\ Head(list) = list[1] /\ Head(list) \in ArcVO
      /\ Tail(list) \in Seq(ArcVO) /\ Len(Tail(list)) = Len(list) - 1
      /\ \A i \in 1..(Len(list) - 1) : Tail(list)[i] = list[i + 1]
  BY <1>1, HeadTailProperties
<1>3. CacheList(Tail(list))
  BY <1>1, <1>2, CacheAssumption DEF CacheList
<1>4. ASSUME NEW i \in 1..Len(Tail(list))
      PROVE  \E j \in 1..Len(list) : j # 1 /\ Tail(list)[i] = list[j]
  <2>1. i + 1 \in 1..Len(list) /\ i + 1 # 1 /\ Tail(list)[i] = list[i + 1]
    BY <1>1, <1>2
  <2> QED
    BY <2>1
<1> QED
  BY <1>1, <1>2, <1>3, <1>4

LEMMA IdleTyped == Idle \in Request /\ RequestOK(Idle) /\ Idle.at = "idle"
  BY EmptyCacheList DEF Idle, Request, RequestSteps, RequestOK

LEMMA OneCacheTyped ==
    ASSUME CachesOK, NEW s \in Shards, NEW list, CacheList(list),
           cache' = [cache EXCEPT ![s] = list]
    PROVE  CachesOK'
  BY DEF CachesOK, CacheList

(* A step of one request, which may add a key but takes none away.         *)
LEMMA OneRequestTyped ==
    ASSUME RequestTyped, NEW s \in Shards, NEW r \in Request, RequestOK(r),
           req' = [req EXCEPT ![s] = r], keys \subseteq keys'
    PROVE  req' \in [Shards -> Request] /\ \A t \in Shards : RequestOK(req[t])'
<1>1. req' \in [Shards -> Request]
  BY DEF RequestTyped
<1>2. ASSUME NEW t \in Shards PROVE RequestOK(req[t])'
  <2>1. req'[t] = IF t = s THEN r ELSE req[t]
    BY DEF RequestTyped
  <2>2. RequestOK(req'[t])
    BY <2>1 DEF RequestTyped
  <2> QED
    BY <2>2 DEF RequestOK, CacheList
<1> QED
  BY <1>1, <1>2

(* The end of a request.                                                   *)
LEMMA FinishEffect ==
    ASSUME RequestTyped, NEW s \in Shards, NEW kind, NEW a, Finish(s, kind, a)
    PROVE  /\ reply' = Answer(kind, s, a)
           /\ req' = [req EXCEPT ![s] = Idle]
           /\ awaited' \subseteq Shards
  BY DEF Finish, RequestTyped

LEMMA FinishTyped ==
    ASSUME RequestTyped, NEW s \in Shards,
           NEW kind \in {"empty", "failure", "error", "arc"}, NEW a \in Arcs \cup {NoArc},
           Finish(s, kind, a), UNCHANGED <<db, cache, paused, keys, orphaned, raced>>,
           held' \in [Shards -> SUBSET Arcs]
    PROVE  RequestTyped'
<1>1. /\ reply' = Answer(kind, s, a)
      /\ req' = [req EXCEPT ![s] = Idle]
      /\ awaited' \subseteq Shards
  BY FinishEffect
<1>2. reply' \in Reply
  BY <1>1 DEF Answer, Reply
<1>3. req' \in [Shards -> Request] /\ \A t \in Shards : RequestOK(req[t])'
  BY <1>1, IdleTyped, OneRequestTyped
<1>4. TableOK' /\ CachesOK'
  BY DEF RequestTyped, TypeOK, TableOK, CachesOK, CacheList
<1> QED
  BY <1>1, <1>2, <1>3, <1>4 DEF RequestTyped, TypeOK

LEMMA FinishWithoutTyped ==
    ASSUME RequestTyped, NEW s \in Shards, NEW kind \in {"empty", "failure", "error"},
           FinishWithout(s, kind), UNCHANGED <<db, cache, paused, keys, raced>>
    PROVE  RequestTyped'
<1>1. Finish(s, kind, NoArc) /\ UNCHANGED orphaned /\ held' \in [Shards -> SUBSET Arcs]
  BY DEF FinishWithout, RequestTyped
<1> QED
  BY <1>1, FinishTyped

(* What is committed and not answered yet is a file.                       *)
LEMMA InTransitIsFile ==
    ASSUME RequestTyped, NEW s \in Shards
    PROVE  /\ InTransit(s) \subseteq Arcs
           /\ At(s, "answer") => InTransit(s) = {req[s].vo.id} /\ req[s].vo.id \in Arcs
           /\ ~At(s, "answer") => InTransit(s) = {}
<1>1. At(s, "answer") => req[s].vo \in ArcVO
  BY DEF RequestTyped, RequestOK, At
<1> QED
  BY <1>1 DEF InTransit, ArcVO

-----------------------------------------------------------------------------
(* The types.                                                              *)

(* A step that leaves the request under way.                               *)
LEMMA UnderWayTyped ==
    ASSUME RequestTyped, NEW s \in Shards, NEW r \in Request, RequestOK(r),
           req' = [req EXCEPT ![s] = r], keys \subseteq keys', keys' \subseteq Shards,
           awaited' \subseteq Shards, raced' \in BOOLEAN, CachesOK',
           UNCHANGED <<db, paused, reply, held, orphaned>>
    PROVE  RequestTyped'
<1>1. req' \in [Shards -> Request] /\ \A t \in Shards : RequestOK(req[t])'
  BY OneRequestTyped
<1>2. TableOK'
  BY DEF RequestTyped, TypeOK, TableOK
<1> QED
  BY <1>1, <1>2 DEF RequestTyped, TypeOK

LEMMA CachesUnchanged ==
    ASSUME RequestTyped
    PROVE  /\ UNCHANGED cache => CachesOK'
           /\ UNCHANGED db => TableOK'
  BY DEF RequestTyped, TypeOK, TableOK, CachesOK, CacheList

LEMMA RequestsTyped ==
    ASSUME RequestTyped, NEW s \in Shards
    PROVE  /\ req[s] \in Request /\ RequestOK(req[s])
           /\ CacheList(cache[s]) /\ cache \in [Shards -> Seq(ArcVO)]
           /\ \A step \in RequestSteps \ {"purge", "answer"} : \A r \in Request :
                 RequestOK(r) => /\ [r EXCEPT !.at = step] \in Request
                                 /\ RequestOK([r EXCEPT !.at = step])
<1>1. req[s] \in Request /\ RequestOK(req[s])
  BY DEF RequestTyped
<1>2. CacheList(cache[s]) /\ cache \in [Shards -> Seq(ArcVO)]
  BY DEF RequestTyped, TypeOK, CachesOK
<1>3. ASSUME NEW step \in RequestSteps \ {"purge", "answer"}, NEW r \in Request, RequestOK(r)
      PROVE  /\ [r EXCEPT !.at = step] \in Request
             /\ RequestOK([r EXCEPT !.at = step])
  BY <1>3 DEF Request, RequestOK
<1> QED
  BY <1>1, <1>2, <1>3

LEMMA ListRead ==
    ASSUME RequestTyped, NEW s \in Shards, NEW list, CacheList(list),
           NEW step \in {"put", "size"}
    PROVE  LET r == [req[s] EXCEPT !.at = step, !.list = list]
           IN  r \in Request /\ RequestOK(r)
<1>1. /\ req[s] \in Request /\ req[s].todo \subseteq req[s].seen /\ req[s].seen \subseteq keys
      /\ list \in Seq(ArcVO) /\ step \in RequestSteps \ {"purge", "answer"}
  BY RequestsTyped DEF RequestOK, CacheList, RequestSteps
<1> HIDE DEF RequestSteps
<1> DEFINE r == [req[s] EXCEPT !.at = step, !.list = list]
<1>2. r \in Request
  BY <1>1 DEF Request
<1>3. /\ r.list = list /\ r.at = step /\ r.vo = req[s].vo
      /\ r.seen = req[s].seen /\ r.todo = req[s].todo
  BY <1>1 DEF Request
<1> HIDE DEF r
<1>4. RequestOK(r)
  BY <1>1, <1>3 DEF RequestOK
<1> QED
  BY <1>2, <1>4 DEF r

LEMMA FileTaken ==
    ASSUME RequestTyped, NEW s \in Shards, NEW vo \in ArcVO
    PROVE  LET r == [req[s] EXCEPT !.at = "purge", !.vo = vo, !.seen = keys, !.todo = keys]
           IN  r \in Request /\ RequestOK(r)
<1>1. /\ req[s] \in Request /\ keys \in SUBSET Shards /\ "purge" \in RequestSteps
      /\ CacheList(req[s].list)
  BY RequestsTyped DEF RequestOK, RequestSteps, RequestTyped
<1> DEFINE r == [req[s] EXCEPT !.at = "purge", !.vo = vo, !.seen = keys, !.todo = keys]
<1>2. r \in Request
  BY <1>1 DEF Request
<1>3. r.list = req[s].list /\ r.vo = vo /\ r.seen = keys /\ r.todo = keys
  BY <1>1 DEF Request
<1> HIDE DEF r
<1>4. RequestOK(r)
  BY <1>1, <1>3 DEF RequestOK
<1> QED
  BY <1>2, <1>4 DEF r

LEMMA BeginTyped ==
    ASSUME RequestTyped, NEW s \in Shards, Begin(s)
    PROVE  RequestTyped'
<1> DEFINE r == [req[s] EXCEPT !.at = "check"]
<1>1. r \in Request /\ RequestOK(r)
  BY RequestsTyped DEF RequestSteps
<1>2. req' = [req EXCEPT ![s] = r]
  BY DEF Begin, Goto
<1> HIDE DEF r
<1>3. awaited' \subseteq Shards /\ raced' \in BOOLEAN /\ keys' = keys /\ keys \subseteq Shards
  BY DEF Begin, RequestTyped
<1> QED
  BY <1>1, <1>2, <1>3, CachesUnchanged, UnderWayTyped DEF Begin

LEMMA CheckTyped ==
    ASSUME RequestTyped, NEW s \in Shards, Check(s)
    PROVE  RequestTyped'
<1>1. PICK r \in Request : RequestOK(r) /\ req' = [req EXCEPT ![s] = r]
  <2>1. CASE Goto(s, "size")
    <3>1. req' = [req EXCEPT ![s] = [req[s] EXCEPT !.at = "size"]]
      BY <2>1 DEF Goto
    <3> QED
      BY <3>1, RequestsTyped DEF RequestSteps
  <2>2. CASE \E list \in NextArcIdsToCache(s) :
                req' = [req EXCEPT ![s].at = "put", ![s].list = list]
    <3>1. PICK list \in NextArcIdsToCache(s) :
             req' = [req EXCEPT ![s] = [req[s] EXCEPT !.at = "put", !.list = list]]
      BY <2>2
    <3>2. CacheList(list)
      BY LoadedElements DEF RequestTyped, TypeOK
    <3> QED
      BY <3>1, <3>2, ListRead
  <2> QED
    BY <2>1, <2>2 DEF Check
<1>2. awaited' \subseteq Shards /\ raced' \in BOOLEAN /\ keys' = keys /\ keys \subseteq Shards
  BY DEF Check, RequestTyped
<1> QED
  BY <1>1, <1>2, CachesUnchanged, UnderWayTyped DEF Check

LEMMA PutTyped ==
    ASSUME RequestTyped, NEW s \in Shards, Put(s)
    PROVE  RequestTyped'
<1> DEFINE r == [req[s] EXCEPT !.at = "size", !.list = <<>>]
<1>1. r \in Request /\ RequestOK(r)
  BY EmptyCacheList, ListRead
<1>2. req' = [req EXCEPT ![s] = r]
  BY DEF Put
<1> HIDE DEF r
<1>3. CachesOK'
  BY RequestsTyped, OneCacheTyped DEF Put, RequestTyped, TypeOK, RequestOK
<1>4. /\ awaited' \subseteq Shards /\ raced' \in BOOLEAN
      /\ keys \subseteq keys' /\ keys' \subseteq Shards
  BY DEF Put, RequestTyped
<1> QED
  BY <1>1, <1>2, <1>3, <1>4, UnderWayTyped DEF Put

LEMMA SizeTyped ==
    ASSUME RequestTyped, NEW s \in Shards, Size(s)
    PROVE  RequestTyped'
<1>1. CASE FinishWithout(s, "empty")
  BY <1>1, FinishWithoutTyped DEF Size
<1>2. CASE Goto(s, "remove") /\ UNCHANGED <<reply, held, awaited, orphaned>>
  <2> DEFINE r == [req[s] EXCEPT !.at = "remove"]
  <2>1. r \in Request /\ RequestOK(r)
    BY RequestsTyped DEF RequestSteps
  <2>2. req' = [req EXCEPT ![s] = r]
    BY <1>2 DEF Goto
  <2> HIDE DEF r
  <2>3. awaited' \subseteq Shards /\ raced' \in BOOLEAN /\ keys' = keys /\ keys \subseteq Shards
    BY <1>2 DEF Size, RequestTyped
  <2> QED
    BY <1>2, <2>1, <2>2, <2>3, CachesUnchanged, UnderWayTyped DEF Size
<1> QED
  BY <1>1, <1>2 DEF Size

LEMMA TakeFirstTyped ==
    ASSUME RequestTyped, NEW s \in Shards, TakeFirst(s)
    PROVE  RequestTyped'
<1>1. CASE FinishWithout(s, "failure") /\ UNCHANGED cache
  BY <1>1, FinishWithoutTyped DEF TakeFirst
<1>2. CASE /\ cache[s] # <<>>
           /\ cache' = [cache EXCEPT ![s] = Tail(@)]
           /\ req' = [req EXCEPT ![s].at = "purge", ![s].vo = Head(cache[s]),
                                 ![s].seen = keys, ![s].todo = keys]
           /\ UNCHANGED <<reply, held, awaited, orphaned>>
  <2> DEFINE r == [req[s] EXCEPT !.at = "purge", !.vo = Head(cache[s]),
                                 !.seen = keys, !.todo = keys]
  <2>1. CacheList(Tail(cache[s])) /\ Head(cache[s]) \in ArcVO
    BY <1>2, RequestsTyped, TailElements
  <2>2. keys \in SUBSET Shards
    BY DEF RequestTyped
  <2>3. r \in Request /\ RequestOK(r)
    BY <2>1, FileTaken
  <2>4. req' = [req EXCEPT ![s] = r]
    BY <1>2
  <2> HIDE DEF r
  <2>5. CachesOK'
    BY <1>2, <2>1, OneCacheTyped DEF RequestTyped, TypeOK
  <2>6. awaited' \subseteq Shards /\ raced' \in BOOLEAN /\ keys' = keys
    BY <1>2 DEF TakeFirst, RequestTyped
  <2> QED
    BY <1>2, <2>2, <2>3, <2>4, <2>5, <2>6, UnderWayTyped DEF TakeFirst
<1> QED
  BY <1>1, <1>2 DEF TakeFirst

LEMMA PurgeTyped ==
    ASSUME RequestTyped, NEW s \in Shards, Purge(s)
    PROVE  RequestTyped'
<1>1. CASE FinishWithout(s, "failure") /\ UNCHANGED cache
  BY <1>1, FinishWithoutTyped DEF Purge
<1>2. CASE /\ \E t \in req[s].todo :
                 /\ cache' = [cache EXCEPT ![t] = WithoutFile(@, req[s].vo)]
                 /\ req' = [req EXCEPT ![s].todo = @ \ {t}]
           /\ UNCHANGED <<reply, held, awaited, orphaned>>
  <2>1. PICK t \in req[s].todo :
           /\ cache' = [cache EXCEPT ![t] = WithoutFile(cache[t], req[s].vo)]
           /\ req' = [req EXCEPT ![s] = [req[s] EXCEPT !.todo = @ \ {t}]]
    BY <1>2
  <2> DEFINE r == [req[s] EXCEPT !.todo = @ \ {t}]
  <2>2. r \in Request /\ RequestOK(r) /\ t \in Shards
    BY RequestsTyped DEF Request, RequestOK
  <2> HIDE DEF r
  <2>3. CacheList(WithoutFile(cache[t], req[s].vo))
    BY <2>2, WithoutFileElements DEF RequestTyped, TypeOK, CachesOK
  <2>4. CachesOK'
    BY <2>1, <2>2, <2>3, OneCacheTyped DEF RequestTyped, TypeOK
  <2>5. awaited' \subseteq Shards /\ raced' \in BOOLEAN /\ keys' = keys /\ keys \subseteq Shards
    BY <1>2 DEF Purge, RequestTyped
  <2> QED
    BY <1>2, <2>1, <2>2, <2>4, <2>5, UnderWayTyped DEF Purge, r
<1> QED
  BY <1>1, <1>2 DEF Purge

LEMMA CommitTyped ==
    ASSUME RequestTyped, NEW s \in Shards, Commit(s)
    PROVE  RequestTyped'
<1> DEFINE vo == req[s].vo
<1>1. vo \in ArcVO
  BY RequestsTyped DEF Commit, At, RequestOK
<1> HIDE DEF vo
<1>2. vo.id \in Arcs /\ vo.priority \in Priorities
  BY <1>1 DEF ArcVO
<1>3. ASSUME vo.id \in DOMAIN db, NEW r \in Request, RequestOK(r),
             db' = [db EXCEPT ![vo.id].shard = s, ![vo.id].state = "RUNNING",
                              ![vo.id].priority = vo.priority],
             req' = [req EXCEPT ![s] = r], orphaned' \in [Shards -> SUBSET Arcs],
             UNCHANGED <<cache, paused, reply, held, keys, awaited, raced>>
      PROVE  RequestTyped'
  <2>1. \A row \in Row :
           [row EXCEPT !.shard = s, !.state = "RUNNING", !.priority = vo.priority] \in Row
    BY <1>2 DEF Row, States
  <2>2. TableOK'
    BY <1>3, <2>1 DEF RequestTyped, TypeOK, TableOK
  <2>3. req' \in [Shards -> Request] /\ \A t \in Shards : RequestOK(req[t])'
    BY <1>3, OneRequestTyped
  <2> QED
    BY <1>3, <2>2, <2>3, CachesUnchanged DEF RequestTyped, TypeOK
<1>4. CASE vo.id \in DOMAIN db /\ s \in awaited
  <2> DEFINE r == [Idle EXCEPT !.at = "answer", !.vo = vo]
  <2>1. r \in Request /\ RequestOK(r)
    BY <1>1, IdleTyped, EmptyCacheList DEF Request, RequestSteps, RequestOK, Idle
  <2>2. req' = [req EXCEPT ![s] = r] /\ orphaned' = [orphaned EXCEPT ![s] = @ \ {vo.id}]
    BY <1>4 DEF Commit, vo
  <2> HIDE DEF r
  <2>3. orphaned' \in [Shards -> SUBSET Arcs]
    BY <2>2 DEF RequestTyped
  <2> QED
    BY <1>3, <1>4, <2>1, <2>2, <2>3 DEF Commit, vo
<1>5. CASE vo.id \in DOMAIN db /\ s \notin awaited
  <2>1. req' = [req EXCEPT ![s] = Idle] /\ orphaned' = [orphaned EXCEPT ![s] = @ \cup {vo.id}]
    BY <1>5 DEF Commit, vo
  <2>2. orphaned' \in [Shards -> SUBSET Arcs]
    BY <1>2, <2>1 DEF RequestTyped
  <2> QED
    BY <1>3, <1>5, <2>1, <2>2, IdleTyped DEF Commit, vo
<1>6. CASE FinishWithout(s, "error") /\ UNCHANGED db
  BY <1>6, FinishWithoutTyped DEF Commit
<1> QED
  BY <1>4, <1>5, <1>6 DEF Commit, vo

LEMMA DeliverTyped ==
    ASSUME RequestTyped, NEW s \in Shards, Deliver(s)
    PROVE  RequestTyped'
<1>1. InTransit(s) \subseteq Arcs /\ req[s].vo.id \in Arcs
  BY InTransitIsFile DEF Deliver
<1>2. held' \in [Shards -> SUBSET Arcs]
  BY <1>1 DEF Deliver, RequestTyped
<1> QED
  BY <1>1, <1>2, FinishTyped DEF Deliver

LEMMA LoseAnswerTyped ==
    ASSUME RequestTyped, NEW s \in Shards, LoseAnswer(s)
    PROVE  RequestTyped'
<1>1. InTransit(s) \subseteq Arcs
  BY InTransitIsFile
<1>2. orphaned' \in [Shards -> SUBSET Arcs] /\ awaited' \subseteq Shards
  BY <1>1 DEF LoseAnswer, RequestTyped
<1>3. req' \in [Shards -> Request] /\ \A t \in Shards : RequestOK(req[t])'
  BY IdleTyped, OneRequestTyped DEF LoseAnswer
<1> QED
  BY <1>2, <1>3, CachesUnchanged DEF LoseAnswer, RequestTyped, TypeOK

LEMMA HandleTyped ==
    ASSUME RequestTyped, NEW s \in Shards, Handle(s)
    PROVE  RequestTyped'
  BY BeginTyped, CheckTyped, PutTyped, SizeTyped, TakeFirstTyped, PurgeTyped, CommitTyped,
     DeliverTyped
  DEF Handle

(* The other requests are steps of the workflow.                           *)
LEMMA BesidesAreWorkflow ==
    /\ \A s \in Shards, a \in Arcs : ReportMeanwhile(s, a) => NextWorkflow
    /\ Operate => NextWorkflow
    /\ \A s \in Shards : CrashBuilder(s) => NextWorkflow
    /\ RestartContainer => NextWorkflow
<1>1. ASSUME NEW s \in Shards, NEW a \in Arcs, ReportMeanwhile(s, a)
      PROVE  NextWorkflow
  <2>1. Report(s, a, "COMPLETED") /\ "COMPLETED" \in Finished
    BY <1>1 DEF ReportMeanwhile, Beside, Finished
  <2> QED
    BY <2>1 DEF NextWorkflow
<1>2. ASSUME Operate
      PROVE  NextWorkflow
  BY <1>2, Zenon DEF Operate, ResetIdle, Beside, NextWorkflow
<1>3. ASSUME NEW s \in Shards, CrashBuilder(s)
      PROVE  NextWorkflow
  BY <1>3 DEF CrashBuilder, NextWorkflow
<1>4. RestartContainer => NextWorkflow
  BY DEF RestartContainer, NextWorkflow
<1> QED
  BY <1>1, <1>2, <1>3, <1>4

LEMMA OperateKeeps ==
    Operate => UNCHANGED <<held, req, keys, awaited, orphaned, raced>>
  BY DEF Operate, ResetIdle, Beside, Register, RegisterAgain, Reset, Prioritise, ResetShard,
         Discard

LEMMA RequestInit == InitRequests => RequestTyped /\ RunningIsHeld
<1> SUFFICES ASSUME InitRequests
             PROVE  RequestTyped /\ RunningIsHeld
  OBVIOUS
<1>1. TypeOK
  BY TypeInit DEF InitRequests, InitWorkflow
<1>2. RequestTyped
  <2>1. held \in [Shards -> SUBSET Arcs] /\ orphaned \in [Shards -> SUBSET Arcs]
    BY DEF InitRequests, InitWorkflow
  <2>2. req \in [Shards -> Request] /\ \A s \in Shards : RequestOK(req[s])
    BY IdleTyped DEF InitRequests
  <2> QED
    BY <1>1, <2>1, <2>2 DEF InitRequests, RequestTyped
<1>3. RunningIsHeld
  BY DEF InitRequests, InitWorkflow, Init, RunningIsHeld
<1> QED
  BY <1>2, <1>3

LEMMA RequestTypeStep == RequestTyped /\ [NextRequests]_requestVars => RequestTyped'
<1> SUFFICES ASSUME RequestTyped, [NextRequests]_requestVars
             PROVE  RequestTyped'
  OBVIOUS
<1>1. ASSUME NextWorkflow \/ UNCHANGED workflowVars
      PROVE  TypeOK'
  <2>1. [Next]_archonVars
    BY <1>1, WorkflowIsArchon DEF workflowVars, archonVars
  <2> QED
    BY <2>1, TypeStep DEF RequestTyped
<1>2. ASSUME UNCHANGED <<req, keys>>
      PROVE  req' \in [Shards -> Request] /\ \A s \in Shards : RequestOK(req[s])'
  BY <1>2 DEF RequestTyped, RequestOK, CacheList
<1>3. ASSUME NEW s \in Shards, NEW a \in Arcs, ReportMeanwhile(s, a)
      PROVE  RequestTyped'
  <2>1. TypeOK'
    BY <1>1, <1>3, BesidesAreWorkflow
  <2>2. held' \in [Shards -> SUBSET Arcs] /\ UNCHANGED <<req, keys, awaited, orphaned, raced>>
    BY <1>3 DEF ReportMeanwhile, Beside, Report, RequestTyped
  <2> QED
    BY <1>2, <2>1, <2>2 DEF RequestTyped
<1>4. CASE Operate
  <2>1. TypeOK'
    BY <1>1, <1>4, BesidesAreWorkflow
  <2> QED
    BY <1>2, <1>4, <2>1, OperateKeeps DEF RequestTyped
<1>5. ASSUME NEW s \in Shards, CrashBuilder(s)
      PROVE  RequestTyped'
  <2>1. TypeOK'
    BY <1>1, <1>5, BesidesAreWorkflow
  <2>2. /\ held' \in [Shards -> SUBSET Arcs] /\ orphaned' \in [Shards -> SUBSET Arcs]
        /\ awaited' \subseteq Shards /\ UNCHANGED <<keys, raced>>
    BY <1>5 DEF CrashBuilder, RestartBuilder, RequestTyped
  <2>3. req' \in [Shards -> Request] /\ \A t \in Shards : RequestOK(req[t])'
    <3>1. CASE At(s, "answer")
      BY <1>5, <2>2, <3>1, IdleTyped, OneRequestTyped DEF CrashBuilder
    <3>2. CASE ~At(s, "answer")
      BY <1>2, <1>5, <2>2, <3>2 DEF CrashBuilder
    <3> QED
      BY <3>1, <3>2
  <2> QED
    BY <2>1, <2>2, <2>3 DEF RequestTyped
<1>6. CASE RestartContainer
  <2>1. TypeOK'
    BY <1>1, <1>6, BesidesAreWorkflow
  <2>2. /\ UNCHANGED <<held, raced>> /\ keys' = {} /\ awaited' = {}
        /\ req' = [s \in Shards |-> Idle]
        /\ orphaned' \in [Shards -> SUBSET Arcs]
    BY <1>6, InTransitIsFile DEF RestartContainer, RestartArchon, RequestTyped
  <2>3. Idle \in Request /\ RequestOK(Idle)'
    BY EmptyCacheList, IdleTyped DEF Idle, RequestOK, CacheList
  <2>4. req' \in [Shards -> Request] /\ \A s \in Shards : RequestOK(req[s])'
    BY <2>2, <2>3 DEF RequestOK
  <2> QED
    BY <2>1, <2>2, <2>4 DEF RequestTyped
<1>7. CASE UNCHANGED requestVars
  <2>1. UNCHANGED workflowVars /\ UNCHANGED <<held, req, keys, awaited, orphaned, raced>>
    BY <1>7 DEF requestVars, workflowVars
  <2> QED
    BY <1>1, <1>2, <2>1 DEF RequestTyped
<1> QED
  BY <1>3, <1>4, <1>5, <1>6, <1>7, HandleTyped, LoseAnswerTyped DEF NextRequests

LEMMA RequestsStayTyped == RequestsSpec => []RequestTyped
  BY RequestInit, RequestTypeStep, PTL DEF RequestsSpec

(* Every variable keeps its type, however the requests interleave: no list *)
(* grows over its limit or has a file twice, also when a list is filled    *)
(* while another request purges it.                                        *)
THEOREM RequestTypeCorrect == RequestsSpec => []RequestTypeOK
<1>1. RequestTyped => RequestTypeOK
  BY DEF RequestTyped, TypeOK, RequestTypeOK, RequestOK, Request, RequestSteps
<1> QED
  BY <1>1, RequestsStayTyped, PTL

-----------------------------------------------------------------------------
(* What a race cannot break.                                               *)

LEMMA HandleRunning ==
    ASSUME RequestTyped, RunningIsHeld, NEW s \in Shards, Handle(s)
    PROVE  RunningIsHeld'
<1>1. ASSUME UNCHANGED <<db, held, orphaned>>, ~At(s, "answer"), req'[s].at # "answer",
             \A t \in Shards \ {s} : req'[t] = req[t]
      PROVE  RunningIsHeld'
  <2>1. \A t \in Shards : InTransit(t)' = InTransit(t)
    BY <1>1 DEF InTransit, At
  <2> QED
    BY <1>1, <2>1 DEF RunningIsHeld
<1>2. ASSUME NEW kind, FinishWithout(s, kind), ~At(s, "answer"), UNCHANGED db
      PROVE  RunningIsHeld'
  <2>1. req'[s] = Idle /\ \A t \in Shards \ {s} : req'[t] = req[t]
    BY <1>2, FinishEffect DEF FinishWithout, RequestTyped
  <2> QED
    BY <1>1, <1>2, <2>1, IdleTyped DEF FinishWithout
<1>3. CASE Begin(s) \/ Check(s) \/ Put(s) \/ Size(s) \/ TakeFirst(s) \/ Purge(s)
  <2>1. ~At(s, "answer") /\ UNCHANGED db
    BY <1>3 DEF Begin, Check, Put, Size, TakeFirst, Purge, At
  <2>2. CASE \E kind : FinishWithout(s, kind)
    BY <1>2, <2>1, <2>2
  <2>3. CASE ~\E kind : FinishWithout(s, kind)
    <3>1. UNCHANGED <<held, orphaned>>
      BY <1>3, <2>3 DEF Begin, Check, Put, Size, TakeFirst, Purge
    <3>2. req[s] \in Request /\ req \in [Shards -> Request] /\ req[s].at # "answer"
      BY <2>1 DEF RequestTyped, At
    <3>3. req'[s].at # "answer" /\ \A t \in Shards \ {s} : req'[t] = req[t]
      <4>1. CASE Begin(s)
        BY <3>2, <4>1 DEF Begin, Goto, Request
      <4>2. CASE Check(s)
        BY <3>2, <4>2 DEF Check, Goto, Request
      <4>3. CASE Put(s)
        BY <3>2, <4>3 DEF Put, Request
      <4>4. CASE Size(s)
        BY <2>3, <3>2, <4>4 DEF Size, Goto, Request
      <4>5. CASE TakeFirst(s)
        BY <2>3, <3>2, <4>5 DEF TakeFirst, Request
      <4>6. CASE Purge(s)
        BY <2>3, <3>2, <4>6 DEF Purge, Request
      <4> QED
        BY <1>3, <4>1, <4>2, <4>3, <4>4, <4>5, <4>6
    <3> QED
      BY <1>1, <2>1, <3>1, <3>3
  <2> QED
    BY <2>2, <2>3
<1>4. CASE Commit(s)
  <2> DEFINE vo == req[s].vo
  <2>1. vo \in ArcVO /\ vo.id \in Arcs /\ ~At(s, "answer")
    BY <1>4, RequestsTyped DEF Commit, At, RequestOK, ArcVO
  <2> HIDE DEF vo
  <2>2. CASE FinishWithout(s, "error") /\ UNCHANGED db
    BY <1>2, <2>1, <2>2
  <2>3. CASE /\ vo.id \in DOMAIN db
             /\ db' = [db EXCEPT ![vo.id].shard = s, ![vo.id].state = "RUNNING",
                                 ![vo.id].priority = vo.priority]
    <3>1. /\ DOMAIN db' = DOMAIN db /\ db'[vo.id].shard = s
          /\ \A a \in DOMAIN db : a # vo.id => db'[a] = db[a]
      BY <2>3 DEF RequestTyped, TypeOK, TableOK, Row
    <3>2. \/ /\ req' = [req EXCEPT ![s] = [Idle EXCEPT !.at = "answer", !.vo = vo]]
             /\ orphaned' = [orphaned EXCEPT ![s] = @ \ {vo.id}]
          \/ /\ req' = [req EXCEPT ![s] = Idle]
             /\ orphaned' = [orphaned EXCEPT ![s] = @ \cup {vo.id}]
      BY <1>4, <2>3 DEF Commit, vo
    <3>3. /\ vo.id \in InTransit(s)' \cup orphaned'[s] /\ UNCHANGED held
          /\ \A a : a \in orphaned[s] /\ a # vo.id => a \in orphaned'[s]
          /\ \A t \in Shards \ {s} :
                InTransit(t)' = InTransit(t) /\ orphaned'[t] = orphaned[t]
      <4>1. UNCHANGED held
        BY <1>4, <2>3 DEF Commit, vo, FinishWithout
      <4>2. [Idle EXCEPT !.at = "answer", !.vo = vo].vo = vo
            /\ [Idle EXCEPT !.at = "answer", !.vo = vo].at = "answer"
        BY DEF Idle
      <4> QED
        BY <3>2, <4>1, <4>2 DEF RequestTyped, InTransit, At
    <3>4. InTransit(s) = {}
      BY <2>1, InTransitIsFile
    <3> QED
      BY <3>1, <3>3, <3>4 DEF RunningIsHeld
  <2> QED
    BY <1>4, <2>2, <2>3 DEF Commit, vo
<1>5. CASE Deliver(s)
  <2>1. UNCHANGED <<db, orphaned>> /\ req' = [req EXCEPT ![s] = Idle]
        /\ held' = [held EXCEPT ![s] = @ \cup InTransit(s)]
    BY <1>5, FinishEffect DEF Deliver
  <2>2. \A t \in Shards : held[t] \cup InTransit(t) \subseteq held'[t] \cup InTransit(t)'
    BY <2>1 DEF RequestTyped, InTransit, At
  <2> QED
    BY <2>1, <2>2 DEF RunningIsHeld
<1> QED
  BY <1>3, <1>4, <1>5 DEF Handle

LEMMA LoseAnswerRunning ==
    ASSUME RequestTyped, RunningIsHeld, NEW s \in Shards, LoseAnswer(s)
    PROVE  RunningIsHeld'
<1>1. \A t \in Shards : orphaned[t] \cup InTransit(t) \subseteq orphaned'[t] \cup InTransit(t)'
  BY DEF LoseAnswer, RequestTyped, InTransit, At
<1> QED
  BY <1>1 DEF LoseAnswer, RunningIsHeld

LEMMA OperateRunning ==
    ASSUME RequestTyped, RunningIsHeld, Operate
    PROVE  RunningIsHeld'
<1>1. UNCHANGED <<held, orphaned>> /\ \A t \in Shards : InTransit(t)' = InTransit(t)
  BY OperateKeeps DEF InTransit, At
<1>2. \A a \in DOMAIN db : db[a] \in Row
  BY DEF RequestTyped, TypeOK, TableOK
<1> DEFINE NothingStarted ==
             \A a \in DOMAIN db' : db'[a].state = "RUNNING" =>
                a \in DOMAIN db /\ db[a].state = "RUNNING" /\ db[a].shard = db'[a].shard
<1>3. NothingStarted
  <2>1. ASSUME NEW a \in Arcs, NEW f \in Folders, Register(a, f) \/ RegisterAgain(a, f)
        PROVE  NothingStarted
    BY <1>2, <2>1
    DEF Register, RegisterAgain, AddARC, AddOrUpdateARC, InsertRow, NewRow, Row
  <2>2. ASSUME NEW a \in Arcs, NEW p \in Priorities, Reset(a, p) \/ Prioritise(a, p)
        PROVE  NothingStarted
    <3>1. PICK row : /\ UpdateRow(a, row)
                     /\ a \in DOMAIN db =>
                          \/ row.state = "NEW"
                          \/ row.state = db[a].state /\ row.shard = db[a].shard
      <4>1. \A r \in Row :
               /\ [r EXCEPT !.shard = NoShard, !.state = "NEW", !.priority = p].state = "NEW"
               /\ [r EXCEPT !.priority = p].state = r.state
               /\ [r EXCEPT !.priority = p].shard = r.shard
        BY DEF Row
      <4> QED
        BY <1>2, <2>2, <4>1 DEF Reset, Prioritise, ResetArcWithPriority, SetARCPriority
    <3>2. CASE a \in DOMAIN db
      BY <1>2, <3>1, <3>2 DEF UpdateRow
    <3>3. CASE a \notin DOMAIN db
      BY <3>1, <3>3 DEF UpdateRow
    <3> QED
      BY <3>2, <3>3
  <2>3. ASSUME NEW s \in Shards, ResetShard(s)
        PROVE  NothingStarted
    BY <1>2, <2>3 DEF ResetShard, ResetShardID, UpdateShard, Row
  <2>4. ASSUME NEW a \in Arcs, Discard(a)
        PROVE  NothingStarted
    BY <2>4 DEF Discard, RemoveARC
  <2> QED
    BY <2>1, <2>2, <2>3, <2>4 DEF Operate, ResetIdle, Beside
<1> QED
  BY <1>1, <1>3 DEF RunningIsHeld

LEMMA RunningStep ==
    RequestTyped /\ RunningIsHeld /\ [NextRequests]_requestVars => RunningIsHeld'
<1> SUFFICES ASSUME RequestTyped, RunningIsHeld, [NextRequests]_requestVars
             PROVE  RunningIsHeld'
  OBVIOUS
<1>rows. \A a \in DOMAIN db : db[a] \in Row
  BY DEF RequestTyped, TypeOK, TableOK
<1>1. ASSUME NEW s \in Shards, NEW a \in Arcs, ReportMeanwhile(s, a)
      PROVE  RunningIsHeld'
  <2>1. /\ SetARCState(a, "COMPLETED") /\ orphaned' = orphaned
        /\ held' = [held EXCEPT ![s] = @ \ {a}]
    BY <1>1 DEF ReportMeanwhile, Beside, Report
  <2>2. /\ \A t \in Shards : \A b \in held[t] : b = a \/ b \in held'[t]
        /\ \A t \in Shards : InTransit(t)' = InTransit(t)
    BY <1>1, <2>1 DEF ReportMeanwhile, Beside, RequestTyped, InTransit, At
  <2>3. CASE a \in DOMAIN db
    BY <1>rows, <2>1, <2>2, <2>3 DEF SetARCState, UpdateRow, Row, RunningIsHeld
  <2>4. CASE a \notin DOMAIN db
    BY <2>1, <2>2, <2>4 DEF SetARCState, UpdateRow, RunningIsHeld
  <2> QED
    BY <2>3, <2>4
<1>2. ASSUME NEW s \in Shards, CrashBuilder(s)
      PROVE  RunningIsHeld'
  <2>1. /\ ClearIndexing(s)
        /\ held' = [held EXCEPT ![s] = {}] /\ orphaned' = [orphaned EXCEPT ![s] = {}]
    BY <1>2 DEF CrashBuilder, RestartBuilder
  <2>2. \A t \in Shards : t # s => /\ held'[t] = held[t] /\ orphaned'[t] = orphaned[t]
                                   /\ InTransit(t)' = InTransit(t)
    BY <1>2, <2>1 DEF CrashBuilder, RequestTyped, InTransit, At
  <2>3. DOMAIN db' = DOMAIN db
        /\ \A a \in DOMAIN db : db'[a] =
              IF db[a].shard = s /\ db[a].state = "RUNNING"
              THEN [db[a] EXCEPT !.state = "NEW", !.shard = NoShard]
              ELSE db[a]
    BY <2>1 DEF ClearIndexing, UpdateShard
  <2>4. \A a \in DOMAIN db : db'[a].state = "RUNNING" => db'[a] = db[a] /\ db[a].shard # s
    BY <1>rows, <2>3 DEF Row
  <2> QED
    BY <2>2, <2>3, <2>4 DEF RunningIsHeld
<1>3. CASE RestartContainer
  <2>1. /\ UNCHANGED <<db, held>>
        /\ \A t \in Shards : orphaned'[t] = orphaned[t] \cup InTransit(t)
    BY <1>3 DEF RestartContainer, RestartArchon, RestartServer
  <2> QED
    BY <2>1 DEF RunningIsHeld
<1>4. CASE UNCHANGED requestVars
  BY <1>4 DEF requestVars, RunningIsHeld, InTransit, At
<1> QED
  BY <1>1, <1>2, <1>3, <1>4, HandleRunning, LoseAnswerRunning, OperateRunning
  DEF NextRequests

(* No file is lost in a race: a row that says RUNNING for a shard is in    *)
(* the hands of that shard's builder or on its way to it, or its builder   *)
(* was not told of it, because it did not wait any more or because the     *)
(* connection or the container failed after the commit                     *)
(* (ArchonStorage.nextARC, its facade, ArchonConnectorClient.nextARC).     *)
THEOREM LeasesNotLost == RequestsSpec => []RunningIsHeld
  BY RequestInit, RequestsStayTyped, RunningStep, PTL DEF RequestsSpec

-----------------------------------------------------------------------------
(* What only a race breaks. One request at a time works on the caches; in  *)
(* the middle of its work, what it read and what it took is as fresh as    *)
(* the caches are, and no list it has purged offers what it took.          *)

Known(s, vo) == vo.id \in Eligible(s) /\ vo.folder = db[vo.id].folder

OneBusy == \A s, t \in Shards : Busy(s) /\ Busy(t) => s = t

ReadListFresh ==
    \A s \in Shards : At(s, "put") => \A i \in 1..Len(req[s].list) : Known(s, req[s].list[i])

TakenFileFresh ==
    \A s \in Shards : At(s, "purge") =>
        /\ Known(s, req[s].vo)
        /\ req[s].seen = keys
        /\ \A t \in Shards \ req[s].todo : \A j \in 1..Len(cache[t]) :
              cache[t][j].id # req[s].vo.id

CachesKeyed == \A t \in Shards : cache[t] # <<>> => t \in keys

(* A file on its way to a builder is leased to it, and not in its hands.   *)
TransitLeased ==
    \A s \in Shards : \A a \in InTransit(s) :
        a \in DOMAIN db /\ db[a].state = "RUNNING" /\ db[a].shard = s /\ a \notin held[s]

Quiet ==
    /\ CacheFresh /\ HeldIsRunning /\ StartedHasShard
    /\ OneBusy /\ ReadListFresh /\ TakenFileFresh /\ CachesKeyed /\ TransitLeased

QuietInv == ~raced => Quiet

LEMMA QuietWorkflow ==
    ASSUME RequestTyped, Quiet
    PROVE  WorkflowInv
  BY DEF RequestTyped, Quiet, WorkflowInv

(* A step of one request that leases nothing. It may only touch the caches *)
(* if it is the one that works on them.                                    *)
LEMMA QuietStep ==
    ASSUME RequestTyped, Quiet, NEW s \in Shards, NEW r,
           req' = [req EXCEPT ![s] = r], r.at # "answer", UNCHANGED db,
           held'[s] \subseteq held[s] \cup InTransit(s),
           \A t \in Shards \ {s} : held'[t] \subseteq held[t],
           r.at \in {"idle", "check"} \/ Busy(s) \/ \A t \in Shards \ {s} : ~Busy(t),
           UNCHANGED <<cache, keys>> \/ Busy(s),
           CacheFresh', CachesKeyed',
           r.at = "put" => \A i \in 1..Len(r.list) : Known(s, r.list[i]),
           r.at = "purge" =>
              /\ Known(s, r.vo)
              /\ r.seen = keys'
              /\ \A t \in Shards \ r.todo : \A j \in 1..Len(cache'[t]) :
                    cache'[t][j].id # r.vo.id
    PROVE  Quiet'
<1>1. req'[s] = r /\ \A t \in Shards \ {s} : req'[t] = req[t]
  BY DEF RequestTyped
<1>2. \A t \in Shards : Eligible(t)' = Eligible(t)
  BY DEF Eligible
<1>3. HeldIsRunning' /\ StartedHasShard'
  BY DEF Quiet, HeldIsRunning, StartedHasShard, TransitLeased
<1>4. OneBusy'
  BY <1>1 DEF Quiet, OneBusy, Busy
<1>5. ReadListFresh'
  <2> SUFFICES ASSUME NEW t \in Shards, req'[t].at = "put", NEW i \in 1..Len(req'[t].list)
               PROVE  Known(t, req'[t].list[i])
    BY <1>2 DEF ReadListFresh, At, Known
  <2> QED
    BY <1>1 DEF Quiet, ReadListFresh, At
<1>6. TakenFileFresh'
  <2> SUFFICES ASSUME NEW t \in Shards, req'[t].at = "purge"
               PROVE  /\ Known(t, req'[t].vo)
                      /\ req'[t].seen = keys'
                      /\ \A u \in Shards \ req'[t].todo : \A j \in 1..Len(cache'[u]) :
                            cache'[u][j].id # req'[t].vo.id
    BY <1>2 DEF TakenFileFresh, At, Known
  <2>1. CASE t = s
    BY <1>1, <2>1
  <2>2. CASE t # s
    <3>1. req'[t] = req[t] /\ Busy(t)
      BY <1>1, <2>2 DEF Busy
    <3>2. UNCHANGED <<cache, keys>>
      BY <2>2, <3>1 DEF Quiet, OneBusy
    <3> QED
      BY <3>1, <3>2 DEF Quiet, TakenFileFresh, At
  <2> QED
    BY <2>1, <2>2
<1>7. TransitLeased'
  BY <1>1 DEF Quiet, TransitLeased, InTransit, At
<1> QED
  BY <1>3, <1>4, <1>5, <1>6, <1>7 DEF Quiet

LEMMA CachesKept ==
    ASSUME RequestTyped, Quiet, UNCHANGED <<db, cache, keys>>
    PROVE  CacheFresh' /\ CachesKeyed'
<1>1. CacheFresh'
  BY FreshWhenEligibleKept DEF Quiet, Eligible
<1> QED
  BY <1>1 DEF Quiet, CachesKeyed

(* A cache that loses entries, or is filled with a list that was just read.*)
LEMMA CacheReplaced ==
    ASSUME RequestTyped, Quiet, NEW t \in Shards, NEW list,
           cache' = [cache EXCEPT ![t] = list], UNCHANGED db, keys \subseteq keys',
           list # <<>> => t \in keys',
           \A i \in 1..Len(list) : Known(t, list[i])
    PROVE  CacheFresh' /\ CachesKeyed'
<1>1. cache'[t] = list /\ \A u \in Shards \ {t} : cache'[u] = cache[u]
  BY DEF RequestTyped, TypeOK, CachesOK
<1>2. \A u \in Shards : Eligible(u)' = Eligible(u)
  BY DEF Eligible
<1>3. CacheFresh'
  <2> SUFFICES ASSUME NEW u \in Shards, NEW i \in 1..Len(cache'[u])
               PROVE  cache'[u][i].id \in Eligible(u) /\ cache'[u][i].folder = db[cache'[u][i].id].folder
    BY <1>2 DEF CacheFresh
  <2> QED
    BY <1>1 DEF Quiet, CacheFresh, Known
<1>4. CachesKeyed'
  BY <1>1 DEF Quiet, CachesKeyed
<1> QED
  BY <1>3, <1>4

LEMMA FinishQuiet ==
    ASSUME RequestTyped, Quiet, NEW s \in Shards, NEW kind, FinishWithout(s, kind),
           UNCHANGED <<db, cache, keys>>
    PROVE  Quiet'
<1>1. req' = [req EXCEPT ![s] = Idle] /\ UNCHANGED held
  BY FinishEffect DEF FinishWithout
<1> QED
  BY <1>1, CachesKept, QuietStep, IdleTyped

LEMMA BeginQuiet ==
    ASSUME RequestTyped, Quiet, NEW s \in Shards, Begin(s)
    PROVE  Quiet'
<1> DEFINE r == [req[s] EXCEPT !.at = "check"]
<1>1. req' = [req EXCEPT ![s] = r] /\ UNCHANGED <<db, cache, keys, held>>
  BY DEF Begin, Goto
<1>2. r.at = "check"
  BY RequestsTyped DEF Request
<1> HIDE DEF r
<1> QED
  BY <1>1, <1>2, CachesKept, QuietStep

LEMMA CheckQuiet ==
    ASSUME RequestTyped, Quiet, NEW s \in Shards, Check(s), ~raced'
    PROVE  Quiet'
<1>1. UNCHANGED <<db, cache, keys, held>> /\ \A t \in Shards \ {s} : ~Busy(t)
  BY DEF Check
<1>2. CASE Goto(s, "size")
  <2> DEFINE r == [req[s] EXCEPT !.at = "size"]
  <2>1. req' = [req EXCEPT ![s] = r] /\ r.at = "size"
    BY <1>2, RequestsTyped DEF Goto, Request
  <2> HIDE DEF r
  <2> QED
    BY <1>1, <2>1, CachesKept, QuietStep
<1>3. CASE \E list \in NextArcIdsToCache(s) :
              req' = [req EXCEPT ![s].at = "put", ![s].list = list]
  <2>1. PICK list \in NextArcIdsToCache(s) :
           req' = [req EXCEPT ![s] = [req[s] EXCEPT !.at = "put", !.list = list]]
    BY <1>3
  <2> DEFINE r == [req[s] EXCEPT !.at = "put", !.list = list]
  <2>2. r.at = "put" /\ r.list = list
    BY RequestsTyped DEF Request
  <2>3. \A i \in 1..Len(list) : Known(s, list[i])
    BY LoadedElements DEF RequestTyped, TypeOK, Known
  <2> HIDE DEF r
  <2> QED
    BY <1>1, <2>1, <2>2, <2>3, CachesKept, QuietStep DEF r
<1> QED
  BY <1>2, <1>3 DEF Check

LEMMA PutQuiet ==
    ASSUME RequestTyped, Quiet, NEW s \in Shards, Put(s)
    PROVE  Quiet'
<1> DEFINE r == [req[s] EXCEPT !.at = "size", !.list = <<>>]
<1>1. /\ req' = [req EXCEPT ![s] = r] /\ cache' = [cache EXCEPT ![s] = req[s].list]
      /\ keys' = keys \cup {s} /\ UNCHANGED <<db, held>> /\ Busy(s) /\ At(s, "put")
  BY DEF Put, At, Busy
<1>2. r.at = "size"
  BY RequestsTyped DEF Request
<1> HIDE DEF r
<1>3. \A i \in 1..Len(req[s].list) : Known(s, req[s].list[i])
  BY <1>1 DEF Quiet, ReadListFresh
<1>4. CacheFresh' /\ CachesKeyed'
  BY <1>1, <1>3, CacheReplaced
<1> QED
  BY <1>1, <1>2, <1>4, QuietStep

LEMMA SizeQuiet ==
    ASSUME RequestTyped, Quiet, NEW s \in Shards, Size(s)
    PROVE  Quiet'
<1>1. CASE FinishWithout(s, "empty")
  BY <1>1, FinishQuiet DEF Size
<1>2. CASE Goto(s, "remove") /\ UNCHANGED held
  <2> DEFINE r == [req[s] EXCEPT !.at = "remove"]
  <2>1. req' = [req EXCEPT ![s] = r] /\ r.at = "remove"
    BY <1>2, RequestsTyped DEF Goto, Request
  <2> HIDE DEF r
  <2>2. UNCHANGED <<db, cache, keys>> /\ Busy(s)
    BY DEF Size, At, Busy
  <2> QED
    BY <1>2, <2>1, <2>2, CachesKept, QuietStep
<1> QED
  BY <1>1, <1>2 DEF Size

LEMMA TakeFirstQuiet ==
    ASSUME RequestTyped, Quiet, NEW s \in Shards, TakeFirst(s)
    PROVE  Quiet'
<1>1. CASE FinishWithout(s, "failure") /\ UNCHANGED cache
  BY <1>1, FinishQuiet DEF TakeFirst
<1>2. CASE /\ cache[s] # <<>>
           /\ cache' = [cache EXCEPT ![s] = Tail(@)]
           /\ req' = [req EXCEPT ![s].at = "purge", ![s].vo = Head(cache[s]),
                                 ![s].seen = keys, ![s].todo = keys]
           /\ UNCHANGED held
  <2> DEFINE list == cache[s]
             r == [req[s] EXCEPT !.at = "purge", !.vo = Head(list), !.seen = keys, !.todo = keys]
  <2>1. /\ req' = [req EXCEPT ![s] = r] /\ cache' = [cache EXCEPT ![s] = Tail(list)]
        /\ UNCHANGED <<db, keys>> /\ Busy(s) /\ s \in keys
    BY <1>2 DEF TakeFirst, At, Busy, Quiet, CachesKeyed
  <2>2. r.at = "purge" /\ r.vo = Head(list) /\ r.seen = keys /\ r.todo = keys
    BY RequestsTyped DEF Request
  <2> HIDE DEF r
  <2>3. /\ Head(list) = list[1] /\ 1 \in 1..Len(list)
        /\ \A i \in 1..Len(Tail(list)) : \E j \in 1..Len(list) : Tail(list)[i] = list[j]
    BY <1>2, RequestsTyped, TailElements
  <2>4. \A i \in 1..Len(list) : Known(s, list[i])
    BY DEF Quiet, CacheFresh, Known
  <2>5. Known(s, Head(list)) /\ \A i \in 1..Len(Tail(list)) : Known(s, Tail(list)[i])
    BY <2>3, <2>4
  <2>6. CacheFresh' /\ CachesKeyed'
    <3> HIDE DEF list
    <3> QED
      BY <2>1, <2>5, CacheReplaced
  <2>7. \A t \in Shards \ keys : Len(cache'[t]) = 0
    <3>1. \A t \in Shards \ keys : cache'[t] = cache[t]
      BY <2>1 DEF RequestTyped, TypeOK, CachesOK
    <3>2. \A t \in Shards \ keys : cache[t] = <<>>
      BY DEF Quiet, CachesKeyed
    <3> QED
      BY <3>1, <3>2, EmptySeq
  <2>8. \A t \in Shards \ r.todo : \A j \in 1..Len(cache'[t]) : cache'[t][j].id # r.vo.id
    BY <2>2, <2>7
  <2>9. Known(s, r.vo) /\ r.seen = keys' /\ UNCHANGED held
    BY <1>2, <2>1, <2>2, <2>5
  <2> HIDE DEF list
  <2> QED
    BY <2>1, <2>2, <2>6, <2>8, <2>9, QuietStep
<1> QED
  BY <1>1, <1>2 DEF TakeFirst

LEMMA PurgeQuiet ==
    ASSUME RequestTyped, Quiet, NEW s \in Shards, Purge(s)
    PROVE  Quiet'
<1> DEFINE vo == req[s].vo
<1>1. CASE FinishWithout(s, "failure") /\ UNCHANGED cache
  BY <1>1, FinishQuiet DEF Purge
<1>2. CASE /\ keys = req[s].seen
           /\ \E t \in req[s].todo :
                 /\ cache' = [cache EXCEPT ![t] = WithoutFile(@, req[s].vo)]
                 /\ req' = [req EXCEPT ![s].todo = @ \ {t}]
           /\ UNCHANGED held
  <2>1. PICK t \in req[s].todo :
           /\ cache' = [cache EXCEPT ![t] = WithoutFile(cache[t], req[s].vo)]
           /\ req' = [req EXCEPT ![s] = [req[s] EXCEPT !.todo = @ \ {t}]]
    BY <1>2
  <2> DEFINE r == [req[s] EXCEPT !.todo = @ \ {t}]
             list == WithoutFile(cache[t], vo)
  <2>2. r.at = "purge" /\ r.vo = vo /\ r.seen = keys /\ r.todo = req[s].todo \ {t}
    BY <1>2, RequestsTyped DEF Request, Purge, At
  <2>3. t \in keys /\ t \in Shards /\ Busy(s) /\ UNCHANGED <<db, keys>>
    BY <1>2, RequestsTyped DEF Request, RequestOK, Purge, At, Busy
  <2>4. CacheList(cache[t])
    BY <2>3, RequestsTyped
  <2>5. \A j \in 1..Len(list) : /\ \E i \in 1..Len(cache[t]) : list[j] = cache[t][i]
                                /\ ~SameFile(list[j], vo)
    BY <2>4, WithoutFileElements
  <2>6. Known(s, vo) /\ \A i \in 1..Len(cache[t]) : Known(t, cache[t][i])
    BY <2>3 DEF Quiet, CacheFresh, TakenFileFresh, Known, Purge
  <2> HIDE DEF r, list, vo
  <2>7. \A j \in 1..Len(list) : Known(t, list[j]) /\ list[j].id # vo.id
    BY <2>5, <2>6 DEF Known, SameFile
  <2>8. CacheFresh' /\ CachesKeyed'
    BY <2>1, <2>3, <2>7, CacheReplaced DEF list, vo
  <2>9. cache'[t] = list /\ \A u \in Shards \ {t} : cache'[u] = cache[u]
    BY <2>1, <2>3 DEF RequestTyped, TypeOK, CachesOK, list, vo
  <2>10. \A u \in Shards \ r.todo : \A j \in 1..Len(cache'[u]) : cache'[u][j].id # r.vo.id
    <3>1. \A u \in Shards \ req[s].todo : \A j \in 1..Len(cache[u]) : cache[u][j].id # vo.id
      BY DEF Quiet, TakenFileFresh, Purge, vo
    <3>2. \A u \in Shards \ r.todo : u = t \/ u \in Shards \ req[s].todo
      BY <2>2
    <3> QED
      BY <2>2, <2>7, <2>9, <3>1, <3>2
  <2>11. Known(s, r.vo) /\ r.seen = keys' /\ UNCHANGED held
    BY <1>2, <2>2, <2>3, <2>6
  <2>12. req' = [req EXCEPT ![s] = r]
    BY <2>1 DEF r
  <2> QED
    BY <2>2, <2>3, <2>8, <2>10, <2>11, <2>12, QuietStep
<1> QED
  BY <1>1, <1>2 DEF Purge

(* The lease. The file waits, so nobody holds it, and no cache offers it.  *)
LEMMA CommitQuiet ==
    ASSUME RequestTyped, Quiet, NEW s \in Shards, Commit(s)
    PROVE  Quiet'
<1> DEFINE vo == req[s].vo
<1>1. /\ Known(s, vo) /\ vo \in ArcVO
      /\ \A t \in Shards : \A j \in 1..Len(cache[t]) : cache[t][j].id # vo.id
  BY RequestsTyped DEF Commit, Quiet, TakenFileFresh, At, RequestOK
<1> HIDE DEF vo
<1>2. vo.id \in DOMAIN db /\ vo.id \in Arcs /\ db[vo.id].state = "NEW"
  BY <1>1 DEF Known, Eligible, ArcVO
<1>3. /\ db' = [db EXCEPT ![vo.id].shard = s, ![vo.id].state = "RUNNING",
                          ![vo.id].priority = vo.priority]
      /\ \/ req' = [req EXCEPT ![s] = [Idle EXCEPT !.at = "answer", !.vo = vo]]
         \/ req' = [req EXCEPT ![s] = Idle]
      /\ UNCHANGED <<cache, keys, held>>
  BY <1>2 DEF Commit, vo
<1>4. /\ DOMAIN db' = DOMAIN db
      /\ db'[vo.id].state = "RUNNING" /\ db'[vo.id].shard = s
      /\ \A a \in DOMAIN db : a # vo.id => db'[a] = db[a]
  BY <1>2, <1>3 DEF RequestTyped, TypeOK, TableOK, Row
<1>5. /\ \/ req'[s] = Idle
         \/ req'[s].at = "answer" /\ req'[s].vo = vo
      /\ \A t \in Shards \ {s} : req'[t] = req[t]
  BY <1>3 DEF RequestTyped, Idle
<1>6. CacheFresh'
  <2> SUFFICES ASSUME cache' = cache, NEW t \in Shards, NEW j \in 1..Len(cache[t])
               PROVE  /\ cache[t][j].id \in Eligible(t)'
                      /\ cache[t][j].folder = db'[cache[t][j].id].folder
    <3>1. cache' = cache
      BY <1>3
    <3> QED
      BY <3>1 DEF CacheFresh
  <2>1. cache[t][j].id \in Eligible(t) /\ cache[t][j].folder = db[cache[t][j].id].folder
    BY DEF Quiet, CacheFresh
  <2>2. cache[t][j].id # vo.id
    BY <1>1
  <2> QED
    BY <1>4, <2>1, <2>2 DEF Eligible
<1>7. HeldIsRunning'
  BY <1>2, <1>3, <1>4 DEF Quiet, HeldIsRunning
<1>8. StartedHasShard'
  BY <1>2, <1>4, ShardsAssumption DEF Quiet, StartedHasShard
<1>9. \A t \in Shards : ~Busy(t)'
  <2>1. Busy(s)
    BY DEF Commit, At, Busy
  <2> QED
    BY <1>5, <2>1, IdleTyped DEF Quiet, OneBusy, Busy
<1>10. OneBusy' /\ ReadListFresh' /\ TakenFileFresh'
  BY <1>9 DEF OneBusy, ReadListFresh, TakenFileFresh, Busy, At
<1>11. CachesKeyed'
  BY <1>3 DEF Quiet, CachesKeyed
<1>12. TransitLeased'
  <2> SUFFICES ASSUME NEW t \in Shards, NEW a \in InTransit(t)'
               PROVE  /\ a \in DOMAIN db' /\ db'[a].state = "RUNNING" /\ db'[a].shard = t
                      /\ a \notin held'[t]
    BY DEF TransitLeased
  <2>1. CASE t = s
    <3>1. a = vo.id
      BY <1>5, <2>1, IdleTyped DEF InTransit, At
    <3>2. a \notin held[s]
      BY <1>2, <3>1 DEF Quiet, HeldIsRunning
    <3> QED
      BY <1>2, <1>3, <1>4, <2>1, <3>1, <3>2
  <2>2. CASE t # s
    <3>1. a \in InTransit(t)
      BY <1>5, <2>2 DEF InTransit, At
    <3>2. a \in DOMAIN db /\ db[a].state = "RUNNING" /\ db[a].shard = t /\ a \notin held[t]
      BY <3>1 DEF Quiet, TransitLeased
    <3> QED
      BY <1>2, <1>3, <1>4, <3>2
  <2> QED
    BY <2>1, <2>2
<1> QED
  BY <1>6, <1>7, <1>8, <1>10, <1>11, <1>12 DEF Quiet

(* The builder receives a file that is leased to it, or does not: the      *)
(* lease was made when the request was committed.                          *)
LEMMA AnswerQuiet ==
    ASSUME RequestTyped, Quiet, NEW s \in Shards, Deliver(s) \/ LoseAnswer(s)
    PROVE  Quiet'
<1>1. /\ req' = [req EXCEPT ![s] = Idle] /\ UNCHANGED <<db, cache, keys>>
      /\ UNCHANGED held \/ held' = [held EXCEPT ![s] = @ \cup InTransit(s)]
  BY FinishEffect DEF Deliver, LoseAnswer
<1>2. /\ held'[s] \subseteq held[s] \cup InTransit(s)
      /\ \A t \in Shards \ {s} : held'[t] \subseteq held[t]
  BY <1>1 DEF RequestTyped
<1> QED
  BY <1>1, <1>2, CachesKept, QuietStep, IdleTyped

LEMMA HandleQuiet ==
    ASSUME RequestTyped, Quiet, NEW s \in Shards, Handle(s), ~raced'
    PROVE  Quiet'
  BY BeginQuiet, CheckQuiet, PutQuiet, SizeQuiet, TakeFirstQuiet, PurgeQuiet, CommitQuiet,
     AnswerQuiet
  DEF Handle

(* Beside a running request, nobody takes a waiting file away: builders    *)
(* report what they hold, which is not waiting, and the operator discards  *)
(* what is finished.                                                       *)
LEMMA EligibleKept ==
    ASSUME RequestTyped, WorkflowInv,
           \/ \E s \in Shards, a \in Arcs : ReportMeanwhile(s, a)
           \/ \E s \in Shards : CrashBuilder(s)
           \/ Operate
    PROVE  /\ UNCHANGED <<cache, keys, raced>>
           /\ \A s \in Shards : req'[s] \in {req[s], Idle}
           /\ \A s \in Shards : \A a \in Eligible(s) :
                 a \in Eligible(s)' /\ db'[a].folder = db[a].folder
<1> DEFINE Kept == \A s \in Shards : \A a \in Eligible(s) :
                      a \in Eligible(s)' /\ db'[a].folder = db[a].folder
<1>rows. \A a \in DOMAIN db : db[a] \in Row
  BY DEF WorkflowInv, TypeOK, TableOK
<1>1. ASSUME NEW a \in Arcs, NEW row, UpdateRow(a, row),
             a \in DOMAIN db =>
                /\ row.folder = db[a].folder
                /\ \A s \in Shards : a \in Eligible(s) =>
                      row.state = "NEW" /\ row.shard \in {s, NoShard}
      PROVE  Kept /\ UNCHANGED cache
  <2>1. CASE a \in DOMAIN db
    <3>1. /\ DOMAIN db' = DOMAIN db /\ db'[a] = row
          /\ \A b \in DOMAIN db : b # a => db'[b] = db[b]
      BY <1>1, <2>1 DEF UpdateRow, WorkflowInv, TypeOK, TableOK
    <3> QED
      BY <1>1, <2>1, <3>1 DEF UpdateRow, Eligible
  <2>2. CASE a \notin DOMAIN db
    BY <1>1, <2>2 DEF UpdateRow, Eligible
  <2> QED
    BY <2>1, <2>2
<1>2. ASSUME UNCHANGED cache, NEW s \in Shards, DOMAIN db' = DOMAIN db,
             \A a \in DOMAIN db : db[a].shard # s => db'[a] = db[a],
             \A a \in DOMAIN db : db[a].shard = s =>
                /\ db'[a].folder = db[a].folder
                /\ db[a].state = "NEW" => db'[a].state = "NEW" /\ db'[a].shard = s
      PROVE  Kept
  BY <1>2 DEF Eligible
<1>3. ASSUME NEW s \in Shards, NEW a \in Arcs, ReportMeanwhile(s, a)
      PROVE  Kept /\ UNCHANGED <<cache, req, keys, raced>>
  <2>1. a \in held[s] /\ SetARCState(a, "COMPLETED") /\ UNCHANGED <<req, keys, raced>>
    BY <1>3 DEF ReportMeanwhile, Beside, Report
  <2>2. \A t \in Shards : a \notin Eligible(t)
    BY <2>1 DEF WorkflowInv, HeldIsRunning, Eligible
  <2>3. a \in DOMAIN db => [db[a] EXCEPT !.state = "COMPLETED"].folder = db[a].folder
    BY <1>rows DEF Row
  <2> QED
    BY <1>1, <2>1, <2>2, <2>3 DEF SetARCState
<1>4. ASSUME NEW s \in Shards, CrashBuilder(s), RequestTyped
      PROVE  /\ Kept /\ UNCHANGED <<cache, keys, raced>>
             /\ \A t \in Shards : req'[t] \in {req[t], Idle}
  <2>1. /\ UNCHANGED <<cache, keys, raced>> /\ DOMAIN db' = DOMAIN db
        /\ \A a \in DOMAIN db : db'[a] =
              IF db[a].shard = s /\ db[a].state = "RUNNING"
              THEN [db[a] EXCEPT !.state = "NEW", !.shard = NoShard]
              ELSE db[a]
    BY <1>4 DEF CrashBuilder, RestartBuilder, ClearIndexing, UpdateShard
  <2>2. \A a \in DOMAIN db : db[a].shard = s =>
              /\ db'[a].folder = db[a].folder
              /\ db[a].state = "NEW" => db'[a].state = "NEW" /\ db'[a].shard = s
    BY <1>rows, <2>1 DEF Row
  <2>3. \A t \in Shards : req'[t] \in {req[t], Idle}
    BY <1>4 DEF CrashBuilder, RequestTyped
  <2> QED
    BY <1>2, <2>1, <2>2, <2>3
<1>5. ASSUME NEW a \in Arcs, NEW f \in Folders, Register(a, f) \/ RegisterAgain(a, f)
      PROVE  Kept /\ UNCHANGED cache
  <2>1. CASE a \in DOMAIN db
    BY <1>5, <1>rows, <2>1
    DEF Register, RegisterAgain, AddARC, AddOrUpdateARC, Row, Eligible
  <2>2. CASE a \notin DOMAIN db
    BY <1>5, <2>2
    DEF Register, RegisterAgain, AddARC, AddOrUpdateARC, InsertRow, Eligible
  <2> QED
    BY <2>1, <2>2
<1>6. ASSUME NEW a \in Arcs, NEW p \in Priorities, Reset(a, p) \/ Prioritise(a, p)
      PROVE  Kept /\ UNCHANGED cache
  <2>1. \A r \in Row :
           /\ LET x == [r EXCEPT !.shard = NoShard, !.state = "NEW", !.priority = p]
              IN  x.folder = r.folder /\ x.state = "NEW" /\ x.shard = NoShard
           /\ LET x == [r EXCEPT !.priority = p]
              IN  x.folder = r.folder /\ x.state = r.state /\ x.shard = r.shard
    BY DEF Row
  <2>2. \A s \in Shards : a \in Eligible(s) => db[a].state = "NEW" /\ db[a].shard \in {s, NoShard}
    BY DEF Eligible
  <2>3. CASE Reset(a, p)
    BY <1>1, <1>rows, <2>1, <2>3 DEF Reset, ResetArcWithPriority
  <2>4. CASE Prioritise(a, p)
    BY <1>1, <1>rows, <2>1, <2>2, <2>4 DEF Prioritise, SetARCPriority
  <2> QED
    BY <1>6, <2>3, <2>4
<1>7. ASSUME NEW s \in Shards, ResetShard(s)
      PROVE  Kept /\ UNCHANGED cache
  <2>1. /\ UNCHANGED cache /\ DOMAIN db' = DOMAIN db
        /\ \A a \in DOMAIN db : db'[a] =
              IF db[a].shard = s THEN [db[a] EXCEPT !.state = "NEW"] ELSE db[a]
    BY <1>7 DEF ResetShard, ResetShardID, UpdateShard
  <2>2. \A a \in DOMAIN db : db[a].shard = s =>
              db'[a].folder = db[a].folder /\ db'[a].state = "NEW" /\ db'[a].shard = s
    BY <1>rows, <2>1 DEF Row
  <2> QED
    BY <1>2, <2>1, <2>2
<1>8. ASSUME NEW a \in Arcs, Discard(a)
      PROVE  Kept /\ UNCHANGED cache
  BY <1>8 DEF Discard, Finished, RemoveARC, Eligible
<1>9. CASE Operate
  <2>1. UNCHANGED <<req, keys, raced>>
    BY <1>9, OperateKeeps
  <2>2. Kept /\ UNCHANGED cache
    BY <1>5, <1>6, <1>7, <1>8, <1>9 DEF Operate, ResetIdle, Beside
  <2> QED
    BY <2>1, <2>2
<1> QED
  BY <1>3, <1>4, <1>9

(* Nobody gives away what is on its way to a builder either.               *)
LEMMA TransitKept ==
    ASSUME RequestTyped, WorkflowInv, TransitLeased,
           \/ \E s \in Shards, a \in Arcs : ReportMeanwhile(s, a)
           \/ \E s \in Shards : CrashBuilder(s)
           \/ Operate
    PROVE  TransitLeased'
<1>rows. \A a \in DOMAIN db : db[a] \in Row
  BY DEF WorkflowInv, TypeOK, TableOK
<1> DEFINE Leased == \A s \in Shards : \A a \in InTransit(s) :
                        /\ a \in DOMAIN db'
                        /\ db'[a].state = "RUNNING" /\ db'[a].shard = s
<1>1. ASSUME NEW s \in Shards, NEW a \in Arcs, ReportMeanwhile(s, a)
      PROVE  TransitLeased'
  <2>1. /\ a \in held[s] /\ SetARCState(a, "COMPLETED") /\ UNCHANGED req
        /\ held' = [held EXCEPT ![s] = @ \ {a}]
    BY <1>1 DEF ReportMeanwhile, Beside, Report
  <2>2. \A t \in Shards : a \notin InTransit(t)
    BY <2>1 DEF WorkflowInv, HeldIsRunning, TransitLeased
  <2>3. \A t \in Shards : held'[t] \subseteq held[t] /\ InTransit(t)' = InTransit(t)
    BY <2>1 DEF RequestTyped, InTransit, At
  <2>4. \A b \in DOMAIN db : b # a => b \in DOMAIN db' /\ db'[b] = db[b]
    BY <2>1 DEF SetARCState, UpdateRow
  <2> QED
    BY <2>2, <2>3, <2>4 DEF TransitLeased
<1>2. ASSUME NEW s \in Shards, CrashBuilder(s)
      PROVE  TransitLeased'
  <2>1. /\ DOMAIN db' = DOMAIN db
        /\ \A a \in DOMAIN db : db[a].shard # s => db'[a] = db[a]
        /\ held' = [held EXCEPT ![s] = {}]
    BY <1>2 DEF CrashBuilder, RestartBuilder, ClearIndexing, UpdateShard
  <2>2. InTransit(s)' = {}
    BY <1>2, IdleTyped DEF CrashBuilder, RequestTyped, InTransit, At
  <2>3. \A t \in Shards \ {s} : InTransit(t)' = InTransit(t) /\ held'[t] = held[t]
    BY <1>2, <2>1 DEF CrashBuilder, RequestTyped, InTransit, At
  <2> QED
    BY <2>1, <2>2, <2>3 DEF TransitLeased
<1>3. ASSUME NEW a \in Arcs, NEW f \in Folders, Register(a, f) \/ RegisterAgain(a, f)
      PROVE  Leased
  <2>1. ASSUME NEW b \in DOMAIN db
        PROVE  b \in DOMAIN db' /\ db'[b].state = db[b].state /\ db'[b].shard = db[b].shard
    BY <1>3, <1>rows
    DEF Register, RegisterAgain, AddARC, AddOrUpdateARC, InsertRow, Row
  <2> QED
    BY <2>1 DEF TransitLeased
<1>4. ASSUME NEW a \in Arcs, NEW p \in Priorities,
             (\A t \in Shards : a \notin InTransit(t)) /\ Reset(a, p)
      PROVE  Leased
  <2>1. \A b \in DOMAIN db : b # a => b \in DOMAIN db' /\ db'[b] = db[b]
    BY <1>4 DEF Reset, ResetArcWithPriority, UpdateRow
  <2> QED
    BY <1>4, <2>1 DEF TransitLeased
<1>5. ASSUME NEW a \in Arcs, NEW p \in Priorities, Prioritise(a, p)
      PROVE  Leased
  <2>1. \A x \in Row : /\ [x EXCEPT !.priority = p].state = x.state
                       /\ [x EXCEPT !.priority = p].shard = x.shard
    BY DEF Row
  <2>2. \A b \in DOMAIN db :
           b \in DOMAIN db' /\ db'[b].state = db[b].state /\ db'[b].shard = db[b].shard
    BY <1>5, <1>rows, <2>1 DEF Prioritise, SetARCPriority, UpdateRow
  <2> QED
    BY <2>2 DEF TransitLeased
<1>6. ASSUME NEW s \in Shards, InTransit(s) = {} /\ ResetShard(s)
      PROVE  Leased
  <2>1. /\ DOMAIN db' = DOMAIN db
        /\ \A a \in DOMAIN db : db[a].shard # s => db'[a] = db[a]
    BY <1>6 DEF ResetShard, ResetShardID, UpdateShard
  <2> QED
    BY <1>6, <2>1 DEF TransitLeased
<1>7. ASSUME NEW a \in Arcs, Discard(a)
      PROVE  Leased
  BY <1>7 DEF Discard, Finished, RemoveARC, TransitLeased
<1>8. CASE Operate
  <2>1. Leased
    BY <1>3, <1>4, <1>5, <1>6, <1>7, <1>8 DEF Operate, ResetIdle, Beside
  <2>2. UNCHANGED held /\ \A s \in Shards : InTransit(s)' = InTransit(s)
    BY <1>8, OperateKeeps DEF InTransit, At
  <2> QED
    BY <2>1, <2>2 DEF TransitLeased
<1> QED
  BY <1>1, <1>2, <1>8

(* A running request stays as fresh as it was when anything else happens.  *)
LEMMA BesideQuiet ==
    ASSUME RequestTyped, Quiet,
           \/ \E s \in Shards, a \in Arcs : ReportMeanwhile(s, a)
           \/ \E s \in Shards : CrashBuilder(s)
           \/ Operate
    PROVE  Quiet'
<1>1. WorkflowInv
  BY QuietWorkflow
<1>2. WorkflowInv'
  BY <1>1, WorkflowStep, BesidesAreWorkflow
<1>3. /\ UNCHANGED <<cache, keys>>
      /\ \A s \in Shards : req'[s] = req[s] \/ req'[s].at = "idle"
      /\ \A s \in Shards : \A a \in Eligible(s) :
            a \in Eligible(s)' /\ db'[a].folder = db[a].folder
  BY <1>1, EligibleKept, IdleTyped
<1>4. \A s \in Shards : \A vo : Known(s, vo) =>
         vo.id \in Eligible(s)' /\ vo.folder = db'[vo.id].folder
  BY <1>3 DEF Known
<1>5. ReadListFresh'
  BY <1>3, <1>4 DEF Quiet, ReadListFresh, At, Known
<1>6. TakenFileFresh'
  BY <1>3, <1>4 DEF Quiet, TakenFileFresh, At, Known
<1>7. OneBusy' /\ CachesKeyed'
  BY <1>3 DEF Quiet, OneBusy, Busy, CachesKeyed
<1>8. TransitLeased'
  BY <1>1, TransitKept DEF Quiet
<1> QED
  BY <1>2, <1>5, <1>6, <1>7, <1>8 DEF WorkflowInv, Quiet

LEMMA QuietInvStep ==
    RequestTyped /\ QuietInv /\ [NextRequests]_requestVars => QuietInv'
<1> SUFFICES ASSUME RequestTyped, QuietInv, [NextRequests]_requestVars, ~raced'
             PROVE  Quiet'
  BY DEF QuietInv
<1>1. CASE \E s \in Shards : Handle(s) \/ LoseAnswer(s)
  <2>1. ~raced
    BY <1>1 DEF Handle, Begin, Check, Put, Size, TakeFirst, Purge, Commit, Deliver, LoseAnswer
  <2> QED
    BY <1>1, <2>1, HandleQuiet, AnswerQuiet DEF QuietInv
<1>2. CASE \/ \E s \in Shards, a \in Arcs : ReportMeanwhile(s, a)
           \/ \E s \in Shards : CrashBuilder(s)
           \/ Operate
  <2>1. ~raced
    BY <1>2, OperateKeeps DEF ReportMeanwhile, Beside, CrashBuilder
  <2> QED
    BY <1>2, <2>1, BesideQuiet DEF QuietInv
<1>3. CASE RestartContainer
  <2>1. ~raced
    BY <1>3 DEF RestartContainer
  <2>2. WorkflowInv'
    BY <1>3, <2>1, QuietWorkflow, WorkflowStep, BesidesAreWorkflow DEF QuietInv
  <2>3. \A s \in Shards : req'[s].at = "idle" /\ cache'[s] = <<>>
    BY <1>3, IdleTyped DEF RestartContainer, RestartArchon, RestartServer
  <2>4. OneBusy' /\ ReadListFresh' /\ TakenFileFresh' /\ CachesKeyed' /\ TransitLeased'
    BY <2>3 DEF OneBusy, ReadListFresh, TakenFileFresh, CachesKeyed, TransitLeased, InTransit,
                Busy, At
  <2> QED
    BY <2>2, <2>4 DEF WorkflowInv, Quiet
<1>4. CASE UNCHANGED requestVars
  BY <1>4
  DEF requestVars, QuietInv, Quiet, CacheFresh, HeldIsRunning, StartedHasShard, OneBusy,
      ReadListFresh, TakenFileFresh, CachesKeyed, TransitLeased, InTransit, Known, Eligible,
      Busy, At
<1> QED
  BY <1>1, <1>2, <1>3, <1>4 DEF NextRequests

LEMMA QuietInit == InitRequests => QuietInv
<1> SUFFICES ASSUME InitRequests PROVE Quiet
  BY DEF QuietInv
<1>1. WorkflowInv
  BY WorkflowInit DEF InitRequests
<1>2. \A s \in Shards : req[s].at = "idle" /\ cache[s] = <<>>
  BY IdleTyped DEF InitRequests, InitWorkflow, Init
<1> QED
  BY <1>1, <1>2
  DEF WorkflowInv, Quiet, OneBusy, ReadListFresh, TakenFileFresh, CachesKeyed, TransitLeased,
      InTransit, Busy, At

(* Nothing but two requests that work on the caches at the same time can   *)
(* give one file to two builders or take a file from the builder that      *)
(* works on it: no crash, restart, reset or registration in the middle of  *)
(* a request does, however stale a cache would be without the discipline   *)
(* of the workflow (ArchonStorage.nextARC, nextArcIdsCached).              *)
THEOREM LeasesExclusiveWithoutRaces == RequestsSpec => []OnlyRacesShareLeases
<1>1. QuietInv => OnlyRacesShareLeases
  BY DEF QuietInv, Quiet, OnlyRacesShareLeases, HeldIsRunning, LeasesExclusive
<1>2. RequestsSpec => []QuietInv
  BY QuietInit, RequestsStayTyped, QuietInvStep, PTL DEF RequestsSpec
<1> QED
  BY <1>1, <1>2, PTL
=============================================================================
