---------------------------- MODULE ArchonProofs ----------------------------
(***************************************************************************)
(* What holds of Archon and of its workflow for any number of ARC files,   *)
(* shards, folders and priorities, and any size of the caches.             *)
(*                                                                         *)
(* First what the list operators do; then the types, for every request in  *)
(* any order; then the inductive invariant of the workflow; then the       *)
(* refinement of ArcLeases, action by action.                              *)
(***************************************************************************)
EXTENDS ArchonWorkflow, FiniteSetTheorems, SequenceTheorems, TLAPS

LEMMA RemoveAtElements ==
    ASSUME NEW S, NEW list \in Seq(S), NEW i \in 1..Len(list)
    PROVE  /\ RemoveAt(list, i) \in Seq(S)
           /\ Len(RemoveAt(list, i)) = Len(list) - 1
           /\ \A j \in 1..(Len(list) - 1) :
                 RemoveAt(list, i)[j] = IF j < i THEN list[j] ELSE list[j + 1]
<1> DEFINE before == SubSeq(list, 1, i - 1)
           after == SubSeq(list, i + 1, Len(list))
<1>1. Len(list) \in Nat /\ \A j \in 1..Len(list) : list[j] \in S
  BY ElementOfSeq, LenProperties
<1>2. /\ before \in Seq(S) /\ Len(before) = i - 1
      /\ \A j \in 1..(i - 1) : before[j] = list[j]
  BY <1>1, SubSeqProperties
<1>3. /\ after \in Seq(S) /\ Len(after) = Len(list) - i
      /\ \A j \in 1..(Len(list) - i) : after[j] = list[i + j]
  <2>1. /\ after \in Seq(S)
        /\ Len(after) = IF i + 1 <= Len(list) THEN Len(list) - (i + 1) + 1 ELSE 0
        /\ \A j \in 1..(Len(list) - (i + 1) + 1) : after[j] = list[i + 1 + j - 1]
    BY <1>1, SubSeqProperties
  <2> QED
    BY <1>1, <2>1
<1>4. /\ before \o after \in Seq(S)
      /\ Len(before \o after) = Len(before) + Len(after)
      /\ \A j \in 1..(Len(before) + Len(after)) :
            (before \o after)[j] = IF j <= Len(before) THEN before[j] ELSE after[j - Len(before)]
  BY <1>2, <1>3, ConcatProperties
<1>5. RemoveAt(list, i) = before \o after
  BY DEF RemoveAt
<1> HIDE DEF before, after
<1>6. ASSUME NEW j \in 1..(Len(list) - 1)
      PROVE  RemoveAt(list, i)[j] = IF j < i THEN list[j] ELSE list[j + 1]
  <2>1. CASE j < i
    BY <1>1, <1>2, <1>3, <1>4, <1>5, <2>1
  <2>2. CASE ~(j < i)
    <3>1. j - (i - 1) \in 1..(Len(list) - i) /\ i + (j - (i - 1)) = j + 1
      BY <1>1, <2>2
    <3>2. RemoveAt(list, i)[j] = after[j - (i - 1)]
      BY <1>1, <1>2, <1>3, <1>4, <1>5, <2>2
    <3> QED
      BY <1>3, <2>2, <3>1, <3>2
  <2> QED
    BY <2>1, <2>2
<1>7. Len(RemoveAt(list, i)) = Len(list) - 1
  <2>1. Len(before) + Len(after) = Len(list) - 1
    BY <1>1, <1>2, <1>3
  <2> QED
    BY <1>4, <1>5, <2>1
<1> QED
  BY <1>4, <1>5, <1>6, <1>7

LEMMA WithoutFileElements ==
    ASSUME NEW list, NEW vo, CacheList(list)
    PROVE  /\ CacheList(WithoutFile(list, vo))
           /\ \A j \in 1..Len(WithoutFile(list, vo)) :
                 /\ \E i \in 1..Len(list) : WithoutFile(list, vo)[j] = list[i]
                 /\ ~SameFile(WithoutFile(list, vo)[j], vo)
<1> DEFINE w == WithoutFile(list, vo)
           match(i) == /\ SameFile(list[i], vo)
                       /\ \A j \in 1..(i - 1) : ~SameFile(list[j], vo)
<1>1. /\ list \in Seq(ArcVO) /\ Len(list) \in Nat /\ Len(list) <= CacheLimit
      /\ \A i, j \in 1..Len(list) : list[i].id = list[j].id => i = j
  BY LenProperties DEF CacheList
<1>2. CASE ~\E i \in 1..Len(list) : SameFile(list[i], vo)
  <2>1. w = list
    BY <1>2 DEF WithoutFile
  <2> QED
    BY <1>2, <2>1
<1>3. CASE \E i \in 1..Len(list) : SameFile(list[i], vo)
  <2>1. \A i, j \in 1..Len(list) :
           SameFile(list[i], vo) /\ SameFile(list[j], vo) => i = j
    BY <1>1 DEF SameFile
  <2>2. \E i \in 1..Len(list) : match(i)
    <3>1. PICK i \in 1..Len(list) : SameFile(list[i], vo)
      BY <1>3
    <3>2. \A j \in 1..(i - 1) : ~SameFile(list[j], vo)
      BY <1>1, <2>1, <3>1
    <3> QED
      BY <3>1, <3>2
  <2>3. PICK k \in 1..Len(list) : match(k) /\ w = RemoveAt(list, k)
    BY <1>3, <2>2 DEF WithoutFile
  <2>4. /\ w \in Seq(ArcVO)
        /\ Len(w) = Len(list) - 1
        /\ \A j \in 1..(Len(list) - 1) : w[j] = IF j < k THEN list[j] ELSE list[j + 1]
    <3>1. /\ RemoveAt(list, k) \in Seq(ArcVO)
          /\ Len(RemoveAt(list, k)) = Len(list) - 1
          /\ \A j \in 1..(Len(list) - 1) :
                RemoveAt(list, k)[j] = IF j < k THEN list[j] ELSE list[j + 1]
      <4> HIDE DEF w, match
      <4> QED
        BY <1>1, RemoveAtElements
    <3> QED
      BY <2>3, <3>1
  <2> HIDE DEF w
  <2>5. ASSUME NEW j \in 1..Len(w)
        PROVE  /\ \E i \in 1..Len(list) : i # k /\ w[j] = list[i]
               /\ ~SameFile(w[j], vo)
    <3>1. PICK i \in 1..Len(list) : i # k /\ w[j] = list[i]
      BY <1>1, <2>4
    <3>2. ~SameFile(list[i], vo)
      BY <2>1, <2>3, <3>1
    <3> QED
      BY <3>1, <3>2
  <2>6. ASSUME NEW i \in 1..Len(w), NEW j \in 1..Len(w), w[i].id = w[j].id
        PROVE  i = j
    <3> DEFINE at(x) == IF x < k THEN x ELSE x + 1
    <3>1. /\ at(i) \in 1..Len(list) /\ w[i] = list[at(i)]
          /\ at(j) \in 1..Len(list) /\ w[j] = list[at(j)]
      BY <1>1, <2>4
    <3>2. at(i) = at(j)
      BY <1>1, <2>6, <3>1
    <3> QED
      BY <1>1, <2>4, <3>2
  <2>7. CacheList(w)
    BY <1>1, <2>4, <2>6, CacheAssumption DEF CacheList
  <2> QED
    BY <2>5, <2>7 DEF w
<1> QED
  BY <1>2, <1>3

LEMMA LoadedElements ==
    ASSUME TableOK, NEW s \in Shards, NEW list \in NextArcIdsToCache(s)
    PROVE  /\ CacheList(list)
           /\ \A i \in 1..Len(list) :
                 /\ list[i].id \in Eligible(s)
                 /\ list[i].folder = db[list[i].id].folder
           /\ list = <<>> => Eligible(s) = {}
<1> DEFINE n == LoadSize(s)
<1>1. IsFiniteSet(Eligible(s))
  BY FS_Subset, ArcsAssumption DEF Eligible, TableOK
<1>2. n \in Nat /\ n <= CacheLimit /\ (n = 0 => Eligible(s) = {})
  BY <1>1, FS_CardinalityType, FS_EmptySet, CacheAssumption DEF LoadSize
<1>3. PICK q \in [1..n -> Eligible(s)] :
         /\ list = [i \in 1..n |-> ToVO(q[i])]
         /\ \A i, j \in 1..n : i < j => q[i] # q[j]
  BY DEF NextArcIdsToCache, LoadOrders
<1> HIDE DEF n
<1>4. \A i \in 1..n : q[i] \in Eligible(s) /\ q[i] \in Arcs /\ db[q[i]] \in Row
  BY <1>3 DEF Eligible, TableOK
<1>5. \A i \in 1..n : /\ list[i] \in ArcVO
                      /\ list[i].id = q[i]
                      /\ list[i].folder = db[q[i]].folder
  BY <1>3, <1>4 DEF ToVO, ArcVO, Row
<1>6. list \in Seq(ArcVO) /\ Len(list) = n
  <2>1. list \in [1..n -> ArcVO]
    BY <1>3, <1>5
  <2> QED
    BY <1>2, <2>1, IsASeq, LenProperties
<1>7. \A i, j \in 1..n : q[i] = q[j] => i = j
  BY <1>2, <1>3
<1>8. CacheList(list)
  BY <1>2, <1>5, <1>6, <1>7 DEF CacheList
<1> QED
  BY <1>2, <1>4, <1>5, <1>6, <1>8

LEMMA HandOutCaches ==
    ASSUME CachesOK, NEW s \in Shards, NEW list, CacheList(list), HandOut(s, list)
    PROVE  /\ Len(list) \in Nat /\ Len(list) > 0
           /\ Head(list) = list[1] /\ Head(list) \in ArcVO
           /\ CachesOK'
           /\ \A t \in Shards : \A j \in 1..Len(cache'[t]) :
                 /\ ~SameFile(cache'[t][j], Head(list))
                 /\ \/ \E i \in 1..Len(cache[t]) : cache'[t][j] = cache[t][i]
                    \/ t = s /\ \E i \in 1..Len(list) : cache'[t][j] = list[i]
<1> DEFINE vo == Head(list)
           offered(t) == IF t = s THEN Tail(list) ELSE cache[t]
<1>1. /\ list \in Seq(ArcVO) /\ list # <<>> /\ Len(list) \in Nat
      /\ Len(list) <= CacheLimit
      /\ \A i, j \in 1..Len(list) : list[i].id = list[j].id => i = j
  BY LenProperties DEF CacheList, HandOut
<1>2. Len(list) > 0
  BY <1>1, EmptySeq
<1>3. Head(list) = list[1] /\ Head(list) \in ArcVO
  BY <1>1, <1>2, HeadTailProperties
<1>4. /\ Tail(list) \in Seq(ArcVO) /\ Len(Tail(list)) = Len(list) - 1
      /\ \A i \in 1..(Len(list) - 1) : Tail(list)[i] = list[i + 1]
  BY <1>1, HeadTailProperties
<1>5. CacheList(Tail(list))
  BY <1>1, <1>2, <1>4, CacheAssumption DEF CacheList
<1>6. \A t \in Shards : CacheList(offered(t))
  BY <1>5 DEF CachesOK
<1>7. cache' = [t \in Shards |-> WithoutFile(offered(t), vo)]
  BY DEF HandOut
<1>8. ASSUME NEW t \in Shards
      PROVE  /\ CacheList(cache'[t])
             /\ \A j \in 1..Len(cache'[t]) :
                   /\ \E i \in 1..Len(offered(t)) : cache'[t][j] = offered(t)[i]
                   /\ ~SameFile(cache'[t][j], vo)
  <2> HIDE DEF offered, vo
  <2> QED
    BY <1>6, <1>7, WithoutFileElements
<1>9. CachesOK'
  BY <1>7, <1>8 DEF CachesOK, CacheList
<1>10. ASSUME NEW t \in Shards, NEW j \in 1..Len(cache'[t])
       PROVE  \/ \E i \in 1..Len(cache[t]) : cache'[t][j] = cache[t][i]
              \/ t = s /\ \E i \in 1..Len(list) : cache'[t][j] = list[i]
  <2>1. PICK i \in 1..Len(offered(t)) : cache'[t][j] = offered(t)[i]
    BY <1>8
  <2>2. CASE t = s
    <3>1. i + 1 \in 1..Len(list) /\ cache'[t][j] = list[i + 1]
      BY <1>1, <1>4, <2>1, <2>2
    <3> QED
      BY <2>2, <3>1
  <2>3. CASE t # s
    BY <2>1, <2>3
  <2> QED
    BY <2>2, <2>3
<1> QED
  BY <1>1, <1>2, <1>3, <1>8, <1>9, <1>10

LEMMA RepliesTyped ==
    /\ Ok \in Reply /\ Error \in Reply
    /\ \A s \in Shards \cup {NoShard}, kind \in {"none", "paused", "empty", "id"} :
          Answer(kind, s, NoArc) \in Reply
    /\ \A s \in Shards, a \in Arcs : Answer("arc", s, a) \in Reply
  BY DEF Ok, Error, Answer, Reply

LEMMA TableStep ==
    ASSUME TypeOK, TableOK', UNCHANGED cache, paused' \in BOOLEAN, reply' \in Reply
    PROVE  TypeOK'
  BY DEF TypeOK, CachesOK, CacheList

LEMMA UpdateRowType ==
    ASSUME TypeOK, NEW a \in Arcs, NEW row, a \in DOMAIN db => row \in Row, UpdateRow(a, row)
    PROVE  TypeOK'
<1>1. TableOK'
  BY DEF TypeOK, TableOK, UpdateRow
<1>2. CachesOK'
  BY DEF TypeOK, CachesOK, UpdateRow, CacheList
<1>3. paused' \in BOOLEAN /\ reply' \in Reply
  BY DEF TypeOK, UpdateRow, Reply, Ok, Error, Answer
<1> QED
  BY <1>1, <1>2, <1>3 DEF TypeOK

LEMMA TypeStep == TypeOK /\ [Next]_archonVars => TypeOK'
<1> SUFFICES ASSUME TypeOK, [Next]_archonVars
             PROVE  TypeOK'
  OBVIOUS
<1> USE DEF TypeOK
<1>rows. \A a \in DOMAIN db : a \in Arcs /\ db[a] \in Row
  BY DEF TableOK
<1>1. ASSUME NEW a \in Arcs, NEW f \in Folders, AddARC(a, f) \/ AddOrUpdateARC(a, f)
      PROVE  TypeOK'
  <2>1. NewRow(f) \in Row /\ \A r \in Row : [r EXCEPT !.folder = f] \in Row
    BY PriorityAssumption DEF NewRow, Row, States
  <2>2. TableOK'
    BY <1>1, <2>1 DEF AddARC, AddOrUpdateARC, InsertRow, TableOK
  <2>3. CachesOK'
    BY <1>1 DEF AddARC, AddOrUpdateARC, CachesOK, CacheList
  <2>4. paused' \in BOOLEAN /\ reply' \in Reply
    BY <1>1 DEF AddARC, AddOrUpdateARC, Reply, Ok, Error, Answer
  <2> QED
    BY <2>2, <2>3, <2>4
<1>2. ASSUME NEW s \in Shards, NextARC(s)
      PROVE  TypeOK'
  <2>1. CASE cache' = cache /\ db' = db /\ paused' = paused /\ reply' \in Reply
    BY <2>1 DEF TableOK, CachesOK, CacheList
  <2>2. ASSUME NEW list, CacheList(list), HandOut(s, list)
        PROVE  TypeOK'
    <3>1. CachesOK' /\ Head(list) \in ArcVO
      BY <2>2, HandOutCaches
    <3>2. TableOK'
      <4> DEFINE vo == Head(list)
      <4>1. CASE vo.id \in DOMAIN db
        <5>1. [[[db[vo.id] EXCEPT !.shard = s] EXCEPT !.state = "RUNNING"]
                               EXCEPT !.priority = vo.priority] \in Row
          BY <1>rows, <3>1, <4>1 DEF ArcVO, Row, States
        <5>2. db' = [db EXCEPT ![vo.id] = [[[db[vo.id] EXCEPT !.shard = s]
                          EXCEPT !.state = "RUNNING"] EXCEPT !.priority = vo.priority]]
          BY <2>2, <4>1 DEF HandOut, TableOK
        <5> QED
          BY <5>1, <5>2 DEF TableOK
      <4>2. CASE vo.id \notin DOMAIN db
        BY <2>2, <4>2 DEF HandOut, TableOK
      <4> QED
        BY <4>1, <4>2
    <3>3. paused' \in BOOLEAN /\ reply' \in Reply
      BY <2>2, <3>1 DEF HandOut, Reply, Error, Answer, ArcVO
    <3> QED
      BY <3>1, <3>2, <3>3
  <2>3. \A list \in NextArcIdsToCache(s) : CacheList(list)
    BY LoadedElements
  <2>4. CASE paused
    BY <1>2, <2>1, <2>4 DEF NextARC, Reply, Answer, NothingToHandOut
  <2>5. CASE NothingToHandOut(s)
    BY <2>1, <2>5 DEF NothingToHandOut, Reply, Answer
  <2> QED
    BY <1>2, <2>2, <2>3, <2>4, <2>5 DEF NextARC, CachesOK
<1>3. ASSUME NEW a \in Arcs, NEW st \in States, SetARCState(a, st)
      PROVE  TypeOK'
  <2>1. \A r \in Row : [r EXCEPT !.state = st] \in Row
    BY DEF Row, States
  <2> QED
    BY <1>rows, <1>3, <2>1, UpdateRowType DEF SetARCState
<1>4. ASSUME NEW a \in Arcs, NEW s \in Shards, NEW st \in States, NEW p \in Priorities,
             SetARCProperties(a, s, st, p)
      PROVE  TypeOK'
  <2>1. \A r \in Row : [r EXCEPT !.shard = s, !.state = st, !.priority = p] \in Row
    BY DEF Row, States
  <2> QED
    BY <1>rows, <1>4, <2>1, UpdateRowType DEF SetARCProperties
<1>5. ASSUME NEW a \in Arcs, NEW p \in Priorities,
             SetARCPriority(a, p) \/ ResetArcWithPriority(a, p)
      PROVE  TypeOK'
  <2>1. \A r \in Row :
           /\ [r EXCEPT !.priority = p] \in Row
           /\ [r EXCEPT !.shard = NoShard, !.state = "NEW", !.priority = p] \in Row
    BY DEF Row, States
  <2> QED
    BY <1>rows, <1>5, <2>1, UpdateRowType DEF SetARCPriority, ResetArcWithPriority
<1>6. ASSUME NEW a \in Arcs, RemoveARC(a)
      PROVE  TypeOK'
  BY <1>6 DEF RemoveARC, TableOK, CachesOK, CacheList, Reply, Ok, Error, Answer
<1>7. ASSUME NEW s \in Shards, ClearIndexing(s) \/ ResetShardID(s)
      PROVE  TypeOK'
  <2>1. \A r \in Row : /\ [r EXCEPT !.state = "NEW"] \in Row
                       /\ [r EXCEPT !.state = "NEW", !.shard = NoShard] \in Row
    BY DEF Row, States
  <2>2. TableOK'
    BY <1>rows, <1>7, <2>1 DEF ClearIndexing, ResetShardID, UpdateShard, TableOK
  <2> QED
    BY <1>7, <2>2, TableStep, RepliesTyped DEF ClearIndexing, ResetShardID, UpdateShard
<1>8. ASSUME NEW s \in Shards, NEW st \in States, NEW p \in Priorities, SetShardState(s, st, p)
      PROVE  TypeOK'
  <2>1. \A r \in Row : [r EXCEPT !.state = st, !.priority = p] \in Row
    BY DEF Row, States
  <2>2. TableOK'
    BY <1>rows, <1>8, <2>1 DEF SetShardState, UpdateShard, TableOK
  <2> QED
    BY <1>8, <2>2, TableStep, RepliesTyped DEF SetShardState, UpdateShard
<1>9. ASSUME NextShardID \/ \E b \in BOOLEAN : SetPaused(b)
      PROVE  TypeOK'
  <2>1. /\ db' = db /\ cache' = cache /\ paused' \in BOOLEAN
        /\ \/ reply' = Ok
           \/ \E s \in Shards : reply' = Answer("id", s, NoArc)
    BY <1>9 DEF NextShardID, SetPaused
  <2>2. TableOK' /\ reply' \in Reply
    BY <2>1, RepliesTyped DEF TableOK
  <2> QED
    BY <2>1, <2>2, TableStep
<1>10. ASSUME RestartServer
       PROVE  TypeOK'
  <2>1. <<>> \in Seq(ArcVO) /\ Len(<<>>) = 0
    BY EmptySeq
  <2>2. CachesOK'
    BY <1>10, <2>1, CacheAssumption DEF RestartServer, CachesOK, CacheList
  <2>3. TableOK' /\ paused' \in BOOLEAN /\ reply' \in Reply
    BY <1>10, RepliesTyped DEF RestartServer, TableOK
  <2> QED
    BY <2>2, <2>3
<1>11. CASE UNCHANGED archonVars
  BY <1>11 DEF archonVars, TableOK, CachesOK, CacheList
<1> HIDE DEF TypeOK
<1> QED
  <2>1. CASE \/ \E a \in Arcs, f \in Folders : AddARC(a, f) \/ AddOrUpdateARC(a, f)
             \/ \E s \in Shards : NextARC(s) \/ ClearIndexing(s) \/ ResetShardID(s)
             \/ \E a \in Arcs, st \in States : SetARCState(a, st)
    BY <1>1, <1>2, <1>3, <1>7, <2>1
  <2>2. CASE \/ \E a \in Arcs, s \in Shards, st \in States, p \in Priorities :
                    SetARCProperties(a, s, st, p)
             \/ \E a \in Arcs, p \in Priorities : SetARCPriority(a, p) \/ ResetArcWithPriority(a, p)
             \/ \E a \in Arcs : RemoveARC(a)
             \/ \E s \in Shards, st \in States, p \in Priorities : SetShardState(s, st, p)
    BY <1>4, <1>5, <1>6, <1>8, <2>2
  <2>3. CASE NextShardID \/ RestartServer \/ \E b \in BOOLEAN : SetPaused(b)
    BY <1>9, <1>10, <2>3
  <2> QED
    BY <1>11, <2>1, <2>2, <2>3 DEF Next

LEMMA TypeInit == Init => TypeOK
<1> SUFFICES ASSUME Init PROVE TypeOK
  OBVIOUS
<1>1. <<>> \in Seq(ArcVO) /\ Len(<<>>) = 0
  BY EmptySeq
<1>2. TableOK
  BY DEF Init, TableOK
<1>3. CachesOK
  BY <1>1, CacheAssumption DEF Init, CachesOK, CacheList
<1> QED
  BY <1>2, <1>3, RepliesTyped DEF Init, TypeOK

(* The table and the caches keep their types, and no cache lists a file    *)
(* twice, for every request in every order (ArchonStorage, all mutators).  *)
THEOREM ArchonTypeCorrect == Spec => []TypeOK
  BY TypeInit, TypeStep, PTL DEF Spec

(* No other request is answered with a file, or with the word that nothing *)
(* is left.                                                                *)
LEMMA OnlyNextARCAnswers ==
    ASSUME Next, reply'.kind \in {"empty", "arc"}
    PROVE  \E s \in Shards : NextARC(s) /\ reply'.shard = s
<1>1. /\ Ok.kind \notin {"empty", "arc"} /\ Error.kind \notin {"empty", "arc"}
      /\ \A kind, t, a : Answer(kind, t, a).kind = kind /\ Answer(kind, t, a).shard = t
  BY DEF Ok, Error, Answer
<1>2. reply' # Ok /\ reply' # Error
  BY <1>1
<1>3. \A kind, t, a : reply' = Answer(kind, t, a) => kind \in {"empty", "arc"} /\ reply'.shard = t
  BY <1>1
<1> HIDE DEF Ok, Error
<1>4. ASSUME NEW t \in Shards, NextARC(t)
      PROVE  reply'.shard = t
  <2>1. \A list : HandOut(t, list) => reply'.shard = t
    BY <1>2, <1>3 DEF HandOut
  <2>2. ~(paused /\ reply' = Answer("paused", t, NoArc))
    BY <1>3
  <2>3. NothingToHandOut(t) => reply'.shard = t
    BY <1>3 DEF NothingToHandOut
  <2> QED
    BY <1>4, <2>1, <2>2, <2>3 DEF NextARC
<1>5. \A a, row : ~UpdateRow(a, row)
  BY <1>2 DEF UpdateRow
<1>6. ~\E a \in Arcs, f \in Folders : AddARC(a, f) \/ AddOrUpdateARC(a, f)
  BY <1>2 DEF AddARC, AddOrUpdateARC
<1>7. ~\E t \in Shards : ClearIndexing(t) \/ ResetShardID(t)
  BY <1>2 DEF ClearIndexing, ResetShardID, UpdateShard
<1>8. ~\E t \in Shards, st \in States, p \in Priorities : SetShardState(t, st, p)
  BY <1>2 DEF SetShardState, UpdateShard
<1>9. ~\E a \in Arcs : RemoveARC(a)
  BY <1>2 DEF RemoveARC
<1>10. ~NextShardID /\ ~RestartServer /\ ~\E b \in BOOLEAN : SetPaused(b)
  BY <1>2, <1>3 DEF NextShardID, RestartServer, SetPaused
<1>11. \A a, st, t, p : /\ ~SetARCState(a, st)
                        /\ ~SetARCProperties(a, t, st, p)
                        /\ ~SetARCPriority(a, p) /\ ~ResetArcWithPriority(a, p)
  BY <1>5 DEF SetARCState, SetARCProperties, SetARCPriority, ResetArcWithPriority
<1> QED
  BY <1>4, <1>6, <1>7, <1>8, <1>9, <1>10, <1>11 DEF Next

(* ArchonStorage.nextARC never says that nothing is left while a file      *)
(* waits, whatever was cached.                                             *)
THEOREM EmptyAnswersAreTrue == Spec => EmptyMeansNoneLeft
<1> DEFINE Step == \A s \in Shards :
                      reply'.kind = "empty" /\ reply'.shard = s => Eligible(s) = {}
<1>1. TypeOK /\ [Next]_archonVars => [Step]_archonVars
  <2> SUFFICES ASSUME TypeOK, Next
               PROVE  Step
    OBVIOUS
  <2> SUFFICES ASSUME NEW s \in Shards, reply'.kind = "empty", reply'.shard = s
               PROVE  Eligible(s) = {}
    OBVIOUS
  <2>1. NextARC(s)
    BY OnlyNextARCAnswers
  <2>2. \A list : ~HandOut(s, list) /\ reply' # Answer("paused", s, NoArc)
    BY DEF HandOut, Error, Answer
  <2>3. <<>> \in NextArcIdsToCache(s)
    BY <2>1, <2>2 DEF NextARC, NothingToHandOut
  <2> QED
    BY <2>3, LoadedElements DEF TypeOK
<1> QED
  BY <1>1, ArchonTypeCorrect, PTL DEF Spec, EmptyMeansNoneLeft

(* The first row of the query: if it has no shard, no row has, for such    *)
(* rows come last.                                                         *)
LEMMA FirstLoaded ==
    ASSUME NullsLast, TableOK, NEW s \in Shards, NEW list \in NextArcIdsToCache(s),
           list # <<>>, db[Head(list).id].shard = NoShard
    PROVE  \A a \in Eligible(s) : db[a].shard = NoShard
<1> DEFINE n == LoadSize(s)
<1>1. PICK q \in [1..n -> Eligible(s)] :
         /\ list = [i \in 1..n |-> ToVO(q[i])]
         /\ \A i, j \in 1..n : i < j => ~Before(q[j], q[i])
         /\ \A a \in Eligible(s), i \in 1..n : Before(a, q[i]) => \E j \in 1..n : q[j] = a
  BY DEF NextArcIdsToCache, LoadOrders
<1>2. CacheList(list)
  BY LoadedElements
<1>3. Len(list) \in Nat /\ Len(list) > 0 /\ Head(list) = list[1] /\ DOMAIN list = 1..Len(list)
  BY <1>2, EmptySeq, LenProperties, HeadTailProperties DEF CacheList
<1> HIDE DEF n
<1>4. 1 \in 1..n /\ \A j \in 1..n : j = 1 \/ 1 < j
  <2>1. 1..Len(list) = 1..n
    BY <1>1, <1>3
  <2>2. 1 \in 1..Len(list) /\ \A j \in 1..Len(list) : j = 1 \/ 1 < j
    BY <1>3
  <2> QED
    BY <2>1, <2>2, Zenon
<1>5. Head(list).id = q[1]
  BY <1>1, <1>3, <1>4 DEF ToVO
<1>6. ASSUME NEW a \in Eligible(s), db[a].shard # NoShard
      PROVE  FALSE
  <2>1. Before(a, q[1])
    <3>1. NullsLast = TRUE
      BY CacheAssumption
    <3>2. (db[q[1]].shard = NoShard) = TRUE /\ (db[a].shard = NoShard) = FALSE
      BY <1>5, <1>6
    <3>3. ShardRank(q[1]) = 1
      BY <3>1, <3>2, Zenon DEF ShardRank
    <3>4. ShardRank(a) = 0
      BY <3>1, <3>2, Zenon DEF ShardRank
    <3> QED
      BY <3>3, <3>4 DEF Before
  <2>2. PICK j \in 1..n : q[j] = a
    BY <1>1, <1>4, <2>1
  <2>3. 1 < j
    BY <1>4, <1>5, <1>6, <2>2
  <2> QED
    BY <1>1, <1>4, <2>1, <2>2, <2>3
<1> QED
  BY <1>6

(* A request that fills its cache is not handed a file that every shard    *)
(* may have while a file waits for its own shard, if the database sorts    *)
(* NULL last (ArchonStorage, "Null will come last").                       *)
THEOREM OwnShardServedFirst ==
    ASSUME NullsLast
    PROVE  Spec => OwnShardFirst
<1> DEFINE Step == \A s \in Shards :
                      /\ reply'.kind = "arc" /\ reply'.shard = s
                      /\ cache[s] = <<>> /\ db[reply'.arc].shard = NoShard
                      => \A a \in Eligible(s) : db[a].shard = NoShard
<1>1. TypeOK /\ [Next]_archonVars => [Step]_archonVars
  <2> SUFFICES ASSUME TypeOK, Next
               PROVE  Step
    OBVIOUS
  <2> SUFFICES ASSUME NEW s \in Shards, reply'.kind = "arc", reply'.shard = s,
                      cache[s] = <<>>, db[reply'.arc].shard = NoShard
               PROVE  \A a \in Eligible(s) : db[a].shard = NoShard
    OBVIOUS
  <2>1. NextARC(s)
    BY OnlyNextARCAnswers
  <2>2. ~NothingToHandOut(s) /\ reply' # Answer("paused", s, NoArc)
    BY DEF NothingToHandOut, Answer
  <2>3. PICK list \in NextArcIdsToCache(s) : HandOut(s, list)
    BY <2>1, <2>2 DEF NextARC
  <2>4. list # <<>> /\ reply'.arc = Head(list).id
    BY <2>3 DEF HandOut, Error, Answer
  <2> QED
    BY <2>3, <2>4, FirstLoaded DEF TypeOK
<1> QED
  BY <1>1, ArchonTypeCorrect, PTL DEF Spec, OwnShardFirst

-----------------------------------------------------------------------------
(* The workflow.                                                           *)

(* The inductive invariant: the caches only offer what is up for grabs,    *)
(* and the builders only hold what is RUNNING for them.                    *)
WorkflowInv ==
    /\ TypeOK
    /\ held \in [Shards -> SUBSET Arcs]
    /\ CacheFresh
    /\ HeldIsRunning
    /\ StartedHasShard

(* Requests that neither touch the caches nor take a waiting file away or  *)
(* to another folder leave the caches fresh.                               *)
LEMMA FreshWhenEligibleKept ==
    ASSUME CacheFresh, UNCHANGED cache,
           \A s \in Shards : \A a \in Eligible(s) :
              a \in Eligible(s)' /\ db'[a].folder = db[a].folder
    PROVE  CacheFresh'
<1> SUFFICES ASSUME NEW s \in Shards, NEW i \in 1..Len(cache[s])
             PROVE  /\ cache[s][i].id \in Eligible(s)'
                    /\ cache[s][i].folder = db'[cache[s][i].id].folder
  BY DEF CacheFresh
<1> QED
  BY DEF CacheFresh

(* What HandOut hands out was eligible, and the caches stay fresh.         *)
LEMMA HandOutFresh ==
    ASSUME WorkflowInv, NEW s \in Shards, NEW list, CacheList(list), HandOut(s, list),
           \A i \in 1..Len(list) : /\ list[i].id \in Eligible(s)
                                   /\ list[i].folder = db[list[i].id].folder
    PROVE  LET vo == Head(list) IN
           /\ vo.id \in Eligible(s)
           /\ db' = [db EXCEPT ![vo.id].shard = s, ![vo.id].state = "RUNNING",
                               ![vo.id].priority = vo.priority]
           /\ reply' = Answer("arc", s, vo.id)
           /\ CacheFresh'
<1> DEFINE vo == Head(list)
<1>1. /\ Len(list) \in Nat /\ Len(list) > 0 /\ vo = list[1] /\ vo \in ArcVO
      /\ CachesOK'
      /\ \A t \in Shards : \A j \in 1..Len(cache'[t]) :
            /\ ~SameFile(cache'[t][j], vo)
            /\ \/ \E i \in 1..Len(cache[t]) : cache'[t][j] = cache[t][i]
               \/ t = s /\ \E i \in 1..Len(list) : cache'[t][j] = list[i]
  BY HandOutCaches DEF WorkflowInv, TypeOK
<1>2. vo.id \in Eligible(s) /\ vo.folder = db[vo.id].folder
  BY <1>1
<1>3. vo.id \in DOMAIN db
  BY <1>2 DEF Eligible
<1>4. /\ db' = [db EXCEPT ![vo.id].shard = s, ![vo.id].state = "RUNNING",
                          ![vo.id].priority = vo.priority]
      /\ reply' = Answer("arc", s, vo.id)
  BY <1>3 DEF HandOut
<1>5. DOMAIN db' = DOMAIN db /\ \A b \in DOMAIN db : b # vo.id => db'[b] = db[b]
  BY <1>4 DEF WorkflowInv, TypeOK, TableOK
<1> HIDE DEF vo
<1>6. ASSUME NEW t \in Shards, NEW j \in 1..Len(cache'[t])
      PROVE  /\ cache'[t][j].id \in Eligible(t)'
             /\ cache'[t][j].folder = db'[cache'[t][j].id].folder
  <2> DEFINE e == cache'[t][j]
  <2>1. \/ \E i \in 1..Len(cache[t]) : e = cache[t][i]
        \/ t = s /\ \E i \in 1..Len(list) : e = list[i]
    BY <1>1
  <2>2. ~SameFile(e, vo)
    BY <1>1
  <2> HIDE DEF e
  <2>3. e.id \in Eligible(t) /\ e.folder = db[e.id].folder
    <3>1. CASE \E i \in 1..Len(cache[t]) : e = cache[t][i]
      <4>1. \A i \in 1..Len(cache[t]) : /\ cache[t][i].id \in Eligible(t)
                                        /\ cache[t][i].folder = db[cache[t][i].id].folder
        BY DEF WorkflowInv, CacheFresh
      <4> QED
        BY <3>1, <4>1
    <3>2. CASE t = s /\ \E i \in 1..Len(list) : e = list[i]
      BY <3>2
    <3> QED
      BY <2>1, <3>1, <3>2
  <2>4. e.id # vo.id
    BY <1>2, <2>2, <2>3 DEF SameFile
  <2>5. e.id \in DOMAIN db /\ db'[e.id] = db[e.id]
    BY <1>5, <2>3, <2>4 DEF Eligible
  <2>6. e.id \in Eligible(t)' /\ e.folder = db'[e.id].folder
    BY <1>5, <2>3, <2>5 DEF Eligible
  <2> QED
    BY <2>6 DEF e
<1>7. CacheFresh'
  BY <1>6 DEF CacheFresh
<1> QED
  BY <1>2, <1>4, <1>7 DEF vo

(* nextARC, seen from the workflow: it changes nothing and leases nothing, *)
(* or it leases an eligible file to the shard that asked.                  *)
LEMMA NextARCOutcome ==
    ASSUME WorkflowInv, NEW s \in Shards, NextARC(s)
    PROVE  /\ CacheFresh'
           /\ \/ /\ db' = db
                 /\ \/ reply' = Answer("paused", s, NoArc)
                    \/ reply' = Answer("empty", s, NoArc) /\ Eligible(s) = {}
              \/ \E a \in Eligible(s), p \in Priorities :
                    /\ db' = [db EXCEPT ![a].shard = s, ![a].state = "RUNNING",
                                        ![a].priority = p]
                    /\ reply' = Answer("arc", s, a)
<1>1. ASSUME NEW list, CacheList(list), HandOut(s, list),
             \A i \in 1..Len(list) : /\ list[i].id \in Eligible(s)
                                     /\ list[i].folder = db[list[i].id].folder
      PROVE  /\ CacheFresh'
             /\ \E a \in Eligible(s), p \in Priorities :
                    /\ db' = [db EXCEPT ![a].shard = s, ![a].state = "RUNNING",
                                        ![a].priority = p]
                    /\ reply' = Answer("arc", s, a)
  <2>1. Head(list).priority \in Priorities
    BY <1>1, HandOutCaches DEF WorkflowInv, TypeOK, ArcVO
  <2> QED
    BY <1>1, <2>1, HandOutFresh
<1>2. CASE ~paused /\ cache[s] # <<>> /\ HandOut(s, cache[s])
  <2>1. CacheList(cache[s])
    BY DEF WorkflowInv, TypeOK, CachesOK
  <2>2. \A i \in 1..Len(cache[s]) : /\ cache[s][i].id \in Eligible(s)
                                    /\ cache[s][i].folder = db[cache[s][i].id].folder
    BY DEF WorkflowInv, CacheFresh
  <2> QED
    BY <1>1, <1>2, <2>1, <2>2
<1>3. CASE \E list \in NextArcIdsToCache(s) : HandOut(s, list)
  <2>1. PICK list \in NextArcIdsToCache(s) : HandOut(s, list)
    BY <1>3
  <2>2. /\ CacheList(list)
        /\ \A i \in 1..Len(list) : /\ list[i].id \in Eligible(s)
                                   /\ list[i].folder = db[list[i].id].folder
    BY LoadedElements DEF WorkflowInv, TypeOK
  <2> QED
    BY <1>1, <2>1, <2>2
<1>4. ASSUME UNCHANGED <<db, cache>>
      PROVE  CacheFresh'
  BY <1>4, FreshWhenEligibleKept DEF WorkflowInv, Eligible
<1>5. CASE paused
  BY <1>4, <1>5 DEF NextARC, NothingToHandOut
<1>6. CASE NothingToHandOut(s)
  <2>1. Eligible(s) = {}
    BY <1>6, LoadedElements DEF NothingToHandOut, WorkflowInv, TypeOK
  <2> QED
    BY <1>4, <1>6, <2>1 DEF NothingToHandOut
<1> QED
  BY <1>2, <1>3, <1>5, <1>6 DEF NextARC

LEMMA WorkflowIsArchon == NextWorkflow => [Next]_archonVars
<1> SUFFICES ASSUME NextWorkflow PROVE Next
  OBVIOUS
<1>1. \A s \in Shards : Fetch(s) \/ FetchLost(s) \/ RestartBuilder(s) \/ ResetShard(s)
                           => NextARC(s) \/ ClearIndexing(s) \/ ResetShardID(s)
  BY DEF Fetch, FetchLost, RestartBuilder, ResetShard
<1>2. \A s \in Shards, a \in Arcs, st \in Finished : Report(s, a, st) => SetARCState(a, st)
  BY DEF Report
<1>3. \A a \in Arcs, f \in Folders : Register(a, f) \/ RegisterAgain(a, f)
                                        => AddARC(a, f) \/ AddOrUpdateARC(a, f)
  BY DEF Register, RegisterAgain
<1>4. \A a \in Arcs, p \in Priorities : Reset(a, p) \/ Prioritise(a, p)
                                           => SetARCPriority(a, p) \/ ResetArcWithPriority(a, p)
  BY DEF Reset, Prioritise
<1>5. (\A a \in Arcs : Discard(a) => RemoveARC(a)) /\ (\A b : Pause(b) => SetPaused(b))
  BY DEF Discard, Pause
<1>6. RestartArchon => RestartServer
  BY DEF RestartArchon
<1>7. Finished \subseteq States /\ "NEW" \in States
  BY DEF Finished, States
<1>11. /\ \A s \in Shards, p \in Priorities : Requeue(s, p) => SetShardState(s, "NEW", p)
       /\ \A a \in Arcs, s \in Shards, st \in Finished, p \in Priorities :
             Correct(a, s, st, p) => SetARCProperties(a, s, st, p)
       /\ AskShardID => NextShardID
  BY DEF Requeue, Correct, AskShardID
<1>12. CASE \/ AskShardID
            \/ \E s \in Shards, p \in Priorities : Requeue(s, p)
            \/ \E a \in Arcs, s \in Shards, st \in Finished, p \in Priorities :
                  Correct(a, s, st, p)
  BY <1>7, <1>11, <1>12 DEF Next
<1>8. CASE \/ \E s \in Shards : Fetch(s) \/ FetchLost(s) \/ RestartBuilder(s) \/ ResetShard(s)
           \/ \E a \in Arcs, f \in Folders : Register(a, f) \/ RegisterAgain(a, f)
  BY <1>1, <1>3, <1>8 DEF Next
<1>9. CASE \/ \E s \in Shards, a \in Arcs, st \in Finished : Report(s, a, st)
           \/ \E a \in Arcs, p \in Priorities : Reset(a, p) \/ Prioritise(a, p)
  BY <1>2, <1>4, <1>7, <1>9 DEF Next
<1>10. CASE RestartArchon \/ (\E a \in Arcs : Discard(a)) \/ \E b \in BOOLEAN : Pause(b)
  BY <1>5, <1>6, <1>10 DEF Next
<1> QED
  BY <1>8, <1>9, <1>10, <1>12 DEF NextWorkflow

LEMMA WorkflowInit == InitWorkflow => WorkflowInv
<1> SUFFICES ASSUME InitWorkflow PROVE WorkflowInv
  OBVIOUS
<1>1. TypeOK
  BY TypeInit DEF InitWorkflow
<1>2. \A s \in Shards : Len(cache[s]) = 0
  BY EmptySeq DEF InitWorkflow, Init
<1> QED
  BY <1>1, <1>2
     DEF InitWorkflow, Init, WorkflowInv, CacheFresh, HeldIsRunning, StartedHasShard

(* The part of the invariant beside the types, as one formula to prove.    *)
WorkflowGoal ==
    /\ held' \in [Shards -> SUBSET Arcs]
    /\ CacheFresh'
    /\ HeldIsRunning'
    /\ StartedHasShard'

(* A request that only rewrites one row.                                   *)
LEMMA OneRowStep ==
    ASSUME WorkflowInv, NEW a \in Arcs, NEW row, UpdateRow(a, row),
           held' \in [Shards -> SUBSET Arcs],
           \A s \in Shards : held'[s] \subseteq held[s],
           a \in DOMAIN db =>
              /\ row.folder = db[a].folder
              /\ \A s \in Shards : a \in Eligible(s) =>
                    row.state = "NEW" /\ row.shard \in {s, NoShard}
              /\ \A s \in Shards : a \in held'[s] => row.state = "RUNNING" /\ row.shard = s
              /\ row.state # "NEW" => row.shard # NoShard
    PROVE  WorkflowGoal
<1>1. CASE a \notin DOMAIN db
  <2>1. UNCHANGED <<db, cache>>
    BY <1>1 DEF UpdateRow
  <2>2. CacheFresh'
    BY <2>1, FreshWhenEligibleKept DEF WorkflowInv, Eligible
  <2> QED
    BY <2>1, <2>2 DEF WorkflowInv, WorkflowGoal, HeldIsRunning, StartedHasShard
<1>2. CASE a \in DOMAIN db
  <2>1. /\ cache' = cache /\ DOMAIN db' = DOMAIN db /\ db'[a] = row
        /\ \A b \in DOMAIN db : b # a => db'[b] = db[b]
    BY <1>2 DEF UpdateRow, WorkflowInv, TypeOK, TableOK
  <2>2. \A s \in Shards : \A b \in Eligible(s) :
           b \in Eligible(s)' /\ db'[b].folder = db[b].folder
    BY <1>2, <2>1 DEF Eligible
  <2>3. CacheFresh'
    BY <2>1, <2>2, FreshWhenEligibleKept DEF WorkflowInv
  <2>4. HeldIsRunning'
    BY <1>2, <2>1 DEF WorkflowInv, HeldIsRunning
  <2>5. StartedHasShard'
    BY <1>2, <2>1 DEF WorkflowInv, StartedHasShard
  <2> QED
    BY <2>3, <2>4, <2>5 DEF WorkflowGoal
<1> QED
  BY <1>1, <1>2

(* A request that writes the rows of one shard.                            *)
LEMMA ShardStep ==
    ASSUME WorkflowInv, NEW s \in Shards, UNCHANGED cache,
           DOMAIN db' = DOMAIN db,
           \A a \in DOMAIN db : db[a].shard # s => db'[a] = db[a],
           \A a \in DOMAIN db : db[a].shard = s =>
              /\ db'[a].folder = db[a].folder
              /\ db[a].state = "NEW" => db'[a].state = "NEW" /\ db'[a].shard = s
              /\ db'[a].state # "NEW" => db'[a].shard = s,
           held' \in [Shards -> SUBSET Arcs],
           held'[s] = {},
           \A t \in Shards : held'[t] \subseteq held[t]
    PROVE  WorkflowGoal
<1>1. \A t \in Shards : \A b \in Eligible(t) :
         b \in Eligible(t)' /\ db'[b].folder = db[b].folder
  BY DEF Eligible
<1>2. CacheFresh'
  BY <1>1, FreshWhenEligibleKept DEF WorkflowInv
<1>3. HeldIsRunning'
  BY DEF WorkflowInv, HeldIsRunning
<1>4. StartedHasShard'
  BY ShardsAssumption DEF WorkflowInv, StartedHasShard
<1> QED
  BY <1>2, <1>3, <1>4 DEF WorkflowGoal

LEMMA WorkflowStep == WorkflowInv /\ [NextWorkflow]_workflowVars => WorkflowInv'
<1> SUFFICES ASSUME WorkflowInv, [NextWorkflow]_workflowVars
             PROVE  WorkflowInv'
  OBVIOUS
<1>types. TypeOK'
  <2>1. [Next]_archonVars
    BY WorkflowIsArchon DEF workflowVars, archonVars
  <2> QED
    BY <2>1, TypeStep DEF WorkflowInv
<1> SUFFICES WorkflowGoal
  BY <1>types DEF WorkflowGoal, WorkflowInv
<1>rows. db \in [DOMAIN db -> Row] /\ \A a \in DOMAIN db : a \in Arcs /\ db[a] \in Row
  BY DEF WorkflowInv, TypeOK, TableOK
<1>held. /\ held \in [Shards -> SUBSET Arcs]
         /\ \A s \in Shards : \A a \in held[s] :
               a \in DOMAIN db /\ db[a].state = "RUNNING" /\ db[a].shard = s
  BY DEF WorkflowInv, HeldIsRunning
<1>1. ASSUME NEW s \in Shards, Fetch(s) \/ FetchLost(s)
      PROVE  WorkflowGoal
  <2>1. NextARC(s)
    BY <1>1 DEF Fetch, FetchLost
  <2>2. CacheFresh'
    BY <2>1, NextARCOutcome
  <2>3. CASE db' = db /\ reply'.kind # "arc"
    <3>1. held' = held
      BY <1>1, <2>3 DEF Fetch, FetchLost
    <3> QED
      BY <2>2, <2>3, <3>1
         DEF WorkflowGoal, WorkflowInv, HeldIsRunning, StartedHasShard
  <2>4. ASSUME NEW a \in Eligible(s), NEW p \in Priorities,
               db' = [db EXCEPT ![a].shard = s, ![a].state = "RUNNING", ![a].priority = p],
               reply' = Answer("arc", s, a)
        PROVE  WorkflowGoal
    <3>1. a \in DOMAIN db /\ a \in Arcs /\ db[a].state = "NEW"
      BY <1>rows DEF Eligible
    <3>2. /\ DOMAIN db' = DOMAIN db
          /\ db'[a].state = "RUNNING" /\ db'[a].shard = s
          /\ \A b \in DOMAIN db : b # a => db'[b] = db[b]
      BY <1>rows, <2>4, <3>1 DEF Row
    <3>3. /\ held' \in [Shards -> SUBSET Arcs]
          /\ \A t \in Shards : \A b \in held'[t] : b \in held[t] \/ (t = s /\ b = a)
      BY <1>1, <1>held, <2>4, <3>1 DEF Fetch, FetchLost, Answer
    <3>4. HeldIsRunning'
      BY <1>held, <3>1, <3>2, <3>3 DEF HeldIsRunning
    <3>5. StartedHasShard'
      BY <3>2, ShardsAssumption DEF WorkflowInv, StartedHasShard
    <3> QED
      BY <2>2, <3>3, <3>4, <3>5 DEF WorkflowGoal
  <2>5. \A k, a : k # "arc" => Answer(k, s, a).kind # "arc"
    BY DEF Answer
  <2>6. \/ db' = db /\ reply'.kind # "arc"
        \/ \E a \in Eligible(s), p \in Priorities :
              /\ db' = [db EXCEPT ![a].shard = s, ![a].state = "RUNNING", ![a].priority = p]
              /\ reply' = Answer("arc", s, a)
    BY <2>1, <2>5, NextARCOutcome
  <2> HIDE DEF WorkflowGoal
  <2> QED
    BY <2>3, <2>4, <2>6
<1>2. ASSUME NEW s \in Shards, NEW a \in Arcs, NEW st \in Finished, Report(s, a, st)
      PROVE  WorkflowGoal
  <2>1. a \in held[s] /\ held' = [held EXCEPT ![s] = @ \ {a}]
    BY <1>2 DEF Report
  <2>2. /\ held' \in [Shards -> SUBSET Arcs]
        /\ \A t \in Shards : held'[t] \subseteq held[t] /\ a \notin held'[t]
    BY <1>held, <2>1
  <2>3. \A t \in Shards : a \notin Eligible(t)
    BY <1>held, <2>1 DEF Eligible
  <2>4. [db[a] EXCEPT !.state = st].folder = db[a].folder
        /\ [db[a] EXCEPT !.state = st].shard # NoShard
    BY <1>rows, <1>held, <2>1, ShardsAssumption DEF Row
  <2> QED
    BY <1>2, <2>2, <2>3, <2>4, OneRowStep DEF Report, SetARCState
<1>3. ASSUME NEW a \in Arcs, NEW p \in Priorities, Reset(a, p)
      PROVE  WorkflowGoal
  <2>1. a \in DOMAIN db =>
           LET row == [db[a] EXCEPT !.shard = NoShard, !.state = "NEW", !.priority = p]
           IN  row.folder = db[a].folder /\ row.state = "NEW" /\ row.shard = NoShard
    BY <1>rows DEF Row
  <2>2. held' = held /\ \A s \in Shards : a \notin held[s]
    BY <1>3 DEF Reset, Held
  <2> QED
    BY <1>3, <1>held, <2>1, <2>2, OneRowStep DEF Reset, ResetArcWithPriority
<1>4. ASSUME NEW a \in Arcs, NEW p \in Priorities, Prioritise(a, p)
      PROVE  WorkflowGoal
  <2>1. a \in DOMAIN db =>
           LET row == [db[a] EXCEPT !.priority = p]
           IN  row.folder = db[a].folder /\ row.state = db[a].state /\ row.shard = db[a].shard
    BY <1>rows DEF Row
  <2>2. /\ \A s \in Shards : a \in Eligible(s) =>
              db[a].state = "NEW" /\ db[a].shard \in {s, NoShard}
        /\ a \in DOMAIN db => (db[a].state # "NEW" => db[a].shard # NoShard)
    BY DEF Eligible, WorkflowInv, StartedHasShard
  <2> QED
    BY <1>4, <1>held, <2>1, <2>2, OneRowStep DEF Prioritise, SetARCPriority
<1>5. ASSUME NEW s \in Shards, RestartBuilder(s)
      PROVE  WorkflowGoal
  <2>1. /\ UNCHANGED cache /\ DOMAIN db' = DOMAIN db
        /\ \A a \in DOMAIN db : db'[a] =
              IF db[a].shard = s /\ db[a].state = "RUNNING"
              THEN [db[a] EXCEPT !.state = "NEW", !.shard = NoShard]
              ELSE db[a]
    BY <1>5 DEF RestartBuilder, ClearIndexing, UpdateShard
  <2>2. /\ held' \in [Shards -> SUBSET Arcs] /\ held'[s] = {}
        /\ \A t \in Shards : held'[t] \subseteq held[t]
    BY <1>5, <1>held DEF RestartBuilder
  <2>3. \A a \in DOMAIN db : db[a].shard = s =>
              /\ db'[a].folder = db[a].folder
              /\ db[a].state = "NEW" => db'[a].state = "NEW" /\ db'[a].shard = s
              /\ db'[a].state # "NEW" => db'[a].shard = s
    BY <1>rows, <2>1 DEF Row
  <2> QED
    BY <2>1, <2>2, <2>3, ShardStep
<1>6. ASSUME NEW s \in Shards, ResetShard(s)
      PROVE  WorkflowGoal
  <2>1. /\ UNCHANGED cache /\ DOMAIN db' = DOMAIN db
        /\ \A a \in DOMAIN db : db'[a] =
              IF db[a].shard = s THEN [db[a] EXCEPT !.state = "NEW"] ELSE db[a]
    BY <1>6 DEF ResetShard, ResetShardID, UpdateShard
  <2>2. held' = held /\ held[s] = {}
    BY <1>6 DEF ResetShard
  <2>3. \A a \in DOMAIN db : db[a].shard = s =>
              /\ db'[a].folder = db[a].folder
              /\ db'[a].state = "NEW" /\ db'[a].shard = s
    BY <1>rows, <2>1 DEF Row
  <2> QED
    BY <1>held, <2>1, <2>2, <2>3, ShardStep
<1>14. ASSUME NEW s \in Shards, NEW p \in Priorities, Requeue(s, p)
       PROVE  WorkflowGoal
  <2>1. /\ UNCHANGED cache /\ DOMAIN db' = DOMAIN db
        /\ \A a \in DOMAIN db : db'[a] =
              IF db[a].shard = s THEN [db[a] EXCEPT !.state = "NEW", !.priority = p] ELSE db[a]
    BY <1>14 DEF Requeue, SetShardState, UpdateShard
  <2>2. held' = held /\ held[s] = {}
    BY <1>14 DEF Requeue
  <2>3. \A a \in DOMAIN db : db[a].shard = s =>
              /\ db'[a].folder = db[a].folder
              /\ db'[a].state = "NEW" /\ db'[a].shard = s
    BY <1>rows, <2>1 DEF Row
  <2>4. \A a \in DOMAIN db : db[a].shard # s => db'[a] = db[a]
    BY <2>1
  <2>5. /\ UNCHANGED cache /\ DOMAIN db' = DOMAIN db
        /\ held' \in [Shards -> SUBSET Arcs] /\ held'[s] = {}
        /\ \A t \in Shards : held'[t] \subseteq held[t]
    BY <1>held, <2>1, <2>2
  <2> QED
    BY <2>3, <2>4, <2>5, ShardStep
<1>15. ASSUME NEW a \in Arcs, NEW s \in Shards, NEW st \in Finished, NEW p \in Priorities,
              Correct(a, s, st, p)
       PROVE  WorkflowGoal
  <2>1. a \in DOMAIN db =>
           LET row == [db[a] EXCEPT !.shard = s, !.state = st, !.priority = p]
           IN  row.folder = db[a].folder /\ row.shard # NoShard
    BY <1>rows, ShardsAssumption DEF Row
  <2>2. /\ held' = held
        /\ \A t \in Shards : a \notin held[t] /\ a \notin Eligible(t)
    BY <1>15, <1>held DEF Correct, Finished, Eligible
  <2> QED
    BY <1>15, <1>held, <2>1, <2>2, OneRowStep DEF Correct, SetARCProperties
<1>7. ASSUME NEW a \in Arcs, NEW f \in Folders, Register(a, f) \/ RegisterAgain(a, f)
      PROVE  WorkflowGoal
  <2>1. /\ UNCHANGED <<cache, held>>
        /\ \A b \in DOMAIN db : b \in DOMAIN db' /\ db'[b] = db[b]
        /\ \A b \in DOMAIN db' : b \in DOMAIN db \/ db'[b].state = "NEW"
    <3>1. CASE a \in DOMAIN db
      BY <1>7, <1>rows, <3>1 DEF Register, RegisterAgain, AddARC, AddOrUpdateARC, Row
    <3>2. CASE a \notin DOMAIN db
      BY <1>7, <3>2 DEF Register, RegisterAgain, AddARC, AddOrUpdateARC, InsertRow, NewRow
    <3> QED
      BY <3>1, <3>2
  <2>2. CacheFresh'
    BY <2>1, FreshWhenEligibleKept DEF WorkflowInv, Eligible
  <2>3. HeldIsRunning'
    BY <1>held, <2>1 DEF HeldIsRunning
  <2>4. StartedHasShard'
    BY <2>1 DEF WorkflowInv, StartedHasShard
  <2> QED
    BY <1>held, <2>1, <2>2, <2>3, <2>4 DEF WorkflowGoal
<1>8. ASSUME NEW a \in Arcs, Discard(a)
      PROVE  WorkflowGoal
  <2>1. /\ UNCHANGED <<cache, held>>
        /\ \A b \in DOMAIN db' : b \in DOMAIN db /\ db'[b] = db[b]
        /\ \A b \in DOMAIN db : b \in DOMAIN db' \/ db[b].state \notin {"NEW", "RUNNING"}
    BY <1>8, <1>rows DEF Discard, RemoveARC, Finished
  <2>2. CacheFresh'
    BY <2>1, FreshWhenEligibleKept DEF WorkflowInv, Eligible
  <2>3. HeldIsRunning'
    BY <1>held, <2>1 DEF HeldIsRunning
  <2>4. StartedHasShard'
    BY <2>1 DEF WorkflowInv, StartedHasShard
  <2> QED
    BY <1>held, <2>1, <2>2, <2>3, <2>4 DEF WorkflowGoal
<1>9. CASE RestartArchon
  <2>1. UNCHANGED <<db, held>> /\ \A s \in Shards : Len(cache'[s]) = 0
    BY <1>9, EmptySeq DEF RestartArchon, RestartServer
  <2>2. CacheFresh'
    BY <2>1 DEF CacheFresh
  <2> QED
    BY <1>held, <2>1, <2>2 DEF WorkflowGoal, WorkflowInv, HeldIsRunning, StartedHasShard
<1>10. ASSUME UNCHANGED <<db, cache, held>>
       PROVE  WorkflowGoal
  <2>1. CacheFresh'
    BY <1>10, FreshWhenEligibleKept DEF WorkflowInv, Eligible
  <2> QED
    BY <1>10, <1>held, <2>1 DEF WorkflowGoal, WorkflowInv, HeldIsRunning, StartedHasShard
<1>11. CASE UNCHANGED workflowVars \/ AskShardID \/ \E b \in BOOLEAN : Pause(b)
  BY <1>10, <1>11 DEF workflowVars, Pause, SetPaused, AskShardID, NextShardID
<1> HIDE DEF WorkflowGoal
<1>16. CASE \/ \E s \in Shards, p \in Priorities : Requeue(s, p)
            \/ \E a \in Arcs, s \in Shards, st \in Finished, p \in Priorities :
                  Correct(a, s, st, p)
  BY <1>14, <1>15, <1>16
<1>12. CASE \/ \E s \in Shards : Fetch(s) \/ FetchLost(s) \/ RestartBuilder(s) \/ ResetShard(s)
            \/ \E s \in Shards, a \in Arcs, st \in Finished : Report(s, a, st)
  BY <1>1, <1>2, <1>5, <1>6, <1>12
<1>13. CASE \/ \E a \in Arcs, f \in Folders : Register(a, f) \/ RegisterAgain(a, f)
            \/ \E a \in Arcs, p \in Priorities : Reset(a, p) \/ Prioritise(a, p)
            \/ \E a \in Arcs : Discard(a)
  BY <1>3, <1>4, <1>7, <1>8, <1>13
<1> QED
  BY <1>9, <1>11, <1>12, <1>13, <1>16 DEF NextWorkflow

LEMMA WorkflowInvariant == WorkflowSpec => []WorkflowInv
  BY WorkflowInit, WorkflowStep, PTL DEF WorkflowSpec

(* What nextARC hands out without looking at the table again is never      *)
(* stale, as long as files do not move and the operator only gives back    *)
(* what no builder works on (ArchonStorage.nextARC).                       *)
THEOREM CachesStayFresh == WorkflowSpec => []CacheFresh
  BY WorkflowInvariant, PTL DEF WorkflowInv

(* A builder's files are RUNNING for its shard in the table, whatever      *)
(* crashes, lost answers, restarts and resets happen around it.            *)
THEOREM HeldFilesAreRunning == WorkflowSpec => []HeldIsRunning
  BY WorkflowInvariant, PTL DEF WorkflowInv

(* No two builders ever work on the same file (ArchonStorage.nextARC and   *)
(* the comment on the race between shards).                                *)
THEOREM LeasesStayExclusive == WorkflowSpec => []LeasesExclusive
<1>1. WorkflowInv => LeasesExclusive
  BY DEF WorkflowInv, HeldIsRunning, LeasesExclusive
<1> QED
  BY <1>1, WorkflowInvariant, PTL

THEOREM StartedFilesHaveShard == WorkflowSpec => []StartedHasShard
  BY WorkflowInvariant, PTL DEF WorkflowInv

-----------------------------------------------------------------------------
(* Archon implements ArcLeases.                                            *)

LEMMA LeasesInit == InitWorkflow => Leases!Init
  BY DEF InitWorkflow, Init, Answer, Leases!Init, LeaseOf, AnswerOf, Leases!Lease,
         Leases!Unanswered

(* A request that answers no nextARC and, if it changes anything, changes  *)
(* the lease of one file the way ArcLeases allows.                         *)
LEMMA OneLeaseStep ==
    ASSUME NEW a \in Arcs, reply'.kind \in {"none", "ok", "error", "paused"},
           \A b \in Arcs : b # a => LeaseOf'[b] = LeaseOf[b],
           \/ LeaseOf'[a] = LeaseOf[a]
           \/ /\ LeaseOf[a].status = "done"
              /\ \E s \in Shards : LeaseOf'[a] = [LeaseOf[a] EXCEPT !.shard = s]
           \/ LeaseOf'[a] = Leases!Lease("free", NoShard)
           \/ /\ LeaseOf[a].status = "leased"
              /\ LeaseOf'[a] = [LeaseOf[a] EXCEPT !.status = "done"]
           \/ LeaseOf[a].status = "done" /\ LeaseOf'[a] = Leases!Lease("absent", NoShard)
    PROVE  Leases!Next
<1>1. AnswerOf' = Leases!Unanswered
  BY DEF AnswerOf, Leases!Unanswered
<1>2. LeaseOf' = [LeaseOf EXCEPT ![a] = LeaseOf'[a]]
  BY DEF LeaseOf
<1>3. CASE LeaseOf'[a] = LeaseOf[a]
  <2>1. LeaseOf' = LeaseOf
    BY <1>3 DEF LeaseOf
  <2> QED
    BY <1>1, <2>1 DEF Leases!Next, Leases!Other
<1>4. CASE LeaseOf'[a] = Leases!Lease("free", NoShard)
  <2>1. Leases!Register(a) \/ Leases!Reopen(a)
    BY <1>1, <1>2, <1>4 DEF Leases!Register, Leases!Reopen
  <2> QED
    BY <2>1 DEF Leases!Next
<1>5. CASE /\ LeaseOf[a].status = "leased"
           /\ LeaseOf'[a] = [LeaseOf[a] EXCEPT !.status = "done"]
  <2>1. Leases!Finish(a)
    BY <1>1, <1>2, <1>5 DEF Leases!Finish
  <2> QED
    BY <2>1 DEF Leases!Next
<1>6. CASE LeaseOf[a].status = "done" /\ LeaseOf'[a] = Leases!Lease("absent", NoShard)
  <2>1. Leases!Forget(a)
    BY <1>1, <1>2, <1>6 DEF Leases!Forget
  <2> QED
    BY <2>1 DEF Leases!Next
<1>7. CASE /\ LeaseOf[a].status = "done"
           /\ \E s \in Shards : LeaseOf'[a] = [LeaseOf[a] EXCEPT !.shard = s]
  <2>1. PICK s \in Shards : Leases!Amend(a, s)
    BY <1>1, <1>2, <1>7 DEF Leases!Amend
  <2> QED
    BY <2>1 DEF Leases!Next
<1> QED
  BY <1>3, <1>4, <1>5, <1>6, <1>7

(* How a row shows as a lease.                                             *)
LEMMA LeaseOfRow ==
    ASSUME TypeOK, NEW a \in Arcs
    PROVE  /\ a \notin DOMAIN db => LeaseOf[a] = Leases!Lease("absent", NoShard)
           /\ a \in DOMAIN db =>
                 LeaseOf[a] = Leases!Lease(LeaseStatus(db[a].state), db[a].shard)
           /\ a \in DOMAIN db => db[a] \in Row
  BY DEF LeaseOf, Leases!Lease, TypeOK, TableOK

LEMMA LeaseStatusCases ==
    /\ LeaseStatus("NEW") = "free"
    /\ LeaseStatus("RUNNING") = "leased"
    /\ LeaseStatus("COMPLETED") = "done"
    /\ LeaseStatus("REJECTED") = "done"
  BY DEF LeaseStatus

LEMMA FreeForIsEligible ==
    ASSUME TypeOK, NEW s \in Shards
    PROVE  Leases!FreeFor(s) = Eligible(s)
<1>1. ASSUME NEW a \in Arcs
      PROVE  a \in Leases!FreeFor(s) <=> a \in Eligible(s)
  <2>1. CASE a \notin DOMAIN db
    <3>1. LeaseOf[a].status = "absent"
      <4>1. LeaseOf[a] = Leases!Lease("absent", NoShard)
        BY <2>1, LeaseOfRow
      <4> QED
        BY <4>1 DEF Leases!Lease
    <3> QED
      BY <2>1, <3>1 DEF Leases!FreeFor, Eligible
  <2>2. CASE a \in DOMAIN db
    <3>1. db[a].state \in States
      BY <2>2, LeaseOfRow DEF Row
    <3>2. LeaseStatus(db[a].state) = "free" <=> db[a].state = "NEW"
      BY <3>1, LeaseStatusCases DEF States
    <3>3. /\ LeaseOf[a].status = LeaseStatus(db[a].state)
          /\ LeaseOf[a].shard = db[a].shard
      <4>1. LeaseOf[a] = Leases!Lease(LeaseStatus(db[a].state), db[a].shard)
        BY <2>2, LeaseOfRow
      <4> QED
        BY <4>1 DEF Leases!Lease
    <3> QED
      BY <2>2, <3>2, <3>3 DEF Leases!FreeFor, Eligible
  <2> QED
    BY <2>1, <2>2
<1> QED
  BY <1>1 DEF Leases!FreeFor, Eligible, TypeOK, TableOK

(* A request that rewrites the row of one file is one step of its lease.   *)
LEMMA UpdateRowLease ==
    ASSUME TypeOK, NEW a \in Arcs, NEW row, UpdateRow(a, row),
           a \in DOMAIN db =>
              /\ row \in Row
              /\ \/ row.state = db[a].state /\ row.shard = db[a].shard
                 \/ row.state = "NEW" /\ row.shard = NoShard
                 \/ db[a].state = "RUNNING" /\ row.state \in Finished /\ row.shard = db[a].shard
                 \/ db[a].state \in Finished /\ row.state \in Finished /\ row.shard \in Shards
    PROVE  Leases!Next
<1>1. reply'.kind \in {"none", "ok", "error", "paused"}
  BY DEF UpdateRow, Ok, Error, Answer
<1>2. TypeOK'
  BY UpdateRowType
<1>3. CASE a \notin DOMAIN db
  <2>1. LeaseOf' = LeaseOf
    BY <1>3 DEF UpdateRow, LeaseOf
  <2> QED
    BY <1>1, <2>1, OneLeaseStep
<1>4. CASE a \in DOMAIN db
  <2>1. /\ DOMAIN db' = DOMAIN db /\ db'[a] = row
        /\ \A b \in DOMAIN db : b # a => db'[b] = db[b]
    BY <1>4 DEF UpdateRow, TypeOK, TableOK
  <2>2. \A b \in Arcs : b # a => LeaseOf'[b] = LeaseOf[b]
    BY <2>1 DEF LeaseOf
  <2>3. LeaseOf[a] = Leases!Lease(LeaseStatus(db[a].state), db[a].shard)
    BY <1>4, LeaseOfRow
  <2>4. LeaseOf'[a] = Leases!Lease(LeaseStatus(row.state), row.shard)
    BY <1>4, <2>1 DEF LeaseOf, Leases!Lease
  <2>5. CASE row.state = db[a].state /\ row.shard = db[a].shard
    <3>1. LeaseOf'[a] = LeaseOf[a]
      BY <2>3, <2>4, <2>5
    <3> QED
      BY <1>1, <2>2, <3>1, OneLeaseStep
  <2>6. CASE row.state = "NEW" /\ row.shard = NoShard
    <3>1. LeaseOf'[a] = Leases!Lease("free", NoShard)
      BY <2>4, <2>6, LeaseStatusCases
    <3> QED
      BY <1>1, <2>2, <3>1, OneLeaseStep
  <2>7. CASE db[a].state = "RUNNING" /\ row.state \in Finished /\ row.shard = db[a].shard
    <3>1. LeaseOf[a] = Leases!Lease("leased", db[a].shard)
          /\ LeaseOf'[a] = Leases!Lease("done", db[a].shard)
      BY <2>3, <2>4, <2>7, LeaseStatusCases DEF Finished
    <3>2. /\ LeaseOf[a].status = "leased"
          /\ LeaseOf'[a] = [LeaseOf[a] EXCEPT !.status = "done"]
      BY <3>1 DEF Leases!Lease
    <3> QED
      BY <1>1, <2>2, <3>2, OneLeaseStep
  <2>8. CASE db[a].state \in Finished /\ row.state \in Finished /\ row.shard \in Shards
    <3>1. LeaseOf[a] = Leases!Lease("done", db[a].shard)
          /\ LeaseOf'[a] = Leases!Lease("done", row.shard)
      BY <2>3, <2>4, <2>8, LeaseStatusCases DEF Finished
    <3>2. /\ LeaseOf[a].status = "done"
          /\ LeaseOf'[a] = [LeaseOf[a] EXCEPT !.shard = row.shard]
      BY <3>1 DEF Leases!Lease
    <3> QED
      BY <1>1, <2>2, <2>8, <3>2, OneLeaseStep
  <2> QED
    BY <1>4, <2>5, <2>6, <2>7, <2>8
<1> QED
  BY <1>3, <1>4

(* A request that changes no row and answers no nextARC.                   *)
LEMMA NoLeaseStep ==
    ASSUME UNCHANGED db, reply'.kind \in {"none", "ok", "error", "paused", "id"}
    PROVE  Leases!Next
<1>1. LeaseOf' = LeaseOf /\ AnswerOf' = Leases!Unanswered
  BY DEF LeaseOf, AnswerOf, Leases!Unanswered
<1> QED
  BY <1>1 DEF Leases!Next, Leases!Other

LEMMA NextARCLease ==
    ASSUME WorkflowInv, NEW s \in Shards, NextARC(s)
    PROVE  Leases!Next
<1>0. TypeOK
  BY DEF WorkflowInv
<1>1. CASE db' = db /\ reply' = Answer("paused", s, NoArc)
  BY <1>1, NoLeaseStep DEF Answer
<1>2. CASE db' = db /\ reply' = Answer("empty", s, NoArc) /\ Eligible(s) = {}
  <2>1. LeaseOf' = LeaseOf /\ AnswerOf' = [shard |-> s, arc |-> NoArc]
    BY <1>2 DEF LeaseOf, AnswerOf, Answer
  <2>2. Leases!FreeFor(s) = {}
    BY <1>0, <1>2, FreeForIsEligible
  <2>3. Leases!Refuse(s)
    BY <2>1, <2>2 DEF Leases!Refuse
  <2> QED
    BY <2>3 DEF Leases!Next
<1>3. ASSUME NEW a \in Eligible(s), NEW p \in Priorities,
             db' = [db EXCEPT ![a].shard = s, ![a].state = "RUNNING", ![a].priority = p],
             reply' = Answer("arc", s, a)
      PROVE  Leases!Next
  <2>1. a \in DOMAIN db /\ a \in Arcs /\ db[a] \in Row
    BY <1>0 DEF Eligible, TypeOK, TableOK
  <2>2. /\ DOMAIN db' = DOMAIN db
        /\ db'[a].state = "RUNNING" /\ db'[a].shard = s
        /\ \A b \in DOMAIN db : b # a => db'[b] = db[b]
    BY <1>0, <1>3, <2>1 DEF TypeOK, TableOK, Row
  <2>3. LeaseOf'[a] = Leases!Lease("leased", s)
    BY <2>1, <2>2, LeaseStatusCases DEF LeaseOf, Leases!Lease
  <2>4. LeaseOf' = [LeaseOf EXCEPT ![a] = Leases!Lease("leased", s)]
    <3>1. \A b \in Arcs : b # a => LeaseOf'[b] = LeaseOf[b]
      BY <2>2 DEF LeaseOf
    <3> QED
      BY <2>1, <2>3, <3>1 DEF LeaseOf
  <2>5. AnswerOf' = [shard |-> s, arc |-> a]
    BY <1>3 DEF AnswerOf, Answer
  <2>6. a \in Leases!FreeFor(s)
    BY <1>0, FreeForIsEligible
  <2>7. Leases!Grant(s)
    BY <2>4, <2>5, <2>6 DEF Leases!Grant
  <2> QED
    BY <2>7 DEF Leases!Next
<1> QED
  BY <1>1, <1>2, <1>3, NextARCOutcome

LEMMA WorkflowLeaseStep ==
    WorkflowInv /\ [NextWorkflow]_workflowVars => [Leases!Next]_(Leases!leaseVars)
<1> SUFFICES ASSUME WorkflowInv, [NextWorkflow]_workflowVars
             PROVE  [Leases!Next]_(Leases!leaseVars)
  OBVIOUS
<1>types. TypeOK
  BY DEF WorkflowInv
<1>rows. db \in [DOMAIN db -> Row] /\ \A a \in DOMAIN db : a \in Arcs /\ db[a] \in Row
  BY DEF WorkflowInv, TypeOK, TableOK
<1>1. ASSUME NEW s \in Shards, Fetch(s) \/ FetchLost(s)
      PROVE  Leases!Next
  BY <1>1, NextARCLease DEF Fetch, FetchLost
<1>2. ASSUME NEW s \in Shards, NEW a \in Arcs, NEW st \in Finished, Report(s, a, st)
      PROVE  Leases!Next
  <2>1. a \in DOMAIN db /\ db[a].state = "RUNNING" /\ db[a] \in Row
    BY <1>2, <1>rows DEF Report, WorkflowInv, HeldIsRunning
  <2>2. LET row == [db[a] EXCEPT !.state = st]
        IN  row \in Row /\ row.state = st /\ row.shard = db[a].shard
    BY <2>1 DEF Row, States, Finished
  <2> QED
    BY <1>2, <1>types, <2>1, <2>2, UpdateRowLease DEF Report, SetARCState
<1>3. ASSUME NEW a \in Arcs, NEW p \in Priorities, Reset(a, p)
      PROVE  Leases!Next
  <2>1. a \in DOMAIN db =>
           LET row == [db[a] EXCEPT !.shard = NoShard, !.state = "NEW", !.priority = p]
           IN  row \in Row /\ row.state = "NEW" /\ row.shard = NoShard
    BY <1>rows DEF Row, States
  <2> QED
    BY <1>3, <1>types, <2>1, UpdateRowLease DEF Reset, ResetArcWithPriority
<1>4. ASSUME NEW a \in Arcs, NEW p \in Priorities, Prioritise(a, p)
      PROVE  Leases!Next
  <2>1. a \in DOMAIN db =>
           LET row == [db[a] EXCEPT !.priority = p]
           IN  row \in Row /\ row.state = db[a].state /\ row.shard = db[a].shard
    BY <1>rows DEF Row, States
  <2> QED
    BY <1>4, <1>types, <2>1, UpdateRowLease DEF Prioritise, SetARCPriority
<1>5. ASSUME NEW s \in Shards, RestartBuilder(s)
      PROVE  Leases!Next
  <2>1. /\ reply' = Ok /\ DOMAIN db' = DOMAIN db
        /\ \A a \in DOMAIN db : db'[a] =
              IF db[a].shard = s /\ db[a].state = "RUNNING"
              THEN [db[a] EXCEPT !.state = "NEW", !.shard = NoShard]
              ELSE db[a]
    BY <1>5 DEF RestartBuilder, ClearIndexing, UpdateShard
  <2>2. AnswerOf' = Leases!Unanswered
    BY <2>1 DEF AnswerOf, Leases!Unanswered, Ok, Answer
  <2>3. ASSUME NEW a \in Arcs
        PROVE  LeaseOf'[a] = IF LeaseOf[a] = Leases!Lease("leased", s)
                             THEN Leases!Lease("free", NoShard)
                             ELSE LeaseOf[a]
    <3>1. CASE a \notin DOMAIN db
      <4>1. LeaseOf[a] = Leases!Lease("absent", NoShard) /\ LeaseOf'[a] = LeaseOf[a]
        BY <2>1, <3>1 DEF LeaseOf, Leases!Lease
      <4> QED
        BY <4>1 DEF Leases!Lease
    <3>2. CASE a \in DOMAIN db
      <4>1. LeaseOf[a] = Leases!Lease(LeaseStatus(db[a].state), db[a].shard)
            /\ db[a].state \in States /\ db[a] \in Row
        BY <1>types, <3>2, LeaseOfRow DEF Row
      <4>2. LeaseStatus(db[a].state) = "leased" <=> db[a].state = "RUNNING"
        BY <4>1, LeaseStatusCases DEF States
      <4>3. LeaseOf[a] = Leases!Lease("leased", s)
               <=> db[a].state = "RUNNING" /\ db[a].shard = s
        BY <4>1, <4>2 DEF Leases!Lease
      <4>4. LeaseOf'[a] = Leases!Lease(LeaseStatus(db'[a].state), db'[a].shard)
        BY <2>1, <3>2 DEF LeaseOf, Leases!Lease
      <4>5. CASE db[a].state = "RUNNING" /\ db[a].shard = s
        <5>1. db'[a].state = "NEW" /\ db'[a].shard = NoShard
          BY <2>1, <3>2, <4>1, <4>5 DEF Row
        <5> QED
          BY <4>3, <4>4, <4>5, <5>1, LeaseStatusCases
      <4>6. CASE ~(db[a].state = "RUNNING" /\ db[a].shard = s)
        <5>1. db'[a] = db[a]
          BY <2>1, <3>2, <4>6
        <5> QED
          BY <4>1, <4>3, <4>4, <4>6, <5>1
      <4> QED
        BY <4>5, <4>6
    <3> QED
      BY <3>1, <3>2
  <2>4. Leases!Reclaim(s)
    BY <2>2, <2>3 DEF Leases!Reclaim, LeaseOf
  <2> QED
    BY <2>4 DEF Leases!Next
<1>6. ASSUME NEW s \in Shards, ResetShard(s) \/ \E p \in Priorities : Requeue(s, p)
      PROVE  Leases!Next
  <2>1. /\ reply' = Ok /\ DOMAIN db' = DOMAIN db
        /\ \A a \in DOMAIN db :
              /\ db[a].shard # s => db'[a] = db[a]
              /\ db[a].shard = s => db'[a].state = "NEW" /\ db'[a].shard = s
    <3>1. CASE ResetShard(s)
      BY <1>rows, <3>1 DEF ResetShard, ResetShardID, UpdateShard, Row
    <3>2. ASSUME NEW p \in Priorities, Requeue(s, p)
          PROVE  /\ reply' = Ok /\ DOMAIN db' = DOMAIN db
                 /\ \A a \in DOMAIN db :
                       /\ db[a].shard # s => db'[a] = db[a]
                       /\ db[a].shard = s => db'[a].state = "NEW" /\ db'[a].shard = s
      BY <1>rows, <3>2 DEF Requeue, SetShardState, UpdateShard, Row
    <3> QED
      BY <1>6, <3>1, <3>2
  <2>2. AnswerOf' = Leases!Unanswered
    BY <2>1 DEF AnswerOf, Leases!Unanswered, Ok, Answer
  <2>3. ASSUME NEW a \in Arcs
        PROVE  LeaseOf'[a] = IF LeaseOf[a].shard = s /\ LeaseOf[a].status # "absent"
                             THEN Leases!Lease("free", s)
                             ELSE LeaseOf[a]
    <3>1. CASE a \notin DOMAIN db
      <4>1. LeaseOf[a] = Leases!Lease("absent", NoShard) /\ LeaseOf'[a] = LeaseOf[a]
        BY <2>1, <3>1 DEF LeaseOf, Leases!Lease
      <4> QED
        BY <4>1 DEF Leases!Lease
    <3>2. CASE a \in DOMAIN db
      <4>1. LeaseOf[a] = Leases!Lease(LeaseStatus(db[a].state), db[a].shard)
            /\ db[a].state \in States /\ db[a] \in Row
        BY <1>types, <3>2, LeaseOfRow DEF Row
      <4>2. LeaseStatus(db[a].state) # "absent"
        BY <4>1, LeaseStatusCases DEF States
      <4>3. LeaseOf[a].shard = db[a].shard /\ LeaseOf[a].status # "absent"
        BY <4>1, <4>2 DEF Leases!Lease
      <4>4. LeaseOf'[a] = Leases!Lease(LeaseStatus(db'[a].state), db'[a].shard)
        BY <2>1, <3>2 DEF LeaseOf, Leases!Lease
      <4>5. CASE db[a].shard = s
        <5>1. db'[a].state = "NEW" /\ db'[a].shard = s
          BY <2>1, <3>2, <4>1, <4>5 DEF Row
        <5> QED
          BY <4>3, <4>4, <4>5, <5>1, LeaseStatusCases
      <4>6. CASE db[a].shard # s
        <5>1. db'[a] = db[a]
          BY <2>1, <3>2, <4>6
        <5> QED
          BY <4>1, <4>3, <4>4, <4>6, <5>1
      <4> QED
        BY <4>5, <4>6
    <3> QED
      BY <3>1, <3>2
  <2>4. Leases!ReopenShard(s)
    BY <2>2, <2>3 DEF Leases!ReopenShard, LeaseOf
  <2> QED
    BY <2>4 DEF Leases!Next
<1>7. ASSUME NEW a \in Arcs, NEW f \in Folders, Register(a, f) \/ RegisterAgain(a, f)
      PROVE  Leases!Next
  <2>1. reply'.kind \in {"none", "ok", "error", "paused"}
    BY <1>7 DEF Register, RegisterAgain, AddARC, AddOrUpdateARC, Ok, Error, Answer
  <2>2. CASE a \in DOMAIN db
    <3>1. DOMAIN db' = DOMAIN db
          /\ \A b \in DOMAIN db : db'[b].state = db[b].state /\ db'[b].shard = db[b].shard
      BY <1>7, <1>rows, <2>2 DEF Register, RegisterAgain, AddARC, AddOrUpdateARC, Row
    <3>2. LeaseOf' = LeaseOf
      BY <3>1 DEF LeaseOf
    <3> QED
      BY <1>7, <2>1, <3>2, OneLeaseStep
  <2>3. CASE a \notin DOMAIN db
    <3>1. /\ DOMAIN db' = DOMAIN db \cup {a} /\ db'[a] = NewRow(f)
          /\ \A b \in DOMAIN db : db'[b] = db[b]
      BY <1>7, <2>3 DEF Register, RegisterAgain, AddARC, AddOrUpdateARC, InsertRow
    <3>2. \A b \in Arcs : b # a => LeaseOf'[b] = LeaseOf[b]
      BY <3>1 DEF LeaseOf
    <3>3. LeaseOf'[a] = Leases!Lease("free", NoShard)
      BY <3>1, LeaseStatusCases DEF LeaseOf, NewRow, Leases!Lease
    <3> QED
      BY <2>1, <3>2, <3>3, OneLeaseStep
  <2> QED
    BY <2>2, <2>3
<1>8. ASSUME NEW a \in Arcs, Discard(a)
      PROVE  Leases!Next
  <2>1. reply'.kind \in {"none", "ok", "error", "paused"}
    BY <1>8 DEF Discard, RemoveARC, Ok, Error, Answer
  <2>2. CASE a \notin DOMAIN db
    BY <1>8, <2>1, <2>2, NoLeaseStep DEF Discard, RemoveARC
  <2>3. CASE a \in DOMAIN db
    <3>1. /\ DOMAIN db' = DOMAIN db \ {a} /\ \A b \in DOMAIN db' : db'[b] = db[b]
          /\ db[a].state \in Finished
      BY <1>8, <2>3 DEF Discard, RemoveARC, Finished
    <3>2. \A b \in Arcs : b # a => LeaseOf'[b] = LeaseOf[b]
      BY <3>1 DEF LeaseOf
    <3>3. LeaseOf'[a] = Leases!Lease("absent", NoShard)
      BY <3>1 DEF LeaseOf, Leases!Lease
    <3>4. LeaseOf[a].status = "done"
      <4>1. LeaseOf[a] = Leases!Lease("done", db[a].shard)
        BY <1>types, <2>3, <3>1, LeaseOfRow, LeaseStatusCases DEF Finished
      <4> QED
        BY <4>1 DEF Leases!Lease
    <3> QED
      BY <2>1, <3>2, <3>3, <3>4, OneLeaseStep
  <2> QED
    BY <2>2, <2>3
<1>9. CASE RestartArchon \/ AskShardID \/ \E b \in BOOLEAN : Pause(b)
  BY <1>9, NoLeaseStep
     DEF RestartArchon, RestartServer, AskShardID, NextShardID, Pause, SetPaused, Ok, Answer
<1>13. ASSUME NEW a \in Arcs, NEW s \in Shards, NEW st \in Finished, NEW p \in Priorities,
              Correct(a, s, st, p)
       PROVE  Leases!Next
  <2>1. a \in DOMAIN db =>
           LET row == [db[a] EXCEPT !.shard = s, !.state = st, !.priority = p]
           IN  row \in Row /\ row.state = st /\ row.shard = s
    BY <1>rows DEF Row, States, Finished
  <2>2. a \in DOMAIN db => db[a].state \in Finished
    BY <1>13 DEF Correct
  <2> QED
    BY <1>13, <1>types, <2>1, <2>2, UpdateRowLease DEF Correct, SetARCProperties
<1>10. CASE UNCHANGED workflowVars
  BY <1>10 DEF workflowVars, Leases!leaseVars, LeaseOf, AnswerOf
<1>11. CASE \/ \E s \in Shards : Fetch(s) \/ FetchLost(s) \/ RestartBuilder(s) \/ ResetShard(s)
            \/ \E s \in Shards, a \in Arcs, st \in Finished : Report(s, a, st)
  BY <1>1, <1>2, <1>5, <1>6, <1>11
<1>12. CASE \/ \E a \in Arcs, f \in Folders : Register(a, f) \/ RegisterAgain(a, f)
            \/ \E a \in Arcs, p \in Priorities : Reset(a, p) \/ Prioritise(a, p)
            \/ \E a \in Arcs : Discard(a)
  BY <1>3, <1>4, <1>7, <1>8, <1>12
<1>14. CASE \/ \E s \in Shards, p \in Priorities : Requeue(s, p)
            \/ \E a \in Arcs, s \in Shards, st \in Finished, p \in Priorities :
                  Correct(a, s, st, p)
  BY <1>6, <1>13, <1>14
<1> QED
  BY <1>9, <1>10, <1>11, <1>12, <1>14 DEF NextWorkflow

(* Archon, operated by the workflow, implements the abstract leases: the   *)
(* caches never make it grant a file that is not free for the shard, nor   *)
(* say that nothing is left when something is.                             *)
THEOREM ArchonImplementsLeases == WorkflowSpec => ImplementsLeases
  BY LeasesInit, WorkflowInvariant, WorkflowLeaseStep, PTL
     DEF WorkflowSpec, ImplementsLeases, Leases!Spec
=============================================================================
