--------------------------- MODULE ValidateProofs ---------------------------
(***************************************************************************)
(* Proofs about the validation tool, for files of any length, batches of   *)
(* any size, and an index that may grow at any time.                       *)
(***************************************************************************)
EXTENDS ValidateWarc, SequenceTheorems, FiniteSetTheorems, TLAPS

(* The records the loop expects to be in the index: in a WARC, those that  *)
(* should be there.                                                        *)
Expected == {i \in Positions : ~Skipped(i) /\ Expects(i)}

(* The records the loop has come to.                                       *)
Reached == IF pc = "read" THEN next - 1 ELSE Len(file)

(* What is wanted is what is expected of these, each record once.          *)
WantedOK ==
    /\ pc # "aborted" => ToSet(wanted) = {i \in Expected : i <= Reached}
    /\ IsFiniteSet(ToSet(wanted)) /\ Cardinality(ToSet(wanted)) = Len(wanted)

(* A batch that was looked up has found what was in the index before.      *)
LookupOK ==
    /\ found \subseteq solr
    /\ pc \in {"lookup", "listed"} =>
          \A i \in 1..Len(wanted) : i < next /\ wanted[i] \in counted => wanted[i] \in found
    /\ pc = "listed" => next > Len(wanted)

CountOK ==
    pc \in {"agrees", "lookup", "listed"} =>
        (pc = "agrees" <=> NumFound(counted) = Len(wanted))

ValidateInv == ValidateTypeOK /\ WantedOK /\ LookupOK /\ CountOK

-----------------------------------------------------------------------------

LEMMA FileTyped ==
    ASSUME file \in SeqOf(Record, MaxRecords)
    PROVE  file \in Seq(Record)
<1>1. PICK m \in 0..MaxRecords : file \in [1..m -> Record]
  BY DEF SeqOf
<1>2. m \in Nat
  BY ValidateAssumption
<1> QED
  BY <1>1, <1>2, IsASeq

LEMMA AppendElements ==
    ASSUME NEW S, NEW list \in Seq(S), NEW e \in S
    PROVE  ToSet(Append(list, e)) = ToSet(list) \cup {e}
<1>1. /\ Len(Append(list, e)) = Len(list) + 1 /\ Len(list) \in Nat
      /\ DOMAIN list = 1..Len(list)
      /\ DOMAIN Append(list, e) = 1..(Len(list) + 1)
      /\ \A i \in 1..Len(list) : Append(list, e)[i] = list[i]
      /\ Append(list, e)[Len(list) + 1] = e
  BY AppendProperties
<1> QED
  BY <1>1 DEF ToSet

(* A part of a list has the elements at its positions, and no others.      *)
LEMMA SubSeqElements ==
    ASSUME NEW S, NEW list \in Seq(S), NEW m \in 1..Len(list), NEW n \in m..Len(list)
    PROVE  /\ ToSet(SubSeq(list, m, n)) \subseteq ToSet(list)
           /\ \A i \in m..n : list[i] \in ToSet(SubSeq(list, m, n))
<1> DEFINE part == SubSeq(list, m, n)
<1>1. /\ Len(list) \in Nat /\ DOMAIN list = 1..Len(list)
      /\ DOMAIN part = 1..(n - m + 1)
      /\ \A i \in 1..(n - m + 1) : part[i] = list[m + i - 1]
  BY SubSeqProperties
<1> HIDE DEF part
<1>2. \A i \in 1..(n - m + 1) : m + i - 1 \in 1..Len(list)
  BY <1>1
<1>3. \A i \in m..n : i - m + 1 \in 1..(n - m + 1) /\ m + (i - m + 1) - 1 = i
  BY <1>1
<1>4. \A i \in m..n : part[i - m + 1] = list[i]
  BY <1>1, <1>3
<1>5. ToSet(part) \subseteq ToSet(list)
  BY <1>1, <1>2 DEF ToSet
<1>6. \A i \in m..n : list[i] \in ToSet(part)
  BY <1>1, <1>3, <1>4 DEF ToSet
<1> QED
  BY <1>5, <1>6 DEF part

LEMMA PositionsFinite ==
    ASSUME ValidateTypeOK
    PROVE  /\ Len(file) \in Nat /\ IsFiniteSet(Positions)
           /\ Cardinality(Positions) = Len(file)
           /\ Len(wanted) \in Nat /\ ToSet(wanted) \subseteq Positions
<1>1. Len(file) \in Nat /\ Len(wanted) \in Nat
  BY LenProperties DEF ValidateTypeOK
<1>2. DOMAIN wanted = 1..Len(wanted) /\ \A i \in 1..Len(wanted) : wanted[i] \in Positions
  BY LenProperties, ElementOfSeq DEF ValidateTypeOK
<1>3. ToSet(wanted) \subseteq Positions
  BY <1>2 DEF ToSet
<1>4. IsFiniteSet(1..Len(file)) /\ Cardinality(1..Len(file)) = IF 1 > Len(file) THEN 0 ELSE Len(file) - 1 + 1
  <2>1. 1 \in Int /\ Len(file) \in Int
    BY <1>1
  <2> QED
    BY <2>1, FS_Interval
<1>5. IsFiniteSet(Positions) /\ Cardinality(Positions) = Len(file)
  BY <1>1, <1>4 DEF Positions
<1> QED
  BY <1>1, <1>3, <1>5

(* The list has no record twice, so it is no longer than the file.         *)
LEMMA WantedShort ==
    ASSUME ValidateTypeOK, WantedOK
    PROVE  Len(wanted) <= Len(file)
  BY PositionsFinite, FS_Subset DEF WantedOK

-----------------------------------------------------------------------------
(* Every step preserves the invariant.                                     *)

LEMMA ValidateInit ==
    ASSUME Init
    PROVE  ValidateInv
<1>1. file \in Seq(Record)
  BY FileTyped DEF Init
<1>2. Len(file) \in Nat
  BY <1>1, LenProperties
<1>3. Len(wanted) = 0 /\ ToSet(wanted) = {}
  BY DEF Init, ToSet
<1>4. ValidateTypeOK
  BY <1>1, <1>2, <1>3 DEF Init, ValidateTypeOK
<1>5. WantedOK
  <2>1. {i \in Expected : i <= Reached} = {}
    BY <1>2 DEF Init, Reached, Expected, Positions
  <2> QED
    BY <1>3, <2>1, FS_EmptySet DEF WantedOK
<1> QED
  BY <1>4, <1>5 DEF ValidateInv, LookupOK, CountOK, Init

LEMMA ReadRecordInv ==
    ASSUME ValidateInv, ReadRecord
    PROVE  ValidateInv'
<1> USE DEF ValidateInv
<1>1. /\ next \in Positions /\ next + 1 \in 1..(Len(file) + 1)
      /\ wanted \in Seq(Positions) /\ Len(file) \in Nat /\ next \in Nat
  BY PositionsFinite DEF ReadRecord, ValidateTypeOK, Positions
<1>2. ToSet(wanted) = {i \in Expected : i <= next - 1}
  BY DEF ReadRecord, WantedOK, Reached
<1>3. {i \in Expected : i <= next} =
          ToSet(wanted) \cup (IF next \in Expected THEN {next} ELSE {})
  BY <1>1, <1>2 DEF Expected, Positions
<1>4. next \in Expected <=> ~Skipped(next) /\ Expects(next)
  BY <1>1 DEF Expected
<1>5. next \notin ToSet(wanted)
  BY <1>1, <1>2
<1>6. /\ wanted' \in Seq(Positions)
      /\ ToSet(wanted') = {i \in Expected : i <= next}
      /\ IsFiniteSet(ToSet(wanted')) /\ Cardinality(ToSet(wanted')) = Len(wanted')
  <2>1. CASE next \in Expected
    <3>1. wanted' = Append(wanted, next)
      BY <1>4, <2>1 DEF ReadRecord
    <3>2. wanted' \in Seq(Positions) /\ Len(wanted') = Len(wanted) + 1
      BY <1>1, <3>1, AppendProperties
    <3>3. ToSet(wanted') = ToSet(wanted) \cup {next}
      BY <1>1, <3>1, AppendElements
    <3>4. IsFiniteSet(ToSet(wanted')) /\ Cardinality(ToSet(wanted')) = Cardinality(ToSet(wanted)) + 1
      BY <1>5, <3>3, FS_AddElement DEF WantedOK
    <3> QED
      BY <1>3, <2>1, <3>2, <3>3, <3>4 DEF WantedOK
  <2>2. CASE next \notin Expected
    BY <1>1, <1>3, <1>4, <2>2 DEF ReadRecord, WantedOK
  <2> QED
    BY <2>1, <2>2
<1>7. ToSet(wanted) \subseteq ToSet(wanted')
  BY <1>3, <1>6
<1>8. Expected' = Expected /\ Positions' = Positions /\ Reached' = next
  BY <1>1 DEF ReadRecord, inputVars, Expected, Positions, Skipped, Expects, Reached
<1>9. ValidateTypeOK'
  BY <1>1, <1>6, <1>7, <1>8 DEF ValidateTypeOK, ReadRecord, inputVars
<1>10. ToSet(wanted)' = ToSet(wanted')
  BY DEF ToSet
<1>11. WantedOK'
  BY <1>6, <1>8, <1>10 DEF WantedOK
<1> QED
  BY <1>9, <1>11 DEF LookupOK, CountOK, ReadRecord

LEMMA AbortInv ==
    ASSUME ValidateInv, ReadFails \/ QueryFails
    PROVE  ValidateInv'
<1>1. Abort
  BY DEF ReadFails, QueryFails
<1>2. ToSet(wanted)' = ToSet(wanted) /\ Positions' = Positions
  BY <1>1 DEF Abort, inputVars, ToSet, Positions
<1> QED
  BY <1>1, <1>2
  DEF Abort, inputVars, ValidateInv, ValidateTypeOK, WantedOK, LookupOK, CountOK

LEMMA CountRecordsInv ==
    ASSUME ValidateInv, CountRecords
    PROVE  ValidateInv'
<1>1. /\ ToSet(wanted)' = ToSet(wanted) /\ Positions' = Positions
      /\ Expected' = Expected
  BY DEF CountRecords, inputVars, ToSet, Positions, Expected, Skipped, Expects
<1>2. Len(file) \in Nat /\ Len(file)' = Len(file) /\ Len(wanted) \in Nat
  BY PositionsFinite DEF ValidateInv, CountRecords, inputVars
<1>3. ValidateTypeOK'
  BY <1>1, <1>2 DEF CountRecords, inputVars, ValidateInv, ValidateTypeOK
<1>4. Reached = Len(file) /\ Reached' = Len(file)
  BY <1>2 DEF CountRecords, inputVars, Reached, ValidateInv, ValidateTypeOK
<1>5. WantedOK'
  BY <1>1, <1>4 DEF CountRecords, ValidateInv, WantedOK
<1>6. LookupOK'
  BY <1>2 DEF CountRecords, ValidateInv, LookupOK
<1>7. NumFound(counted)' = NumFound(solr)
  BY DEF CountRecords, inputVars, NumFound
<1>8. CountOK'
  BY <1>7 DEF CountRecords, CountOK
<1> QED
  BY <1>3, <1>5, <1>6, <1>8 DEF ValidateInv

LEMMA LookupBatchInv ==
    ASSUME ValidateInv, LookupBatch
    PROVE  ValidateInv'
<1> DEFINE batch == ToSet(SubSeq(wanted, next, BatchEnd))
<1>1. /\ Len(file) \in Nat /\ Len(wanted) \in Nat /\ Len(wanted) <= Len(file)
      /\ next \in 1..Len(wanted) /\ BatchSize \in Nat \ {0}
      /\ wanted \in Seq(Positions)
  BY PositionsFinite, WantedShort, ValidateAssumption
  DEF ValidateInv, ValidateTypeOK, LookupBatch
<1>2. BatchEnd \in next..Len(wanted)
  BY <1>1 DEF BatchEnd
<1>3. batch \subseteq ToSet(wanted) /\ \A i \in next..BatchEnd : wanted[i] \in batch
  BY <1>1, <1>2, SubSeqElements
<1> HIDE DEF batch
<1>4. /\ found' = found \cup (batch \cap solr) /\ next' = BatchEnd + 1
      /\ wanted' = wanted /\ solr' = solr /\ counted' = counted /\ pc' = pc /\ pc = "lookup"
      /\ inputVars' = inputVars
  BY DEF LookupBatch, batch
<1>5. /\ ToSet(wanted)' = ToSet(wanted) /\ Positions' = Positions
      /\ Expected' = Expected /\ Reached' = Reached
  BY <1>4 DEF inputVars, ToSet, Positions, Expected, Skipped, Expects, Reached
<1>6. ValidateTypeOK'
  BY <1>1, <1>2, <1>3, <1>4, <1>5 DEF inputVars, ValidateInv, ValidateTypeOK
<1>7. WantedOK'
  BY <1>4, <1>5 DEF ValidateInv, WantedOK
<1>8. LookupOK'
  <2>1. found' \subseteq solr'
    BY <1>4 DEF ValidateInv, LookupOK
  <2>2. ASSUME NEW i \in 1..Len(wanted), i < next', wanted[i] \in counted
        PROVE  wanted[i] \in found'
    <3>1. CASE i < next
      BY <1>4, <2>2, <3>1 DEF ValidateInv, LookupOK
    <3>2. CASE ~(i < next)
      <4>1. i \in next..BatchEnd
        BY <1>1, <1>2, <1>4, <2>2, <3>2
      <4>2. wanted[i] \in solr
        BY <2>2 DEF ValidateInv, ValidateTypeOK
      <4> QED
        BY <1>3, <1>4, <4>1, <4>2
    <3> QED
      BY <3>1, <3>2
  <2> QED
    BY <1>4, <2>1, <2>2 DEF LookupOK
<1>9. CountOK'
  BY <1>4 DEF inputVars, ValidateInv, CountOK, NumFound
<1> QED
  BY <1>6, <1>7, <1>8, <1>9 DEF ValidateInv

LEMMA ListMissingInv ==
    ASSUME ValidateInv, ListMissing
    PROVE  ValidateInv'
<1>1. /\ ToSet(wanted)' = ToSet(wanted) /\ Positions' = Positions
      /\ Expected' = Expected /\ Reached' = Reached
      /\ NumFound(counted)' = NumFound(counted)
  BY DEF ListMissing, inputVars, ToSet, Positions, Expected, Skipped, Expects, Reached, NumFound
<1> QED
  BY <1>1
  DEF ListMissing, inputVars, ValidateInv, ValidateTypeOK, WantedOK, LookupOK, CountOK

LEMMA IndexInv ==
    ASSUME ValidateInv, NEW i \in Positions, Index(i)
    PROVE  ValidateInv'
<1>1. /\ ToSet(wanted)' = ToSet(wanted) /\ Positions' = Positions
      /\ Expected' = Expected /\ Reached' = Reached
      /\ NumFound(counted)' = NumFound(counted)
  BY DEF Index, inputVars, ToSet, Positions, Expected, Skipped, Expects, Reached, NumFound
<1> QED
  BY <1>1 DEF Index, inputVars, ValidateInv, ValidateTypeOK, WantedOK, LookupOK, CountOK

LEMMA ValidateInvariant == Spec => []ValidateInv
<1>1. Init => ValidateInv
  BY ValidateInit
<1>2. ValidateInv /\ [Next]_validateVars => ValidateInv'
  <2> SUFFICES ASSUME ValidateInv, [Next]_validateVars PROVE ValidateInv'
    OBVIOUS
  <2>1. CASE Next
    BY <2>1, ReadRecordInv, AbortInv, CountRecordsInv, LookupBatchInv, ListMissingInv, IndexInv
    DEF Next
  <2>2. CASE UNCHANGED validateVars
    BY <2>2
    DEF validateVars, inputVars, ValidateInv, ValidateTypeOK, WantedOK, LookupOK, CountOK,
        ToSet, Positions, Expected, Skipped, Expects, Reached, NumFound
  <2> QED
    BY <2>1, <2>2
<1> QED
  BY <1>1, <1>2, PTL DEF Spec

-----------------------------------------------------------------------------
(* The properties.                                                         *)

(* What was found was asked for, and the index only grows: every variable  *)
(* of the tool has its type.                                               *)
THEOREM ValidateTypeCorrect == Spec => []ValidateTypeOK
<1>1. ValidateInv => ValidateTypeOK
  BY DEF ValidateInv
<1> QED
  BY <1>1, ValidateInvariant, PTL

(* When the numbers are compared, every expected record is wanted.         *)
LEMMA AllWanted ==
    ASSUME ValidateInv, pc \in {"agrees", "lookup", "listed"}
    PROVE  ToSet(wanted) = Expected
<1>1. Len(file) \in Nat
  BY PositionsFinite DEF ValidateInv
<1> QED
  BY <1>1 DEF ValidateInv, WantedOK, Reached, Expected, Positions

LEMMA IndexableExpected ==
    ASSUME isWarc
    PROVE  Indexable = Expected
  BY DEF Indexable, Expected, Skipped, Expects

(* For any WARC, what a run that found a difference lists as missing are   *)
(* the records that should be in the index and are not: none that is       *)
(* absent is left out, and none that was there when the documents were     *)
(* counted is listed (ValidateWarc.validate, SolrClient.lookupRecords).    *)
THEOREM MissingListsExact == Spec => []MissingListExact
<1>1. ValidateInv => MissingListExact
  <2> SUFFICES ASSUME ValidateInv, isWarc, pc = "listed"
               PROVE  /\ Indexable \ solr \subseteq Missing
                      /\ Missing \subseteq Indexable \ counted
    BY DEF MissingListExact
  <2>1. ToSet(wanted) = Indexable
    BY AllWanted, IndexableExpected
  <2>2. Indexable \ solr \subseteq Missing
    BY <2>1 DEF Missing, ValidateInv, LookupOK
  <2>3. ASSUME NEW r \in Missing PROVE r \notin counted
    <3>1. PICK i \in DOMAIN wanted : wanted[i] = r
      BY DEF Missing, ToSet
    <3>2. i \in 1..Len(wanted) /\ Len(wanted) \in Nat /\ next \in Nat
      BY PositionsFinite, LenProperties DEF ValidateInv, ValidateTypeOK
    <3>3. i < next
      BY <3>2 DEF ValidateInv, LookupOK
    <3> QED
      BY <3>1, <3>2, <3>3 DEF Missing, ValidateInv, LookupOK
  <2> QED
    BY <2>1, <2>2, <2>3 DEF Missing
<1> QED
  BY <1>1, ValidateInvariant, PTL

LEMMA DisjointUnion ==
    ASSUME NEW S, NEW T, IsFiniteSet(S), IsFiniteSet(T), S \cap T = {}
    PROVE  /\ IsFiniteSet(S \cup T)
           /\ Cardinality(S) \in Nat /\ Cardinality(T) \in Nat
           /\ Cardinality(S \cup T) = Cardinality(S) + Cardinality(T)
<1>1. /\ IsFiniteSet(S \cup T)
      /\ Cardinality(S \cup T) = Cardinality(S) + Cardinality(T) - Cardinality(S \cap T)
  BY FS_Union
<1>2. Cardinality(S) \in Nat /\ Cardinality(T) \in Nat /\ Cardinality(S \cap T) = 0
  BY FS_CardinalityType, FS_EmptySet
<1> QED
  BY <1>1, <1>2

(* Of any WARC the tool says that the numbers agree exactly if, when it    *)
(* counted, as many documents were missing as there were too many          *)
(* (ValidateWarc.validate, SolrClient.countRecordsForFile).                *)
THEOREM VerdictsCorrect == Spec => []VerdictCorrect
<1> DEFINE foreign == IF schema = "v2" THEN namesakes ELSE 0
<1>1. ASSUME ValidateInv, isWarc, pc \in {"agrees", "lookup", "listed"}
      PROVE  pc = "agrees" <=>
                Cardinality(Indexable \ counted) = Cardinality(Surplus) + foreign
  <2>1. ToSet(wanted) = Indexable
    BY <1>1, AllWanted, IndexableExpected
  <2>2. IsFiniteSet(Indexable) /\ Cardinality(Indexable) = Len(wanted)
    BY <1>1, <2>1 DEF ValidateInv, WantedOK
  <2>3. counted \subseteq Positions /\ IsFiniteSet(counted)
    BY <1>1, PositionsFinite, FS_Subset DEF ValidateInv, ValidateTypeOK
  <2>4. pc = "agrees" <=> NumFound(counted) = Len(wanted)
    BY <1>1 DEF ValidateInv, CountOK
  <2> DEFINE there == Indexable \cap counted
             absent == Indexable \ counted
  <2>5. NumFound(counted) = Cardinality(there \cup Surplus) + foreign
    <3>1. CASE schema = "v3"
      <4>1. there \cup Surplus = {i \in counted : revisits \/ file[i].type = "response"}
        BY <3>1 DEF Surplus, Indexable
      <4>2. IsFiniteSet({i \in counted : revisits \/ file[i].type = "response"})
        BY <2>3, FS_Subset
      <4>3. foreign = 0 /\ NumFound(counted) = Cardinality(there \cup Surplus)
        BY <3>1, <4>1 DEF NumFound
      <4>4. Cardinality(there \cup Surplus) \in Nat
        BY <4>1, <4>2, FS_CardinalityType
      <4> HIDE DEF there, foreign
      <4> QED
        BY <4>3, <4>4
    <3>2. CASE schema = "v2"
      <4>1. there \cup Surplus = counted
        BY <3>2 DEF Surplus
      <4>2. foreign = namesakes /\ NumFound(counted) = Cardinality(counted) + namesakes
        BY <3>2 DEF NumFound
      <4> QED
        BY <4>1, <4>2
    <3> QED
      BY <1>1, <3>1, <3>2 DEF ValidateInv, ValidateTypeOK
  <2>6. foreign \in Nat
    BY <1>1 DEF ValidateInv, ValidateTypeOK
  <2>7. /\ IsFiniteSet(there) /\ IsFiniteSet(absent) /\ IsFiniteSet(Surplus)
        /\ there \cap absent = {} /\ there \cap Surplus = {} /\ there \cup absent = Indexable
    <3>1. IsFiniteSet(there) /\ IsFiniteSet(absent)
      BY <2>2, FS_Subset
    <3>2. Surplus \subseteq counted /\ there \cap Surplus = {}
      BY DEF Surplus
    <3> QED
      BY <2>3, <3>1, <3>2, FS_Subset
  <2> HIDE DEF there, absent, foreign
  <2>8. /\ Cardinality(there \cup Surplus) = Cardinality(there) + Cardinality(Surplus)
        /\ Cardinality(Indexable) = Cardinality(there) + Cardinality(absent)
        /\ Cardinality(there) \in Nat /\ Cardinality(absent) \in Nat
        /\ Cardinality(Surplus) \in Nat
    BY <2>7, DisjointUnion
  <2> QED
    BY <2>2, <2>4, <2>5, <2>6, <2>8 DEF absent
<1>2. ValidateInv => VerdictCorrect
  BY <1>1 DEF VerdictCorrect
<1> QED
  BY <1>2, ValidateInvariant, PTL
=============================================================================
