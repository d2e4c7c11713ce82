---------------------------- MODULE ValidateWarc ----------------------------
(***************************************************************************)
(* The validation tool: it reads the records of one (W)ARC file, decides   *)
(* which of them should be in the Solr index, compares their number with   *)
(* the number of documents Solr has of this file, and if these differ asks *)
(* for the documents in batches and lists those it did not find.           *)
(*                                                                         *)
(* A record is known by its position, which stands for its offset. Solr is *)
(* external: it has at most one document for a record, the indexer may add *)
(* more while the tool runs, and its schema declares just one of the two   *)
(* fields, in which the indexer of that version notes the file. (With both *)
(* declared, countRecordsForFile would go by the one, lookupRecordsBatch   *)
(* by the other.)                                                          *)
(***************************************************************************)
EXTENDS Naturals, FiniteSets, Sequences, SequencesExt

CONSTANTS
    MaxRecords,    \* bound: the number of records in the file
    BatchSize      \* 500 in the code

ASSUME ValidateAssumption == MaxRecords \in Nat /\ BatchSize \in Nat \ {0}

VARIABLES
    isWarc,       \* a WARC, or an ARC
    revisits,     \* includeRevisits
    schema,       \* it has source_file ("v3", hasSource_file_field) or source_file_s ("v2")
    file,         \* the records of the file
    namesakes,    \* documents of other files whose name begins with this file's name
    solr,         \* the records of this file that have a document in the index
    pc,           \* where the tool is, and what it has said
    next,         \* the next record to read, or to look up
    wanted,       \* solrSourceFileRecord
    found,        \* recordsFound
    counted       \* history: the index when its documents were counted

inputVars == <<isWarc, revisits, schema, file, namesakes>>
validateVars == <<inputVars, solr, pc, next, wanted, found, counted>>

(* An HTTP exchange is a response or a revisit, other records are skipped. *)
(* Its status has one of the prefixes that were asked for, has none, or    *)
(* cannot be read.                                                         *)
Record ==
    [type : {"response", "revisit"}, status : {"asked", "other", "unreadable"}]
        \cup [type : {"other"}, status : {"other"}]

Positions == 1..Len(file)

Init ==
    /\ isWarc \in BOOLEAN /\ revisits \in BOOLEAN /\ schema \in {"v2", "v3"}
    /\ file \in SeqOf(Record, MaxRecords)
    /\ \A i \in Positions : file[i].type = "revisit" => isWarc
    /\ namesakes \in 0..1
    /\ solr \in SUBSET Positions
    /\ pc = "read" /\ next = 1
    /\ wanted = <<>> /\ found = {} /\ counted = {}

-----------------------------------------------------------------------------
(* The loop over the records.                                              *)

(* The first record of an ARC describes the file.                          *)
Skipped(i) == file[i].type = "other" \/ (~isWarc /\ i = 1)

(* An ARC has no types of records: the code expects none of them.          *)
Expects(i) ==
    /\ isWarc
    /\ file[i].status = "asked"
    /\ file[i].type = "response" \/ (file[i].type = "revisit" /\ revisits)

ReadRecord ==
    /\ pc = "read" /\ next <= Len(file)
    /\ Skipped(next) \/ file[next].status # "unreadable"
    /\ wanted' = IF ~Skipped(next) /\ Expects(next) THEN Append(wanted, next) ELSE wanted
    /\ next' = next + 1
    /\ UNCHANGED <<inputVars, solr, pc, found, counted>>

(* An exception ends the tool.                                             *)
Abort ==
    /\ pc' = "aborted"
    /\ UNCHANGED <<inputVars, solr, next, wanted, found, counted>>

ReadFails ==
    /\ pc = "read" /\ next <= Len(file)
    /\ ~Skipped(next) /\ file[next].status = "unreadable"
    /\ Abort

-----------------------------------------------------------------------------
(* The comparison with the index.                                          *)

(* A faulty variant of NumFound: revisits are always counted.              *)
NumFoundUnfiltered(docs) ==
    IF schema = "v3" THEN Cardinality(docs) ELSE Cardinality(docs) + namesakes

NumFound(docs) ==
    IF schema = "v3"
    THEN Cardinality({i \in docs : revisits \/ file[i].type = "response"})
    ELSE Cardinality(docs) + namesakes

CountRecords ==
    /\ pc = "read" /\ next > Len(file)
    /\ counted' = solr
    /\ pc' = IF NumFound(solr) = Len(wanted) THEN "agrees" ELSE "lookup"
    /\ next' = 1
    /\ UNCHANGED <<inputVars, solr, wanted, found>>

BatchEnd == IF next + BatchSize - 1 < Len(wanted) THEN next + BatchSize - 1 ELSE Len(wanted)

(* Faulty variants of LookupBatch: the query asks for the file and not for *)
(* the offsets; a last batch that is not full is not looked up.            *)
LookupFile ==
    /\ pc = "lookup" /\ next <= Len(wanted)
    /\ found' = found \cup solr
    /\ next' = BatchEnd + 1
    /\ UNCHANGED <<inputVars, solr, pc, wanted, counted>>

LookupFullBatch ==
    /\ pc = "lookup" /\ next <= Len(wanted)
    /\ found' = IF next + BatchSize - 1 <= Len(wanted)
                THEN found \cup (ToSet(SubSeq(wanted, next, BatchEnd)) \cap solr)
                ELSE found
    /\ next' = BatchEnd + 1
    /\ UNCHANGED <<inputVars, solr, pc, wanted, counted>>

LookupBatch ==
    /\ pc = "lookup" /\ next <= Len(wanted)
    /\ found' = found \cup (ToSet(SubSeq(wanted, next, BatchEnd)) \cap solr)
    /\ next' = BatchEnd + 1
    /\ UNCHANGED <<inputVars, solr, pc, wanted, counted>>

ListMissing ==
    /\ pc = "lookup" /\ next > Len(wanted)
    /\ pc' = "listed"
    /\ UNCHANGED <<inputVars, solr, next, wanted, found, counted>>

Missing == ToSet(wanted) \ found

QueryFails ==
    /\ pc = "lookup" \/ (pc = "read" /\ next > Len(file))
    /\ Abort

-----------------------------------------------------------------------------

Ended == pc \in {"agrees", "listed", "aborted"}

(* The indexer adds a document.                                            *)
Index(i) ==
    /\ ~Ended
    /\ i \notin solr
    /\ solr' = solr \cup {i}
    /\ UNCHANGED <<inputVars, pc, next, wanted, found, counted>>

Next ==
    \/ ReadRecord \/ ReadFails \/ CountRecords \/ LookupBatch \/ ListMissing \/ QueryFails
    \/ \E i \in Positions : Index(i)

Spec == Init /\ [][Next]_validateVars

-----------------------------------------------------------------------------

(* Besides: what was found was asked for, and the index only grows.        *)
ValidateTypeOK ==
    /\ isWarc \in BOOLEAN /\ revisits \in BOOLEAN /\ schema \in {"v2", "v3"}
    /\ file \in Seq(Record) /\ namesakes \in Nat
    /\ solr \subseteq Positions /\ found \subseteq ToSet(wanted) /\ counted \subseteq solr
    /\ pc \in {"read", "lookup", "agrees", "listed", "aborted"}
    /\ next \in 1..(Len(file) + 1)
    /\ wanted \in Seq(Positions)

(* The records that should be in the index, as the help and the README of  *)
(* the tool have it, for ARC files as well: the HTTP exchanges that have a *)
(* status that was asked for, revisits only if they are included. The      *)
(* first record of an ARC is no exchange, it describes the file.           *)
Indexable ==
    {i \in Positions :
        /\ isWarc \/ i # 1
        /\ file[i].type = "response" \/ (file[i].type = "revisit" /\ revisits)
        /\ file[i].status = "asked"}

(* What is listed as missing is missing: every record of a WARC that       *)
(* should be in the index and is not is listed, in whichever batch it      *)
(* falls, and none is listed that was there when the tool began to         *)
(* compare, although the index grows while the batches are looked up.      *)
MissingListExact ==
    isWarc /\ pc = "listed" =>
        /\ Indexable \ solr \subseteq Missing
        /\ Missing \subseteq Indexable \ counted

(* The documents that are counted for the file and should not be there.    *)
(* Those of revisits are not counted if these are not asked for (3.0 only).*)
Surplus ==
    {i \in counted \ Indexable : schema = "v3" => revisits \/ file[i].type = "response"}

(* The numbers of a WARC agree exactly if as many documents are missing as *)
(* there are too many, of records that should not be there or of another   *)
(* file whose name begins like this one's (2.0 only). So the tool never    *)
(* gives a false alarm, nor says that all is well while a record is        *)
(* missing, unless the index holds something that does not belong there.   *)
VerdictCorrect ==
    isWarc /\ pc \in {"agrees", "lookup", "listed"} =>
        (pc = "agrees" <=>
            Cardinality(Indexable \ counted) =
                Cardinality(Surplus) + (IF schema = "v2" THEN namesakes ELSE 0))

(* ARC files are validated like WARC files: if the numbers agree, and the  *)
(* index holds nothing else of this file or of its namesakes, then all     *)
(* that should be in the index is. It is not so: nothing is expected of an *)
(* ARC, and 0 documents are said to be the correct number.                 *)
ArcRecordsValidated ==
    ~isWarc /\ pc = "agrees" /\ Surplus = {} /\ namesakes = 0
        => Indexable \subseteq counted
=============================================================================
