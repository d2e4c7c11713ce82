---------------------------- MODULE WorkerProofs ----------------------------
(***************************************************************************)
(* Proofs about one run of an index worker, for any batch, any output and  *)
(* any relation between the names of the files.                            *)
(***************************************************************************)
EXTENDS IndexWorker, TLAPS

(* What processARCs has decided, file by file, while it goes on.           *)
DecidedOK(a) ==
    /\ arcs[a] \in {"COMPLETED", "REJECTED"}
    /\ a \in Unambiguous /\ type = "shell" => (arcs[a] = "COMPLETED" <=> Reported(a))

WorkerInv ==
    /\ WorkerTypeOK
    /\ EveryFileDecided
    /\ StatusAsReported
    /\ unread # {} =>
          /\ type = "shell" /\ status = "RUNNING"
          /\ \A a \in Arcs \ unread : DecidedOK(a)

-----------------------------------------------------------------------------

LEMMA LinesTyped ==
    ASSUME NEW n \in Nat, NEW out \in BoundedSeq(Line, n)
    PROVE  Len(out) \in Nat /\ \A i \in 1..Len(out) : out[i] \in Line
<1>1. PICK m \in 0..n : out \in [1..m -> Line]
  BY DEF BoundedSeq, SeqOf
<1>2. Len(out) = m
  BY <1>1
<1> QED
  BY <1>1, <1>2

LEMMA NoLines == <<>> \in BoundedSeq(Line, MaxLines)
<1>1. MaxLines \in Nat
  BY WorkerAssumption
<1>2. <<>> \in [1..0 -> Line]
  OBVIOUS
<1> QED
  BY <1>1, <1>2 DEF BoundedSeq, SeqOf

(* The first line that matches an unambiguous name is about this very file,*)
(* so it reads zero exactly if the script reports the file.                *)
LEMMA FirstMatchDecides ==
    ASSUME WorkerTypeOK, NEW a \in Unambiguous, NEW i \in Matching(a),
           \A j \in Matching(a) : i <= j
    PROVE  Reported(a) <=> lines[i].code = "zero"
<1>1. Len(lines) \in Nat /\ \A j \in 1..Len(lines) : lines[j] \in Line
  BY LinesTyped, WorkerAssumption DEF WorkerTypeOK
<1>2. \A j \in 1..Len(lines) : j \in Matching(a) <=> lines[j].warc = a /\ lines[j].code # "none"
  BY <1>1 DEF Unambiguous, Matching, Mentions, Line
<1>3. i \in 1..Len(lines) /\ Matching(a) \subseteq 1..Len(lines)
  BY DEF Matching
<1>4. ASSUME lines[i].code = "zero"
      PROVE  Reported(a)
  <2>1. lines[i] = [code |-> "zero", warc |-> a]
    BY <1>1, <1>2, <1>3, <1>4 DEF Line
  <2>2. \A j \in 1..(i - 1) : j \in 1..Len(lines) /\ j < i
    BY <1>1, <1>3
  <2>3. \A j \in 1..(i - 1) : lines[j].warc = a => lines[j].code = "none"
    BY <1>1, <1>2, <1>3, <2>2
  <2> QED
    BY <1>3, <2>1, <2>3 DEF Reported
<1>5. ASSUME Reported(a)
      PROVE  lines[i].code = "zero"
  <2>1. PICK k \in 1..Len(lines) :
            /\ lines[k] = [code |-> "zero", warc |-> a]
            /\ \A j \in 1..(k - 1) : lines[j].warc = a => lines[j].code = "none"
    BY <1>5 DEF Reported
  <2>2. k \in Matching(a)
    BY <1>2, <2>1
  <2>3. ~(i < k)
    BY <1>1, <1>2, <1>3, <2>1
  <2>4. i = k
    BY <1>1, <1>3, <2>2, <2>3
  <2> QED
    BY <2>1, <2>4
<1> QED
  BY <1>4, <1>5

LEMMA NoMatchNoReport ==
    ASSUME NEW a \in Arcs, Matching(a) = {}
    PROVE  ~Reported(a)
<1> SUFFICES ASSUME NEW i \in 1..Len(lines), lines[i] = [code |-> "zero", warc |-> a]
             PROVE  FALSE
  BY DEF Reported
<1>1. lines[i].code = "zero" /\ lines[i].warc = a
  OBVIOUS
<1>2. i \in Matching(a)
  BY <1>1 DEF Matching, Mentions
<1> QED
  BY <1>2

-----------------------------------------------------------------------------

LEMMA WorkerInit == Init => WorkerInv
  BY NoLines DEF Init, WorkerInv, WorkerTypeOK, EveryFileDecided, StatusAsReported, Returned

(* Whatever went wrong, all files are rejected.                            *)
LEMMA RejectAllInv ==
    ASSUME WorkerInv, RejectAll, UNCHANGED <<type, lines>>
    PROVE  WorkerInv'
<1> USE DEF WorkerInv, RejectAll
<1>1. WorkerTypeOK'
  BY DEF WorkerTypeOK, AllRejected
<1>2. EveryFileDecided'
  BY DEF EveryFileDecided, Returned, AllRejected
<1>3. StatusAsReported'
  BY DEF StatusAsReported
<1> QED
  BY <1>1, <1>2, <1>3

(* A file is decided by its first matching line; the last one ends the run.*)
LEMMA DecideInv ==
    ASSUME WorkerInv, NEW a \in unread, NEW st \in {"COMPLETED", "REJECTED"},
           status = "RUNNING", Decide(a, st), UNCHANGED <<type, lines>>,
           a \in Unambiguous => (st = "COMPLETED" <=> Reported(a))
    PROVE  WorkerInv'
<1> USE DEF WorkerInv
<1>0. a \in Arcs /\ type = "shell"
  BY DEF WorkerTypeOK
<1>1. WorkerTypeOK'
  BY <1>0 DEF WorkerTypeOK, Decide
<1>2. \A b : Reported(b)' = Reported(b)
  BY DEF Reported
<1>3. Unambiguous' = Unambiguous
  BY DEF Unambiguous
<1>4. \A b \in Arcs \ unread' : DecidedOK(b)'
  <2> SUFFICES ASSUME NEW b \in Arcs \ unread'
               PROVE  DecidedOK(b)'
    OBVIOUS
  <2>1. CASE b = a
    BY <1>0, <1>2, <1>3, <2>1 DEF DecidedOK, Decide, WorkerTypeOK
  <2>2. CASE b # a
    <3>1. DecidedOK(b) /\ arcs'[b] = arcs[b]
      BY <1>0, <2>2 DEF Decide, WorkerTypeOK
    <3> QED
      BY <1>2, <1>3, <3>1 DEF DecidedOK
  <2> QED
    BY <2>1, <2>2
<1>5. /\ status' = "COMPLETED" => unread' = {}
      /\ unread' # {} => status' = "RUNNING"
  BY DEF Decide
<1>6. status' # "RUN_ERROR"
  BY DEF Decide
<1>7. EveryFileDecided' /\ StatusAsReported'
  BY <1>0, <1>2, <1>3, <1>4, <1>5, <1>6
     DEF EveryFileDecided, StatusAsReported, Returned, DecidedOK, Decide, Unambiguous
<1> QED
  BY <1>0, <1>1, <1>4, <1>5, <1>7

LEMMA ParseInv ==
    ASSUME WorkerInv, NEW a \in Arcs, Parse(a)
    PROVE  WorkerInv'
<1>1. CASE Matching(a) = {} /\ Decide(a, "REJECTED")
  BY <1>1, NoMatchNoReport, DecideInv DEF Parse
<1>2. ASSUME NEW i \in Matching(a), \A j \in Matching(a) : i <= j,
             lines[i].code = "zero", Decide(a, "COMPLETED")
      PROVE  WorkerInv'
  BY <1>2, FirstMatchDecides, DecideInv DEF Parse, WorkerInv
<1>3. ASSUME NEW i \in Matching(a), \A j \in Matching(a) : i <= j,
             lines[i].code = "positive", Decide(a, "REJECTED")
      PROVE  WorkerInv'
  <2>1. lines[i].code # "zero"
    BY <1>3
  <2> QED
    BY <1>3, <2>1, FirstMatchDecides, DecideInv DEF Parse, WorkerInv
<1>4. CASE RejectAll
  BY <1>4, RejectAllInv DEF Parse
<1> QED
  BY <1>1, <1>2, <1>3, <1>4 DEF Parse

LEMMA WorkerStep == WorkerInv /\ [Next]_workerVars => WorkerInv'
<1> SUFFICES ASSUME WorkerInv, [Next]_workerVars
             PROVE  WorkerInv'
  OBVIOUS
<1> USE DEF WorkerInv, WorkerTypeOK, EveryFileDecided, StatusAsReported, Returned
<1>1. CASE Call
  BY <1>1 DEF Call, DecidedOK, Reported, Unambiguous
<1>2. CASE ProcessFails
  BY <1>2, RejectAllInv DEF ProcessFails
<1>3. CASE JVMSucceeds
  BY <1>3 DEF JVMSucceeds
<1>4. CASE ShellSucceeds
  BY <1>4 DEF ShellSucceeds
<1>5. ASSUME NEW a \in Arcs, Parse(a) PROVE WorkerInv'
  BY <1>5, ParseInv
<1>6. CASE UNCHANGED workerVars
  BY <1>6 DEF workerVars, DecidedOK, Reported, Unambiguous
<1> QED
  BY <1>1, <1>2, <1>3, <1>4, <1>5, <1>6 DEF Next

LEMMA WorkerInvariant == Spec => []WorkerInv
  BY WorkerInit, WorkerStep, PTL DEF Spec

(* Status, output and the files that remain are well formed, in every run  *)
(* of a worker (IndexWorker.call).                                         *)
THEOREM WorkerTypeCorrect == Spec => []WorkerTypeOK
  BY WorkerInvariant, PTL DEF WorkerInv

(* A worker that returns has a decision on every file, so taskFinished     *)
(* leaves none leased, and a failure half-way takes all decisions back     *)
(* (the catch in IndexWorker.call).                                        *)
THEOREM WorkersDecideOnEveryFile == Spec => []EveryFileDecided
  BY WorkerInvariant, PTL DEF WorkerInv

(* IndexWorkerShellCall.processARCs reads the script's output right for    *)
(* every file whose name is not part of the name of another.               *)
THEOREM StatusesAsReported == Spec => []StatusAsReported
  BY WorkerInvariant, PTL DEF WorkerInv
=============================================================================
