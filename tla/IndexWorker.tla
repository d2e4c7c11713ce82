----------------------------- MODULE IndexWorker -----------------------------
(***************************************************************************)
(* One run of an index worker: the process it calls, and how the worker    *)
(* turns the exit code and the output of that process into a status for    *)
(* every ARC file of its batch. IndexBuilder sees the result only.         *)
(*                                                                         *)
(* A line of output is kept as what the parser can tell of it: the number  *)
(* it starts with, if any, and the ARC file whose name it spells. The name *)
(* of one file can be part of the name of another (a.warc and a.warc.gz),  *)
(* and then a line about the second contains the name of the first.        *)
(***************************************************************************)
EXTENDS Integers, SequencesExt

CONSTANTS
    Arcs,        \* the batch
    PartOf,      \* <<a, b>>: the name of a is a proper part of the name of b
    MaxLines     \* bound: lines of output

ASSUME WorkerAssumption ==
    /\ PartOf \subseteq Arcs \X Arcs
    /\ \A a \in Arcs : <<a, a>> \notin PartOf
    /\ MaxLines \in Nat

VARIABLES
    type,       \* arctika.worker_type, which createWorker chooses the class by
    status,     \* IndexWorker.status
    arcs,       \* the status of every ARC file
    lines,      \* the output of the process
    unread      \* the files that processARCs has not come to

workerVars == <<type, status, arcs, lines, unread>>

(* A line starts with no number, with one that is an int, or with one that *)
(* is too large for an int.                                                *)
Code == {"none", "zero", "positive", "huge"}
Line == [code : Code, warc : Arcs]

(* A faulty variant of AllRejected: the files are left as they were leased.*)
AllRunning == [a \in Arcs |-> "RUNNING"]

AllRejected == [a \in Arcs |-> "REJECTED"]

Init ==
    /\ type \in {"jvm", "shell"}
    /\ status = "NEW"
    /\ arcs = [a \in Arcs |-> "NEW"]
    /\ lines = <<>>
    /\ unread = {}

Call ==
    /\ status = "NEW"
    /\ status' = "RUNNING"
    /\ UNCHANGED <<type, arcs, lines, unread>>

(* A faulty variant of RejectAll: what was decided before stays.           *)
RejectNone ==
    /\ status' = "RUN_ERROR"
    /\ unread' = {}
    /\ UNCHANGED arcs

(* An exception, which call catches, or an exit code that is not expected. *)
RejectAll ==
    /\ status' = "RUN_ERROR"
    /\ arcs' = AllRejected
    /\ unread' = {}

(* The configuration is missing, or the process cannot be started, or runs *)
(* into its timeout, or ends with another exit code than 0.                *)
ProcessFails ==
    /\ status = "RUNNING" /\ unread = {}
    /\ RejectAll
    /\ UNCHANGED <<type, lines>>

(* IndexWorkerSpawnJVM: one exit code for the whole batch.                 *)
JVMSucceeds ==
    /\ type = "jvm" /\ status = "RUNNING"
    /\ status' = "COMPLETED"
    /\ arcs' = [a \in Arcs |-> "COMPLETED"]
    /\ UNCHANGED <<type, lines, unread>>

(* IndexWorkerShellCall: the output is searched for one file at a time.    *)
ShellSucceeds ==
    /\ type = "shell" /\ status = "RUNNING" /\ unread = {}
    /\ lines' \in BoundedSeq(Line, MaxLines)
    /\ unread' = Arcs
    /\ UNCHANGED <<type, status, arcs>>

Mentions(line, a) == line.warc = a \/ <<a, line.warc>> \in PartOf

(* A faulty variant of Matching: the name is not looked for.               *)
MatchingAnyName(a) == {i \in 1..Len(lines) : lines[i].code # "none"}

(* The lines that are about a, or seem to be.                              *)
Matching(a) ==
    {i \in 1..Len(lines) : Mentions(lines[i], a) /\ lines[i].code # "none"}

Decide(a, st) ==
    /\ arcs' = [arcs EXCEPT ![a] = st]
    /\ unread' = unread \ {a}
    /\ status' = IF unread = {a} THEN "COMPLETED" ELSE "RUNNING"

(* An ARC file's first matching line decides; no line means REJECTED. A    *)
(* number too large for an int throws, and call rejects the whole batch.   *)
Parse(a) ==
    /\ status = "RUNNING" /\ a \in unread
    /\ \/ Matching(a) = {} /\ Decide(a, "REJECTED")
       \/ \E i \in Matching(a) :
             /\ \A j \in Matching(a) : i <= j
             /\ \/ lines[i].code = "zero" /\ Decide(a, "COMPLETED")
                \/ lines[i].code = "positive" /\ Decide(a, "REJECTED")
                \/ lines[i].code = "huge" /\ RejectAll
    /\ UNCHANGED <<type, lines>>

Next ==
    \/ Call \/ ProcessFails \/ JVMSucceeds \/ ShellSucceeds
    \/ \E a \in Arcs : Parse(a)

Spec == Init /\ [][Next]_workerVars

Returned == status \in {"COMPLETED", "RUN_ERROR"}

-----------------------------------------------------------------------------

WorkerTypeOK ==
    /\ type \in {"jvm", "shell"}
    /\ status \in {"NEW", "RUNNING", "COMPLETED", "RUN_ERROR"}
    /\ arcs \in [Arcs -> {"NEW", "COMPLETED", "REJECTED"}]
    /\ lines \in BoundedSeq(Line, MaxLines)
    /\ unread \subseteq Arcs

(* taskFinished acts on COMPLETED and REJECTED only, and leaves any other  *)
(* file leased for ever: a worker that returns has decided on every file,  *)
(* and one that failed half-way has taken back what it decided before.     *)
EveryFileDecided ==
    /\ Returned => \A a \in Arcs : arcs[a] \in {"COMPLETED", "REJECTED"}
    /\ status = "RUN_ERROR" => arcs = AllRejected

(* The script says that it has indexed a: the first line with a number and *)
(* this very file starts with zero.                                        *)
Reported(a) ==
    \E i \in 1..Len(lines) :
        /\ lines[i] = [code |-> "zero", warc |-> a]
        /\ \A j \in 1..(i - 1) : lines[j].warc = a => lines[j].code = "none"

Unambiguous == {a \in Arcs : \A b \in Arcs : <<a, b>> \notin PartOf}

(* A file whose name is not part of another one is COMPLETED if and only   *)
(* if the script says so, in whatever order and however often the lines    *)
(* come, and whatever the names of the other files are part of.            *)
StatusAsReported ==
    type = "shell" /\ status = "COMPLETED" =>
        \A a \in Unambiguous : arcs[a] = "COMPLETED" <=> Reported(a)

-----------------------------------------------------------------------------
(* What the comments promise, and the code does not keep.                  *)

(* IndexWorkerShellCall: the script is "expected to output the status for  *)
(* the (W)ARCs on stdout with the pattern <return_code> <warc>". A file is *)
(* COMPLETED after a shell call only if a line says so of that very file.  *)
CompletedAsReported ==
    type = "shell" =>
        \A a \in Arcs : arcs[a] = "COMPLETED" =>
            \E i \in 1..Len(lines) : lines[i] = [code |-> "zero", warc |-> a]
=============================================================================
