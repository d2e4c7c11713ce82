--------------------------- MODULE RegisterProofs ---------------------------
(***************************************************************************)
(* Proofs about the registration script, for any number of files, folders, *)
(* runs and troubles.                                                      *)
(***************************************************************************)
EXTENDS RegisterScript, TLAPS

(* A folder was listed in a state it was in.                               *)
StampedThen == \A d \in Dirs : timestamp[d] \subseteq In(d)

(* What a run remembers while it lists a folder: the time it took is that  *)
(* of a state the folder was in, not before the one it was listed in last; *)
(* and the listing it made is at least as recent.                          *)
ScanOK(p) ==
    LET d == run[p].dir IN
    /\ At(p, "ls") => timestamp[d] \subseteq run[p].mtime
    /\ At(p, "ls") \/ At(p, "stamp") => run[p].mtime \subseteq In(d)
    /\ At(p, "stamp") /\ d \notin cut => run[p].mtime \subseteq listed[d]

(* What a run that sends files has still to send.                          *)
SendOK(p) ==
    At(p, "send") =>
        listed[run[p].dir] \subseteq run[p].unsent \cup archon \cup refused \cup missed

(* What is noted of a folder are files of that folder.                     *)
FoldersApart ==
    \A d \in Dirs : \A f \in listed[d] \cup registered[d] : FolderOf[f] = d

ScriptInv ==
    /\ ScriptTypeOK
    /\ StampedThen
    /\ \A p \in Runs : ScanOK(p) /\ SendOK(p)
    /\ FoldersApart
    /\ TimestampVouches
    /\ RegisteredReached

-----------------------------------------------------------------------------

(* The invariant holds before the first run.                               *)
LEMMA InitInv == ASSUME Init PROVE ScriptInv
<1>1. ScriptTypeOK
  BY ScriptAssumption DEF Init, ScriptTypeOK, Run, Idle, At
<1>2. \A p \in Runs : ScanOK(p) /\ SendOK(p)
  BY DEF Init, ScanOK, SendOK, At, Idle
<1> QED
  BY <1>1, <1>2 DEF Init, ScriptInv, StampedThen, FoldersApart, TimestampVouches,
                        RegisteredReached

(* A step of the run that holds the lock, or takes it: the others are      *)
(* idle, so only this run and the files it changes need a look.            *)
LEMMA StepInv ==
  ASSUME ScriptInv, NEW p \in Runs, NEW r \in Run, Becomes(p, r),
         lock \in {p, NoRun}, lock' \in {p, NoRun}, r.at # "idle" => lock' = p,
         disk' \subseteq Files, archon' \subseteq Files, refused' \subseteq Files,
         missed' \subseteq Files,
         timestamp' \in [Dirs -> SUBSET Files], listed' \in [Dirs -> SUBSET Files],
         registered' \in [Dirs -> SUBSET Files],
         cut' \subseteq Dirs, troubles' \in 0..MaxTroubles,
         StampedThen', FoldersApart', TimestampVouches', RegisteredReached',
         ScanOK(p)', SendOK(p)'
  PROVE  ScriptInv'
<1> USE DEF ScriptInv
<1>1. run \in [Runs -> Run] /\ run' = [run EXCEPT ![p] = r]
  BY DEF Becomes, ScriptTypeOK
<1>2. \A q \in Runs \ {p} : run'[q] = run[q] /\ run[q].at = "idle"
  BY <1>1, ScriptAssumption DEF ScriptTypeOK, At
<1>3. run'[p] = r
  BY <1>1
<1>4. ScriptTypeOK'
  <2>1. run' \in [Runs -> Run]
    BY <1>1
  <2>2. (\A q \in Runs : ~At(q, "idle") => lock = q)'
    BY <1>2, <1>3 DEF At
  <2> QED
    BY <2>1, <2>2 DEF ScriptTypeOK
<1>5. \A q \in Runs \ {p} : (ScanOK(q) /\ SendOK(q))'
  BY <1>2 DEF ScanOK, SendOK, At
<1> QED
  BY <1>4, <1>5

(* A run that ends, and changes none of what the script knows. It may have *)
(* sent Archon one more file.                                              *)
LEMMA EndInv ==
  ASSUME ScriptInv, NEW p \in Runs, lock = p, End(p),
         UNCHANGED <<disk, fileVars, refused, missed, cut>>,
         archon \subseteq archon', archon' \subseteq Files, troubles' \in 0..MaxTroubles
  PROVE  ScriptInv'
<1> DEFINE r == Idle(run[p].dir)
<1>1. r \in Run /\ r.at = "idle"
  BY DEF ScriptInv, ScriptTypeOK, Run, Idle
<1>2. run'[p] = r
  BY DEF End, Becomes, ScriptInv, ScriptTypeOK
<1>3. ScanOK(p)' /\ SendOK(p)'
  BY <1>1, <1>2 DEF ScanOK, SendOK, At
<1>4. StampedThen' /\ FoldersApart' /\ TimestampVouches' /\ RegisteredReached'
  BY DEF ScriptInv, StampedThen, In, FoldersApart, TimestampVouches, RegisteredReached, fileVars
<1>5. Becomes(p, r) /\ lock' = NoRun
  BY DEF End
<1> HIDE DEF r
<1> QED
  BY <1>1, <1>3, <1>4, <1>5, StepInv DEF ScriptInv, ScriptTypeOK, fileVars

(* A step that changes the run only, and nothing that it was reading.      *)
LEMMA MoveInv ==
  ASSUME ScriptInv, NEW p \in Runs, NEW r \in Run, Becomes(p, r), r.at # "idle",
         lock \in {p, NoRun}, lock' = p,
         UNCHANGED <<disk, fileVars, archon, refused, missed, cut, troubles>>,
         r.at = "ls" => timestamp[r.dir] \subseteq r.mtime /\ r.mtime \subseteq In(r.dir),
         r.at # "stamp",
         r.at # "send"
  PROVE  ScriptInv'
<1>1. run'[p] = r
  BY DEF Becomes, ScriptInv, ScriptTypeOK
<1>2. ScanOK(p)' /\ SendOK(p)'
  BY <1>1 DEF ScanOK, SendOK, At, In, fileVars
<1>3. StampedThen' /\ FoldersApart' /\ TimestampVouches' /\ RegisteredReached'
  BY DEF ScriptInv, StampedThen, In, FoldersApart, TimestampVouches, RegisteredReached, fileVars
<1> QED
  BY <1>2, <1>3, StepInv DEF ScriptInv, ScriptTypeOK, fileVars

-----------------------------------------------------------------------------
(* One lemma for every action.                                             *)

LEMMA StartInv ==
  ASSUME ScriptInv, NEW p \in Runs, Start(p) PROVE ScriptInv'
<1> DEFINE r == [run[p] EXCEPT !.at = "scan", !.todo = Dirs]
<1>1. run[p] \in Run
  BY DEF ScriptInv, ScriptTypeOK
<1>2. r \in Run /\ r.at = "scan"
  BY <1>1 DEF Run
<1>3. Becomes(p, r)
  BY DEF Start
<1> HIDE DEF r
<1> QED
  BY <1>2, <1>3, MoveInv DEF Start

LEMMA SkipInv ==
  ASSUME ScriptInv, NEW p \in Runs, NEW d \in Dirs, Skip(p, d) PROVE ScriptInv'
<1> DEFINE r == [run[p] EXCEPT !.todo = @ \ {d}]
<1>1. run[p] \in Run /\ run[p].at = "scan" /\ lock = p
  BY DEF ScriptInv, ScriptTypeOK, Skip, At
<1>2. r \in Run /\ r.at = "scan"
  BY <1>1 DEF Run
<1>3. Becomes(p, r)
  BY DEF Skip
<1> HIDE DEF r
<1> QED
  BY <1>1, <1>2, <1>3, MoveInv DEF Skip

LEMMA TouchInv ==
  ASSUME ScriptInv, NEW p \in Runs, NEW d \in Dirs, Touch(p, d) PROVE ScriptInv'
<1> DEFINE r == [run[p] EXCEPT !.at = "ls", !.dir = d, !.mtime = In(d)]
<1>1. run[p] \in Run /\ run[p].at = "scan" /\ lock = p
  BY DEF ScriptInv, ScriptTypeOK, Touch, At
<1>2. In(d) \subseteq Files /\ timestamp[d] \subseteq In(d)
  BY DEF ScriptInv, ScriptTypeOK, StampedThen, In
<1>3. r \in Run /\ r.at = "ls" /\ r.dir = d /\ r.mtime = In(d)
  BY <1>1, <1>2 DEF Run
<1>4. Becomes(p, r)
  BY DEF Touch
<1> HIDE DEF r
<1> QED
  BY <1>1, <1>2, <1>3, <1>4, MoveInv DEF Touch

(* A listing, complete or not.                                             *)
LEMMA ListedInv ==
  ASSUME ScriptInv, NEW p \in Runs, At(p, "ls"),
         NEW seen \in SUBSET In(run[p].dir),
         listed' = [listed EXCEPT ![run[p].dir] = seen],
         Becomes(p, [run[p] EXCEPT !.at = "stamp"]),
         cut' \subseteq Dirs, cut \subseteq cut' \cup {run[p].dir},
         run[p].dir \notin cut' => run[p].mtime \subseteq seen,
         UNCHANGED <<disk, timestamp, registered, archon, lock, refused, missed>>,
         troubles' \in 0..MaxTroubles
  PROVE  ScriptInv'
<1> DEFINE d == run[p].dir
           r == [run[p] EXCEPT !.at = "stamp"]
<1>1. run[p] \in Run /\ run[p].at = "ls" /\ lock = p
  BY DEF ScriptInv, ScriptTypeOK, At
<1>2. r \in Run /\ r.at = "stamp" /\ r.dir = d /\ r.mtime = run[p].mtime
  BY <1>1 DEF Run
<1>3. run'[p] = r
  BY DEF Becomes, ScriptInv, ScriptTypeOK
<1>4. d \in Dirs /\ timestamp[d] \subseteq run[p].mtime /\ run[p].mtime \subseteq In(d)
  BY <1>1 DEF ScriptInv, ScanOK, At, Run
<1>5. listed' \in [Dirs -> SUBSET Files] /\ listed'[d] = seen
      /\ \A e \in Dirs \ {d} : listed'[e] = listed[e]
  BY <1>4 DEF ScriptInv, ScriptTypeOK, In
<1>6. ScanOK(p)' /\ SendOK(p)'
  BY <1>2, <1>3, <1>4, <1>5 DEF ScanOK, SendOK, At, In
<1>7. TimestampVouches'
  BY <1>4, <1>5 DEF ScriptInv, TimestampVouches
<1>8. StampedThen' /\ FoldersApart' /\ RegisteredReached'
  BY <1>4, <1>5 DEF ScriptInv, StampedThen, In, FoldersApart, RegisteredReached
<1> HIDE DEF r, d
<1> QED
  BY <1>1, <1>2, <1>5, <1>6, <1>7, <1>8, StepInv DEF ScriptInv, ScriptTypeOK, r

LEMMA ListInv ==
  ASSUME ScriptInv, NEW p \in Runs, List(p) PROVE ScriptInv'
<1>1. lock = p /\ NoRun # p
  BY ScriptAssumption DEF ScriptInv, ScriptTypeOK, List, At
<1>2. PICK seen \in SUBSET In(run[p].dir) :
         /\ run[p].mtime \subseteq seen
         /\ \/ End(p) /\ UNCHANGED <<listed, cut>>
            \/ /\ listed' = [listed EXCEPT ![run[p].dir] = seen]
               /\ cut' = cut \ {run[p].dir}
               /\ Becomes(p, [run[p] EXCEPT !.at = "stamp"])
               /\ UNCHANGED lock
  BY DEF List
<1>3. CASE End(p) /\ UNCHANGED <<listed, cut>>
  BY <1>1, <1>3, EndInv DEF List, ScriptInv, ScriptTypeOK, fileVars
<1>4. CASE /\ listed' = [listed EXCEPT ![run[p].dir] = seen]
           /\ cut' = cut \ {run[p].dir}
           /\ Becomes(p, [run[p] EXCEPT !.at = "stamp"])
           /\ UNCHANGED lock
  BY <1>2, <1>4, ListedInv DEF List, ScriptInv, ScriptTypeOK
<1> QED
  BY <1>2, <1>3, <1>4

LEMMA ListFailsInv ==
  ASSUME ScriptInv, NEW p \in Runs, ListFails(p) PROVE ScriptInv'
<1>1. PICK seen \in SUBSET In(run[p].dir) :
         /\ listed' = [listed EXCEPT ![run[p].dir] = seen]
         /\ cut' = cut \cup {run[p].dir}
  BY DEF ListFails
<1>2. run[p].dir \in Dirs /\ cut' \subseteq Dirs
  BY <1>1 DEF ScriptInv, ScriptTypeOK, Run
<1>3. troubles' \in 0..MaxTroubles
  BY ScriptAssumption DEF ScriptInv, ScriptTypeOK, ListFails, Trouble
<1> QED
  BY <1>1, <1>2, <1>3, ListedInv DEF ListFails

LEMMA StampInv ==
  ASSUME ScriptInv, NEW p \in Runs, Stamp(p) PROVE ScriptInv'
<1> DEFINE d == run[p].dir
           r == [run[p] EXCEPT !.at = "scan", !.todo = @ \ {d}]
<1>1. run[p] \in Run /\ run[p].at = "stamp" /\ lock = p
  BY DEF ScriptInv, ScriptTypeOK, Stamp, At
<1>2. r \in Run /\ r.at = "scan"
  BY <1>1 DEF Run
<1>3. Becomes(p, r) /\ run'[p] = r
  BY DEF Stamp, Becomes, ScriptInv, ScriptTypeOK
<1>4. d \in Dirs /\ run[p].mtime \subseteq In(d) /\ (d \notin cut => run[p].mtime \subseteq listed[d])
  BY <1>1 DEF ScriptInv, ScanOK, At, Run
<1>5. timestamp' \in [Dirs -> SUBSET Files] /\ timestamp'[d] = run[p].mtime
      /\ \A e \in Dirs \ {d} : timestamp'[e] = timestamp[e]
  BY <1>1, <1>4 DEF ScriptInv, ScriptTypeOK, Stamp, Run
<1>6. ScanOK(p)' /\ SendOK(p)'
  BY <1>2, <1>3 DEF ScanOK, SendOK, At
<1>7. TimestampVouches' /\ StampedThen'
  BY <1>4, <1>5 DEF ScriptInv, TimestampVouches, StampedThen, In, Stamp
<1>8. FoldersApart' /\ RegisteredReached'
  BY DEF ScriptInv, FoldersApart, RegisteredReached, Stamp
<1> HIDE DEF r, d
<1> QED
  BY <1>1, <1>2, <1>3, <1>5, <1>6, <1>7, <1>8, StepInv DEF ScriptInv, ScriptTypeOK, Stamp

LEMMA ScannedInv ==
  ASSUME ScriptInv, NEW p \in Runs, Scanned(p) PROVE ScriptInv'
<1> DEFINE r == [run[p] EXCEPT !.at = "compare", !.todo = Dirs]
<1>1. run[p] \in Run /\ run[p].at = "scan" /\ lock = p
  BY DEF ScriptInv, ScriptTypeOK, Scanned, At
<1>2. r \in Run /\ r.at = "compare"
  BY <1>1 DEF Run
<1>3. Becomes(p, r)
  BY DEF Scanned
<1> HIDE DEF r
<1> QED
  BY <1>1, <1>2, <1>3, MoveInv DEF Scanned

LEMMA ComparedInv ==
  ASSUME ScriptInv, NEW p \in Runs, NEW d \in Dirs, NEW unsent \in SUBSET listed[d],
         Compared(p, d, unsent), troubles' \in 0..MaxTroubles
  PROVE  ScriptInv'
<1> DEFINE r == [run[p] EXCEPT !.at = "send", !.dir = d, !.unsent = unsent]
           new == listed[d] \ registered[d]
<1>1. run[p] \in Run /\ run[p].at = "compare" /\ lock = p
  BY DEF ScriptInv, ScriptTypeOK, Compared, At
<1>2. listed[d] \subseteq Files /\ missed \subseteq Files
  BY DEF ScriptInv, ScriptTypeOK
<1>3. r \in Run /\ r.at = "send" /\ r.dir = d /\ r.unsent = unsent
  BY <1>1, <1>2 DEF Run
<1>4. /\ Becomes(p, r) /\ run'[p] = r /\ missed' = (missed \ new) \cup (new \ unsent)
      /\ UNCHANGED <<disk, fileVars, archon, lock, refused, cut>>
  BY DEF Compared, Becomes, ScriptInv, ScriptTypeOK
<1> HIDE DEF r
<1>5. \A e \in Dirs : registered[e] \cap new = {}
  BY DEF ScriptInv, FoldersApart
<1>6. RegisteredReached'
  BY <1>4, <1>5 DEF ScriptInv, RegisteredReached, fileVars
<1>7. listed[d] \subseteq unsent \cup archon \cup refused \cup missed'
  BY <1>4, <1>6 DEF RegisteredReached, fileVars
<1>8. missed' \subseteq Files
  BY <1>2, <1>4
<1> HIDE DEF new
<1>9. ScanOK(p)' /\ SendOK(p)'
  BY <1>3, <1>4, <1>7 DEF ScanOK, SendOK, At, fileVars
<1>10. StampedThen' /\ FoldersApart' /\ TimestampVouches'
  BY <1>4 DEF ScriptInv, StampedThen, In, FoldersApart, TimestampVouches, fileVars
<1> QED
  BY <1>1, <1>3, <1>4, <1>6, <1>8, <1>9, <1>10, StepInv DEF ScriptInv, ScriptTypeOK, fileVars

LEMMA CompareInv ==
  ASSUME ScriptInv, NEW p \in Runs, NEW d \in Dirs, Compare(p, d) PROVE ScriptInv'
<1>1. listed[d] \ registered[d] \in SUBSET listed[d] /\ troubles' \in 0..MaxTroubles
  BY DEF Compare, ScriptInv, ScriptTypeOK
<1> QED
  BY <1>1, ComparedInv DEF Compare

LEMMA CompareFailsInv ==
  ASSUME ScriptInv, NEW p \in Runs, NEW d \in Dirs, CompareFails(p, d) PROVE ScriptInv'
<1>1. troubles' \in 0..MaxTroubles
  BY ScriptAssumption DEF ScriptInv, ScriptTypeOK, CompareFails, Trouble
<1> QED
  BY <1>1, ComparedInv DEF CompareFails

(* A file is sent, whatever comes of it.                                   *)
LEMMA SentInv ==
  ASSUME ScriptInv, NEW p \in Runs, NEW f \in Files, At(p, "send"), Sent(p, f),
         f \in archon' \cup refused', archon \subseteq archon', refused \subseteq refused',
         archon' \subseteq Files, refused' \subseteq Files,
         UNCHANGED <<disk, fileVars, lock, missed, cut>>, troubles' \in 0..MaxTroubles
  PROVE  ScriptInv'
<1> DEFINE r == [run[p] EXCEPT !.unsent = @ \ {f}]
<1>1. run[p] \in Run /\ run[p].at = "send" /\ lock = p
  BY DEF ScriptInv, ScriptTypeOK, At
<1>2. r \in Run /\ r.at = "send" /\ r.dir = run[p].dir /\ r.unsent = run[p].unsent \ {f}
  BY <1>1 DEF Run
<1>3. Becomes(p, r) /\ run'[p] = r
  BY DEF Sent, Becomes, ScriptInv, ScriptTypeOK
<1>4. listed[run[p].dir] \subseteq run[p].unsent \cup archon \cup refused \cup missed
  BY <1>1 DEF ScriptInv, SendOK, At
<1>5. ScanOK(p)' /\ SendOK(p)'
  BY <1>2, <1>3, <1>4 DEF ScanOK, SendOK, At, fileVars
<1>6. StampedThen' /\ FoldersApart' /\ TimestampVouches' /\ RegisteredReached'
  BY DEF ScriptInv, StampedThen, In, FoldersApart, TimestampVouches, RegisteredReached, fileVars
<1> HIDE DEF r
<1> QED
  BY <1>1, <1>2, <1>3, <1>5, <1>6, StepInv DEF ScriptInv, ScriptTypeOK, fileVars

LEMMA SendInv ==
  ASSUME ScriptInv, NEW p \in Runs, NEW f \in Files, Send(p, f) PROVE ScriptInv'
BY SentInv DEF Send, ScriptInv, ScriptTypeOK

LEMMA SendRefusedInv ==
  ASSUME ScriptInv, NEW p \in Runs, NEW f \in Files, SendRefused(p, f) PROVE ScriptInv'
<1>1. troubles' \in 0..MaxTroubles
  BY ScriptAssumption DEF ScriptInv, ScriptTypeOK, SendRefused, Trouble
<1> QED
  BY <1>1, SentInv DEF SendRefused, ScriptInv, ScriptTypeOK

LEMMA SendFailsInv ==
  ASSUME ScriptInv, NEW p \in Runs, NEW f \in Files, SendFails(p, f) PROVE ScriptInv'
<1>1. troubles' \in 0..MaxTroubles
  BY ScriptAssumption DEF ScriptInv, ScriptTypeOK, SendFails, Trouble
<1>2. lock = p
  BY DEF ScriptInv, ScriptTypeOK, SendFails, At
<1>3. archon \subseteq archon' /\ archon' \subseteq Files
  BY DEF SendFails, ScriptInv, ScriptTypeOK
<1> QED
  BY <1>1, <1>2, <1>3, EndInv DEF SendFails

LEMMA NoteInv ==
  ASSUME ScriptInv, NEW p \in Runs, Note(p) PROVE ScriptInv'
<1> DEFINE d == run[p].dir
           r == [run[p] EXCEPT !.at = "compare", !.todo = @ \ {d}]
<1>1. run[p] \in Run /\ run[p].at = "send" /\ run[p].unsent = {} /\ lock = p
  BY DEF ScriptInv, ScriptTypeOK, Note, At
<1>2. r \in Run /\ r.at = "compare"
  BY <1>1 DEF Run
<1>3. Becomes(p, r) /\ run'[p] = r
  BY DEF Note, Becomes, ScriptInv, ScriptTypeOK
<1>4. d \in Dirs /\ listed[d] \subseteq archon \cup refused \cup missed
  BY <1>1 DEF ScriptInv, SendOK, At, Run
<1>5. registered' \in [Dirs -> SUBSET Files] /\ registered'[d] = listed[d]
      /\ \A e \in Dirs \ {d} : registered'[e] = registered[e]
  BY <1>4 DEF ScriptInv, ScriptTypeOK, Note
<1>6. ScanOK(p)' /\ SendOK(p)'
  BY <1>2, <1>3 DEF ScanOK, SendOK, At
<1>7. RegisteredReached'
  BY <1>4, <1>5 DEF ScriptInv, RegisteredReached, Note
<1>8. TimestampVouches' /\ StampedThen' /\ FoldersApart'
  BY <1>4, <1>5 DEF ScriptInv, TimestampVouches, StampedThen, In, FoldersApart, Note
<1> HIDE DEF r, d
<1> QED
  BY <1>1, <1>2, <1>3, <1>5, <1>6, <1>7, <1>8, StepInv DEF ScriptInv, ScriptTypeOK, Note

LEMMA DoneInv ==
  ASSUME ScriptInv, NEW p \in Runs, Done(p) PROVE ScriptInv'
<1>1. lock = p
  BY DEF ScriptInv, ScriptTypeOK, Done, At
<1> QED
  BY <1>1, EndInv DEF Done, ScriptInv, ScriptTypeOK

LEMMA KillInv ==
  ASSUME ScriptInv, NEW p \in Runs, Kill(p) PROVE ScriptInv'
<1>1. lock = p
  BY DEF ScriptInv, ScriptTypeOK, Kill
<1>2. troubles' \in 0..MaxTroubles
  BY ScriptAssumption DEF ScriptInv, ScriptTypeOK, Kill, Trouble
<1> QED
  BY <1>1, <1>2, EndInv DEF Kill, ScriptInv, ScriptTypeOK

(* A new file is in no listing and makes no timestamp older.               *)
LEMMA AddInv ==
  ASSUME ScriptInv, NEW f \in Files, Add(f) PROVE ScriptInv'
<1>1. \A d \in Dirs : In(d) \subseteq In(d)'
  BY DEF Add, In
<1>2. ScriptTypeOK'
  BY DEF ScriptInv, ScriptTypeOK, Add, fileVars, At
<1>3. \A p \in Runs : run[p].dir \in Dirs
  BY DEF ScriptInv, ScriptTypeOK, Run
<1>4. \A p \in Runs : (ScanOK(p) /\ SendOK(p))'
  BY <1>1, <1>3 DEF ScriptInv, ScanOK, SendOK, Add, fileVars, At
<1>5. StampedThen' /\ FoldersApart' /\ TimestampVouches' /\ RegisteredReached'
  BY <1>1
  DEF ScriptInv, StampedThen, FoldersApart, TimestampVouches, RegisteredReached, Add, fileVars
<1> QED
  BY <1>2, <1>4, <1>5 DEF ScriptInv

LEMMA StutterInv == ASSUME ScriptInv, UNCHANGED scriptVars PROVE ScriptInv'
BY DEF ScriptInv, ScriptTypeOK, StampedThen, ScanOK, SendOK, FoldersApart, TimestampVouches,
       RegisteredReached, In, At, scriptVars, fileVars

LEMMA NextInv == ASSUME ScriptInv, [Next]_scriptVars PROVE ScriptInv'
<1>1. ASSUME NEW p \in Runs, Work(p) PROVE ScriptInv'
  BY <1>1, SkipInv, TouchInv, CompareInv, ListInv, StampInv, ScannedInv, NoteInv, DoneInv,
     SendInv DEF Work
<1>2. ASSUME NEW p \in Runs, Fails(p) PROVE ScriptInv'
  BY <1>2, ListFailsInv, KillInv, CompareFailsInv, SendRefusedInv, SendFailsInv DEF Fails
<1> QED
  BY <1>1, <1>2, StartInv, AddInv, StutterInv DEF Next

-----------------------------------------------------------------------------

LEMMA ScriptInvariant == Spec => []ScriptInv
BY InitInv, NextInv, PTL DEF Spec

(* Whatever is added, killed or lost, the script's files are well formed,  *)
(* and only the run that has the lock does anything.                       *)
THEOREM ScriptTypeCorrect == Spec => []ScriptTypeOK
BY ScriptInvariant, PTL DEF ScriptInv

(* A folder whose timestamp says it is up to date has been listed in full, *)
(* unless ls failed without the script noticing.                           *)
THEOREM TimestampsVouch == Spec => []TimestampVouches
BY ScriptInvariant, PTL DEF ScriptInv

(* What the script has noted as registered was added by Archon, was        *)
(* refused by it, or was left out by a comparison that failed unseen: no   *)
(* kill, failed call or second run makes it skip a file.                   *)
THEOREM RegisteredFilesReached == Spec => []RegisteredReached
BY ScriptInvariant, PTL DEF ScriptInv
=============================================================================
