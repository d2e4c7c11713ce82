--------------------------- MODULE RegisterScript ---------------------------
(***************************************************************************)
(* register_add_arc_files.sh, started over and over by cron: it lists the  *)
(* folders that changed since they were last listed, and sends Archon the  *)
(* files that are listed and not yet noted as registered. What it knows is *)
(* kept in files, and survives when a run is killed at any point.          *)
(*                                                                         *)
(* Files are only ever added to a folder, and every addition advances its  *)
(* modification time, so the set of files that were there stands for the   *)
(* time. Archon is seen through the files that addOrUpdateARC has added.   *)
(* A file that is written under a name ending in .new and renamed changes  *)
(* in one step: what a killed run left under the .new name is overwritten. *)
(***************************************************************************)
EXTENDS Naturals, FiniteSets

CONSTANTS
    Files,        \* the ARC files there will be
    Dirs,         \* the folders /netarkiv/*/filedir
    FolderOf,     \* the folder every file belongs to
    Runs,         \* runs of the script that may exist at a time
    NoRun,        \* nobody holds $cache/lock
    MaxTroubles   \* bound: how often something goes wrong

ASSUME ScriptAssumption ==
    /\ IsFiniteSet(Files) /\ IsFiniteSet(Dirs)
    /\ FolderOf \in [Files -> Dirs]
    /\ NoRun \notin Runs
    /\ MaxTroubles \in Nat

VARIABLES
    disk,         \* the files that are in their folder
    timestamp,    \* $ts: the time a folder was listed at, {} if there is no such file
    listed,       \* $c: the files of a folder when it was listed, {} if there is no such file
    registered,   \* $r: the files of a folder that were sent
    archon,       \* the files Archon has added
    run,          \* for every run, where it is and what it remembers
    lock,         \* the run that holds the lock
    refused,      \* history: the files Archon answered with an HTTP error
    missed,       \* history: the files left out by a comparison that failed
    cut,          \* history: the folders whose last listing ended half-way
    troubles      \* how often something went wrong

fileVars == <<timestamp, listed, registered>>
scriptVars == <<disk, fileVars, archon, run, lock, refused, missed, cut, troubles>>

(* todo: the folders of the loop that remain; mtime: $ts.new; unsent: what *)
(* comm has printed and read has not read.                                 *)
Run == [at : {"idle", "scan", "ls", "stamp", "compare", "send"},
        todo : SUBSET Dirs, dir : Dirs, mtime : SUBSET Files, unsent : SUBSET Files]

Idle(d) == [at |-> "idle", todo |-> {}, dir |-> d, mtime |-> {}, unsent |-> {}]

In(d) == {f \in disk : FolderOf[f] = d}

Init ==
    /\ disk = {} /\ archon = {}
    /\ timestamp = [d \in Dirs |-> {}]
    /\ listed = [d \in Dirs |-> {}]
    /\ registered = [d \in Dirs |-> {}]
    /\ run \in [Runs -> {Idle(d) : d \in Dirs}]
    /\ lock = NoRun
    /\ refused = {} /\ missed = {} /\ cut = {} /\ troubles = 0

At(p, step) == run[p].at = step

Becomes(p, r) == run' = [run EXCEPT ![p] = r]

(* The run ends, and with it its lock.                                     *)
End(p) ==
    /\ Becomes(p, Idle(run[p].dir))
    /\ lock' = NoRun

Trouble == troubles < MaxTroubles /\ troubles' = troubles + 1

-----------------------------------------------------------------------------

(* A faulty variant of Start: the script does not lock.                    *)
StartUnlocked(p) ==
    /\ At(p, "idle")
    /\ Becomes(p, [run[p] EXCEPT !.at = "scan", !.todo = Dirs])
    /\ UNCHANGED <<disk, fileVars, archon, lock, refused, missed, cut, troubles>>

(* flock -n: a run that finds the lock taken ends at once.                 *)
Start(p) ==
    /\ At(p, "idle") /\ lock = NoRun
    /\ lock' = p
    /\ Becomes(p, [run[p] EXCEPT !.at = "scan", !.todo = Dirs])
    /\ UNCHANGED <<disk, fileVars, archon, refused, missed, cut, troubles>>

-----------------------------------------------------------------------------
(* The first loop: list what changed. Bound: the folders come in any order *)
(* and not in that of their names.                                         *)

(* A faulty variant of UpToDate: a folder is listed once.                  *)
ListedOnce(d) == timestamp[d] # {}

UpToDate(d) == timestamp[d] # {} /\ timestamp[d] = In(d)

Skip(p, d) ==
    /\ At(p, "scan") /\ d \in run[p].todo
    /\ UpToDate(d)
    /\ Becomes(p, [run[p] EXCEPT !.todo = @ \ {d}])
    /\ UNCHANGED <<disk, fileVars, archon, lock, refused, missed, cut, troubles>>

Touch(p, d) ==
    /\ At(p, "scan") /\ d \in run[p].todo
    /\ ~UpToDate(d)
    /\ Becomes(p, [run[p] EXCEPT !.at = "ls", !.dir = d, !.mtime = In(d)])
    /\ UNCHANGED <<disk, fileVars, archon, lock, refused, missed, cut, troubles>>

(* ls sees what was there when it began, and may see what came since. An   *)
(* empty listing makes grep fail, and set -e ends the script.              *)
List(p) ==
    LET d == run[p].dir IN
    /\ At(p, "ls")
    /\ \E seen \in SUBSET In(d) :
          /\ run[p].mtime \subseteq seen
          /\ IF seen = {}
             THEN End(p) /\ UNCHANGED <<listed, cut>>
             ELSE /\ listed' = [listed EXCEPT ![d] = seen]
                  /\ cut' = cut \ {d}
                  /\ Becomes(p, [run[p] EXCEPT !.at = "stamp"])
                  /\ UNCHANGED lock
    /\ UNCHANGED <<disk, timestamp, registered, archon, refused, missed, troubles>>

(* ls fails half-way. The pipeline has the status of grep, so nobody knows *)
(* as long as there was a first name.                                      *)
ListFails(p) ==
    LET d == run[p].dir IN
    /\ At(p, "ls") /\ Trouble
    /\ \E seen \in (SUBSET In(d)) \ {{}} :
          /\ listed' = [listed EXCEPT ![d] = seen]
          /\ cut' = cut \cup {d}
    /\ Becomes(p, [run[p] EXCEPT !.at = "stamp"])
    /\ UNCHANGED <<disk, timestamp, registered, archon, lock, refused, missed>>

(* A faulty variant of Stamp: the time is that of the folder now.          *)
StampNow(p) ==
    LET d == run[p].dir IN
    /\ At(p, "stamp")
    /\ timestamp' = [timestamp EXCEPT ![d] = In(d)]
    /\ Becomes(p, [run[p] EXCEPT !.at = "scan", !.todo = @ \ {d}])
    /\ UNCHANGED <<disk, listed, registered, archon, lock, refused, missed, cut, troubles>>

Stamp(p) ==
    LET d == run[p].dir IN
    /\ At(p, "stamp")
    /\ timestamp' = [timestamp EXCEPT ![d] = run[p].mtime]
    /\ Becomes(p, [run[p] EXCEPT !.at = "scan", !.todo = @ \ {d}])
    /\ UNCHANGED <<disk, listed, registered, archon, lock, refused, missed, cut, troubles>>

Scanned(p) ==
    /\ At(p, "scan") /\ run[p].todo = {}
    /\ Becomes(p, [run[p] EXCEPT !.at = "compare", !.todo = Dirs])
    /\ UNCHANGED <<disk, fileVars, archon, lock, refused, missed, cut, troubles>>

-----------------------------------------------------------------------------
(* The second loop: send what is new, then note all of it as sent.         *)

(* What the comparison prints is sent. What it leaves out although it is   *)
(* new is missed, until a later comparison finds it.                       *)
Compared(p, d, unsent) ==
    LET new == listed[d] \ registered[d] IN
    /\ At(p, "compare") /\ d \in run[p].todo
    /\ Becomes(p, [run[p] EXCEPT !.at = "send", !.dir = d, !.unsent = unsent])
    /\ missed' = (missed \ new) \cup (new \ unsent)
    /\ UNCHANGED <<disk, fileVars, archon, lock, refused, cut>>

Compare(p, d) == Compared(p, d, listed[d] \ registered[d]) /\ UNCHANGED troubles

(* A sort fails, in a process substitution, or comm, which is not the last *)
(* command of its pipeline: nobody knows, and too few names are read, or   *)
(* names that were sent before.                                            *)
CompareFails(p, d) == Trouble /\ \E unsent \in SUBSET listed[d] : Compared(p, d, unsent)

Sent(p, f) == Becomes(p, [run[p] EXCEPT !.unsent = @ \ {f}])

Send(p, f) ==
    /\ At(p, "send") /\ f \in run[p].unsent
    /\ archon' = archon \cup {f}
    /\ Sent(p, f)
    /\ UNCHANGED <<disk, fileVars, lock, refused, missed, cut, troubles>>

(* curl without -f succeeds whatever the HTTP status is.                   *)
SendRefused(p, f) ==
    /\ At(p, "send") /\ f \in run[p].unsent /\ Trouble
    /\ refused' = refused \cup {f}
    /\ Sent(p, f)
    /\ UNCHANGED <<disk, fileVars, archon, lock, missed, cut>>

(* A faulty variant of SendFails: the script goes on, as without set -e.   *)
SendFailsUnnoticed(p, f) ==
    /\ At(p, "send") /\ f \in run[p].unsent /\ Trouble
    /\ Sent(p, f)
    /\ UNCHANGED <<disk, fileVars, archon, lock, refused, missed, cut>>

(* No connection, or no answer: curl fails and set -e ends the loop, which *)
(* is the last command of its pipeline, and with it the script.            *)
SendFails(p, f) ==
    /\ At(p, "send") /\ f \in run[p].unsent /\ Trouble
    /\ archon' \in {archon, archon \cup {f}}
    /\ End(p)
    /\ UNCHANGED <<disk, fileVars, refused, missed, cut>>

(* cp and mv: all that is listed counts as registered from now on.         *)
Note(p) ==
    LET d == run[p].dir IN
    /\ At(p, "send") /\ run[p].unsent = {}
    /\ registered' = [registered EXCEPT ![d] = listed[d]]
    /\ Becomes(p, [run[p] EXCEPT !.at = "compare", !.todo = @ \ {d}])
    /\ UNCHANGED <<disk, timestamp, listed, archon, lock, refused, missed, cut, troubles>>

Done(p) ==
    /\ At(p, "compare") /\ run[p].todo = {}
    /\ End(p)
    /\ UNCHANGED <<disk, fileVars, archon, refused, missed, cut, troubles>>

-----------------------------------------------------------------------------

(* A harvester adds a file to its folder.                                  *)
Add(f) ==
    /\ f \notin disk
    /\ disk' = disk \cup {f}
    /\ UNCHANGED <<fileVars, archon, run, lock, refused, missed, cut, troubles>>

(* The run is killed, or its host goes down.                               *)
Kill(p) ==
    /\ ~At(p, "idle") /\ Trouble
    /\ End(p)
    /\ UNCHANGED <<disk, fileVars, archon, refused, missed, cut>>

Work(p) ==
    \/ \E d \in Dirs : Skip(p, d) \/ Touch(p, d) \/ Compare(p, d)
    \/ List(p) \/ Stamp(p) \/ Scanned(p) \/ Note(p) \/ Done(p)
    \/ \E f \in Files : Send(p, f)

Fails(p) ==
    \/ ListFails(p) \/ Kill(p)
    \/ \E d \in Dirs : CompareFails(p, d)
    \/ \E f \in Files : SendRefused(p, f) \/ SendFails(p, f)

Next ==
    \/ \E p \in Runs : Start(p) \/ Work(p) \/ Fails(p)
    \/ \E f \in Files : Add(f)

(* cron starts the script again and again, and a run that is not killed    *)
(* goes on. Nothing makes a harvester add files.                           *)
Fairness ==
    /\ WF_scriptVars(\E p \in Runs : Start(p))
    /\ \A p \in Runs : WF_scriptVars(Work(p))

Spec == Init /\ [][Next]_scriptVars /\ Fairness

-----------------------------------------------------------------------------

(* Besides: a run that does anything has the lock.                         *)
ScriptTypeOK ==
    /\ disk \subseteq Files /\ archon \subseteq Files
    /\ refused \subseteq Files /\ missed \subseteq Files
    /\ timestamp \in [Dirs -> SUBSET Files]
    /\ listed \in [Dirs -> SUBSET Files]
    /\ registered \in [Dirs -> SUBSET Files]
    /\ run \in [Runs -> Run]
    /\ \A p \in Runs : ~At(p, "idle") => lock = p
    /\ lock \in Runs \cup {NoRun}
    /\ cut \subseteq Dirs
    /\ troubles \in 0..MaxTroubles

(* A timestamp vouches for a listing: every file that was in the folder at *)
(* that time is listed, whenever files were added and runs were killed.    *)
(* Otherwise a file would never be listed while the folder stays the same. *)
(* The one exception is a listing that ended half-way.                     *)
TimestampVouches == \A d \in Dirs \ cut : timestamp[d] \subseteq listed[d]

(* What the script has noted as registered is with Archon, but for what    *)
(* fails unseen: Archon said no and curl does not tell, or a sort or comm  *)
(* failed and left it out. No call that fails, killed run or second run    *)
(* makes the script skip a file.                                           *)
RegisteredReached == \A d \in Dirs : registered[d] \subseteq archon \cup refused \cup missed

(* Every file in the folders gets to Archon, provided that no folder is    *)
(* empty: an empty one ends every run before it sends anything. Given up   *)
(* is only what one of the unseen failures left out and the same run then  *)
(* noted as registered, or a folder whose listing ended half-way.          *)
EveryFileRegistered ==
    \A f \in Files :
        f \in disk /\ (\A d \in Dirs : In(d) # {})
            ~> \/ f \in archon
               \/ f \in (refused \cup missed) \cap registered[FolderOf[f]]
               \/ FolderOf[f] \in cut
=============================================================================
