---------------------------- MODULE BuilderLeases ----------------------------
(***************************************************************************)
(* What the index builder of one shard promises Archon, with no threads,   *)
(* batches or retries: it works only on files it has asked for since it    *)
(* was started, and it finishes only what it works on. It may drop any     *)
(* file at any time; a dropped file stays leased until the next start.     *)
(***************************************************************************)
CONSTANTS Arcs

VARIABLES
    status,    \* the status of every file this shard can get
    working    \* the files the builder works on

builderLeasesVars == <<status, working>>

Init ==
    /\ status = [a \in Arcs |-> "free"]
    /\ working = {}

(* The builder is started, and gets back what it, or its predecessor, had. *)
Restart ==
    /\ working' = {}
    /\ status' = [a \in Arcs |-> IF status[a] = "leased" THEN "free" ELSE status[a]]

(* A file is leased to the builder, which may stop working on others, or   *)
(* never learn of this one.                                                *)
Take(a) ==
    /\ status[a] = "free"
    /\ status' = [status EXCEPT ![a] = "leased"]
    /\ working' \subseteq working \cup {a}

Finish(a) ==
    /\ a \in working /\ status[a] = "leased"
    /\ status' = [status EXCEPT ![a] = "done"]
    /\ working' \subseteq working \ {a}

Drop ==
    /\ working' \subseteq working
    /\ UNCHANGED status

Next ==
    \/ Restart \/ Drop
    \/ \E a \in Arcs : Take(a) \/ Finish(a)

Spec == Init /\ [][Next]_builderLeasesVars

(* Beside other builders, an operator and new files: they may do anything  *)
(* to a file, unless this builder is working on it.                        *)
Environment ==
    /\ \A a \in working : status'[a] = status[a]
    /\ UNCHANGED working

OpenNext == Next \/ Environment
=============================================================================
