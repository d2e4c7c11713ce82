---------------------------- MODULE MCIndexWorker ----------------------------
(***************************************************************************)
(* A worker with two or three ARC files and output of up to three lines:   *)
(* lines that contradict each other, that miss a file, in any order.       *)
(***************************************************************************)
EXTENDS IndexWorker

CONSTANTS a1, a2, a3

(* a1 could be x.warc, and a2 x.warc.gz.                                   *)
OnePart == {<<a1, a2>>}
=============================================================================
