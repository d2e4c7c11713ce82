--------------------------- MODULE MCIndexBuilder ---------------------------
(***************************************************************************)
(* A builder with two to four ARC files and two worker threads. The        *)
(* limits leave room for a size below the optimize limit, between it and   *)
(* the maximum, and over the maximum.                                      *)
(***************************************************************************)
EXTENDS IndexBuilder, TLC

(* ARC files are interchangeable: nothing compares their names.            *)
ArcSymmetry == Permutations(Arcs)
=============================================================================
