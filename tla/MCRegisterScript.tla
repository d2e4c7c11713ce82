-------------------------- MODULE MCRegisterScript --------------------------
(***************************************************************************)
(* The registration script with two folders, one of them with two files,   *)
(* and two runs that cron may have started.                                *)
(***************************************************************************)
EXTENDS RegisterScript, TLC

CONSTANTS f1, f2, f3, d1, d2, p1, p2

TwoFolders == f1 :> d1 @@ f2 :> d1 @@ f3 :> d2
=============================================================================
