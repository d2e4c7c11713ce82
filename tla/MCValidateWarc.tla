--------------------------- MODULE MCValidateWarc ---------------------------
(***************************************************************************)
(* Every file of up to four records, looked up in batches of two: full     *)
(* batches, one that is not full, both, or none.                           *)
(***************************************************************************)
EXTENDS ValidateWarc
=============================================================================
