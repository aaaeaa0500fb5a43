-------------------------- MODULE MCCommClientChannel --------------------------
(***************************************************************************)
(* Instances of CommClientChannel for TLC.                                 *)
(***************************************************************************)
EXTENDS CommClientChannel

CONSTANTS f1, f2
=============================================================================
