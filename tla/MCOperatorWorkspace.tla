------------------------ MODULE MCOperatorWorkspace ------------------------
(***************************************************************************)
(* Instances of OperatorWorkspace for TLC.                                 *)
(***************************************************************************)
EXTENDS OperatorWorkspace
=============================================================================
