------------------------------ MODULE MCRestore ------------------------------
(***************************************************************************)
(* Instances of Restore and Backups for TLC.                               *)
(***************************************************************************)
EXTENDS Backups
=============================================================================
