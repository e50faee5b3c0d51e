------------------------------ MODULE MCServer ------------------------------
(***************************************************************************)
(* Server for TLC.                                                         *)
(***************************************************************************)
EXTENDS Server

CONSTANT c1
=============================================================================
