------------------------------ MODULE MCLinking ------------------------------
(***************************************************************************)
(* Instances of Linking for TLC.                                           *)
(***************************************************************************)
EXTENDS Linking

CONSTANTS i1, i2
=============================================================================
