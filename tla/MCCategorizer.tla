---------------------------- MODULE MCCategorizer ----------------------------
(***************************************************************************)
(* Small instances of Categorizer.                                         *)
(***************************************************************************)
EXTENDS Categorizer

CONSTANTS w1, w2
=============================================================================
