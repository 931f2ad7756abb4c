---------------------------- MODULE MCSyncWorker ----------------------------
(***************************************************************************)
(* Instances of SyncWorker for TLC.                                        *)
(***************************************************************************)
EXTENDS SyncWorker

CONSTANTS i1, i2
=============================================================================
