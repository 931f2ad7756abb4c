---------------------------- MODULE MCSyncService ----------------------------
(***************************************************************************)
(* Small instances of SyncService.                                         *)
(***************************************************************************)
EXTENDS SyncService, TLC

CONSTANTS p1, p2, t1, t2, i1, i2, i3

Ids == Permutations({i1, i2, i3})
SyncsAndIds == Permutations({p1, p2}) \cup Ids
=============================================================================
