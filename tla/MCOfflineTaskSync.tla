-------------------------- MODULE MCOfflineTaskSync -------------------------
(* Small instances of OfflineTaskSync for TLC.                             *)
EXTENDS OfflineTaskSync, TLC
CONSTANTS t1, t2
MCDependsOn == t1 :> {} @@ t2 :> {t1}
Symmetry == Permutations(Syncs)
=============================================================================
