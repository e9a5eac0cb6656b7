---------------------------- MODULE MCTaskScreen ----------------------------
(* Small instances of TaskScreen for TLC.                                  *)
EXTENDS TaskScreen, TLC
CONSTANTS t1, t2
MCDependsOn == t1 :> {} @@ t2 :> {t1}
=============================================================================
