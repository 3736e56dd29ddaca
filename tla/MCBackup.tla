------------------------------ MODULE MCBackup ------------------------------
(***************************************************************************)
(* The instances of BackupSession that TLC checks.                         *)
(***************************************************************************)
EXTENDS BackupSession, TLC

CONSTANTS f1, f2

\* One visit of each file.
OneTree == {<<f1, f2>>}

\* A directory of the list lies inside another: a file is visited twice.
OverlappingTrees == {<<f1, f1, f2>>, <<f1, f2, f1>>}
=============================================================================
