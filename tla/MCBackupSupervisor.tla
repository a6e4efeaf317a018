--------------------------- MODULE MCBackupSupervisor ---------------------------
EXTENDS BackupSupervisor, TLC

\* The callers differ in name only.
CallerSymmetry == Permutations(Callers)
=================================================================================
