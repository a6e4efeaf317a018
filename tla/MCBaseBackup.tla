------------------------------ MODULE MCBaseBackup ------------------------------
EXTENDS BaseBackup

\* The objects of a backup: its directory and the archive.
BackupObjects == (1..MaxBackups) \X (1..MaxArchives)
=================================================================================
