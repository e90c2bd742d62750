-------------------------- MODULE MCBackupScheduler --------------------------
(* BackupScheduler for TLC.                                                *)
EXTENDS BackupScheduler, TLC
=============================================================================
