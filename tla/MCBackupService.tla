---------------------------- MODULE MCBackupService ----------------------------
(* BackupService on small instances for TLC.                                    *)
EXTENDS BackupProperties, TLC

CONSTANTS a, b

\* Chunks of different lengths; two archives that share one, and an empty one.
MCSizeOf   == (a :> 1) @@ (b :> 3)
MCArchives == {<<>>, <<a>>, <<a, b>>}
===============================================================================
