------------------------------ MODULE MCVolume ------------------------------
(***************************************************************************)
(* Instances of Volume for TLC.  What may go wrong is named per run.       *)
(***************************************************************************)
EXTENDS Volume, TLC

CONSTANTS b1, b2, v1

MCBlocks == {b1, b2}
MCOneValue == {v1}
Symmetry == Permutations(MCBlocks)

\* Failures after which no process can reopen the file with its newest
\* superblock unflushed.
PowerFaults == {"create", "open_sync", "append", "data_sync", "super", "power"}

\* After creation the process may die anywhere, and the last flush of a
\* commit or of a flag change may fail.
CrashFaults == {"commit_sync", "flag_sync", "kill", "power"}

\* The process dies in mark_dirty or mark_clean, a later one loses power.
KillFaults == {"kill", "power"}

WriteAndFlag == {"write", "flag"}

=============================================================================
