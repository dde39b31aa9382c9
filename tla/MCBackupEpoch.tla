--------------------------- MODULE MCBackupEpoch ---------------------------
(***************************************************************************)
(* BackupEpoch on a small instance: every blob has one byte.               *)
(***************************************************************************)
EXTENDS BackupEpoch, TLC

Bytes == [b \in Blob |-> 1]

Symmetry == Permutations(Blob) \cup Permutations(Name)

============================================================================
