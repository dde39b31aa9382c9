---------------------------- MODULE MCBlobStore ----------------------------
(***************************************************************************)
(* BlobStore on a small instance: every blob has one byte.                 *)
(***************************************************************************)
EXTENDS BlobStore

Bytes == [b \in Blob |-> 1]

============================================================================
