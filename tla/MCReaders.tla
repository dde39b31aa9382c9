----------------------------- MODULE MCReaders -----------------------------
(***************************************************************************)
(* Readers on a small instance.                                            *)
(***************************************************************************)
EXTENDS Readers, TLC

Symmetry == Permutations(Key) \cup Permutations(TagSet)

============================================================================
