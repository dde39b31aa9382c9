-------------------------- MODULE MCRolloutHistory --------------------------
(***************************************************************************)
(* RolloutHistory on a small instance.                                     *)
(***************************************************************************)
EXTENDS RolloutHistory, TLC

Symmetry == Permutations(Revision) \cup Permutations(Nonce)

============================================================================
