---------------------------- MODULE MCAdminGate ----------------------------
(***************************************************************************)
(* AdminGate on a small instance.                                          *)
(***************************************************************************)
EXTENDS AdminGate, TLC

Symmetry ==
    Permutations(Thread) \cup Permutations(Nonce) \cup Permutations(Key)

============================================================================
