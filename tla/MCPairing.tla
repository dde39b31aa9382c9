----------------------------- MODULE MCPairing -----------------------------
(***************************************************************************)
(* PairingHistory on a small instance.                                     *)
(***************************************************************************)
EXTENDS PairingHistory, TLC

Symmetry ==
    UNION {Permutations(Enrollment), Permutations(Device),
           Permutations(Code), Permutations(KeyId)}

============================================================================
