--------------------------- MODULE MCConvergence ---------------------------
(***************************************************************************)
(* Convergence on a small instance: one promoter, two online keys and a    *)
(* key for each of two enrollments.                                        *)
(***************************************************************************)
EXTENDS Convergence, TLC

CONSTANTS e1, e2, p1, k1, k2, d1, d2

MCRegistry ==
    p1 :> [allowed_kinds |-> {"release_intent"}, enrollment_id |-> Unbound]
    @@ k1 :> [allowed_kinds |-> {"convergence_assignment"}, enrollment_id |-> Unbound]
    @@ k2 :> [allowed_kinds |-> {"convergence_assignment"}, enrollment_id |-> Unbound]
    @@ d1 :> [allowed_kinds |-> {"convergence_report"}, enrollment_id |-> e1]
    @@ d2 :> [allowed_kinds |-> {"convergence_report"}, enrollment_id |-> e2]

Symmetry == Permutations(Bundle) \cup Permutations(Device)

============================================================================
