----------------------------- MODULE WriteOnce -----------------------------
(***************************************************************************)
(* What a column promises that is NULL until one UPDATE fills it in: a     *)
(* cell takes a value once and keeps it.  Sessions.tla implements it with  *)
(* the encryption keys of the enrollments.                                 *)
(***************************************************************************)
CONSTANTS Cell, Value, Empty

VARIABLE cells

CellsInit == cells = [c \in Cell |-> Empty]

Write(c, v) ==
    /\ cells[c] = Empty
    /\ cells' = [cells EXCEPT ![c] = v]

CellsNext == \E c \in Cell, v \in Value : Write(c, v)

CellsSpec == CellsInit /\ [][CellsNext]_cells

============================================================================
