--------------------------- MODULE MCAdminRotation ---------------------------
(* Small instances of AdminRotation for TLC. *)
EXTENDS AdminRotation, TLC

RunSymmetry == Permutations(Runs)

=============================================================================
