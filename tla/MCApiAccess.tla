---------------------------- MODULE MCApiAccess ----------------------------
(* Small instances of ApiAccess for TLC. *)
EXTENDS ApiAccess, TLC

CallSymmetry == Permutations(Calls)

=============================================================================
